------------------------- MODULE BlockTrackerProofs -------------------------
(* Proofs about the block tracker, for any clients, blocks and MaxQueue. *)
EXTENDS BlockTracker, TLAPS

\* The inductive invariant: typing alone carries the missed-request invariant.
IInv == TypeOK /\ NoMissedRequest

\* What consuming a set of offers does to one entry of the two tables.
LEMMA AcceptEntry ==
    ASSUME TypeOK, NEW S, Accept(S), NEW c \in Client, NEW b \in Block
    PROVE  /\ <<c, b>> \in S => /\ offers'[c][b] = "none"
                                /\ blockTx'[c][b] = blockTx[c][b] + 1
           /\ <<c, b>> \notin S => /\ offers'[c][b] = offers[c][b]
                                   /\ blockTx'[c][b] = blockTx[c][b]
  BY DEF Accept

\* Consuming offers preserves the types of the two tables.
LEMMA AcceptType ==
    ASSUME TypeOK, NEW S, Accept(S)
    PROVE  /\ offers' \in [Client -> [Block -> OfferState \cup {"none"}]]
           /\ blockTx' \in [Client -> [Block -> Nat]]
  BY DEF TypeOK, Accept

\* Consuming offers of registered clients leaves the other clients without any.
LEMMA AcceptOthers ==
    ASSUME TypeOK, NEW S, Accept(S), \A c \in Client \ clients, b \in Block : <<c, b>> \notin S
    PROVE  \A c \in Client \ clients : offers'[c] = NoOffers /\ blockTx'[c] = NothingSent
<1> TAKE c \in Client \ clients
<1>1. offers'[c] = [b \in Block |-> IF <<c, b>> \in S THEN "none" ELSE offers[c][b]]
  BY DEF Accept
<1>2. blockTx'[c] = [b \in Block |-> IF <<c, b>> \in S THEN blockTx[c][b] + 1 ELSE blockTx[c][b]]
  BY DEF Accept
<1>3. \A b \in Block : offers[c][b] = "none" /\ blockTx[c][b] = 0
  BY DEF TypeOK, NoOffers, NothingSent
<1> QED BY <1>1, <1>2, <1>3 DEF NoOffers, NothingSent

\* Clients that are not registered have no offers.
LEMMA OffersAreRegistered ==
    ASSUME TypeOK, NEW states \in SUBSET OfferState, NEW c \in Client \ clients, NEW b \in Block
    PROVE  <<c, b>> \notin OffersIn(states)
<1>1. offers[c][b] = "none"
  BY DEF TypeOK, NoOffers
<1>2. "none" \notin states
  BY DEF OfferState
<1> QED BY <1>1, <1>2 DEF OffersIn

\* Every step of the worker preserves the types of its state.
LEMMA TypeStep == TypeOK /\ [Next]_vars => TypeOK'
<1> SUFFICES ASSUME TypeOK, [Next]_vars PROVE TypeOK'
  OBVIOUS
<1> DEFINE Unregistered ==
      \A c \in Client \ clients : offers[c] = NoOffers /\ blockTx[c] = NothingSent
<1>0. Unregistered
  BY DEF TypeOK
<1>1. ASSUME NEW c \in Client, InsertClient(c) \/ RemoveClient(c) PROVE TypeOK'
  <2>1. /\ NoOffers \in [Block -> OfferState \cup {"none"}]
        /\ NothingSent \in [Block -> Nat]
    BY DEF NoOffers, NothingSent
  <2>2. /\ offers' = [offers EXCEPT ![c] = NoOffers]
        /\ blockTx' = [blockTx EXCEPT ![c] = NothingSent]
        /\ Client \ clients' \subseteq (Client \ clients) \cup {c}
        /\ clients' \in SUBSET Client
        /\ UNCHANGED <<required, mode>>
    BY <1>1 DEF InsertClient, RemoveClient, TypeOK
  <2>3. offers' \in [Client -> [Block -> OfferState \cup {"none"}]]
    BY <2>1, <2>2 DEF TypeOK
  <2>4. blockTx' \in [Client -> [Block -> Nat]]
    BY <2>1, <2>2 DEF TypeOK
  <2>5. NoOffers' = NoOffers /\ NothingSent' = NothingSent
    BY DEF NoOffers, NothingSent
  <2>6. \A d \in Client \ clients' : offers'[d] = NoOffers /\ blockTx'[d] = NothingSent
    BY <1>0, <2>2 DEF TypeOK
  <2> QED BY <2>2, <2>3, <2>4, <2>5, <2>6 DEF TypeOK
<1>a. ASSUME NEW S, Accept(S), UNCHANGED <<clients, mode>>, required' \in SUBSET Block,
             \A c \in Client \ clients, b \in Block : <<c, b>> \notin S
      PROVE  TypeOK'
  <2>1. \A c \in Client \ clients : offers'[c] = NoOffers /\ blockTx'[c] = NothingSent
    BY <1>a, AcceptOthers
  <2> QED BY <1>a, <2>1, AcceptType DEF TypeOK, NoOffers, NothingSent
<1>2. ASSUME NEW m \in Mode, SetRequestMode(m) PROVE TypeOK'
  <2>1. CASE m = "Greedy"
    <3>1. \A c \in Client \ clients, b \in Block : <<c, b>> \notin OffersIn({"Approved"})
      BY OffersAreRegistered DEF OfferState
    <3>2. Accept(OffersIn({"Approved"})) /\ required' = {} /\ mode' = m /\ clients' = clients
      BY <1>2, <2>1 DEF SetRequestMode
    <3>3. \A c \in Client \ clients : offers'[c] = NoOffers /\ blockTx'[c] = NothingSent
      BY <3>1, <3>2, AcceptOthers
    <3> QED BY <3>2, <3>3, AcceptType DEF TypeOK, NoOffers, NothingSent
  <2>2. CASE m # "Greedy"
    BY <1>2, <2>2 DEF TypeOK, SetRequestMode, NoOffers, NothingSent
  <2> QED BY <2>1, <2>2
<1>3. ASSUME NEW b \in Block, InsertRequired(b) PROVE TypeOK'
  <2> DEFINE states == IF mode = "Greedy" THEN OfferState ELSE {"Approved"}
             S == OffersIn(states) \cap (Client \X {b})
  <2>1. \A c \in Client \ clients, d \in Block : <<c, d>> \notin S
    BY OffersAreRegistered DEF OfferState
  <2>2. Accept(S) /\ required' \in SUBSET Block /\ UNCHANGED <<clients, mode>>
    BY <1>3 DEF InsertRequired, TypeOK
  <2> HIDE DEF S
  <2> QED BY <1>a, <2>1, <2>2
<1>4. ASSUME NEW b \in Block, ApproveOffers(b) PROVE TypeOK'
  <2>1. CASE Wanted(b)
    <3> DEFINE S == OffersIn(OfferState) \cap (Client \X {b})
    <3>1. \A c \in Client \ clients, d \in Block : <<c, d>> \notin S
      BY OffersAreRegistered
    <3>2. Accept(S) /\ required' \in SUBSET Block /\ UNCHANGED <<clients, mode>>
      BY <1>4, <2>1 DEF ApproveOffers, TypeOK
    <3> HIDE DEF S
    <3> QED BY <1>a, <3>1, <3>2
  <2>2. CASE ~Wanted(b)
    <3>1. offers' = [c \in Client |-> [offers[c] EXCEPT ![b] =
                       IF @ = "none" THEN @ ELSE "Approved"]]
      BY <1>4, <2>2 DEF ApproveOffers
    <3>2. ASSUME NEW c \in Client \ clients PROVE offers'[c] = NoOffers
      BY <1>0, <3>1 DEF NoOffers
    <3> QED BY <1>4, <2>2, <3>2 DEF TypeOK, ApproveOffers, OfferState, NoOffers, NothingSent
  <2> QED BY <2>1, <2>2
<1>5. CASE ClearRequired
  BY <1>5 DEF TypeOK, ClearRequired, NoOffers, NothingSent
<1>6. ASSUME NEW c \in Client, NEW b \in Block, NEW s \in OfferState,
             InsertOffer(c, b, s)
      PROVE  TypeOK'
  <2>1. CASE s = "Approved" /\ offers[c][b] # "Approved" /\ Wanted(b)
    <3>1. Accept({<<c, b>>}) /\ UNCHANGED <<clients, mode>> /\ required' \in SUBSET Block
      BY <1>6, <2>1 DEF InsertOffer, TypeOK
    <3>2. \A d \in Client \ clients, x \in Block : <<d, x>> \notin {<<c, b>>}
      BY <1>6 DEF InsertOffer
    <3> QED BY <1>a, <3>1, <3>2
  <2>2. CASE ~(s = "Approved" /\ offers[c][b] # "Approved" /\ Wanted(b))
    <3>1. PICK v \in OfferState : offers' = [offers EXCEPT ![c][b] = v]
      BY <1>6, <2>2 DEF TypeOK, InsertOffer, OfferState
    <3>2. c \in clients /\ UNCHANGED <<clients, required, mode, blockTx>>
      BY <1>6, <2>2 DEF InsertOffer
    <3>3. \A d \in Client \ clients : offers'[d] = offers[d]
      BY <3>1, <3>2 DEF TypeOK
    <3> QED BY <3>1, <3>2, <3>3 DEF TypeOK, NoOffers, NothingSent
  <2> QED BY <2>1, <2>2
<1>7. ASSUME NEW c \in Client, NEW b \in Block, RequestBlocks(c, b) PROVE TypeOK'
  <2>1. c \in clients
    BY <1>0, <1>7 DEF RequestBlocks, NothingSent
  <2>2. \A d \in Client \ clients : blockTx'[d] = blockTx[d]
    BY <1>7, <2>1 DEF RequestBlocks, TypeOK
  <2>3. blockTx' \in [Client -> [Block -> Nat]]
    BY <1>7 DEF RequestBlocks, TypeOK
  <2> QED BY <1>7, <2>2, <2>3 DEF TypeOK, RequestBlocks, NoOffers, NothingSent
<1>8. CASE UNCHANGED vars
  BY <1>8 DEF TypeOK, vars, NoOffers, NothingSent
<1> QED BY <1>1, <1>2, <1>3, <1>4, <1>5, <1>6, <1>7, <1>8 DEF Next

\* The worker's state and the channels stay well typed.
THEOREM TypeCorrect == Spec => []TypeOK
<1>1. Init => TypeOK
  BY DEF Init, TypeOK, NoOffers, NothingSent, Mode
<1> QED BY <1>1, TypeStep, PTL DEF Spec

\* Every step keeps approved offers of wanted blocks out of the table.
LEMMA NoMissedRequestStep == IInv /\ [Next]_vars => NoMissedRequest'
<1> SUFFICES ASSUME IInv, [Next]_vars,
                    NEW d \in clients', NEW x \in Block,
                    offers'[d][x] = "Approved"
             PROVE  ~Wanted(x)'
  BY DEF NoMissedRequest
<1> USE DEF IInv
<1>0. TypeOK /\ TypeOK' /\ d \in Client
  BY TypeStep DEF TypeOK
<1>a. d \in clients /\ offers[d][x] = "Approved" => ~Wanted(x)
  BY DEF NoMissedRequest
<1>1. ASSUME NEW c \in Client, InsertClient(c) \/ RemoveClient(c)
      PROVE  ~Wanted(x)'
  <2>1. d # c
    BY <1>0, <1>1 DEF InsertClient, RemoveClient, TypeOK, NoOffers
  <2> QED BY <1>0, <1>1, <1>a, <2>1 DEF InsertClient, RemoveClient, TypeOK, Wanted
<1>2. ASSUME NEW m \in Mode, SetRequestMode(m) PROVE ~Wanted(x)'
  <2>1. CASE m = "Greedy"
    <3>1. <<d, x>> \notin OffersIn({"Approved"}) => offers[d][x] # "Approved"
      BY <1>0 DEF OffersIn
    <3> QED BY <1>0, <1>2, <2>1, <3>1, AcceptEntry DEF SetRequestMode
  <2>2. CASE m # "Greedy"
    BY <1>2, <1>a, <2>2 DEF SetRequestMode, Wanted
  <2> QED BY <2>1, <2>2
<1>3. ASSUME NEW b \in Block, InsertRequired(b) PROVE ~Wanted(x)'
  <2> DEFINE S == OffersIn(IF mode = "Greedy" THEN OfferState ELSE {"Approved"})
                    \cap (Client \X {b})
  <2>1. <<d, x>> \notin S /\ offers[d][x] = "Approved"
    BY <1>0, <1>3, AcceptEntry DEF InsertRequired
  <2>2. x # b
    BY <1>0, <2>1 DEF OffersIn, OfferState
  <2> QED BY <1>3, <1>a, <2>1, <2>2 DEF InsertRequired, Wanted
<1>4. ASSUME NEW b \in Block, ApproveOffers(b) PROVE ~Wanted(x)'
  <2>1. CASE Wanted(b)
    <3>1. offers[d][x] = "Approved"
      BY <1>0, <1>4, <2>1, AcceptEntry DEF ApproveOffers
    <3> QED BY <1>4, <1>a, <3>1 DEF ApproveOffers, Wanted
  <2>2. CASE ~Wanted(b) /\ x # b
    <3>1. offers[d][x] = "Approved"
      BY <1>0, <1>4, <2>2 DEF ApproveOffers, TypeOK
    <3> QED BY <1>4, <1>a, <3>1 DEF ApproveOffers, Wanted
  <2>3. CASE ~Wanted(b) /\ x = b
    BY <1>4, <2>3 DEF ApproveOffers, Wanted
  <2> QED BY <2>1, <2>2, <2>3
<1>5. CASE ClearRequired
  BY <1>5, <1>a DEF ClearRequired, Wanted
<1>6. ASSUME NEW c \in Client, NEW b \in Block, NEW s \in OfferState,
             InsertOffer(c, b, s)
      PROVE  ~Wanted(x)'
  <2>1. d \in clients /\ Wanted(x)' = Wanted(x)
    BY <1>6 DEF InsertOffer, Wanted
  <2>2. CASE s = "Approved" /\ offers[c][b] # "Approved" /\ Wanted(b)
    BY <1>0, <1>6, <1>a, <2>1, <2>2, AcceptEntry DEF InsertOffer
  <2>3. CASE ~(s = "Approved" /\ offers[c][b] # "Approved" /\ Wanted(b))
    <3>1. offers' = [offers EXCEPT ![c][b] = IF @ = "Approved" THEN @ ELSE s]
      BY <1>6, <2>3 DEF InsertOffer
    <3>2. CASE d = c /\ x = b
      BY <1>0, <1>a, <2>1, <2>3, <3>1, <3>2 DEF TypeOK
    <3>3. CASE ~(d = c /\ x = b)
      BY <1>0, <1>a, <2>1, <3>1, <3>3 DEF TypeOK
    <3> QED BY <3>2, <3>3
  <2> QED BY <2>2, <2>3
<1>7. CASE \E c \in Client, b \in Block : RequestBlocks(c, b)
  BY <1>7, <1>a DEF RequestBlocks, Wanted
<1>8. CASE UNCHANGED vars
  BY <1>8, <1>a DEF vars, Wanted
<1> QED BY <1>1, <1>2, <1>3, <1>4, <1>5, <1>6, <1>7, <1>8 DEF Next

\* No approved offer of a connected client is ever left waiting while its
\* block is wanted, however commands are ordered.
THEOREM MissedRequestsImpossible == Spec => []NoMissedRequest
<1>1. Init => IInv
  BY DEF Init, IInv, TypeOK, NoMissedRequest, NoOffers, NothingSent, Mode
<1>2. IInv /\ [Next]_vars => IInv'
  BY TypeStep, NoMissedRequestStep DEF IInv
<1>3. IInv => NoMissedRequest
  BY DEF IInv
<1> QED BY <1>1, <1>2, <1>3, PTL DEF Spec

\* A step that removes an offer of a client that stays connected sends it.
LEMMA OfferSentStep == TypeOK /\ [Next]_vars => OfferSentWhenRemoved
<1> SUFFICES ASSUME TypeOK, [Next]_vars,
                    NEW d \in clients, d \in clients', NEW x \in Block,
                    offers[d][x] # "none", offers'[d][x] = "none"
             PROVE  blockTx'[d][x] = blockTx[d][x] + 1
  BY DEF OfferSentWhenRemoved
<1>0. d \in Client
  BY DEF TypeOK
<1>1. ASSUME NEW S, Accept(S) PROVE blockTx'[d][x] = blockTx[d][x] + 1
  BY <1>0, <1>1, AcceptEntry
<1>2. ASSUME NEW c \in Client, InsertClient(c) \/ RemoveClient(c) PROVE FALSE
  BY <1>0, <1>2 DEF InsertClient, RemoveClient, TypeOK
<1>3. CASE UNCHANGED offers
  BY <1>3
<1>4. ASSUME NEW b \in Block, ApproveOffers(b), ~Wanted(b) PROVE FALSE
  BY <1>0, <1>4 DEF ApproveOffers, TypeOK
<1>5. ASSUME NEW c \in Client, NEW b \in Block, NEW s \in OfferState,
             offers' = [offers EXCEPT ![c][b] = IF @ = "Approved" THEN @ ELSE s]
      PROVE  FALSE
  <2>1. CASE d = c /\ x = b
    BY <1>0, <1>5, <2>1 DEF TypeOK, OfferState
  <2>2. CASE ~(d = c /\ x = b)
    BY <1>0, <1>5, <2>2 DEF TypeOK
  <2> QED BY <2>1, <2>2
<1>6. ASSUME NEW m \in Mode, SetRequestMode(m)
      PROVE  blockTx'[d][x] = blockTx[d][x] + 1
  BY <1>1, <1>3, <1>6 DEF SetRequestMode
<1>7. ASSUME NEW b \in Block, InsertRequired(b) \/ ApproveOffers(b)
      PROVE  blockTx'[d][x] = blockTx[d][x] + 1
  BY <1>1, <1>4, <1>7 DEF InsertRequired, ApproveOffers
<1>8. ASSUME NEW c \in Client, NEW b \in Block, NEW s \in OfferState,
             InsertOffer(c, b, s)
      PROVE  blockTx'[d][x] = blockTx[d][x] + 1
  BY <1>1, <1>5, <1>8 DEF InsertOffer
<1>9. CASE ClearRequired \/ \E c \in Client, b \in Block : RequestBlocks(c, b)
  BY <1>3, <1>9 DEF ClearRequired, RequestBlocks
<1> QED BY <1>2, <1>3, <1>6, <1>7, <1>8, <1>9 DEF Next, vars

\* An offer of a connected client is never dropped without being requested.
THEOREM OffersNeverLost == Spec => OfferNotLost
<1>1. TypeOK /\ [Next]_vars => OfferSentWhenRemoved
  BY OfferSentStep
<1> QED BY <1>1, TypeCorrect, PTL DEF Spec, OfferNotLost
=============================================================================
