---------------------------- MODULE BlockTracker ----------------------------
(***************************************************************************)
(* The block tracker (lib/src/block_tracker.rs).  One worker task owns the *)
(* state below and handles commands one at a time, so every action is one  *)
(* command.  Peers offer blocks; the local scan requires blocks; when a    *)
(* block is both, the offer is consumed and the block id is sent to the    *)
(* offering client, whose `request_blocks` task then resumes the request.  *)
(***************************************************************************)
EXTENDS Naturals

CONSTANTS
    Client,     \* identities of peer clients (ClientId)
    Block,      \* block ids
    MaxQueue    \* bound on equal block ids waiting in one client's block_tx

ASSUME MaxQueueAssumption == MaxQueue \in Nat \ {0}

VARIABLES
    clients,    \* clients currently registered with the worker
    offers,     \* offers[c][b]: "none", "Pending" or "Approved"
    required,   \* required_blocks
    mode,       \* request_mode
    blockTx     \* blockTx[c][b]: number of copies of b queued in c's block_tx

vars == <<clients, offers, required, mode, blockTx>>

OfferState == {"Pending", "Approved"}
Mode == {"Lazy", "Greedy"}

NoOffers == [b \in Block |-> "none"]
NothingSent == [b \in Block |-> 0]

Init ==
    /\ clients = {}
    /\ offers = [c \in Client |-> NoOffers]
    /\ required = {}
    /\ mode = "Greedy"
    /\ blockTx = [c \in Client |-> NothingSent]

\* A block is to be requested as soon as an approved offer for it exists.
Wanted(b) == mode = "Greedy" \/ b \in required

\* Offers with the given states.
OffersIn(states) == {p \in Client \X Block : offers[p[1]][p[2]] \in states}

\* Consume the offers in `accepted`: drop each and send its block id once.
Accept(accepted) ==
    /\ offers' = [c \in Client |-> [b \in Block |->
                    IF <<c, b>> \in accepted THEN "none" ELSE offers[c][b]]]
    /\ blockTx' = [c \in Client |-> [b \in Block |->
                    IF <<c, b>> \in accepted THEN blockTx[c][b] + 1 ELSE blockTx[c][b]]]
    /\ \A p \in accepted : blockTx[p[1]][p[2]] < MaxQueue

-----------------------------------------------------------------------------

InsertClient(c) ==
    /\ c \notin clients
    /\ clients' = clients \cup {c}
    /\ offers' = [offers EXCEPT ![c] = NoOffers]
    /\ blockTx' = [blockTx EXCEPT ![c] = NothingSent]
    /\ UNCHANGED <<required, mode>>

\* Dropping a client drops its channel with whatever is still queued in it.
RemoveClient(c) ==
    /\ c \in clients
    /\ clients' = clients \ {c}
    /\ offers' = [offers EXCEPT ![c] = NoOffers]
    /\ blockTx' = [blockTx EXCEPT ![c] = NothingSent]
    /\ UNCHANGED <<required, mode>>

\* Mutant: switching to greedy mode forgets to flush the approved offers.
SetRequestModeNoFlush(m) ==
    /\ mode' = m
    /\ required' = IF m = "Greedy" THEN {} ELSE required
    /\ UNCHANGED <<clients, offers, blockTx>>

SetRequestMode(m) ==
    /\ mode' = m
    /\ IF m = "Greedy"
       THEN Accept(OffersIn({"Approved"})) /\ required' = {}
       ELSE UNCHANGED <<offers, blockTx, required>>
    /\ UNCHANGED clients

\* Mutant: requiring a block accepts its pending offers in both modes.
InsertRequiredAcceptAny(b) ==
    /\ b \notin required
    /\ required' = required \cup {b}
    /\ Accept(OffersIn(OfferState) \cap (Client \X {b}))
    /\ UNCHANGED <<clients, mode>>

\* In greedy mode even pending offers are accepted.  Requiring a block twice
\* does nothing (the guard).
InsertRequired(b) ==
    /\ b \notin required
    /\ required' = required \cup {b}
    /\ Accept(OffersIn(IF mode = "Greedy" THEN OfferState ELSE {"Approved"})
                \cap (Client \X {b}))
    /\ UNCHANGED <<clients, mode>>

ClearRequired ==
    /\ required' = {}
    /\ UNCHANGED <<clients, offers, mode, blockTx>>

\* Mutant: an offer that comes after its client was removed is kept.
InsertOfferUnknown(c, b, state) ==
    /\ IF state = "Approved" /\ offers[c][b] # "Approved" /\ Wanted(b)
       THEN Accept({<<c, b>>})
       ELSE /\ offers' = [offers EXCEPT ![c][b] = IF @ = "Approved" THEN @ ELSE state]
            /\ UNCHANGED blockTx
    /\ UNCHANGED <<clients, required, mode>>

\* The offer of a client that is not registered is dropped (the guard).
\* An approved offer that is wanted is sent without being stored; any other
\* new or upgraded offer is stored; the rest leave the table as it is.
InsertOffer(c, b, state) ==
    /\ c \in clients
    /\ IF state = "Approved" /\ offers[c][b] # "Approved" /\ Wanted(b)
       THEN Accept({<<c, b>>})
       ELSE /\ offers' = [offers EXCEPT ![c][b] = IF @ = "Approved" THEN @ ELSE state]
            /\ UNCHANGED blockTx
    /\ UNCHANGED <<clients, required, mode>>

\* Mutant: approving drops offers that are not wanted at the moment.
ApproveOffersDropping(b) ==
    /\ IF Wanted(b)
       THEN Accept(OffersIn(OfferState) \cap (Client \X {b}))
       ELSE /\ offers' = [c \in Client |-> [offers[c] EXCEPT ![b] = "none"]]
            /\ UNCHANGED blockTx
    /\ UNCHANGED <<clients, required, mode>>

ApproveOffers(b) ==
    /\ IF Wanted(b)
       THEN Accept(OffersIn(OfferState) \cap (Client \X {b}))
       ELSE /\ offers' = [c \in Client |-> [offers[c] EXCEPT ![b] =
                            IF @ = "none" THEN @ ELSE "Approved"]]
            /\ UNCHANGED blockTx
    /\ UNCHANGED <<clients, required, mode>>

\* The client's `request_blocks` task takes one block id off the channel.
RequestBlocks(c, b) ==
    /\ blockTx[c][b] > 0
    /\ blockTx' = [blockTx EXCEPT ![c][b] = @ - 1]
    /\ UNCHANGED <<clients, offers, required, mode>>

Next ==
    \/ \E c \in Client : InsertClient(c) \/ RemoveClient(c)
    \/ \E m \in Mode : SetRequestMode(m)
    \/ \E b \in Block : InsertRequired(b) \/ ApproveOffers(b)
    \/ ClearRequired
    \/ \E c \in Client, b \in Block, s \in OfferState : InsertOffer(c, b, s)
    \/ \E c \in Client, b \in Block : RequestBlocks(c, b)

Spec == Init /\ [][Next]_vars

-----------------------------------------------------------------------------
\* Type invariant of the worker's state and of the clients' channels: the offers
\* and the sending end of the channel belong to `ClientState`, so that a client
\* which is not registered has neither.
TypeOK ==
    /\ clients \in SUBSET Client
    /\ offers \in [Client -> [Block -> OfferState \cup {"none"}]]
    /\ required \in SUBSET Block
    /\ mode \in Mode
    /\ blockTx \in [Client -> [Block -> Nat]]
    /\ \A c \in Client \ clients : offers[c] = NoOffers /\ blockTx[c] = NothingSent

\* No request is missed: an approved offer never sits in the table of
\* `ClientState::offers` while its block is wanted.  Whichever of offering,
\* approving, requiring and switching the mode comes last has to notify the
\* client, because nothing revisits the table later.
NoMissedRequest ==
    \A c \in clients, b \in Block : offers[c][b] = "Approved" => ~Wanted(b)

\* Every offer of a connected client that a step removes is sent once.
OfferSentWhenRemoved ==
    \A c \in clients \cap clients', b \in Block :
       (offers[c][b] # "none" /\ offers'[c][b] = "none")
          => blockTx'[c][b] = blockTx[c][b] + 1

\* An offer of a connected client leaves the table only by being sent to that
\* client, exactly once (`accept`, `accept_if_approved`, `accept_all_approved`
\* and the two `entry.remove`/`send` pairs of `insert_offer`).
OfferNotLost == [][OfferSentWhenRemoved]_vars

\* In lazy mode a client is told to request a block only when the block is
\* required and its offer is approved, or becomes approved in this very step.
LazyRequestsApprovedAndRequired ==
    [][\A c \in Client, b \in Block :
          (mode' = "Lazy" /\ blockTx'[c][b] > blockTx[c][b])
             => /\ b \in required'
                /\ \/ offers[c][b] = "Approved"
                   \/ ApproveOffers(b)
                   \/ InsertOffer(c, b, "Approved")]_vars
=============================================================================
