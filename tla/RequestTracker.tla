--------------------------- MODULE RequestTracker ---------------------------
(***************************************************************************)
(* The request tracker (lib/src/network/request_tracker.rs and graph.rs).  *)
(* A worker task owns a DAG of requests shared by all peer clients and     *)
(* handles one command, or one expired timer, at a time.  `tracker` is the *)
(* worker's state; the operators of the first part are its methods, each   *)
(* taking and returning such a state.  The second part wraps each command  *)
(* in an action and adds the receivers, which turn Send events into        *)
(* HandleSend commands.                                                    *)
(*                                                                         *)
(* Abstractions.  A request is a graph node: a message key and a variant.  *)
(* The channel of client events is the set of keys queued in it: a repeated*)
(* Send of one key is merged with the one still queued.  The Idle events   *)
(* sent when a pending counter drops to zero are left out: only the peer's *)
(* server reacts to them.  The id of a removed client may appear again;    *)
(* nothing refers to it by then, so it stands for a fresh id.              *)
(***************************************************************************)
EXTENDS Naturals, FiniteSets, FiniteSetsExt

CONSTANTS
    Client,       \* ClientId
    Key,          \* MessageKey
    Node,         \* requests: a payload with a variant
    KeyOf,        \* KeyOf[n]: the message key of request n
    Follow,       \* Follow[k]: requests that a response to k may ask for
    InitialNode,  \* InitialNode[c]: requests that c makes by `initial`
    BlockNode,    \* requests inserted suspended (block requests)
    Choker,       \* clients whose peer may choke them
    MaxPermits,   \* RESPONSE_BUFFER_SIZE: permits of one receiver's semaphore
    NoNode, NoClient

ASSUME RequestTrackerAssumption ==
    /\ KeyOf \in [Node -> Key]
    /\ Follow \in [Key -> SUBSET Node]
    /\ InitialNode \in [Client -> SUBSET Node] /\ BlockNode \subseteq Node
    /\ Choker \subseteq Client
    /\ MaxPermits \in Nat \ {0}
    /\ NoNode \notin Node /\ NoClient \notin Client

VARIABLES
    tracker,      \* state of the worker
    receiver      \* receiver[c]: key popped by c's receiver, not yet handled

vars == <<tracker, receiver>>

Final == {"Committed", "Cancelled"}
Sent == {"InFlight", "Received", "Complete"}
State == {"Absent", "Ready", "Suspended"} \cup Sent \cup Final

Request(state, sender, waiters) ==
    [state |-> state, sender |-> sender, waiters |-> waiters]
Absent == Request("Absent", NoClient, {})

-----------------------------------------------------------------------------
(* Helpers of the worker.                                                  *)

Panic(t) == [t EXCEPT !.panicked = TRUE]

SetRequest(t, n, r) == [t EXCEPT !.requests[n] = r]

\* RequestState::clients
ClientsOf(r) ==
    r.waiters \cup (IF r.state \in Sent THEN {r.sender} ELSE {})

Children(t, n) == {m \in Node : <<n, m>> \in t.edges}
Parents(t, n) == {m \in Node : <<m, n>> \in t.edges}

\* Tell every unchoked recipient that the request is ready to be sent.
SendEvent(t, recipients, k) ==
    IF ~(recipients \subseteq t.clients) THEN Panic(t)
    ELSE [t EXCEPT !.events = [c \in Client |->
            IF c \in recipients /\ ~t.choked[c] THEN @[c] \cup {k} ELSE @[c]]]

\* Mutant: an untracked client is counted twice.
IncrementPendingTwice(t, c) == [t EXCEPT !.pending[c] = @ + 2]

IncrementPending(t, c) == [t EXCEPT !.pending[c] = @ + 1]

\* Does nothing for a client already removed.
DecrementPending(t, c) ==
    IF c \notin t.clients THEN t
    ELSE IF t.pending[c] = 0 THEN Panic(t)
    ELSE [t EXCEPT !.pending[c] = @ - 1]

\* remove_request_from_clients
Untrack(t, n) ==
    [t EXCEPT !.tracked = [c \in Client |->
        IF c \in ClientsOf(t.requests[n]) /\ @[c][KeyOf[n]] = n
        THEN [@[c] EXCEPT ![KeyOf[n]] = NoNode] ELSE @[c]]]

\* Mutant: the parents of a removed request are not reconsidered.
RemoveRequestOnly(t, n) ==
    IF t.requests[n].state \notin Final \/ Children(t, n) # {} THEN t
    ELSE [SetRequest(t, n, Absent) EXCEPT !.edges = {e \in @ : e[1] # n /\ e[2] # n}]

RECURSIVE RemoveRequest(_, _)
\* Drop a finished request without children, then its parents if they follow.
RemoveRequest(t, n) ==
    IF t.requests[n].state \notin Final \/ Children(t, n) # {} THEN t
    ELSE FoldSet(LAMBDA p, acc : RemoveRequest(acc, p),
                 [SetRequest(t, n, Absent) EXCEPT
                    !.edges = {e \in @ : e[1] # n /\ e[2] # n}],
                 Parents(t, n))

\* The request ends in `final`: nobody tracks it any more.
Finish(t, n, final) ==
    RemoveRequest(SetRequest(Untrack(t, n), n, Request(final, NoClient, {})), n)

\* Make the request available to its waiters, telling the unchoked ones.
MakeReady(t, n, waiters) ==
    SetRequest(SendEvent(t, waiters, KeyOf[n]), n, Request("Ready", NoClient, waiters))

\* Mutant: the timer of a request that is no longer in flight keeps running.
StopTimerNot(t, c, k) == t

StopTimer(t, c, k) == [t EXCEPT !.timers = @ \ {<<c, k>>}]

\* Mutant: a failed sender's request is dropped although others wait for it.
CancelRequestForAll(t, c, n) ==
    LET r == t.requests[n] IN
    IF r.state = "Absent" THEN t
    ELSE IF r.state \in Sent /\ r.sender = c
         THEN Finish(StopTimer(DecrementPending(t, c), c, KeyOf[n]), n, "Cancelled")
    ELSE SetRequest(DecrementPending(t, c), n, [r EXCEPT !.waiters = @ \ {c}])

\* Cancels request n of client c, which no longer tracks it: the sender's
\* request falls back on the waiters; a waiter just leaves.
CancelRequest(t, c, n) ==
    LET r == t.requests[n]
        isSender == r.state \in Sent /\ r.sender = c
        counted == ~(r.state = "Complete" /\ isSender)
        t1 == IF counted THEN DecrementPending(t, c) ELSE t
        t2 == IF r.state = "InFlight" /\ isSender
              THEN StopTimer(t1, c, KeyOf[n]) ELSE t1
        left == r.waiters \ {c}
    IN  IF r.state = "Absent" THEN t
        ELSE IF r.state \in Final THEN Panic(t)
        ELSE IF isSender /\ r.waiters # {} THEN MakeReady(t2, n, r.waiters)
        ELSE IF isSender THEN Finish(t2, n, "Cancelled")
        ELSE IF r.state \in Sent \/ left # {}
             THEN SetRequest(t2, n, [r EXCEPT !.waiters = left])
        ELSE Finish(SetRequest(t2, n, [r EXCEPT !.waiters = left]), n, "Cancelled")

\* Graph::get_or_insert
GetOrInsert(t, n, parent) ==
    LET t1 == IF parent = NoNode THEN t ELSE [t EXCEPT !.edges = @ \cup {<<parent, n>>}]
    IN  IF t.requests[n].state # "Absent" THEN t1
        ELSE SetRequest(t1, n, Request("Cancelled", NoClient, {}))

RECURSIVE UpdateRequest(_, _, _, _)
\* Registers client c with request n and with everything that follows from
\* it, replacing another variant of the same request that c tracks.
UpdateRequest(t, c, n, initial) ==
    LET r == t.requests[n]
        k == KeyOf[n]
        old == t.tracked[c][k]
        t1 == [t EXCEPT !.tracked[c][k] = IF r.state = "Committed" THEN NoNode ELSE n]
        joined == SetRequest(IncrementPending(t1, c), n,
                             [r EXCEPT !.waiters = @ \cup {c}])
        t2 == CASE r.state = "Ready" -> SendEvent(joined, {c}, k)
                [] r.state = "Committed" -> t1
                [] r.state = "Cancelled" /\ initial = "Ready" ->
                     MakeReady(IncrementPending(t1, c), n, {c})
                [] r.state = "Cancelled" /\ initial = "Suspended" ->
                     SetRequest(IncrementPending(t1, c), n,
                                Request("Suspended", NoClient, {c}))
                [] OTHER -> joined
        t3 == IF old = n THEN t
              ELSE IF old = NoNode THEN t2
              ELSE CancelRequest(t2, c, old)
    IN  IF c \notin t.clients \/ r.state = "Absent" THEN Panic(t)
        ELSE FoldSet(LAMBDA m, acc : UpdateRequest(acc, c, m, initial),
                     t3, Children(t, n))

InsertRequest(t, c, n, parent) ==
    UpdateRequest(GetOrInsert(t, n, parent), c, n,
                  IF n \in BlockNode THEN "Suspended" ELSE "Ready")

-----------------------------------------------------------------------------
(* Commands.                                                               *)

HandleSend(t, c, k) ==
    LET n == t.tracked[c][k]
        r == t.requests[n]
    IN  IF n = NoNode THEN t
        ELSE IF r.state = "Absent" \/ (r.state = "Ready" /\ c \notin r.waiters) THEN Panic(t)
        ELSE IF r.state # "Ready" THEN t
        ELSE [SetRequest(t, n, Request("InFlight", c, r.waiters \ {c}))
                EXCEPT !.timers = @ \cup {<<c, k>>}]

HandleReceive(t, c, k) ==
    LET n == t.tracked[c][k]
        r == t.requests[n]
    IN  IF n = NoNode THEN t
        ELSE IF r.state \in Final \cup {"Absent"} THEN Panic(t)
        ELSE IF r.state = "InFlight" /\ r.sender = c
             THEN SetRequest(StopTimer(t, c, k), n, [r EXCEPT !.state = "Received"])
        ELSE t

\* The follow-up requests are registered with the sender and, when this
\* response completes the request, with everyone who was waiting for it.
HandleSuccess(t, c, k, followUps) ==
    LET n == t.tracked[c][k]
        r == IF n = NoNode THEN Absent ELSE t.requests[n]
        completes == r.state = "Received" /\ r.sender = c
        t1 == IF completes THEN SetRequest(t, n, [r EXCEPT !.state = "Complete"]) ELSE t
        interested == {c} \cup (IF completes THEN r.waiters ELSE {})
        t2 == FoldSet(LAMBDA p, acc : InsertRequest(acc, p[2], p[1], n),
                      t1, followUps \X interested)
    IN  IF n # NoNode /\ r.state \in Final \cup {"Absent"} THEN Panic(t)
        ELSE IF completes THEN DecrementPending(t2, c) ELSE t2

\* Mutant: the failed request stays in the client's map.
HandleFailureTracked(t, c, k) ==
    IF t.tracked[c][k] = NoNode THEN t ELSE CancelRequest(t, c, t.tracked[c][k])

HandleFailure(t, c, k) ==
    IF c \notin t.clients THEN Panic(t)
    ELSE IF t.tracked[c][k] = NoNode THEN t
    ELSE CancelRequest([t EXCEPT !.tracked[c][k] = NoNode], c, t.tracked[c][k])

HandleResume(t, n) ==
    IF t.requests[n].state # "Suspended" THEN t
    ELSE MakeReady(t, n, t.requests[n].waiters)

TrackedBy(t, c) == {n \in Node : t.tracked[c][KeyOf[n]] = n}

\* Mutant: the waiters' pending counters are not decremented.
HandleCommitSenderOnly(t, c) ==
    FoldSet(LAMBDA n, acc : Finish(acc, n, "Committed"), t,
            {n \in TrackedBy(t, c) : /\ t.requests[n].state = "Complete"
                                     /\ t.requests[n].sender = c})

\* Ends every request completed by c; the client may be gone already.  All
\* requests of the client are looked at before any is ended, and none of them
\* may be missing from the graph or be over.
HandleCommit(t, c) ==
    IF \E n \in TrackedBy(t, c) : t.requests[n].state \in Final \cup {"Absent"} THEN Panic(t)
    ELSE FoldSet(LAMBDA n, acc :
              IF acc.requests[n].state = "Absent" THEN acc
              ELSE IF acc.requests[n].state # "Complete" THEN Panic(acc)
              ELSE Finish(FoldSet(LAMBDA d, a : DecrementPending(a, d),
                                  acc, acc.requests[n].waiters), n, "Committed"),
            t,
            {n \in TrackedBy(t, c) : /\ t.requests[n].state = "Complete"
                                     /\ t.requests[n].sender = c})

\* Mutant: unchoking does not announce the requests that became ready
\* meanwhile.
SetChokedSilent(t, c, choked) ==
    LET Visit(n, acc) ==
          LET r == acc.requests[n] IN
          IF r.state = "InFlight" /\ choked /\ r.sender = c
          THEN MakeReady(StopTimer(acc, c, KeyOf[n]), n, r.waiters \cup {c})
          ELSE acc
    IN  IF t.choked[c] = choked THEN t
        ELSE FoldSet(Visit, [t EXCEPT !.choked[c] = choked], TrackedBy(t, c))

\* Mutant: choking leaves the timer of the request in flight running.
SetChokedTimed(t, c, choked) ==
    LET Visit(n, acc) ==
          LET r == acc.requests[n] IN
          CASE r.state = "Ready" /\ ~choked -> SendEvent(acc, {c}, KeyOf[n])
            [] r.state = "InFlight" /\ choked /\ r.sender = c ->
                 MakeReady(acc, n, r.waiters \cup {c})
            [] OTHER -> acc
    IN  IF t.choked[c] = choked THEN t
        ELSE FoldSet(Visit, [t EXCEPT !.choked[c] = choked], TrackedBy(t, c))

SetChoked(t, c, choked) ==
    LET Visit(n, acc) ==
          LET r == acc.requests[n] IN
          CASE r.state = "Ready" /\ ~choked -> SendEvent(acc, {c}, KeyOf[n])
            [] r.state = "InFlight" /\ choked /\ r.sender = c ->
                 MakeReady(StopTimer(acc, c, KeyOf[n]), n, r.waiters \cup {c})
            [] r.state \in Final \cup {"Absent"} -> Panic(acc)
            [] OTHER -> acc
    IN  IF t.choked[c] = choked THEN t
        ELSE FoldSet(Visit, [t EXCEPT !.choked[c] = choked], TrackedBy(t, c))

ForgetClient(t, c) ==
    [t EXCEPT !.clients = @ \ {c}, !.tracked[c] = [k \in Key |-> NoNode],
              !.pending[c] = 0, !.choked[c] = FALSE, !.events[c] = {}]

HandleRemove(t, c) ==
    FoldSet(LAMBDA n, acc : CancelRequest(acc, c, n), ForgetClient(t, c), TrackedBy(t, c))

-----------------------------------------------------------------------------
(* The system.                                                             *)

Init ==
    /\ tracker = [clients  |-> {},
                  tracked  |-> [c \in Client |-> [k \in Key |-> NoNode]],
                  pending  |-> [c \in Client |-> 0],
                  choked   |-> [c \in Client |-> FALSE],
                  events   |-> [c \in Client |-> {}],
                  requests |-> [n \in Node |-> Absent],
                  edges    |-> {},
                  timers   |-> {},
                  panicked |-> FALSE]
    /\ receiver = [c \in Client |-> NoNode]

Do(t) == tracker' = t /\ UNCHANGED receiver

InsertClient(c) ==
    c \notin tracker.clients /\ Do([tracker EXCEPT !.clients = @ \cup {c}])

\* Dropping the client also drops its receiver.
RemoveClient(c) ==
    /\ c \in tracker.clients
    /\ tracker' = HandleRemove(tracker, c)
    /\ receiver' = [receiver EXCEPT ![c] = NoNode]

Initial(c, n) ==
    c \in tracker.clients /\ Do(InsertRequest(tracker, c, n, NoNode))

\* A response to k arrives: asked for, late, repeated or unsolicited.
Receive(c, k) ==
    c \in tracker.clients /\ Do(HandleReceive(tracker, c, k))

\* One variant of each follow-up request.
Success(c, k, followUps) ==
    /\ c \in tracker.clients
    /\ \A m, n \in followUps : KeyOf[m] = KeyOf[n] => m = n
    /\ Do(HandleSuccess(tracker, c, k, followUps))

Failure(c, k) == c \in tracker.clients /\ Do(HandleFailure(tracker, c, k))

Resume(n) == Do(HandleResume(tracker, n))

Commit(c) == Do(HandleCommit(tracker, c))

Choke(c) == c \in tracker.clients \cap Choker /\ Do(SetChoked(tracker, c, TRUE))

Unchoke(c) == c \in tracker.clients /\ Do(SetChoked(tracker, c, FALSE))

\* The worker's timer expires; the timer is gone by the time it is handled.
Timeout(c, k) ==
    /\ <<c, k>> \in tracker.timers
    /\ Do(HandleFailure(StopTimer(tracker, c, k), c, k))

\* RequestTrackerReceiver::recv up to the permit.
ReceiveEvent(c, k) ==
    /\ receiver[c] = NoNode
    /\ k \in tracker.events[c]
    /\ tracker' = [tracker EXCEPT !.events[c] = @ \ {k}]
    /\ receiver' = [receiver EXCEPT ![c] = k]

Permits(c) ==
    MaxPermits - Cardinality({n \in Node : /\ tracker.requests[n].state \in {"InFlight", "Received"}
                                           /\ tracker.requests[n].sender = c})

\* The receiver gets a permit and the worker handles its HandleSend.
SendRequest(c) ==
    /\ receiver[c] # NoNode
    /\ Permits(c) > 0
    /\ tracker' = HandleSend(tracker, c, receiver[c])
    /\ receiver' = [receiver EXCEPT ![c] = NoNode]

Next ==
    \/ \E c \in Client : \/ InsertClient(c) \/ RemoveClient(c) \/ Commit(c)
                         \/ Choke(c) \/ Unchoke(c) \/ SendRequest(c)
    \/ \E c \in Client : \E n \in InitialNode[c] : Initial(c, n)
    \/ \E c \in Client, k \in Key : 
         \/ Receive(c, k) \/ Failure(c, k) \/ Timeout(c, k) \/ ReceiveEvent(c, k)
    \/ \E c \in Client, k \in Key : \E f \in SUBSET Follow[k] : Success(c, k, f)
    \/ \E n \in BlockNode : Resume(n)

Spec == Init /\ [][Next]_vars

-----------------------------------------------------------------------------
(* Properties.                                                             *)

\* Type invariant of the worker and the receivers.
TypeOK ==
    /\ tracker.clients \subseteq Client
    /\ tracker.tracked \in [Client -> [Key -> Node \cup {NoNode}]]
    /\ tracker.pending \in [Client -> 0 .. Cardinality(Key)]
    /\ tracker.choked \in [Client -> BOOLEAN]
    /\ tracker.events \in [Client -> SUBSET Key]
    /\ tracker.requests \in [Node -> [state : State, sender : Client \cup {NoClient},
                                      waiters : SUBSET Client]]
    /\ tracker.edges \subseteq Node \X Node
    /\ tracker.timers \subseteq Client \X Key
    /\ receiver \in [Client -> Key \cup {NoNode}]

\* The worker never panics: no `expect(BROKEN_INVARIANT)`, no
\* `expect(CLIENT_NOT_FOUND)`, no `assert!`, no `unreachable!` and no
\* underflow of the pending counter is ever hit.  A panic would end the task
\* and with it all syncing of the repository.
NoPanic == ~tracker.panicked

\* A client's `requests` map and the graph agree: the client tracks a request
\* exactly when the request names it as sender or waiter, and a removed client
\* is named nowhere.
TrackingConsistent ==
    \A c \in Client, n \in Node :
        /\ c \in ClientsOf(tracker.requests[n]) <=> tracker.tracked[c][KeyOf[n]] = n
        /\ c \in ClientsOf(tracker.requests[n]) => c \in tracker.clients

\* `ClientState::pending` is what its comment says: the tracked requests other
\* than the completed ones that the client itself sent.
PendingAccurate ==
    \A c \in Client : tracker.pending[c] =
        Cardinality({n \in TrackedBy(tracker, c) :
            ~(tracker.requests[n].state = "Complete" /\ tracker.requests[n].sender = c)})

\* No wakeup is lost: while a request is ready, each of its unchoked waiters
\* has a Send event on the way, since nothing rescans the ready requests.
NoLostWakeup ==
    \A n \in Node : tracker.requests[n].state = "Ready" =>
        \A c \in tracker.requests[n].waiters :
            tracker.choked[c] \/ KeyOf[n] \in tracker.events[c] \/ receiver[c] = KeyOf[n]

\* A timer runs exactly for the requests in flight: a stale one would fail a
\* request that is not, or panic on a removed client; a missing one would
\* leave the request with a silent peer for ever.
TimersMatchFlight ==
    tracker.timers = {<<c, k>> \in Client \X Key :
        \E n \in Node : /\ KeyOf[n] = k
                        /\ tracker.requests[n].state = "InFlight"
                        /\ tracker.requests[n].sender = c}

\* Finished requests stay in the graph only under unfinished follow-ups, and
\* edges join requests that are in the graph: nothing leaks, no parent key
\* dangles.
NoGarbage ==
    /\ \A n \in Node : tracker.requests[n].state \in Final => Children(tracker, n) # {}
    /\ \A e \in tracker.edges : /\ tracker.requests[e[1]].state # "Absent"
                                 /\ tracker.requests[e[2]].state # "Absent"

\* Client c was the sender of request n, others wait for it, and c is not its
\* sender after the step.
LosesSender(c, n) ==
    /\ tracker.requests[n].state \in Sent
    /\ tracker.requests[n].sender = c
    /\ tracker.requests[n].waiters # {}
    /\ ~(tracker'.requests[n].state \in Sent /\ tracker'.requests[n].sender = c)

\* "Falls back on another peer in case the request failed": when a sender
\* fails, times out, disconnects or is choked, its request becomes ready for
\* exactly those who were waiting (and the choked sender).
FallsBackOnWaiters ==
    [][\A c \in Client, n \in Node :
          /\ LosesSender(c, n)
          /\ \/ RemoveClient(c) \/ Choke(c)
             \/ Failure(c, KeyOf[n]) \/ Timeout(c, KeyOf[n])
          => /\ tracker'.requests[n].state = "Ready"
             /\ tracker'.requests[n].waiters \ {c} = tracker.requests[n].waiters]_vars

\* A response batch is processed to the end: a received response succeeds or
\* fails.
Process(c, k) ==
    /\ \E n \in Node : /\ KeyOf[n] = k
                       /\ tracker.requests[n].state = "Received"
                       /\ tracker.requests[n].sender = c
    /\ Failure(c, k) \/ \E f \in SUBSET Follow[k] : Success(c, k, f)

\* Receivers run; their queue is first-in first-out, hence the strong fairness
\* for each queued key; timers expire; responses are processed.
Fairness ==
    \A c \in Client :
        /\ WF_vars(SendRequest(c))
        /\ \A k \in Key : /\ SF_vars(ReceiveEvent(c, k))
                          /\ WF_vars(Timeout(c, k))
                          /\ WF_vars(Process(c, k))

FairSpec == Spec /\ Fairness

Sendable(c, n) ==
    /\ tracker.requests[n].state = "Ready"
    /\ c \in tracker.requests[n].waiters
    /\ ~tracker.choked[c]

\* A ready request with an unchoked client waiting for it does not stay so for
\* ever: it is sent, or the client is choked, replaced or gone.
ReadyIsSent == \A c \in Client, n \in Node : Sendable(c, n) ~> ~Sendable(c, n)
=============================================================================
