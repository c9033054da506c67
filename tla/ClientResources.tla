---------------------------- MODULE ClientResources ----------------------------
(***************************************************************************)
(* How one client loads the resources of a stage before it may go on       *)
(* (server/src/client_components/resources.rs).  Requests are sent one at  *)
(* a time; the peer acknowledges each by its callback id; whoever awaits a *)
(* stage holds a oneshot receiver whose sender is in that stage's request. *)
(*                                                                         *)
(* The peer may acknowledge any id at any time.  The callers of            *)
(* await_resources_loaded are the Waiters: registration awaits Connect,    *)
(* LoginKickoff Auth once Connect was loaded, and every authentication     *)
(* Lobby once Connect was loaded, be Auth loaded or not.                   *)
(***************************************************************************)
EXTENDS Naturals, Sequences

CONSTANTS
    Stages,   \* ResourceStage
    Waiters,  \* the calls of await_resources_loaded in the life of a client
    StageOf,  \* the stage each awaits
    After     \* the calls whose futures are ready before each is made

ASSUME WaiterAssumption ==
    /\ StageOf \in [Waiters -> Stages]
    /\ After \in [Waiters -> SUBSET Waiters]

VARIABLES
    requests,         \* the load requests, in order; entry i has the id i
    request_pending,
    open,             \* the client's connection state is Open
    asked,            \* the callback ids the peer was sent and has not acknowledged
    called,           \* the waiters that have called
    served            \* the waiters whose future is ready

vars == <<requests, request_pending, open, asked, called, served>>

Request ==
    [ stage: Stages,
      state: {"Enqueued", "Pending", "Finished"},
      listeners: SUBSET Waiters ]

TypeOK ==
    /\ requests \in Seq(Request)
    /\ request_pending \in BOOLEAN
    /\ open \in BOOLEAN
    /\ asked \subseteq DOMAIN requests
    /\ called \subseteq Waiters
    /\ served \subseteq Waiters

Init ==
    /\ requests = <<>>
    /\ request_pending = FALSE
    /\ open = TRUE
    /\ asked = {}
    /\ called = {}
    /\ served = {}

-----------------------------------------------------------------------------
InState(reqs, state) == {i \in DOMAIN reqs : reqs[i].state = state}

IsFirst(i, I) == i \in I /\ \A j \in I : i <= j

CanSend(reqs, pending) == ~pending /\ InState(reqs, "Enqueued") # {}

(* The packet; send_packet drops it once the client is closing.            *)
Ask(i, acknowledged) ==
    asked' = (asked \ acknowledged) \union (IF open THEN {i} ELSE {})

(* try_send_next_load_request on the requests as its caller leaves them.   *)
TrySendNextLoadRequest(reqs, pending, acknowledged) ==
    IF CanSend(reqs, pending)
    THEN \E i \in DOMAIN reqs :
           /\ IsFirst(i, InState(reqs, "Enqueued"))
           /\ requests' = [reqs EXCEPT ![i].state = "Pending"]
           /\ request_pending' = TRUE
           /\ Ask(i, acknowledged)
    ELSE /\ requests' = reqs
         /\ request_pending' = pending
         /\ asked' = asked \ acknowledged

CanCall(w) == w \notin called /\ After[w] \subseteq served

Call(w) == called' = called \union {w}

(* await_resources_loaded of a stage nobody asked for: the request is      *)
(* enqueued, perhaps sent at once, and the caller becomes its listener.    *)
AwaitNew(w) ==
    /\ CanCall(w)
    /\ \A i \in DOMAIN requests : requests[i].stage # StageOf[w]
    /\ TrySendNextLoadRequest(
         Append(requests, [stage |-> StageOf[w], state |-> "Enqueued", listeners |-> {w}]),
         request_pending, {})
    /\ Call(w)
    /\ UNCHANGED <<open, served>>

(* Mutant of AwaitKnown: a request that was sent takes no more listeners.  *)
AwaitEnqueued(w) ==
    /\ CanCall(w)
    /\ \E i \in DOMAIN requests :
         /\ requests[i].stage = StageOf[w]
         /\ IF requests[i].state = "Enqueued"
            THEN /\ requests' = [requests EXCEPT ![i].listeners = @ \union {w}]
                 /\ UNCHANGED served
            ELSE served' = served \union {w} /\ UNCHANGED requests
    /\ Call(w)
    /\ UNCHANGED <<request_pending, open, asked>>

(* The stage was asked for before: it is loaded, or one more waits for it. *)
AwaitKnown(w) ==
    /\ CanCall(w)
    /\ \E i \in DOMAIN requests :
         /\ requests[i].stage = StageOf[w]
         /\ IF requests[i].state # "Finished"
            THEN /\ requests' = [requests EXCEPT ![i].listeners = @ \union {w}]
                 /\ UNCHANGED served
            ELSE served' = served \union {w} /\ UNCHANGED requests
    /\ Call(w)
    /\ UNCHANGED <<request_pending, open, asked>>

(* Mutant of ResourcesRegistered: no further request is tried.             *)
RegisteredOnly(i) ==
    /\ i \in InState(requests, "Pending")
    /\ requests' = [requests EXCEPT ![i].state = "Finished", ![i].listeners = {}]
    /\ request_pending' = FALSE
    /\ asked' = asked \ {i}
    /\ served' = served \union requests[i].listeners
    /\ UNCHANGED <<open, called>>

(* Mutant of ResourcesRegistered: the listeners are not called.            *)
RegisteredQuietly(i) ==
    /\ i \in InState(requests, "Pending")
    /\ TrySendNextLoadRequest([requests EXCEPT ![i].state = "Finished"], FALSE, {i})
    /\ UNCHANGED <<open, called, served>>

(* on_packet with the id of the pending request: its listeners are told,   *)
(* and the next request is sent.                                           *)
ResourcesRegistered(i) ==
    /\ i \in InState(requests, "Pending")
    /\ TrySendNextLoadRequest(
         [requests EXCEPT ![i].state = "Finished", ![i].listeners = {}], FALSE, {i})
    /\ served' = served \union requests[i].listeners
    /\ UNCHANGED <<open, called>>

(* on_packet with any other id (0 is always one) bails, and                *)
(* handle_handle_error disconnects; or the client closes for another       *)
(* reason.  Its components still see the packets it receives.              *)
BadCallbackId ==
    /\ open' = FALSE
    /\ UNCHANGED <<requests, request_pending, asked, called, served>>

Next ==
    \/ \E w \in Waiters : AwaitNew(w) \/ AwaitKnown(w)
    \/ \E i \in DOMAIN requests : ResourcesRegistered(i)
    \/ BadCallbackId

Spec == Init /\ [][Next]_vars

(* A peer that answers what it is sent.                                    *)
Fairness == WF_vars(\E i \in asked : ResourcesRegistered(i))

FairSpec == Spec /\ Fairness

-----------------------------------------------------------------------------
(* At most one request is on its way, request_pending says whether one is, *)
(* and the peer of an open connection has been asked for it.               *)
OnePending ==
    /\ request_pending <=> InState(requests, "Pending") # {}
    /\ \A i, j \in InState(requests, "Pending") : i = j
    /\ open => InState(requests, "Pending") \subseteq asked

(* No request waits while none is pending: the pipeline never stalls, and  *)
(* requests are sent in the order in which they were made.                 *)
WorkConserving ==
    \A i \in InState(requests, "Enqueued") :
        /\ request_pending
        /\ \A j \in DOMAIN requests : j > i => requests[j].state = "Enqueued"

(* Whoever has called is served exactly when its stage is loaded; until    *)
(* then the stage's only request holds its listener, and nobody else's.    *)
NoLostListener ==
    /\ \A i, j \in DOMAIN requests : requests[i].stage = requests[j].stage => i = j
    /\ served \subseteq called
    /\ \A w \in called : \E i \in DOMAIN requests :
         /\ requests[i].stage = StageOf[w]
         /\ IF w \in served THEN requests[i].state = "Finished"
            ELSE requests[i].state # "Finished" /\ w \in requests[i].listeners
    /\ \A i \in DOMAIN requests : \A w \in requests[i].listeners :
         w \in called \ served /\ StageOf[w] = requests[i].stage

(* What the callers see of the requests.                                   *)
StagesQueued == [i \in DOMAIN requests |-> requests[i].stage]
StagesLoaded == {requests[i].stage : i \in InState(requests, "Finished")}

Loads == INSTANCE Loading WITH queue <- StagesQueued, loaded <- StagesLoaded

(* Whatever the peer acknowledges, and whichever stage is awaited while    *)
(* another is under way: stages are loaded in order, and no listener is    *)
(* forgotten, told twice or told early.                                    *)
ImplementsLoading == Loads!Spec

(* The callers that an honest peer of an open connection keeps waiting are *)
(* served in the end, in whatever order the stages were asked for.         *)
WaitersServed == \A w \in Waiters : w \in called ~> (w \in served \/ ~open)

=============================================================================
