--------------------------- MODULE ClientSession ----------------------------
(***************************************************************************)
(* A session of the client utilities: the registry of packet handlers with *)
(* its deferred updates (client-utils/src/handler.rs) and the Session      *)
(* future that polls the handlers, hands them one packet at a time and     *)
(* answers the code that owns it (client-utils/src/session.rs).            *)
(*                                                                         *)
(* A poll is taken apart into one step per handler, because the socket may *)
(* become ready between any two of them; nothing else runs during a poll.  *)
(* The values of packets and results are abstracted to whether a packet is *)
(* the one that is waited for, what handlers send is left to Connection.   *)
(***************************************************************************)
EXTENDS Naturals, Sequences, FiniteSets

CONSTANTS
    MaxHandlers,  \* bound: handlers registered in the life of a session
    MaxPackets,   \* bound: packets the peer sends
    AppOutcomes   \* what the application's own handlers do with a packet

ASSUME SessionAssumption ==
    /\ MaxHandlers \in Nat /\ MaxPackets \in Nat
    /\ AppOutcomes \subseteq {"ok", "register", "leave", "fail"}

Ids == 1..MaxHandlers                 \* PacketHandlerId
Packets == {"awaited", "other"}       \* does the call's matcher accept it?

(***************************************************************************)
(*   match  a HandlerAwaitMatching; sender: its oneshot has not been used  *)
(*   task   a TaskHandler around a TaskSimpleAction; executor: it has not  *)
(*          sent its request, sender: its own oneshot has not been used,   *)
(*          ready: that oneshot holds the result                           *)
(*   app    any other PacketHandler, LowLevelPing or one of a bot          *)
(***************************************************************************)
Handler == [kind: {"match", "task", "app"}, executor: BOOLEAN, sender: BOOLEAN, ready: BOOLEAN]

NewHandler(kind) ==
    [kind |-> kind, executor |-> kind = "task", sender |-> kind # "app", ready |-> FALSE]

Update == [op: {"Register", "Unregister"}, id: Ids]   \* PendingUpdate

(* What the owner of the session awaits: the packet of a matcher, a task's *)
(* result, or the end of the session (run); value: its oneshot has one;    *)
(* order: whether the select! polls the oneshot or the session first.      *)
Call ==
    [ kind: {"none", "match", "task", "run"}, id: 0..MaxHandlers,
      value: BOOLEAN, order: {"oneshot", "session"} ]

NewCall(kind, id) == [kind |-> kind, id |-> id, value |-> FALSE, order |-> "session"]
NoCall == NewCall("none", 0)

(* The connection: packets read from it in order, packets the peer may     *)
(* still send, whether poll_next left our waker, and how it ends.          *)
Wire ==
    [ inbox: Seq(Packets), left: 0..MaxPackets, waker: BOOLEAN,
      end: {"open", "failed", "closed"} ]

Phases == {"rest", "oneshot", "handlers", "read", "dispatch", "answer"}

VARIABLES
    registered,   \* the keys of PacketHandlerRegistry.handler
    handler,      \* the handlers by id, registered or in a pending update
    index,        \* handler_index
    pending,      \* pending_handler_updates
    disconnected, \* Session.disconnected
    phase,        \* where the poll of the owner's future stands
    at,           \* the id of the handler called last in this pass
    packet,       \* the packet that is dispatched
    wire,         \* the connection
    call,         \* what the owner awaits
    woken,        \* the owner's tokio task is scheduled
    served, passed, outcome,  \* history: see Calls
    finished      \* history: the handlers whose poll returned Ready

registryVars == <<registered, handler, index, pending>>
pollVars     == <<disconnected, phase, at, packet>>
history      == <<served, passed, outcome, finished>>
vars == <<registryVars, pollVars, wire, call, woken, history>>

TypeOK ==
    /\ registered \subseteq Ids
    /\ handler \in [Ids -> Handler]
    /\ index \in 0..MaxHandlers
    /\ pending \in Seq(Update)
    /\ disconnected \in BOOLEAN /\ woken \in BOOLEAN
    /\ phase \in Phases /\ at \in 0..MaxHandlers /\ packet \in Packets
    /\ wire \in Wire
    /\ call \in Call
    /\ served \in BOOLEAN /\ passed \in Nat /\ finished \subseteq Ids
    /\ outcome \in {"none", "answered", "disconnected", "cancelled"}

Init ==
    /\ registered = {} /\ handler = [n \in Ids |-> NewHandler("app")]
    /\ index = 0 /\ pending = <<>>
    /\ disconnected = FALSE /\ phase = "rest" /\ at = 0 /\ packet = "other"
    /\ wire = [inbox |-> <<>>, left |-> MaxPackets, waker |-> FALSE, end |-> "open"]
    /\ call = NoCall /\ woken = FALSE
    /\ served = FALSE /\ passed = 0 /\ outcome = "none" /\ finished = {}

-----------------------------------------------------------------------------
(* PacketHandlerRegistry.                                                  *)

(* handle and poll hold the RefCell of the handlers while they call them.  *)
Borrowed == phase \in {"handlers", "dispatch"}

HandlerId == index + 1

(* register_handler; a handler beyond the bound is not registered.         *)
RegisterHandler(kind) ==
    /\ index < MaxHandlers
    /\ index' = index + 1
    /\ handler' = [handler EXCEPT ![HandlerId] = NewHandler(kind)]
    /\ IF Borrowed
       THEN /\ pending' = Append(pending, [op |-> "Register", id |-> HandlerId])
            /\ UNCHANGED registered
       ELSE /\ registered' = registered \union {HandlerId}
            /\ UNCHANGED pending

(* remove_handler.                                                         *)
RemoveHandler(n) ==
    IF Borrowed
    THEN /\ pending' = Append(pending, [op |-> "Unregister", id |-> n])
         /\ UNCHANGED registered
    ELSE /\ registered' = registered \ {n}
         /\ UNCHANGED pending

(* commit_post_handle_updates: applied in order, the last one for an id    *)
(* decides whether it is registered.                                       *)
CommitUpdates ==
    /\ registered' =
         {n \in Ids :
            \/ \E i \in DOMAIN pending :
                 /\ pending[i] = [op |-> "Register", id |-> n]
                 /\ \A j \in DOMAIN pending : j > i => pending[j].id # n
            \/ n \in registered /\ \A i \in DOMAIN pending : pending[i].id # n}
    /\ pending' = <<>>

(* The handlers are called in the order of their ids.                      *)
Remaining == {n \in registered : n > at}
IsNext(n) == n \in Remaining /\ \A m \in Remaining : n <= m

-----------------------------------------------------------------------------
(* Handlers.                                                               *)

(* The receiver of the handler's oneshot is still there.                   *)
Listening(n) == call.kind \in {"match", "task"} /\ call.id = n

(* sender.send: the result is there for the owner, if it still listens.    *)
SendResult(n) ==
    call' = IF Listening(n) THEN [call EXCEPT !.value = TRUE] ELSE call

(* How a pass over the handlers goes on: the next one, or out of the loop. *)
Continue(n) == at' = n /\ UNCHANGED <<disconnected, phase>>

(* Poll::Ready(Ok(())): removed, but only once the pass is over.           *)
Finish(n) ==
    /\ RemoveHandler(n)
    /\ finished' = finished \union {n}
    /\ Continue(n)

(* HandlerAwaitMatching::poll.                                             *)
PollMatch(n) ==
    /\ handler[n].kind = "match"
    /\ IF handler[n].sender /\ Listening(n)
       THEN Continue(n) /\ UNCHANGED <<registered, pending, finished>>
       ELSE Finish(n)
    /\ UNCHANGED <<handler, index, packet, wire, call, woken, served, passed, outcome>>

(* TaskHandler::poll around TaskSimpleAction::poll: the request is sent    *)
(* first; a result that nobody waits for any more is an error, which ends  *)
(* the pass with the updates of other handlers uncommitted and the session *)
(* with it (handle_handler_error).                                         *)
PollTask(n) ==
    /\ handler[n].kind = "task"
    /\ handler' = [handler EXCEPT ![n].executor = FALSE]
    /\ \/ /\ ~handler[n].ready
          /\ Continue(n)
          /\ UNCHANGED <<registered, pending, call, finished>>
       \/ /\ handler[n].ready /\ Listening(n)
          /\ SendResult(n)
          /\ Finish(n)
       \/ /\ handler[n].ready /\ ~Listening(n)
          /\ disconnected' = TRUE /\ phase' = "read"
          /\ finished' = finished \union {n}
          /\ UNCHANGED <<registered, pending, at, call>>
    /\ UNCHANGED <<index, packet, wire, woken, served, passed, outcome>>

(* PacketHandler::poll, as the trait provides it.                          *)
PollApp(n) ==
    /\ handler[n].kind = "app"
    /\ Continue(n)
    /\ UNCHANGED <<registryVars, packet, wire, call, woken, history>>

(* HandlerAwaitMatching::handle_packet.                                    *)
MatchHandlePacket(n) ==
    /\ handler[n].kind = "match"
    /\ IF packet = "awaited" /\ handler[n].sender
       THEN /\ handler' = [handler EXCEPT ![n].sender = FALSE]
            /\ SendResult(n)
            /\ served' = (served \/ Listening(n))
       ELSE UNCHANGED <<handler, call, served>>
    /\ Continue(n)
    /\ UNCHANGED <<registered, index, pending, packet, wire, woken, passed, outcome, finished>>

(* TaskHandler and TaskSimpleAction::handle_packet: nothing is matched     *)
(* before the request is sent, and nothing twice.                          *)
TaskHandlePacket(n) ==
    /\ handler[n].kind = "task"
    /\ IF packet = "awaited" /\ handler[n].sender /\ ~handler[n].executor
       THEN /\ handler' = [handler EXCEPT ![n].sender = FALSE, ![n].ready = TRUE]
            /\ served' = (served \/ Listening(n))
       ELSE UNCHANGED <<handler, served>>
    /\ Continue(n)
    /\ UNCHANGED <<registered, index, pending, packet, wire, call, woken,
                   passed, outcome, finished>>

(* After a packet, handled or not: only one in a poll, and the next poll   *)
(* is asked for at once.                                                   *)
OnePacket ==
    /\ woken' = TRUE
    /\ phase' = IF call.order = "session" THEN "answer" ELSE "rest"

(* A handler of the application, which is given the session: it may        *)
(* register a handler, remove itself or fail, and a failure skips the      *)
(* handlers after it and the pending updates.                              *)
AppHandlePacket(n) ==
    /\ handler[n].kind = "app"
    /\ \/ /\ "ok" \in AppOutcomes \/ packet = "awaited"
          /\ Continue(n)
          /\ UNCHANGED <<registryVars, woken>>
       \/ /\ "register" \in AppOutcomes /\ packet = "other"
          /\ RegisterHandler("app")
          /\ Continue(n)
          /\ UNCHANGED woken
       \/ /\ "leave" \in AppOutcomes /\ packet = "other"
          /\ RemoveHandler(n)
          /\ Continue(n)
          /\ UNCHANGED <<handler, index, woken>>
       \/ /\ "fail" \in AppOutcomes /\ packet = "other"
          /\ disconnected' = TRUE
          /\ OnePacket
          /\ UNCHANGED <<registryVars, at>>
    /\ UNCHANGED <<packet, wire, call, history>>

-----------------------------------------------------------------------------
(* Session::poll.                                                          *)

Resolve(how) ==
    /\ call' = NoCall /\ outcome' = how /\ phase' = "rest"

(* The session is ready: await_match takes its handler back and fails, a   *)
(* TaskHandle fails whatever its oneshot holds.                            *)
SessionReady ==
    /\ Resolve("disconnected")
    /\ IF call.kind = "match"
       THEN registered' = registered \ {call.id}
       ELSE UNCHANGED registered
    /\ UNCHANGED <<handler, index, pending, disconnected, at, packet, woken,
                   served, passed, finished>>

(* Mutant of EnterSession: no look at the flag.                            *)
EnterSessionAnyway ==
    /\ phase' = "handlers" /\ at' = 0
    /\ UNCHANGED <<registryVars, disconnected, packet, wire, call, woken, history>>

EnterSession ==
    IF disconnected
    THEN SessionReady /\ UNCHANGED wire
    ELSE /\ phase' = "handlers" /\ at' = 0
         /\ UNCHANGED <<registryVars, disconnected, packet, wire, call, woken, history>>

PollHandlers ==
    /\ phase = "handlers"
    /\ \E n \in Ids : IsNext(n) /\ (PollMatch(n) \/ PollTask(n) \/ PollApp(n))

HandlersPolled ==
    /\ phase = "handlers" /\ Remaining = {}
    /\ CommitUpdates
    /\ phase' = "read"
    /\ UNCHANGED <<handler, index, disconnected, at, packet, wire, call, woken, history>>

(* connection.poll_next: a packet.                                         *)
ReadPacket ==
    /\ phase = "read" /\ wire.inbox # <<>>
    /\ packet' = Head(wire.inbox)
    /\ wire' = [wire EXCEPT !.inbox = Tail(@)]
    /\ phase' = "dispatch" /\ at' = 0
    /\ passed' = IF call.kind \in {"match", "task"} /\ served THEN passed + 1 ELSE passed
    /\ UNCHANGED <<registryVars, disconnected, call, woken, served, outcome, finished>>

(* An error, after which the stream is over and the loop goes on.          *)
ReadError ==
    /\ phase = "read" /\ wire.inbox = <<>> /\ wire.end = "failed"
    /\ wire' = [wire EXCEPT !.end = "closed"]
    /\ disconnected' = TRUE
    /\ UNCHANGED <<registryVars, phase, at, packet, call, woken, history>>

ReadNone ==
    /\ phase = "read" /\ wire.inbox = <<>> /\ wire.end = "closed"
    /\ SessionReady
    /\ UNCHANGED wire

ReadPending ==
    /\ phase = "read" /\ wire.inbox = <<>> /\ wire.end = "open"
    /\ wire' = [wire EXCEPT !.waker = TRUE]
    /\ phase' = IF call.order = "session" THEN "answer" ELSE "rest"
    /\ UNCHANGED <<registryVars, disconnected, at, packet, call, woken, history>>

DispatchPacket ==
    /\ phase = "dispatch"
    /\ \E n \in Ids :
         IsNext(n) /\ (MatchHandlePacket(n) \/ TaskHandlePacket(n) \/ AppHandlePacket(n))

(* Mutant of PacketDispatched: the loop goes on to the next packet.        *)
PacketDispatchedNext ==
    /\ phase = "dispatch" /\ Remaining = {}
    /\ CommitUpdates
    /\ phase' = "read" /\ woken' = TRUE
    /\ UNCHANGED <<handler, index, disconnected, at, packet, wire, call, history>>

(* Mutant of PacketDispatched: Pending without a wakeup.                   *)
PacketDispatchedQuietly ==
    /\ phase = "dispatch" /\ Remaining = {}
    /\ CommitUpdates
    /\ phase' = IF call.order = "session" THEN "answer" ELSE "rest"
    /\ UNCHANGED <<handler, index, disconnected, at, packet, wire, call, woken, history>>

PacketDispatched ==
    /\ phase = "dispatch" /\ Remaining = {}
    /\ CommitUpdates
    /\ OnePacket
    /\ UNCHANGED <<handler, index, disconnected, at, packet, wire, call, history>>

-----------------------------------------------------------------------------
(* The owner's future: await_match, a TaskHandle, or the session itself.   *)

(* A poll begins; the select! of await_match tries its branches in random  *)
(* order, a TaskHandle polls the session first.                            *)
PollBegins ==
    /\ phase = "rest" /\ call.kind # "none" /\ woken
    /\ woken' = FALSE
    /\ \E order \in IF call.kind = "match" THEN {"oneshot", "session"} ELSE {"session"} :
         call' = [call EXCEPT !.order = order]
    /\ phase' = "oneshot"
    /\ UNCHANGED <<registryVars, disconnected, at, packet, wire, history>>

(* The result is there: the handler stays and is removed when it is polled.*)
TakeResult ==
    /\ call.value
    /\ Resolve("answered")
    /\ UNCHANGED <<registryVars, disconnected, at, packet, wire, woken, served, passed, finished>>

OneshotFirst ==
    /\ phase = "oneshot"
    /\ IF call.order = "oneshot" /\ call.value THEN TakeResult ELSE EnterSession

OneshotLast ==
    /\ phase = "answer"
    /\ \/ TakeResult
       \/ /\ ~call.value
          /\ phase' = "rest"
          /\ UNCHANGED <<registryVars, disconnected, at, packet, wire, call, woken, history>>

Poll ==
    \/ PollBegins \/ OneshotFirst \/ OneshotLast
    \/ PollHandlers \/ HandlersPolled
    \/ ReadPacket \/ ReadError \/ ReadNone \/ ReadPending
    \/ DispatchPacket \/ PacketDispatched

-----------------------------------------------------------------------------
(* The owner's code between two awaits, and the peer.                      *)

Idle == phase = "rest" /\ call.kind = "none"

Opened(c) ==
    /\ call' = c /\ woken' = TRUE
    /\ served' = FALSE /\ passed' = 0 /\ outcome' = "none"
    /\ UNCHANGED <<pollVars, wire, finished>>

(* await_match and execute_task.                                           *)
AwaitMatch ==
    /\ Idle
    /\ RegisterHandler("match")
    /\ Opened(NewCall("match", HandlerId))

ExecuteTask ==
    /\ Idle
    /\ RegisterHandler("task")
    /\ Opened(NewCall("task", HandlerId))

(* The session awaited for its own sake, or beside a timer.                *)
RunSession ==
    /\ Idle
    /\ UNCHANGED registryVars
    /\ Opened(NewCall("run", 0))

(* register_packet_handler.                                                *)
RegisterPacketHandler ==
    /\ Idle
    /\ RegisterHandler("app")
    /\ UNCHANGED <<pollVars, wire, call, woken, history>>

(* The future is dropped between two polls, by a timer or a select!; a     *)
(* handler that waits for its receiver to close is woken.                  *)
CancelCall ==
    /\ phase = "rest" /\ call.kind # "none"
    /\ Resolve("cancelled")
    /\ woken' = TRUE
    /\ UNCHANGED <<registryVars, disconnected, at, packet, wire, served, passed, finished>>

(* The socket becomes ready and calls the waker it was left.               *)
Arrive(p) ==
    /\ wire.left > 0 /\ wire.end = "open"
    /\ wire' = [wire EXCEPT !.inbox = Append(@, p), !.left = @ - 1, !.waker = FALSE]
    /\ woken' = (woken \/ wire.waker)
    /\ UNCHANGED <<registryVars, pollVars, call, history>>

PeerEnds(end) ==
    /\ wire.end = "open"
    /\ wire' = [wire EXCEPT !.end = end, !.waker = FALSE]
    /\ woken' = (woken \/ wire.waker)
    /\ UNCHANGED <<registryVars, pollVars, call, history>>

Next ==
    \/ Poll
    \/ AwaitMatch \/ ExecuteTask \/ RunSession \/ RegisterPacketHandler \/ CancelCall
    \/ \E p \in Packets : Arrive(p)
    \/ \E end \in {"failed", "closed"} : PeerEnds(end)

Spec == Init /\ [][Next]_vars

(* tokio polls a task that was woken, and a poll runs to its end.          *)
FairSpec == Spec /\ WF_vars(Poll)

-----------------------------------------------------------------------------
(* Properties.                                                             *)

(* A handler whose poll has returned Ready is not polled again: a task's   *)
(* oneshot would panic, and its TaskHandler report a missing sender.  Its  *)
(* removal is deferred, and skipped when another handler fails, so this    *)
(* rests on the flag that ends the session then.                           *)
FinishedNotPolled ==
    phase = "handlers" => \A n \in finished : ~IsNext(n)

(* A call whose result is there, or whose connection has ended, returns.   *)
CallersAnswered ==
    (call.kind # "none" /\ (call.value \/ wire.end # "open")) ~> (call.kind = "none")

(* The session keeps the promises of Calls: no answer but to the packet    *)
(* awaited, no failure but of a session that is over, and at most one      *)
(* packet handled between the awaited one and the answer ("only handle one *)
(* packet at the time").                                                   *)
AbstractCall ==
    IF call.kind \in {"match", "task"} THEN "waiting"
    ELSE IF call.kind = "run" THEN "running" ELSE "none"

C == INSTANCE Calls WITH
       call <- AbstractCall,
       over <- disconnected \/ wire.end # "open"

ImplementsCalls == C!Spec

=============================================================================
