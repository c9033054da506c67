------------------------ MODULE ClientSessionProofs -------------------------
(***************************************************************************)
(* Proofs about ClientSession, for every number of handlers and packets    *)
(* and whatever the application's handlers do: type correctness, that no   *)
(* handler is polled after it has finished, and that a session keeps the   *)
(* promises of Calls.                                                      *)
(***************************************************************************)
EXTENDS ClientSession, SequenceTheorems, TLAPS

(* Ids are handed out once, in order.                                      *)
IdsInOrder ==
    /\ \A n \in registered \union finished : n <= index
    /\ \A i \in DOMAIN pending : pending[i].id <= index
    /\ call.id <= index

(* Where finished handlers and deferred updates may be while the session   *)
(* lives.  A failure leaves both in disorder, but ends the polls.          *)
InOrder ==
    /\ phase = "handlers" => ~disconnected
    /\ ~disconnected /\ phase \notin {"handlers", "dispatch"} => pending = <<>>
    /\ ~disconnected /\ phase = "handlers" =>
          /\ \A i \in DOMAIN pending : pending[i].op = "Unregister"
          /\ \A n \in finished \intersect registered :
                n <= at /\ \E i \in DOMAIN pending : pending[i].id = n
    /\ ~disconnected /\ phase # "handlers" => finished \intersect registered = {}
    /\ ~disconnected =>
          \A i \in DOMAIN pending : pending[i].op = "Register" => pending[i].id \notin finished

Waiting == call.kind \in {"match", "task"}

(* The call and the handler that serves it.                                *)
CallServed ==
    /\ Waiting => call.id \in Ids /\ handler[call.id].kind = call.kind
    /\ ~Waiting => ~call.value
    /\ call.value => served
    /\ Waiting /\ handler[call.id].ready => served
    /\ call.kind = "match" /\ served => call.value
    /\ call.kind = "task" /\ served => call.value \/ handler[call.id].ready
    /\ call.kind = "task" => call.order = "session"
    /\ call.order = "oneshot" /\ phase \in {"handlers", "read"} => ~call.value

(* A task whose result is not out yet stays registered, and a result that  *)
(* is ready is collected before the next packet is read.                   *)
TaskKept ==
    call.kind = "task" /\ ~call.value /\ ~disconnected =>
        /\ call.id \in registered
        /\ call.id \notin finished
        /\ \A i \in DOMAIN pending : pending[i].id # call.id
        /\ served => phase # "read"
        /\ served /\ phase = "handlers" => at < call.id

(* How many packets can be handled between the awaited one and the answer. *)
OnePasses ==
    Waiting =>
        /\ passed \in 0..1
        /\ phase \in {"handlers", "read"} => passed = 0
        /\ passed = 1 => \/ disconnected
                         \/ phase \in {"dispatch", "answer"} /\ call.value /\ call.order = "session"

Inv == TypeOK /\ IdsInOrder /\ InOrder /\ CallServed /\ TaskKept /\ OnePasses

-----------------------------------------------------------------------------
(* Facts about the data.                                                   *)

(* One more deferred update.                                               *)
LEMMA DeferFacts ==
    ASSUME pending \in Seq(Update), NEW u \in Update, pending' = Append(pending, u)
    PROVE  /\ pending' \in Seq(Update)
           /\ \A i \in DOMAIN pending : i \in DOMAIN pending' /\ pending'[i] = pending[i]
           /\ Len(pending) + 1 \in DOMAIN pending' /\ pending'[Len(pending) + 1] = u
           /\ \A i \in DOMAIN pending' : i \in DOMAIN pending \/ pending'[i] = u
  OBVIOUS

(* What a call becomes when its result comes and when it is polled.        *)
LEMMA CallFacts ==
    /\ NoCall \in Call
    /\ \A c \in Call :
          /\ [c EXCEPT !.value = TRUE] \in Call
          /\ \A o \in {"oneshot", "session"} : [c EXCEPT !.order = o] \in Call
    /\ \A k \in {"match", "task", "run"}, n \in 0..MaxHandlers :
          /\ NewCall(k, n) \in Call
          /\ NewCall(k, n).kind = k /\ NewCall(k, n).id = n
          /\ NewCall(k, n).value = FALSE /\ NewCall(k, n).order = "session"
  <1>1. ASSUME NEW k \in {"none", "match", "task", "run"}, NEW n \in 0..MaxHandlers
        PROVE  NewCall(k, n) \in Call
    BY DEF NewCall, Call
  <1>2. NoCall \in Call
    BY <1>1, SessionAssumption DEF NoCall
  <1>3. \A k \in {"match", "task", "run"}, n \in 0..MaxHandlers :
          /\ NewCall(k, n).kind = k /\ NewCall(k, n).id = n
          /\ NewCall(k, n).value = FALSE /\ NewCall(k, n).order = "session"
    BY DEF NewCall
  <1>4. \A c \in Call :
          /\ [c EXCEPT !.value = TRUE] \in Call
          /\ \A o \in {"oneshot", "session"} : [c EXCEPT !.order = o] \in Call
    BY DEF Call
  <1> QED BY <1>1, <1>2, <1>3, <1>4

(* The ids in deferred updates.                                            *)
LEMMA PendingIds ==
    ASSUME TypeOK, IdsInOrder
    PROVE  \A i \in DOMAIN pending : pending[i].id \in Nat /\ pending[i].id <= index
  <1>1. \A i \in DOMAIN pending : pending[i] \in Update
    BY DEF TypeOK
  <1> QED BY <1>1 DEF IdsInOrder, Update, Ids

(* A new handler.                                                          *)
LEMMA HandlerFacts ==
    \A k \in {"match", "task", "app"} :
        /\ NewHandler(k) \in Handler
        /\ NewHandler(k).kind = k /\ NewHandler(k).ready = FALSE
  <1> SUFFICES ASSUME NEW k \in {"match", "task", "app"}
               PROVE  /\ NewHandler(k) \in Handler
                      /\ NewHandler(k).kind = k /\ NewHandler(k).ready = FALSE
    OBVIOUS
  <1> DEFINE e == (k = "task")
             s == (k # "app")
  <1>1. e \in BOOLEAN /\ s \in BOOLEAN
    OBVIOUS
  <1>2. NewHandler(k) = [kind |-> k, executor |-> e, sender |-> s, ready |-> FALSE]
    BY DEF NewHandler
  <1> HIDE DEF e, s
  <1> QED BY <1>1, <1>2 DEF Handler

(* register_handler hands out a fresh id, now or when the pass is over.    *)
LEMMA RegisterFacts ==
    ASSUME TypeOK, NEW k \in {"match", "task", "app"}, RegisterHandler(k)
    PROVE  /\ HandlerId \in Ids /\ HandlerId = index + 1
           /\ index \in Nat /\ index' = index + 1 /\ index' \in 0..MaxHandlers
           /\ handler' \in [Ids -> Handler]
           /\ handler'[HandlerId] = NewHandler(k)
           /\ \A n \in Ids : n # HandlerId => handler'[n] = handler[n]
           /\ Borrowed => /\ pending' = Append(pending, [op |-> "Register", id |-> HandlerId])
                          /\ registered' = registered
           /\ ~Borrowed => registered' = registered \union {HandlerId} /\ pending' = pending
           /\ [op |-> "Register", id |-> HandlerId] \in Update
  <1>1. HandlerId \in Ids /\ HandlerId = index + 1 /\ index \in Nat
    BY SessionAssumption DEF TypeOK, RegisterHandler, HandlerId, Ids
  <1>2. index' = index + 1 /\ index' \in 0..MaxHandlers
    BY SessionAssumption DEF TypeOK, RegisterHandler
  <1>3. [op |-> "Register", id |-> HandlerId] \in Update
    BY <1>1 DEF Update
  <1>4. NewHandler(k) \in Handler
    BY HandlerFacts
  <1>5. /\ handler' \in [Ids -> Handler]
        /\ handler'[HandlerId] = NewHandler(k)
        /\ \A n \in Ids : n # HandlerId => handler'[n] = handler[n]
    BY <1>1, <1>4 DEF TypeOK, RegisterHandler
  <1> QED BY <1>1, <1>2, <1>3, <1>5 DEF RegisterHandler

(* commit_post_handle_updates.                                             *)
LEMMA CommitFacts ==
    ASSUME TypeOK, CommitUpdates
    PROVE  /\ registered' \subseteq Ids /\ pending' = <<>> /\ pending' \in Seq(Update)
           /\ \A n \in registered' :
                 \/ \E i \in DOMAIN pending : pending[i].op = "Register" /\ pending[i].id = n
                 \/ n \in registered /\ \A i \in DOMAIN pending : pending[i].id # n
           /\ \A n \in registered :
                 (\A i \in DOMAIN pending : pending[i].id # n) => n \in registered'
  BY DEF TypeOK, CommitUpdates

(* The handler that is called next.                                        *)
LEMMA NextFacts ==
    ASSUME TypeOK, NEW n \in Ids, IsNext(n)
    PROVE  /\ n \in registered /\ n > at /\ n \in Nat /\ at \in Nat /\ n \in 0..MaxHandlers
           /\ \A m \in registered : m > at => n <= m
  BY SessionAssumption DEF TypeOK, IsNext, Remaining, Ids

-----------------------------------------------------------------------------
(* The steps of a poll.                                                    *)

LEMMA PollBeginsInv ==
    ASSUME Inv, PollBegins
    PROVE  Inv'
  <1>1. PICK o \in {"oneshot", "session"} :
           /\ call.kind # "match" => o = "session"
           /\ call' = [call EXCEPT !.order = o]
    BY DEF PollBegins
  <1>2. /\ call' \in Call
        /\ call'.kind = call.kind /\ call'.id = call.id /\ call'.value = call.value
        /\ call'.order = o
    BY <1>1, CallFacts DEF Inv, TypeOK, Call
  <1>3. /\ phase = "rest" /\ phase' = "oneshot" /\ woken' = FALSE
        /\ UNCHANGED <<registryVars, disconnected, at, packet, wire, history>>
    BY DEF PollBegins
  <1>4. TypeOK'
    BY <1>2, <1>3 DEF Inv, TypeOK, Phases, registryVars, history
  <1>5. IdsInOrder' /\ InOrder'
    BY <1>2, <1>3 DEF Inv, IdsInOrder, InOrder, registryVars, history
  <1>6. CallServed' /\ TaskKept'
    BY <1>1, <1>2, <1>3 DEF Inv, CallServed, TaskKept, Waiting, registryVars, history
  <1>7. OnePasses'
    BY <1>2, <1>3 DEF Inv, OnePasses, Waiting, history
  <1> QED BY <1>4, <1>5, <1>6, <1>7 DEF Inv

(* A call that returns leaves no trace but its handler.                    *)
LEMMA ResolveInv ==
    ASSUME Inv, NEW how \in {"answered", "disconnected", "cancelled"}, Resolve(how),
           phase \in {"rest", "oneshot", "read", "answer"},
           registered' \subseteq registered, woken' \in BOOLEAN,
           UNCHANGED <<handler, index, pending, disconnected, at, packet, wire,
                       served, passed, finished>>
    PROVE  Inv'
  <1>1. call' \in Call /\ call'.kind = "none" /\ call'.id = 0 /\ call'.value = FALSE /\ call'.order = "session"
    BY CallFacts DEF Resolve, NoCall, NewCall
  <1>2. phase' = "rest" /\ outcome' = how
    BY DEF Resolve
  <1>3. TypeOK'
    BY <1>1, <1>2 DEF Inv, TypeOK, Phases
  <1>4. IdsInOrder'
    BY <1>1 DEF Inv, TypeOK, IdsInOrder
  <1>5. InOrder'
    BY <1>2 DEF Inv, InOrder
  <1>6. CallServed' /\ TaskKept' /\ OnePasses'
    BY <1>1 DEF CallServed, TaskKept, OnePasses, Waiting
  <1> QED BY <1>3, <1>4, <1>5, <1>6 DEF Inv

LEMMA TakeResultInv ==
    ASSUME Inv, phase \in {"oneshot", "answer"}, TakeResult
    PROVE  Inv'
  BY ResolveInv DEF TakeResult, registryVars, Inv, TypeOK

LEMMA SessionReadyInv ==
    ASSUME Inv, phase \in {"oneshot", "read"}, SessionReady, UNCHANGED wire
    PROVE  Inv'
  <1>1. registered' \subseteq registered
    BY DEF SessionReady
  <1> QED BY <1>1, ResolveInv DEF SessionReady, Inv, TypeOK

LEMMA OneshotFirstInv ==
    ASSUME Inv, OneshotFirst
    PROVE  Inv'
  <1>1. CASE call.order = "oneshot" /\ call.value
    BY <1>1, TakeResultInv DEF OneshotFirst
  <1>2. CASE ~(call.order = "oneshot" /\ call.value) /\ disconnected
    BY <1>2, SessionReadyInv DEF OneshotFirst, EnterSession
  <1>3. CASE ~(call.order = "oneshot" /\ call.value) /\ ~disconnected
    <2>1. /\ phase = "oneshot" /\ phase' = "handlers" /\ at' = 0
          /\ UNCHANGED <<registryVars, disconnected, packet, wire, call, woken, history>>
      BY <1>3 DEF OneshotFirst, EnterSession
    <2>2. TypeOK'
      BY <2>1, SessionAssumption DEF Inv, TypeOK, Phases, registryVars, history
    <2>3. IdsInOrder' /\ InOrder'
      BY <1>3, <2>1 DEF Inv, IdsInOrder, InOrder, registryVars, history
    <2>4. CallServed'
      BY <1>3, <2>1 DEF Inv, CallServed, Waiting, registryVars, history
    <2>5. TaskKept'
      <3>1. call.kind = "task" => call.id \in Ids /\ 0 < call.id
        BY SessionAssumption DEF Inv, CallServed, Waiting, Ids
      <3> QED BY <2>1, <3>1, <1>3 DEF Inv, TaskKept, registryVars, history
    <2>6. OnePasses'
      BY <1>3, <2>1 DEF Inv, OnePasses, Waiting, history
    <2> QED BY <2>2, <2>3, <2>4, <2>5, <2>6 DEF Inv
  <1> QED BY <1>1, <1>2, <1>3

LEMMA OneshotLastInv ==
    ASSUME Inv, OneshotLast
    PROVE  Inv'
  <1>1. CASE TakeResult
    BY <1>1, TakeResultInv DEF OneshotLast
  <1>2. CASE ~TakeResult
    <2>1. /\ phase = "answer" /\ phase' = "rest" /\ ~call.value
          /\ UNCHANGED <<registryVars, disconnected, at, packet, wire, call, woken, history>>
      BY <1>2 DEF OneshotLast
    <2>2. TypeOK'
      BY <2>1 DEF Inv, TypeOK, Phases, registryVars, history
    <2>3. IdsInOrder' /\ InOrder'
      BY <2>1 DEF Inv, IdsInOrder, InOrder, registryVars, history
    <2>4. CallServed' /\ TaskKept' /\ OnePasses'
      BY <2>1 DEF Inv, CallServed, TaskKept, OnePasses, Waiting, registryVars, history
    <2> QED BY <2>2, <2>3, <2>4 DEF Inv
  <1> QED BY <1>1, <1>2

LEMMA PollMatchInv ==
    ASSUME Inv, phase = "handlers", NEW n \in Ids, IsNext(n), PollMatch(n)
    PROVE  Inv'
  <1>1. /\ handler[n].kind = "match" /\ at' = n
        /\ UNCHANGED <<handler, index, packet, wire, call, woken, served, passed, outcome>>
        /\ UNCHANGED <<registered, disconnected, phase>>
    BY DEF PollMatch, Continue, Finish, RemoveHandler, Borrowed
  <1>2. /\ n \in registered /\ n > at /\ n \in Nat /\ at \in Nat /\ n \in 0..MaxHandlers
        /\ \A m \in registered : m > at => n <= m
    BY NextFacts DEF Inv
  <1>3. call.kind = "task" => call.id \in Ids /\ call.id # n
    BY <1>1 DEF Inv, CallServed, Waiting
  <1>4. CallServed' /\ OnePasses'
    BY <1>1 DEF Inv, CallServed, OnePasses, Waiting
  <1>5. CASE UNCHANGED <<pending, finished>>
    <2>1. TypeOK' /\ IdsInOrder'
      BY <1>1, <1>2, <1>5 DEF Inv, TypeOK, IdsInOrder
    <2>2. InOrder'
      BY <1>1, <1>2, <1>5 DEF Inv, TypeOK, InOrder, Ids
    <2>3. TaskKept'
      BY <1>1, <1>2, <1>3, <1>5 DEF Inv, TaskKept, Ids
    <2> QED BY <1>4, <2>1, <2>2, <2>3 DEF Inv
  <1>6. CASE Finish(n)
    <2> DEFINE u == [op |-> "Unregister", id |-> n]
    <2>1. u \in Update /\ u.op = "Unregister" /\ u.id = n
      BY DEF Update
    <2>2. pending' = Append(pending, u) /\ finished' = finished \union {n}
      BY <1>6 DEF Finish, RemoveHandler, Borrowed
    <2> HIDE DEF u
    <2>3. /\ pending' \in Seq(Update)
          /\ \A i \in DOMAIN pending : i \in DOMAIN pending' /\ pending'[i] = pending[i]
          /\ Len(pending) + 1 \in DOMAIN pending' /\ pending'[Len(pending) + 1] = u
          /\ \A i \in DOMAIN pending' : i \in DOMAIN pending \/ pending'[i] = u
      BY <2>1, <2>2, DeferFacts DEF Inv, TypeOK
    <2>4. TypeOK'
      BY <1>1, <1>2, <2>2, <2>3 DEF Inv, TypeOK
    <2>5. IdsInOrder'
      BY <1>1, <1>2, <2>1, <2>2, <2>3 DEF Inv, IdsInOrder
    <2>6. InOrder'
      BY <1>1, <1>2, <2>1, <2>2, <2>3 DEF Inv, TypeOK, InOrder, Ids
    <2>7. TaskKept'
      BY <1>1, <1>2, <1>3, <2>1, <2>2, <2>3 DEF Inv, TaskKept, Ids
    <2> QED BY <1>4, <2>4, <2>5, <2>6, <2>7 DEF Inv
  <1>7. UNCHANGED <<pending, finished>> \/ Finish(n)
    BY DEF PollMatch
  <1> QED BY <1>5, <1>6, <1>7

(* The three ways a task's poll goes.                                      *)
LEMMA PollTaskInv ==
    ASSUME Inv, phase = "handlers", NEW n \in Ids, IsNext(n), PollTask(n)
    PROVE  Inv'
  <1>1. /\ handler[n].kind = "task"
        /\ UNCHANGED <<registered, index, packet, wire, woken, served, passed, outcome>>
    BY DEF PollTask, Finish, RemoveHandler, Borrowed
  <1>2. /\ n \in registered /\ n > at /\ n \in Nat /\ at \in Nat /\ n \in 0..MaxHandlers
        /\ \A m \in registered : m > at => n <= m
    BY NextFacts DEF Inv
  <1>3. [handler[n] EXCEPT !.executor = FALSE] \in Handler
    BY DEF Inv, TypeOK, Handler
  <1>4. /\ handler' \in [Ids -> Handler]
        /\ \A m \in Ids : handler'[m].kind = handler[m].kind /\ handler'[m].ready = handler[m].ready
    BY <1>3 DEF Inv, TypeOK, PollTask, Handler
  <1>5. Waiting => call.id \in Ids
    BY DEF Inv, CallServed
  <1>6. CASE /\ ~handler[n].ready /\ Continue(n)
             /\ UNCHANGED <<registered, pending, call, finished>>
    <2>1. at' = n /\ UNCHANGED <<disconnected, phase>>
      BY <1>6 DEF Continue
    <2>2. TypeOK' /\ IdsInOrder'
      BY <1>1, <1>2, <1>4, <1>6, <2>1 DEF Inv, TypeOK, IdsInOrder
    <2>3. InOrder'
      BY <1>1, <1>2, <1>6, <2>1 DEF Inv, TypeOK, InOrder, Ids
    <2>4. CallServed' /\ OnePasses'
      BY <1>1, <1>4, <1>5, <1>6, <2>1 DEF Inv, CallServed, OnePasses, Waiting
    <2>5. call.kind = "task" /\ ~call.value /\ served => call.id # n
      BY <1>6 DEF Inv, CallServed
    <2>6. TaskKept'
      BY <1>1, <1>2, <1>5, <1>6, <2>1, <2>5 DEF Inv, TaskKept, Waiting, Ids
    <2> QED BY <2>2, <2>3, <2>4, <2>6 DEF Inv
  <1>7. CASE handler[n].ready /\ Listening(n) /\ SendResult(n) /\ Finish(n)
    <2> DEFINE u == [op |-> "Unregister", id |-> n]
    <2>1. u \in Update /\ u.op = "Unregister" /\ u.id = n
      BY DEF Update
    <2>2. /\ pending' = Append(pending, u) /\ finished' = finished \union {n}
          /\ at' = n /\ UNCHANGED <<disconnected, phase>>
      BY <1>7 DEF Finish, Continue, RemoveHandler, Borrowed
    <2> HIDE DEF u
    <2>3. /\ pending' \in Seq(Update)
          /\ \A i \in DOMAIN pending : i \in DOMAIN pending' /\ pending'[i] = pending[i]
          /\ Len(pending) + 1 \in DOMAIN pending' /\ pending'[Len(pending) + 1] = u
          /\ \A i \in DOMAIN pending' : i \in DOMAIN pending \/ pending'[i] = u
      BY <2>1, <2>2, DeferFacts DEF Inv, TypeOK
    <2>4. call' = [call EXCEPT !.value = TRUE] /\ call.id = n /\ Waiting
      BY <1>7 DEF SendResult, Listening, Waiting
    <2>5. /\ call' \in Call
          /\ call'.kind = call.kind /\ call'.id = call.id /\ call'.value = TRUE
          /\ call'.order = call.order
      BY <2>4, CallFacts DEF Inv, TypeOK, Call
    <2>6. call.kind = "task" /\ served /\ call.order = "session"
      BY <1>1, <1>7, <2>4 DEF Inv, CallServed
    <2>7. TypeOK'
      BY <1>1, <1>2, <1>4, <2>2, <2>3, <2>5 DEF Inv, TypeOK
    <2>8. IdsInOrder'
      BY <1>1, <1>2, <2>1, <2>2, <2>3, <2>5 DEF Inv, IdsInOrder
    <2>9. InOrder'
      BY <1>1, <1>2, <2>1, <2>2, <2>3 DEF Inv, TypeOK, InOrder, Ids
    <2>10. CallServed' /\ TaskKept'
      BY <1>1, <1>4, <1>5, <2>2, <2>4, <2>5, <2>6 DEF Inv, CallServed, TaskKept, Waiting
    <2>11. OnePasses'
      BY <1>1, <2>2, <2>5 DEF Inv, OnePasses, Waiting
    <2> QED BY <2>7, <2>8, <2>9, <2>10, <2>11 DEF Inv
  <1>8. CASE /\ disconnected' = TRUE /\ phase' = "read"
             /\ finished' = finished \union {n}
             /\ UNCHANGED <<registered, pending, at, call>>
    <2>1. TypeOK' /\ IdsInOrder'
      BY <1>1, <1>2, <1>4, <1>8 DEF Inv, TypeOK, IdsInOrder, Phases
    <2>2. InOrder' /\ TaskKept' /\ OnePasses'
      BY <1>1, <1>8 DEF Inv, InOrder, TaskKept, OnePasses, Waiting
    <2>3. CallServed'
      BY <1>1, <1>4, <1>5, <1>8 DEF Inv, CallServed, Waiting
    <2> QED BY <2>1, <2>2, <2>3 DEF Inv
  <1> QED BY <1>6, <1>7, <1>8 DEF PollTask

LEMMA PollAppInv ==
    ASSUME Inv, phase = "handlers", NEW n \in Ids, IsNext(n), PollApp(n)
    PROVE  Inv'
  <1>1. /\ handler[n].kind = "app" /\ at' = n
        /\ UNCHANGED <<registryVars, disconnected, phase, packet, wire, call, woken, history>>
    BY DEF PollApp, Continue
  <1>2. /\ n \in registered /\ n > at /\ n \in Nat /\ at \in Nat /\ n \in 0..MaxHandlers
        /\ \A m \in registered : m > at => n <= m
    BY NextFacts DEF Inv
  <1>3. call.kind = "task" => call.id \in Ids /\ call.id # n
    BY <1>1 DEF Inv, CallServed, Waiting
  <1>4. TypeOK' /\ IdsInOrder'
    BY <1>1, <1>2 DEF Inv, TypeOK, IdsInOrder, registryVars, history
  <1>5. InOrder'
    BY <1>1, <1>2 DEF Inv, TypeOK, InOrder, Ids, registryVars, history
  <1>6. CallServed' /\ OnePasses'
    BY <1>1 DEF Inv, CallServed, OnePasses, Waiting, registryVars, history
  <1>7. TaskKept'
    BY <1>1, <1>2, <1>3 DEF Inv, TaskKept, Ids, registryVars, history
  <1> QED BY <1>4, <1>5, <1>6, <1>7 DEF Inv

LEMMA HandlersPolledInv ==
    ASSUME Inv, HandlersPolled
    PROVE  Inv'
  <1>1. /\ phase = "handlers" /\ phase' = "read" /\ Remaining = {} /\ CommitUpdates
        /\ UNCHANGED <<handler, index, disconnected, at, packet, wire, call, woken, history>>
    BY DEF HandlersPolled
  <1>2. /\ registered' \subseteq Ids /\ pending' = <<>> /\ pending' \in Seq(Update)
        /\ \A n \in registered' :
              \/ \E i \in DOMAIN pending : pending[i].op = "Register" /\ pending[i].id = n
              \/ n \in registered /\ \A i \in DOMAIN pending : pending[i].id # n
        /\ \A n \in registered :
              (\A i \in DOMAIN pending : pending[i].id # n) => n \in registered'
    BY <1>1, CommitFacts DEF Inv
  <1>3. DOMAIN pending' = {}
    BY <1>2
  <1>4. TypeOK' /\ IdsInOrder'
    BY <1>1, <1>2, <1>3 DEF Inv, TypeOK, IdsInOrder, Phases, history
  <1>5. InOrder'
    BY <1>1, <1>2, <1>3 DEF Inv, InOrder, history
  <1>6. CallServed' /\ OnePasses'
    BY <1>1 DEF Inv, CallServed, OnePasses, Waiting, history
  <1>7. call.kind = "task" /\ ~call.value /\ ~disconnected => ~(served /\ at < call.id)
    BY <1>1 DEF Inv, TaskKept, Remaining, Ids, TypeOK
  <1>8. TaskKept'
    BY <1>1, <1>2, <1>3, <1>7 DEF Inv, TaskKept, history
  <1> QED BY <1>4, <1>5, <1>6, <1>8 DEF Inv

LEMMA ReadPacketInv ==
    ASSUME Inv, ReadPacket
    PROVE  Inv'
  <1>1. /\ phase = "read" /\ phase' = "dispatch" /\ wire.inbox # <<>> /\ at' = 0
        /\ packet' = Head(wire.inbox) /\ wire' = [wire EXCEPT !.inbox = Tail(wire.inbox)]
        /\ passed' = IF Waiting /\ served THEN passed + 1 ELSE passed
        /\ UNCHANGED <<registryVars, disconnected, call, woken, served, outcome, finished>>
    BY DEF ReadPacket, Waiting
  <1>2. wire.inbox \in Seq(Packets)
    BY DEF Inv, TypeOK, Wire
  <1>3. Head(wire.inbox) \in Packets /\ Tail(wire.inbox) \in Seq(Packets)
    BY <1>1, <1>2
  <1>4. wire' \in Wire
    BY <1>1, <1>3 DEF Inv, TypeOK, Wire
  <1>5. passed' \in Nat
    BY <1>1 DEF Inv, TypeOK
  <1>6. TypeOK'
    BY <1>1, <1>3, <1>4, <1>5, SessionAssumption DEF Inv, TypeOK, Phases, registryVars
  <1>7. IdsInOrder' /\ InOrder' /\ CallServed' /\ TaskKept'
    BY <1>1 DEF Inv, IdsInOrder, InOrder, CallServed, TaskKept, Waiting, registryVars
  <1>8. Waiting => passed = 0
    BY <1>1 DEF Inv, OnePasses
  <1>9. Waiting /\ served => disconnected \/ (call.value /\ call.order = "session")
    BY <1>1 DEF Inv, CallServed, TaskKept, Waiting, TypeOK, Call
  <1>10. OnePasses'
    BY <1>1, <1>8, <1>9 DEF OnePasses, Waiting
  <1> QED BY <1>6, <1>7, <1>10 DEF Inv

LEMMA ReadErrorInv ==
    ASSUME Inv, ReadError
    PROVE  Inv'
  <1>1. /\ phase = "read" /\ wire' = [wire EXCEPT !.end = "closed"] /\ disconnected' = TRUE
        /\ UNCHANGED <<registryVars, phase, at, packet, call, woken, history>>
    BY DEF ReadError
  <1>2. wire' \in Wire
    BY <1>1 DEF Inv, TypeOK, Wire
  <1>3. TypeOK'
    BY <1>1, <1>2 DEF Inv, TypeOK, registryVars, history
  <1>4. IdsInOrder' /\ InOrder'
    BY <1>1 DEF Inv, IdsInOrder, InOrder, registryVars, history
  <1>5. CallServed' /\ TaskKept' /\ OnePasses'
    BY <1>1 DEF Inv, CallServed, TaskKept, OnePasses, Waiting, registryVars, history
  <1> QED BY <1>3, <1>4, <1>5 DEF Inv

LEMMA ReadPendingInv ==
    ASSUME Inv, ReadPending
    PROVE  Inv'
  <1>1. /\ phase = "read" /\ wire' = [wire EXCEPT !.waker = TRUE]
        /\ phase' \in {"answer", "rest"}
        /\ UNCHANGED <<registryVars, disconnected, at, packet, call, woken, history>>
    BY DEF ReadPending
  <1>2. wire' \in Wire
    BY <1>1 DEF Inv, TypeOK, Wire
  <1>3. TypeOK'
    BY <1>1, <1>2 DEF Inv, TypeOK, Phases, registryVars, history
  <1>4. IdsInOrder' /\ InOrder'
    BY <1>1 DEF Inv, IdsInOrder, InOrder, registryVars, history
  <1>5. CallServed' /\ TaskKept' /\ OnePasses'
    BY <1>1 DEF Inv, CallServed, TaskKept, OnePasses, Waiting, registryVars, history
  <1> QED BY <1>3, <1>4, <1>5 DEF Inv

LEMMA MatchHandlePacketInv ==
    ASSUME Inv, phase = "dispatch", NEW n \in Ids, IsNext(n), MatchHandlePacket(n)
    PROVE  Inv'
  <1>1. /\ handler[n].kind = "match" /\ at' = n /\ UNCHANGED <<disconnected, phase>>
        /\ UNCHANGED <<registered, index, pending, packet, wire, woken, passed, outcome, finished>>
    BY DEF MatchHandlePacket, Continue
  <1>2. n \in 0..MaxHandlers
    BY NextFacts DEF Inv
  <1>3. IdsInOrder /\ InOrder
    BY DEF Inv
  <1>4. CASE UNCHANGED <<handler, call, served>>
    <2>1. TypeOK' /\ IdsInOrder' /\ InOrder'
      BY <1>1, <1>2, <1>4 DEF Inv, TypeOK, IdsInOrder, InOrder
    <2>2. CallServed' /\ TaskKept' /\ OnePasses'
      BY <1>1, <1>4 DEF Inv, CallServed, TaskKept, OnePasses, Waiting
    <2> QED BY <2>1, <2>2 DEF Inv
  <1>5. CASE /\ handler' = [handler EXCEPT ![n].sender = FALSE]
             /\ SendResult(n)
             /\ served' = (served \/ Listening(n))
    <2>1. [handler[n] EXCEPT !.sender = FALSE] \in Handler
      BY DEF Inv, TypeOK, Handler
    <2>2. /\ handler' \in [Ids -> Handler]
          /\ \A m \in Ids : handler'[m].kind = handler[m].kind /\ handler'[m].ready = handler[m].ready
      BY <1>5, <2>1 DEF Inv, TypeOK, Handler
    <2>3. Listening(n) => /\ call' = [call EXCEPT !.value = TRUE] /\ call.id = n
                          /\ Waiting /\ served' = TRUE
      BY <1>5 DEF SendResult, Listening, Waiting
    <2>4. ~Listening(n) => UNCHANGED <<call, served>>
      BY <1>5 DEF SendResult, Inv, TypeOK
    <2>5. /\ call' \in Call
          /\ call'.kind = call.kind /\ call'.id = call.id /\ call'.order = call.order
          /\ Listening(n) => call'.value = TRUE
      <3>1. CASE Listening(n)
        <4>1. call \in Call /\ call' = [call EXCEPT !.value = TRUE]
          BY <2>3, <3>1 DEF Inv, TypeOK
        <4> QED BY <4>1, CallFacts DEF Call
      <3>2. CASE ~Listening(n)
        BY <2>4, <3>2 DEF Inv, TypeOK
      <3> QED BY <3>1, <3>2
    <2>6. Listening(n) => call.kind = "match"
      BY <1>1, <2>3 DEF Inv, CallServed
    <2>7. Waiting => call.id \in Ids
      BY DEF Inv, CallServed
    <2>8. TypeOK'
      BY <1>1, <1>2, <1>5, <2>2, <2>5 DEF Inv, TypeOK, Listening
    <2>9. IdsInOrder' /\ InOrder'
      BY <1>1, <2>5 DEF Inv, IdsInOrder, InOrder
    <2>10. CallServed' /\ TaskKept' /\ OnePasses'
      <3>1. CASE Listening(n)
        <4>1. CallServed'
          BY <1>1, <2>2, <2>3, <2>5, <2>6, <2>7, <3>1 DEF Inv, CallServed, Waiting
        <4>2. TaskKept' /\ OnePasses'
          BY <1>1, <2>5, <2>6, <3>1 DEF Inv, TaskKept, OnePasses, Waiting
        <4> QED BY <4>1, <4>2
      <3>2. CASE ~Listening(n)
        BY <1>1, <2>2, <2>4, <2>7, <3>2 DEF Inv, CallServed, TaskKept, OnePasses, Waiting
      <3> QED BY <3>1, <3>2
    <2> QED BY <2>8, <2>9, <2>10 DEF Inv
  <1> QED BY <1>4, <1>5 DEF MatchHandlePacket

LEMMA TaskHandlePacketInv ==
    ASSUME Inv, phase = "dispatch", NEW n \in Ids, IsNext(n), TaskHandlePacket(n)
    PROVE  Inv'
  <1>1. /\ handler[n].kind = "task" /\ at' = n /\ UNCHANGED <<disconnected, phase>>
        /\ UNCHANGED <<registered, index, pending, packet, wire, call, woken,
                       passed, outcome, finished>>
    BY DEF TaskHandlePacket, Continue
  <1>2. n \in 0..MaxHandlers
    BY NextFacts DEF Inv
  <1>3. CASE UNCHANGED <<handler, served>>
    <2>1. TypeOK' /\ IdsInOrder' /\ InOrder'
      BY <1>1, <1>2, <1>3 DEF Inv, TypeOK, IdsInOrder, InOrder
    <2>2. CallServed' /\ TaskKept' /\ OnePasses'
      BY <1>1, <1>3 DEF Inv, CallServed, TaskKept, OnePasses, Waiting
    <2> QED BY <2>1, <2>2 DEF Inv
  <1>4. CASE /\ handler' = [handler EXCEPT ![n].sender = FALSE, ![n].ready = TRUE]
             /\ served' = (served \/ Listening(n))
    <2> DEFINE h == [handler EXCEPT ![n].sender = FALSE]
    <2>1. [handler[n] EXCEPT !.sender = FALSE] \in Handler
      BY DEF Inv, TypeOK, Handler
    <2>2. h \in [Ids -> Handler] /\ \A m \in Ids : h[m].kind = handler[m].kind /\ h[m].ready = handler[m].ready
      BY <2>1 DEF Inv, TypeOK, Handler
    <2>3. handler' = [h EXCEPT ![n].ready = TRUE]
      BY <1>4
    <2> HIDE DEF h
    <2>4. [h[n] EXCEPT !.ready = TRUE] \in Handler
      BY <2>2 DEF Handler
    <2>5. /\ handler' \in [Ids -> Handler]
          /\ \A m \in Ids : handler'[m].kind = handler[m].kind
          /\ \A m \in Ids : m # n => handler'[m].ready = handler[m].ready
          /\ handler'[n].ready = TRUE
      BY <2>2, <2>3, <2>4 DEF Handler
    <2>6. Listening(n) \in BOOLEAN /\ (Listening(n) => Waiting /\ call.id = n)
      BY DEF Listening, Waiting
    <2>7. served' \in BOOLEAN /\ (Listening(n) => served') /\ (~Listening(n) => served' = served)
      BY <1>4, <2>6 DEF Inv, TypeOK
    <2>8. (Listening(n) => call.kind = "task") /\ (Waiting /\ call.id = n => Listening(n))
      BY <1>1, <2>6 DEF Inv, CallServed, Listening, Waiting
    <2>9. TypeOK' /\ IdsInOrder' /\ InOrder'
      BY <1>1, <1>2, <2>5, <2>7 DEF Inv, TypeOK, IdsInOrder, InOrder
    <2>10. CallServed'
      <3>1. CASE Listening(n)
        BY <1>1, <2>5, <2>6, <2>7, <2>8, <3>1 DEF Inv, CallServed, Waiting
      <3>2. CASE ~Listening(n)
        BY <1>1, <2>5, <2>7, <2>8, <3>2 DEF Inv, CallServed, Waiting
      <3> QED BY <3>1, <3>2
    <2>11. TaskKept' /\ OnePasses'
      BY <1>1 DEF Inv, TaskKept, OnePasses, Waiting
    <2> QED BY <2>9, <2>10, <2>11 DEF Inv
  <1> QED BY <1>3, <1>4 DEF TaskHandlePacket

(* What a handler of the application does with a packet.                   *)
LEMMA AppHandlePacketInv ==
    ASSUME Inv, phase = "dispatch", NEW n \in Ids, IsNext(n), AppHandlePacket(n)
    PROVE  Inv'
  <1>1. handler[n].kind = "app" /\ UNCHANGED <<packet, wire, call, history>>
    BY DEF AppHandlePacket
  <1>2. n \in registered /\ n \in 0..MaxHandlers
    BY NextFacts DEF Inv
  <1>3. call.kind = "task" => call.id \in Ids /\ call.id # n
    BY <1>1 DEF Inv, CallServed, Waiting
  <1>4. CASE Continue(n) /\ UNCHANGED <<registryVars, woken>>
    <2>1. TypeOK' /\ IdsInOrder' /\ InOrder'
      BY <1>1, <1>2, <1>4 DEF Inv, TypeOK, IdsInOrder, InOrder, Continue, registryVars, history
    <2>2. CallServed' /\ TaskKept' /\ OnePasses'
      BY <1>1, <1>4 DEF Inv, CallServed, TaskKept, OnePasses, Waiting, Continue, registryVars, history
    <2> QED BY <2>1, <2>2 DEF Inv
  <1>5. CASE RegisterHandler("app") /\ Continue(n) /\ UNCHANGED woken
    <2> DEFINE u == [op |-> "Register", id |-> HandlerId]
    <2>1. /\ HandlerId \in Ids /\ HandlerId = index + 1
          /\ index \in Nat /\ index' = index + 1 /\ index' \in 0..MaxHandlers
          /\ handler' \in [Ids -> Handler]
          /\ \A m \in Ids : m # HandlerId => handler'[m] = handler[m]
          /\ pending' = Append(pending, u) /\ registered' = registered
          /\ u \in Update
      BY <1>5, RegisterFacts DEF Inv, Borrowed
    <2>2. u.op = "Register" /\ u.id = HandlerId
      OBVIOUS
    <2> HIDE DEF u
    <2>3. /\ pending' \in Seq(Update)
          /\ \A i \in DOMAIN pending : i \in DOMAIN pending' /\ pending'[i] = pending[i]
          /\ Len(pending) + 1 \in DOMAIN pending' /\ pending'[Len(pending) + 1] = u
          /\ \A i \in DOMAIN pending' : i \in DOMAIN pending \/ pending'[i] = u
      BY <2>1, DeferFacts DEF Inv, TypeOK
    <2>4. at' = n /\ UNCHANGED <<disconnected, phase, woken>>
      BY <1>5 DEF Continue
    <2>5. /\ \A m \in registered \union finished : m # HandlerId
          /\ call.id # HandlerId
      BY <2>1 DEF Inv, TypeOK, IdsInOrder, Call, Ids
    <2>6. TypeOK'
      BY <1>1, <1>2, <2>1, <2>3, <2>4 DEF Inv, TypeOK, history
    <2>7. /\ \A m \in registered' \union finished' : m <= index'
          /\ call'.id <= index'
      BY <1>1, <2>1 DEF Inv, TypeOK, IdsInOrder, history, Call, Ids
    <2>8. \A i \in DOMAIN pending' : pending'[i].id <= index'
      <3>1. \A i \in DOMAIN pending : pending[i].id \in Nat /\ pending[i].id <= index
        BY PendingIds DEF Inv
      <3> QED BY <2>1, <2>2, <2>3, <3>1
    <2>9. InOrder'
      BY <1>1, <2>1, <2>2, <2>3, <2>4, <2>5 DEF Inv, InOrder, history
    <2>10. CallServed' /\ OnePasses'
      BY <1>1, <2>1, <2>4, <2>5 DEF Inv, CallServed, OnePasses, Waiting, history
    <2>11. TaskKept'
      BY <1>1, <2>1, <2>2, <2>3, <2>4, <2>5 DEF Inv, TaskKept, history
    <2> QED BY <2>6, <2>7, <2>8, <2>9, <2>10, <2>11 DEF Inv, IdsInOrder
  <1>6. CASE RemoveHandler(n) /\ Continue(n) /\ UNCHANGED <<handler, index, woken>>
    <2> DEFINE u == [op |-> "Unregister", id |-> n]
    <2>1. u \in Update /\ u.op = "Unregister" /\ u.id = n
      BY DEF Update
    <2>2. pending' = Append(pending, u) /\ registered' = registered
      BY <1>6 DEF RemoveHandler, Borrowed
    <2> HIDE DEF u
    <2>3. /\ pending' \in Seq(Update)
          /\ \A i \in DOMAIN pending : i \in DOMAIN pending' /\ pending'[i] = pending[i]
          /\ Len(pending) + 1 \in DOMAIN pending' /\ pending'[Len(pending) + 1] = u
          /\ \A i \in DOMAIN pending' : i \in DOMAIN pending \/ pending'[i] = u
      BY <2>1, <2>2, DeferFacts DEF Inv, TypeOK
    <2>4. at' = n /\ UNCHANGED <<disconnected, phase, handler, index, woken>>
      BY <1>6 DEF Continue
    <2>5. TypeOK'
      BY <1>1, <1>2, <2>2, <2>3, <2>4 DEF Inv, TypeOK, history
    <2>6. IdsInOrder' /\ InOrder'
      BY <1>1, <1>2, <2>1, <2>2, <2>3, <2>4 DEF Inv, IdsInOrder, InOrder, history
    <2>7. CallServed' /\ OnePasses'
      BY <1>1, <2>4 DEF Inv, CallServed, OnePasses, Waiting, history
    <2>8. TaskKept'
      BY <1>1, <1>3, <2>1, <2>2, <2>3, <2>4 DEF Inv, TaskKept, history
    <2> QED BY <2>5, <2>6, <2>7, <2>8 DEF Inv
  <1>7. CASE disconnected' = TRUE /\ OnePacket /\ UNCHANGED <<registryVars, at>>
    <2>1. woken' = TRUE /\ phase' = IF call.order = "session" THEN "answer" ELSE "rest"
      BY <1>7 DEF OnePacket
    <2>2. TypeOK' /\ IdsInOrder'
      BY <1>1, <1>7, <2>1 DEF Inv, TypeOK, IdsInOrder, Phases, registryVars, history
    <2>3. InOrder' /\ CallServed' /\ TaskKept' /\ OnePasses'
      BY <1>1, <1>7, <2>1
      DEF Inv, InOrder, CallServed, TaskKept, OnePasses, Waiting, registryVars, history
    <2> QED BY <2>2, <2>3 DEF Inv
  <1> QED BY <1>4, <1>5, <1>6, <1>7 DEF AppHandlePacket

LEMMA PacketDispatchedInv ==
    ASSUME Inv, PacketDispatched
    PROVE  Inv'
  <1>1. /\ phase = "dispatch" /\ woken' = TRUE /\ CommitUpdates
        /\ phase' = IF call.order = "session" THEN "answer" ELSE "rest"
        /\ UNCHANGED <<handler, index, disconnected, at, packet, wire, call, history>>
    BY DEF PacketDispatched, OnePacket
  <1>2. /\ registered' \subseteq Ids /\ pending' = <<>> /\ pending' \in Seq(Update)
        /\ \A n \in registered' :
              \/ \E i \in DOMAIN pending : pending[i].op = "Register" /\ pending[i].id = n
              \/ n \in registered /\ \A i \in DOMAIN pending : pending[i].id # n
        /\ \A n \in registered :
              (\A i \in DOMAIN pending : pending[i].id # n) => n \in registered'
    BY <1>1, CommitFacts DEF Inv
  <1>3. DOMAIN pending' = {}
    BY <1>2
  <1>4. TypeOK' /\ IdsInOrder'
    BY <1>1, <1>2, <1>3 DEF Inv, TypeOK, IdsInOrder, Phases, history
  <1>5. InOrder'
    BY <1>1, <1>2, <1>3 DEF Inv, InOrder, history
  <1>6. CallServed'
    BY <1>1 DEF Inv, CallServed, Waiting, history
  <1>7. TaskKept'
    BY <1>1, <1>2, <1>3 DEF Inv, TaskKept, history
  <1>8. OnePasses'
    BY <1>1 DEF Inv, OnePasses, Waiting, history
  <1> QED BY <1>4, <1>5, <1>6, <1>7, <1>8 DEF Inv

-----------------------------------------------------------------------------
(* The steps of the owner and of the peer.                                 *)

(* A call that starts with a handler of its own.                           *)
LEMMA CallWithHandlerInv ==
    ASSUME Inv, NEW k \in {"match", "task"}, Idle, RegisterHandler(k),
           Opened(NewCall(k, HandlerId))
    PROVE  Inv'
  <1>1. phase = "rest" /\ call.kind = "none" /\ ~Borrowed
    BY DEF Idle, Borrowed
  <1>2. /\ HandlerId \in Ids /\ HandlerId = index + 1
        /\ index \in Nat /\ index' = index + 1 /\ index' \in 0..MaxHandlers
        /\ handler' \in [Ids -> Handler]
        /\ handler'[HandlerId] = NewHandler(k)
        /\ registered' = registered \union {HandlerId} /\ pending' = pending
    BY <1>1, RegisterFacts DEF Inv
  <1>3. handler'[HandlerId].kind = k /\ handler'[HandlerId].ready = FALSE
    BY <1>2, HandlerFacts
  <1>4. HandlerId \in 0..MaxHandlers /\ HandlerId \in Nat
    BY <1>2, SessionAssumption DEF Ids
  <1>5. /\ call' \in Call /\ call'.kind = k /\ call'.id = HandlerId /\ call'.value = FALSE
        /\ call'.order = "session"
    BY <1>4, CallFacts DEF Opened
  <1>6. /\ woken' = TRUE /\ served' = FALSE /\ passed' = 0 /\ outcome' = "none"
        /\ UNCHANGED <<pollVars, wire, finished>>
    BY DEF Opened
  <1>7. /\ HandlerId \notin finished
        /\ \A i \in DOMAIN pending : pending[i].id # HandlerId /\ pending[i].id <= index'
        /\ \A n \in registered' \union finished : n <= index'
    <2>1. \A i \in DOMAIN pending : pending[i].id \in Nat /\ pending[i].id <= index
      BY PendingIds DEF Inv
    <2>2. \A n \in registered \union finished : n \in Nat /\ n <= index
      BY DEF Inv, IdsInOrder, TypeOK, Ids
    <2> QED BY <1>2, <2>1, <2>2
  <1>8. TypeOK'
    BY <1>1, <1>2, <1>5, <1>6 DEF Inv, TypeOK, pollVars
  <1>9. IdsInOrder'
    BY <1>2, <1>4, <1>5, <1>6, <1>7 DEF IdsInOrder
  <1>10. InOrder'
    BY <1>1, <1>2, <1>6, <1>7 DEF Inv, InOrder, pollVars
  <1>11. CallServed'
    BY <1>1, <1>2, <1>3, <1>5, <1>6 DEF CallServed, Waiting
  <1>12. TaskKept' /\ OnePasses'
    BY <1>2, <1>5, <1>6, <1>7 DEF TaskKept, OnePasses, Waiting
  <1> QED BY <1>8, <1>9, <1>10, <1>11, <1>12 DEF Inv

LEMMA RunSessionInv ==
    ASSUME Inv, RunSession
    PROVE  Inv'
  <1>1. 0 \in 0..MaxHandlers /\ call' = NewCall("run", 0)
    BY SessionAssumption DEF RunSession, Opened
  <1>2. /\ call' \in Call /\ call'.kind = "run" /\ call'.id = 0 /\ call'.value = FALSE
        /\ call'.order = "session"
    BY <1>1, CallFacts
  <1>3. /\ woken' = TRUE /\ served' = FALSE /\ passed' = 0 /\ outcome' = "none"
        /\ UNCHANGED <<registryVars, pollVars, wire, finished>>
    BY DEF RunSession, Opened
  <1>4. TypeOK'
    BY <1>2, <1>3 DEF Inv, TypeOK, registryVars, pollVars
  <1>5. IdsInOrder' /\ InOrder'
    BY <1>2, <1>3 DEF Inv, TypeOK, IdsInOrder, InOrder, registryVars, pollVars
  <1>6. CallServed' /\ TaskKept' /\ OnePasses'
    BY <1>2, <1>3 DEF CallServed, TaskKept, OnePasses, Waiting
  <1> QED BY <1>4, <1>5, <1>6 DEF Inv

LEMMA RegisterPacketHandlerInv ==
    ASSUME Inv, RegisterPacketHandler
    PROVE  Inv'
  <1>1. phase = "rest" /\ call.kind = "none" /\ ~Borrowed /\ RegisterHandler("app")
        /\ UNCHANGED <<pollVars, wire, call, woken, history>>
    BY DEF RegisterPacketHandler, Idle, Borrowed
  <1>2. /\ HandlerId \in Ids /\ HandlerId = index + 1
        /\ index \in Nat /\ index' = index + 1 /\ index' \in 0..MaxHandlers
        /\ handler' \in [Ids -> Handler]
        /\ registered' = registered \union {HandlerId} /\ pending' = pending
    BY <1>1, RegisterFacts DEF Inv
  <1>3. /\ HandlerId \notin finished
        /\ \A i \in DOMAIN pending : pending[i].id # HandlerId /\ pending[i].id <= index'
        /\ \A n \in registered' \union finished : n <= index'
        /\ call.id <= index'
    <2>1. \A i \in DOMAIN pending : pending[i].id \in Nat /\ pending[i].id <= index
      BY PendingIds DEF Inv
    <2>2. \A n \in registered \union finished : n \in Nat /\ n <= index
      BY DEF Inv, IdsInOrder, TypeOK, Ids
    <2>3. call.id \in Nat /\ call.id <= index
      BY DEF Inv, IdsInOrder, TypeOK, Call
    <2> QED BY <1>2, <2>1, <2>2, <2>3
  <1>4. TypeOK' /\ IdsInOrder'
    BY <1>1, <1>2, <1>3 DEF Inv, TypeOK, IdsInOrder, pollVars, history
  <1>5. InOrder'
    BY <1>1, <1>2, <1>3 DEF Inv, InOrder, pollVars, history
  <1>6. CallServed' /\ TaskKept' /\ OnePasses'
    BY <1>1 DEF Inv, CallServed, TaskKept, OnePasses, Waiting, pollVars, history
  <1> QED BY <1>4, <1>5, <1>6 DEF Inv

(* The connection changes under a poll, nothing else does.                 *)
LEMMA WireInv ==
    ASSUME Inv, wire' \in Wire, woken' \in BOOLEAN,
           UNCHANGED <<registryVars, pollVars, call, history>>
    PROVE  Inv'
  <1>1. TypeOK' /\ IdsInOrder' /\ InOrder'
    BY DEF Inv, TypeOK, IdsInOrder, InOrder, registryVars, pollVars, history
  <1>2. CallServed' /\ TaskKept' /\ OnePasses'
    BY DEF Inv, CallServed, TaskKept, OnePasses, Waiting, registryVars, pollVars, history
  <1> QED BY <1>1, <1>2 DEF Inv

LEMMA ArriveInv ==
    ASSUME Inv, NEW p \in Packets, Arrive(p)
    PROVE  Inv'
  <1> DEFINE box == Append(wire.inbox, p)
             rest == wire.left - 1
  <1>1. box \in Seq(Packets) /\ rest \in 0..MaxPackets
    BY SessionAssumption DEF Arrive, Inv, TypeOK, Wire
  <1>2. wire' = [inbox |-> box, left |-> rest, waker |-> FALSE, end |-> wire.end]
    BY DEF Arrive, Inv, TypeOK, Wire
  <1> HIDE DEF box, rest
  <1>3. wire' \in Wire
    BY <1>1, <1>2 DEF Inv, TypeOK, Wire
  <1>4. woken' \in BOOLEAN
    BY DEF Arrive, Inv, TypeOK, Wire
  <1> QED BY <1>3, <1>4, WireInv DEF Arrive

LEMMA PeerEndsInv ==
    ASSUME Inv, NEW end \in {"failed", "closed"}, PeerEnds(end)
    PROVE  Inv'
  <1>1. wire' = [inbox |-> wire.inbox, left |-> wire.left, waker |-> FALSE, end |-> end]
    BY DEF PeerEnds, Inv, TypeOK, Wire
  <1>2. wire' \in Wire
    BY <1>1 DEF Inv, TypeOK, Wire
  <1>3. woken' \in BOOLEAN
    BY DEF PeerEnds, Inv, TypeOK, Wire
  <1> QED BY <1>2, <1>3, WireInv DEF PeerEnds

-----------------------------------------------------------------------------
(* The theorems.                                                           *)

LEMMA InitInv ==
    Init => Inv
  <1> SUFFICES ASSUME Init PROVE Inv
    OBVIOUS
  <1>1. \A n \in Ids : NewHandler("app") \in Handler
    BY HandlerFacts
  <1>2. wire \in Wire
    BY SessionAssumption DEF Init, Wire
  <1>3. /\ call \in Call /\ call.kind = "none" /\ call.id = 0 /\ call.value = FALSE
        /\ call.order = "session"
    BY CallFacts DEF Init, NoCall, NewCall
  <1>4. TypeOK
    <2>1. handler \in [Ids -> Handler]
      BY <1>1 DEF Init
    <2>2. pending \in Seq(Update)
      BY DEF Init
    <2>3. registered \subseteq Ids /\ finished \subseteq Ids /\ index \in 0..MaxHandlers
      BY SessionAssumption DEF Init
    <2>4. phase \in Phases /\ at \in 0..MaxHandlers /\ packet \in Packets
      BY SessionAssumption DEF Init, Phases, Packets
    <2>5. /\ disconnected \in BOOLEAN /\ woken \in BOOLEAN /\ served \in BOOLEAN /\ passed \in Nat
          /\ outcome \in {"none", "answered", "disconnected", "cancelled"}
      BY DEF Init
    <2> QED BY <1>2, <1>3, <2>1, <2>2, <2>3, <2>4, <2>5 DEF TypeOK
  <1>5. IdsInOrder /\ InOrder
    BY <1>3 DEF Init, IdsInOrder, InOrder
  <1>6. CallServed /\ TaskKept /\ OnePasses
    BY <1>3 DEF CallServed, TaskKept, OnePasses, Waiting
  <1> QED BY <1>4, <1>5, <1>6 DEF Inv

LEMMA NextInv ==
    Inv /\ [Next]_vars => Inv'
  <1> SUFFICES ASSUME Inv, [Next]_vars PROVE Inv'
    OBVIOUS
  <1>1. CASE UNCHANGED vars
    BY <1>1, WireInv DEF vars, Inv, TypeOK
  <1>2. CASE Poll
    <2>1. CASE PollHandlers
      BY <2>1, PollMatchInv, PollTaskInv, PollAppInv DEF PollHandlers
    <2>2. CASE DispatchPacket
      BY <2>2, MatchHandlePacketInv, TaskHandlePacketInv, AppHandlePacketInv DEF DispatchPacket
    <2>3. CASE ReadNone
      BY <2>3, SessionReadyInv DEF ReadNone
    <2>4. CASE PollBegins \/ OneshotFirst \/ OneshotLast
      BY <2>4, PollBeginsInv, OneshotFirstInv, OneshotLastInv
    <2>5. CASE HandlersPolled \/ PacketDispatched
      BY <2>5, HandlersPolledInv, PacketDispatchedInv
    <2>6. CASE ReadPacket \/ ReadError \/ ReadPending
      BY <2>6, ReadPacketInv, ReadErrorInv, ReadPendingInv
    <2> QED BY <1>2, <2>1, <2>2, <2>3, <2>4, <2>5, <2>6 DEF Poll
  <1>3. CASE AwaitMatch
    BY <1>3, CallWithHandlerInv DEF AwaitMatch
  <1>4. CASE ExecuteTask
    BY <1>4, CallWithHandlerInv DEF ExecuteTask
  <1>5. CASE RunSession
    BY <1>5, RunSessionInv
  <1>6. CASE RegisterPacketHandler
    BY <1>6, RegisterPacketHandlerInv
  <1>7. CASE CancelCall
    BY <1>7, ResolveInv DEF CancelCall, registryVars
  <1>8. ASSUME NEW p \in Packets, Arrive(p) PROVE Inv'
    BY <1>8, ArriveInv
  <1>9. ASSUME NEW end \in {"failed", "closed"}, PeerEnds(end) PROVE Inv'
    BY <1>9, PeerEndsInv
  <1> QED BY <1>1, <1>2, <1>3, <1>4, <1>5, <1>6, <1>7, <1>8, <1>9 DEF Next

LEMMA AlwaysInv ==
    Spec => []Inv
  BY InitInv, NextInv, PTL DEF Spec

(* The variables keep their types: handlers, deferred updates, the         *)
(* connection and the call of session.rs and handler.rs.                   *)
THEOREM TypeCorrect ==
    Spec => []TypeOK
  <1>1. Inv => TypeOK
    BY DEF Inv
  <1> QED BY <1>1, AlwaysInv, PTL

(* No handler whose poll has returned Ready is polled again, although its  *)
(* removal is deferred and a failing handler skips the deferred updates.   *)
THEOREM FinishedSafe ==
    Spec => []FinishedNotPolled
  <1>1. ASSUME Inv, phase = "handlers", NEW n \in finished, IsNext(n) PROVE FALSE
    <2>1. n \in registered /\ n > at
      BY <1>1 DEF IsNext, Remaining
    <2>2. n <= at
      BY <1>1, <2>1 DEF Inv, InOrder
    <2> QED BY <2>1, <2>2, <1>1 DEF Inv, TypeOK, Ids
  <1>2. Inv => FinishedNotPolled
    BY <1>1 DEF FinishedNotPolled
  <1> QED BY <1>2, AlwaysInv, PTL

-----------------------------------------------------------------------------
(* The refinement of Calls.                                                *)

(* Only the future that awaits a call polls the session.                   *)
PollsACall == phase # "rest" => call.kind # "none"

LEMMA PollsACallInv ==
    ASSUME Inv, PollsACall, Next
    PROVE  PollsACall'
  <1>1. call \in Call
    BY DEF Inv, TypeOK
  <1>2. CASE Poll
    <2>1. \A n \in Ids : SendResult(n) => call'.kind = call.kind
      BY <1>1 DEF SendResult, Call
    <2>2. CASE PollHandlers
      BY <2>1, <2>2 DEF PollsACall, PollHandlers, PollMatch, PollTask, PollApp
    <2>3. CASE DispatchPacket
      BY <2>1, <2>3
      DEF PollsACall, DispatchPacket, MatchHandlePacket, TaskHandlePacket, AppHandlePacket
    <2>4. CASE PollBegins
      BY <1>1, <2>4 DEF PollsACall, PollBegins, Call
    <2>5. CASE ReadNone \/ OneshotFirst \/ OneshotLast
      BY <2>5 DEF PollsACall, ReadNone, SessionReady, OneshotFirst, OneshotLast, TakeResult,
                  EnterSession, Resolve
    <2>6. CASE HandlersPolled \/ PacketDispatched \/ ReadPacket \/ ReadError \/ ReadPending
      BY <2>6 DEF PollsACall, HandlersPolled, PacketDispatched, ReadPacket, ReadError, ReadPending
    <2> QED BY <1>2, <2>2, <2>3, <2>4, <2>5, <2>6 DEF Poll
  <1>3. CASE AwaitMatch \/ ExecuteTask \/ RunSession \/ RegisterPacketHandler
    BY <1>3 DEF PollsACall, AwaitMatch, ExecuteTask, RunSession, RegisterPacketHandler, Idle,
                Opened, pollVars
  <1>4. CASE CancelCall
    BY <1>4 DEF PollsACall, CancelCall, Resolve
  <1>5. ASSUME NEW p \in Packets, Arrive(p) PROVE PollsACall'
    BY <1>5 DEF PollsACall, Arrive, pollVars
  <1>6. ASSUME NEW end \in {"failed", "closed"}, PeerEnds(end) PROVE PollsACall'
    BY <1>6 DEF PollsACall, PeerEnds, pollVars
  <1> QED BY <1>2, <1>3, <1>4, <1>5, <1>6 DEF Next

LEMMA AlwaysPollsACall ==
    Spec => []PollsACall
  <1>1. Init => PollsACall
    BY DEF Init, PollsACall
  <1>2. Inv /\ PollsACall /\ [Next]_vars => PollsACall'
    BY PollsACallInv DEF PollsACall, vars, pollVars
  <1> QED BY <1>1, <1>2, AlwaysInv, PTL DEF Spec

(* A step that the owner of the session cannot tell from none, and one     *)
(* that only ends the session.                                             *)
LEMMA Quiet ==
    ASSUME call'.kind = call.kind, disconnected' = disconnected, wire'.end = wire.end,
           UNCHANGED <<served, passed, outcome>>
    PROVE  UNCHANGED C!vars
  BY DEF C!vars, AbstractCall

LEMMA Ends ==
    ASSUME call'.kind = call.kind, disconnected' \/ wire'.end # "open",
           UNCHANGED <<served, passed, outcome>>
    PROVE  C!EndSession
  BY DEF C!EndSession, AbstractCall

LEMMA Serves ==
    ASSUME Inv, NEW n \in Ids, call'.kind = call.kind, served' = (served \/ Listening(n)),
           UNCHANGED <<disconnected, wire, passed, outcome>>
    PROVE  C!Next \/ UNCHANGED C!vars
  <1>1. CASE served \/ ~Listening(n)
    <2>1. served' = served
      BY <1>1 DEF Inv, TypeOK
    <2> QED BY <2>1, Quiet
  <1>2. CASE ~served /\ Listening(n)
    <2>1. served' = TRUE /\ AbstractCall = "waiting" /\ AbstractCall' = AbstractCall
      BY <1>2 DEF Listening, AbstractCall
    <2>2. C!Serve
      BY <1>2, <2>1 DEF C!Serve
    <2> QED BY <2>2 DEF C!Next
  <1> QED BY <1>1, <1>2

LEMMA Fails ==
    ASSUME call.kind # "none", disconnected \/ wire.end # "open", SessionReady, UNCHANGED wire,
           Inv
    PROVE  C!Fail
  <1>1. AbstractCall # "none" /\ AbstractCall' = "none"
    BY DEF AbstractCall, SessionReady, Resolve, NoCall, NewCall, Inv, TypeOK, Call
  <1>2. outcome' = "disconnected" /\ UNCHANGED <<served, passed, disconnected>>
    BY DEF SessionReady, Resolve
  <1> QED BY <1>1, <1>2 DEF C!Fail, C!Resolve

LEMMA Answers ==
    ASSUME Inv, TakeResult
    PROVE  C!Answer
  <1>1. AbstractCall = "waiting" /\ AbstractCall' = "none" /\ served
    BY DEF AbstractCall, TakeResult, Resolve, NoCall, NewCall, Inv, CallServed, Waiting
  <1>2. outcome' = "answered" /\ UNCHANGED <<served, passed, disconnected, wire>>
    BY DEF TakeResult, Resolve
  <1> QED BY <1>1, <1>2 DEF C!Answer, C!Resolve

LEMMA Opens ==
    ASSUME Idle, NEW k \in {"match", "task", "run"}, NEW n, Opened(NewCall(k, n))
    PROVE  C!Open
  <1>1. AbstractCall = "none" /\ AbstractCall' \in {"waiting", "running"}
    BY DEF AbstractCall, Opened, NewCall, Idle
  <1>2. /\ served' = FALSE /\ passed' = 0 /\ outcome' = "none"
        /\ UNCHANGED <<disconnected, wire>>
    BY DEF Opened, pollVars
  <1> QED BY <1>1, <1>2 DEF C!Open

LEMMA PollImplements ==
    ASSUME Inv, PollsACall, Poll
    PROVE  C!Next \/ UNCHANGED C!vars
  <1>1. call \in Call /\ wire \in Wire
    BY DEF Inv, TypeOK
  <1>2. \A n \in Ids : SendResult(n) => call'.kind = call.kind
    BY <1>1 DEF SendResult, Call
  <1>3. CASE PollBegins
    <2>1. call'.kind = call.kind
      BY <1>1, <1>3 DEF PollBegins, Call
    <2> QED BY <1>3, <2>1, Quiet DEF PollBegins, history
  <1>4. CASE OneshotFirst
    <2>1. CASE TakeResult
      BY <2>1, Answers DEF C!Next
    <2>2. CASE disconnected /\ SessionReady /\ UNCHANGED wire
      BY <1>4, <2>2, Fails DEF OneshotFirst, PollsACall, C!Next
    <2>3. CASE UNCHANGED <<disconnected, wire, call, history>>
      BY <2>3, Quiet DEF history
    <2> QED BY <1>4, <2>1, <2>2, <2>3 DEF OneshotFirst, EnterSession
  <1>5. CASE OneshotLast
    <2>1. CASE TakeResult
      BY <2>1, Answers DEF C!Next
    <2>2. CASE UNCHANGED <<disconnected, wire, call, history>>
      BY <2>2, Quiet DEF history
    <2> QED BY <1>5, <2>1, <2>2 DEF OneshotLast
  <1>6. ASSUME NEW n \in Ids, PollMatch(n) \/ PollTask(n) \/ PollApp(n)
        PROVE  C!Next \/ UNCHANGED C!vars
    <2>1. /\ call'.kind = call.kind /\ wire' = wire
          /\ UNCHANGED <<served, passed, outcome>>
      BY <1>2, <1>6 DEF PollMatch, PollTask, PollApp, history
    <2>2. disconnected' = disconnected \/ disconnected' = TRUE
      BY <1>6 DEF PollMatch, PollTask, PollApp, Finish, Continue
    <2> QED BY <2>1, <2>2, Quiet, Ends DEF C!Next
  <1>7. CASE HandlersPolled \/ PacketDispatched
    BY <1>7, Quiet DEF HandlersPolled, PacketDispatched, history
  <1>8. CASE ReadPacket
    <2>1. /\ wire'.end = wire.end /\ UNCHANGED <<call, disconnected, served, outcome>>
          /\ passed' = IF Waiting /\ served THEN passed + 1 ELSE passed
          /\ phase = "read"
      BY <1>1, <1>8 DEF ReadPacket, Waiting, Wire
    <2>2. CASE Waiting /\ served
      <3>1. passed = 0 /\ passed' = 1
        BY <2>1, <2>2 DEF Inv, OnePasses
      <3>2. AbstractCall = "waiting" /\ UNCHANGED AbstractCall
        BY <2>1, <2>2 DEF AbstractCall, Waiting
      <3>3. C!Pass
        BY <2>1, <2>2, <3>1, <3>2 DEF C!Pass
      <3> QED BY <3>3 DEF C!Next
    <2>3. CASE ~(Waiting /\ served)
      BY <2>1, <2>3, Quiet
    <2> QED BY <2>2, <2>3
  <1>9. CASE ReadError
    BY <1>9, Ends DEF ReadError, history, C!Next
  <1>10. CASE ReadNone
    BY <1>10, Fails DEF ReadNone, PollsACall, C!Next
  <1>11. CASE ReadPending
    <2>1. wire'.end = wire.end
      BY <1>1, <1>11 DEF ReadPending, Wire
    <2> QED BY <1>11, <2>1, Quiet DEF ReadPending, history
  <1>12. ASSUME NEW n \in Ids, MatchHandlePacket(n) \/ TaskHandlePacket(n)
         PROVE  C!Next \/ UNCHANGED C!vars
    <2>1. /\ call'.kind = call.kind
          /\ UNCHANGED <<disconnected, wire, passed, outcome>>
          /\ served' = served \/ served' = (served \/ Listening(n))
      BY <1>2, <1>12 DEF MatchHandlePacket, TaskHandlePacket, Continue
    <2> QED BY <2>1, Quiet, Serves
  <1>13. ASSUME NEW n \in Ids, AppHandlePacket(n)
         PROVE  C!Next \/ UNCHANGED C!vars
    <2>1. UNCHANGED <<call, wire, history>> /\ (disconnected' = disconnected \/ disconnected' = TRUE)
      BY <1>13 DEF AppHandlePacket, Continue
    <2> QED BY <2>1, Quiet, Ends DEF history, C!Next
  <1> QED BY <1>3, <1>4, <1>5, <1>6, <1>7, <1>8, <1>9, <1>10, <1>11, <1>12, <1>13
          DEF Poll, PollHandlers, DispatchPacket

LEMMA StepImplements ==
    ASSUME Inv, PollsACall, [Next]_vars
    PROVE  C!Next \/ UNCHANGED C!vars
  <1>1. wire \in Wire
    BY DEF Inv, TypeOK
  <1>2. CASE UNCHANGED vars
    BY <1>2, Quiet DEF vars, pollVars, history
  <1>3. CASE Poll
    BY <1>3, PollImplements
  <1>4. CASE AwaitMatch \/ ExecuteTask \/ RunSession
    BY <1>4, Opens DEF AwaitMatch, ExecuteTask, RunSession, C!Next
  <1>5. CASE RegisterPacketHandler
    BY <1>5, Quiet DEF RegisterPacketHandler, pollVars, history
  <1>6. CASE CancelCall
    <2>1. AbstractCall # "none" /\ AbstractCall' = "none"
      BY <1>6 DEF AbstractCall, CancelCall, Resolve, NoCall, NewCall, Inv, TypeOK, Call
    <2>2. outcome' = "cancelled" /\ UNCHANGED <<served, passed, disconnected, wire>>
      BY <1>6 DEF CancelCall, Resolve
    <2> QED BY <2>1, <2>2 DEF C!Cancel, C!Resolve, C!Next
  <1>7. ASSUME NEW p \in Packets, Arrive(p) PROVE C!Next \/ UNCHANGED C!vars
    <2>1. wire'.end = wire.end
      BY <1>1, <1>7 DEF Arrive, Wire
    <2> QED BY <1>7, <2>1, Quiet DEF Arrive, pollVars, history
  <1>8. ASSUME NEW end \in {"failed", "closed"}, PeerEnds(end) PROVE C!Next \/ UNCHANGED C!vars
    <2>1. wire'.end # "open"
      BY <1>1, <1>8 DEF PeerEnds, Wire
    <2> QED BY <1>8, <2>1, Ends DEF PeerEnds, history, C!Next
  <1> QED BY <1>2, <1>3, <1>4, <1>5, <1>6, <1>7, <1>8 DEF Next

(* A session keeps the promises of Calls: no answer but to the packet      *)
(* awaited, no failure but of a session that is over, and at most one      *)
(* packet handled between the two.                                         *)
THEOREM Implementation ==
    Spec => ImplementsCalls
  <1>1. Init => C!Init
    BY DEF Init, C!Init, AbstractCall, NoCall, NewCall
  <1>2. Inv /\ PollsACall /\ [Next]_vars => [C!Next]_(C!vars)
    BY StepImplements
  <1> QED BY <1>1, <1>2, AlwaysInv, AlwaysPollsACall, PTL DEF Spec, ImplementsCalls, C!Spec

-----------------------------------------------------------------------------
(* A new call has no outcome yet.                                          *)
CallsInv ==
    /\ C!OutcomesTrue
    /\ AbstractCall # "none" => outcome = "none"

LEMMA CallsStep ==
    ASSUME CallsInv, C!Next
    PROVE  CallsInv'
  <1>1. CASE C!Open
    BY <1>1 DEF C!Open, CallsInv, C!OutcomesTrue
  <1>2. CASE C!Serve
    BY <1>2 DEF C!Serve, CallsInv, C!OutcomesTrue
  <1>3. CASE C!Pass
    BY <1>3 DEF C!Pass, CallsInv, C!OutcomesTrue
  <1>4. CASE C!EndSession
    BY <1>4 DEF C!EndSession, CallsInv, C!OutcomesTrue
  <1>5. CASE C!Answer
    BY <1>5 DEF C!Answer, C!Resolve, CallsInv, C!OutcomesTrue
  <1>6. CASE C!Fail
    BY <1>6 DEF C!Fail, C!Resolve, CallsInv, C!OutcomesTrue
  <1>7. CASE C!Cancel
    BY <1>7 DEF C!Cancel, C!Resolve, CallsInv, C!OutcomesTrue
  <1> QED BY <1>1, <1>2, <1>3, <1>4, <1>5, <1>6, <1>7 DEF C!Next

(* Whatever implements Calls answers only who was served and tells of a    *)
(* disconnect only if the session is over; so does the session, whatever   *)
(* its handlers do in the meantime.                                        *)
THEOREM OutcomesSafe == Spec => []C!OutcomesTrue
  <1>1. C!Init => CallsInv
    BY DEF C!Init, CallsInv, C!OutcomesTrue
  <1>2. CallsInv /\ [C!Next]_(C!vars) => CallsInv'
    <2> SUFFICES ASSUME CallsInv, UNCHANGED C!vars PROVE CallsInv'
      BY CallsStep
    <2> QED BY DEF C!vars, CallsInv, C!OutcomesTrue
  <1>3. CallsInv => C!OutcomesTrue
    BY DEF CallsInv
  <1> QED BY <1>1, <1>2, <1>3, Implementation, PTL DEF ImplementsCalls, C!Spec

=============================================================================
