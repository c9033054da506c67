------------------------------- MODULE Client -------------------------------
(***************************************************************************)
(* One connected player of the server, at the granularity of the steps of  *)
(* its poll function (server/src/client.rs), of the task list it owns      *)
(* (server/src/tasks.rs) and of the ping component that keeps it awake     *)
(* (server/src/client_components/ping.rs).                                 *)
(*                                                                         *)
(* Each client is a Future run by a tokio task.  While a poll runs it      *)
(* holds the Mutex around the client (field poll # "idle"), so nobody else *)
(* changes the record; the socket, the timer and other threads can still   *)
(* make things ready and call wakers between any two of its steps.         *)
(*                                                                         *)
(* A method taking &mut self is an operator from the client's record to    *)
(* its new value, under the method's name.  Payloads are abstracted: the   *)
(* send buffer to "something is unsent", a received packet to what its     *)
(* handlers do with it, a task to what its callback does.                  *)
(***************************************************************************)
EXTENDS Naturals, Sequences, FiniteSets

CONSTANTS
    Clients,      \* the connections accepted in one run of the server
    PacketKinds,  \* what the peers' packets make the handlers do
    MaxPackets,   \* bound: how many packets a peer sends after its first one
    PeerEnds,     \* how each peer may end its connection
    SlowPeers     \* the peers whose socket may be full when we write

(***************************************************************************)
(*   pong     answers the last ping                                        *)
(*   request  is answered with packets at once                             *)
(*   query    starts a task whose callback only sends packets              *)
(*   login    starts a task whose callback may authenticate the client     *)
(*   reject   is answered with Err by one of the components                *)
(*   garbage  is too large, too small or cannot be decoded                 *)
(***************************************************************************)
ASSUME ClientAssumption ==
    /\ PacketKinds \subseteq {"pong", "request", "query", "login", "reject", "garbage"}
    /\ MaxPackets \in [Clients -> Nat]
    /\ PeerEnds \in [Clients -> SUBSET {"closed", "reset"}]
    /\ SlowPeers \subseteq Clients

(***************************************************************************)
(*   connect  waits for the Connect resources, then registers the login    *)
(*            components                                                   *)
(*   login    a credential, token or registration query                    *)
(*   lobby    waits for the Lobby resources, then registers the lobby      *)
(*   query    any task whose callback only sends packets                   *)
(***************************************************************************)
TaskKinds == {"connect", "login", "lobby", "query"}

VARIABLES
    client,  \* client[c]: the Client record behind its mutex
    socket,  \* socket[c]: the peer and the bytes on their way to us
    life,    \* life[c]: where the tokio task that owns the client stands
    events   \* the unbounded FIFO channel of ServerEvents

clientVars == <<client, socket, life, events>>

(* How many tasks of a kind were never polled (fresh), are suspended with  *)
(* our waker registered (waiting), have a result to be collected (done),   *)
(* or got one after the poll under way had polled them (late).             *)
Stages == {"fresh", "waiting", "done", "late"}
TaskCount == [Stages -> Nat]

ClientRecord ==
    [ state:      {"Open", "Closing", "Closed"},      \* connection_state
      auth:       BOOLEAN,                            \* Authenticated
      loginForm:  BOOLEAN,                            \* UserAuthentication registered
      lobby:      BOOLEAN,                            \* ServerChatComponent registered
      tasks:      [TaskKinds -> TaskCount],           \* Tasks.tasks and new_tasks
      waker:      BOOLEAN,                            \* Client.waker is Some
      taskWaker:  BOOLEAN,                            \* Tasks.waker is Some
      sendWaker:  BOOLEAN,                            \* Connection.send_waker is Some
      unsent:     BOOLEAN,                            \* send_buffer is not empty
      dead:       BOOLEAN,                            \* Connection.disconnected
      readWait:   BOOLEAN,                            \* waker registered for reading
      writeWait:  BOOLEAN,                            \* waker registered for writing
      pingDue:    BOOLEAN,                            \* the interval has a tick to deliver
      pinged:     BOOLEAN,                            \* send_timestamp is Some
      woken:      BOOLEAN,                            \* the tokio task is scheduled
      poll:       {"idle", "tasks", "components", "io"} ]

SocketRecord ==
    [ inbox: Nat,                        \* whole packets not yet received
      left:  Nat,                        \* packets the peer may still send
      peer:  {"up", "closed", "reset"} ]

ServerEvent == [type: {"ClientAuthenticated", "ClientDisconnected"}, id: Clients]

Lives == {"free", "setup", "built", "running", "finished", "late", "gone"}

ClientTypeOK ==
    /\ client \in [Clients -> ClientRecord]
    /\ socket \in [Clients -> SocketRecord]
    /\ life   \in [Clients -> Lives]
    /\ events \in Seq(ServerEvent)

NoTasks == [k \in TaskKinds |-> [stage \in Stages |-> 0]]

(* Client::new once the handshake is over: the ping component is there and *)
(* the first tick of its interval is immediate; the key may be unsent.     *)
NewClient ==
    [ state |-> "Open", auth |-> FALSE, loginForm |-> FALSE, lobby |-> FALSE,
      tasks |-> NoTasks, waker |-> FALSE, taskWaker |-> FALSE,
      sendWaker |-> FALSE, unsent |-> TRUE, dead |-> FALSE,
      readWait |-> FALSE, writeWait |-> FALSE, pingDue |-> TRUE,
      pinged |-> FALSE, woken |-> FALSE, poll |-> "idle" ]

ClientInit ==
    /\ client = [c \in Clients |-> NewClient]
    /\ socket = [c \in Clients |-> [inbox |-> 0, left |-> MaxPackets[c], peer |-> "up"]]
    /\ life   = [c \in Clients |-> "free"]
    /\ events = <<>>

-----------------------------------------------------------------------------
(* Methods of Client, Tasks and Connection.                                *)

(* self.waker.take() followed by wake().                                   *)
Wake(r) == [r EXCEPT !.woken = @ \/ r.waker, !.waker = FALSE]

(* Client::send_packet and Connection::send_packet.  Every packet of the   *)
(* server can be encoded, so the error path is not reachable from here.    *)
SendPacket(r) ==
    IF r.state = "Open"
    THEN [r EXCEPT !.unsent = TRUE, !.woken = @ \/ r.sendWaker, !.sendWaker = FALSE]
    ELSE r

(* Client::disconnect(true), the only form in use.                         *)
Disconnect(r) ==
    IF r.state = "Open" THEN [Wake(r) EXCEPT !.state = "Closing"] ELSE r

(* Mutant of RunAsync: enqueue does not wake the task list's waker.        *)
RunAsyncSilently(r, kind) == [r EXCEPT !.tasks[kind].fresh = @ + 1]

(* Client::run_async and Tasks::enqueue.                                   *)
RunAsync(r, kind) ==
    [r EXCEPT !.tasks[kind].fresh = @ + 1,
              !.woken = @ \/ r.taskWaker, !.taskWaker = FALSE]

(* Client::register_component, after the component's initialize.           *)
RegisterComponent(r) == Wake(r)

DoConnectionClose(r) == [r EXCEPT !.state = "Closed"]

HandleHandleError(r) == Disconnect(SendPacket(r))

HandleProtocolError(r, closed) ==
    IF closed THEN DoConnectionClose(r) ELSE Disconnect(SendPacket(r))

(* Client::handle_packet: every component sees the packet; it is ignored   *)
(* while the component it is meant for has not been registered.            *)
HandlePacket(r, kind) ==
    CASE kind = "pong"    -> [r EXCEPT !.pinged = FALSE]
      [] kind = "request" -> SendPacket(r)
      [] kind = "reject"  -> HandleHandleError(r)
      [] kind \in {"query", "login"} ->
            IF r.loginForm THEN RunAsync(r, kind) ELSE r

(* register_client: the callback of the task that awaits the Connect       *)
(* resources registers four components; LoginKickoff awaits the Auth       *)
(* resources in a task of its own.                                         *)
ShowLogin(r) ==
    [RegisterComponent(RunAsync(SendPacket(r), "query")) EXCEPT !.loginForm = TRUE]

(* handle_client_authenticated, last callback.                             *)
ShowLobby(r) == [RegisterComponent(SendPacket(r)) EXCEPT !.lobby = TRUE]

-----------------------------------------------------------------------------
(* The task of a running client: Future::poll, one step per call it makes. *)

Polling(c, phase) == life[c] = "running" /\ client[c].poll = phase

SetClient(c, r) == client' = [client EXCEPT ![c] = r]

Emit(type, c) == events' = Append(events, [type |-> type, id |-> c])

(* Tasks::poll will poll every task.                                       *)
Due(tasks) ==
    [k \in TaskKinds |-> [tasks[k] EXCEPT !.done = @ + tasks[k].late, !.late = 0]]

(* tokio polls a task that was woken; the poll stores its waker anew.      *)
BeginPoll(c) ==
    /\ Polling(c, "idle")
    /\ client[c].woken
    /\ SetClient(c, [client[c] EXCEPT !.tasks = Due(@), !.poll = "tasks", !.woken = FALSE,
                                      !.waker = TRUE, !.taskWaker = TRUE])
    /\ UNCHANGED <<socket, life, events>>

(* Tasks::poll finds the result of a task: the task leaves the list and    *)
(* its callback runs once.                                                 *)
Collected(c, kind) == [client[c] EXCEPT !.tasks[kind].done = @ - 1]

(* Mutant of CanCollect: a task's result is taken without being asked for. *)
CanCollectPending(c, kind) == Polling(c, "tasks")

CanCollect(c, kind) == Polling(c, "tasks") /\ client[c].tasks[kind].done > 0

CollectConnect(c) ==
    /\ CanCollect(c, "connect")
    /\ SetClient(c, ShowLogin(Collected(c, "connect")))
    /\ UNCHANGED <<socket, life, events>>

CollectLobby(c) ==
    /\ CanCollect(c, "lobby")
    /\ SetClient(c, ShowLobby(Collected(c, "lobby")))
    /\ UNCHANGED <<socket, life, events>>

(* An answer is sent, unless a user or a token was not found.              *)
CollectQuery(c) ==
    /\ CanCollect(c, "query")
    /\ LET r == Collected(c, "query") IN SetClient(c, r) \/ SetClient(c, SendPacket(r))
    /\ UNCHANGED <<socket, life, events>>

(* A login succeeded: handle_user_authenticated, which with remember also  *)
(* starts a task that creates a login token.                               *)
CollectLogin(c) ==
    /\ CanCollect(c, "login")
    /\ \E remember \in BOOLEAN :
         LET r == [SendPacket(Collected(c, "login")) EXCEPT !.auth = TRUE]
         IN  SetClient(c, IF remember THEN RunAsync(r, "query") ELSE r)
    /\ Emit("ClientAuthenticated", c)
    /\ UNCHANGED <<socket, life>>

CollectLoginFailure(c) ==
    /\ CanCollect(c, "login")
    /\ SetClient(c, SendPacket(Collected(c, "login")))
    /\ UNCHANGED <<socket, life, events>>

(* Tasks::poll returns: every task left was polled and is suspended.       *)
Suspended(tasks) ==
    [k \in TaskKinds |-> [tasks[k] EXCEPT !.waiting = @ + tasks[k].fresh, !.fresh = 0]]

(* Mutant of EndTasks: a finished task is dropped without its callback.    *)
EndTasksForgetting(c) ==
    /\ Polling(c, "tasks")
    /\ SetClient(c, [client[c] EXCEPT
                       !.tasks = [k \in TaskKinds |-> [Suspended(@)[k] EXCEPT !.done = 0]],
                       !.poll = "components"])
    /\ UNCHANGED <<socket, life, events>>

EndTasks(c) ==
    /\ Polling(c, "tasks")
    /\ \A k \in TaskKinds : client[c].tasks[k].done = 0
    /\ SetClient(c, [client[c] EXCEPT !.tasks = Suspended(@), !.poll = "components"])
    /\ UNCHANGED <<socket, life, events>>

(* ConnectionPing::poll: a due tick sends a ping unless one is unanswered, *)
(* and the interval keeps our waker for the next tick.                     *)
PollPing(r) ==
    LET ticked == [r EXCEPT !.pingDue = FALSE]
    IN  IF r.pingDue /\ ~r.pinged
        THEN [SendPacket(ticked) EXCEPT !.pinged = TRUE] ELSE ticked

(* The component loop of poll.  A closed client is finished here, once its *)
(* tasks and components had their last turn.                               *)
PollComponents(c) ==
    LET r == PollPing(client[c])
    IN  /\ Polling(c, "components")
        /\ client[c].state # "Closed"
        /\ \/ SetClient(c, [r EXCEPT !.poll = "io"])
           \/ r.lobby /\ SetClient(c, [SendPacket(r) EXCEPT !.poll = "io"])
        /\ UNCHANGED <<socket, life, events>>

PollClosed(c) ==
    /\ Polling(c, "components")
    /\ client[c].state = "Closed"
    /\ SetClient(c, [PollPing(client[c]) EXCEPT !.poll = "idle"])
    /\ life' = [life EXCEPT ![c] = "finished"]
    /\ UNCHANGED <<socket, events>>

-----------------------------------------------------------------------------
(* The loop over connection.poll_next_unpin, one iteration per step.       *)

(* Connection::poll_outgoing: the socket takes everything, or it takes a   *)
(* part and keeps our waker for when it is writable again.                 *)
FlushedAll(r)  == [r EXCEPT !.sendWaker = TRUE, !.unsent = FALSE]
FlushedPart(r) == [r EXCEPT !.sendWaker = TRUE, !.writeWait = TRUE]

Flushed(c) ==
    IF client[c].unsent /\ c \in SlowPeers
    THEN { FlushedAll(client[c]), FlushedPart(client[c]) }
    ELSE { FlushedAll(client[c]) }

EndOfStream(c) ==
    socket[c].peer = "reset" \/ (socket[c].peer = "closed" /\ socket[c].inbox = 0)

IoStep(c) == Polling(c, "io") /\ ~client[c].dead

ReceivePacket(c) ==
    /\ IoStep(c)
    /\ socket[c].peer # "reset"
    /\ socket[c].inbox > 0
    /\ \E r \in Flushed(c), kind \in PacketKinds \ {"garbage"} :
         SetClient(c, HandlePacket(r, kind))
    /\ socket' = [socket EXCEPT ![c].inbox = @ - 1]
    /\ UNCHANGED <<life, events>>

(* poll_next latches disconnected before it hands out the error.           *)
ReceiveGarbage(c) ==
    /\ "garbage" \in PacketKinds
    /\ IoStep(c)
    /\ socket[c].peer # "reset"
    /\ socket[c].inbox > 0
    /\ \E r \in Flushed(c) :
         SetClient(c, HandleProtocolError([r EXCEPT !.dead = TRUE], FALSE))
    /\ socket' = [socket EXCEPT ![c].inbox = @ - 1]
    /\ UNCHANGED <<life, events>>

(* End of file, a read error or a write error.                             *)
ReceiveError(c) ==
    /\ IoStep(c)
    /\ EndOfStream(c)
    /\ \E r \in Flushed(c) :
         SetClient(c, HandleProtocolError([r EXCEPT !.dead = TRUE], TRUE))
    /\ UNCHANGED <<socket, life, events>>

(* The stream of a disconnected connection has ended.                      *)
ReceiveNone(c) ==
    /\ Polling(c, "io")
    /\ client[c].dead
    /\ SetClient(c, [DoConnectionClose(client[c]) EXCEPT !.poll = "idle"])
    /\ life' = [life EXCEPT ![c] = "finished"]
    /\ UNCHANGED <<socket, events>>

(* Mutant of AfterLoop: is_send_buffer_clear is not asked.                 *)
AfterLoopAtOnce(r) == IF r.state = "Closing" THEN DoConnectionClose(r) ELSE r

(* Nothing to read: a closing client whose buffer is clear becomes closed, *)
(* and poll returns Pending without waking itself.                         *)
AfterLoop(r) ==
    IF r.state = "Closing" /\ ~r.unsent THEN DoConnectionClose(r) ELSE r

ReceivePending(c) ==
    /\ IoStep(c)
    /\ socket[c].inbox = 0
    /\ socket[c].peer = "up"
    /\ \E r \in Flushed(c) :
         SetClient(c, AfterLoop([r EXCEPT !.readWait = TRUE, !.poll = "idle"]))
    /\ UNCHANGED <<socket, life, events>>

(* Mutant of ReportDisconnected: the task ends without a word.             *)
ReportNothing(c) ==
    /\ life[c] = "finished"
    /\ life' = [life EXCEPT ![c] = "gone"]
    /\ UNCHANGED <<client, socket, events>>

(* The poll_fn in register_client is ready: its task reports and ends.     *)
ReportDisconnected(c) ==
    /\ life[c] = "finished"
    /\ life' = [life EXCEPT ![c] = "gone"]
    /\ Emit("ClientDisconnected", c)
    /\ UNCHANGED <<client, socket>>

-----------------------------------------------------------------------------
(* What happens around the client: its peer, its timer, other threads.     *)

Connected(c) == life[c] \notin {"free", "gone"}

Readable(r) == [r EXCEPT !.woken = @ \/ r.readWait, !.readWait = FALSE]
Writable(r) == [r EXCEPT !.woken = @ \/ r.writeWait, !.writeWait = FALSE]

PeerSends(c) ==
    /\ Connected(c)
    /\ socket[c].peer = "up"
    /\ socket[c].left > 0
    /\ socket' = [socket EXCEPT ![c].inbox = @ + 1, ![c].left = @ - 1]
    /\ SetClient(c, Readable(client[c]))
    /\ UNCHANGED <<life, events>>

PeerCloses(c) ==
    /\ "closed" \in PeerEnds[c]
    /\ Connected(c)
    /\ socket[c].peer = "up"
    /\ socket' = [socket EXCEPT ![c].peer = "closed"]
    /\ SetClient(c, Readable(client[c]))
    /\ UNCHANGED <<life, events>>

PeerResets(c) ==
    /\ "reset" \in PeerEnds[c]
    /\ Connected(c)
    /\ socket[c].peer # "reset"
    /\ socket' = [socket EXCEPT ![c].peer = "reset"]
    /\ SetClient(c, Readable(Writable(client[c])))
    /\ UNCHANGED <<life, events>>

(* The peer reads, so there is room in the socket again.                   *)
PeerReads(c) ==
    /\ Connected(c)
    /\ client[c].writeWait
    /\ SetClient(c, Writable(client[c]))
    /\ UNCHANGED <<socket, life, events>>

(* Mutant of PingTick: the interval rests while a ping is unanswered.      *)
PingTickOnce(c) ==
    /\ life[c] = "running"
    /\ ~client[c].pingDue
    /\ ~client[c].pinged
    /\ SetClient(c, [client[c] EXCEPT !.pingDue = TRUE, !.woken = TRUE])
    /\ UNCHANGED <<socket, life, events>>

(* The 2.5 s interval ticks; its waker was registered by the last poll.    *)
PingTick(c) ==
    /\ life[c] = "running"
    /\ ~client[c].pingDue
    /\ SetClient(c, [client[c] EXCEPT !.pingDue = TRUE, !.woken = TRUE])
    /\ UNCHANGED <<socket, life, events>>

(* The database answers, or the resources a task waits for are loaded.  A  *)
(* task that wakes us while the tasks are polled may have had its turn.    *)
Move(tasks, kind, from, to) == [tasks EXCEPT ![kind][from] = @ - 1, ![kind][to] = @ + 1]

TaskReady(c, kind) ==
    LET Ready(from, to, woken) ==
          /\ client[c].tasks[kind][from] > 0
          /\ SetClient(c, [client[c] EXCEPT !.tasks = Move(@, kind, from, to), !.woken = woken])
    IN  /\ life[c] = "running"
        /\ \/ Ready("fresh", "done", client[c].woken)
           \/ Ready("waiting", "done", TRUE)
           \/ client[c].poll = "tasks" /\ Ready("waiting", "late", TRUE)
        /\ UNCHANGED <<socket, life, events>>

PollStep(c) ==
    \/ BeginPoll(c)
    \/ CollectConnect(c) \/ CollectLobby(c) \/ CollectQuery(c)
    \/ CollectLogin(c) \/ CollectLoginFailure(c)
    \/ EndTasks(c)
    \/ PollComponents(c) \/ PollClosed(c)
    \/ ReceivePacket(c) \/ ReceiveGarbage(c) \/ ReceiveError(c)
    \/ ReceiveNone(c) \/ ReceivePending(c)
    \/ ReportDisconnected(c)

Around(c) ==
    \/ PeerSends(c) \/ PeerCloses(c) \/ PeerResets(c) \/ PeerReads(c)
    \/ PingTick(c)
    \/ \E kind \in TaskKinds : TaskReady(c, kind)

=============================================================================
