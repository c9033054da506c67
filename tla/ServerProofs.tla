---------------------------- MODULE ServerProofs ----------------------------
(***************************************************************************)
(* What holds of module Server for any set of clients and any peers.       *)
(***************************************************************************)
EXTENDS Server, TLAPS

(* The methods of Client, Tasks and Connection keep the record well formed,*)
(* never reopen a connection, and never change who is authenticated.       *)
Tame(r, q) ==
    /\ q \in ClientRecord
    /\ q.auth = r.auth
    /\ q.state = "Open" => r.state = "Open"

(* Waking a client is tame.                                                *)
LEMMA WakeTame == \A r \in ClientRecord : Tame(r, Wake(r))
  <1> SUFFICES ASSUME NEW r \in ClientRecord PROVE Tame(r, Wake(r))
    OBVIOUS
  <1> DEFINE w == r.woken \/ r.waker
  <1>1. w \in BOOLEAN
    OBVIOUS
  <1>2. Wake(r) = [r EXCEPT !.woken = w, !.waker = FALSE]
    BY DEF Wake
  <1> HIDE DEF w
  <1> QED BY <1>1, <1>2 DEF Tame, ClientRecord

(* Client::send_packet.                                                    *)
LEMMA SendPacketTame == \A r \in ClientRecord : Tame(r, SendPacket(r))
  <1> SUFFICES ASSUME NEW r \in ClientRecord PROVE Tame(r, SendPacket(r))
    OBVIOUS
  <1> DEFINE w == r.woken \/ r.sendWaker
  <1>1. w \in BOOLEAN
    OBVIOUS
  <1> DEFINE q == [r EXCEPT !.unsent = TRUE, !.woken = w, !.sendWaker = FALSE]
  <1>2. SendPacket(r) = IF r.state = "Open" THEN q ELSE r
    BY DEF SendPacket
  <1> HIDE DEF w
  <1>3. q \in ClientRecord
    BY <1>1 DEF ClientRecord
  <1>4. q.auth = r.auth /\ q.state = r.state
    BY DEF ClientRecord
  <1> HIDE DEF q
  <1> QED BY <1>2, <1>3, <1>4 DEF Tame

(* Queueing a packet never opens or closes a client.                       *)
LEMMA SendPacketState == \A r \in ClientRecord : SendPacket(r).state = r.state
  <1> SUFFICES ASSUME NEW r \in ClientRecord PROVE SendPacket(r).state = r.state
    OBVIOUS
  <1> DEFINE w == r.woken \/ r.sendWaker
             o == [r EXCEPT !.unsent = TRUE, !.woken = w, !.sendWaker = FALSE]
  <1>1. SendPacket(r) = IF r.state = "Open" THEN o ELSE r
    BY DEF SendPacket
  <1> HIDE DEF w
  <1>2. o.state = r.state
    BY DEF ClientRecord
  <1> HIDE DEF o
  <1> QED BY <1>1, <1>2

(* Client::disconnect: an open client may start to close.                  *)
LEMMA DisconnectTame == \A r \in ClientRecord : Tame(r, Disconnect(r))
  BY WakeTame DEF Tame, Disconnect, ClientRecord

(* Client::do_connection_close.                                            *)
LEMMA CloseTame == \A r \in ClientRecord : Tame(r, DoConnectionClose(r))
  BY DEF Tame, DoConnectionClose, ClientRecord

(* Client::run_async.                                                      *)
LEMMA RunAsyncTame ==
    \A r \in ClientRecord, k \in TaskKinds : Tame(r, RunAsync(r, k))
  <1> SUFFICES ASSUME NEW r \in ClientRecord, NEW k \in TaskKinds
               PROVE  Tame(r, RunAsync(r, k))
    OBVIOUS
  <1> DEFINE t == [r.tasks EXCEPT ![k].fresh = @ + 1]
             w == r.woken \/ r.taskWaker
  <1>1. t \in [TaskKinds -> TaskCount]
    BY DEF ClientRecord, TaskCount
  <1>2. w \in BOOLEAN
    OBVIOUS
  <1>3. RunAsync(r, k) = [r EXCEPT !.tasks = t, !.woken = w, !.taskWaker = FALSE]
    BY DEF RunAsync
  <1> HIDE DEF t, w
  <1> QED BY <1>1, <1>2, <1>3 DEF Tame, ClientRecord

(* handle_handle_error and handle_protocol_error.                          *)
LEMMA ErrorTame ==
    \A r \in ClientRecord : /\ Tame(r, HandleHandleError(r))
                            /\ \A closed \in BOOLEAN : Tame(r, HandleProtocolError(r, closed))
  BY SendPacketTame, DisconnectTame, CloseTame DEF HandleHandleError, HandleProtocolError, Tame

(* The callbacks and handlers that change what the player sees.            *)
LEMMA ShowTame ==
    \A r \in ClientRecord : Tame(r, ShowLogin(r)) /\ Tame(r, ShowLobby(r)) /\ Tame(r, EnterLobby(r))
  <1> SUFFICES ASSUME NEW r \in ClientRecord
               PROVE  Tame(r, ShowLogin(r)) /\ Tame(r, ShowLobby(r)) /\ Tame(r, EnterLobby(r))
    OBVIOUS
  <1>0. "query" \in TaskKinds /\ "lobby" \in TaskKinds
    BY DEF TaskKinds
  <1> DEFINE s == SendPacket(r)
             a == RunAsync(s, "query")
             p == RegisterComponent(a)
             q == RegisterComponent(s)
  <1>1. Tame(r, s) /\ s \in ClientRecord
    BY SendPacketTame DEF Tame
  <1>2. Tame(r, a) /\ a \in ClientRecord
    BY <1>0, <1>1, RunAsyncTame DEF Tame
  <1>3. Tame(r, p) /\ p \in ClientRecord
    BY <1>2, WakeTame DEF Tame, RegisterComponent
  <1>4. Tame(r, q) /\ q \in ClientRecord
    BY <1>1, WakeTame DEF Tame, RegisterComponent
  <1>5. Tame(r, RunAsync(p, "lobby"))
    BY <1>0, <1>3, RunAsyncTame DEF Tame
  <1>6. /\ ShowLogin(r) = [p EXCEPT !.loginForm = TRUE]
        /\ ShowLobby(r) = [q EXCEPT !.lobby = TRUE]
        /\ EnterLobby(r) = RunAsync(p, "lobby")
    BY DEF ShowLogin, ShowLobby, EnterLobby
  <1> HIDE DEF p, q
  <1>7. Tame(r, ShowLogin(r))
    BY <1>3, <1>6 DEF Tame, ClientRecord
  <1>8. Tame(r, ShowLobby(r))
    BY <1>4, <1>6 DEF Tame, ClientRecord
  <1> QED BY <1>5, <1>6, <1>7, <1>8

(* Client::handle_packet, by what the handlers do.                         *)
LEMMA HandlePacketTame ==
    \A r \in ClientRecord, k \in {"pong", "request", "query", "login", "reject"} :
        Tame(r, HandlePacket(r, k))
  <1> SUFFICES ASSUME NEW r \in ClientRecord,
                      NEW k \in {"pong", "request", "query", "login", "reject"}
               PROVE  Tame(r, HandlePacket(r, k))
    OBVIOUS
  <1>1. Tame(r, r) /\ Tame(r, [r EXCEPT !.pinged = FALSE])
    BY DEF Tame, ClientRecord
  <1>2. k \in {"query", "login"} => k \in TaskKinds
    BY DEF TaskKinds
  <1> QED BY <1>1, <1>2, SendPacketTame, ErrorTame, RunAsyncTame DEF HandlePacket

(* ConnectionPing::poll.                                                   *)
LEMMA PollPingTame == \A r \in ClientRecord : Tame(r, PollPing(r))
  <1> SUFFICES ASSUME NEW r \in ClientRecord PROVE Tame(r, PollPing(r))
    OBVIOUS
  <1> DEFINE t == [r EXCEPT !.pingDue = FALSE]
             s == SendPacket(t)
  <1>1. t \in ClientRecord /\ Tame(r, t)
    BY DEF Tame, ClientRecord
  <1>2. s \in ClientRecord /\ Tame(r, s)
    BY <1>1, SendPacketTame DEF Tame
  <1> DEFINE q == [s EXCEPT !.pinged = TRUE]
  <1>3. PollPing(r) = IF r.pingDue /\ ~r.pinged THEN q ELSE t
    BY DEF PollPing
  <1> HIDE DEF t, s
  <1>4. q \in ClientRecord
    BY <1>2 DEF ClientRecord
  <1>5. q.auth = s.auth /\ q.state = s.state
    BY <1>2 DEF ClientRecord
  <1> HIDE DEF q
  <1>6. s.auth = r.auth /\ (s.state = "Open" => r.state = "Open")
    BY <1>1, <1>2, SendPacketTame DEF Tame
  <1> QED BY <1>1, <1>3, <1>4, <1>5, <1>6 DEF Tame

(* Connection::poll_outgoing, whatever the socket takes.                   *)
LEMMA FlushedTame ==
    ASSUME client \in [Clients -> ClientRecord], NEW c \in Clients, NEW r \in Flushed(c)
    PROVE  Tame(client[c], r)
  <1>1. client[c] \in ClientRecord
    OBVIOUS
  <1>2. r \in {FlushedAll(client[c]), FlushedPart(client[c])}
    BY DEF Flushed
  <1>3. Tame(client[c], FlushedAll(client[c]))
    BY <1>1 DEF FlushedAll, Tame, ClientRecord
  <1>4. Tame(client[c], FlushedPart(client[c]))
    BY <1>1 DEF FlushedPart, Tame, ClientRecord
  <1> QED BY <1>2, <1>3, <1>4

(* The socket's wakers.                                                    *)
LEMMA ReadyTame ==
    \A r \in ClientRecord : Tame(r, Readable(r)) /\ Tame(r, Writable(r))
  <1> SUFFICES ASSUME NEW r \in ClientRecord PROVE Tame(r, Readable(r)) /\ Tame(r, Writable(r))
    OBVIOUS
  <1> DEFINE v == r.woken \/ r.readWait
             w == r.woken \/ r.writeWait
  <1>1. v \in BOOLEAN /\ w \in BOOLEAN
    OBVIOUS
  <1>2. /\ Readable(r) = [r EXCEPT !.woken = v, !.readWait = FALSE]
        /\ Writable(r) = [r EXCEPT !.woken = w, !.writeWait = FALSE]
    BY DEF Readable, Writable
  <1> HIDE DEF v, w
  <1>3. Tame(r, Readable(r))
    BY <1>1, <1>2 DEF Tame, ClientRecord
  <1>4. Tame(r, Writable(r))
    BY <1>1, <1>2 DEF Tame, ClientRecord
  <1> QED BY <1>3, <1>4

(* Tame is transitive, and holds of setting any field but auth and state.  *)
LEMMA TameTrans ==
    ASSUME NEW r, NEW q, NEW p, Tame(r, q), Tame(q, p) PROVE Tame(r, p)
  BY DEF Tame

(* Setting one of the fields that Tame does not speak of.                  *)
LEMMA SetFieldTame ==
    ASSUME NEW r \in ClientRecord
    PROVE  /\ \A x \in {"idle", "tasks", "components", "io"} : Tame(r, [r EXCEPT !.poll = x])
           /\ \A x \in BOOLEAN : Tame(r, [r EXCEPT !.dead = x])
           /\ \A x \in BOOLEAN : Tame(r, [r EXCEPT !.woken = x])
           /\ \A x \in BOOLEAN : Tame(r, [r EXCEPT !.pingDue = x])
           /\ \A x \in BOOLEAN : Tame(r, [r EXCEPT !.readWait = x])
           /\ \A x \in BOOLEAN : Tame(r, [r EXCEPT !.waker = x])
           /\ \A x \in BOOLEAN : Tame(r, [r EXCEPT !.taskWaker = x])
           /\ \A x \in [TaskKinds -> TaskCount] : Tame(r, [r EXCEPT !.tasks = x])
  BY DEF Tame, ClientRecord

-----------------------------------------------------------------------------
ShutdownFlag == is_shutdown <=> main # "accepting"

(* A step that only gives one client's record a tame new value is a Close  *)
(* of its session, or changes nothing of the sessions.                     *)
LEMMA QuietStep ==
    ASSUME ClientTypeOK, NEW c \in Clients, NEW r, Tame(client[c], r), SetClient(c, r),
           UNCHANGED <<life, events, serverVars>>
    PROVE  /\ client' \in [Clients -> ClientRecord]
           /\ S!Close(c) \/ UNCHANGED S!vars
  <1>1. /\ client \in [Clients -> ClientRecord]
        /\ r \in ClientRecord
        /\ client' = [client EXCEPT ![c] = r]
    BY DEF ClientTypeOK, SetClient, Tame
  <1>2. /\ client' \in [Clients -> ClientRecord]
        /\ client'[c] = r
        /\ \A d \in Clients : d # c => client'[d] = client[d]
    BY <1>1
  <1>3. AuthSet' = AuthSet
    <2>1. \A d \in Clients : client'[d].auth = client[d].auth
      BY <1>2 DEF Tame
    <2> QED BY <2>1 DEF AuthSet
  <1>4. OpenSet' = OpenSet \/ OpenSet' = OpenSet \ {c}
    <2>1. CASE r.state = "Open"
      <3>1. client[c].state = "Open"
        BY <2>1 DEF Tame
      <3>2. \A d \in Clients : client'[d].state = "Open" <=> client[d].state = "Open"
        BY <1>2, <2>1, <3>1
      <3> QED BY <3>2 DEF OpenSet
    <2>2. CASE r.state # "Open"
      <3>1. \A d \in Clients : client'[d].state = "Open" <=> client[d].state = "Open" /\ d # c
        BY <1>2, <2>2
      <3> QED BY <3>1 DEF OpenSet
    <2> QED BY <2>1, <2>2
  <1>5. SessionMap' = SessionMap
    BY DEF SessionMap, SessionOf
  <1> QED
    BY <1>2, <1>3, <1>4, <1>5 DEF S!Close, S!vars, serverVars

Sim == TypeOK' /\ ShutdownFlag' /\ [S!Next]_(S!vars)

(* The quiet steps, whatever they do to the socket.                        *)
LEMMA QuietSim ==
    ASSUME TypeOK, ShutdownFlag, NEW c \in Clients, NEW r, Tame(client[c], r), SetClient(c, r),
           socket' \in [Clients -> SocketRecord], UNCHANGED <<life, events, serverVars>>
    PROVE  Sim
  <1>1. client' \in [Clients -> ClientRecord] /\ (S!Close(c) \/ UNCHANGED S!vars)
    BY QuietStep DEF TypeOK
  <1>2. TypeOK' /\ ShutdownFlag'
    BY <1>1 DEF TypeOK, ClientTypeOK, ShutdownFlag, serverVars
  <1> QED BY <1>1, <1>2 DEF Sim, S!Next

(* The steps of a poll that end nothing and authenticate nobody.           *)
QuietPoll(c) ==
    \/ BeginPoll(c) \/ CollectConnect(c) \/ CollectLobby(c) \/ CollectQuery(c)
    \/ CollectLoginFailure(c) \/ EndTasks(c) \/ PollComponents(c)
    \/ ReceivePacket(c) \/ ReceiveGarbage(c) \/ ReceiveError(c) \/ ReceivePending(c)

(* Taking the result of a task out of the list.                            *)
LEMMA CollectedTame ==
    ASSUME ClientTypeOK, NEW c \in Clients, NEW k \in TaskKinds, CanCollect(c, k)
    PROVE  Collected(c, k) \in ClientRecord /\ Tame(client[c], Collected(c, k))
  <1>1. client[c] \in ClientRecord
    BY DEF ClientTypeOK
  <1> DEFINE t == [client[c].tasks EXCEPT ![k].done = @ - 1]
  <1>2. client[c].tasks \in [TaskKinds -> TaskCount] /\ client[c].tasks[k].done > 0
    BY <1>1 DEF CanCollect, ClientRecord
  <1>3. t \in [TaskKinds -> TaskCount]
    BY <1>2 DEF TaskCount, Stages
  <1>4. Collected(c, k) = [client[c] EXCEPT !.tasks = t]
    BY DEF Collected
  <1> HIDE DEF t
  <1>5. Tame(client[c], [client[c] EXCEPT !.tasks = t])
    BY <1>1, <1>3, SetFieldTame
  <1> QED BY <1>4, <1>5 DEF Tame

(* Collecting a result leaves the client's state alone.                    *)
LEMMA CollectedState ==
    ASSUME ClientTypeOK, NEW c \in Clients, NEW k
    PROVE  Collected(c, k).state = client[c].state
  <1>1. client[c] \in ClientRecord
    BY DEF ClientTypeOK
  <1> DEFINE t == [client[c].tasks EXCEPT ![k].done = @ - 1]
  <1>2. Collected(c, k) = [client[c] EXCEPT !.tasks = t]
    BY DEF Collected
  <1> HIDE DEF t
  <1>3. [client[c] EXCEPT !.tasks = t].state = client[c].state
    BY <1>1 DEF ClientRecord
  <1> QED BY <1>2, <1>3

(* A poll moves tasks from stage to stage and keeps them counted: Due and  *)
(* Suspended, the two ends of Tasks::poll.                                 *)
LEMMA PolledTasksTyped ==
    ASSUME NEW tasks \in [TaskKinds -> TaskCount]
    PROVE  /\ Due(tasks) \in [TaskKinds -> TaskCount]
           /\ Suspended(tasks) \in [TaskKinds -> TaskCount]
  <1> DEFINE due(x) == [x EXCEPT !.done = @ + x.late, !.late = 0]
             suspended(x) == [x EXCEPT !.waiting = @ + x.fresh, !.fresh = 0]
  <1>1. ASSUME NEW x \in TaskCount
        PROVE  due(x) \in TaskCount /\ suspended(x) \in TaskCount
    <2>1. \A s \in Stages : x[s] \in Nat
      BY DEF TaskCount
    <2>2. x["fresh"] \in Nat /\ x["waiting"] \in Nat /\ x["done"] \in Nat /\ x["late"] \in Nat
      BY <2>1 DEF Stages
    <2>3. x["done"] + x["late"] \in Nat /\ x["waiting"] + x["fresh"] \in Nat
      BY <2>2
    <2> DEFINE d == x["done"] + x["late"]
               w == x["waiting"] + x["fresh"]
    <2> HIDE DEF d, w
    <2>4. [x EXCEPT !.done = d, !.late = 0] \in TaskCount
      BY <2>3 DEF d, TaskCount
    <2>5. [x EXCEPT !.waiting = w, !.fresh = 0] \in TaskCount
      BY <2>3 DEF w, TaskCount
    <2> QED BY <2>4, <2>5 DEF d, w, TaskCount
  <1>2. \A k \in TaskKinds : tasks[k] \in TaskCount
    OBVIOUS
  <1>3. \A k \in TaskKinds : due(tasks[k]) \in TaskCount /\ suspended(tasks[k]) \in TaskCount
    BY <1>1, <1>2
  <1>4. /\ Due(tasks) = [k \in TaskKinds |-> due(tasks[k])]
        /\ Suspended(tasks) = [k \in TaskKinds |-> suspended(tasks[k])]
    BY DEF Due, Suspended
  <1> HIDE DEF due, suspended
  <1> QED BY <1>3, <1>4

(* The steps of a poll that send no event keep the session as it is, or    *)
(* let it begin to close.                                                  *)
LEMMA QuietPollSim ==
    ASSUME TypeOK, ShutdownFlag, NEW c \in Clients, QuietPoll(c), UNCHANGED serverVars
    PROVE  Sim
  <1> DEFINE r == client[c]
  <1>1. r \in ClientRecord /\ client \in [Clients -> ClientRecord]
    BY DEF TypeOK, ClientTypeOK
  <1>2. socket \in [Clients -> SocketRecord] /\ ClientTypeOK
    BY DEF TypeOK, ClientTypeOK
  <1>3. socket[c].inbox > 0 /\ socket' = [socket EXCEPT ![c].inbox = @ - 1]
          => socket' \in [Clients -> SocketRecord]
    BY <1>2 DEF SocketRecord
  <1>4. ASSUME NEW q, Tame(r, q), SetClient(c, q), UNCHANGED <<life, events>>,
               socket' \in [Clients -> SocketRecord]
        PROVE  Sim
    BY <1>4, QuietSim DEF serverVars
  <1>5. CASE BeginPoll(c)
    <2> DEFINE t == Due(r.tasks)
               q == [r EXCEPT !.tasks = t, !.poll = "tasks", !.woken = FALSE,
                              !.waker = TRUE, !.taskWaker = TRUE]
    <2>0. r.tasks \in [TaskKinds -> TaskCount]
      BY <1>1 DEF ClientRecord
    <2>1. t \in [TaskKinds -> TaskCount]
      BY <2>0, PolledTasksTyped
    <2>2. SetClient(c, q)
      BY <1>5 DEF BeginPoll
    <2> HIDE DEF t
    <2>3. Tame(r, q)
      BY <1>1, <2>1 DEF Tame, ClientRecord
    <2> QED BY <1>2, <1>4, <1>5, <2>2, <2>3 DEF BeginPoll
  <1>6. CASE CollectConnect(c)
    <2>1. "connect" \in TaskKinds
      BY DEF TaskKinds
    <2>2. Tame(r, ShowLogin(Collected(c, "connect")))
      BY <1>2, <1>6, <2>1, CollectedTame, ShowTame DEF CollectConnect, Tame
    <2> QED BY <1>2, <1>4, <1>6, <2>2 DEF CollectConnect
  <1>7. CASE CollectLobby(c)
    <2>1. "lobby" \in TaskKinds
      BY DEF TaskKinds
    <2>2. Tame(r, ShowLobby(Collected(c, "lobby")))
      BY <1>2, <1>7, <2>1, CollectedTame, ShowTame DEF CollectLobby, Tame
    <2> QED BY <1>2, <1>4, <1>7, <2>2 DEF CollectLobby
  <1>8. CASE CollectQuery(c)
    <2>1. "query" \in TaskKinds
      BY DEF TaskKinds
    <2>2. Tame(r, Collected(c, "query"))
      BY <1>2, <1>8, <2>1, CollectedTame DEF CollectQuery
    <2>3. Tame(r, SendPacket(Collected(c, "query")))
      BY <2>2, SendPacketTame DEF Tame
    <2> QED BY <1>2, <1>4, <1>8, <2>2, <2>3 DEF CollectQuery
  <1>9. CASE CollectLoginFailure(c)
    <2>1. "login" \in TaskKinds
      BY DEF TaskKinds
    <2>2. Tame(r, SendPacket(Collected(c, "login")))
      BY <1>2, <1>9, <2>1, CollectedTame, SendPacketTame DEF CollectLoginFailure, Tame
    <2> QED BY <1>2, <1>4, <1>9, <2>2 DEF CollectLoginFailure
  <1>10. CASE EndTasks(c)
    <2> DEFINE t == Suspended(r.tasks)
    <2>0. r.tasks \in [TaskKinds -> TaskCount]
      BY <1>1 DEF ClientRecord
    <2>1. t \in [TaskKinds -> TaskCount]
      BY <2>0, PolledTasksTyped
    <2>2. SetClient(c, [r EXCEPT !.tasks = t, !.poll = "components"])
      BY <1>10 DEF EndTasks
    <2> HIDE DEF t
    <2>3. Tame(r, [r EXCEPT !.tasks = t, !.poll = "components"])
      BY <1>1, <2>1 DEF Tame, ClientRecord
    <2> QED BY <1>2, <1>4, <1>10, <2>2, <2>3 DEF EndTasks
  <1>11. CASE PollComponents(c)
    <2> DEFINE p == PollPing(r)
    <2>1. p \in ClientRecord /\ Tame(r, p)
      BY <1>1, PollPingTame DEF Tame
    <2>2. SendPacket(p) \in ClientRecord /\ Tame(r, SendPacket(p))
      BY <2>1, SendPacketTame DEF Tame
    <2>3. Tame(r, [p EXCEPT !.poll = "io"]) /\ Tame(r, [SendPacket(p) EXCEPT !.poll = "io"])
      BY <2>1, <2>2, SetFieldTame DEF Tame
    <2>4. SetClient(c, [p EXCEPT !.poll = "io"]) \/ SetClient(c, [SendPacket(p) EXCEPT !.poll = "io"])
      BY <1>11 DEF PollComponents
    <2> QED BY <1>2, <1>4, <1>11, <2>3, <2>4 DEF PollComponents
  <1>12. CASE ReceivePacket(c)
    <2>1. PICK f \in Flushed(c), k \in PacketKinds \ {"garbage"} : SetClient(c, HandlePacket(f, k))
      BY <1>12 DEF ReceivePacket
    <2>2. f \in ClientRecord /\ Tame(r, f)
      BY <1>1, FlushedTame DEF Tame
    <2>3. k \in {"pong", "request", "query", "login", "reject"}
      BY ClientAssumption
    <2>4. Tame(r, HandlePacket(f, k))
      BY <2>2, <2>3, HandlePacketTame, TameTrans
    <2> QED BY <1>3, <1>4, <1>12, <2>1, <2>4 DEF ReceivePacket
  <1>13. CASE ReceiveGarbage(c)
    <2>1. PICK f \in Flushed(c) : SetClient(c, HandleProtocolError([f EXCEPT !.dead = TRUE], FALSE))
      BY <1>13 DEF ReceiveGarbage
    <2>2. f \in ClientRecord /\ Tame(r, f)
      BY <1>1, FlushedTame DEF Tame
    <2>3. [f EXCEPT !.dead = TRUE] \in ClientRecord /\ Tame(r, [f EXCEPT !.dead = TRUE])
      BY <2>2, SetFieldTame DEF Tame
    <2>4. Tame(r, HandleProtocolError([f EXCEPT !.dead = TRUE], FALSE))
      BY <2>3, ErrorTame, TameTrans
    <2> QED BY <1>3, <1>4, <1>13, <2>1, <2>4 DEF ReceiveGarbage
  <1>14. CASE ReceiveError(c)
    <2>1. PICK f \in Flushed(c) : SetClient(c, HandleProtocolError([f EXCEPT !.dead = TRUE], TRUE))
      BY <1>14 DEF ReceiveError
    <2>2. f \in ClientRecord /\ Tame(r, f)
      BY <1>1, FlushedTame DEF Tame
    <2>3. [f EXCEPT !.dead = TRUE] \in ClientRecord /\ Tame(r, [f EXCEPT !.dead = TRUE])
      BY <2>2, SetFieldTame DEF Tame
    <2>4. Tame(r, HandleProtocolError([f EXCEPT !.dead = TRUE], TRUE))
      BY <2>3, ErrorTame, TameTrans
    <2> QED BY <1>2, <1>4, <1>14, <2>1, <2>4 DEF ReceiveError
  <1>15. CASE ReceivePending(c)
    <2>1. PICK f \in Flushed(c) :
            SetClient(c, AfterLoop([f EXCEPT !.readWait = TRUE, !.poll = "idle"]))
      BY <1>15 DEF ReceivePending
    <2>2. f \in ClientRecord /\ Tame(r, f)
      BY <1>1, FlushedTame DEF Tame
    <2> DEFINE g == [f EXCEPT !.readWait = TRUE, !.poll = "idle"]
    <2>3. g \in ClientRecord /\ Tame(r, g)
      BY <2>2 DEF Tame, ClientRecord
    <2>4. Tame(r, AfterLoop(g))
      BY <2>3, CloseTame, TameTrans DEF AfterLoop
    <2> QED BY <1>2, <1>4, <1>15, <2>1, <2>4 DEF ReceivePending
  <1> QED
    BY <1>5, <1>6, <1>7, <1>8, <1>9, <1>10, <1>11, <1>12, <1>13, <1>14, <1>15 DEF QuietPoll

(* The steps of the surroundings are quiet too.                            *)
LEMMA AroundSim ==
    ASSUME TypeOK, ShutdownFlag, NEW c \in Clients, Around(c), UNCHANGED serverVars
    PROVE  Sim
  <1> DEFINE r == client[c]
  <1>1. r \in ClientRecord /\ client \in [Clients -> ClientRecord]
    BY DEF TypeOK, ClientTypeOK
  <1>2. socket \in [Clients -> SocketRecord]
    BY DEF TypeOK, ClientTypeOK
  <1>3. ASSUME NEW q, Tame(r, q), SetClient(c, q), UNCHANGED <<life, events>>,
               socket' \in [Clients -> SocketRecord]
        PROVE  Sim
    BY <1>3, QuietSim DEF serverVars
  <1>4. Tame(r, Readable(r)) /\ Tame(r, Writable(r)) /\ Tame(r, Readable(Writable(r)))
    BY <1>1, ReadyTame DEF Tame
  <1>5. CASE PeerSends(c)
    <2>1. socket' \in [Clients -> SocketRecord]
      BY <1>2, <1>5 DEF PeerSends, SocketRecord
    <2> QED BY <1>3, <1>4, <1>5, <2>1 DEF PeerSends
  <1>6. CASE PeerCloses(c)
    <2>1. socket' \in [Clients -> SocketRecord]
      BY <1>2, <1>6 DEF PeerCloses, SocketRecord
    <2> QED BY <1>3, <1>4, <1>6, <2>1 DEF PeerCloses
  <1>7. CASE PeerResets(c)
    <2>1. socket' \in [Clients -> SocketRecord]
      BY <1>2, <1>7 DEF PeerResets, SocketRecord
    <2> QED BY <1>3, <1>4, <1>7, <2>1 DEF PeerResets
  <1>8. CASE PeerReads(c)
    BY <1>2, <1>3, <1>4, <1>8 DEF PeerReads
  <1>9. CASE PingTick(c)
    <2>1. Tame(r, [r EXCEPT !.pingDue = TRUE, !.woken = TRUE])
      BY <1>1 DEF Tame, ClientRecord
    <2> QED BY <1>2, <1>3, <1>9, <2>1 DEF PingTick
  <1>10. ASSUME NEW k \in TaskKinds, TaskReady(c, k) PROVE Sim
    <2>0. r.tasks \in [TaskKinds -> TaskCount] /\ r.woken \in BOOLEAN
      BY <1>1 DEF ClientRecord
    <2>1. ASSUME NEW from \in Stages, NEW to \in Stages, from # to, NEW w \in BOOLEAN,
                 r.tasks[k][from] > 0,
                 SetClient(c, [r EXCEPT !.tasks = Move(r.tasks, k, from, to), !.woken = w])
          PROVE  Sim
      <3> DEFINE t == Move(r.tasks, k, from, to)
      <3>1. t \in [TaskKinds -> TaskCount]
        <4>1. r.tasks[k] \in [Stages -> Nat]
          BY <2>0 DEF TaskCount
        <4>2. [r.tasks[k] EXCEPT ![from] = @ - 1, ![to] = @ + 1] \in [Stages -> Nat]
          <5> HIDE DEF r
          <5> QED BY ONLY <4>1, <2>1
        <4> QED BY <2>0, <4>2 DEF Move, TaskCount
      <3> HIDE DEF t
      <3>2. Tame(r, [r EXCEPT !.tasks = t, !.woken = w])
        BY <1>1, <2>1, <3>1 DEF Tame, ClientRecord
      <3>3. SetClient(c, [r EXCEPT !.tasks = t, !.woken = w])
        BY <2>1 DEF t
      <3>4. UNCHANGED <<socket, life, events>>
        BY <1>10 DEF TaskReady
      <3> QED BY <1>2, <1>3, <3>2, <3>3, <3>4
    <2>2. \E from, to \in Stages, w \in BOOLEAN :
            /\ from # to /\ r.tasks[k][from] > 0
            /\ SetClient(c, [r EXCEPT !.tasks = Move(r.tasks, k, from, to), !.woken = w])
      <3>1. \/ /\ r.tasks[k]["fresh"] > 0
               /\ SetClient(c, [r EXCEPT !.tasks = Move(@, k, "fresh", "done"), !.woken = r.woken])
            \/ /\ r.tasks[k]["waiting"] > 0
               /\ SetClient(c, [r EXCEPT !.tasks = Move(@, k, "waiting", "done"), !.woken = TRUE])
            \/ /\ r.tasks[k]["waiting"] > 0
               /\ SetClient(c, [r EXCEPT !.tasks = Move(@, k, "waiting", "late"), !.woken = TRUE])
        BY <1>10 DEF TaskReady
      <3> QED BY <2>0, <3>1 DEF Stages
    <2> QED BY <2>1, <2>2
  <1> QED
    BY <1>5, <1>6, <1>7, <1>8, <1>9, <1>10 DEF Around

-----------------------------------------------------------------------------
(* The steps that are events in the life of a session.                     *)

(* How the mapped variables follow a change of one client's life.          *)
LEMMA LifeFact ==
    ASSUME life \in [Clients -> Lives], NEW c \in Clients, NEW l \in Lives,
           life' = [life EXCEPT ![c] = l]
    PROVE  /\ life' \in [Clients -> Lives]
           /\ SessionMap' = [SessionMap EXCEPT ![c] =
                  CASE l \in {"free", "setup", "built", "late"} -> "none"
                    [] l = "running"  -> "live"
                    [] l = "finished" -> "ended"
                    [] l = "gone"     -> "closed"]
  BY DEF SessionMap, SessionOf, Lives

(* And of one client's record.                                             *)
LEMMA RecordFact ==
    ASSUME client \in [Clients -> ClientRecord], NEW c \in Clients,
           NEW r \in ClientRecord, SetClient(c, r)
    PROVE  /\ client' \in [Clients -> ClientRecord]
           /\ OpenSet' = IF r.state = "Open" THEN OpenSet \union {c} ELSE OpenSet \ {c}
           /\ AuthSet' = IF r.auth THEN AuthSet \union {c} ELSE AuthSet \ {c}
  <1>1. /\ client' \in [Clients -> ClientRecord]
        /\ client'[c] = r
        /\ \A d \in Clients : d # c => client'[d] = client[d]
    BY DEF SetClient
  <1>2. OpenSet' = IF r.state = "Open" THEN OpenSet \union {c} ELSE OpenSet \ {c}
    BY <1>1 DEF OpenSet
  <1>3. AuthSet' = IF r.auth THEN AuthSet \union {c} ELSE AuthSet \ {c}
    BY <1>1 DEF AuthSet
  <1> QED BY <1>1, <1>2, <1>3

(* A tame record only ever leaves the open set.                            *)
LEMMA TameSets ==
    ASSUME client \in [Clients -> ClientRecord], NEW c \in Clients,
           NEW r, Tame(client[c], r), SetClient(c, r)
    PROVE  /\ client' \in [Clients -> ClientRecord]
           /\ OpenSet' \in {OpenSet, OpenSet \ {c}}
           /\ r.state # "Open" => OpenSet' = OpenSet \ {c}
           /\ client[c].state # "Open" => OpenSet' = OpenSet
           /\ AuthSet' = AuthSet
  <1>1. r \in ClientRecord
    BY DEF Tame
  <1>2. r.state = "Open" => c \in OpenSet
    BY DEF Tame, OpenSet
  <1>3. client[c].state # "Open" => c \notin OpenSet
    BY DEF OpenSet
  <1>4. r.auth <=> c \in AuthSet
    BY DEF Tame, AuthSet
  <1>5. client[c].state # "Open" => r.state # "Open"
    BY DEF Tame
  <1>6. /\ client' \in [Clients -> ClientRecord]
        /\ OpenSet' = IF r.state = "Open" THEN OpenSet \union {c} ELSE OpenSet \ {c}
        /\ AuthSet' = IF r.auth THEN AuthSet \union {c} ELSE AuthSet \ {c}
    BY <1>1, RecordFact
  <1>7. AuthSet' = AuthSet
    BY <1>4, <1>6
  <1>8. OpenSet' \in {OpenSet, OpenSet \ {c}} /\ (r.state # "Open" => OpenSet' = OpenSet \ {c})
    BY <1>2, <1>6
  <1>9. client[c].state # "Open" => OpenSet' = OpenSet
    BY <1>3, <1>5, <1>6
  <1> QED BY <1>6, <1>7, <1>8, <1>9

(* The channel holds events and nothing else.                              *)
LEMMA EmitType ==
    ASSUME events \in Seq(ServerEvent), NEW c \in Clients,
           NEW type \in {"ClientAuthenticated", "ClientDisconnected"}, Emit(type, c)
    PROVE  events' \in Seq(ServerEvent)
  <1>1. [type |-> type, id |-> c] \in ServerEvent
    BY DEF ServerEvent
  <1> QED BY <1>1 DEF Emit

(* The steps of a client's task that a session can see.                    *)
LEMMA SessionStepSim ==
    ASSUME TypeOK, ShutdownFlag, NEW c \in Clients, UNCHANGED serverVars,
           CollectLogin(c) \/ PollClosed(c) \/ ReceiveNone(c) \/ ReportDisconnected(c)
    PROVE  Sim
  <1> DEFINE r == client[c]
  <1>1. /\ r \in ClientRecord /\ client \in [Clients -> ClientRecord]
        /\ life \in [Clients -> Lives] /\ events \in Seq(ServerEvent)
        /\ socket \in [Clients -> SocketRecord]
    BY DEF TypeOK, ClientTypeOK
  <1>2. ShutdownFlag'
    BY DEF ShutdownFlag, serverVars
  <1>3. CASE CollectLogin(c)
    <2>1. "login" \in TaskKinds /\ "query" \in TaskKinds
      BY DEF TaskKinds
    <2> DEFINE p == Collected(c, "login")
               s == SendPacket(p)
               a == [s EXCEPT !.auth = TRUE]
    <2>2. s \in ClientRecord /\ Tame(r, s)
      BY <1>3, <2>1, CollectedTame, SendPacketTame DEF CollectLogin, Tame, TypeOK
    <2>3. a \in ClientRecord /\ a.auth = TRUE /\ a.state = s.state
      BY <2>2 DEF ClientRecord
    <2>4. PICK q \in {a, RunAsync(a, "query")} : SetClient(c, q)
      BY <1>3 DEF CollectLogin
    <2>5. q \in ClientRecord /\ q.auth = TRUE /\ (q.state = "Open" => s.state = "Open")
      BY <2>1, <2>3, <2>4, RunAsyncTame DEF Tame
    <2>6. q.state = "Open" <=> c \in OpenSet
      <3>1. r.tasks["login"].done > 0 /\ UNCHANGED <<socket, life>>
        BY <1>3 DEF CollectLogin, CanCollect
      <3>2. p.state = r.state /\ s.state = p.state /\ a.state = s.state
        BY <1>1, <1>3, <2>1, <2>3, CollectedTame, CollectedState, SendPacketState
          DEF CollectLogin, Tame, TypeOK
      <3>3. a.tasks \in [TaskKinds -> TaskCount] /\ RunAsync(a, "query").state = a.state
        BY <2>3 DEF RunAsync, ClientRecord
      <3> QED BY <2>4, <3>2, <3>3 DEF OpenSet
    <2> HIDE DEF p, s, a
    <2>7. client' \in [Clients -> ClientRecord] /\ OpenSet' = OpenSet /\ AuthSet' = AuthSet \union {c}
      <3>1. /\ client' \in [Clients -> ClientRecord]
            /\ OpenSet' = IF q.state = "Open" THEN OpenSet \union {c} ELSE OpenSet \ {c}
            /\ AuthSet' = IF q.auth THEN AuthSet \union {c} ELSE AuthSet \ {c}
        BY <1>1, <2>4, <2>5, RecordFact
      <3>2. OpenSet' = OpenSet
        BY <2>6, <3>1
      <3>3. AuthSet' = AuthSet \union {c}
        BY <2>5, <3>1
      <3> QED BY <3>1, <3>2, <3>3
    <2>8. events' \in Seq(ServerEvent) /\ S!Emit("ClientAuthenticated", c) /\ UNCHANGED <<socket, life>>
      BY <1>1, <1>3, EmitType DEF CollectLogin, Emit, S!Emit
    <2>9. SessionMap[c] = "live" /\ SessionMap' = SessionMap
      BY <1>3, <2>8 DEF CollectLogin, CanCollect, Polling, SessionMap, SessionOf
    <2>10. S!Authenticate(c)
      BY <2>7, <2>8, <2>9 DEF S!Authenticate, SessionMap, OpenSet, AuthSet, serverVars
    <2>11. TypeOK'
      BY <1>1, <2>7, <2>8 DEF TypeOK, ClientTypeOK, serverVars
    <2> QED BY <1>2, <2>10, <2>11 DEF Sim, S!Next
  <1>4. CASE PollClosed(c) \/ ReceiveNone(c)
    <2>1. PICK q \in ClientRecord : Tame(r, q) /\ SetClient(c, q) /\ q.state # "Open"
      <3>1. CASE PollClosed(c)
        <4>1. PollPing(r) \in ClientRecord /\ Tame(r, PollPing(r))
          BY <1>1, PollPingTame DEF Tame
        <4>2. Tame(r, [PollPing(r) EXCEPT !.poll = "idle"])
          BY <4>1, SetFieldTame DEF Tame
        <4>3. r.state # "Open" /\ SetClient(c, [PollPing(r) EXCEPT !.poll = "idle"])
          BY <3>1 DEF PollClosed
        <4> QED BY <4>2, <4>3 DEF Tame
      <3>2. CASE ReceiveNone(c)
        <4> DEFINE q == [DoConnectionClose(r) EXCEPT !.poll = "idle"]
        <4>1. q \in ClientRecord /\ Tame(r, q) /\ q.state # "Open"
          BY <1>1 DEF DoConnectionClose, Tame, ClientRecord
        <4> QED BY <3>2, <4>1 DEF ReceiveNone
      <3> QED BY <1>4, <3>1, <3>2
    <2>2. /\ life[c] = "running" /\ life' = [life EXCEPT ![c] = "finished"]
          /\ UNCHANGED <<socket, events>>
      BY <1>4 DEF PollClosed, ReceiveNone, Polling
    <2>3. "finished" \in Lives
      BY DEF Lives
    <2>4. life' \in [Clients -> Lives] /\ SessionMap' = [SessionMap EXCEPT ![c] = "ended"]
      BY <1>1, <2>2, <2>3, LifeFact
    <2>5. SessionMap[c] = "live"
      BY <2>2 DEF SessionMap, SessionOf
    <2>6. client' \in [Clients -> ClientRecord] /\ OpenSet' = OpenSet \ {c} /\ AuthSet' = AuthSet
      BY <1>1, <2>1, TameSets
    <2>7. S!End(c)
      BY <2>2, <2>4, <2>5, <2>6 DEF S!End, S!Become, SessionMap, OpenSet, AuthSet, serverVars
    <2>8. TypeOK'
      BY <1>1, <2>2, <2>4, <2>6 DEF TypeOK, ClientTypeOK, serverVars
    <2> QED BY <1>2, <2>7, <2>8 DEF Sim, S!Next
  <1>5. CASE ReportDisconnected(c)
    <2>1. life[c] = "finished" /\ life' = [life EXCEPT ![c] = "gone"] /\ UNCHANGED <<client, socket>>
      BY <1>5 DEF ReportDisconnected
    <2>2. events' \in Seq(ServerEvent) /\ S!Emit("ClientDisconnected", c)
      BY <1>1, <1>5, EmitType DEF ReportDisconnected, Emit, S!Emit
    <2>3. "gone" \in Lives
      BY DEF Lives
    <2>4. life' \in [Clients -> Lives] /\ SessionMap' = [SessionMap EXCEPT ![c] = "closed"]
      BY <1>1, <2>1, <2>3, LifeFact
    <2>5. SessionMap[c] = "ended"
      BY <2>1 DEF SessionMap, SessionOf
    <2>6. S!Report(c)
      BY <2>1, <2>2, <2>4, <2>5 DEF S!Report, S!Become, SessionMap, OpenSet, AuthSet, serverVars
    <2>7. TypeOK'
      BY <1>1, <2>1, <2>2, <2>4 DEF TypeOK, ClientTypeOK, serverVars
    <2> QED BY <1>2, <2>6, <2>7 DEF Sim, S!Next
  <1> QED BY <1>3, <1>4, <1>5

-----------------------------------------------------------------------------
(* The steps of the server and of main.                                    *)

(* Accepting, setting up and registering a connection.                     *)
LEMMA ConnectionSim ==
    ASSUME TypeOK, ShutdownFlag, NEW c \in Clients, ConnectionStep(c)
    PROVE  Sim
  <1> DEFINE r == client[c]
  <1>1. /\ r \in ClientRecord /\ client \in [Clients -> ClientRecord]
        /\ life \in [Clients -> Lives] /\ events \in Seq(ServerEvent)
        /\ socket \in [Clients -> SocketRecord]
    BY DEF TypeOK, ClientTypeOK
  <1>2. {"setup", "built", "late", "gone", "running"} \subseteq Lives
    BY DEF Lives
  <1>3. life[c] \in {"free", "setup", "built", "late"} => SessionMap[c] = "none"
    BY DEF SessionMap, SessionOf
  (* Every step but a registration takes a connection from one life to      *)
  (* another without a session, or refuses it.                              *)
  <1>4. ASSUME NEW l \in {"setup", "built", "late", "gone"}, NEW q, Tame(r, q), SetClient(c, q),
               life[c] \in {"free", "setup", "built", "late"}, life' = [life EXCEPT ![c] = l],
               l = "gone" => OpenSet' = OpenSet,
               UNCHANGED <<socket, events, serverVars>>
        PROVE  Sim
    <2>1. client' \in [Clients -> ClientRecord] /\ OpenSet' \in {OpenSet, OpenSet \ {c}} /\ AuthSet' = AuthSet
      BY <1>1, <1>4, TameSets
    <2>2. /\ life' \in [Clients -> Lives]
          /\ SessionMap' = [SessionMap EXCEPT ![c] = IF l = "gone" THEN "closed" ELSE "none"]
      BY <1>1, <1>2, <1>4, LifeFact
    <2>3. SessionMap \in [Clients -> {"none", "live", "ended", "closed"}]
      BY <1>1 DEF SessionMap, SessionOf, Lives
    <2>4. CASE l = "gone"
      <3>1. S!Refuse(c)
        BY <1>3, <1>4, <2>1, <2>2, <2>4
        DEF S!Refuse, S!Become, SessionMap, OpenSet, AuthSet, serverVars
      <3> QED
        BY <1>1, <1>4, <2>1, <2>2, <3>1
        DEF Sim, S!Next, TypeOK, ClientTypeOK, ShutdownFlag, serverVars
    <2>5. CASE l # "gone"
      <3>1. SessionMap' = SessionMap
        BY <1>3, <1>4, <2>2, <2>3, <2>5
      <3>2. S!Close(c) \/ UNCHANGED S!vars
        BY <1>4, <2>1, <3>1 DEF S!Close, S!vars, SessionMap, OpenSet, AuthSet, serverVars
      <3> QED
        BY <1>1, <1>4, <2>1, <2>2, <3>2
        DEF Sim, S!Next, TypeOK, ClientTypeOK, ShutdownFlag, serverVars
    <2> QED BY <2>4, <2>5
  <1>5. Tame(r, r)
    BY <1>1 DEF Tame
  <1>6. UNCHANGED client => SetClient(c, r) /\ OpenSet' = OpenSet
    BY <1>1 DEF SetClient, OpenSet
  <1>7. CASE Accept(c)
    BY <1>4, <1>5, <1>6, <1>7 DEF Accept
  <1>8. CASE SetupSucceeds(c)
    <2>1. PICK q \in Flushed(c) : SetClient(c, q)
      BY <1>8 DEF SetupSucceeds
    <2>2. Tame(r, q)
      BY <1>1, FlushedTame
    <2> QED BY <1>4, <1>8, <2>1, <2>2 DEF SetupSucceeds
  <1>9. CASE SetupFails(c)
    BY <1>4, <1>5, <1>6, <1>9 DEF SetupFails
  <1>10. CASE RegisterClient(c)
    <2> DEFINE s == SendPacket(r)
               a == RunAsync(s, "connect")
               q == [a EXCEPT !.woken = TRUE]
    <2>0. s.state = r.state
      BY <1>1 DEF SendPacket, ClientRecord
    <2>1. s \in ClientRecord /\ s.state = r.state /\ s.auth = r.auth
      BY <1>1, <2>0, SendPacketTame DEF Tame
    <2>2. "connect" \in TaskKinds
      BY DEF TaskKinds
    <2>a. a.state = s.state
      BY <2>1 DEF RunAsync, ClientRecord
    <2>3. a \in ClientRecord /\ a.auth = s.auth /\ a.state = s.state
      BY <2>1, <2>2, <2>a, RunAsyncTame DEF Tame
    <2>4. SetClient(c, q)
      BY <1>10 DEF RegisterClient
    <2> HIDE DEF a, s
    <2>5. q \in ClientRecord /\ q.auth = r.auth /\ q.state = r.state
      BY <2>1, <2>3 DEF ClientRecord
    <2> HIDE DEF q
    <2>6. r.state = "Open" <=> c \in OpenSet
      BY DEF OpenSet
    <2>7. r.auth <=> c \in AuthSet
      BY DEF AuthSet
    <2>8. /\ client' \in [Clients -> ClientRecord]
          /\ OpenSet' = IF q.state = "Open" THEN OpenSet \union {c} ELSE OpenSet \ {c}
          /\ AuthSet' = IF q.auth THEN AuthSet \union {c} ELSE AuthSet \ {c}
      BY <1>1, <2>4, <2>5, RecordFact
    <2>9. OpenSet' = OpenSet
      BY <2>5, <2>6, <2>8
    <2>10. AuthSet' = AuthSet
      BY <2>5, <2>7, <2>8
    <2>11. /\ main = "accepting" /\ life[c] = "built" /\ life' = [life EXCEPT ![c] = "running"]
           /\ clients' = clients \union {c} /\ UNCHANGED <<socket, events, is_shutdown, main, halting>>
      BY <1>10 DEF RegisterClient, ShutdownFlag
    <2>12. life' \in [Clients -> Lives] /\ SessionMap' = [SessionMap EXCEPT ![c] = "live"]
      BY <1>1, <1>2, <2>11, LifeFact
    <2>13. S!Register(c)
      BY <1>3, <2>9, <2>10, <2>11, <2>12 DEF S!Register, S!Become, SessionMap, OpenSet, AuthSet
    <2>14. TypeOK' /\ ShutdownFlag'
      BY <1>1, <2>8, <2>11, <2>12 DEF TypeOK, ClientTypeOK, ShutdownFlag
    <2> QED BY <2>13, <2>14 DEF Sim, S!Next
  <1>11. CASE RegisterLate(c)
    <2>1. Tame(r, Disconnect(SendPacket(r)))
      BY <1>1, SendPacketTame, DisconnectTame, TameTrans DEF Tame
    <2> QED BY <1>4, <1>11, <2>1 DEF RegisterLate
  <1>12. CASE DropLate(c)
    <2>1. PICK q \in {r} \union Flushed(c) : SetClient(c, q)
      BY <1>12 DEF DropLate
    <2>2. Tame(r, q)
      BY <1>1, <1>5, FlushedTame
    <2>3. q.state = r.state
      BY <1>1, <2>1 DEF Flushed, FlushedAll, FlushedPart, ClientRecord
    <2>4. client'[c] = q /\ \A d \in Clients : d # c => client'[d] = client[d]
      BY <1>1, <2>1 DEF SetClient
    <2>5. OpenSet' = OpenSet
      BY <2>3, <2>4 DEF OpenSet
    <2> QED BY <1>4, <1>12, <2>1, <2>2, <2>5 DEF DropLate
  <1> QED
    BY <1>7, <1>8, <1>9, <1>10, <1>11, <1>12 DEF ConnectionStep

(* The event task and the shutdown.                                        *)
LEMMA ServerSim ==
    ASSUME TypeOK, ShutdownFlag, ServerStep
    PROVE  Sim
  <1>1. /\ client \in [Clients -> ClientRecord]
        /\ life \in [Clients -> Lives] /\ events \in Seq(ServerEvent)
        /\ socket \in [Clients -> SocketRecord]
    BY DEF TypeOK, ClientTypeOK
  <1>2. ASSUME NEW c \in Clients, HandleClientAuthenticated(c) PROVE Sim
    <2>1. /\ ServerFree /\ events # <<>> /\ events' = Tail(events)
          /\ Head(events) = [type |-> "ClientAuthenticated", id |-> c]
          /\ UNCHANGED <<socket, life, serverVars>>
      BY <1>2 DEF HandleClientAuthenticated, NextEvent
    <2>2. /\ client' \in [Clients -> ClientRecord]
          /\ OpenSet' = OpenSet /\ AuthSet' = AuthSet
      <3>1. CASE UNCHANGED client
        BY <1>1, <3>1 DEF OpenSet, AuthSet
      <3>2. ASSUME NEW q \in {EnterLobby(client[c]), SendPacket(client[c])}, SetClient(c, q)
            PROVE  /\ client' \in [Clients -> ClientRecord]
                   /\ OpenSet' = OpenSet /\ AuthSet' = AuthSet
        <4>1. client[c] \in ClientRecord
          BY <1>1
        <4> DEFINE s == SendPacket(client[c])
                   a == RunAsync(s, "query")
                   w == RegisterComponent(a)
        <4>2. s.state = client[c].state
          BY <4>1 DEF SendPacket, ClientRecord
        <4>3. s \in ClientRecord
          BY <4>1, SendPacketTame DEF Tame
        <4>4. a.state = s.state
          BY <4>3 DEF RunAsync, ClientRecord
        <4>5. a \in ClientRecord
          BY <4>3, RunAsyncTame DEF Tame, TaskKinds
        <4>6. w.state = a.state
          BY <4>5 DEF RegisterComponent, Wake, ClientRecord
        <4>7. w \in ClientRecord
          BY <4>5, WakeTame DEF Tame, RegisterComponent
        <4>8. RunAsync(w, "lobby").state = w.state
          BY <4>7 DEF RunAsync, ClientRecord
        <4>9. EnterLobby(client[c]) = RunAsync(w, "lobby")
          BY DEF EnterLobby
        <4> HIDE DEF s, a, w
        <4>10. Tame(client[c], q)
          BY <3>2, <4>1, ShowTame, SendPacketTame
        <4>11. q.state = client[c].state
          BY <3>2, <4>2, <4>4, <4>6, <4>8, <4>9 DEF s
        <4>12. client'[c] = q /\ \A d \in Clients : d # c => client'[d] = client[d]
          BY <1>1, <3>2 DEF SetClient
        <4>13. OpenSet' = OpenSet
          BY <4>11, <4>12 DEF OpenSet
        <4> QED BY <1>1, <3>2, <4>10, <4>13, TameSets
      <3> QED BY <1>2, <3>1, <3>2 DEF HandleClientAuthenticated
    <2>3. events' \in Seq(ServerEvent)
      BY <1>1, <2>1
    <2>4. S!HandleEvent(c)
      BY <2>1, <2>2
      DEF S!HandleEvent, ServerFree, SessionMap, SessionOf, OpenSet, AuthSet, serverVars
    <2>5. TypeOK' /\ ShutdownFlag'
      BY <1>1, <2>1, <2>2, <2>3 DEF TypeOK, ClientTypeOK, ShutdownFlag, serverVars
    <2> QED BY <2>4, <2>5 DEF Sim, S!Next
  <1>3. ASSUME NEW c \in Clients, HandleClientDisconnected(c) PROVE Sim
    <2>1. /\ ServerFree /\ events # <<>> /\ events' = Tail(events)
          /\ Head(events) = [type |-> "ClientDisconnected", id |-> c]
          /\ clients' = clients \ {c}
          /\ UNCHANGED <<client, socket, life, is_shutdown, main, halting>>
      BY <1>3 DEF HandleClientDisconnected, NextEvent
    <2>2. events' \in Seq(ServerEvent)
      BY <1>1, <2>1
    <2>3. S!HandleEvent(c)
      BY <2>1 DEF S!HandleEvent, ServerFree, SessionMap, SessionOf, OpenSet, AuthSet
    <2>4. TypeOK' /\ ShutdownFlag'
      BY <1>1, <2>1, <2>2 DEF TypeOK, ClientTypeOK, ShutdownFlag
    <2> QED BY <2>3, <2>4 DEF Sim, S!Next
  <1>4. CASE Shutdown
    <2>1. S!Shutdown
      BY <1>4 DEF Shutdown, S!Shutdown, clientVars, SessionMap, SessionOf, OpenSet, AuthSet
    <2>2. TypeOK' /\ ShutdownFlag'
      BY <1>4 DEF Shutdown, TypeOK, ClientTypeOK, ShutdownFlag, clientVars
    <2> QED BY <2>1, <2>2 DEF Sim, S!Next
  <1>5. ASSUME NEW c \in Clients, HaltClient(c) PROVE Sim
    <2> DEFINE q == Disconnect(SendPacket(client[c]))
    <2>1. /\ main = "halting" /\ SetClient(c, q) /\ halting' = halting \ {c}
          /\ UNCHANGED <<socket, life, events, clients, is_shutdown, main>>
      BY <1>5 DEF HaltClient
    <2>2. Tame(client[c], q) /\ q.state # "Open"
      <3>1. client[c] \in ClientRecord
        BY <1>1
      <3>2. SendPacket(client[c]) \in ClientRecord /\ Tame(client[c], SendPacket(client[c]))
        BY <3>1, SendPacketTame DEF Tame
      <3>3. \A r \in ClientRecord : Disconnect(r).state # "Open"
        BY DEF Disconnect, Wake, ClientRecord
      <3> QED BY <3>2, <3>3, DisconnectTame, TameTrans
    <2>3. client' \in [Clients -> ClientRecord] /\ OpenSet' = OpenSet \ {c} /\ AuthSet' = AuthSet
      BY <1>1, <2>1, <2>2, TameSets
    <2>4. S!Halt(c)
      BY <2>1, <2>3 DEF S!Halt, SessionMap, SessionOf, OpenSet, AuthSet
    <2>5. TypeOK' /\ ShutdownFlag'
      BY <1>1, <2>1, <2>3 DEF TypeOK, ClientTypeOK, ShutdownFlag
    <2> QED BY <2>4, <2>5 DEF Sim, S!Next
  <1>6. CASE ShutdownReturns
    <2>1. S!ShutdownReturns
      BY <1>6 DEF ShutdownReturns, S!ShutdownReturns, clientVars, SessionMap, SessionOf, OpenSet, AuthSet
    <2>2. TypeOK' /\ ShutdownFlag'
      BY <1>6 DEF ShutdownReturns, TypeOK, ClientTypeOK, ShutdownFlag, clientVars
    <2> QED BY <2>1, <2>2 DEF Sim, S!Next
  <1>7. CASE Exit
    <2>1. S!Exit
      BY <1>7 DEF Exit, S!Exit, clientVars, SessionMap, SessionOf, OpenSet, AuthSet
    <2>2. TypeOK' /\ ShutdownFlag'
      BY <1>7 DEF Exit, TypeOK, ClientTypeOK, ShutdownFlag, clientVars
    <2> QED BY <2>1, <2>2 DEF Sim, S!Next
  <1> QED BY <1>2, <1>3, <1>4, <1>5, <1>6, <1>7 DEF ServerStep

(* Every step of the server is a step of Sessions or none, and keeps the   *)
(* types.                                                                  *)
LEMMA NextSim == TypeOK /\ ShutdownFlag /\ [Next]_vars => Sim
  <1> SUFFICES ASSUME TypeOK, ShutdownFlag, [Next]_vars PROVE Sim
    OBVIOUS
  <1>1. CASE ServerStep
    BY <1>1, ServerSim
  <1>2. ASSUME NEW c \in Clients, ConnectionStep(c) PROVE Sim
    BY <1>2, ConnectionSim
  <1>3. ASSUME NEW c \in Clients, ClientStep(c) PROVE Sim
    <2>1. CASE QuietPoll(c)
      BY <1>3, <2>1, QuietPollSim DEF ClientStep
    <2>2. CASE CollectLogin(c) \/ PollClosed(c) \/ ReceiveNone(c) \/ ReportDisconnected(c)
      BY <1>3, <2>2, SessionStepSim DEF ClientStep
    <2>3. CASE Around(c)
      BY <1>3, <2>3, AroundSim DEF ClientStep
    <2> QED BY <1>3, <2>1, <2>2, <2>3 DEF ClientStep, PollStep, QuietPoll
  <1>4. CASE UNCHANGED vars
    BY <1>4 DEF vars, clientVars, serverVars, Sim, TypeOK, ClientTypeOK, ShutdownFlag,
                S!vars, SessionMap, SessionOf, OpenSet, AuthSet
  <1> QED BY <1>1, <1>2, <1>3, <1>4 DEF Next, Exited

(* The initial states map to initial states.                               *)
LEMMA InitSim == Init => TypeOK /\ ShutdownFlag /\ S!Init
  <1> SUFFICES ASSUME Init PROVE TypeOK /\ ShutdownFlag /\ S!Init
    OBVIOUS
  <1>1. NoTasks \in [TaskKinds -> TaskCount]
    BY DEF NoTasks, TaskCount
  <1>2. NewClient \in ClientRecord /\ NewClient.state = "Open" /\ NewClient.auth = FALSE
    BY <1>1 DEF NewClient, ClientRecord
  <1>3. \A c \in Clients : MaxPackets[c] \in Nat
    BY ClientAssumption
  <1>4. socket \in [Clients -> SocketRecord]
    BY <1>3 DEF Init, ClientInit, SocketRecord
  <1>5. client \in [Clients -> ClientRecord]
    BY <1>2 DEF Init, ClientInit
  <1>a. life \in [Clients -> Lives]
    BY DEF Init, ClientInit, Lives
  <1>b. events \in Seq(ServerEvent)
    BY DEF Init, ClientInit
  <1>6. TypeOK
    BY <1>4, <1>5, <1>a, <1>b DEF Init, TypeOK, ClientTypeOK
  <1>7. S!Init
    BY <1>2 DEF Init, ClientInit, S!Init, SessionMap, SessionOf, OpenSet, AuthSet
  <1> QED BY <1>6, <1>7 DEF Init, ShutdownFlag

(* Every field of every client's record keeps its type, the counts of its  *)
(* tasks never fall below zero, and only known events are queued.          *)
THEOREM TypeCorrect == Spec => []TypeOK
  <1>1. Init => TypeOK /\ ShutdownFlag
    BY InitSim
  <1>2. TypeOK /\ ShutdownFlag /\ [Next]_vars => TypeOK' /\ ShutdownFlag'
    BY NextSim DEF Sim
  <1> QED BY <1>1, <1>2, PTL DEF Spec

(* The server with its polls, wakers, packets and locks implements the     *)
(* sessions of module Sessions: each step is one of theirs or a stutter.   *)
THEOREM Implementation == Spec => ImplementsSessions
  <1>1. Init => TypeOK /\ ShutdownFlag /\ S!Init
    BY InitSim
  <1>2. TypeOK /\ ShutdownFlag /\ [Next]_vars
          => TypeOK' /\ ShutdownFlag' /\ [S!Next]_(S!vars)
    BY NextSim DEF Sim
  <1> QED BY <1>1, <1>2, PTL DEF Spec, ImplementsSessions, S!Spec

-----------------------------------------------------------------------------
(* The sessions themselves, whoever plays them: nothing below looks into   *)
(* the server.                                                             *)

(* Sending an event (Sender::send) appends it and moves no other.          *)
LEMMA EmitFact ==
    ASSUME events \in Seq(S!Event), NEW type \in {"ClientAuthenticated", "ClientDisconnected"},
           NEW c \in Clients, S!Emit(type, c)
    PROVE  /\ events' \in Seq(S!Event)
           /\ Len(events) \in Nat
           /\ DOMAIN events = 1 .. Len(events)
           /\ DOMAIN events' = 1 .. Len(events) + 1
           /\ events'[Len(events) + 1] = [type |-> type, id |-> c]
           /\ \A i \in DOMAIN events : events'[i] = events[i]
  BY DEF S!Emit, S!Event

(* Receiving one (poll_recv) takes the first and moves the others up.      *)
LEMMA HandleFact ==
    ASSUME events \in Seq(S!Event), events # <<>>, events' = Tail(events)
    PROVE  /\ events' \in Seq(S!Event)
           /\ Head(events) = events[1]
           /\ Len(events) \in Nat \ {0}
           /\ DOMAIN events = 1 .. Len(events)
           /\ DOMAIN events' = 1 .. Len(events) - 1
           /\ \A i \in DOMAIN events' : events'[i] = events[i + 1]
  <1>1. /\ events' \in Seq(S!Event)
        /\ Head(events) = events[1]
        /\ DOMAIN events = 1 .. Len(events)
        /\ Len(events) \in Nat \ {0}
    OBVIOUS
  <1>2. Len(events') = Len(events) - 1 /\ \A i \in 1 .. Len(events) - 1 : events'[i] = events[i + 1]
    BY <1>1
  <1> QED BY <1>1, <1>2

(* The invariant holds before anyone connects.                             *)
LEMMA SessionInitInv == S!Init => S!Inv
  BY DEF S!Init, S!Inv, S!TypeOK, S!DisconnectedIsLast, S!RegistryExact, S!AuthenticatedIsKnown,
         S!ShutdownReachesAll, S!Queued, S!Event

(* The inductive step, one case per action.                                *)
LEMMA SessionNextInv == S!Inv /\ [S!Next]_(S!vars) => S!Inv'
  <1> SUFFICES ASSUME S!Inv, [S!Next]_(S!vars) PROVE S!Inv'
    OBVIOUS
  <1> USE DEF S!Inv
  <1>1. ASSUME NEW c \in Clients, S!Register(c) PROVE S!Inv'
    BY <1>1 DEF S!Register, S!Become, S!TypeOK, S!DisconnectedIsLast, S!RegistryExact,
                S!AuthenticatedIsKnown, S!ShutdownReachesAll, S!Queued
  <1>2. ASSUME NEW c \in Clients, S!Refuse(c) PROVE S!Inv'
    BY <1>2 DEF S!Refuse, S!Become, S!TypeOK, S!DisconnectedIsLast, S!RegistryExact,
                S!AuthenticatedIsKnown, S!ShutdownReachesAll, S!Queued
  <1>3. ASSUME NEW c \in Clients, S!Close(c) PROVE S!Inv'
    BY <1>3 DEF S!Close, S!TypeOK, S!DisconnectedIsLast, S!RegistryExact,
                S!AuthenticatedIsKnown, S!ShutdownReachesAll, S!Queued
  <1>4. ASSUME NEW c \in Clients, S!Authenticate(c) PROVE S!Inv'
    <2>1. /\ events' \in Seq(S!Event)
          /\ Len(events) \in Nat
          /\ DOMAIN events = 1 .. Len(events)
          /\ DOMAIN events' = 1 .. Len(events) + 1
          /\ events'[Len(events) + 1] = S!Authenticated(c)
          /\ \A i \in DOMAIN events : events'[i] = events[i]
      BY <1>4, EmitFact DEF S!Authenticate, S!Authenticated, S!TypeOK
    <2>2. S!TypeOK'
      BY <1>4, <2>1 DEF S!Authenticate, S!TypeOK
    <2>3. c \in clients /\ ~S!Queued(S!Disconnected(c))
      BY <1>4 DEF S!Authenticate, S!RegistryExact
    <2>4. \A d \in Clients : S!Queued(S!Disconnected(d))' <=> S!Queued(S!Disconnected(d))
      BY <2>1 DEF S!Queued, S!Disconnected, S!Authenticated
    <2>5. \A d \in Clients : S!Queued(S!Authenticated(d))' => S!Queued(S!Authenticated(d)) \/ d = c
      BY <2>1 DEF S!Queued, S!Authenticated
    <2>6. S!DisconnectedIsLast'
      <3> SUFFICES ASSUME NEW i \in DOMAIN events', NEW j \in DOMAIN events', i < j,
                          events'[i].type = "ClientDisconnected"
                   PROVE  events'[j].id # events'[i].id
        BY DEF S!DisconnectedIsLast
      <3>1. i \in DOMAIN events /\ events'[i] = events[i]
        BY <2>1
      <3>2. CASE j \in DOMAIN events
        BY <2>1, <3>1, <3>2 DEF S!DisconnectedIsLast
      <3>3. CASE j = Len(events) + 1
        <4>1. events'[j].id = c
          BY <3>3, <2>1 DEF S!Authenticated
        <4>2. events[i] \in S!Event
          BY <3>1, <2>1 DEF S!TypeOK
        <4>3. events[i].id = c => events[i] = S!Disconnected(c)
          BY <4>2, <3>1 DEF S!Event, S!Disconnected
        <4> QED BY <4>1, <4>3, <3>1, <2>3 DEF S!Queued
      <3> QED BY <3>2, <3>3, <2>1
    <2> QED
      BY <1>4, <2>2, <2>3, <2>4, <2>5, <2>6
      DEF S!Authenticate, S!RegistryExact, S!AuthenticatedIsKnown, S!ShutdownReachesAll, S!TypeOK
  <1>5. ASSUME NEW c \in Clients, S!End(c) PROVE S!Inv'
    BY <1>5 DEF S!End, S!Become, S!TypeOK, S!DisconnectedIsLast, S!RegistryExact,
                S!AuthenticatedIsKnown, S!ShutdownReachesAll, S!Queued
  <1>6. ASSUME NEW c \in Clients, S!Report(c) PROVE S!Inv'
    <2>1. /\ events' \in Seq(S!Event)
          /\ Len(events) \in Nat
          /\ DOMAIN events = 1 .. Len(events)
          /\ DOMAIN events' = 1 .. Len(events) + 1
          /\ events'[Len(events) + 1] = S!Disconnected(c)
          /\ \A i \in DOMAIN events : events'[i] = events[i]
      BY <1>6, EmitFact DEF S!Report, S!Disconnected, S!TypeOK
    <2>2. S!TypeOK'
      BY <1>6, <2>1 DEF S!Report, S!Become, S!TypeOK
    <2>3. c \in clients /\ ~S!Queued(S!Disconnected(c))
      BY <1>6 DEF S!Report, S!RegistryExact
    <2>4. \A d \in Clients : S!Queued(S!Disconnected(d))' <=> S!Queued(S!Disconnected(d)) \/ d = c
      BY <2>1 DEF S!Queued, S!Disconnected
    <2>5. \A d \in Clients : S!Queued(S!Authenticated(d))' => S!Queued(S!Authenticated(d))
      BY <2>1 DEF S!Queued, S!Authenticated, S!Disconnected
    <2>6. S!DisconnectedIsLast'
      <3> SUFFICES ASSUME NEW i \in DOMAIN events', NEW j \in DOMAIN events', i < j,
                          events'[i].type = "ClientDisconnected"
                   PROVE  events'[j].id # events'[i].id
        BY DEF S!DisconnectedIsLast
      <3>1. i \in DOMAIN events /\ events'[i] = events[i]
        BY <2>1
      <3>2. CASE j \in DOMAIN events
        BY <2>1, <3>1, <3>2 DEF S!DisconnectedIsLast
      <3>3. CASE j = Len(events) + 1
        <4>1. events'[j].id = c
          BY <3>3, <2>1 DEF S!Disconnected
        <4>2. events[i] \in S!Event
          BY <3>1, <2>1 DEF S!TypeOK
        <4>3. events[i].id = c => events[i] = S!Disconnected(c)
          BY <4>2, <3>1 DEF S!Event, S!Disconnected
        <4> QED BY <4>1, <4>3, <3>1, <2>3 DEF S!Queued
      <3> QED BY <3>2, <3>3, <2>1
    <2> QED
      BY <1>6, <2>2, <2>3, <2>4, <2>5, <2>6
      DEF S!Report, S!Become, S!RegistryExact, S!AuthenticatedIsKnown, S!ShutdownReachesAll, S!TypeOK
  <1>7. ASSUME NEW c \in Clients, S!HandleEvent(c) PROVE S!Inv'
    <2>1. /\ events' \in Seq(S!Event)
          /\ Head(events) = events[1]
          /\ Len(events) \in Nat \ {0}
          /\ DOMAIN events = 1 .. Len(events)
          /\ DOMAIN events' = 1 .. Len(events) - 1
          /\ \A i \in DOMAIN events' : events'[i] = events[i + 1]
      BY <1>7, HandleFact DEF S!HandleEvent, S!TypeOK
    <2>2. S!TypeOK'
      BY <1>7, <2>1 DEF S!HandleEvent, S!TypeOK
    <2>3. S!DisconnectedIsLast'
      BY <2>1 DEF S!DisconnectedIsLast
    <2>4. \A e \in S!Event : S!Queued(e)' => S!Queued(e)
      BY <2>1 DEF S!Queued
    <2>5. \A e \in S!Event : S!Queued(e) => S!Queued(e)' \/ e = Head(events)
      <3> SUFFICES ASSUME NEW e \in S!Event, NEW i \in DOMAIN events, events[i] = e, i # 1
                   PROVE  S!Queued(e)'
        BY <2>1 DEF S!Queued
      <3>1. i - 1 \in DOMAIN events' /\ events'[i - 1] = events[i]
        BY <2>1
      <3> QED BY <3>1 DEF S!Queued
    <2>6. \A d \in Clients : S!Disconnected(d) \in S!Event /\ S!Authenticated(d) \in S!Event
      BY DEF S!Disconnected, S!Authenticated, S!Event
    <2>7. CASE Head(events).type = "ClientDisconnected"
      <3>a. \A e \in S!Event :
              e.type = "ClientDisconnected" /\ e.id = c => e = S!Disconnected(c)
        BY DEF S!Event, S!Disconnected
      <3>b. events[1] \in S!Event /\ events[1] = Head(events)
        BY <2>1 DEF S!TypeOK
      <3>c. Head(events).id = c /\ clients' = clients \ {c}
        BY <1>7, <2>7 DEF S!HandleEvent
      <3>1. clients' = clients \ {c} /\ Head(events) = S!Disconnected(c)
        BY <2>7, <3>a, <3>b, <3>c
      <3>2. \A i \in DOMAIN events' : events'[i].id # c
        BY <2>1, <3>1 DEF S!DisconnectedIsLast, S!Disconnected
      <3>3. ~S!Queued(S!Disconnected(c))' /\ ~S!Queued(S!Authenticated(c))'
        BY <3>2 DEF S!Queued, S!Disconnected, S!Authenticated
      <3>4. SessionMap[c] = "closed"
        BY <2>1, <3>1 DEF S!Queued
      <3>5. \A d \in Clients : d # c => S!Disconnected(d) # Head(events)
        BY <3>1 DEF S!Disconnected
      <3>6. S!RegistryExact'
        BY <1>7, <2>4, <2>5, <2>6, <3>1, <3>3, <3>4, <3>5 DEF S!HandleEvent, S!RegistryExact
      <3>7. S!AuthenticatedIsKnown'
        BY <1>7, <2>4, <2>6, <3>1, <3>3 DEF S!HandleEvent, S!AuthenticatedIsKnown
      <3> QED
        BY <1>7, <2>2, <2>3, <2>4, <2>6, <3>6, <3>7
        DEF S!HandleEvent, S!ShutdownReachesAll
    <2>8. CASE Head(events).type # "ClientDisconnected"
      <3>1. clients' = clients
        BY <1>7, <2>8 DEF S!HandleEvent
      <3>a. \A d \in Clients : S!Disconnected(d).type = "ClientDisconnected"
        BY DEF S!Disconnected
      <3>2. \A d \in Clients : S!Disconnected(d) # Head(events)
        BY <2>8, <3>a
      <3>3. S!RegistryExact'
        BY <1>7, <2>4, <2>5, <2>6, <3>1, <3>2 DEF S!HandleEvent, S!RegistryExact
      <3> QED
        BY <1>7, <2>2, <2>3, <2>4, <2>6, <3>1, <3>3
        DEF S!HandleEvent, S!AuthenticatedIsKnown, S!ShutdownReachesAll
    <2> QED BY <2>7, <2>8
  <1>8. ASSUME NEW c \in Clients, S!Halt(c) PROVE S!Inv'
    BY <1>8 DEF S!Halt, S!TypeOK, S!DisconnectedIsLast, S!RegistryExact,
                S!AuthenticatedIsKnown, S!ShutdownReachesAll, S!Queued
  <1>9. CASE S!Shutdown
    BY <1>9 DEF S!Shutdown, S!TypeOK, S!DisconnectedIsLast, S!RegistryExact,
                S!AuthenticatedIsKnown, S!ShutdownReachesAll, S!Queued
  <1>10. CASE S!ShutdownReturns
    BY <1>10 DEF S!ShutdownReturns, S!TypeOK, S!DisconnectedIsLast, S!RegistryExact,
                 S!AuthenticatedIsKnown, S!ShutdownReachesAll, S!Queued
  <1>11. CASE S!Exit
    BY <1>11 DEF S!Exit, S!TypeOK, S!DisconnectedIsLast, S!RegistryExact,
                 S!AuthenticatedIsKnown, S!ShutdownReachesAll, S!Queued
  <1>12. CASE UNCHANGED S!vars
    BY <1>12 DEF S!vars, S!TypeOK, S!DisconnectedIsLast, S!RegistryExact,
                 S!AuthenticatedIsKnown, S!ShutdownReachesAll, S!Queued
  <1> QED
    BY <1>1, <1>2, <1>3, <1>4, <1>5, <1>6, <1>7, <1>8, <1>9, <1>10, <1>11, <1>12 DEF S!Next

(* Whatever the clients do, the sessions keep the invariant: the order of  *)
(* the events, the contents of the map and the reach of a shutdown.        *)
THEOREM SessionsSafe == S!Spec => []S!Inv
  <1>1. S!Init => S!Inv
    BY SessionInitInv
  <1>2. S!Inv /\ [S!Next]_(S!vars) => S!Inv'
    BY SessionNextInv
  <1> QED BY <1>1, <1>2, PTL DEF S!Spec

(* The end of a client is its last event; the map holds exactly the        *)
(* clients that run or whose end is still to be handled; an authentication *)
(* is handled while its client is registered and known; and no open client *)
(* survives a shutdown.                                                    *)
THEOREM SessionSafety ==
    Spec => [](DisconnectedIsLast /\ RegistryExact /\ AuthenticatedIsKnown /\ ShutdownReachesAll)
  <1>2. S!Inv => DisconnectedIsLast /\ RegistryExact /\ AuthenticatedIsKnown /\ ShutdownReachesAll
    BY DEF S!Inv, DisconnectedIsLast, RegistryExact, AuthenticatedIsKnown, ShutdownReachesAll
  <1> QED BY <1>2, SessionsSafe, Implementation, PTL DEF ImplementsSessions

-----------------------------------------------------------------------------
(* No call of a waker is missed.  NoLostWakeup speaks of a task that       *)
(* sleeps.  While a poll runs, what it has already passed must stay done   *)
(* or the task be woken again: the tasks once they were polled, the tick   *)
(* once the ping component saw it.                                         *)
StaysPolled(r) ==
    \A k \in TaskKinds : r.tasks[k].fresh = 0 /\ r.tasks[k].done = 0

(* A task that is not scheduled can still be woken for what may come up.   *)
Armed(r) ==
    ~r.woken =>
      /\ r.taskWaker
      /\ \A k \in TaskKinds : r.tasks[k].late = 0
      /\ r.poll # "tasks" => StaysPolled(r)
      /\ r.poll \in {"io", "idle"} => ~r.pingDue
      /\ r.poll = "idle" => /\ r.readWait
                            /\ r.unsent => r.writeWait
                            /\ ~r.unsent => r.sendWaker

(* A sleeping task has received all there is.                              *)
Drained(r, s) ==
    ~r.woken /\ r.poll = "idle" => s.inbox = 0 /\ s.peer = "up"

Attentive ==
    \A c \in Clients :
        life[c] = "running" => Armed(client[c]) /\ Drained(client[c], socket[c])

(* The invariant says what the property asks for.                          *)
LEMMA AttentiveSuffices == TypeOK /\ Attentive => NoLostWakeup
  <1> SUFFICES ASSUME TypeOK, Attentive, NEW c \in Clients, Asleep(c)
               PROVE  /\ \A k \in TaskKinds : /\ client[c].tasks[k].fresh = 0
                                              /\ client[c].tasks[k].done = 0
                                              /\ client[c].tasks[k].late = 0
                      /\ socket[c].inbox = 0
                      /\ socket[c].peer = "up"
                      /\ ~client[c].pingDue
                      /\ client[c].unsent => client[c].writeWait
    BY DEF NoLostWakeup
  <1>1. Armed(client[c]) /\ Drained(client[c], socket[c])
    BY DEF Attentive, Asleep
  <1> QED BY <1>1 DEF Armed, Drained, StaysPolled, Asleep

-----------------------------------------------------------------------------
(* Methods: a client that could be woken still can, and a method neither   *)
(* unschedules the task nor moves its poll.                                *)

Keeps(r, q) ==
    /\ Armed(r) => Armed(q)
    /\ q.poll = r.poll
    /\ r.woken => q.woken

(* Methods may call one another.                                           *)
LEMMA KeepsTrans ==
    ASSUME NEW r, NEW q, NEW p, Keeps(r, q), Keeps(q, p) PROVE Keeps(r, p)
  BY DEF Keeps

(* Setting a field that plays no part in waking, or a tick delivered.      *)
LEMMA SetFieldKeeps ==
    ASSUME NEW r \in ClientRecord
    PROVE  /\ \A x \in BOOLEAN : Keeps(r, [r EXCEPT !.auth = x])
           /\ \A x \in BOOLEAN : Keeps(r, [r EXCEPT !.loginForm = x])
           /\ \A x \in BOOLEAN : Keeps(r, [r EXCEPT !.lobby = x])
           /\ \A x \in BOOLEAN : Keeps(r, [r EXCEPT !.dead = x])
           /\ \A x \in BOOLEAN : Keeps(r, [r EXCEPT !.pinged = x])
           /\ Keeps(r, [r EXCEPT !.pingDue = FALSE])
           /\ \A x \in {"Open", "Closing", "Closed"} : Keeps(r, [r EXCEPT !.state = x])
  BY DEF Keeps, Armed, StaysPolled, ClientRecord

(* self.waker.take() and wake().                                           *)
LEMMA WakeKeeps == \A r \in ClientRecord : Keeps(r, Wake(r))
  <1> SUFFICES ASSUME NEW r \in ClientRecord PROVE Keeps(r, Wake(r))
    OBVIOUS
  <1> DEFINE w == r.woken \/ r.waker
             q == [r EXCEPT !.woken = w, !.waker = FALSE]
  <1>1. Wake(r) = q
    BY DEF Wake
  <1>2. r.woken => w
    OBVIOUS
  <1> HIDE DEF w
  <1>3. /\ q.woken = w /\ q.taskWaker = r.taskWaker /\ q.tasks = r.tasks /\ q.poll = r.poll
        /\ q.pingDue = r.pingDue /\ q.readWait = r.readWait /\ q.unsent = r.unsent
        /\ q.writeWait = r.writeWait /\ q.sendWaker = r.sendWaker
    BY DEF ClientRecord
  <1> HIDE DEF q
  <1> QED BY <1>1, <1>2, <1>3 DEF Keeps, Armed, StaysPolled

(* Queueing a packet wakes the task if the buffer was empty while it slept.*)
LEMMA SendPacketKeeps == \A r \in ClientRecord : Keeps(r, SendPacket(r))
  <1> SUFFICES ASSUME NEW r \in ClientRecord PROVE Keeps(r, SendPacket(r))
    OBVIOUS
  <1> DEFINE w == r.woken \/ r.sendWaker
             q == [r EXCEPT !.unsent = TRUE, !.woken = w, !.sendWaker = FALSE]
  <1>1. SendPacket(r) = IF r.state = "Open" THEN q ELSE r
    BY DEF SendPacket
  <1>2. (r.woken => w) /\ (r.sendWaker => w)
    OBVIOUS
  <1> HIDE DEF w
  <1>3. /\ q.woken = w /\ q.taskWaker = r.taskWaker /\ q.tasks = r.tasks /\ q.poll = r.poll
        /\ q.pingDue = r.pingDue /\ q.readWait = r.readWait /\ q.unsent = TRUE
        /\ q.writeWait = r.writeWait
    BY DEF ClientRecord
  <1>4. r.unsent \in BOOLEAN
    BY DEF ClientRecord
  <1> HIDE DEF q
  <1>5. Keeps(r, q)
    BY <1>2, <1>3, <1>4 DEF Keeps, Armed, StaysPolled
  <1>6. Keeps(r, r)
    BY DEF Keeps
  <1> QED BY <1>1, <1>5, <1>6

(* A new task wakes the task list, which every poll arms again.            *)
LEMMA RunAsyncKeeps ==
    \A r \in ClientRecord, k \in TaskKinds : Keeps(r, RunAsync(r, k))
  <1> SUFFICES ASSUME NEW r \in ClientRecord, NEW k \in TaskKinds
               PROVE  Keeps(r, RunAsync(r, k))
    OBVIOUS
  <1> DEFINE t == [r.tasks EXCEPT ![k].fresh = @ + 1]
             w == r.woken \/ r.taskWaker
             q == [r EXCEPT !.tasks = t, !.woken = w, !.taskWaker = FALSE]
  <1>1. RunAsync(r, k) = q
    BY DEF RunAsync
  <1>2. (r.woken => w) /\ (r.taskWaker => w)
    OBVIOUS
  <1> HIDE DEF w, t
  <1>3. q.woken = w /\ q.poll = r.poll
    BY DEF ClientRecord
  <1> HIDE DEF q
  <1> QED BY <1>1, <1>2, <1>3 DEF Keeps, Armed

(* Client::disconnect and do_connection_close.                             *)
LEMMA DisconnectKeeps ==
    \A r \in ClientRecord : Keeps(r, Disconnect(r)) /\ Keeps(r, DoConnectionClose(r))
  <1> SUFFICES ASSUME NEW r \in ClientRecord
               PROVE  Keeps(r, Disconnect(r)) /\ Keeps(r, DoConnectionClose(r))
    OBVIOUS
  <1> DEFINE w == Wake(r)
  <1>1. w \in ClientRecord /\ Keeps(r, w)
    BY WakeTame, WakeKeeps DEF Tame
  <1>2. Disconnect(r) = IF r.state = "Open" THEN [w EXCEPT !.state = "Closing"] ELSE r
    BY DEF Disconnect
  <1> HIDE DEF w
  <1>3. Keeps(w, [w EXCEPT !.state = "Closing"])
    BY <1>1, SetFieldKeeps
  <1>4. Keeps(r, [w EXCEPT !.state = "Closing"]) /\ Keeps(r, r)
    BY <1>1, <1>3, KeepsTrans DEF Keeps
  <1>5. Keeps(r, DoConnectionClose(r))
    BY SetFieldKeeps DEF DoConnectionClose
  <1> QED BY <1>2, <1>4, <1>5

(* handle_handle_error and handle_protocol_error.                          *)
LEMMA ErrorKeeps ==
    \A r \in ClientRecord :
        /\ Keeps(r, HandleHandleError(r))
        /\ \A closed \in BOOLEAN : Keeps(r, HandleProtocolError(r, closed))
  <1> SUFFICES ASSUME NEW r \in ClientRecord
               PROVE  /\ Keeps(r, Disconnect(SendPacket(r)))
                      /\ Keeps(r, DoConnectionClose(r))
    BY DEF HandleHandleError, HandleProtocolError
  <1>1. SendPacket(r) \in ClientRecord /\ Keeps(r, SendPacket(r))
    BY SendPacketTame, SendPacketKeeps DEF Tame
  <1>2. Keeps(SendPacket(r), Disconnect(SendPacket(r)))
    BY <1>1, DisconnectKeeps
  <1>3. Keeps(r, Disconnect(SendPacket(r)))
    BY <1>1, <1>2, KeepsTrans
  <1> QED BY <1>3, DisconnectKeeps

(* The callbacks and handlers that change what the player sees.            *)
LEMMA ShowKeeps ==
    \A r \in ClientRecord :
        Keeps(r, ShowLogin(r)) /\ Keeps(r, ShowLobby(r)) /\ Keeps(r, EnterLobby(r))
  <1> SUFFICES ASSUME NEW r \in ClientRecord
               PROVE  Keeps(r, ShowLogin(r)) /\ Keeps(r, ShowLobby(r)) /\ Keeps(r, EnterLobby(r))
    OBVIOUS
  <1>0. "query" \in TaskKinds /\ "lobby" \in TaskKinds
    BY DEF TaskKinds
  <1> DEFINE s == SendPacket(r)
             a == RunAsync(s, "query")
             p == RegisterComponent(a)
             q == RegisterComponent(s)
  <1>1. s \in ClientRecord /\ Keeps(r, s)
    BY SendPacketTame, SendPacketKeeps DEF Tame
  <1>2. a \in ClientRecord /\ Keeps(r, a)
    BY <1>0, <1>1, RunAsyncTame, RunAsyncKeeps, KeepsTrans DEF Tame
  <1>3. p \in ClientRecord /\ Keeps(r, p)
    BY <1>2, WakeTame, WakeKeeps, KeepsTrans DEF Tame, RegisterComponent
  <1>4. q \in ClientRecord /\ Keeps(r, q)
    BY <1>1, WakeTame, WakeKeeps, KeepsTrans DEF Tame, RegisterComponent
  <1>5. Keeps(r, RunAsync(p, "lobby"))
    BY <1>0, <1>3, RunAsyncKeeps, KeepsTrans
  <1>6. /\ ShowLogin(r) = [p EXCEPT !.loginForm = TRUE]
        /\ ShowLobby(r) = [q EXCEPT !.lobby = TRUE]
        /\ EnterLobby(r) = RunAsync(p, "lobby")
    BY DEF ShowLogin, ShowLobby, EnterLobby
  <1> HIDE DEF p, q
  <1>7. Keeps(p, [p EXCEPT !.loginForm = TRUE]) /\ Keeps(q, [q EXCEPT !.lobby = TRUE])
    BY <1>3, <1>4, SetFieldKeeps
  <1>8. Keeps(r, ShowLogin(r)) /\ Keeps(r, ShowLobby(r))
    BY <1>3, <1>4, <1>6, <1>7, KeepsTrans
  <1> QED BY <1>5, <1>6, <1>8

(* Client::handle_packet, by what the handlers do.                         *)
LEMMA HandlePacketKeeps ==
    \A r \in ClientRecord, k \in {"pong", "request", "query", "login", "reject"} :
        Keeps(r, HandlePacket(r, k))
  <1> SUFFICES ASSUME NEW r \in ClientRecord,
                      NEW k \in {"pong", "request", "query", "login", "reject"}
               PROVE  Keeps(r, HandlePacket(r, k))
    OBVIOUS
  <1>1. Keeps(r, r) /\ Keeps(r, [r EXCEPT !.pinged = FALSE])
    BY SetFieldKeeps DEF Keeps
  <1>2. k \in {"query", "login"} => k \in TaskKinds
    BY DEF TaskKinds
  <1> QED BY <1>1, <1>2, SendPacketKeeps, ErrorKeeps, RunAsyncKeeps DEF HandlePacket

(* ConnectionPing::poll delivers the tick that was due.                    *)
LEMMA PollPingKeeps ==
    \A r \in ClientRecord : Keeps(r, PollPing(r)) /\ ~PollPing(r).pingDue
  <1> SUFFICES ASSUME NEW r \in ClientRecord PROVE Keeps(r, PollPing(r)) /\ ~PollPing(r).pingDue
    OBVIOUS
  <1> DEFINE t == [r EXCEPT !.pingDue = FALSE]
             s == SendPacket(t)
  <1>1. t \in ClientRecord /\ Keeps(r, t) /\ ~t.pingDue
    BY SetFieldKeeps DEF ClientRecord
  <1> HIDE DEF t
  <1>2. s \in ClientRecord /\ Keeps(r, s)
    BY <1>1, SendPacketTame, SendPacketKeeps, KeepsTrans DEF Tame
  <1>3. s.pingDue = t.pingDue
    <2> DEFINE w == t.woken \/ t.sendWaker
               o == [t EXCEPT !.unsent = TRUE, !.woken = w, !.sendWaker = FALSE]
    <2>1. s = IF t.state = "Open" THEN o ELSE t
      BY DEF SendPacket
    <2> HIDE DEF w
    <2>2. o.pingDue = t.pingDue
      BY <1>1 DEF ClientRecord
    <2> HIDE DEF o, s
    <2> QED BY <2>1, <2>2
  <1>4. PollPing(r) = IF r.pingDue /\ ~r.pinged THEN [s EXCEPT !.pinged = TRUE] ELSE t
    BY DEF PollPing, t
  <1> HIDE DEF s
  <1>5. Keeps(s, [s EXCEPT !.pinged = TRUE]) /\ [s EXCEPT !.pinged = TRUE].pingDue = s.pingDue
    BY <1>2, SetFieldKeeps DEF ClientRecord
  <1>6. Keeps(r, [s EXCEPT !.pinged = TRUE])
    BY <1>2, <1>5, KeepsTrans
  <1> QED BY <1>1, <1>3, <1>4, <1>5, <1>6

-----------------------------------------------------------------------------
(* Steps.  Each changes one client at most.                                *)

Others(c) == \A d \in Clients \ {c} : socket'[d] = socket[d] /\ life'[d] = life[d]

(* It is enough to look at the client that changed.                        *)
LEMMA OneClient ==
    ASSUME TypeOK, Attentive, NEW c \in Clients, NEW q, SetClient(c, q), Others(c),
           life'[c] = "running" => Armed(q) /\ Drained(q, socket'[c])
    PROVE  Attentive'
  <1>1. client'[c] = q /\ \A d \in Clients \ {c} : client'[d] = client[d]
    BY DEF SetClient, TypeOK, ClientTypeOK
  <1> SUFFICES ASSUME NEW d \in Clients, life'[d] = "running"
               PROVE  Armed(client'[d]) /\ Drained(client'[d], socket'[d])
    BY DEF Attentive, Armed, Drained, StaysPolled
  <1>2. CASE d = c
    BY <1>1, <1>2
  <1>3. CASE d # c
    BY <1>1, <1>3 DEF Others, Attentive
  <1> QED BY <1>2, <1>3

(* A step that calls methods on a client and touches nothing else.         *)
LEMMA KeptClient ==
    ASSUME TypeOK, Attentive, NEW c \in Clients, NEW q, Keeps(client[c], q), SetClient(c, q),
           UNCHANGED <<socket, life>>
    PROVE  Attentive'
  <1>1. life[c] = "running" => Armed(client[c]) /\ Drained(client[c], socket[c])
    BY DEF Attentive
  <1>2. life[c] = "running" => Armed(q) /\ Drained(q, socket[c])
    BY <1>1 DEF Keeps, Drained
  <1> QED BY <1>2, OneClient DEF Others

(* Taking the result of a task out of the list leaves the others alone.    *)
LEMMA CollectedKeeps ==
    ASSUME TypeOK, NEW c \in Clients, NEW k \in TaskKinds, CanCollect(c, k)
    PROVE  Keeps(client[c], Collected(c, k)) /\ Collected(c, k) \in ClientRecord
  <1> DEFINE r == client[c]
             t == [r.tasks EXCEPT ![k].done = @ - 1]
             q == [r EXCEPT !.tasks = t]
  <1>1. r \in ClientRecord /\ r.tasks \in [TaskKinds -> TaskCount] /\ r.poll = "tasks"
    BY DEF TypeOK, ClientTypeOK, ClientRecord, CanCollect, Polling
  <1>2. Collected(c, k) = q
    BY DEF Collected
  <1>3. \A j \in TaskKinds : t[j].late = r.tasks[j].late
    BY <1>1 DEF TaskCount, Stages
  <1> HIDE DEF t
  <1>4. q.woken = r.woken /\ q.poll = r.poll /\ q.tasks = t /\ q.taskWaker = r.taskWaker
    BY <1>1 DEF ClientRecord
  <1> HIDE DEF q
  <1>5. Keeps(r, q)
    BY <1>1, <1>3, <1>4 DEF Keeps, Armed
  <1> QED BY <1>2, <1>5, CollectedTame DEF TypeOK

(* The socket took what it could: either the buffer is empty or the socket *)
(* will wake the task.                                                     *)
LEMMA FlushedKeeps ==
    ASSUME TypeOK, NEW c \in Clients, NEW f \in Flushed(c)
    PROVE  /\ f \in ClientRecord
           /\ Keeps(client[c], f)
           /\ (f.unsent => f.writeWait) /\ f.sendWaker
  <1> DEFINE r == client[c]
  <1>1. r \in ClientRecord
    BY DEF TypeOK, ClientTypeOK
  <1>2. f = FlushedAll(r) \/ f = FlushedPart(r)
    BY DEF Flushed
  <1>3. CASE f = FlushedAll(r)
    BY <1>1, <1>3 DEF FlushedAll, ClientRecord, Keeps, Armed, StaysPolled
  <1>4. CASE f = FlushedPart(r)
    BY <1>1, <1>4 DEF FlushedPart, ClientRecord, Keeps, Armed, StaysPolled
  <1> QED BY <1>2, <1>3, <1>4

(* The steps of a poll up to the loop that receives packets.               *)
LEMMA TurnAttentive ==
    ASSUME TypeOK, Attentive, NEW c \in Clients,
           \/ BeginPoll(c)
           \/ CollectConnect(c) \/ CollectLobby(c) \/ CollectQuery(c)
           \/ CollectLogin(c) \/ CollectLoginFailure(c)
           \/ EndTasks(c)
           \/ PollComponents(c) \/ PollClosed(c)
    PROVE  Attentive'
  <1> DEFINE r == client[c]
  <1>1. r \in ClientRecord /\ r.tasks \in [TaskKinds -> TaskCount]
    BY DEF TypeOK, ClientTypeOK, ClientRecord
  <1>2. life[c] = "running" => Armed(r) /\ Drained(r, socket[c])
    BY DEF Attentive
  <1>3. \A k \in TaskKinds : CanCollect(c, k)
          => Collected(c, k) \in ClientRecord /\ Keeps(r, Collected(c, k))
    BY CollectedKeeps
  <1>4. "connect" \in TaskKinds /\ "lobby" \in TaskKinds /\ "query" \in TaskKinds /\ "login" \in TaskKinds
    BY DEF TaskKinds
  <1>5. CASE BeginPoll(c)
    <2> DEFINE t == Due(r.tasks)
               q == [r EXCEPT !.tasks = t, !.poll = "tasks", !.woken = FALSE,
                              !.waker = TRUE, !.taskWaker = TRUE]
    <2>1. SetClient(c, q)
      BY <1>5 DEF BeginPoll
    <2>2. \A k \in TaskKinds : t[k].late = 0
      BY <1>1 DEF Due, TaskCount, Stages
    <2> HIDE DEF t
    <2>3. q.woken = FALSE /\ q.poll = "tasks" /\ q.tasks = t /\ q.taskWaker = TRUE
      BY <1>1 DEF ClientRecord
    <2> HIDE DEF q
    <2>4. Armed(q) /\ Drained(q, socket'[c])
      BY <2>2, <2>3 DEF Armed, Drained
    <2> QED BY <1>5, <2>1, <2>4, OneClient DEF BeginPoll, Others
  <1>6. CASE CollectConnect(c)
    <2>1. Keeps(r, ShowLogin(Collected(c, "connect")))
      BY <1>3, <1>4, <1>6, ShowKeeps, KeepsTrans DEF CollectConnect
    <2> QED BY <1>6, <2>1, KeptClient DEF CollectConnect
  <1>7. CASE CollectLobby(c)
    <2>1. Keeps(r, ShowLobby(Collected(c, "lobby")))
      BY <1>3, <1>4, <1>7, ShowKeeps, KeepsTrans DEF CollectLobby
    <2> QED BY <1>7, <2>1, KeptClient DEF CollectLobby
  <1>8. CASE CollectQuery(c)
    <2>1. Keeps(r, Collected(c, "query"))
      BY <1>3, <1>4, <1>8 DEF CollectQuery
    <2>2. Keeps(r, SendPacket(Collected(c, "query")))
      BY <1>3, <1>4, <1>8, <2>1, SendPacketKeeps, KeepsTrans DEF CollectQuery
    <2> QED BY <1>8, <2>1, <2>2, KeptClient DEF CollectQuery
  <1>9. CASE CollectLogin(c)
    <2> DEFINE p == Collected(c, "login")
               s == SendPacket(p)
               a == [s EXCEPT !.auth = TRUE]
    <2>1. PICK q \in {a, RunAsync(a, "query")} : SetClient(c, q)
      BY <1>9 DEF CollectLogin
    <2>2. p \in ClientRecord /\ Keeps(r, p)
      BY <1>3, <1>4, <1>9 DEF CollectLogin
    <2> HIDE DEF p
    <2>3. s \in ClientRecord /\ Keeps(r, s)
      BY <2>2, SendPacketTame, SendPacketKeeps, KeepsTrans DEF Tame
    <2> HIDE DEF s
    <2>4. a \in ClientRecord /\ Keeps(s, a)
      BY <2>3, SetFieldKeeps DEF ClientRecord
    <2> HIDE DEF a
    <2>5. Keeps(r, a) /\ Keeps(r, RunAsync(a, "query"))
      BY <1>4, <2>3, <2>4, RunAsyncKeeps, KeepsTrans
    <2> QED BY <1>9, <2>1, <2>5, KeptClient DEF CollectLogin
  <1>10. CASE CollectLoginFailure(c)
    <2>1. Keeps(r, SendPacket(Collected(c, "login")))
      BY <1>3, <1>4, <1>10, SendPacketKeeps, KeepsTrans DEF CollectLoginFailure
    <2> QED BY <1>10, <2>1, KeptClient DEF CollectLoginFailure
  <1>11. CASE EndTasks(c)
    <2> DEFINE t == Suspended(r.tasks)
               q == [r EXCEPT !.tasks = t, !.poll = "components"]
    <2>1. SetClient(c, q) /\ life[c] = "running" /\ \A k \in TaskKinds : r.tasks[k].done = 0
      BY <1>11 DEF EndTasks, Polling
    <2>2. \A k \in TaskKinds :
            t[k].fresh = 0 /\ t[k].done = r.tasks[k].done /\ t[k].late = r.tasks[k].late
      BY <1>1 DEF Suspended, TaskCount, Stages
    <2> HIDE DEF t
    <2>3. q.woken = r.woken /\ q.poll = "components" /\ q.tasks = t /\ q.taskWaker = r.taskWaker
      BY <1>1 DEF ClientRecord
    <2> HIDE DEF q
    <2>4. Armed(q) /\ Drained(q, socket'[c])
      BY <1>2, <2>1, <2>2, <2>3 DEF Armed, Drained, StaysPolled
    <2> QED BY <1>11, <2>1, <2>4, OneClient DEF EndTasks, Others
  <1>12. CASE PollComponents(c)
    <2> DEFINE p == PollPing(r)
               s == SendPacket(p)
    <2>1. p \in ClientRecord /\ Keeps(r, p) /\ ~p.pingDue
      BY <1>1, PollPingTame, PollPingKeeps DEF Tame
    <2>2. SetClient(c, [p EXCEPT !.poll = "io"]) \/ SetClient(c, [s EXCEPT !.poll = "io"])
      BY <1>12 DEF PollComponents
    <2>3. life[c] = "running" /\ r.poll = "components"
      BY <1>12 DEF PollComponents, Polling
    <2> HIDE DEF p
    <2>4. s \in ClientRecord /\ Keeps(r, s) /\ ~s.pingDue
      <3> DEFINE w == p.woken \/ p.sendWaker
                 o == [p EXCEPT !.unsent = TRUE, !.woken = w, !.sendWaker = FALSE]
      <3>1. s = IF p.state = "Open" THEN o ELSE p
        BY DEF SendPacket
      <3>2. s \in ClientRecord /\ Keeps(r, s)
        BY <2>1, SendPacketTame, SendPacketKeeps, KeepsTrans DEF Tame
      <3> HIDE DEF w
      <3>3. o.pingDue = p.pingDue
        BY <2>1 DEF ClientRecord
      <3> HIDE DEF o, s
      <3> QED BY <2>1, <3>1, <3>2, <3>3
    <2> HIDE DEF s
    <2>5. ASSUME NEW x \in ClientRecord, Keeps(r, x), ~x.pingDue, SetClient(c, [x EXCEPT !.poll = "io"])
          PROVE  Attentive'
      <3> DEFINE q == [x EXCEPT !.poll = "io"]
      <3>1. /\ q.woken = x.woken /\ q.taskWaker = x.taskWaker /\ q.tasks = x.tasks
            /\ q.poll = "io" /\ q.pingDue = x.pingDue
        BY DEF ClientRecord
      <3>2. Armed(x) /\ x.poll = "components"
        BY <1>2, <2>3, <2>5 DEF Keeps
      <3>3. SetClient(c, q)
        BY <2>5
      <3> HIDE DEF q
      <3>4. Armed(q) /\ Drained(q, socket'[c])
        BY <2>5, <3>1, <3>2 DEF Armed, Drained, StaysPolled
      <3> QED BY <1>12, <3>3, <3>4, OneClient DEF PollComponents, Others
    <2> QED BY <2>1, <2>2, <2>4, <2>5
  <1>13. CASE PollClosed(c)
    <2>1. life'[c] # "running" /\ \A d \in Clients \ {c} : life'[d] = life[d]
      BY <1>13 DEF PollClosed, TypeOK, ClientTypeOK
    <2> QED BY <1>13, <2>1, OneClient DEF PollClosed, Others
  <1> QED
    BY <1>5, <1>6, <1>7, <1>8, <1>9, <1>10, <1>11, <1>12, <1>13

(* The loop that receives packets, and the end of the task.                *)
LEMMA IoAttentive ==
    ASSUME TypeOK, Attentive, NEW c \in Clients,
           \/ ReceivePacket(c) \/ ReceiveGarbage(c) \/ ReceiveError(c)
           \/ ReceiveNone(c) \/ ReceivePending(c)
           \/ ReportDisconnected(c)
    PROVE  Attentive'
  <1> DEFINE r == client[c]
  <1>1. r \in ClientRecord /\ client \in [Clients -> ClientRecord] /\ life \in [Clients -> Lives]
        /\ socket \in [Clients -> SocketRecord]
    BY DEF TypeOK, ClientTypeOK
  <1>2. life[c] = "running" => Armed(r) /\ Drained(r, socket[c])
    BY DEF Attentive
  <1>3. ASSUME NEW q, Keeps(r, q), SetClient(c, q), IoStep(c), UNCHANGED life,
               \A d \in Clients \ {c} : socket'[d] = socket[d]
        PROVE  Attentive'
    <2>1. life[c] = "running" /\ r.poll = "io"
      BY <1>3 DEF IoStep, Polling
    <2>2. Armed(q) /\ Drained(q, socket'[c])
      BY <1>2, <1>3, <2>1 DEF Keeps, Drained
    <2> QED BY <1>3, <2>2, OneClient DEF Others
  <1>4. \A f \in Flushed(c) : f \in ClientRecord /\ Keeps(r, f)
    BY FlushedKeeps
  <1>5. \A f \in Flushed(c) :
          [f EXCEPT !.dead = TRUE] \in ClientRecord /\ Keeps(r, [f EXCEPT !.dead = TRUE])
    <2> SUFFICES ASSUME NEW f \in Flushed(c)
                 PROVE  [f EXCEPT !.dead = TRUE] \in ClientRecord /\ Keeps(r, [f EXCEPT !.dead = TRUE])
      OBVIOUS
    <2>1. Keeps(f, [f EXCEPT !.dead = TRUE]) /\ [f EXCEPT !.dead = TRUE] \in ClientRecord
      BY <1>4, SetFieldKeeps, SetFieldTame DEF Tame
    <2> QED BY <1>4, <2>1, KeepsTrans
  <1>6. CASE ReceivePacket(c)
    <2>1. PICK f \in Flushed(c), k \in PacketKinds \ {"garbage"} : SetClient(c, HandlePacket(f, k))
      BY <1>6 DEF ReceivePacket
    <2>2. k \in {"pong", "request", "query", "login", "reject"}
      BY ClientAssumption
    <2>3. Keeps(r, HandlePacket(f, k))
      BY <1>4, <2>2, HandlePacketKeeps, KeepsTrans
    <2>4. /\ IoStep(c) /\ UNCHANGED life
          /\ \A d \in Clients \ {c} : socket'[d] = socket[d]
      BY <1>1, <1>6 DEF ReceivePacket
    <2> QED BY <1>3, <2>1, <2>3, <2>4
  <1>7. CASE ReceiveGarbage(c)
    <2>1. PICK f \in Flushed(c) : SetClient(c, HandleProtocolError([f EXCEPT !.dead = TRUE], FALSE))
      BY <1>7 DEF ReceiveGarbage
    <2> DEFINE g == [f EXCEPT !.dead = TRUE]
    <2>2. g \in ClientRecord /\ Keeps(r, g)
      BY <1>5
    <2> HIDE DEF g
    <2>3. Keeps(r, HandleProtocolError(g, FALSE))
      BY <2>2, ErrorKeeps, KeepsTrans
    <2>4. /\ IoStep(c) /\ UNCHANGED life
          /\ \A d \in Clients \ {c} : socket'[d] = socket[d]
      BY <1>1, <1>7 DEF ReceiveGarbage
    <2> QED BY <1>3, <2>1, <2>3, <2>4 DEF g
  <1>8. CASE ReceiveError(c)
    <2>1. PICK f \in Flushed(c) : SetClient(c, HandleProtocolError([f EXCEPT !.dead = TRUE], TRUE))
      BY <1>8 DEF ReceiveError
    <2> DEFINE g == [f EXCEPT !.dead = TRUE]
    <2>2. g \in ClientRecord /\ Keeps(r, g)
      BY <1>5
    <2> HIDE DEF g
    <2>3. Keeps(r, HandleProtocolError(g, TRUE))
      BY <2>2, ErrorKeeps, KeepsTrans
    <2>4. /\ IoStep(c) /\ UNCHANGED life
          /\ \A d \in Clients \ {c} : socket'[d] = socket[d]
      BY <1>8 DEF ReceiveError
    <2> QED BY <1>3, <2>1, <2>3, <2>4 DEF g
  <1>9. CASE ReceiveNone(c)
    <2>1. /\ SetClient(c, [DoConnectionClose(r) EXCEPT !.poll = "idle"])
          /\ life'[c] # "running" /\ Others(c)
      BY <1>1, <1>9 DEF ReceiveNone, Others
    <2> QED BY <2>1, OneClient
  <1>10. CASE ReportDisconnected(c)
    <2>1. SetClient(c, r) /\ life'[c] # "running" /\ Others(c)
      BY <1>1, <1>10 DEF ReportDisconnected, Others, SetClient
    <2> QED BY <2>1, OneClient
  <1>11. CASE ReceivePending(c)
    <2>1. PICK f \in Flushed(c) :
            SetClient(c, AfterLoop([f EXCEPT !.readWait = TRUE, !.poll = "idle"]))
      BY <1>11 DEF ReceivePending
    <2> DEFINE g == [f EXCEPT !.readWait = TRUE, !.poll = "idle"]
    <2>2. /\ life[c] = "running" /\ r.poll = "io" /\ socket[c].inbox = 0 /\ socket[c].peer = "up"
          /\ UNCHANGED <<socket, life>>
      BY <1>11 DEF ReceivePending, IoStep, Polling
    <2>3. /\ f \in ClientRecord /\ Keeps(r, f)
          /\ (f.unsent => f.writeWait) /\ f.sendWaker
      BY FlushedKeeps
    <2>4. Armed(f) /\ f.poll = "io"
      BY <1>2, <2>2, <2>3 DEF Keeps
    <2>5. /\ g.woken = f.woken /\ g.taskWaker = f.taskWaker /\ g.tasks = f.tasks
          /\ g.poll = "idle" /\ g.pingDue = f.pingDue /\ g.readWait /\ g.unsent = f.unsent
          /\ g.writeWait = f.writeWait /\ g.sendWaker = f.sendWaker
      BY <2>3 DEF ClientRecord
    <2>6. g \in ClientRecord
      BY <2>3 DEF ClientRecord
    <2> HIDE DEF g
    <2>7. Armed(g)
      BY <2>3, <2>4, <2>5 DEF Armed, StaysPolled
    <2>8. Keeps(g, AfterLoop(g))
      BY <2>6, DisconnectKeeps DEF AfterLoop, Keeps
    <2>9. Armed(AfterLoop(g)) /\ Drained(AfterLoop(g), socket'[c])
      BY <2>2, <2>7, <2>8 DEF Keeps, Drained
    <2> QED BY <2>1, <2>2, <2>9, OneClient DEF g, Others
  <1> QED BY <1>6, <1>7, <1>8, <1>9, <1>10, <1>11

(* What happens around a client wakes it when it sleeps.                   *)
LEMMA ReadyKeeps ==
    \A r \in ClientRecord :
        /\ Keeps(r, Readable(r)) /\ Keeps(r, Writable(r))
        /\ Armed(r) /\ r.poll = "idle" => Readable(r).woken
  <1> SUFFICES ASSUME NEW r \in ClientRecord
               PROVE  /\ Keeps(r, Readable(r)) /\ Keeps(r, Writable(r))
                      /\ Armed(r) /\ r.poll = "idle" => Readable(r).woken
    OBVIOUS
  <1> DEFINE v == r.woken \/ r.readWait
             w == r.woken \/ r.writeWait
             p == [r EXCEPT !.woken = v, !.readWait = FALSE]
             q == [r EXCEPT !.woken = w, !.writeWait = FALSE]
  <1>1. Readable(r) = p /\ Writable(r) = q
    BY DEF Readable, Writable
  <1>2. (r.woken => v /\ w) /\ (r.readWait => v) /\ (r.writeWait => w)
    OBVIOUS
  <1> HIDE DEF v, w
  <1>3. /\ p.woken = v /\ p.taskWaker = r.taskWaker /\ p.tasks = r.tasks /\ p.poll = r.poll
        /\ p.pingDue = r.pingDue /\ p.unsent = r.unsent
        /\ p.writeWait = r.writeWait /\ p.sendWaker = r.sendWaker
    BY DEF ClientRecord
  <1>4. /\ q.woken = w /\ q.taskWaker = r.taskWaker /\ q.tasks = r.tasks /\ q.poll = r.poll
        /\ q.pingDue = r.pingDue /\ q.unsent = r.unsent
        /\ q.readWait = r.readWait /\ q.sendWaker = r.sendWaker
    BY DEF ClientRecord
  <1> HIDE DEF p, q
  <1>5. Armed(r) /\ r.poll = "idle" => v
    BY <1>2 DEF Armed
  <1>6. Keeps(r, p)
    BY <1>2, <1>3, <1>5 DEF Keeps, Armed, StaysPolled
  <1>7. Keeps(r, q)
    BY <1>2, <1>4 DEF Keeps, Armed, StaysPolled
  <1> QED BY <1>1, <1>3, <1>5, <1>6, <1>7

(* The peer, the timer and the tasks of a client.                          *)
LEMMA AroundAttentive ==
    ASSUME TypeOK, Attentive, NEW c \in Clients, Around(c)
    PROVE  Attentive'
  <1> DEFINE r == client[c]
  <1>1. /\ r \in ClientRecord /\ r.tasks \in [TaskKinds -> TaskCount]
        /\ socket \in [Clients -> SocketRecord]
    BY DEF TypeOK, ClientTypeOK, ClientRecord
  <1>2. life[c] = "running" => Armed(r) /\ Drained(r, socket[c])
    BY DEF Attentive
  <1>3. ASSUME NEW q, Keeps(r, q), Armed(r) /\ r.poll = "idle" => q.woken,
               SetClient(c, q), Others(c), UNCHANGED life
        PROVE  Attentive'
    <2>1. life'[c] = "running" => Armed(q) /\ Drained(q, socket'[c])
      BY <1>2, <1>3 DEF Keeps, Drained
    <2> QED BY <1>3, <2>1, OneClient
  <1>4. CASE PeerSends(c)
    <2>1. Others(c) /\ UNCHANGED life /\ SetClient(c, Readable(r))
      BY <1>1, <1>4 DEF PeerSends, Others
    <2> QED BY <1>1, <1>3, <2>1, ReadyKeeps
  <1>5. CASE PeerCloses(c)
    <2>1. Others(c) /\ UNCHANGED life /\ SetClient(c, Readable(r))
      BY <1>1, <1>5 DEF PeerCloses, Others
    <2> QED BY <1>1, <1>3, <2>1, ReadyKeeps
  <1>6. CASE PeerResets(c)
    <2> DEFINE w == Writable(r)
    <2>1. Others(c) /\ UNCHANGED life /\ SetClient(c, Readable(w))
      BY <1>1, <1>6 DEF PeerResets, Others
    <2>2. w \in ClientRecord /\ Keeps(r, w)
      BY <1>1, ReadyTame, ReadyKeeps DEF Tame
    <2> HIDE DEF w
    <2>3. Keeps(r, Readable(w)) /\ (Armed(r) /\ r.poll = "idle" => Readable(w).woken)
      BY <2>2, ReadyKeeps, KeepsTrans DEF Keeps
    <2> QED BY <1>3, <2>1, <2>3
  <1>7. CASE PeerReads(c)
    BY <1>1, <1>7, ReadyKeeps, KeptClient DEF PeerReads
  <1>8. CASE PingTick(c)
    <2> DEFINE q == [r EXCEPT !.pingDue = TRUE, !.woken = TRUE]
    <2>1. q.woken = TRUE
      BY <1>1 DEF ClientRecord
    <2>2. SetClient(c, q) /\ Others(c)
      BY <1>8 DEF PingTick, Others
    <2> HIDE DEF q
    <2> QED BY <2>1, <2>2, OneClient DEF Armed, Drained
  <1>9. ASSUME NEW k \in TaskKinds, TaskReady(c, k) PROVE Attentive'
    <2>1. life[c] = "running" /\ Others(c)
      BY <1>9 DEF TaskReady, Others
    <2>2. ASSUME NEW t, SetClient(c, [r EXCEPT !.tasks = t, !.woken = TRUE]) PROVE Attentive'
      <3> DEFINE q == [r EXCEPT !.tasks = t, !.woken = TRUE]
      <3>1. q.woken = TRUE /\ SetClient(c, q)
        BY <1>1, <2>2 DEF ClientRecord
      <3> HIDE DEF q
      <3> QED BY <2>1, <3>1, OneClient DEF Armed, Drained
    <2>3. ASSUME r.tasks[k]["fresh"] > 0,
                 SetClient(c, [r EXCEPT !.tasks = Move(r.tasks, k, "fresh", "done"), !.woken = r.woken])
          PROVE  Attentive'
      <3> DEFINE t == Move(r.tasks, k, "fresh", "done")
                 q == [r EXCEPT !.tasks = t, !.woken = r.woken]
      <3>1. \A j \in TaskKinds : t[j].late = r.tasks[j].late
        BY <1>1 DEF Move, TaskCount, Stages
      <3>2. SetClient(c, q)
        BY <2>3
      <3> HIDE DEF t
      <3>3. q.woken = r.woken /\ q.poll = r.poll /\ q.tasks = t /\ q.taskWaker = r.taskWaker
        BY <1>1 DEF ClientRecord
      <3> HIDE DEF q
      <3>4. ~r.woken => r.poll = "tasks"
        BY <1>1, <1>2, <2>1, <2>3 DEF Armed, StaysPolled
      <3>5. Armed(q) /\ Drained(q, socket'[c])
        BY <1>2, <2>1, <3>1, <3>3, <3>4 DEF Armed, Drained
      <3> QED BY <2>1, <3>2, <3>5, OneClient
    <2>4. \/ /\ r.tasks[k]["fresh"] > 0
             /\ SetClient(c, [r EXCEPT !.tasks = Move(r.tasks, k, "fresh", "done"), !.woken = r.woken])
          \/ SetClient(c, [r EXCEPT !.tasks = Move(r.tasks, k, "waiting", "done"), !.woken = TRUE])
          \/ SetClient(c, [r EXCEPT !.tasks = Move(r.tasks, k, "waiting", "late"), !.woken = TRUE])
      BY <1>9 DEF TaskReady
    <2> QED BY <2>2, <2>3, <2>4
  <1> QED BY <1>4, <1>5, <1>6, <1>7, <1>8, <1>9 DEF Around

(* A client is registered scheduled; before, nobody asks whether it sleeps.*)
LEMMA ConnectionAttentive ==
    ASSUME TypeOK, Attentive, NEW c \in Clients, ConnectionStep(c)
    PROVE  Attentive'
  <1> DEFINE r == client[c]
  <1>1. r \in ClientRecord /\ client \in [Clients -> ClientRecord] /\ life \in [Clients -> Lives]
    BY DEF TypeOK, ClientTypeOK
  <1>2. ASSUME NEW q, SetClient(c, q), UNCHANGED socket,
               NEW l \in {"setup", "built", "late", "gone"}, life' = [life EXCEPT ![c] = l]
        PROVE  Attentive'
    <2>1. life'[c] # "running" /\ Others(c)
      BY <1>1, <1>2 DEF Others
    <2> QED BY <1>2, <2>1, OneClient
  <1>3. UNCHANGED client => SetClient(c, r)
    BY <1>1 DEF SetClient
  <1>4. CASE Accept(c)
    BY <1>2, <1>3, <1>4 DEF Accept
  <1>5. CASE SetupSucceeds(c)
    BY <1>2, <1>5 DEF SetupSucceeds
  <1>6. CASE SetupFails(c)
    BY <1>2, <1>3, <1>6 DEF SetupFails
  <1>7. CASE RegisterClient(c)
    <2> DEFINE a == RunAsync(SendPacket(r), "connect")
               q == [a EXCEPT !.woken = TRUE]
    <2>1. SetClient(c, q) /\ Others(c)
      BY <1>1, <1>7 DEF RegisterClient, Others
    <2>2. a \in ClientRecord
      BY <1>1, SendPacketTame, RunAsyncTame DEF Tame, TaskKinds
    <2> HIDE DEF a
    <2>3. q.woken = TRUE
      BY <2>2 DEF ClientRecord
    <2> HIDE DEF q
    <2> QED BY <2>1, <2>3, OneClient DEF Armed, Drained
  <1>8. CASE RegisterLate(c)
    BY <1>2, <1>8 DEF RegisterLate
  <1>9. CASE DropLate(c)
    BY <1>2, <1>9 DEF DropLate
  <1> QED BY <1>4, <1>5, <1>6, <1>7, <1>8, <1>9 DEF ConnectionStep

(* The event task and the shutdown call methods of a client they locked.   *)
LEMMA ServerAttentive ==
    ASSUME TypeOK, Attentive, ServerStep
    PROVE  Attentive'
  <1>1. client \in [Clients -> ClientRecord]
    BY DEF TypeOK, ClientTypeOK
  <1>2. UNCHANGED <<client, socket, life>> => Attentive'
    BY DEF Attentive, Armed, Drained, StaysPolled
  <1>3. ASSUME NEW c \in Clients, HandleClientAuthenticated(c) PROVE Attentive'
    <2>1. \/ UNCHANGED client
          \/ SetClient(c, EnterLobby(client[c]))
          \/ SetClient(c, SendPacket(client[c]))
      BY <1>3 DEF HandleClientAuthenticated
    <2>2. UNCHANGED <<socket, life>>
      BY <1>3 DEF HandleClientAuthenticated
    <2> QED BY <1>1, <1>2, <2>1, <2>2, KeptClient, ShowKeeps, SendPacketKeeps
  <1>4. ASSUME NEW c \in Clients, HandleClientDisconnected(c) PROVE Attentive'
    BY <1>2, <1>4 DEF HandleClientDisconnected
  <1>5. ASSUME NEW c \in Clients, HaltClient(c) PROVE Attentive'
    <2> DEFINE s == SendPacket(client[c])
    <2>1. SetClient(c, Disconnect(s)) /\ UNCHANGED <<socket, life>>
      BY <1>5 DEF HaltClient
    <2>2. s \in ClientRecord /\ Keeps(client[c], s)
      BY <1>1, SendPacketTame, SendPacketKeeps DEF Tame
    <2> HIDE DEF s
    <2>3. Keeps(client[c], Disconnect(s))
      BY <2>2, DisconnectKeeps, KeepsTrans
    <2> QED BY <2>1, <2>3, KeptClient
  <1>6. CASE Shutdown \/ ShutdownReturns \/ Exit
    BY <1>2, <1>6 DEF Shutdown, ShutdownReturns, Exit, clientVars
  <1> QED BY <1>3, <1>4, <1>5, <1>6 DEF ServerStep

(* No step leaves a client's task asleep with work to do.                  *)
LEMMA NextAttentive == TypeOK /\ Attentive /\ [Next]_vars => Attentive'
  <1> SUFFICES ASSUME TypeOK, Attentive, [Next]_vars PROVE Attentive'
    OBVIOUS
  <1>1. CASE ServerStep
    BY <1>1, ServerAttentive
  <1>2. ASSUME NEW c \in Clients, ConnectionStep(c) PROVE Attentive'
    BY <1>2, ConnectionAttentive
  <1>3. ASSUME NEW c \in Clients, ClientStep(c) PROVE Attentive'
    BY <1>3, TurnAttentive, IoAttentive, AroundAttentive DEF ClientStep, PollStep
  <1>4. CASE UNCHANGED vars
    BY <1>4 DEF vars, clientVars, Attentive, Armed, Drained, StaysPolled
  <1> QED BY <1>1, <1>2, <1>3, <1>4 DEF Next, Exited

(* A task that is not scheduled has nothing to do, whatever the peers, the *)
(* database, the timer, the event task and the shutdown do in between: the *)
(* wakers of Client, Tasks, Connection and the socket miss no call.        *)
THEOREM Wakeful == Spec => []NoLostWakeup
  <1>1. Init => Attentive
    BY DEF Init, ClientInit, Attentive
  <1>2. TypeOK /\ Attentive /\ [Next]_vars => Attentive'
    BY NextAttentive
  <1>3. TypeOK /\ Attentive => NoLostWakeup
    BY AttentiveSuffices
  <1> QED BY <1>1, <1>2, <1>3, TypeCorrect, PTL DEF Spec

-----------------------------------------------------------------------------
(* A closing client sends what it has.  Only do_connection_close closes;   *)
(* every other method leaves a client that is not closed unclosed.         *)

Unclosed(r, q) == q.state = "Closed" => r.state = "Closed"

(* What ClosingFlushes says of a step.                                     *)
StepFlushes ==
    \A c \in Clients :
        client[c].state = "Closing" /\ client'[c].state = "Closed"
          => ~client'[c].unsent \/ client'[c].dead

(* Methods may call one another.                                           *)
LEMMA UnclosedTrans ==
    ASSUME NEW r, NEW q, NEW p, Unclosed(r, q), Unclosed(q, p) PROVE Unclosed(r, p)
  BY DEF Unclosed

(* wake, send_packet, run_async, disconnect: none of them closes.          *)
LEMMA MethodUnclosed ==
    ASSUME NEW r \in ClientRecord
    PROVE  /\ Unclosed(r, Wake(r))
           /\ Unclosed(r, SendPacket(r))
           /\ \A k \in TaskKinds : Unclosed(r, RunAsync(r, k))
           /\ Unclosed(r, Disconnect(r))
  <1>1. Unclosed(r, Wake(r))
    <2> DEFINE w == r.woken \/ r.waker
    <2>1. Wake(r) = [r EXCEPT !.woken = w, !.waker = FALSE]
      BY DEF Wake
    <2> HIDE DEF w
    <2> QED BY <2>1 DEF Unclosed, ClientRecord
  <1>2. Unclosed(r, SendPacket(r))
    BY SendPacketState DEF Unclosed
  <1>3. ASSUME NEW k \in TaskKinds PROVE Unclosed(r, RunAsync(r, k))
    <2> DEFINE t == [r.tasks EXCEPT ![k].fresh = @ + 1]
               w == r.woken \/ r.taskWaker
    <2>1. RunAsync(r, k) = [r EXCEPT !.tasks = t, !.woken = w, !.taskWaker = FALSE]
      BY DEF RunAsync
    <2> HIDE DEF t, w
    <2> QED BY <2>1 DEF Unclosed, ClientRecord
  <1>4. Unclosed(r, Disconnect(r))
    <2> DEFINE w == Wake(r)
    <2>1. w \in ClientRecord
      BY WakeTame DEF Tame
    <2>2. Disconnect(r) = IF r.state = "Open" THEN [w EXCEPT !.state = "Closing"] ELSE r
      BY DEF Disconnect
    <2> HIDE DEF w
    <2>3. [w EXCEPT !.state = "Closing"].state = "Closing"
      BY <2>1 DEF ClientRecord
    <2> QED BY <2>2, <2>3 DEF Unclosed
  <1> QED BY <1>1, <1>2, <1>3, <1>4

(* Nor do the handlers of packets and errors, and the callbacks.           *)
LEMMA HandlerUnclosed ==
    ASSUME NEW r \in ClientRecord
    PROVE  /\ Unclosed(r, HandleHandleError(r))
           /\ Unclosed(r, HandleProtocolError(r, FALSE))
           /\ Unclosed(r, ShowLogin(r))
           /\ Unclosed(r, ShowLobby(r))
           /\ Unclosed(r, EnterLobby(r))
           /\ Unclosed(r, PollPing(r))
           /\ \A k \in {"pong", "request", "query", "login", "reject"} :
                Unclosed(r, HandlePacket(r, k))
  <1>0. "query" \in TaskKinds /\ "lobby" \in TaskKinds /\ "login" \in TaskKinds
    BY DEF TaskKinds
  <1> DEFINE s == SendPacket(r)
             a == RunAsync(s, "query")
             p == RegisterComponent(a)
             q == RegisterComponent(s)
  <1>1. s \in ClientRecord /\ Unclosed(r, s)
    BY SendPacketTame, MethodUnclosed DEF Tame
  <1>2. a \in ClientRecord /\ Unclosed(r, a)
    BY <1>0, <1>1, RunAsyncTame, MethodUnclosed, UnclosedTrans DEF Tame
  <1>3. p \in ClientRecord /\ Unclosed(r, p)
    BY <1>2, WakeTame, MethodUnclosed, UnclosedTrans DEF Tame, RegisterComponent
  <1>4. q \in ClientRecord /\ Unclosed(r, q)
    BY <1>1, WakeTame, MethodUnclosed, UnclosedTrans DEF Tame, RegisterComponent
  <1>5. Unclosed(r, Disconnect(s))
    BY <1>1, MethodUnclosed, UnclosedTrans
  <1>6. Unclosed(r, HandleHandleError(r)) /\ Unclosed(r, HandleProtocolError(r, FALSE))
    BY <1>5 DEF HandleHandleError, HandleProtocolError
  <1>7. /\ ShowLogin(r) = [p EXCEPT !.loginForm = TRUE]
        /\ ShowLobby(r) = [q EXCEPT !.lobby = TRUE]
        /\ EnterLobby(r) = RunAsync(p, "lobby")
    BY DEF ShowLogin, ShowLobby, EnterLobby
  <1> HIDE DEF p, q, a, s
  <1>8. Unclosed(p, [p EXCEPT !.loginForm = TRUE]) /\ Unclosed(q, [q EXCEPT !.lobby = TRUE])
    BY <1>3, <1>4 DEF Unclosed, ClientRecord
  <1>9. Unclosed(r, ShowLogin(r)) /\ Unclosed(r, ShowLobby(r))
    BY <1>3, <1>4, <1>7, <1>8, UnclosedTrans
  <1>10. Unclosed(r, EnterLobby(r))
    BY <1>0, <1>3, <1>7, MethodUnclosed, UnclosedTrans
  <1>11. Unclosed(r, PollPing(r))
    <2> DEFINE t == [r EXCEPT !.pingDue = FALSE]
               m == SendPacket(t)
    <2>1. t \in ClientRecord /\ Unclosed(r, t)
      BY DEF Unclosed, ClientRecord
    <2>2. m \in ClientRecord /\ Unclosed(r, m)
      BY <2>1, SendPacketTame, MethodUnclosed, UnclosedTrans DEF Tame
    <2>3. PollPing(r) = IF r.pingDue /\ ~r.pinged THEN [m EXCEPT !.pinged = TRUE] ELSE t
      BY DEF PollPing
    <2> HIDE DEF t, m
    <2>4. Unclosed(m, [m EXCEPT !.pinged = TRUE])
      BY <2>2 DEF Unclosed, ClientRecord
    <2>5. Unclosed(r, [m EXCEPT !.pinged = TRUE])
      BY <2>2, <2>4, UnclosedTrans
    <2> QED BY <2>1, <2>3, <2>5
  <1>12. Unclosed(r, [r EXCEPT !.pinged = FALSE]) /\ Unclosed(r, r)
    BY DEF Unclosed, ClientRecord
  <1> QED BY <1>0, <1>1, <1>6, <1>8, <1>9, <1>10, <1>11, <1>12, MethodUnclosed DEF HandlePacket, s

(* poll_outgoing and the socket's wakers.                                  *)
LEMMA SocketUnclosed ==
    ASSUME NEW r \in ClientRecord
    PROVE  /\ Unclosed(r, Readable(r)) /\ Unclosed(r, Writable(r))
           /\ Unclosed(r, FlushedAll(r)) /\ Unclosed(r, FlushedPart(r))
  <1> DEFINE v == r.woken \/ r.readWait
             w == r.woken \/ r.writeWait
  <1>1. /\ Readable(r) = [r EXCEPT !.woken = v, !.readWait = FALSE]
        /\ Writable(r) = [r EXCEPT !.woken = w, !.writeWait = FALSE]
    BY DEF Readable, Writable
  <1> HIDE DEF v, w
  <1>2. Unclosed(r, Readable(r)) /\ Unclosed(r, Writable(r))
    BY <1>1 DEF Unclosed, ClientRecord
  <1>3. Unclosed(r, FlushedAll(r)) /\ Unclosed(r, FlushedPart(r))
    BY DEF Unclosed, ClientRecord, FlushedAll, FlushedPart
  <1> QED BY <1>2, <1>3

(* A step that changes one client flushes it if it leaves it unclosed, or  *)
(* closes it with an empty buffer or a dead connection.                    *)
LEMMA OneFlushes ==
    ASSUME client \in [Clients -> ClientRecord], NEW c \in Clients, NEW q, SetClient(c, q),
           Unclosed(client[c], q) \/ ~q.unsent \/ q.dead
    PROVE  StepFlushes
  <1>1. \A d \in Clients : client'[d] = IF d = c THEN q ELSE client[d]
    BY DEF SetClient
  <1> QED BY <1>1 DEF StepFlushes, Unclosed

(* The first half of a poll closes nothing.                                *)
LEMMA TurnFlushes ==
    ASSUME TypeOK, NEW c \in Clients,
           \/ BeginPoll(c) \/ CollectConnect(c) \/ CollectLobby(c) \/ CollectQuery(c)
           \/ CollectLogin(c) \/ CollectLoginFailure(c) \/ EndTasks(c)
           \/ PollComponents(c) \/ PollClosed(c)
    PROVE  StepFlushes
  <1> DEFINE r == client[c]
  <1>1. r \in ClientRecord /\ client \in [Clients -> ClientRecord] /\ ClientTypeOK
    BY DEF TypeOK, ClientTypeOK
  <1>2. ASSUME NEW q, SetClient(c, q), Unclosed(r, q) PROVE StepFlushes
    BY <1>1, <1>2, OneFlushes
  <1>3. ASSUME NEW k \in TaskKinds, CanCollect(c, k)
        PROVE  /\ Collected(c, k) \in ClientRecord
               /\ Unclosed(r, Collected(c, k))
               /\ SendPacket(Collected(c, k)) \in ClientRecord
               /\ Unclosed(r, SendPacket(Collected(c, k)))
    <2>1. Collected(c, k) \in ClientRecord
      BY <1>1, <1>3, CollectedTame
    <2>2. Unclosed(r, Collected(c, k))
      BY <1>1, CollectedState DEF Unclosed
    <2>3. Unclosed(Collected(c, k), SendPacket(Collected(c, k)))
      BY <2>1, MethodUnclosed
    <2> QED BY <2>1, <2>2, <2>3, SendPacketTame, UnclosedTrans DEF Tame
  <1>4. TaskKinds = {"connect", "login", "lobby", "query"}
    BY DEF TaskKinds
  <1>5. CASE BeginPoll(c)
    <2> DEFINE t == Due(r.tasks)
               q == [r EXCEPT !.tasks = t, !.poll = "tasks", !.woken = FALSE,
                              !.waker = TRUE, !.taskWaker = TRUE]
    <2>1. SetClient(c, q)
      BY <1>5 DEF BeginPoll
    <2> HIDE DEF t
    <2>2. Unclosed(r, q)
      BY <1>1 DEF Unclosed, ClientRecord
    <2> QED BY <1>2, <2>1, <2>2
  <1>6. CASE CollectConnect(c)
    <2>1. Unclosed(r, ShowLogin(Collected(c, "connect")))
      BY <1>3, <1>4, <1>6, HandlerUnclosed, UnclosedTrans DEF CollectConnect
    <2> QED BY <1>2, <1>6, <2>1 DEF CollectConnect
  <1>7. CASE CollectLobby(c)
    <2>1. Unclosed(r, ShowLobby(Collected(c, "lobby")))
      BY <1>3, <1>4, <1>7, HandlerUnclosed, UnclosedTrans DEF CollectLobby
    <2> QED BY <1>2, <1>7, <2>1 DEF CollectLobby
  <1>8. CASE CollectQuery(c)
    BY <1>2, <1>3, <1>4, <1>8 DEF CollectQuery
  <1>9. CASE CollectLoginFailure(c)
    BY <1>2, <1>3, <1>4, <1>9 DEF CollectLoginFailure
  <1>10. CASE CollectLogin(c)
    <2> DEFINE s == SendPacket(Collected(c, "login"))
               a == [s EXCEPT !.auth = TRUE]
    <2>1. s \in ClientRecord /\ Unclosed(r, s)
      BY <1>3, <1>4, <1>10 DEF CollectLogin
    <2>2. SetClient(c, a) \/ SetClient(c, RunAsync(a, "query"))
      BY <1>10 DEF CollectLogin
    <2> HIDE DEF s
    <2>3. a \in ClientRecord /\ Unclosed(r, a)
      BY <2>1 DEF Unclosed, ClientRecord
    <2> HIDE DEF a
    <2>4. Unclosed(r, RunAsync(a, "query"))
      BY <1>4, <2>3, MethodUnclosed, UnclosedTrans
    <2> QED BY <1>2, <2>2, <2>3, <2>4
  <1>11. CASE EndTasks(c)
    <2> DEFINE t == Suspended(r.tasks)
    <2>1. SetClient(c, [r EXCEPT !.tasks = t, !.poll = "components"])
      BY <1>11 DEF EndTasks
    <2> HIDE DEF t
    <2>2. Unclosed(r, [r EXCEPT !.tasks = t, !.poll = "components"])
      BY <1>1 DEF Unclosed, ClientRecord
    <2> QED BY <1>2, <2>1, <2>2
  <1>12. CASE PollComponents(c)
    <2> DEFINE p == PollPing(r)
    <2>1. p \in ClientRecord /\ Unclosed(r, p)
      BY <1>1, PollPingTame, HandlerUnclosed DEF Tame
    <2>2. SendPacket(p) \in ClientRecord /\ Unclosed(r, SendPacket(p))
      BY <2>1, SendPacketTame, MethodUnclosed, UnclosedTrans DEF Tame
    <2>3. SetClient(c, [p EXCEPT !.poll = "io"]) \/ SetClient(c, [SendPacket(p) EXCEPT !.poll = "io"])
      BY <1>12 DEF PollComponents
    <2> HIDE DEF p
    <2>4. Unclosed(r, [p EXCEPT !.poll = "io"]) /\ Unclosed(r, [SendPacket(p) EXCEPT !.poll = "io"])
      BY <2>1, <2>2 DEF Unclosed, ClientRecord
    <2> QED BY <1>2, <2>3, <2>4
  <1>13. CASE PollClosed(c)
    <2>1. r.state = "Closed" /\ SetClient(c, [PollPing(r) EXCEPT !.poll = "idle"])
      BY <1>13 DEF PollClosed
    <2> QED BY <1>2, <2>1 DEF Unclosed
  <1> QED BY <1>5, <1>6, <1>7, <1>8, <1>9, <1>10, <1>11, <1>12, <1>13

(* The loop over the connection closes on an error, at the end of the      *)
(* stream, or when everything is written.                                  *)
LEMMA IoFlushes ==
    ASSUME TypeOK, NEW c \in Clients,
           \/ ReceivePacket(c) \/ ReceiveGarbage(c) \/ ReceiveError(c)
           \/ ReceiveNone(c) \/ ReceivePending(c) \/ ReportDisconnected(c)
    PROVE  StepFlushes
  <1> DEFINE r == client[c]
  <1>1. r \in ClientRecord /\ client \in [Clients -> ClientRecord]
    BY DEF TypeOK, ClientTypeOK
  <1>2. ASSUME NEW q, SetClient(c, q), Unclosed(r, q) \/ ~q.unsent \/ q.dead
        PROVE  StepFlushes
    BY <1>1, <1>2, OneFlushes
  <1>3. ASSUME NEW f \in Flushed(c)
        PROVE  /\ f \in ClientRecord /\ Unclosed(r, f)
               /\ [f EXCEPT !.dead = TRUE] \in ClientRecord
               /\ Unclosed(r, [f EXCEPT !.dead = TRUE])
    <2>1. f \in ClientRecord
      BY <1>1, FlushedTame DEF Tame
    <2>2. f = FlushedAll(r) \/ f = FlushedPart(r)
      BY DEF Flushed
    <2>3. Unclosed(r, f)
      BY <1>1, <2>2, SocketUnclosed
    <2>4. [f EXCEPT !.dead = TRUE] \in ClientRecord /\ Unclosed(f, [f EXCEPT !.dead = TRUE])
      BY <2>1 DEF Unclosed, ClientRecord
    <2> QED BY <2>1, <2>3, <2>4, UnclosedTrans
  <1>4. CASE ReceivePacket(c)
    <2>1. PICK f \in Flushed(c), k \in PacketKinds \ {"garbage"} : SetClient(c, HandlePacket(f, k))
      BY <1>4 DEF ReceivePacket
    <2>2. k \in {"pong", "request", "query", "login", "reject"}
      BY ClientAssumption
    <2>3. Unclosed(r, HandlePacket(f, k))
      BY <1>3, <2>2, HandlerUnclosed, UnclosedTrans
    <2> QED BY <1>2, <2>1, <2>3
  <1>5. CASE ReceiveGarbage(c)
    <2>1. PICK f \in Flushed(c) : SetClient(c, HandleProtocolError([f EXCEPT !.dead = TRUE], FALSE))
      BY <1>5 DEF ReceiveGarbage
    <2>2. Unclosed(r, HandleProtocolError([f EXCEPT !.dead = TRUE], FALSE))
      BY <1>3, HandlerUnclosed, UnclosedTrans
    <2> QED BY <1>2, <2>1, <2>2
  <1>6. CASE ReceiveError(c)
    <2>1. PICK f \in Flushed(c) : SetClient(c, HandleProtocolError([f EXCEPT !.dead = TRUE], TRUE))
      BY <1>6 DEF ReceiveError
    <2> DEFINE d == [f EXCEPT !.dead = TRUE]
    <2>2. d \in ClientRecord /\ d.dead = TRUE
      BY <1>3 DEF ClientRecord
    <2>3. SetClient(c, [d EXCEPT !.state = "Closed"])
      BY <2>1 DEF HandleProtocolError, DoConnectionClose
    <2> HIDE DEF d
    <2>4. [d EXCEPT !.state = "Closed"].dead = TRUE
      BY <2>2 DEF ClientRecord
    <2> QED BY <1>2, <2>3, <2>4
  <1>7. CASE ReceiveNone(c)
    <2>1. r.dead /\ SetClient(c, [[r EXCEPT !.state = "Closed"] EXCEPT !.poll = "idle"])
      BY <1>7 DEF ReceiveNone, DoConnectionClose
    <2> DEFINE d == [r EXCEPT !.state = "Closed"]
    <2>2. d \in ClientRecord /\ d.dead
      BY <1>1, <2>1 DEF ClientRecord
    <2> HIDE DEF d
    <2>3. [d EXCEPT !.poll = "idle"].dead
      BY <2>2 DEF ClientRecord
    <2> QED BY <1>2, <2>1, <2>3 DEF d
  <1>8. CASE ReceivePending(c)
    <2>1. PICK f \in Flushed(c) :
            SetClient(c, AfterLoop([f EXCEPT !.readWait = TRUE, !.poll = "idle"]))
      BY <1>8, Zenon DEF ReceivePending
    <2> DEFINE d == [f EXCEPT !.readWait = TRUE, !.poll = "idle"]
    <2>2. f \in ClientRecord /\ Unclosed(r, f)
      BY <1>3
    <2>3. d \in ClientRecord /\ d.state = f.state
      BY <2>2 DEF ClientRecord
    <2> HIDE DEF d
    <2>4. CASE d.state = "Closing" /\ ~d.unsent
      <3>1. AfterLoop(d) = [d EXCEPT !.state = "Closed"]
        BY <2>4 DEF AfterLoop, DoConnectionClose
      <3>2. ~[d EXCEPT !.state = "Closed"].unsent
        BY <2>3, <2>4 DEF ClientRecord
      <3> QED BY <1>2, <2>1, <3>1, <3>2 DEF d
    <2>5. CASE ~(d.state = "Closing" /\ ~d.unsent)
      <3>1. AfterLoop(d) = d
        BY <2>5 DEF AfterLoop
      <3>2. Unclosed(r, d)
        BY <2>2, <2>3 DEF Unclosed
      <3> QED BY <1>2, <2>1, <3>1, <3>2 DEF d
    <2> QED BY <2>4, <2>5
  <1>9. CASE ReportDisconnected(c)
    BY <1>9 DEF ReportDisconnected, StepFlushes
  <1> QED BY <1>4, <1>5, <1>6, <1>7, <1>8, <1>9

(* Nothing around a client closes it.                                      *)
LEMMA AroundFlushes ==
    ASSUME TypeOK, NEW c \in Clients, Around(c)
    PROVE  StepFlushes
  <1> DEFINE r == client[c]
  <1>1. r \in ClientRecord /\ client \in [Clients -> ClientRecord]
    BY DEF TypeOK, ClientTypeOK
  <1>2. ASSUME NEW q, SetClient(c, q), Unclosed(r, q) PROVE StepFlushes
    BY <1>1, <1>2, OneFlushes
  <1>3. CASE PeerSends(c) \/ PeerCloses(c) \/ PeerReads(c)
    BY <1>1, <1>2, <1>3, SocketUnclosed DEF PeerSends, PeerCloses, PeerReads
  <1>4. CASE PeerResets(c)
    <2>1. SetClient(c, Readable(Writable(r)))
      BY <1>4 DEF PeerResets
    <2>2. Writable(r) \in ClientRecord /\ Unclosed(r, Writable(r))
      BY <1>1, ReadyTame, SocketUnclosed DEF Tame
    <2>3. Unclosed(r, Readable(Writable(r)))
      BY <2>2, SocketUnclosed, UnclosedTrans
    <2> QED BY <1>2, <2>1, <2>3
  <1>5. CASE PingTick(c)
    <2>1. SetClient(c, [r EXCEPT !.pingDue = TRUE, !.woken = TRUE])
      BY <1>5 DEF PingTick
    <2>2. Unclosed(r, [r EXCEPT !.pingDue = TRUE, !.woken = TRUE])
      BY <1>1 DEF Unclosed, ClientRecord
    <2> QED BY <1>2, <2>1, <2>2
  <1>6. ASSUME NEW k \in TaskKinds, TaskReady(c, k) PROVE StepFlushes
    <2>1. ASSUME NEW from, NEW to, NEW w,
                 SetClient(c, [r EXCEPT !.tasks = Move(r.tasks, k, from, to), !.woken = w])
          PROVE  StepFlushes
      <3> DEFINE t == Move(r.tasks, k, from, to)
                 q == [r EXCEPT !.tasks = t, !.woken = w]
      <3>1. SetClient(c, q)
        BY <2>1
      <3> HIDE DEF t
      <3>2. Unclosed(r, q)
        BY <1>1 DEF Unclosed, ClientRecord
      <3> HIDE DEF q
      <3> QED BY <1>2, <3>1, <3>2
    <2>2. CASE SetClient(c, [r EXCEPT !.tasks = Move(r.tasks, k, "fresh", "done"), !.woken = r.woken])
      BY <2>1, <2>2, Zenon
    <2>3. CASE SetClient(c, [r EXCEPT !.tasks = Move(r.tasks, k, "waiting", "done"), !.woken = TRUE])
      BY <2>1, <2>3, Zenon
    <2>4. CASE SetClient(c, [r EXCEPT !.tasks = Move(r.tasks, k, "waiting", "late"), !.woken = TRUE])
      BY <2>1, <2>4, Zenon
    <2> QED BY <1>6, <2>2, <2>3, <2>4 DEF TaskReady
  <1> QED BY <1>3, <1>4, <1>5, <1>6 DEF Around

(* Nor does its registration, an event, or the shutdown.                   *)
LEMMA ServerFlushes ==
    ASSUME TypeOK, ServerStep \/ \E c \in Clients : ConnectionStep(c)
    PROVE  StepFlushes
  <1>1. client \in [Clients -> ClientRecord]
    BY DEF TypeOK, ClientTypeOK
  <1>2. UNCHANGED client => StepFlushes
    BY DEF StepFlushes
  <1>3. ASSUME NEW c \in Clients, NEW q, SetClient(c, q), Unclosed(client[c], q)
        PROVE  StepFlushes
    BY <1>1, <1>3, OneFlushes
  <1>4. ASSUME NEW c \in Clients, NEW f \in Flushed(c) PROVE Unclosed(client[c], f)
    <2>1. f = FlushedAll(client[c]) \/ f = FlushedPart(client[c])
      BY DEF Flushed
    <2> QED BY <1>1, <2>1, SocketUnclosed
  <1>5. ASSUME NEW c \in Clients
        PROVE  Unclosed(client[c], Disconnect(SendPacket(client[c])))
    <2>1. SendPacket(client[c]) \in ClientRecord /\ Unclosed(client[c], SendPacket(client[c]))
      BY <1>1, SendPacketTame, MethodUnclosed DEF Tame
    <2> QED BY <2>1, MethodUnclosed, UnclosedTrans
  <1>6. ASSUME NEW c \in Clients, Accept(c) \/ SetupFails(c) PROVE StepFlushes
    BY <1>2, <1>6 DEF Accept, SetupFails
  <1>7. ASSUME NEW c \in Clients, SetupSucceeds(c) PROVE StepFlushes
    BY <1>3, <1>4, <1>7 DEF SetupSucceeds
  <1>8. ASSUME NEW c \in Clients, DropLate(c) PROVE StepFlushes
    <2>1. SetClient(c, client[c]) \/ \E f \in Flushed(c) : SetClient(c, f)
      BY <1>8 DEF DropLate
    <2>2. Unclosed(client[c], client[c])
      BY DEF Unclosed
    <2> QED BY <1>3, <1>4, <2>1, <2>2
  <1>9. ASSUME NEW c \in Clients, RegisterClient(c) PROVE StepFlushes
    <2> DEFINE s == SendPacket(client[c])
               a == RunAsync(s, "connect")
    <2>1. SetClient(c, [a EXCEPT !.woken = TRUE])
      BY <1>9 DEF RegisterClient
    <2>2. s \in ClientRecord /\ Unclosed(client[c], s)
      BY <1>1, SendPacketTame, MethodUnclosed DEF Tame
    <2>3. a \in ClientRecord /\ Unclosed(client[c], a)
      BY <2>2, RunAsyncTame, MethodUnclosed, UnclosedTrans DEF Tame, TaskKinds
    <2> HIDE DEF a
    <2>4. Unclosed(client[c], [a EXCEPT !.woken = TRUE])
      BY <2>3 DEF Unclosed, ClientRecord
    <2> QED BY <1>3, <2>1, <2>4
  <1>10. ASSUME NEW c \in Clients, RegisterLate(c) \/ HaltClient(c) PROVE StepFlushes
    BY <1>3, <1>5, <1>10 DEF RegisterLate, HaltClient
  <1>11. ASSUME NEW c \in Clients, HandleClientAuthenticated(c) PROVE StepFlushes
    <2>1. \/ UNCHANGED client
          \/ SetClient(c, EnterLobby(client[c]))
          \/ SetClient(c, SendPacket(client[c]))
      BY <1>11 DEF HandleClientAuthenticated
    <2> QED BY <1>1, <1>2, <1>3, <2>1, HandlerUnclosed, MethodUnclosed
  <1>12. ASSUME NEW c \in Clients, HandleClientDisconnected(c) PROVE StepFlushes
    BY <1>2, <1>12 DEF HandleClientDisconnected
  <1>13. CASE Shutdown \/ ShutdownReturns \/ Exit
    BY <1>2, <1>13 DEF Shutdown, ShutdownReturns, Exit, clientVars
  <1> QED BY <1>6, <1>7, <1>8, <1>9, <1>10, <1>11, <1>12, <1>13 DEF ServerStep, ConnectionStep

(* A client that is closing, for an error of its own or for the shutdown,  *)
(* is closed with nothing unsent unless its connection has failed.         *)
THEOREM Flushing == Spec => ClosingFlushes
  <1>1. TypeOK /\ [Next]_vars => [StepFlushes]_vars
    <2> SUFFICES ASSUME TypeOK, Next PROVE StepFlushes
      OBVIOUS
    <2>1. ASSUME NEW c \in Clients, ClientStep(c) PROVE StepFlushes
      BY <2>1, TurnFlushes, IoFlushes, AroundFlushes DEF ClientStep, PollStep
    <2>2. CASE Exited
      BY <2>2 DEF Exited, vars, clientVars, StepFlushes
    <2> QED BY <2>1, <2>2, ServerFlushes DEF Next
  <1> QED BY <1>1, TypeCorrect, PTL DEF Spec, ClosingFlushes, StepFlushes

=============================================================================
