------------------------------- MODULE Server -------------------------------
(***************************************************************************)
(* The server and its clients (server/src/server.rs, main.rs): accepting   *)
(* and registering clients, the task that consumes the server events, and  *)
(* the shutdown.                                                           *)
(*                                                                         *)
(* The three actors that use the Server lock its mutex: the task of each   *)
(* accepted connection while it registers its client, the event task while *)
(* it polls, and main while it runs shutdown.  Shutdown locks one client   *)
(* after the other with the server locked (main = "halting"), so nothing   *)
(* else of the server runs in between, but the clients do.                 *)
(*                                                                         *)
(* The map is keyed by connection: client_id_index hands every registered  *)
(* client a number no other has (it would wrap after 2^32 of them).        *)
(***************************************************************************)
EXTENDS Client

VARIABLES
    clients,      \* Server.clients: the registered clients
    is_shutdown,  \* Server.is_shutdown
    main,         \* where main stands
    halting       \* the clients shutdown has still to notify

serverVars == <<clients, is_shutdown, main, halting>>
vars == <<clientVars, serverVars>>

TypeOK ==
    /\ ClientTypeOK
    /\ clients \subseteq Clients
    /\ is_shutdown \in BOOLEAN
    /\ main \in {"accepting", "halting", "waiting", "exited"}
    /\ halting \subseteq Clients

Init ==
    /\ ClientInit
    /\ clients = {}
    /\ is_shutdown = FALSE
    /\ main = "accepting"
    /\ halting = {}

(* The process is there, and nobody holds the mutex around the server.     *)
Alive == main # "exited"
ServerFree == main \notin {"halting", "exited"}

(* Nobody holds the mutex around the client.                               *)
ClientFree(c) == client[c].poll = "idle"

-----------------------------------------------------------------------------
(* main's accept loop, and the task it spawns for each connection.         *)

Accept(c) ==
    /\ main = "accepting"
    /\ life[c] = "free"
    /\ life' = [life EXCEPT ![c] = "setup"]
    /\ UNCHANGED <<client, socket, events, serverVars>>

(* Client::new got the encryption packet within 15 seconds.                *)
SetupSucceeds(c) ==
    /\ Alive
    /\ life[c] = "setup"
    /\ socket[c].peer = "up"
    /\ \E r \in Flushed(c) : SetClient(c, r)
    /\ life' = [life EXCEPT ![c] = "built"]
    /\ UNCHANGED <<socket, events, serverVars>>

(* It timed out, the peer left or sent something else: the socket is       *)
(* dropped.                                                                *)
SetupFails(c) ==
    /\ Alive
    /\ life[c] = "setup"
    /\ life' = [life EXCEPT ![c] = "gone"]
    /\ UNCHANGED <<client, socket, events, serverVars>>

(* Mutant of RegisterClient: is_shutdown is not looked at.                 *)
RegisterAnyway(c) ==
    /\ ServerFree
    /\ life[c] = "built"
    /\ SetClient(c, [RunAsync(SendPacket(client[c]), "connect") EXCEPT !.woken = TRUE])
    /\ clients' = clients \union {c}
    /\ life' = [life EXCEPT ![c] = "running"]
    /\ UNCHANGED <<socket, events, is_shutdown, main, halting>>

(* Server::register_client.  The request for the Connect resources is sent *)
(* and its completion awaited by the first task of the client.             *)
RegisterClient(c) ==
    /\ ServerFree
    /\ ~is_shutdown
    /\ life[c] = "built"
    /\ SetClient(c, [RunAsync(SendPacket(client[c]), "connect") EXCEPT !.woken = TRUE])
    /\ clients' = clients \union {c}
    /\ life' = [life EXCEPT ![c] = "running"]
    /\ UNCHANGED <<socket, events, is_shutdown, main, halting>>

(* The same during a shutdown: the client is not registered; a task of its *)
(* own is to flush and drop it.                                            *)
RegisterLate(c) ==
    /\ ServerFree
    /\ is_shutdown
    /\ life[c] = "built"
    /\ SetClient(c, Disconnect(SendPacket(client[c])))
    /\ life' = [life EXCEPT ![c] = "late"]
    /\ UNCHANGED <<socket, events, serverVars>>

(* Its select! ends in its first round, because flush_future is ready: the *)
(* branch that polls the client comes before that one, or is not run.      *)
DropLate(c) ==
    /\ Alive
    /\ life[c] = "late"
    /\ \E r \in {client[c]} \union Flushed(c) : SetClient(c, r)
    /\ life' = [life EXCEPT ![c] = "gone"]
    /\ UNCHANGED <<socket, events, serverVars>>

-----------------------------------------------------------------------------
(* Server::poll and the handlers of its events.                            *)

NextEvent(type, c) ==
    /\ ServerFree
    /\ events # <<>>
    /\ Head(events) = [type |-> type, id |-> c]
    /\ events' = Tail(events)

(* The client is locked while the event is handled.  Its Lobby resources   *)
(* and its account are each awaited by a task of the client.               *)
EnterLobby(r) ==
    RunAsync(RegisterComponent(RunAsync(SendPacket(r), "query")), "lobby")

HandleClientAuthenticated(c) ==
    /\ NextEvent("ClientAuthenticated", c)
    /\ IF c \in clients
       THEN /\ ClientFree(c)
            /\ SetClient(c, IF client[c].auth THEN EnterLobby(client[c])
                            ELSE SendPacket(client[c]))
       ELSE UNCHANGED client
    /\ UNCHANGED <<socket, life, serverVars>>

(* Mutant of HandleClientDisconnected: the client stays in the map.        *)
KeepDisconnected(c) ==
    /\ NextEvent("ClientDisconnected", c)
    /\ UNCHANGED <<client, socket, life, serverVars>>

HandleClientDisconnected(c) ==
    /\ NextEvent("ClientDisconnected", c)
    /\ clients' = clients \ {c}
    /\ UNCHANGED <<client, socket, life, is_shutdown, main, halting>>

-----------------------------------------------------------------------------
(* ctrl-c, Server::shutdown and the end of main.                           *)

Shutdown ==
    /\ main = "accepting"
    /\ is_shutdown' = TRUE
    /\ halting' = clients
    /\ main' = "halting"
    /\ UNCHANGED <<clientVars, clients>>

HaltClient(c) ==
    /\ main = "halting"
    /\ c \in halting
    /\ ClientFree(c)
    /\ SetClient(c, Disconnect(SendPacket(client[c])))
    /\ halting' = halting \ {c}
    /\ UNCHANGED <<socket, life, events, clients, is_shutdown, main>>

ShutdownReturns ==
    /\ main = "halting"
    /\ halting = {}
    /\ main' = "waiting"
    /\ UNCHANGED <<clientVars, clients, is_shutdown, halting>>

(* The futures collected from disconnect are all ready when first polled,  *)
(* so the count wins its select! at once, and main returns.                *)
Exit ==
    /\ main = "waiting"
    /\ main' = "exited"
    /\ UNCHANGED <<clientVars, clients, is_shutdown, halting>>

Exited == ~Alive /\ UNCHANGED vars

-----------------------------------------------------------------------------
ServerStep ==
    \/ \E c \in Clients : HandleClientAuthenticated(c) \/ HandleClientDisconnected(c)
    \/ Shutdown
    \/ \E c \in Clients : HaltClient(c)
    \/ ShutdownReturns
    \/ Exit

ConnectionStep(c) ==
    \/ Accept(c) \/ SetupSucceeds(c) \/ SetupFails(c)
    \/ RegisterClient(c) \/ RegisterLate(c) \/ DropLate(c)

ClientStep(c) == Alive /\ (PollStep(c) \/ Around(c)) /\ UNCHANGED serverVars

Next ==
    \/ ServerStep
    \/ \E c \in Clients : ConnectionStep(c) \/ ClientStep(c)
    \/ Exited

Spec == Init /\ [][Next]_vars

-----------------------------------------------------------------------------
(* Fairness.  tokio runs every task that was woken, fires its timers and   *)
(* delivers what it has (WF).  An actor blocked on a client's mutex gets   *)
(* it in the end, since the client's task sleeps between polls (SF).       *)
(* Nothing makes a peer send, log in or leave; FairSpec adds that peers go *)
(* on reading: a full socket gets room, and a finite buffer is written     *)
(* after finitely many partial writes.                                     *)

Handle(c) == HandleClientAuthenticated(c) \/ HandleClientDisconnected(c)

Fairness ==
    /\ \A c \in Clients :
         /\ WF_vars(Alive /\ PollStep(c) /\ UNCHANGED serverVars)
         /\ WF_vars(Alive /\ PingTick(c) /\ UNCHANGED serverVars)
         /\ SF_vars(Handle(c))
         /\ SF_vars(HaltClient(c))
    /\ WF_vars(ShutdownReturns)

FairSpec ==
    /\ Spec
    /\ Fairness
    /\ \A c \in Clients :
         /\ WF_vars(Alive /\ PeerReads(c) /\ UNCHANGED serverVars)
         /\ SF_vars(Alive /\ Polling(c, "io") /\ PollStep(c) /\ UNCHANGED serverVars
                      /\ ~client'[c].unsent)

-----------------------------------------------------------------------------
(* Safety.                                                                 *)

Asleep(c) ==
    life[c] = "running" /\ client[c].poll = "idle" /\ ~client[c].woken

(* A client's task that is not scheduled has nothing to do: no result of   *)
(* one of its tasks to collect, no task never polled, nothing to receive,  *)
(* no end of stream, no tick, and bytes to send only while the socket      *)
(* holds its waker.  The wakers of Client, Tasks and Connection are taken  *)
(* when used, and re-armed only by a poll, so each of them could miss a    *)
(* call made between two polls or during one.                              *)
NoLostWakeup ==
    \A c \in Clients : Asleep(c) =>
        /\ \A k \in TaskKinds : /\ client[c].tasks[k].fresh = 0
                                /\ client[c].tasks[k].done = 0
                                /\ client[c].tasks[k].late = 0
        /\ socket[c].inbox = 0
        /\ socket[c].peer = "up"
        /\ ~client[c].pingDue
        /\ client[c].unsent => client[c].writeWait

(* The sessions this server implements (module Sessions).                  *)
SessionOf(c) ==
    CASE life[c] \in {"free", "setup", "built", "late"} -> "none"
      [] life[c] = "running"  -> "live"
      [] life[c] = "finished" -> "ended"
      [] life[c] = "gone"     -> "closed"

SessionMap == [c \in Clients |-> SessionOf(c)]
OpenSet == {c \in Clients : client[c].state = "Open"}
AuthSet == {c \in Clients : client[c].auth}

S == INSTANCE Sessions WITH session <- SessionMap, open <- OpenSet, auth <- AuthSet

(* Every behaviour of the server is one of Sessions: between two events of *)
(* a session it polls, wakes, sends and receives as it likes.              *)
ImplementsSessions == S!Spec

(* ClientDisconnected is the last event of its client.                     *)
DisconnectedIsLast == S!DisconnectedIsLast

(* The map holds exactly the clients whose task runs and those whose end   *)
(* has not been handled yet: none is leaked, and none is removed while its *)
(* task still runs and shutdown could not reach it any more.               *)
RegistryExact == S!RegistryExact

(* handle_client_authenticated finds its client registered and with a user *)
(* id: its early return and its "missing client user id" never happen.     *)
AuthenticatedIsKnown == S!AuthenticatedIsKnown

(* Once shutdown has let go of the server no running client is open, not   *)
(* even one that was registered at the last moment; none is left out.      *)
ShutdownReachesAll == S!ShutdownReachesAll

(* A client that is closing gives up what it has not sent yet only when    *)
(* its connection has failed.                                              *)
ClosingFlushes ==
    [][\A c \in Clients :
         client[c].state = "Closing" /\ client'[c].state = "Closed"
           => ~client'[c].unsent \/ client'[c].dead]_vars

(* client.rs on ConnectionState::Closing: "The connection will be closed   *)
(* as soon all packets have successfully been written."  The code drops    *)
(* the alert about a protocol error although the peer is still there.      *)
ClosedOnceWritten ==
    [][\A c \in Clients :
         client[c].state = "Closing" /\ client'[c].state = "Closed"
           => ~client'[c].unsent \/ socket[c].peer # "up"]_vars

(* server.rs in shutdown: "await all clients beeing disconnected".  The    *)
(* futures it awaits are ready before any client is.                       *)
ShutdownAwaitsClients ==
    main = "exited" => \A c \in clients : client[c].state = "Closed"

-----------------------------------------------------------------------------
(* Liveness.                                                               *)

Gone(c) == c \notin clients \/ ~Alive

(* A registered client whose peer left is removed from the server.         *)
EndedClientsLeave ==
    \A c \in Clients : (c \in clients /\ socket[c].peer # "up") ~> Gone(c)

(* So is a client the server disconnects, if its peer reads what is sent.  *)
(* poll closes it without waking itself: the next ping tick finishes it.   *)
ClosingClientsLeave ==
    \A c \in Clients : (c \in clients /\ client[c].state # "Open") ~> Gone(c)

(* Loaded Lobby resources open the lobby, whatever the peer does, unless   *)
(* the client ends first.                                                  *)
LobbyOpens ==
    \A c \in Clients :
        (life[c] = "running" /\ client[c].tasks["lobby"].done + client[c].tasks["lobby"].late > 0)
          ~> (client[c].lobby \/ Gone(c))

=============================================================================
