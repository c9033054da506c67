------------------------------ MODULE Sessions ------------------------------
(***************************************************************************)
(* What the server promises about the sessions of its clients: who is in   *)
(* its map and when, which events it sees and in which order, and whom a   *)
(* shutdown reaches.  Polls, wakers, packets and sockets are left out;     *)
(* module Server implements this one (server/src/server.rs).               *)
(***************************************************************************)
EXTENDS Naturals, Sequences

CONSTANT Clients

VARIABLES
    session,  \* "none", then "live" while its task runs, "ended", "closed"
    open,     \* the clients whose connection state is Open
    auth,     \* the clients that have authenticated
    events,   \* the events sent to the server and not yet handled
    clients,  \* the server's map
    main,     \* where main stands
    halting   \* the clients a shutdown has still to reach

vars == <<session, open, auth, events, clients, main, halting>>

Event == [type: {"ClientAuthenticated", "ClientDisconnected"}, id: Clients]

TypeOK ==
    /\ session \in [Clients -> {"none", "live", "ended", "closed"}]
    /\ open \subseteq Clients
    /\ auth \subseteq Clients
    /\ events \in Seq(Event)
    /\ clients \subseteq Clients
    /\ main \in {"accepting", "halting", "waiting", "exited"}
    /\ halting \subseteq Clients

Init ==
    /\ session = [c \in Clients |-> "none"]
    /\ open = Clients
    /\ auth = {}
    /\ events = <<>>
    /\ clients = {}
    /\ main = "accepting"
    /\ halting = {}

Become(c, s) == session' = [session EXCEPT ![c] = s]

Emit(type, c) == events' = Append(events, [type |-> type, id |-> c])

Register(c) ==
    /\ main = "accepting"
    /\ session[c] = "none"
    /\ Become(c, "live")
    /\ clients' = clients \union {c}
    /\ UNCHANGED <<open, auth, events, main, halting>>

(* A connection that never becomes a session.                              *)
Refuse(c) ==
    /\ session[c] = "none"
    /\ Become(c, "closed")
    /\ UNCHANGED <<open, auth, events, clients, main, halting>>

(* The client begins to close, for a reason of its own.                    *)
Close(c) ==
    /\ open' = open \ {c}
    /\ UNCHANGED <<session, auth, events, clients, main, halting>>

Authenticate(c) ==
    /\ session[c] = "live"
    /\ auth' = auth \union {c}
    /\ Emit("ClientAuthenticated", c)
    /\ UNCHANGED <<session, open, clients, main, halting>>

End(c) ==
    /\ session[c] = "live"
    /\ Become(c, "ended")
    /\ open' = open \ {c}
    /\ UNCHANGED <<auth, events, clients, main, halting>>

Report(c) ==
    /\ session[c] = "ended"
    /\ Become(c, "closed")
    /\ Emit("ClientDisconnected", c)
    /\ UNCHANGED <<open, auth, clients, main, halting>>

HandleEvent(c) ==
    /\ main # "halting"
    /\ events # <<>>
    /\ Head(events).id = c
    /\ events' = Tail(events)
    /\ clients' = IF Head(events).type = "ClientDisconnected" THEN clients \ {c} ELSE clients
    /\ UNCHANGED <<session, open, auth, main, halting>>

Shutdown ==
    /\ main = "accepting"
    /\ main' = "halting"
    /\ halting' = clients
    /\ UNCHANGED <<session, open, auth, events, clients>>

Halt(c) ==
    /\ main = "halting"
    /\ open' = open \ {c}
    /\ halting' = halting \ {c}
    /\ UNCHANGED <<session, auth, events, clients, main>>

ShutdownReturns ==
    /\ main = "halting"
    /\ halting = {}
    /\ main' = "waiting"
    /\ UNCHANGED <<session, open, auth, events, clients, halting>>

Exit ==
    /\ main = "waiting"
    /\ main' = "exited"
    /\ UNCHANGED <<session, open, auth, events, clients, halting>>

Next ==
    \/ \E c \in Clients :
         \/ Register(c) \/ Refuse(c) \/ Close(c) \/ Authenticate(c)
         \/ End(c) \/ Report(c) \/ HandleEvent(c) \/ Halt(c)
    \/ Shutdown \/ ShutdownReturns \/ Exit

Spec == Init /\ [][Next]_vars

-----------------------------------------------------------------------------
Disconnected(c)  == [type |-> "ClientDisconnected", id |-> c]
Authenticated(c) == [type |-> "ClientAuthenticated", id |-> c]
Queued(e) == \E i \in DOMAIN events : events[i] = e

(* ClientDisconnected is the last event of its client: it is sent once the *)
(* client's own sender can no longer be used, and the channel is FIFO.     *)
DisconnectedIsLast ==
    \A i, j \in DOMAIN events :
        (i < j /\ events[i].type = "ClientDisconnected") => events[j].id # events[i].id

(* The map holds exactly the clients whose task runs and those whose end   *)
(* has not been handled yet.                                               *)
RegistryExact ==
    \A c \in Clients :
        c \in clients <=> session[c] \in {"live", "ended"} \/ Queued(Disconnected(c))

(* An authentication is handled while its client is registered and has a   *)
(* user id.                                                                *)
AuthenticatedIsKnown ==
    \A c \in Clients : Queued(Authenticated(c)) => c \in clients /\ c \in auth

(* Once a shutdown has let go of the server no running client is open.     *)
ShutdownReachesAll ==
    main \in {"waiting", "exited"} => \A c \in open : session[c] # "live"

(* The inductive invariant: a session that was reported is closed, and a   *)
(* shutdown under way has every open session still in its list.            *)
Inv ==
    /\ TypeOK
    /\ DisconnectedIsLast
    /\ RegistryExact
    /\ AuthenticatedIsKnown
    /\ \A c \in Clients : Queued(Disconnected(c)) => session[c] = "closed"
    /\ main = "halting" => \A c \in open : session[c] = "live" => c \in halting
    /\ ShutdownReachesAll

=============================================================================
