---------------------------- MODULE CrystalBot ------------------------------
(***************************************************************************)
(* One bot of the crystal bot (applications/crystal-bot/src/main.rs): the  *)
(* script that takes it from a connection into a battle, on a Session that *)
(* keeps the promises of Calls, the spawner that brings its tank back, and *)
(* the loop that connects again.  The server's part of the conversation is *)
(* what the script expects of it.                                          *)
(*                                                                         *)
(* Where the bot drives and what it shoots at is left out: nothing else    *)
(* depends on it.                                                          *)
(***************************************************************************)
EXTENDS Naturals, Sequences

CONSTANTS
    Gap,         \* packets of no interest between two that the bot awaits
    MaxSessions, \* bound: connections the bot makes
    MaxKills     \* bound: how often its tank is killed, over all of them

(* The calls of the script and the packets their matchers accept.          *)
Awaited ==
    [ resources |-> {"finished"},
      login     |-> {"success", "failure", "banTemporary", "banPermanent"},
      lobby     |-> {"switchEnd"},
      select    |-> {"selected", "linkDead"},
      join      |-> {"switchStart"},
      map       |-> {"mapInfo"},
      switch    |-> {"switchEnd"} ]

Calls == DOMAIN Awaited
Replies == UNION {Awaited[c] : c \in Calls}
Steps == Calls \union {"connect", "pause", "battle", "banned"}
Requests == {"login", "select", "join"}

VARIABLES
    step,      \* where create_shot_bot stands
    result,    \* the packet that served the call, before the script has it
    passed,    \* packets handled since then
    spawner,   \* LocalTankState, "none" before the handler is registered
    ended,     \* the session is over: the connection, or a handler failed
    toBot,     \* packets on their way to the bot
    toServer,  \* and to the server
    tank,      \* the bot's tank, as the server has it
    sessions, kills  \* how many so far

botVars == <<step, result, passed, spawner, ended>>
vars == <<botVars, toBot, toServer, tank, sessions, kills>>

TypeOK ==
    /\ step \in Steps
    /\ result \in Replies \union {"none"} /\ passed \in 0..1
    /\ spawner \in {"none", "Uninit", "Dead", "Placed", "Activated"}
    /\ ended \in BOOLEAN
    /\ toBot \in Seq(Replies \union {"other", "kill"})
    /\ toServer \in Seq(Requests \union {"init", "place", "activate"})
    /\ tank \in {"none", "waiting", "placed", "active", "dead", "left", "refused"}
    /\ sessions \in 0..MaxSessions /\ kills \in 0..MaxKills

Init ==
    /\ step = "connect" /\ result = "none" /\ passed = 0
    /\ spawner = "none" /\ ended = FALSE
    /\ toBot = <<>> /\ toServer = <<>> /\ tank = "none"
    /\ sessions = 0 /\ kills = 0

-----------------------------------------------------------------------------
(* The server: what the script expects of it.                              *)

Others == [i \in 1..Gap |-> "other"]

(* What it sends for a request: the reply and what follows by itself.      *)
Sends(request) ==
    CASE request = "login" ->
           {<<"failure">>, <<"banTemporary">>, <<"banPermanent">>,
            <<"success">> \o Others \o <<"switchEnd">>}
      [] request = "select" -> {<<"selected">>, <<"linkDead">>}
      [] request = "join" ->
           {<<"switchStart">> \o Others \o <<"mapInfo">> \o Others \o <<"switchEnd">>}

(* A tank waits to be placed and then activated.  A dead one has to wait   *)
(* for the respawn delay: whether the server holds a placement against it  *)
(* that comes before is not known to the bot, whose author found that      *)
(* "the respawn interval is currently not checked"; one that does leaves   *)
(* the tank.  An activation of a tank that has been killed since is late,  *)
(* and void.  Any other request out of turn is an error of the client.     *)
TankAfter(request) ==
    CASE request = "init" /\ tank = "none" -> {"waiting"}
      [] request = "place" /\ tank = "waiting" -> {"placed"}
      [] request = "place" /\ tank = "dead" -> {"placed", "left"}
      [] request = "activate" /\ tank = "placed" -> {"active"}
      [] request = "activate" /\ tank \in {"waiting", "dead", "left"} -> {tank}
      [] OTHER -> {"refused"}

ServerReceives ==
    /\ toServer # <<>>
    /\ toServer' = Tail(toServer)
    /\ LET request == Head(toServer) IN
         IF request \in Requests
         THEN /\ \E reply \in Sends(request) : toBot' = toBot \o reply
              /\ UNCHANGED tank
         ELSE tank' \in TankAfter(request) /\ UNCHANGED toBot
    /\ UNCHANGED <<botVars, sessions, kills>>

(* A tank is killed once it is placed, also while the bot's request to     *)
(* activate it is on its way.                                              *)
ServerKills ==
    /\ tank \in {"placed", "active"} /\ kills < MaxKills
    /\ kills' = kills + 1
    /\ tank' = "dead"
    /\ toBot' = Append(toBot, "kill")
    /\ UNCHANGED <<botVars, toServer, sessions>>

(* The respawn delay is over.                                              *)
ServerRevives ==
    /\ tank = "dead"
    /\ tank' = "waiting"
    /\ UNCHANGED <<botVars, toBot, toServer, sessions, kills>>

(* The server may close, and a handler fail, at any time.                  *)
SessionEnds ==
    /\ step \notin {"connect", "banned"} /\ ~ended
    /\ ended' = TRUE
    /\ UNCHANGED <<step, result, passed, spawner, toBot, toServer, tank, sessions, kills>>

-----------------------------------------------------------------------------
(* create_shot_bot.                                                        *)

(* The script goes on to its next call, the session as it is.              *)
GoOn(next) ==
    /\ step' = next /\ result' = "none" /\ passed' = 0
    /\ toServer' = IF next \in Requests THEN Append(toServer, next) ELSE toServer
    /\ UNCHANGED <<ended, toBot, tank, sessions, kills>>

(* It returns and its session is dropped; the loop of main calls it again, *)
(* unless the account is banned for good.                                  *)
Return(next) ==
    /\ step' = next /\ result' = "none" /\ passed' = 0
    /\ spawner' = "none" /\ ended' = FALSE
    /\ toBot' = <<>> /\ toServer' = <<>> /\ tank' = "none"
    /\ UNCHANGED <<sessions, kills>>

(* A connection that fails is tried again at once.                         *)
Connect ==
    /\ step = "connect" /\ sessions < MaxSessions
    /\ sessions' = sessions + 1
    /\ step' = "resources"
    /\ toBot' = Others \o <<"finished">>
    /\ UNCHANGED <<result, passed, spawner, ended, toServer, tank, kills>>

CallAnswered ==
    /\ step \in Calls /\ result # "none"
    /\ CASE step = "resources" -> GoOn("login") /\ UNCHANGED spawner
         [] step = "login" /\ result = "success" -> GoOn("lobby") /\ UNCHANGED spawner
         [] step = "login" /\ result = "banPermanent" -> Return("banned")
         [] step = "lobby" -> GoOn("pause") /\ UNCHANGED spawner
         [] step = "select" /\ result = "selected" -> GoOn("join") /\ UNCHANGED spawner
         [] step = "join" -> GoOn("map") /\ UNCHANGED spawner
         [] step = "map" -> GoOn("switch") /\ UNCHANGED spawner
         [] step = "switch" -> GoOn("battle") /\ spawner' = "Uninit"
         [] OTHER -> Return("connect")

(* The second between two visits to the garage; a session that ends in it  *)
(* is noticed by the next call.                                            *)
PauseEnds ==
    /\ step = "pause"
    /\ GoOn("select") /\ UNCHANGED spawner

(* Every call, and the battle, ends with the session.                      *)
SessionOver ==
    /\ ended /\ step \in Calls \union {"battle"}
    /\ Return("connect")

-----------------------------------------------------------------------------
(* The session polled by whatever the script awaits.                       *)

(* Mutant of CanDispatch: the session goes on while there are packets.     *)
CanDispatchMore == result = "none" \/ passed <= 1

(* Calls: one more packet at most before the answer is taken.              *)
CanDispatch == result = "none" \/ passed = 0

(* Mutants of TankKilled: only a tank that is still to be activated needs  *)
(* a new place, or only one that was.                                      *)
TankKilledEarly(packet) ==
    spawner' = IF packet = "kill" /\ spawner = "Placed" THEN "Dead" ELSE spawner

TankKilledLate(packet) ==
    spawner' = IF packet = "kill" /\ spawner = "Activated" THEN "Dead" ELSE spawner

(* PacketHandlerTankSpawner::handle_packet, which wakes its poll.          *)
TankKilled(packet) ==
    spawner' = IF packet = "kill" /\ spawner # "none" THEN "Dead" ELSE spawner

Dispatch ==
    /\ step \in Calls \union {"pause", "battle"} /\ ~ended
    /\ toBot # <<>> /\ CanDispatch
    /\ LET packet == Head(toBot) IN
         /\ IF step \in Calls /\ result = "none" /\ packet \in Awaited[step]
            THEN result' = packet /\ UNCHANGED passed
            ELSE /\ passed' = IF result = "none" THEN 0 ELSE passed + 1
                 /\ UNCHANGED result
         /\ TankKilled(packet)
    /\ toBot' = Tail(toBot)
    /\ UNCHANGED <<step, ended, toServer, tank, sessions, kills>>

(* PacketHandlerTankSpawner::poll: one turn of its loop, with the timer of *)
(* the state run out.                                                      *)
Spawn(from, request, to) ==
    /\ step = "battle" /\ ~ended
    /\ spawner = from
    /\ toServer' = Append(toServer, request)
    /\ spawner' = to
    /\ UNCHANGED <<step, result, passed, ended, toBot, tank, sessions, kills>>

UpdateSpawner ==
    \/ Spawn("Uninit", "init", "Dead")
    \/ Spawn("Dead", "place", "Placed")
    \/ Spawn("Placed", "activate", "Activated")

Bot == Connect \/ CallAnswered \/ PauseEnds \/ SessionOver \/ Dispatch \/ UpdateSpawner

Next == Bot \/ ServerReceives \/ ServerKills \/ ServerRevives \/ SessionEnds

Spec == Init /\ [][Next]_vars

(* tokio polls what was woken and its timers end, the server answers.      *)
FairSpec == Spec /\ WF_vars(Bot) /\ WF_vars(ServerReceives)

-----------------------------------------------------------------------------
(* Properties.                                                             *)

OnItsWay(packet, wire) == \E i \in DOMAIN wire : wire[i] = packet

(* However kills and requests cross on the wire, no tank is forgotten:     *)
(* what it needs next is asked for, or the spawner is about to ask, or it  *)
(* has yet to learn of the kill; but for one that the server has left, as  *)
(* the bot placed it too early.  And no request but an activation that a   *)
(* kill has overtaken comes out of turn.                                   *)
SpawnsInTurn ==
    /\ tank # "refused"
    /\ step = "battle" =>
         /\ tank = "none" => spawner = "Uninit" \/ OnItsWay("init", toServer)
         /\ tank \in {"waiting", "dead"} =>
              spawner = "Dead" \/ OnItsWay("place", toServer) \/ OnItsWay("kill", toBot)
         /\ tank = "placed" => spawner = "Placed" \/ OnItsWay("activate", toServer)

(* What the script awaits is still to come: it has not gone by while the   *)
(* script was busy with the call before.                                   *)
NothingMissed ==
    step \in Calls /\ result = "none" /\ ~ended =>
        \/ OnItsWay(step, toServer)
        \/ \E i \in DOMAIN toBot : toBot[i] \in Awaited[step]

(* A bot that is in the battle gets its tank back each time it is killed,  *)
(* until its session is over; or the server has left the tank, as the      *)
(* spawner came before the respawn delay was over and does not ask twice.  *)
ComesBack == (step = "battle") ~> (tank \in {"active", "left"} \/ ended)

=============================================================================
