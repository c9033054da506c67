--------------------------- MODULE MCApplications ---------------------------
(***************************************************************************)
(* The three applications on small instances.  They are programs of their  *)
(* own that share nothing, so a behaviour is one of a single program.      *)
(***************************************************************************)
EXTENDS Naturals, Sequences

CONSTANTS Gap, MaxSessions, MaxKills, Workers, NameCount, MaxSent

(* The server the crystal bot was written for never sends two packets that *)
(* it awaits one right after the other.                                    *)
ASSUME ApplicationsAssumption ==
    /\ Gap \in Nat \ {0} /\ NameCount \in Nat
    /\ MaxSessions \in Nat /\ MaxKills \in Nat /\ MaxSent \in Nat

VARIABLES
    program,
    step, result, passed, spawner, ended, toBot, toServer, tank, sessions, kills,
    user_name_index, output, worker, reply, account, proxies,
    stage, setup, latched, closed, sent, arriving, unsent, received

C == INSTANCE CrystalBot
R == INSTANCE RegisterBot
P == INSTANCE ProxyServer

Init ==
    /\ program \in {"crystal-bot", "register-bot", "proxy-server"}
    /\ C!Init /\ R!Init /\ P!Init
    /\ program # "register-bot" => ~proxies

crystalBotVars ==
    <<step, result, passed, spawner, ended, toBot, toServer, tank, sessions, kills>>
registerBotVars == <<user_name_index, output, worker, reply, account, proxies>>
proxyServerVars == <<stage, setup, latched, closed, sent, arriving, unsent, received>>

OnlyCrystalBot == program = "crystal-bot" /\ UNCHANGED <<program, registerBotVars, proxyServerVars>>
OnlyRegisterBot == program = "register-bot" /\ UNCHANGED <<program, crystalBotVars, proxyServerVars>>
OnlyProxyServer == program = "proxy-server" /\ UNCHANGED <<program, crystalBotVars, registerBotVars>>

Next ==
    \/ OnlyCrystalBot /\ C!Next
    \/ OnlyRegisterBot /\ R!Next
    \/ OnlyProxyServer /\ P!Next

vars == <<program, crystalBotVars, registerBotVars, proxyServerVars>>

Spec == Init /\ [][Next]_vars

FairSpec ==
    /\ Spec
    /\ WF_vars(OnlyCrystalBot /\ C!Bot) /\ WF_vars(OnlyCrystalBot /\ C!ServerReceives)
    /\ \A w \in Workers : WF_vars(OnlyRegisterBot /\ R!Work(w))

-----------------------------------------------------------------------------
(* The properties of each, defined and explained in its module.            *)

(* The crystal bot's spawner forgets no tank and asks for nothing out of    *)
(* turn, but what a kill has overtaken.                                    *)
SpawnsInTurn == C!SpawnsInTurn

(* The crystal bot's script never awaits a packet that has gone by.        *)
NothingMissed == C!NothingMissed

(* The crystal bot's tank comes back each time it is killed, unless the    *)
(* server minds that it asks early.                                        *)
ComesBack == C!ComesBack

(* The register bot's output file has one line for a name at most.         *)
OneLineEach == R!OneLineEach

(* Its successes are accounts: not if the server closes on the purchase.   *)
SuccessHasAccount == R!SuccessHasAccount

(* The register bot writes a line for every name, if it has a proxy.       *)
EveryNameAnswered ==
    program = "register-bot" =>
        \A n \in 1..NameCount : proxies => <>(\E i \in DOMAIN output : output[i].name = n)

(* The proxy passes on every packet, in order.                             *)
RelayedInOrder == P!RelayedInOrder

=============================================================================
