------------------------------- MODULE Calls --------------------------------
(***************************************************************************)
(* What a session promises to the code that owns it and awaits packets     *)
(* (client-utils/src/session.rs): of the calls await_match and             *)
(* execute_task and of awaiting the session itself, one at a time,         *)
(*   - a call is answered only after the packet it waits for was handled   *)
(*     while it waited,                                                    *)
(*   - it fails only once the session is over,                             *)
(*   - between the packet and the answer at most one more packet is        *)
(*     handled, so at most one can slip by a caller that awaits packets    *)
(*     one after the other.                                                *)
(***************************************************************************)
EXTENDS Naturals

VARIABLES
    call,    \* "waiting" for a packet, "running" the session, or "none"
    served,  \* the awaited packet has been handled
    passed,  \* packets handled after it, while the call still waits
    over,    \* the connection has ended or a handler has failed
    outcome  \* how the last call ended

vars == <<call, served, passed, over, outcome>>

Outcomes == {"none", "answered", "disconnected", "cancelled"}

TypeOK ==
    /\ call \in {"none", "waiting", "running"}
    /\ served \in BOOLEAN /\ over \in BOOLEAN
    /\ passed \in 0..1
    /\ outcome \in Outcomes

Init ==
    /\ call = "none" /\ outcome = "none"
    /\ served = FALSE /\ passed = 0 /\ over = FALSE

Open ==
    /\ call = "none"
    /\ call' \in {"waiting", "running"}
    /\ served' = FALSE /\ passed' = 0 /\ outcome' = "none"
    /\ UNCHANGED over

Serve ==
    /\ call = "waiting" /\ ~served
    /\ served' = TRUE
    /\ UNCHANGED <<call, passed, over, outcome>>

Pass ==
    /\ call = "waiting" /\ served /\ passed = 0
    /\ passed' = 1
    /\ UNCHANGED <<call, served, over, outcome>>

EndSession ==
    /\ over' = TRUE
    /\ UNCHANGED <<call, served, passed, outcome>>

Resolve(how) ==
    /\ call' = "none" /\ outcome' = how
    /\ UNCHANGED <<served, passed, over>>

Answer == call = "waiting" /\ served /\ Resolve("answered")
Fail   == call # "none" /\ over /\ Resolve("disconnected")
Cancel == call # "none" /\ Resolve("cancelled")

Next == Open \/ Serve \/ Pass \/ EndSession \/ Answer \/ Fail \/ Cancel

Spec == Init /\ [][Next]_vars

-----------------------------------------------------------------------------
(* A caller that has its packet was served, one that is told of a          *)
(* disconnect has a session that is over, and a packet slips by only after *)
(* the one that was awaited.                                               *)
OutcomesTrue ==
    /\ outcome = "answered" => served
    /\ outcome = "disconnected" => over
    /\ passed > 0 => served

=============================================================================
