-------------------------------- MODULE Loading --------------------------------
(***************************************************************************)
(* What the resource component promises to the server's components         *)
(* (server/src/client_components/resources.rs): stages are loaded one      *)
(* after the other, in the order in which they were first awaited, and     *)
(* whoever awaits a stage is served in the very step that loads it, or at  *)
(* once if that has happened.  Requests, callback ids and listeners are    *)
(* left out; module ClientResources implements this one.                   *)
(***************************************************************************)
EXTENDS Naturals, Sequences

CONSTANTS
    Stages,
    Waiters,
    StageOf,  \* the stage each waiter awaits
    After     \* the waiters that are served before it awaits it

VARIABLES
    queue,   \* the stages that were awaited, in order
    loaded,  \* those that the peer has loaded
    called,
    served

vars == <<queue, loaded, called, served>>

Awaited == {queue[i] : i \in DOMAIN queue}

Init ==
    /\ queue = <<>>
    /\ loaded = {}
    /\ called = {}
    /\ served = {}

Await(w) ==
    /\ w \notin called /\ After[w] \subseteq served
    /\ called' = called \union {w}
    /\ served' = served \union (IF StageOf[w] \in loaded THEN {w} ELSE {})
    /\ \/ StageOf[w] \in Awaited /\ UNCHANGED queue
       \/ StageOf[w] \notin Awaited /\ queue' = Append(queue, StageOf[w])
    /\ UNCHANGED loaded

Load(i) ==
    /\ queue[i] \notin loaded
    /\ \A j \in DOMAIN queue : j < i => queue[j] \in loaded
    /\ loaded' = loaded \union {queue[i]}
    /\ served' = served \union {w \in called : StageOf[w] = queue[i]}
    /\ UNCHANGED <<queue, called>>

Next ==
    \/ \E w \in Waiters : Await(w)
    \/ \E i \in DOMAIN queue : Load(i)

Spec == Init /\ [][Next]_vars

-----------------------------------------------------------------------------
TypeOK ==
    /\ queue \in Seq(Stages)
    /\ loaded \subseteq Awaited
    /\ called \subseteq Waiters

(* No stage is loaded before one that was awaited earlier, nor twice.      *)
LoadedInOrder ==
    \A i, j \in DOMAIN queue :
        /\ i # j => queue[i] # queue[j]
        /\ j < i /\ queue[i] \in loaded => queue[j] \in loaded

(* Served are those whose stage is loaded, whoever asked for it first.     *)
ServedExact == served = {w \in called : StageOf[w] \in loaded}

=============================================================================
