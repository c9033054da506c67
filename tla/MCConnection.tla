------------------------------ MODULE MCConnection ------------------------------
(***************************************************************************)
(* Connection with a header of two bytes instead of 8 and chunks of two    *)
(* instead of 1024, so that packets are shorter and longer than a chunk.   *)
(***************************************************************************)
EXTENDS Connection

Data(n) == [kind |-> "data", len |-> n]

(* Packets as long as a chunk and longer ones, also without a payload; and *)
(* those that cannot be read; answers that cross them.                     *)
Mixed == [e \in Ends |-> IF e = "client"
                         THEN {Data(2), Data(5), [kind |-> "unknown", len |-> 3],
                               [kind |-> "malformed", len |-> 2]}
                         ELSE {Data(3)}]

TwoEach == [e \in Ends |-> 2]

=============================================================================
