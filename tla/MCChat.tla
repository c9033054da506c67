-------------------------------- MODULE MCChat --------------------------------
(***************************************************************************)
(* Chat with two clients, one of which logs in twice, and a history that   *)
(* is shorter than what they post.                                         *)
(***************************************************************************)
EXTENDS Chat

CONSTANTS c1, c2

Two == {c1, c2}
FirstTwice == [c \in Clients |-> IF c = c1 THEN 2 ELSE 1]

=============================================================================
