------------------------------ MODULE MCServer ------------------------------
(***************************************************************************)
(* Server on small instances.                                              *)
(***************************************************************************)
EXTENDS Server

CONSTANT c1

One == {c1}

(* One client: its peer sends two packets of any kind, or leaves.          *)
TwoEach == [c \in Clients |-> 2]
OneEach == [c \in Clients |-> 1]
AnyEnd  == [c \in Clients |-> {"closed", "reset"}]

=============================================================================
