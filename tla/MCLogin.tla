------------------------------ MODULE MCLogin -------------------------------
(***************************************************************************)
(* Login on small instances.                                               *)
(***************************************************************************)
EXTENDS Login

CONSTANTS c1, c2

One == {c1}
Two == {c1, c2}

(* Enough for a client to log in twice, or to register twice.              *)
Twice == [c \in Clients |-> IF c = c1 THEN 2 ELSE 0]

(* Two clients that race for the database and for one user name.           *)
OnceEach == [c \in Clients |-> 1]

OnlyTwice == {Twice}
TwiceOrOnceEach == {Twice, OnceEach}

=============================================================================
