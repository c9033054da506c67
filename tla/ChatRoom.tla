------------------------------- MODULE ChatRoom -------------------------------
(***************************************************************************)
(* What the server's chat promises its readers: all of them see the        *)
(* messages in the one order in which the chat registered them, without a  *)
(* gap and none twice, from at most HistoryLength messages before they     *)
(* joined.  A message is known by its number in that order.                *)
(***************************************************************************)
EXTENDS Naturals, Sequences

CONSTANTS
    Readers,
    HistoryLength

VARIABLES
    registered, \* how many messages there are
    members,    \* the readers that have joined
    joined,     \* joined[r]: the last message before those shown to r
    shown       \* shown[r]: the messages on r's screen since it joined

vars == <<registered, members, joined, shown>>

(* The messages after the first-th, up to the last-th.                     *)
Numbers(first, last) == [i \in 1..(last - first) |-> first + i]

BeforeHistory(count) == IF count > HistoryLength THEN count - HistoryLength ELSE 0

Init ==
    /\ registered = 0
    /\ members = {}
    /\ joined = [r \in Readers |-> 0]
    /\ shown = [r \in Readers |-> <<>>]

Post ==
    /\ registered' = registered + 1
    /\ UNCHANGED <<members, joined, shown>>

(* Who joins again starts with an empty screen.                            *)
Join(r) ==
    /\ members' = members \union {r}
    /\ joined' = [joined EXCEPT ![r] = BeforeHistory(registered)]
    /\ shown' = [shown EXCEPT ![r] = <<>>]
    /\ UNCHANGED registered

Read(r) ==
    LET seen == joined[r] + Len(shown[r])
    IN  /\ r \in members
        /\ \E last \in seen..registered :
             shown' = [shown EXCEPT ![r] = @ \o Numbers(seen, last)]
        /\ UNCHANGED <<registered, members, joined>>

Next == Post \/ \E r \in Readers : Join(r) \/ Read(r)

Spec == Init /\ [][Next]_vars

-----------------------------------------------------------------------------
TypeOK ==
    /\ registered \in Nat
    /\ members \subseteq Readers
    /\ joined \in [Readers -> Nat]
    /\ shown \in [Readers -> Seq(Nat)]

(* Every screen shows consecutive messages, from where its reader joined   *)
(* to no further than the last one registered; who has not joined sees     *)
(* none.                                                                   *)
ShownInOrder ==
    \A r \in Readers :
        LET seen == joined[r] + Len(shown[r])
        IN  /\ seen <= registered
            /\ shown[r] = Numbers(joined[r], seen)
            /\ r \notin members => shown[r] = <<>>

=============================================================================
