------------------------------- MODULE Slots --------------------------------
(***************************************************************************)
(* What an admission control promises: at most Size clients are inside, a  *)
(* client that comes is let in or turned away on the spot, and it is       *)
(* turned away only when Size are inside.  Admission and ConnLimit         *)
(* implement it.                                                           *)
(***************************************************************************)
EXTENDS Integers, FiniteSets

CONSTANTS Clients, Size

VARIABLE turn       \* "out", "in" or "refused", for each client

Inside == {c \in Clients : turn[c] = "in"}

Init == turn = [c \in Clients |-> "out"]

Admit(c) ==
    /\ turn[c] = "out"
    /\ Cardinality(Inside) < Size
    /\ turn' = [turn EXCEPT ![c] = "in"]

Refuse(c) ==
    /\ turn[c] = "out"
    /\ Cardinality(Inside) = Size
    /\ turn' = [turn EXCEPT ![c] = "refused"]

Leave(c) ==
    /\ turn[c] \in {"in", "refused"}
    /\ turn' = [turn EXCEPT ![c] = "out"]

Next == \E c \in Clients : Admit(c) \/ Refuse(c) \/ Leave(c)

Spec == Init /\ [][Next]_turn

=============================================================================
