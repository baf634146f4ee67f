------------------------------ MODULE MCViews ------------------------------
(* Instances of RoomViews for TLC. *)
EXTENDS RoomViews, TLC

CONSTANTS p, q, u1, u2, a, b

TwoRooms == {p, q}
TwoUsers == {u1, u2}
Level == [r \in Room |-> 0]
OneAi == [r \in Room |-> IF r = p THEN 1 ELSE 0]
Shrunk == {{a}}
Symmetry == Permutations(TwoUsers)
=============================================================================
