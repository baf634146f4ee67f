------------------------------ MODULE MCUsers ------------------------------
(* Instances of UserAccount for TLC. *)
EXTENDS UserAccount, TLC

CONSTANTS c1, c2, a1, x1, x2

TwoCallers == {c1, c2}
OneAccount == {a1}
TwoUids == {x1, x2}
Interchangeable == Permutations(Uid) \union Permutations(Caller)
=============================================================================
