----------------------------- MODULE MCRedlock -----------------------------
(* Instances of Redlock for TLC. *)
EXTENDS Redlock, TLC

CONSTANTS c1, c2, v1, v2

TwoClients == {c1, c2}
TwoVals == {v1, v2}

(* Callers and signatures are interchangeable; the servers are not, every  *)
(* round visits them in the same order.                                    *)
Interchangeable == Permutations(TwoClients) \union Permutations(TwoVals)
=============================================================================
