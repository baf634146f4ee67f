---------------------------- MODULE MCDeliveries ----------------------------
(* Instances of Deliveries for TLC. *)
EXTENDS Deliveries, TLC

CONSTANTS c1, c2, e1, e2, r1, f1, d1, d2

OneUser == [r \in {r1, f1} |-> "u"]
OneByOne == {1, -1}

=============================================================================
