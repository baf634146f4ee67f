------------------------------- MODULE MCSms -------------------------------
(* Instances of SmsCodes for TLC. *)
EXTENDS SmsCodes, TLC

CONSTANTS c1, c2

TwoCallers == {c1, c2}
=============================================================================
