-------------------------------- MODULE Lease --------------------------------
(***************************************************************************)
(* What infra/redlock promises, with no servers in sight: a lease of one   *)
(* resource, granted for a bounded time to a caller while nobody else has  *)
(* it, which its holder may give back and which ends by itself as time     *)
(* passes.                                                                 *)
(***************************************************************************)
EXTENDS Integers

CONSTANTS
    Client,     \* callers
    Longest     \* ticks for which a lease may be granted at once

VARIABLE
    lease       \* lease[c]: ticks for which c may rely on its lease

Init == lease = [c \in Client |-> 0]

(* alock succeeds. *)
Grant(c, n) ==
    /\ \A o \in Client : lease[o] = 0
    /\ lease' = [lease EXCEPT ![c] = n]

(* aunlock, or the caller dies. *)
GiveBack(c) == lease' = [lease EXCEPT ![c] = 0]

Pass == lease' = [c \in Client |-> IF lease[c] > 0 THEN lease[c] - 1 ELSE 0]

Next ==
    \/ \E c \in Client : GiveBack(c) \/ \E n \in 1 .. Longest : Grant(c, n)
    \/ Pass

Spec == Init /\ [][Next]_lease

=============================================================================
