----------------------------- MODULE Coroutines -----------------------------
(***************************************************************************)
(* The coroutines of one server process.  Each runs one call of a service  *)
(* at a time and is somewhere in it; an event loop lets one of them take a *)
(* step whenever the others wait.                                          *)
(***************************************************************************)
CONSTANTS
    Caller,     \* the coroutines
    None        \* no value

VARIABLES
    pc,         \* where each of them is in its call, or "idle"
    arg         \* what it works on, or None

Start(c, where) ==
    /\ pc[c] = "idle"
    /\ pc' = [pc EXCEPT ![c] = where]

Go(c, from, to) ==
    /\ pc[c] = from
    /\ pc' = [pc EXCEPT ![c] = to]

Return(c) ==
    /\ pc' = [pc EXCEPT ![c] = "idle"]
    /\ arg' = [arg EXCEPT ![c] = None]

=============================================================================
