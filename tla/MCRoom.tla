------------------------------- MODULE MCRoom -------------------------------
(* Instances of RoomTransactions for TLC. *)
EXTENDS RoomTransactions, TLC

CONSTANTS r1, u1, u2, u3, s1, s2, c1, c2, w1, w2

OneRoom == {r1}
OneUser == {u1}
TwoUsers == {u1, u2}
ThreeUsers == {u1, u2, u3}
TwoSeats == {s1, s2}
OneSeat == {s1}

(* carrying_capacity, with one AI player in the room *)
OneAi == [r \in OneRoom |-> 1]
PlaceForOne == [r \in OneRoom |-> 2]
PlaceForTwo == [r \in OneRoom |-> 3]

(* one client, two clients in one worker, two workers of one client each *)
Alone == [c \in {c1} |-> w1]
Together == [c \in {c1, c2} |-> w1]
Apart == (c1 :> w1) @@ (c2 :> w2)

(* Users and seats are interchangeable. *)
Interchangeable == Permutations(ThreeUsers) \union Permutations(TwoSeats)

=============================================================================
