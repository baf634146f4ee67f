------------------------------ MODULE GameRoom ------------------------------
(***************************************************************************)
(* What the room half of MongoClient promises its callers, with no         *)
(* transactions in sight: every operation is one step, the counters of a   *)
(* room document are the sizes of the sets they count (the AI players      *)
(* included), nobody enters a full queue or takes another's seat, a user   *)
(* in a battle keeps seat and ready flag, and a kicked user stays out      *)
(* until the freeze has run out.                                           *)
(***************************************************************************)
EXTENDS Integers, FiniteSets

CONSTANTS
    Room,       \* game rooms
    User,       \* human players
    Seat,       \* the coordinates of a room's queue grid
    Capacity,   \* [Room -> Nat]: carrying_capacity
    AiPlayers,  \* [Room -> Nat]: ai_player_cnt
    None        \* no seat

VARIABLES
    on,         \* on[k][r]: the users whose flag of kind k is set in room r
    cnt,        \* cnt[k][r]: the counter of kind k in the document of room r
    seat,       \* seat[r][u]: the queue coordinates of u, None out of the queue
    frozen      \* frozen[r]: users kicked from the queue of r, freeze running

vars == <<on, cnt, seat, frozen>>

Kind == {"online", "queue", "ready", "battle"}

Count(members) ==
    [k \in Kind |-> [r \in Room |-> AiPlayers[r] + Cardinality(members[k][r])]]

Init ==
    /\ on = [k \in Kind |-> [r \in Room |-> {}]]
    /\ cnt = Count(on)
    /\ seat = [r \in Room |-> [u \in User |-> None]]
    /\ frozen = [r \in Room |-> {}]

Members(k, r, members) ==
    /\ on' = [on EXCEPT ![k][r] = members]
    /\ cnt' = Count(on')

(* A user comes online, gets ready or enters the battle. *)
Enter(k, r, u) ==
    /\ k # "queue"
    /\ u \notin on[k][r]
    /\ Members(k, r, on[k][r] \union {u})
    /\ UNCHANGED <<seat, frozen>>

(* The reverse; a user in the battle cannot take the ready flag back. *)
Leave(k, r, u) ==
    /\ k # "queue"
    /\ u \in on[k][r]
    /\ k = "ready" => u \notin on["battle"][r]
    /\ Members(k, r, on[k][r] \ {u})
    /\ UNCHANGED <<seat, frozen>>

TakeSeat(r, u, s) ==
    /\ u \notin on["queue"][r]
    /\ u \notin frozen[r]
    /\ cnt["queue"][r] < Capacity[r]
    /\ \A v \in User : seat[r][v] # s
    /\ Members("queue", r, on["queue"][r] \union {u})
    /\ seat' = [seat EXCEPT ![r][u] = s]
    /\ UNCHANGED frozen

(* Leaving freely, or being kicked and frozen out. *)
GiveUpSeat(r, u, kicked) ==
    /\ u \in on["queue"][r]
    /\ u \notin on["battle"][r]
    /\ Members("queue", r, on["queue"][r] \ {u})
    /\ seat' = [seat EXCEPT ![r][u] = None]
    /\ frozen' = [frozen EXCEPT ![r] = IF kicked THEN @ \union {u} ELSE @ \ {u}]

Thaw(r, u) ==
    /\ u \in frozen[r]
    /\ frozen' = [frozen EXCEPT ![r] = @ \ {u}]
    /\ UNCHANGED <<on, cnt, seat>>

Next ==
    \E r \in Room, u \in User :
        \/ \E k \in Kind : Enter(k, r, u) \/ Leave(k, r, u)
        \/ \E s \in Seat : TakeSeat(r, u, s)
        \/ \E kicked \in BOOLEAN : GiveUpSeat(r, u, kicked)
        \/ Thaw(r, u)

Spec == Init /\ [][Next]_vars

=============================================================================
