----------------------------- MODULE MCStartup -----------------------------
(* Instance of RoomStartup for TLC. *)
EXTENDS RoomStartup, TLC

CONSTANTS w1, w2, u1, u2, a0, a1, a2, b

TwoWorkers == {w1, w2}
TwoUsers == {u1, u2}
Interchangeable == Permutations(User) \union Permutations(Worker)
OneKind == <<"queue">>

(* two AI slaves of room 1 around a player of another room, and then its   *)
(* master: configured in an order that none of the loops keeps             *)
Configured ==
    << [id |-> a1, room |-> 1, master |-> FALSE],
       [id |-> b, room |-> 2, master |-> TRUE],
       [id |-> a2, room |-> 1, master |-> FALSE],
       [id |-> a0, room |-> 1, master |-> TRUE] >>

(* every list of up to MaxPlayers AI players of three rooms *)
MaxPlayers == 4

Lists ==
    UNION { { [i \in 1 .. n |-> [id |-> i] @@ kinds[i]] :
                kinds \in [1 .. n -> [room : 1 .. 3, master : BOOLEAN]] } :
            n \in 1 .. MaxPlayers }

OneMaster(list, r) == Cardinality({p \in Range(list) : p.room = r /\ IsMaster(p)}) = 1

(* What init_db combines are the rooms of the configuration, master first. *)
ASSUME GroupsAreRooms ==
    \A list \in Lists :
        /\ AreRooms(Groups(list), list)
        /\ \A r \in 1 .. 3 : OneMaster(list, r) => IsRoomOf(GroupOf(list, r), list, r)

ASSUME ConfiguredIsRoom == IsRoomOf(Group, Players, Room)

(* rooms with two AI players and a place for one user, or for two *)
OneOrTwoPlaces == {[cap |-> 3, ai |-> 2], [cap |-> 4, ai |-> 2]}
=============================================================================
