---------------------------- MODULE Installation ----------------------------
(***************************************************************************)
(* Which AI players init_db installs together, and in which order: the     *)
(* list of the configuration, sorted by room and cut where the room        *)
(* changes, each group with the room's master at its head.                 *)
(***************************************************************************)
EXTENDS Integers, FiniteSets, Sequences, SequencesExt

IsMaster(p) == p.master

IsSlave(p) == ~ p.master

(* sorted(candidates, key=lambda x: x["room_id"]), which is stable *)
ByRoom(list) ==
    LET rooms == SetToSortSeq({p.room : p \in Range(list)}, <)
    IN  FlattenSeq([i \in DOMAIN rooms |->
                      SelectSeq(list, LAMBDA p : p.room = rooms[i])])

MasterFirst(group) == SelectSeq(group, IsMaster) \o SelectSeq(group, IsSlave)

Close(scan) == Append(scan.closed, MasterFirst(scan.group))

(* One turn of the loop: p joins the group or closes it. *)
Combine(scan, p) ==
    IF p.room = Last(scan.group).room
    THEN [scan EXCEPT !.group = Append(@, p)]
    ELSE [closed |-> Close(scan), group |-> <<p>>]

Groups(list) ==
    LET sorted == ByRoom(list)
        start == [closed |-> <<>>, group |-> <<Head(sorted)>>]
    IN  Close(FoldLeft(Combine, start, Tail(sorted)))

(* The AI players of the room, in the order in which init_db writes them. *)
GroupOf(list, room) == CHOOSE g \in Range(Groups(list)) : g[1].room = room

(* A group is a room with one master: he comes first, and then each of its *)
(* slaves once.                                                            *)
IsRoomOf(group, list, room) ==
    /\ group \in Seq(Range(list)) /\ IsInjective(group)
    /\ Range(group) = {p \in Range(list) : p.room = room}
    /\ \A i \in DOMAIN group : IsMaster(group[i]) <=> i = 1

(* The groups of the list are its rooms in ascending order: each player is *)
(* in the group of his room once, masters come before slaves, so that the  *)
(* room is open before a slave is added, and otherwise as configured.      *)
AreRooms(groups, list) ==
    LET all == FlattenSeq(groups)
    IN  /\ \A i, j \in DOMAIN all : i < j =>
              \/ all[i].room < all[j].room
              \/ all[i].room = all[j].room /\ (IsSlave(all[i]) => IsSlave(all[j]))
        /\ \A g \in Range(groups) : g # <<>> /\ g[1].room = Last(g).room
        /\ Cardinality({p.room : p \in Range(list)}) = Len(groups)
        /\ \A r \in {p.room : p \in Range(list)}, m \in BOOLEAN :
              LET those(p) == p.room = r /\ p.master = m
              IN  SelectSeq(all, those) = SelectSeq(list, those)
        /\ Len(all) = Len(list)
=============================================================================
