------------------------------ MODULE RoomViews ------------------------------
(***************************************************************************)
(* What users are shown of the installed rooms (ext_mongo/ha.py,           *)
(* list_game_rooms and query_game_room): a page of rooms in their order,   *)
(* then of each room the users online and the grid of its queue.  Every    *)
(* list is a read of its own from a secondary, one after the other, while  *)
(* users come, sit down, get ready and leave and a worker that starts      *)
(* installs a room anew.  The cells of AI players, which routers do not    *)
(* give to users, are always filled and left out.                          *)
(***************************************************************************)
EXTENDS Integers, FiniteSets, Sequences, SequencesExt

CONSTANTS
    Room,       \* installed rooms of one game
    User,
    Cell,       \* cells of a grid that are not an AI player's
    Weight,     \* be_hosting and rank_weight of each room, as one number
    Shapes,     \* the cells a room may be given anew, see queue_symbol
    NeedsSlave, \* rooms whose grid shows the first assistant
    AiPlayers,  \* ai_player_cnt of each room
    Limits,     \* values of limit: rooms on a page
    OnlineLimit, QueueLimit, \* users that a list returns: 100 and 10
    Faults,     \* which of FaultKind may happen
    MaxCommit,  \* bound: commits of others
    MaxLag,     \* bound: commits a secondary may be behind
    None

(* A list that cannot be read; an operation on a room of which only the    *)
(* flag is committed, not the counter.                                     *)
FaultKind == {"page", "online", "queue", "half"}

ASSUME ConstantsAssumption ==
    /\ IsFiniteSet(Room) /\ IsFiniteSet(User) /\ IsFiniteSet(Cell)
    /\ Weight \in [Room -> Int]
    /\ Shapes \subseteq SUBSET Cell /\ NeedsSlave \subseteq Room
    /\ AiPlayers \in [Room -> Nat]
    /\ Limits \subseteq Nat \ {0} /\ OnlineLimit \in Nat /\ QueueLimit \in Nat
    /\ Faults \subseteq FaultKind
    /\ MaxCommit \in Nat /\ MaxLag \in Nat
    /\ None \notin Room \union Cell

VARIABLES
    place,      \* of each user: room and cell, no cell if only online
    ready,      \* users who are ready
    cells,      \* cells of each room
    helped,     \* rooms with an assistant
    queuedCnt,  \* in_game_queue_user_cnt of each room
    onlineCnt,  \* online_user_cnt of each room
    commits,    \* commits of others so far
    lagging,    \* earlier states a secondary may still show
    pc,         \* where the call is
    page,       \* documents of the rooms it still has to fill
    pending,    \* users of the queue whose readiness it has to read
    filling,    \* online users and grid of the first room of page
    answer,     \* those of the rooms that are filled
    moved,      \* users whom the reads of this call may show differently
    limit,      \* rooms on a page
    offset,     \* rooms that the pages so far have skipped or shown
    listed,     \* rooms on these pages, as long as steady
    steady      \* whether since the first page there is only one order

db == <<place, ready, cells, helped, queuedCnt, onlineCnt>>
call == <<pc, page, pending, filling, answer>>
pages == <<limit, offset, listed, steady>>
vars == <<db, commits, lagging, call, moved, pages>>

Nowhere == [room |-> None, cell |-> None]

View == [place |-> place, ready |-> ready, cells |-> cells, helped |-> helped,
         queuedCnt |-> queuedCnt, onlineCnt |-> onlineCnt]

Visible == {View} \union ToSet(lagging)

Empty == [online |-> {}, grid |-> {}, cut |-> FALSE]

Places == {Nowhere} \union [room : Room, cell : Cell \union {None}]

In(where, r) == {u \in User : where[u].room = r}

Seated(where, r) == {u \in In(where, r) : where[u].cell # None}

(* What a starting worker counts: the users there are and the AI players.  *)
Queued(r) == AiPlayers[r] + Cardinality(Seated(place, r))
Online(r) == AiPlayers[r] + Cardinality(In(place, r))

(* Any users may be anywhere, also two of them in one cell.                *)
Init ==
    /\ place \in [User -> Places] /\ ready \in SUBSET User
    /\ cells = [r \in Room |-> Cell] /\ helped = Room
    /\ \A u \in ready : place[u].cell # None
    /\ queuedCnt = [r \in Room |-> Queued(r)]
    /\ onlineCnt = [r \in Room |-> Online(r)]
    /\ commits = 0 /\ lagging = <<>>
    /\ pc = "idle" /\ page = <<>> /\ pending = {} /\ filling = Empty
    /\ answer = <<>> /\ moved = {}
    /\ limit = 0 /\ offset = 0 /\ listed = <<>> /\ steady = FALSE

-----------------------------------------------------------------------------
(* sort_rules *)
Before(v, r, s) ==
    \/ Weight[r] > Weight[s]
    \/ /\ Weight[r] = Weight[s]
       /\ \/ v.queuedCnt[r] < v.queuedCnt[s]
          \/ /\ v.queuedCnt[r] = v.queuedCnt[s]
             /\ v.onlineCnt[r] > v.onlineCnt[s]

(* All orders in which the rooms may come: update_ts is a second, so what  *)
(* the other rules do not decide is open.                                  *)
Orders(v) ==
    {o \in SetToSeqs(Room) : \A i, j \in DOMAIN o : i < j => ~Before(v, o[j], o[i])}

(* Mutant: the page starts one room late. *)
SkippedLate(o, n) == SubSeq(o, n + 2, Min({n + 1 + limit, Len(o)}))

(* skip(offset).limit(limit) *)
Skipped(o, n) == SubSeq(o, n + 1, Min({n + limit, Len(o)}))

Document(v, r) == [room |-> r, cells |-> v.cells[r], helped |-> r \in v.helped]

Differing ==
    {u \in User : \E v \in Visible : v.place[u] # place[u] \/ (u \in v.ready) # (u \in ready)}

(* The caller asks for the first page, or for the one after the last. *)
List ==
    /\ pc = "idle"
    /\ pc' = "page"
    /\ moved' = Differing
    /\ \/ /\ limit' \in Limits /\ offset' = 0 /\ listed' = <<>>
          /\ steady' = (Cardinality(UNION {Orders(v) : v \in Visible}) = 1)
       \/ offset \in 1 .. Cardinality(Room) - 1 /\ UNCHANGED pages
    /\ UNCHANGED <<db, commits, lagging, page, pending, filling, answer>>

(* With use_fast_path the documents are all there is to the answer. *)
ReadPage ==
    /\ pc = "page"
    /\ \E v \in Visible : \E o \in Orders(v) :
         LET rooms == Skipped(o, offset) IN
         /\ listed' = IF steady THEN listed \o rooms ELSE <<>>
         /\ \/ pc' = "online" /\ page' = [i \in DOMAIN rooms |-> Document(v, rooms[i])]
            \/ pc' = "answered" /\ UNCHANGED page
    /\ offset' = offset + limit
    /\ UNCHANGED <<limit, db, commits, lagging, pending, filling, answer, moved, steady>>

(* query_game_room *)
Query(r) ==
    /\ pc = "idle"
    /\ \E v \in Visible : page' = <<Document(v, r)>>
    /\ pc' = "online"
    /\ moved' = Differing
    /\ UNCHANGED <<db, commits, lagging, pending, filling, answer, pages>>

(* Mutant: one user too few. *)
ReturnedTooFew(us, most) ==
    {s \in SUBSET us : Cardinality(s) = Min({Cardinality(us), most - 1})}

(* Of the users a query finds, those who came first, up to the limit;      *)
(* which these are is left open.                                           *)
Returned(us, most) ==
    {s \in SUBSET us : Cardinality(s) = Min({Cardinality(us), most})}

ReadOnline ==
    /\ pc = "online" /\ page # <<>>
    /\ \E v \in Visible : \E us \in Returned(In(v.place, Head(page).room), OnlineLimit) :
         filling' = [filling EXCEPT !.online = us]
    /\ pc' = "queue"
    /\ UNCHANGED <<db, commits, lagging, page, pending, answer, moved, pages>>

ReadQueue ==
    /\ pc = "queue"
    /\ \E v \in Visible :
         \E us \in Returned(Seated(v.place, Head(page).room), QueueLimit) :
           /\ pending' = {[user |-> u, cell |-> v.place[u].cell] : u \in us}
           /\ filling' = [filling EXCEPT !.cut = (Cardinality(us) = QueueLimit)]
    /\ pc' = "ready"
    /\ UNCHANGED <<db, commits, lagging, page, answer, moved, pages>>

ReadReady ==
    /\ pc = "ready"
    /\ \E p \in pending, v \in Visible :
         /\ pending' = pending \ {p}
         /\ filling' = [filling EXCEPT !.grid = @ \union
                          {[user |-> p.user, cell |-> p.cell, ready |-> p.user \in v.ready]}]
    /\ UNCHANGED <<db, commits, lagging, pc, page, answer, moved, pages>>

(* A list that cannot be read counts as empty, and what it had no longer   *)
(* matters to the answer.  A caller without a page begins again.           *)
ReadFails ==
    \/ /\ "page" \in Faults /\ pc = "page"
       /\ pc' = "answered" /\ limit' = 0 /\ offset' = 0 /\ listed' = <<>> /\ steady' = FALSE
       /\ UNCHANGED <<db, commits, lagging, page, pending, filling, answer, moved>>
    \/ /\ "online" \in Faults /\ pc = "online" /\ page # <<>>
       /\ pc' = "queue" /\ moved' = User
       /\ UNCHANGED <<db, commits, lagging, page, pending, filling, answer, pages>>
    \/ /\ "queue" \in Faults /\ pc \in {"queue", "ready"}
       /\ pc' = "ready" /\ pending' = {}
       /\ filling' = [filling EXCEPT !.grid = {}] /\ moved' = User
       /\ UNCHANGED <<db, commits, lagging, page, answer, pages>>

(* ai_slaves[0] and the row of every user are there. *)
Fits(d) ==
    /\ d.room \in NeedsSlave => d.helped
    /\ \A x \in filling.grid : x.cell \in d.cells

(* The users are written into the grid one after the other: of those in    *)
(* one cell the last one stays.                                            *)
Grids ==
    {g \in SUBSET filling.grid :
       /\ {x.cell : x \in g} = {x.cell : x \in filling.grid}
       /\ \A x, y \in g : x.cell = y.cell => x = y}

Fill ==
    /\ pc = "ready" /\ pending = {} /\ Fits(Head(page))
    /\ \E g \in Grids :
         answer' = [r \in DOMAIN answer \union {Head(page).room} |->
                      IF r = Head(page).room THEN [filling EXCEPT !.grid = g] ELSE answer[r]]
    /\ page' = Tail(page) /\ filling' = Empty
    /\ pc' = "online"
    /\ UNCHANGED <<db, commits, lagging, pending, moved, pages>>

(* IndexError: the rooms from here on stay without grids, done is False. *)
OutOfRange ==
    /\ pc = "ready" /\ pending = {} /\ ~Fits(Head(page))
    /\ pc' = "answered"
    /\ UNCHANGED <<db, commits, lagging, page, pending, filling, answer, moved, pages>>

AllFilled ==
    /\ pc = "online" /\ page = <<>>
    /\ pc' = "answered"
    /\ UNCHANGED <<db, commits, lagging, page, pending, filling, answer, moved, pages>>

(* Mutant: what was filled last is kept for the next call. *)
ReturnKept ==
    /\ pc = "answered"
    /\ pc' = "idle" /\ page' = <<>> /\ answer' = <<>> /\ moved' = {}
    /\ UNCHANGED <<db, commits, lagging, pending, filling, pages>>

Return ==
    /\ pc = "answered"
    /\ pc' = "idle" /\ page' = <<>> /\ filling' = Empty /\ answer' = <<>> /\ moved' = {}
    /\ UNCHANGED <<db, commits, lagging, pending, pages>>

-----------------------------------------------------------------------------
(* What the operations on rooms and a starting worker commit meanwhile. *)

Commit ==
    /\ commits < MaxCommit /\ commits' = commits + 1
    /\ LET longer == Append(lagging, View)
       IN  lagging' = IF Len(longer) > MaxLag THEN Tail(longer) ELSE longer
    /\ steady' = (steady /\ Orders(View') = Orders(View))
    /\ listed' = IF steady' THEN listed ELSE <<>>
    /\ UNCHANGED <<call, limit, offset>>

Moves(u) ==
    /\ moved' = IF pc = "idle" THEN moved ELSE moved \union {u}
    /\ UNCHANGED <<cells, helped>>
    /\ Commit

Go(u, where) ==
    /\ place' = [place EXCEPT ![u] = where]
    /\ UNCHANGED ready
    /\ Moves(u)

(* The counter after the operation, which may fail to change it.           *)
Counted(counter, r, n) ==
    {[counter EXCEPT ![r] = @ + n]} \union {counter : f \in Faults \cap {"half"}}

Come(u, r) ==
    /\ place[u] = Nowhere
    /\ onlineCnt' \in Counted(onlineCnt, r, 1) /\ UNCHANGED queuedCnt
    /\ Go(u, [room |-> r, cell |-> None])

Leave(u) ==
    /\ place[u] # Nowhere /\ place[u].cell = None
    /\ onlineCnt' \in Counted(onlineCnt, place[u].room, -1) /\ UNCHANGED queuedCnt
    /\ Go(u, Nowhere)

(* Cells in which a reader of that state finds nobody: of the queue he has *)
(* the first users, or fewer when the list breaks off.                     *)
LooksFree(v, r) ==
    LET taken(us) == {v.place[o].cell : o \in us}
        queue == Seated(v.place, r)
    IN  UNION {cells[r] \ taken(us) :
                 us \in IF "queue" \in Faults THEN SUBSET queue
                                              ELSE Returned(queue, QueueLimit)}

SitDown(u, x) ==
    /\ place[u].room # None /\ place[u].cell = None
    /\ x \in UNION {LooksFree(v, place[u].room) : v \in Visible}
    /\ queuedCnt' \in Counted(queuedCnt, place[u].room, 1) /\ UNCHANGED onlineCnt
    /\ Go(u, [place[u] EXCEPT !.cell = x])

StandUp(u) ==
    /\ place[u].cell # None
    /\ queuedCnt' \in Counted(queuedCnt, place[u].room, -1) /\ UNCHANGED onlineCnt
    /\ Go(u, [place[u] EXCEPT !.cell = None])

GetReady(u) ==
    /\ place[u].cell # None
    /\ ready' = IF u \in ready THEN ready \ {u} ELSE ready \union {u}
    /\ UNCHANGED <<place, queuedCnt, onlineCnt>>
    /\ Moves(u)

(* upsert_installed_game_room_info for the master, for a slave *)
Install(r, shape) ==
    /\ cells' = [cells EXCEPT ![r] = shape]
    /\ helped' = helped \ {r}
    /\ queuedCnt' = [queuedCnt EXCEPT ![r] = Queued(r)]
    /\ onlineCnt' = [onlineCnt EXCEPT ![r] = Online(r)]
    /\ UNCHANGED <<place, ready, moved>>
    /\ Commit

Assist(r) ==
    /\ r \notin helped
    /\ helped' = helped \union {r}
    /\ UNCHANGED <<place, ready, cells, queuedCnt, onlineCnt, moved>>
    /\ Commit

Replicate ==
    /\ lagging # <<>>
    /\ lagging' = Tail(lagging)
    /\ UNCHANGED <<db, commits, call, moved, pages>>

Next ==
    \/ List \/ \E r \in Room : Query(r)
    \/ ReadPage \/ ReadOnline \/ ReadQueue \/ ReadReady \/ ReadFails
    \/ Fill \/ OutOfRange \/ AllFilled \/ Return
    \/ \E u \in User :
         \/ \E r \in Room : Come(u, r)
         \/ \E x \in Cell : SitDown(u, x)
         \/ StandUp(u) \/ Leave(u) \/ GetReady(u)
    \/ \E r \in Room : Assist(r) \/ \E shape \in Shapes : Install(r, shape)
    \/ Replicate

Spec == Init /\ [][Next]_vars

-----------------------------------------------------------------------------
Shown == [online : SUBSET User,
          grid : SUBSET [user : User, cell : Cell, ready : BOOLEAN],
          cut : BOOLEAN]

States == [place : [User -> Places], ready : SUBSET User,
           cells : [Room -> SUBSET Cell], helped : SUBSET Room,
           queuedCnt : [Room -> Int], onlineCnt : [Room -> Int]]

TypeOK ==
    /\ View \in States
    /\ commits \in 0 .. MaxCommit
    /\ lagging \in Seq(States) /\ Len(lagging) <= MaxLag
    /\ pc \in {"idle", "page", "online", "queue", "ready", "answered"}
    /\ page \in Seq([room : Room, cells : SUBSET Cell, helped : BOOLEAN])
    /\ pending \subseteq [user : User, cell : Cell]
    /\ pc = "idle" => filling = Empty
    /\ pc # "ready" => pending = {}
    /\ pc \in {"queue", "ready"} => page # <<>>
    /\ filling \in Shown
    /\ DOMAIN answer \subseteq Room /\ \A r \in DOMAIN answer : answer[r] \in Shown
    /\ moved \subseteq User
    /\ limit \in Limits \union {0} /\ offset \in Nat /\ listed \in Seq(Room)
    /\ steady \in BOOLEAN

(* Of a user who has kept place and readiness since the call began, the    *)
(* answer tells what is so, whatever others did between its reads: he is   *)
(* among those online in his room and in no other, unless the list has     *)
(* reached its limit; a row of his is in his cell, as ready as he is; and  *)
(* his cell is filled, with him or with a user who got the same cell or    *)
(* has moved, unless the list of the queue has reached its limit.          *)
SeatedAreShown ==
    \A r \in DOMAIN answer : \A u \in User \ moved :
      /\ u \in answer[r].online => place[u].room = r
      /\ place[u].room = r =>
           u \in answer[r].online \/ Cardinality(answer[r].online) = OnlineLimit
      /\ \A x \in answer[r].grid : x.user = u =>
           place[u] = [room |-> r, cell |-> x.cell] /\ x.ready = (u \in ready)
      /\ place[u].room = r /\ place[u].cell # None =>
           answer[r].cut \/ \E x \in answer[r].grid : x.cell = place[u].cell

(* Someone who turns page after page while the order of the rooms stays as *)
(* it is sees each room once, and all of them at the end.                  *)
PagesComplete ==
    steady => /\ IsInjective(listed)
              /\ offset >= Cardinality(Room) => ToSet(listed) = Room

=============================================================================
