--------------------------- MODULE RoomViewsProofs ---------------------------
(***************************************************************************)
(* Theorems about RoomViews for any number of rooms, users and cells,      *)
(* whatever users do between the reads and however far secondaries lag.    *)
(***************************************************************************)
EXTENDS RoomViews, TLAPS, FiniteSetTheorems, SequenceTheorems

USE DEF db, call, pages

-----------------------------------------------------------------------------
(* The inductive invariant *)

(* During a call everything that may be read agrees on whom it does not    *)
(* count as moved.                                                         *)
Agreed ==
    pc # "idle" =>
      \A v \in Visible : \A u \in User \ moved :
        v.place[u] = place[u] /\ (u \in v.ready <=> u \in ready)

OnlineRight(users, r) ==
    /\ \A u \in User \ moved : u \in users => place[u].room = r
    /\ \/ Cardinality(users) = OnlineLimit
       \/ \A u \in User \ moved : place[u].room = r => u \in users

(* What is said of a user is so ... *)
CellsRight(entries, r) ==
    \A x \in entries :
        x.user \notin moved => place[x.user] = [room |-> r, cell |-> x.cell]

ReadinessRight(grid) ==
    \A x \in grid : x.user \notin moved => (x.ready <=> x.user \in ready)

(* ... and the cell of everyone in the queue is filled. *)
NoneMissing(entries, r, cut) ==
    cut \/ \A u \in User \ moved :
             place[u].room = r /\ place[u].cell # None =>
               \E x \in entries : x.cell = place[u].cell

GridRight(grid, r, cut) ==
    CellsRight(grid, r) /\ ReadinessRight(grid) /\ NoneMissing(grid, r, cut)

(* Where the call is, and what it has read so far of the first room of its *)
(* page.                                                                   *)
FillingRight ==
    LET r == Head(page).room IN
    /\ pc \in {"idle", "page", "online"} => filling = Empty
    /\ pc = "queue" => filling.grid = {}
    /\ pc \in {"queue", "ready"} => OnlineRight(filling.online, r)
    /\ pc = "ready" =>
         /\ CellsRight(filling.grid, r) /\ ReadinessRight(filling.grid)
         /\ CellsRight(pending, r)
         /\ NoneMissing(filling.grid \union pending, r, filling.cut)

AnswersRight ==
    /\ pc \in {"idle", "page"} => DOMAIN answer = {}
    /\ \A r \in DOMAIN answer :
         /\ OnlineRight(answer[r].online, r)
         /\ GridRight(answer[r].grid, r, answer[r].cut)

ViewsInv == TypeOK /\ Agreed /\ FillingRight /\ AnswersRight

(* As long as there is one order, the pages so far are its beginning. *)
PagesRight ==
    steady =>
      \E o \in SetToSeqs(Room) :
        /\ \A v \in Visible : Orders(v) \subseteq {o}
        /\ Len(listed) = Min({offset, Len(o)})
        /\ \A i \in DOMAIN listed : listed[i] = o[i]

-----------------------------------------------------------------------------
(* Lemmas about the operators *)

Docs == [room : Room, cells : SUBSET Cell, helped : BOOLEAN]

Pending == [user : User, cell : Cell]

LEMMA ViewsTyped == ASSUME TypeOK PROVE Visible \subseteq States
<1>1. View \in States /\ lagging \in Seq(States)  BY DEF TypeOK
<1> HIDE DEF States
<1>2. \A i \in DOMAIN lagging : lagging[i] \in States  BY <1>1
<1>3. QED  BY <1>1, <1>2 DEF Visible, ToSet

LEMMA PlaceTyped ==
    ASSUME TypeOK
    PROVE  /\ place \in [User -> Places] /\ ready \subseteq User
           /\ cells \in [Room -> SUBSET Cell] /\ helped \subseteq Room
           /\ queuedCnt \in [Room -> Int] /\ onlineCnt \in [Room -> Int]
  BY DEF TypeOK, View, States

LEMMA ViewTyped ==
    ASSUME TypeOK, NEW v \in Visible
    PROVE  /\ v.place \in [User -> Places] /\ v.ready \subseteq User
           /\ v.cells \in [Room -> SUBSET Cell] /\ v.helped \subseteq Room
  BY ViewsTyped DEF States

(* Of a user with a cell. *)
LEMMA SeatedPlace ==
    ASSUME NEW x \in Places
    PROVE  /\ x.cell # None => x.cell \in Cell /\ x.room \in Room
           /\ x.room # None => x.room \in Room
           /\ x.room = None => x = Nowhere
           /\ x = [room |-> x.room, cell |-> x.cell]
  BY ConstantsAssumption DEF Places, Nowhere

(* A commit adds the state it leaves behind and the one it leads to. *)
LEMMA AfterCommit ==
    ASSUME TypeOK, Commit
    PROVE  /\ Visible' \subseteq Visible \union {View'}
           /\ lagging' \in Seq(States) /\ Len(lagging') <= MaxLag
<1> DEFINE longer == Append(lagging, View)
<1>1. View \in States /\ lagging \in Seq(States) /\ Len(lagging) <= MaxLag
  BY DEF TypeOK
<1>2. /\ Visible = {View} \union ToSet(lagging)
      /\ Visible' = {View'} \union ToSet(lagging')
      /\ lagging' = IF Len(longer) > MaxLag THEN Tail(longer) ELSE longer
  BY DEF Visible, Commit
<1> DEFINE now == View
<1>3. now = View  OBVIOUS
<1> HIDE DEF States, now
<1>4. /\ longer \in Seq(States) /\ Len(longer) = Len(lagging) + 1
      /\ \A i \in 1 .. Len(longer) : longer[i] \in ToSet(lagging) \union {now}
  <2>1. now \in States  BY <1>1, <1>3
  <2>2. longer = Append(lagging, now)  BY <1>3
  <2>3. QED  BY <1>1, <2>1, <2>2, AppendProperties DEF ToSet
<1>5. /\ Tail(longer) \in Seq(States) /\ Len(Tail(longer)) = Len(lagging)
      /\ \A i \in 1 .. Len(Tail(longer)) : Tail(longer)[i] = longer[i + 1]
  <2>1. Len(longer) # 0  BY <1>1, <1>4
  <2> HIDE DEF longer
  <2>2. longer # <<>>  BY <2>1
  <2>3. Len(lagging) \in Nat  BY <1>1
  <2>4. /\ Tail(longer) \in Seq(States) /\ Len(Tail(longer)) = Len(longer) - 1
        /\ \A i \in 1 .. Len(Tail(longer)) : Tail(longer)[i] = longer[i + 1]
    BY <1>4, <2>2, HeadTailProperties
  <2>5. QED  BY <1>4, <2>3, <2>4
<1> HIDE DEF longer
<1>6. MaxLag \in Nat /\ Len(lagging) \in Nat  BY <1>1, ConstantsAssumption
<1>7. CASE Len(longer) > MaxLag
  <2>1. lagging' = Tail(longer)  BY <1>2, <1>7
  <2>2. \A i \in DOMAIN lagging' : lagging'[i] \in ToSet(lagging) \union {now}
    <3>1. DOMAIN lagging' = 1 .. Len(lagging)  BY <1>5, <2>1
    <3>2. ASSUME NEW i \in 1 .. Len(lagging)
          PROVE  lagging'[i] \in ToSet(lagging) \union {now}
      <4>1. i + 1 \in 1 .. Len(longer)  BY <1>4, <1>6
      <4>2. QED  BY <1>4, <1>5, <2>1, <4>1
    <3>3. QED  BY <3>1, <3>2
  <2>3. QED  BY <1>1, <1>2, <1>3, <1>5, <2>1, <2>2 DEF ToSet
<1>8. CASE ~(Len(longer) > MaxLag)
  <2>1. lagging' = longer  BY <1>2, <1>8
  <2>2. \A i \in DOMAIN lagging' : lagging'[i] \in ToSet(lagging) \union {now}
    BY <1>4, <2>1
  <2>3. Len(lagging') <= MaxLag  BY <1>4, <1>6, <1>8, <2>1
  <2>4. QED  BY <1>2, <1>3, <1>4, <2>1, <2>2, <2>3 DEF ToSet
<1>9. QED  BY <1>7, <1>8

LEMMA AfterReplicate ==
    ASSUME TypeOK, Replicate
    PROVE  /\ Visible' \subseteq Visible
           /\ lagging' \in Seq(States) /\ Len(lagging') <= MaxLag
<1>1. /\ lagging # <<>> /\ lagging' = Tail(lagging)
      /\ lagging \in Seq(States) /\ Len(lagging) <= MaxLag
      /\ View' = View
  BY DEF TypeOK, Replicate, View
<1> HIDE DEF States
<1>2. /\ lagging' \in Seq(States) /\ Len(lagging') = Len(lagging) - 1
      /\ \A i \in 1 .. Len(lagging') : lagging'[i] = lagging[i + 1]
  BY <1>1, HeadTailProperties
<1>3. \A i \in DOMAIN lagging' : lagging'[i] \in ToSet(lagging)
  <2>1. Len(lagging) \in Nat /\ DOMAIN lagging = 1 .. Len(lagging)  BY <1>1
  <2>2. ASSUME NEW i \in DOMAIN lagging' PROVE lagging'[i] \in ToSet(lagging)
    <3>1. i \in 1 .. Len(lagging) - 1  BY <1>2
    <3>2. i + 1 \in DOMAIN lagging  BY <2>1, <3>1
    <3>3. QED  BY <1>2, <3>1, <3>2 DEF ToSet
  <2>3. QED  BY <2>2
<1>4. Visible' = {View'} \union ToSet(lagging') /\ Visible = {View} \union ToSet(lagging)
  BY DEF Visible
<1>5. ToSet(lagging') \subseteq ToSet(lagging)  BY <1>3 DEF ToSet
<1>6. Len(lagging) \in Nat /\ MaxLag \in Nat  BY <1>1, ConstantsAssumption
<1>7. QED  BY <1>1, <1>2, <1>4, <1>5, <1>6

(* The rooms of a page. *)
LEMMA SkippedTyped ==
    ASSUME NEW o \in SetToSeqs(Room), NEW n \in Nat, limit \in Nat
    PROVE  /\ o \in Seq(Room) /\ Len(o) = Cardinality(Room)
           /\ \A i, j \in DOMAIN o : o[i] = o[j] => i = j
           /\ Skipped(o, n) \in Seq(Room)
           /\ Len(Skipped(o, n)) = IF n < Min({n + limit, Len(o)})
                                   THEN Min({n + limit, Len(o)}) - n ELSE 0
           /\ \A i \in 1 .. Len(Skipped(o, n)) : Skipped(o, n)[i] = o[n + i]
<1> DEFINE N == Cardinality(Room)
<1>1. N \in Nat  BY ConstantsAssumption, FS_CardinalityType
<1>2. /\ o \in [1 .. N -> Room]
      /\ \A i, j \in 1 .. N : i # j => o[i] # o[j]
  BY DEF SetToSeqs
<1> HIDE DEF N
<1>3. o \in Seq(Room) /\ Len(o) = N /\ DOMAIN o = 1 .. N
  BY <1>1, <1>2, SeqDef
<1> DEFINE last == Min({n + limit, Len(o)})
<1>4. last = IF n + limit <= N THEN n + limit ELSE N
  BY <1>1, <1>3 DEF Min
<1>5. last \in Int /\ last <= N /\ last \in Nat  BY <1>1, <1>4
<1>6. Skipped(o, n) = SubSeq(o, n + 1, last)  BY DEF Skipped
<1> HIDE DEF last
<1>7. \A i \in n + 1 .. last : o[i] \in Room  BY <1>1, <1>2, <1>5
<1>8. n + 1 \in Int  OBVIOUS
<1>9. /\ SubSeq(o, n + 1, last) \in Seq(Room)
      /\ Len(SubSeq(o, n + 1, last)) = IF n + 1 <= last THEN last - (n + 1) + 1 ELSE 0
      /\ \A i \in 1 .. last - (n + 1) + 1 : SubSeq(o, n + 1, last)[i] = o[n + 1 + i - 1]
  BY ONLY <1>5, <1>7, <1>8, SubSeqProperties
<1>10. Len(Skipped(o, n)) = IF n < last THEN last - n ELSE 0
  BY <1>5, <1>6, <1>9
<1>11. \A i \in 1 .. Len(Skipped(o, n)) : Skipped(o, n)[i] = o[n + i]
  <2>1. ASSUME NEW i \in 1 .. Len(Skipped(o, n)) PROVE Skipped(o, n)[i] = o[n + i]
    <3>1. i \in 1 .. last - (n + 1) + 1  BY <1>5, <1>10
    <3>2. n + 1 + i - 1 = n + i  BY <3>1, <1>5
    <3>3. QED  BY <1>6, <1>9, <3>1, <3>2
  <2>2. QED  BY <2>1
<1>12. QED  BY <1>2, <1>3, <1>6, <1>9, <1>10, <1>11 DEF N, last

-----------------------------------------------------------------------------
(* Types *)

LEMMA NothingIsEmpty == DOMAIN <<>> = {}
<1>1. <<>> \in Seq(Nat) /\ Len(<<>>) = 0  BY EmptySeq
<1>2. DOMAIN <<>> = 1 .. 0  BY <1>1, LenProperties
<1>3. QED  BY <1>2

(* The numbers that a starting worker writes. *)
LEMMA Numbers ==
    ASSUME NEW r \in Room
    PROVE  Queued(r) \in Int /\ Online(r) \in Int
<1> DEFINE seated == Seated(place, r)
           in == In(place, r)
<1>1. seated \subseteq User /\ in \subseteq User  BY DEF Seated, In
<1> HIDE DEF seated, in
<1>2. IsFiniteSet(seated) /\ IsFiniteSet(in)
  BY <1>1, ConstantsAssumption, FS_Subset
<1>3. Cardinality(seated) \in Nat /\ Cardinality(in) \in Nat
  BY <1>2, FS_CardinalityType
<1>4. AiPlayers[r] \in Nat  BY ConstantsAssumption
<1>5. Queued(r) = AiPlayers[r] + Cardinality(seated)
      /\ Online(r) = AiPlayers[r] + Cardinality(in)
  BY DEF Queued, Online, seated, in
<1>6. QED  BY <1>3, <1>4, <1>5

LEMMA TypeInit == Init => TypeOK
<1> SUFFICES ASSUME Init PROVE TypeOK  OBVIOUS
<1>0. queuedCnt \in [Room -> Int] /\ onlineCnt \in [Room -> Int]
  BY Numbers DEF Init
<1>1. View \in States  BY <1>0 DEF Init, View, States
<1>2. lagging \in Seq(States) /\ Len(lagging) <= MaxLag
  <2> HIDE DEF States
  <2>1. QED  BY ConstantsAssumption DEF Init
<1>3. page \in Seq([room : Room, cells : SUBSET Cell, helped : BOOLEAN])
  BY DEF Init
<1>4. /\ commits \in 0 .. MaxCommit
      /\ pc \in {"idle", "page", "online", "queue", "ready", "answered"}
      /\ pending \subseteq [user : User, cell : Cell]
      /\ pc = "idle" => filling = Empty
      /\ pc # "ready" => pending = {}
      /\ pc \in {"queue", "ready"} => page # <<>>
      /\ filling \in Shown
      /\ DOMAIN answer \subseteq Room /\ \A r \in DOMAIN answer : answer[r] \in Shown
      /\ moved \subseteq User
      /\ limit \in Limits \union {0} /\ offset \in Nat /\ steady \in BOOLEAN
  <2>1. answer = <<>> /\ filling = Empty /\ pending = {} /\ pc = "idle"
        /\ moved = {} /\ limit = 0 /\ offset = 0 /\ steady = FALSE /\ commits = 0
    BY DEF Init
  <2>2. DOMAIN answer = {}  BY <2>1, NothingIsEmpty
  <2>3. filling \in Shown  BY <2>1 DEF Empty, Shown
  <2>4. commits \in 0 .. MaxCommit  BY <2>1, ConstantsAssumption
  <2>5. QED  BY <2>1, <2>2, <2>3, <2>4
<1>5. listed \in Seq(Room)  BY DEF Init
<1>6. QED  BY <1>1, <1>2, <1>3, <1>4, <1>5 DEF TypeOK

(* A commit is well typed if the state it leads to is. *)
LEMMA CommitTypes ==
    ASSUME TypeOK, Commit, View' \in States, moved' \subseteq User
    PROVE  TypeOK'
<1>1. lagging' \in Seq(States) /\ Len(lagging') <= MaxLag  BY AfterCommit
<1>2. commits' \in 0 .. MaxCommit
  BY ConstantsAssumption DEF TypeOK, Commit
<1>3. steady' \in BOOLEAN
  <2> DEFINE same == Orders(View') = Orders(View)
  <2>1. same \in BOOLEAN /\ steady' = (steady /\ same)  BY DEF Commit
  <2> HIDE DEF same
  <2>2. QED  BY <2>1
<1>4. /\ UNCHANGED <<pc, page, pending, filling, answer, limit, offset>>
      /\ listed' \in Seq(Room)
  <2>1. UNCHANGED <<pc, page, pending, filling, answer, limit, offset>>
    BY DEF Commit
  <2>2. listed' = listed \/ listed' = <<>>  BY DEF Commit
  <2>3. listed' \in Seq(Room)
    <3>1. <<>> \in Seq(Room)  OBVIOUS
    <3>2. QED  BY <2>2, <3>1 DEF TypeOK
  <2>4. QED  BY <2>1, <2>3
<1>5. QED  BY <1>1, <1>2, <1>3, <1>4 DEF TypeOK

LEMMA CountedTyped ==
    ASSUME NEW counter \in [Room -> Int], NEW r \in Room, NEW n \in Int
    PROVE  Counted(counter, r, n) \subseteq [Room -> Int]
  BY DEF Counted

LEMMA GoTypes ==
    ASSUME TypeOK, NEW u \in User, NEW where \in Places, Go(u, where),
           queuedCnt' \in [Room -> Int], onlineCnt' \in [Room -> Int]
    PROVE  TypeOK'
<1>1. View' \in States  BY PlaceTyped DEF Go, Moves, View, States
<1>2. moved' \subseteq User  BY DEF TypeOK, Go, Moves
<1>3. QED  BY <1>1, <1>2, CommitTypes DEF Go, Moves

LEMMA ReadPageTypes == ASSUME TypeOK, ReadPage PROVE TypeOK'
<1>0. PICK v \in Visible : \E o \in Orders(v) :
        LET rooms == Skipped(o, offset) IN
        /\ listed' = IF steady THEN listed \o rooms ELSE <<>>
        /\ \/ pc' = "online" /\ page' = [i \in DOMAIN rooms |-> Document(v, rooms[i])]
           \/ pc' = "answered" /\ UNCHANGED page
  BY DEF ReadPage
<1>1. PICK o \in Orders(v) :
        LET rooms == Skipped(o, offset) IN
        /\ listed' = IF steady THEN listed \o rooms ELSE <<>>
        /\ \/ pc' = "online" /\ page' = [i \in DOMAIN rooms |-> Document(v, rooms[i])]
           \/ pc' = "answered" /\ UNCHANGED page
  BY <1>0
<1>2. limit \in Nat /\ offset \in Nat  BY ConstantsAssumption DEF TypeOK
<1> DEFINE rooms == Skipped(o, offset)
<1>3. rooms \in Seq(Room)  BY <1>2, SkippedTyped DEF Orders
<1>4. listed' = IF steady THEN listed \o rooms ELSE <<>>
  BY <1>1
<1>5. \/ pc' = "online" /\ page' = [i \in DOMAIN rooms |-> Document(v, rooms[i])]
      \/ pc' = "answered" /\ UNCHANGED page
  BY <1>1
<1> HIDE DEF rooms
<1>6. listed' \in Seq(Room)
  <2>1. <<>> \in Seq(Room)  OBVIOUS
  <2>2. QED  BY <1>3, <1>4, <2>1 DEF TypeOK
<1>7. offset' \in Nat  BY <1>2 DEF ReadPage
<1>8. page' \in Seq([room : Room, cells : SUBSET Cell, helped : BOOLEAN])
  <2>1. CASE UNCHANGED page  BY <2>1 DEF TypeOK
  <2>2. CASE page' = [i \in DOMAIN rooms |-> Document(v, rooms[i])]
    <3>1. \A r \in Room : Document(v, r) \in Docs
      BY ViewTyped DEF Document, Docs
    <3>2. Len(rooms) \in Nat /\ DOMAIN rooms = 1 .. Len(rooms)
          /\ \A i \in 1 .. Len(rooms) : rooms[i] \in Room
      BY <1>3
    <3>3. page' \in [1 .. Len(rooms) -> Docs]  BY <2>2, <3>1, <3>2
    <3> HIDE DEF Docs
    <3>4. page' \in Seq(Docs)  BY <3>2, <3>3, SeqDef
    <3>5. QED  BY <3>4 DEF Docs
  <2>3. QED  BY <1>5, <2>1, <2>2
<1>9. /\ pc' \in {"online", "answered"} /\ pc = "page"
      /\ UNCHANGED <<limit, db, commits, lagging, pending,
                     filling, answer, moved, steady>>
  BY <1>5 DEF ReadPage
<1>10. QED  BY <1>6, <1>7, <1>8, <1>9 DEF TypeOK, View

LEMMA ReadQueueTypes ==
    ASSUME TypeOK, ReadQueue PROVE pending' \subseteq Pending /\ filling' \in Shown
<1>1. PICK v \in Visible :
        \E us \in Returned(Seated(v.place, Head(page).room), QueueLimit) :
          /\ pending' = {[user |-> u, cell |-> v.place[u].cell] : u \in us}
          /\ filling' = [filling EXCEPT !.cut = (Cardinality(us) = QueueLimit)]
  BY DEF ReadQueue
<1>2. PICK us \in Returned(Seated(v.place, Head(page).room), QueueLimit) :
        /\ pending' = {[user |-> u, cell |-> v.place[u].cell] : u \in us}
        /\ filling' = [filling EXCEPT !.cut = (Cardinality(us) = QueueLimit)]
  BY <1>1
<1>3. \A u \in us : u \in User /\ v.place[u].cell # None
  BY <1>2 DEF Returned, Seated, In
<1>4. \A u \in us : v.place[u].cell \in Cell
  BY <1>3, ViewTyped, SeatedPlace
<1>5. pending' \subseteq Pending  BY <1>2, <1>3, <1>4 DEF Pending
<1> DEFINE full == Cardinality(us) = QueueLimit
<1>6. full \in BOOLEAN /\ filling' = [filling EXCEPT !.cut = full]  BY <1>2
<1> HIDE DEF full
<1>7. filling' \in Shown  BY <1>6 DEF TypeOK, Shown
<1>8. QED  BY <1>5, <1>7

LEMMA TypeNext == TypeOK /\ [Next]_vars => TypeOK'
<1> SUFFICES ASSUME TypeOK, [Next]_vars PROVE TypeOK'  OBVIOUS
<1>1. CASE List
  <2> DEFINE same == Cardinality(UNION {Orders(v) : v \in Visible}) = 1
  <2>1. /\ UNCHANGED <<db, commits, lagging, page, pending, filling, answer>>
        /\ pc = "idle" /\ pc' = "page" /\ moved' = Differing
    BY <1>1 DEF List
  <2>2. \/ limit' \in Limits /\ offset' = 0 /\ listed' = <<>> /\ steady' = same
        \/ UNCHANGED pages
    BY <1>1 DEF List
  <2>3. same \in BOOLEAN  OBVIOUS
  <2> HIDE DEF same
  <2>4. /\ limit' \in Limits \union {0} /\ offset' \in Nat /\ listed' \in Seq(Room)
        /\ steady' \in BOOLEAN
    <3>1. CASE limit' \in Limits /\ offset' = 0 /\ listed' = <<>> /\ steady' = same
      <4>1. listed' \in Seq(Room)  BY <3>1
      <4>2. QED  BY <2>3, <3>1, <4>1
    <3>2. CASE UNCHANGED pages  BY <3>2 DEF TypeOK
    <3>3. QED  BY <2>2, <3>1, <3>2
  <2>5. moved' \subseteq User
    <3>1. Differing \subseteq User  BY Zenon DEF Differing
    <3>2. QED  BY <2>1, <3>1
  <2>6. QED  BY <2>1, <2>4, <2>5 DEF TypeOK, View
<1>2. ASSUME NEW r \in Room, Query(r) PROVE TypeOK'
  <2>1. PICK v \in Visible : page' = <<Document(v, r)>>  BY <1>2 DEF Query
  <2>2. page' \in Seq([room : Room, cells : SUBSET Cell, helped : BOOLEAN])
    <3>1. Document(v, r) \in Docs  BY ViewTyped DEF Document, Docs
    <3> HIDE DEF Docs
    <3>2. page' \in Seq(Docs)  BY <2>1, <3>1
    <3>3. QED  BY <3>2 DEF Docs
  <2>3. moved' \subseteq User /\ pc = "idle" /\ pc' = "online"
    <3>1. Differing \subseteq User  BY Zenon DEF Differing
    <3>2. QED  BY <1>2, <3>1 DEF Query
  <2>4. UNCHANGED <<db, commits, lagging, pending, filling, answer, pages>>
    BY <1>2 DEF Query
  <2>5. QED  BY <2>2, <2>3, <2>4 DEF TypeOK, View
<1>3. CASE ReadPage  BY <1>3, ReadPageTypes
<1>4. CASE ReadOnline
  <2>1. filling' \in Shown
    <3>1. PICK v \in Visible :
            \E us \in Returned(In(v.place, Head(page).room), OnlineLimit) :
              filling' = [filling EXCEPT !.online = us]
      BY <1>4 DEF ReadOnline
    <3>2. PICK users \in Returned(In(v.place, Head(page).room), OnlineLimit) :
            filling' = [filling EXCEPT !.online = users]
      BY <3>1
    <3>3. users \subseteq User  BY DEF Returned, In
    <3>4. QED  BY <3>2, <3>3 DEF TypeOK, Shown
  <2>2. /\ pc = "online" /\ pc' = "queue" /\ page # <<>>
        /\ UNCHANGED <<db, commits, lagging, page, pending, answer, moved, pages>>
    BY <1>4 DEF ReadOnline
  <2>3. QED  BY <2>1, <2>2 DEF TypeOK, View
<1>5. CASE ReadQueue
  <2>1. /\ pc = "queue" /\ pc' = "ready"
        /\ UNCHANGED <<db, commits, lagging, page, answer, moved, pages>>
    BY <1>5 DEF ReadQueue
  <2>2. QED  BY <1>5, <2>1, ReadQueueTypes DEF TypeOK, View, Pending
<1>6. CASE ReadReady
  <2>1. PICK p \in pending, v \in Visible :
          /\ pending' = pending \ {p}
          /\ filling' = [filling EXCEPT !.grid = @ \union
                {[user |-> p.user, cell |-> p.cell, ready |-> p.user \in v.ready]}]
    BY <1>6 DEF ReadReady
  <2>2. /\ pc = "ready"
        /\ UNCHANGED <<db, commits, lagging, pc, page, answer, moved, pages>>
    BY <1>6 DEF ReadReady
  <2> DEFINE yes == p.user \in v.ready
  <2>3. yes \in BOOLEAN  OBVIOUS
  <2>4. filling' = [filling EXCEPT !.grid = @ \union
                      {[user |-> p.user, cell |-> p.cell, ready |-> yes]}]
    BY <2>1
  <2> HIDE DEF yes
  <2>5. filling' \in Shown
    <3>1. p.user \in User /\ p.cell \in Cell  BY <2>2 DEF TypeOK
    <3>2. QED  BY <2>3, <2>4, <3>1 DEF TypeOK, Shown
  <2>6. pending' \subseteq Pending  BY <2>1 DEF TypeOK, Pending
  <2>7. QED  BY <2>2, <2>5, <2>6 DEF TypeOK, View, Pending
<1>7. CASE ReadFails
  <2>1. /\ UNCHANGED <<db, commits, lagging, page, answer>>
        /\ limit' \in {limit, 0} /\ offset' \in {offset, 0}
        /\ listed' = listed \/ listed' = <<>>
        /\ steady' \in BOOLEAN /\ moved' \subseteq User
        /\ pc' \in {"queue", "ready", "answered"}
        /\ pending' = {}
        /\ pc' \in {"queue", "ready"} => page # <<>>
    BY <1>7 DEF ReadFails, TypeOK
  <2>4. listed' \in Seq(Room)
    <3>1. <<>> \in Seq(Room)  OBVIOUS
    <3>2. QED  BY <2>1, <3>1 DEF TypeOK
  <2>2. filling' \in Shown  BY <1>7 DEF ReadFails, TypeOK, Shown
  <2>3. QED  BY <2>1, <2>2, <2>4 DEF TypeOK, View
<1>8. CASE Fill
  <2>1. /\ page # <<>> /\ pc' = "online" /\ pending = {}
        /\ page' = Tail(page) /\ filling' = Empty
        /\ UNCHANGED <<db, commits, lagging, pending, moved, pages>>
    BY <1>8 DEF Fill, TypeOK
  <2>2. Head(page).room \in Room
    <3> HIDE DEF Docs
    <3>1. page \in Seq(Docs)  BY DEF TypeOK, Docs
    <3>2. Head(page) \in Docs  BY <2>1, <3>1, HeadTailProperties
    <3>3. QED  BY <3>2 DEF Docs
  <2>3. page' \in Seq([room : Room, cells : SUBSET Cell, helped : BOOLEAN])
    BY <2>1, HeadTailProperties DEF TypeOK
  <2>4. DOMAIN answer' \subseteq Room /\ \A r \in DOMAIN answer' : answer'[r] \in Shown
    <3>1. PICK g \in Grids : answer' =
            [r \in DOMAIN answer \union {Head(page).room} |->
               IF r = Head(page).room THEN [filling EXCEPT !.grid = g] ELSE answer[r]]
      BY <1>8 DEF Fill
    <3>2. PICK new : new = [filling EXCEPT !.grid = g]  OBVIOUS
    <3>3. new \in Shown  BY <3>2 DEF Grids, TypeOK, Shown
    <3>4. answer' = [r \in DOMAIN answer \union {Head(page).room} |->
                       IF r = Head(page).room THEN new ELSE answer[r]]
      BY <3>1, <3>2
    <3> HIDE DEF Shown
    <3>5. QED  BY <2>2, <3>3, <3>4 DEF TypeOK
  <2>5. filling' \in Shown  BY <2>1 DEF Empty, Shown
  <2>6. QED  BY <2>1, <2>3, <2>4, <2>5 DEF TypeOK, View
<1>9. CASE OutOfRange  BY <1>9 DEF OutOfRange, TypeOK, View
<1>10. CASE AllFilled  BY <1>10 DEF AllFilled, TypeOK, View
<1>11. CASE Return
  <2>1. /\ pc' = "idle" /\ page' = <<>> /\ filling' = Empty /\ answer' = <<>>
        /\ moved' = {} /\ pc = "answered"
        /\ UNCHANGED <<db, commits, lagging, pending, pages>>
    BY <1>11 DEF Return
  <2>2. DOMAIN answer' = {}  BY <2>1, NothingIsEmpty
  <2>3. filling' \in Shown /\ pending' = {}
    BY <2>1 DEF TypeOK, Empty, Shown
  <2>4. page' \in Seq([room : Room, cells : SUBSET Cell, helped : BOOLEAN])
    BY <2>1
  <2>5. QED  BY <2>1, <2>2, <2>3, <2>4 DEF TypeOK, View
<1>12. ASSUME NEW u \in User, NEW r \in Room, Come(u, r) PROVE TypeOK'
  <2>1. queuedCnt' \in [Room -> Int] /\ onlineCnt' \in [Room -> Int]
    BY <1>12, PlaceTyped, CountedTyped DEF Come
  <2>2. [room |-> r, cell |-> None] \in Places  BY DEF Places
  <2>3. QED  BY <1>12, <2>1, <2>2, GoTypes DEF Come
<1>13. ASSUME NEW u \in User, NEW x \in Cell, SitDown(u, x) PROVE TypeOK'
  <2>1. [place[u] EXCEPT !.cell = x] \in Places /\ place[u].room \in Room
    BY <1>13, PlaceTyped, SeatedPlace DEF SitDown, Places
  <2>2. queuedCnt' \in [Room -> Int] /\ onlineCnt' \in [Room -> Int]
    BY <1>13, <2>1, PlaceTyped, CountedTyped DEF SitDown
  <2>3. QED  BY <1>13, <2>1, <2>2, GoTypes DEF SitDown
<1>14. ASSUME NEW u \in User, StandUp(u) PROVE TypeOK'
  <2>1. [place[u] EXCEPT !.cell = None] \in Places /\ place[u].room \in Room
    BY <1>14, PlaceTyped, SeatedPlace DEF StandUp, Places
  <2>2. queuedCnt' \in [Room -> Int] /\ onlineCnt' \in [Room -> Int]
    BY <1>14, <2>1, PlaceTyped, CountedTyped DEF StandUp
  <2>3. QED  BY <1>14, <2>1, <2>2, GoTypes DEF StandUp
<1>15. ASSUME NEW u \in User, Leave(u) PROVE TypeOK'
  <2>1. Nowhere \in Places  BY DEF Places
  <2>2. place[u].room \in Room
    <3>1. place[u] \in Places /\ place[u] # Nowhere  BY <1>15, PlaceTyped DEF Leave
    <3>2. QED  BY <3>1, SeatedPlace
  <2>3. queuedCnt' \in [Room -> Int] /\ onlineCnt' \in [Room -> Int]
    BY <1>15, <2>2, PlaceTyped, CountedTyped DEF Leave
  <2>4. QED  BY <1>15, <2>1, <2>3, GoTypes DEF Leave
<1>16. ASSUME NEW u \in User, GetReady(u) PROVE TypeOK'
  <2>1. View' \in States
    BY <1>16, PlaceTyped DEF GetReady, Moves, View, States
  <2>2. moved' \subseteq User /\ Commit  BY <1>16 DEF GetReady, Moves, TypeOK
  <2>3. QED  BY <2>1, <2>2, CommitTypes
<1>17. ASSUME NEW r \in Room, Assist(r) PROVE TypeOK'
  <2>1. View' \in States  BY <1>17, PlaceTyped DEF Assist, View, States
  <2>2. QED  BY <1>17, <2>1, CommitTypes DEF Assist, TypeOK
<1>18. ASSUME NEW r \in Room, NEW shape \in Shapes, Install(r, shape) PROVE TypeOK'
  <2>1. View' \in States
    BY <1>18, PlaceTyped, Numbers, ConstantsAssumption DEF Install, View, States
  <2>2. QED  BY <1>18, <2>1, CommitTypes DEF Install, TypeOK
<1>19. CASE Replicate
  BY <1>19, AfterReplicate DEF Replicate, TypeOK, View
<1>20. CASE UNCHANGED vars  BY <1>20 DEF vars, TypeOK, View
<1>21. QED
  BY <1>1, <1>2, <1>3, <1>4, <1>5, <1>6, <1>7, <1>8, <1>9, <1>10, <1>11, <1>12,
     <1>13, <1>14, <1>15, <1>16, <1>17, <1>18, <1>19, <1>20
  DEF Next

(* Rooms, users and what a call has read keep their shape. *)
THEOREM TypeCorrect == Spec => []TypeOK
<1>1. QED  BY TypeInit, TypeNext, PTL DEF Spec

-----------------------------------------------------------------------------
(* Three kinds of steps: those of the call, ... *)
OwnStep ==
    \/ List \/ \E r \in Room : Query(r)
    \/ ReadPage \/ ReadOnline \/ ReadQueue \/ ReadReady \/ ReadFails
    \/ Fill \/ OutOfRange \/ AllFilled \/ Return

(* ... those that concern no user, ... *)
Elsewhere ==
    /\ UNCHANGED <<place, ready, moved, pc, page, pending, filling, answer>>
    /\ Visible' \subseteq Visible \union {View'}

(* ... and those of the user u. *)
ByUser(u) ==
    /\ moved' = IF pc = "idle" THEN moved ELSE moved \union {u}
    /\ \A o \in User \ {u} : place'[o] = place[o] /\ (o \in ready' <=> o \in ready)
    /\ UNCHANGED <<pc, page, pending, filling, answer>>
    /\ Visible' \subseteq Visible \union {View'}

LEMMA OwnStepKeeps ==
    OwnStep => /\ UNCHANGED <<place, ready, cells, helped, lagging>>
               /\ Visible' = Visible /\ View' = View
               /\ UNCHANGED <<queuedCnt, onlineCnt>>
<1> SUFFICES ASSUME OwnStep
             PROVE  UNCHANGED <<place, ready, cells, helped, lagging, queuedCnt, onlineCnt>>
  BY DEF Visible, View
<1>1. QED
  BY DEF OwnStep, List, Query, ReadPage, ReadOnline, ReadQueue, ReadReady, ReadFails,
         Fill, OutOfRange, AllFilled, Return

LEMMA GoIsByUser ==
    ASSUME TypeOK, NEW u \in User, NEW where, Go(u, where)
    PROVE  ByUser(u)
  BY PlaceTyped, AfterCommit DEF Go, Moves, Commit, ByUser

LEMMA StepKinds ==
    ASSUME TypeOK, [Next]_vars
    PROVE  OwnStep \/ Elsewhere \/ \E u \in User : ByUser(u)
<1>1. ASSUME NEW u \in User, NEW r \in Room, Come(u, r) PROVE ByUser(u)
  BY <1>1, GoIsByUser DEF Come
<1>2. ASSUME NEW u \in User, NEW x \in Cell, SitDown(u, x) PROVE ByUser(u)
  BY <1>2, GoIsByUser DEF SitDown
<1>3. ASSUME NEW u \in User, StandUp(u) PROVE ByUser(u)
  BY <1>3, GoIsByUser DEF StandUp
<1>4. ASSUME NEW u \in User, Leave(u) PROVE ByUser(u)
  BY <1>4, GoIsByUser DEF Leave
<1>5. ASSUME NEW u \in User, GetReady(u) PROVE ByUser(u)
  <2>1. Visible' \subseteq Visible \union {View'}
    BY <1>5, AfterCommit DEF GetReady, Moves
  <2>2. /\ ready' = IF u \in ready THEN ready \ {u} ELSE ready \union {u}
        /\ place' = place
        /\ moved' = IF pc = "idle" THEN moved ELSE moved \union {u}
        /\ UNCHANGED <<pc, page, pending, filling, answer>>
    BY <1>5 DEF GetReady, Moves, Commit
  <2>3. \A o \in User \ {u} : o \in ready' <=> o \in ready
    BY <2>2
  <2>4. QED  BY <2>1, <2>2, <2>3 DEF ByUser
<1>6. ASSUME \/ \E r \in Room : Assist(r) \/ \E shape \in Shapes : Install(r, shape)
             \/ Replicate \/ UNCHANGED vars
      PROVE  Elsewhere
  <2>1. CASE \E r \in Room : Assist(r) \/ \E shape \in Shapes : Install(r, shape)
    BY <2>1, AfterCommit DEF Assist, Install, Commit, Elsewhere
  <2>2. CASE Replicate
    BY <2>2, AfterReplicate DEF Replicate, Elsewhere
  <2>3. CASE UNCHANGED vars  BY <2>3 DEF vars, Visible, View, Elsewhere
  <2>4. QED  BY <1>6, <2>1, <2>2, <2>3
<1>7. QED  BY <1>1, <1>2, <1>3, <1>4, <1>5, <1>6 DEF Next, OwnStep

-----------------------------------------------------------------------------
(* What may be read *)

LEMMA AgreedNext ==
    ASSUME TypeOK, Agreed, [Next]_vars PROVE Agreed'
<1>1. CASE OwnStep
  <2>1. UNCHANGED <<place, ready>> /\ Visible' = Visible  BY <1>1, OwnStepKeeps
  <2>2. CASE moved' = Differing
    BY <2>1, <2>2 DEF Agreed, Differing
  <2>3. CASE pc' = "idle"  BY <2>3 DEF Agreed
  <2>4. CASE moved \subseteq moved' /\ pc # "idle"
    BY <2>1, <2>4 DEF Agreed
  <2>5. moved' = Differing \/ pc' = "idle" \/ (moved \subseteq moved' /\ pc # "idle")
    BY <1>1 DEF OwnStep, List, Query, ReadPage, ReadOnline, ReadQueue, ReadReady,
            ReadFails, Fill, OutOfRange, AllFilled, Return, TypeOK
  <2>6. QED  BY <2>2, <2>3, <2>4, <2>5
<1>2. CASE Elsewhere
  BY <1>2 DEF Elsewhere, View, Agreed
<1>3. ASSUME NEW u \in User, ByUser(u) PROVE Agreed'
  <2>1. CASE pc = "idle"  BY <1>3, <2>1 DEF ByUser, Agreed
  <2>2. CASE pc # "idle"
    <3>1. moved' = moved \union {u}  BY <1>3, <2>2 DEF ByUser
    <3>2. \A o \in User \ moved' : place'[o] = place[o] /\ (o \in ready' <=> o \in ready)
      BY <1>3, <3>1 DEF ByUser
    <3>3. \A v \in Visible' : v \in Visible \/ (v.place = place' /\ v.ready = ready')
      BY <1>3 DEF ByUser, View
    <3>4. ASSUME NEW v \in Visible', NEW o \in User \ moved'
          PROVE  v.place[o] = place'[o] /\ (o \in v.ready <=> o \in ready')
      <4>1. CASE v \in Visible
        BY <2>2, <3>1, <3>2, <4>1 DEF Agreed
      <4>2. CASE v.place = place' /\ v.ready = ready'  BY <4>2
      <4>3. QED  BY <3>3, <4>1, <4>2
    <3>5. QED  BY <3>4 DEF Agreed
  <2>3. QED  BY <2>1, <2>2
<1>4. QED  BY <1>1, <1>2, <1>3, StepKinds

(* What has been read stays right when others move. *)
LEMMA RightDuringOthers ==
    ASSUME TypeOK, FillingRight, AnswersRight,
           Elsewhere \/ \E u \in User : ByUser(u)
    PROVE  FillingRight' /\ AnswersRight'
<1>1. UNCHANGED <<pc, page, pending, filling, answer>>
  BY DEF Elsewhere, ByUser
<1>2. CASE pc = "idle"
  <2>1. pc' = "idle" /\ filling' = filling /\ pending' = pending
        /\ answer' = answer
    BY <1>1, <1>2
  <2>2. filling = Empty /\ DOMAIN answer = {}
    BY <1>2 DEF FillingRight, AnswersRight
  <2>3. QED  BY <2>1, <2>2 DEF FillingRight, AnswersRight
<1>3. CASE pc # "idle"
  <2>1. /\ moved \subseteq moved'
        /\ \A o \in User \ moved' : place'[o] = place[o] /\ (o \in ready' <=> o \in ready)
    BY <1>3 DEF Elsewhere, ByUser
  <2>2. ASSUME NEW r, NEW users, OnlineRight(users, r)
        PROVE  OnlineRight(users, r)'
    BY <2>1, <2>2 DEF OnlineRight
  <2>3. ASSUME NEW r, NEW entries, \A x \in entries : x.user \in User,
               CellsRight(entries, r)
        PROVE  CellsRight(entries, r)'
    BY <2>1, <2>3 DEF CellsRight
  <2>4. ASSUME NEW grid, \A x \in grid : x.user \in User, ReadinessRight(grid)
        PROVE  ReadinessRight(grid)'
    BY Zenon, <2>1, <2>4 DEF ReadinessRight
  <2>5. ASSUME NEW r, NEW entries, NEW cut, NoneMissing(entries, r, cut)
        PROVE  NoneMissing(entries, r, cut)'
    BY <2>1, <2>5 DEF NoneMissing
  <2>6. /\ \A x \in pending : x.user \in User
        /\ \A x \in filling.grid : x.user \in User
        /\ \A r \in DOMAIN answer : \A x \in answer[r].grid : x.user \in User
    BY DEF TypeOK, Shown
  <2>7. FillingRight'
    <3>1. PICK r, f, rest : r = Head(page).room /\ f = filling /\ rest = pending
      OBVIOUS
    <3>2. Head(page').room = r /\ filling' = f /\ pending' = rest /\ pc' = pc
      BY <1>1, <3>1
    <3>3. /\ pc \in {"page", "online"} => f = Empty
          /\ pc = "queue" => f.grid = {}
          /\ pc \in {"queue", "ready"} => OnlineRight(f.online, r)
          /\ pc = "ready" =>
                /\ CellsRight(f.grid, r) /\ ReadinessRight(f.grid)
                /\ CellsRight(rest, r)
                /\ NoneMissing(f.grid \union rest, r, f.cut)
      BY <3>1 DEF FillingRight
    <3>4. /\ \A x \in rest : x.user \in User
          /\ \A x \in f.grid : x.user \in User
      BY <2>6, <3>1
    <3>5. pc \in {"queue", "ready"} => OnlineRight(f.online, r)'
      BY <2>2, <3>3
    <3>6. pc = "ready" =>
                /\ CellsRight(f.grid, r)' /\ ReadinessRight(f.grid)'
                /\ CellsRight(rest, r)'
                /\ NoneMissing(f.grid \union rest, r, f.cut)'
      BY <2>3, <2>4, <2>5, <3>3, <3>4
    <3>7. QED  BY <1>3, <3>2, <3>3, <3>5, <3>6 DEF FillingRight
  <2>8. AnswersRight'
    <3>1. pc' \in {"idle", "page"} => DOMAIN answer' = {}
      BY <1>1 DEF AnswersRight
    <3>2. PICK a : a = answer  OBVIOUS
    <3>3. ASSUME NEW r \in DOMAIN a
          PROVE  OnlineRight(a[r].online, r)' /\ GridRight(a[r].grid, r, a[r].cut)'
      <4>1. OnlineRight(a[r].online, r) /\ GridRight(a[r].grid, r, a[r].cut)
        BY <3>2 DEF AnswersRight
      <4>2. \A x \in a[r].grid : x.user \in User  BY <2>6, <3>2
      <4>3. QED  BY <2>2, <2>3, <2>4, <2>5, <4>1, <4>2 DEF GridRight
    <3>4. answer' = a  BY <1>1, <3>2
    <3>5. QED  BY <3>1, <3>3, <3>4 DEF AnswersRight
  <2>9. QED  BY <2>7, <2>8
<1>4. QED  BY <1>2, <1>3

-----------------------------------------------------------------------------
(* What the call reads *)

(* A query leaves users out only when it has reached its limit. *)
LEMMA AllOrLimit ==
    ASSUME NEW all \in SUBSET User, NEW most \in Nat, NEW us \in Returned(all, most)
    PROVE  us \subseteq all /\ (us = all \/ Cardinality(us) = most)
<1>1. us \subseteq all /\ Cardinality(us) = Min({Cardinality(all), most})
  BY DEF Returned
<1>2. IsFiniteSet(all)  BY ConstantsAssumption, FS_Subset
<1>3. Cardinality(all) \in Nat  BY <1>2, FS_CardinalityType
<1>4. Cardinality(us) = Cardinality(all) \/ Cardinality(us) = most
  <2> DEFINE n == Cardinality(all)
  <2>1. n \in Nat  BY <1>3
  <2> HIDE DEF n
  <2>2. Min({n, most}) = n \/ Min({n, most}) = most  BY <2>1 DEF Min
  <2>3. QED  BY <1>1, <2>2 DEF n
<1>5. QED  BY <1>1, <1>2, <1>4, FS_Subset

LEMMA OnlineReadRight ==
    ASSUME Agreed, pc # "idle", NEW v \in Visible, NEW r,
           NEW us \in Returned(In(v.place, r), OnlineLimit)
    PROVE  OnlineRight(us, r)
<1> DEFINE all == In(v.place, r)
<1>1. \A u \in User \ moved : u \in all <=> place[u].room = r
  BY DEF Agreed, In
<1>2. all \subseteq User  BY DEF In
<1> HIDE DEF all
<1>3. us \subseteq all /\ (us = all \/ Cardinality(us) = OnlineLimit)
  BY <1>2, ConstantsAssumption, AllOrLimit DEF all
<1>4. QED  BY <1>1, <1>3 DEF OnlineRight

LEMMA QueueReadRight ==
    ASSUME TypeOK, Agreed, pc # "idle", NEW v \in Visible, NEW r,
           NEW us \in Returned(Seated(v.place, r), QueueLimit), NEW read,
           read = {[user |-> u, cell |-> v.place[u].cell] : u \in us}
    PROVE  /\ CellsRight(read, r)
           /\ Cardinality(us) = QueueLimit \/ NoneMissing(read, r, FALSE)
<1>1. /\ us \subseteq Seated(v.place, r)
      /\ us = Seated(v.place, r) \/ Cardinality(us) = QueueLimit
  <2>1. Seated(v.place, r) \subseteq User  BY DEF Seated, In
  <2>2. QED  BY <2>1, ConstantsAssumption, AllOrLimit
<1>2. \A u \in User \ moved : v.place[u] = place[u]  BY DEF Agreed
<1>3. v.place \in [User -> Places]  BY ViewTyped
<1>4. CellsRight(read, r)
  <2>1. ASSUME NEW x \in read, x.user \notin moved
        PROVE  place[x.user] = [room |-> r, cell |-> x.cell]
    <3>1. x.user \in us /\ x.cell = v.place[x.user].cell  OBVIOUS
    <3>2. x.user \in User /\ v.place[x.user].room = r
      BY <1>1, <3>1 DEF Seated, In
    <3>3. v.place[x.user] = [room |-> r, cell |-> x.cell]
      BY <1>3, <3>1, <3>2, SeatedPlace
    <3>4. QED  BY <1>2, <2>1, <3>2, <3>3
  <2>2. QED  BY <2>1 DEF CellsRight
<1>5. ASSUME us = Seated(v.place, r) PROVE NoneMissing(read, r, FALSE)
  <2>1. ASSUME NEW u \in User \ moved, place[u].room = r, place[u].cell # None
        PROVE  \E x \in read : x.cell = place[u].cell
    <3>1. u \in us  BY <1>2, <1>5, <2>1 DEF Seated, In
    <3>2. [user |-> u, cell |-> v.place[u].cell] \in read  BY <3>1
    <3>3. QED  BY <1>2, <3>2
  <2>2. QED  BY <2>1 DEF NoneMissing
<1>6. QED  BY <1>1, <1>4, <1>5

(* The readiness of p is read. *)
LEMMA ReadyReadRight ==
    ASSUME Agreed, pc # "idle", NEW v \in Visible, NEW r, NEW grid, NEW rest,
           NEW p \in rest, p.user \in User, NEW yes \in BOOLEAN,
           yes <=> p.user \in v.ready,
           CellsRight(grid, r), ReadinessRight(grid), CellsRight(rest, r),
           NEW cut, NoneMissing(grid \union rest, r, cut)
    PROVE  LET more == grid \union {[user |-> p.user, cell |-> p.cell, ready |-> yes]}
           IN  /\ CellsRight(more, r) /\ ReadinessRight(more)
               /\ CellsRight(rest \ {p}, r)
               /\ NoneMissing(more \union (rest \ {p}), r, cut)
<1> DEFINE x == [user |-> p.user, cell |-> p.cell, ready |-> yes]
           more == grid \union {x}
<1>1. x.user = p.user /\ x.cell = p.cell /\ x.ready = yes  OBVIOUS
<1> HIDE DEF x
<1>2. CellsRight(more, r) /\ CellsRight(rest \ {p}, r)
  BY <1>1 DEF CellsRight
<1>3. ReadinessRight(more)
  <2>1. p.user \notin moved => (yes <=> p.user \in ready)
    BY DEF Agreed
  <2>2. ASSUME NEW y \in more, y.user \notin moved
        PROVE  y.ready <=> y.user \in ready
    <3>1. CASE y \in grid  BY Zenon, <2>2, <3>1 DEF ReadinessRight
    <3>2. CASE y = x  BY Zenon, <1>1, <2>1, <2>2, <3>2
    <3>3. QED  BY <2>2, <3>1, <3>2
  <2>3. QED  BY Zenon, <2>2 DEF ReadinessRight
<1>4. NoneMissing(more \union (rest \ {p}), r, cut)
  <2>1. ASSUME ~cut, NEW u \in User \ moved, place[u].room = r, place[u].cell # None
        PROVE  \E y \in more \union (rest \ {p}) : y.cell = place[u].cell
    <3>1. PICK y \in grid \union rest : y.cell = place[u].cell
      BY <2>1 DEF NoneMissing
    <3>2. CASE y = p  BY <1>1, <3>1, <3>2
    <3>3. CASE y # p  BY <3>1, <3>3
    <3>4. QED  BY <3>2, <3>3
  <2>2. QED  BY <2>1 DEF NoneMissing
<1>5. QED  BY <1>2, <1>3, <1>4 DEF x

(* A step of the call that leaves moved as it is, or says that all have.   *)
LEMMA RightAfterRead ==
    ASSUME ViewsInv,
           ReadPage \/ ReadOnline \/ ReadQueue \/ ReadReady \/ Fill
    PROVE  FillingRight' /\ AnswersRight'
<1> USE DEF ViewsInv
<1>1. PICK r, f, rest, a :
        r = Head(page).room /\ f = filling /\ rest = pending /\ a = answer
  OBVIOUS
<1>2. UNCHANGED <<place, ready, moved>> /\ pc # "idle"
  <2>1. OwnStep  BY DEF OwnStep
  <2>2. UNCHANGED <<place, ready>>  BY <2>1, OwnStepKeeps
  <2>3. QED  BY <2>2 DEF ReadPage, ReadOnline, ReadQueue, ReadReady, Fill
<1>3. ASSUME NEW q, NEW users, OnlineRight(users, q) PROVE OnlineRight(users, q)'
  BY <1>2, <1>3 DEF OnlineRight
<1>4. ASSUME NEW q, NEW entries, CellsRight(entries, q) PROVE CellsRight(entries, q)'
  BY <1>2, <1>4 DEF CellsRight
<1>5. ASSUME NEW grid, ReadinessRight(grid) PROVE ReadinessRight(grid)'
  BY Zenon, <1>2, <1>5 DEF ReadinessRight
<1>6. ASSUME NEW q, NEW entries, NEW cut, NoneMissing(entries, q, cut)
      PROVE  NoneMissing(entries, q, cut)'
  BY <1>2, <1>6 DEF NoneMissing
<1>7. \A q \in DOMAIN a : OnlineRight(a[q].online, q)' /\ GridRight(a[q].grid, q, a[q].cut)'
  <2>1. ASSUME NEW q \in DOMAIN a
        PROVE  OnlineRight(a[q].online, q)' /\ GridRight(a[q].grid, q, a[q].cut)'
    <3>1. OnlineRight(a[q].online, q) /\ GridRight(a[q].grid, q, a[q].cut)
      BY <1>1 DEF AnswersRight
    <3>2. QED  BY <1>3, <1>4, <1>5, <1>6, <3>1 DEF GridRight
  <2>2. QED  BY <2>1
<1>8. CASE ReadPage
  <2>1. /\ pc' \in {"online", "answered"} /\ pc = "page"
        /\ filling' = filling /\ pending' = pending /\ answer' = answer
    BY <1>8 DEF ReadPage
  <2>2. filling = Empty  BY <2>1 DEF FillingRight
  <2>3. QED  BY <1>1, <1>7, <2>1, <2>2 DEF FillingRight, AnswersRight
<1>9. CASE ReadOnline
  <2>1. PICK v \in Visible :
          \E us \in Returned(In(v.place, Head(page).room), OnlineLimit) :
            filling' = [filling EXCEPT !.online = us]
    BY <1>9 DEF ReadOnline
  <2>2. /\ pc' = "queue" /\ pc = "online" /\ Head(page').room = r
        /\ answer' = a
    BY <1>1, <1>9 DEF ReadOnline
  <2>3. filling = Empty  BY <2>2 DEF FillingRight
  <2>4. PICK users \in Returned(In(v.place, r), OnlineLimit) :
          filling' = [filling EXCEPT !.online = users]
    BY <1>1, <2>1
  <2>5. filling' = [online |-> users, grid |-> {}, cut |-> FALSE]
    BY <2>3, <2>4 DEF Empty
  <2>6. OnlineRight(users, r)'  BY <1>2, <1>3, OnlineReadRight
  <2>7. FillingRight'  BY <2>2, <2>5, <2>6 DEF FillingRight
  <2>8. QED  BY <1>7, <2>2, <2>7 DEF AnswersRight
<1>10. CASE ReadQueue
  <2>1. /\ pc' = "ready" /\ pc = "queue" /\ Head(page').room = r
        /\ answer' = a
    BY <1>1, <1>10 DEF ReadQueue
  <2>2. f.grid = {} /\ OnlineRight(f.online, r)  BY <1>1, <2>1 DEF FillingRight
  <2>3. PICK v \in Visible :
          \E us \in Returned(Seated(v.place, Head(page).room), QueueLimit) :
            /\ pending' = {[user |-> u, cell |-> v.place[u].cell] : u \in us}
            /\ filling' = [filling EXCEPT !.cut = (Cardinality(us) = QueueLimit)]
    BY <1>10 DEF ReadQueue
  <2>4. PICK us \in Returned(Seated(v.place, r), QueueLimit) :
          /\ pending' = {[user |-> u, cell |-> v.place[u].cell] : u \in us}
          /\ filling' = [filling EXCEPT !.cut = (Cardinality(us) = QueueLimit)]
    BY <1>1, <2>3
  <2>5. PICK read : read = {[user |-> u, cell |-> v.place[u].cell] : u \in us}
    OBVIOUS
  <2>6. PICK full \in BOOLEAN : full = (Cardinality(us) = QueueLimit)
    <3>1. (Cardinality(us) = QueueLimit) \in BOOLEAN  OBVIOUS
    <3>2. QED  BY Zenon, <3>1
  <2>7. filling' = [f EXCEPT !.cut = full]  BY Zenon, <1>1, <2>4, <2>6
  <2>8. filling' = [online |-> f.online, grid |-> f.grid, cut |-> full]
    BY <1>1, <2>7 DEF TypeOK, Shown
  <2>9. CellsRight(read, r) /\ (Cardinality(us) = QueueLimit \/ NoneMissing(read, r, FALSE))
    BY <1>2, <2>5, QueueReadRight
  <2>10. NoneMissing(read, r, full)
    <3>1. CASE full  BY <3>1 DEF NoneMissing
    <3>2. CASE ~full
      <4>1. full = FALSE  BY <3>2
      <4>2. Cardinality(us) # QueueLimit  BY <2>6, <3>2
      <4>3. QED  BY <2>9, <4>1, <4>2
    <3>3. QED  BY <3>1, <3>2
  <2>11. CellsRight(f.grid, r) /\ ReadinessRight(f.grid)
    BY <2>2 DEF CellsRight, ReadinessRight
  <2>12. f.grid \union read = read  BY <2>2
  <2>13. /\ CellsRight(read, r)' /\ NoneMissing(f.grid \union read, r, full)'
         /\ CellsRight(f.grid, r)' /\ ReadinessRight(f.grid)'
         /\ OnlineRight(f.online, r)'
    BY <1>3, <1>4, <1>5, <1>6, <2>2, <2>9, <2>10, <2>11, <2>12
  <2>14. pending' = read  BY <2>4, <2>5
  <2>15. FillingRight'  BY <2>1, <2>8, <2>13, <2>14 DEF FillingRight
  <2>16. QED  BY <1>7, <2>1, <2>15 DEF AnswersRight
<1>11. CASE ReadReady
  <2>1. /\ pc' = "ready" /\ pc = "ready" /\ Head(page').room = r
        /\ answer' = a
    BY <1>1, <1>11 DEF ReadReady
  <2>2. /\ OnlineRight(f.online, r) /\ CellsRight(f.grid, r)
        /\ ReadinessRight(f.grid) /\ CellsRight(rest, r)
        /\ NoneMissing(f.grid \union rest, r, f.cut)
    BY <1>1, <2>1 DEF FillingRight
  <2>3. PICK p \in rest : \E v \in Visible :
          /\ pending' = rest \ {p}
          /\ filling' = [f EXCEPT !.grid = @ \union
                {[user |-> p.user, cell |-> p.cell, ready |-> p.user \in v.ready]}]
    BY <1>1, <1>11 DEF ReadReady
  <2>4. PICK v \in Visible :
          /\ pending' = rest \ {p}
          /\ filling' = [f EXCEPT !.grid = @ \union
                {[user |-> p.user, cell |-> p.cell, ready |-> p.user \in v.ready]}]
    BY <2>3
  <2>5. PICK yes \in BOOLEAN : yes = (p.user \in v.ready)
    <3>1. (p.user \in v.ready) \in BOOLEAN  OBVIOUS
    <3>2. QED  BY Zenon, <3>1
  <2>6. filling' = [f EXCEPT !.grid = @ \union
                      {[user |-> p.user, cell |-> p.cell, ready |-> yes]}]
    BY Zenon, <2>4, <2>5
  <2>7. PICK more : more = f.grid \union {[user |-> p.user, cell |-> p.cell, ready |-> yes]}
    OBVIOUS
  <2>8. filling' = [online |-> f.online, grid |-> more, cut |-> f.cut]
    BY <1>1, <2>6, <2>7 DEF TypeOK, Shown
  <2>9. p.user \in User  BY <1>1 DEF TypeOK
  <2>10. /\ CellsRight(more, r) /\ ReadinessRight(more)
         /\ CellsRight(rest \ {p}, r)
         /\ NoneMissing(more \union (rest \ {p}), r, f.cut)
    <3>1. yes <=> p.user \in v.ready  BY <2>5
    <3>2. QED  BY <1>2, <2>2, <2>7, <2>9, <3>1, ReadyReadRight
  <2>11. /\ CellsRight(more, r)' /\ ReadinessRight(more)'
         /\ CellsRight(rest \ {p}, r)' /\ OnlineRight(f.online, r)'
         /\ NoneMissing(more \union (rest \ {p}), r, f.cut)'
    BY <1>3, <1>4, <1>5, <1>6, <2>2, <2>10
  <2>12. FillingRight'
    <3>1. PICK left : left = rest \ {p}  OBVIOUS
    <3>2. pending' = left  BY <2>4, <3>1
    <3>3. /\ CellsRight(left, r)'
          /\ NoneMissing(more \union left, r, f.cut)'
      BY <2>11, <3>1
    <3>4. /\ filling'.online = f.online /\ filling'.grid = more
          /\ filling'.cut = f.cut
      BY <2>8
    <3>5. QED  BY <2>1, <2>11, <3>2, <3>3, <3>4 DEF FillingRight
  <2>13. QED  BY <1>7, <2>1, <2>12 DEF AnswersRight
<1>12. CASE Fill
  <2>1. /\ pc' = "online" /\ pc = "ready" /\ filling' = Empty
        /\ rest = {} /\ pending' = rest
    BY <1>1, <1>12 DEF Fill
  <2>2. PICK g \in Grids : answer' =
          [q \in DOMAIN a \union {r} |-> IF q = r THEN [f EXCEPT !.grid = g] ELSE a[q]]
    BY <1>1, <1>12 DEF Fill
  <2>3. /\ g \subseteq f.grid
        /\ {x.cell : x \in g} = {x.cell : x \in f.grid}
    BY <1>1 DEF Grids
  <2>4. PICK new : new = [f EXCEPT !.grid = g]  OBVIOUS
  <2>5. new.online = f.online /\ new.grid = g /\ new.cut = f.cut
    BY <1>1, <2>4 DEF TypeOK, Shown
  <2>6. /\ OnlineRight(f.online, r) /\ CellsRight(f.grid, r)
        /\ ReadinessRight(f.grid) /\ NoneMissing(f.grid \union rest, r, f.cut)
    BY <1>1, <2>1 DEF FillingRight
  <2>7. GridRight(g, r, f.cut)
    <3>1. CellsRight(g, r)  BY <2>3, <2>6 DEF CellsRight
    <3>2. ReadinessRight(g)  BY Zenon, <2>3, <2>6 DEF ReadinessRight
    <3>3. NoneMissing(g, r, f.cut)
      <4>1. f.grid \union rest = f.grid  BY <2>1
      <4>2. \A x \in f.grid : \E y \in g : y.cell = x.cell
        <5>1. ASSUME NEW x \in f.grid PROVE \E y \in g : y.cell = x.cell
          <6>1. x.cell \in {y.cell : y \in g}  BY <2>3
          <6>2. QED  BY <6>1
        <5>2. QED  BY <5>1
      <4>3. QED  BY <2>6, <4>1, <4>2 DEF NoneMissing
    <3>4. QED  BY <3>1, <3>2, <3>3 DEF GridRight
  <2>8. OnlineRight(new.online, r)' /\ GridRight(new.grid, r, new.cut)'
    <3>1. OnlineRight(new.online, r) /\ GridRight(new.grid, r, new.cut)
      BY <2>5, <2>6, <2>7
    <3>2. QED  BY <1>3, <1>4, <1>5, <1>6, <3>1 DEF GridRight
  <2>9. PICK b : b = [q \in DOMAIN a \union {r} |-> IF q = r THEN new ELSE a[q]]
    OBVIOUS
  <2>10. \A q \in DOMAIN b :
           OnlineRight(b[q].online, q)' /\ GridRight(b[q].grid, q, b[q].cut)'
    <3>1. ASSUME NEW q \in DOMAIN b
          PROVE  OnlineRight(b[q].online, q)' /\ GridRight(b[q].grid, q, b[q].cut)'
      <4>1. CASE q = r
        <5>1. b[q] = new  BY <2>9, <4>1
        <5>2. QED  BY <2>8, <4>1, <5>1
      <4>2. CASE q # r
        <5>1. q \in DOMAIN a /\ b[q] = a[q]  BY <2>9, <4>2
        <5>2. QED  BY <1>7, <5>1
      <4>3. QED  BY <4>1, <4>2
    <3>2. QED  BY <3>1
  <2>11. answer' = b  BY <2>2, <2>4, <2>9
  <2>12. AnswersRight'  BY <2>1, <2>10, <2>11 DEF AnswersRight
  <2>13. FillingRight'  BY <2>1 DEF FillingRight
  <2>14. QED  BY <2>12, <2>13
<1>13. QED  BY <1>8, <1>9, <1>10, <1>11, <1>12

LEMMA RightAfterFailure ==
    ASSUME ViewsInv, ReadFails
    PROVE  FillingRight' /\ AnswersRight'
<1> USE DEF ViewsInv
<1>1. CASE pc = "page"
  <2>1. /\ pc' = "answered"
        /\ UNCHANGED <<place, ready, moved, answer>>
    BY <1>1 DEF ReadFails
  <2>2. DOMAIN answer' = {}  BY <1>1, <2>1 DEF AnswersRight
  <2>3. QED  BY <2>1, <2>2 DEF FillingRight, AnswersRight
<1>2. CASE pc # "page"
  <2>1. /\ moved' = User /\ pending' = {} /\ answer' = answer
        /\ pc' \in {"queue", "ready"}
        /\ pc' = "queue" => filling' = filling /\ pc = "online"
        /\ pc' = "ready" => filling' = [filling EXCEPT !.grid = {}]
    BY <1>2 DEF ReadFails, TypeOK
  <2>2. ASSUME NEW q, NEW users PROVE OnlineRight(users, q)'
    BY <2>1 DEF OnlineRight
  <2>3. ASSUME NEW q, NEW entries, \A x \in entries : x.user \in User
        PROVE  CellsRight(entries, q)' /\ ReadinessRight(entries)'
    BY <2>1, <2>3 DEF CellsRight, ReadinessRight
  <2>4. ASSUME NEW q, NEW entries, NEW cut PROVE NoneMissing(entries, q, cut)'
    BY <2>1 DEF NoneMissing
  <2>5. PICK f : f = filling'  OBVIOUS
  <2>6. filling'.grid = {}
    BY <2>1 DEF FillingRight, Empty, TypeOK, Shown
  <2>7. FillingRight'
    <3>1. PICK r : r = Head(page').room  OBVIOUS
    <3>2. OnlineRight(f.online, r)'  BY <2>2
    <3>3. CellsRight({}, r)' /\ ReadinessRight({})'  BY <2>3
    <3>4. NoneMissing({} \union {}, r, f.cut)'  BY <2>4
    <3>5. QED  BY <2>1, <2>5, <2>6, <3>1, <3>2, <3>3, <3>4 DEF FillingRight
  <2>8. AnswersRight'
    <3>1. PICK a : a = answer  OBVIOUS
    <3>2. \A q \in DOMAIN a : \A x \in a[q].grid : x.user \in User
      BY <3>1 DEF TypeOK, Shown
    <3>3. \A q \in DOMAIN a : OnlineRight(a[q].online, q)' /\ GridRight(a[q].grid, q, a[q].cut)'
      BY <2>2, <2>3, <2>4, <3>2 DEF GridRight
    <3>4. answer' = a /\ pc' \notin {"idle", "page"}  BY <2>1, <3>1
    <3>5. QED  BY <3>3, <3>4 DEF AnswersRight
  <2>9. QED  BY <2>7, <2>8
<1>3. QED  BY <1>1, <1>2

LEMMA RightAtTheEnds ==
    ASSUME ViewsInv,
           \/ List \/ \E r \in Room : Query(r)
           \/ OutOfRange \/ AllFilled \/ Return
    PROVE  FillingRight' /\ AnswersRight'
<1> USE DEF ViewsInv
<1>1. CASE List \/ \E r \in Room : Query(r)
  <2>1. /\ pc = "idle" /\ pc' \in {"page", "online"}
        /\ filling' = filling /\ answer' = answer
    BY <1>1 DEF List, Query
  <2>2. DOMAIN answer' = {} /\ filling' = Empty
    BY <2>1 DEF FillingRight, AnswersRight
  <2>3. QED  BY <2>1, <2>2 DEF FillingRight, AnswersRight
<1>2. CASE OutOfRange \/ AllFilled
  <2>1. pc' = "answered" /\ UNCHANGED <<place, ready, moved, answer>>
    BY <1>2 DEF OutOfRange, AllFilled
  <2>2. PICK a : a = answer  OBVIOUS
  <2>3. \A q \in DOMAIN a : OnlineRight(a[q].online, q)' /\ GridRight(a[q].grid, q, a[q].cut)'
    <3>1. ASSUME NEW q \in DOMAIN a
          PROVE  OnlineRight(a[q].online, q)' /\ GridRight(a[q].grid, q, a[q].cut)'
      <4>1. OnlineRight(a[q].online, q) /\ GridRight(a[q].grid, q, a[q].cut)
        BY <2>2 DEF AnswersRight
      <4>2. OnlineRight(a[q].online, q)'  BY <2>1, <4>1 DEF OnlineRight
      <4>3. ReadinessRight(a[q].grid)'
        BY Zenon, <2>1, <4>1 DEF GridRight, ReadinessRight
      <4>4. CellsRight(a[q].grid, q)' /\ NoneMissing(a[q].grid, q, a[q].cut)'
        BY <2>1, <4>1 DEF GridRight, CellsRight, NoneMissing
      <4>5. QED  BY <4>2, <4>3, <4>4 DEF GridRight
    <3>2. QED  BY <3>1
  <2>4. answer' = a  BY <2>1, <2>2
  <2>5. QED  BY <2>1, <2>3, <2>4 DEF FillingRight, AnswersRight
<1>3. CASE Return
  <2>1. pc' = "idle" /\ filling' = Empty /\ answer' = <<>>
    BY <1>3 DEF Return
  <2>2. DOMAIN answer' = {}  BY <2>1, NothingIsEmpty
  <2>3. QED  BY <2>1, <2>2 DEF FillingRight, AnswersRight
<1>4. QED  BY <1>1, <1>2, <1>3

LEMMA ViewsInit == Init => ViewsInv
<1> SUFFICES ASSUME Init PROVE ViewsInv  OBVIOUS
<1>1. TypeOK  BY TypeInit
<1>4. Agreed  BY DEF Init, Agreed
<1>5. FillingRight  BY DEF Init, FillingRight
<1>6. AnswersRight
  <2>1. DOMAIN answer = {}
    <3>1. answer = <<>>  BY DEF Init
    <3>2. QED  BY <3>1, NothingIsEmpty
  <2>2. QED  BY <2>1 DEF AnswersRight
<1>7. QED  BY <1>1, <1>4, <1>5, <1>6 DEF ViewsInv

LEMMA ViewsNext == ViewsInv /\ [Next]_vars => ViewsInv'
<1> SUFFICES ASSUME ViewsInv, [Next]_vars PROVE ViewsInv'  OBVIOUS
<1>1. TypeOK' /\ Agreed'
  BY TypeNext, AgreedNext DEF ViewsInv
<1>2. CASE OwnStep
  <2>1. FillingRight' /\ AnswersRight'
    BY <1>2, RightAfterRead, RightAfterFailure, RightAtTheEnds DEF OwnStep
  <2>2. QED  BY <1>1, <2>1 DEF ViewsInv
<1>3. CASE Elsewhere \/ \E u \in User : ByUser(u)
  BY <1>1, <1>3, RightDuringOthers DEF ViewsInv
<1>4. QED  BY <1>2, <1>3, StepKinds DEF ViewsInv

(* Everything that can be read, and everything a call has read so far, is  *)
(* right about the users who keep their places.                            *)
THEOREM ViewsCorrect == Spec => []ViewsInv
<1>1. QED  BY ViewsInit, ViewsNext, PTL DEF Spec

LEMMA ViewsInvImpliesShown == ViewsInv => SeatedAreShown
<1> SUFFICES ASSUME ViewsInv, NEW r \in DOMAIN answer, NEW u \in User \ moved
             PROVE  /\ u \in answer[r].online => place[u].room = r
                    /\ place[u].room = r =>
                         \/ u \in answer[r].online
                         \/ Cardinality(answer[r].online) = OnlineLimit
                    /\ \A x \in answer[r].grid : x.user = u =>
                         /\ place[u] = [room |-> r, cell |-> x.cell]
                         /\ x.ready = (u \in ready)
                    /\ place[u].room = r /\ place[u].cell # None =>
                         \/ answer[r].cut
                         \/ \E x \in answer[r].grid : x.cell = place[u].cell
  BY DEF SeatedAreShown
<1>1. /\ OnlineRight(answer[r].online, r)
      /\ GridRight(answer[r].grid, r, answer[r].cut)
      /\ answer[r] \in Shown
  BY DEF ViewsInv, AnswersRight, TypeOK
<1> DEFINE grid == answer[r].grid
           yes == u \in ready
<1>2. /\ CellsRight(grid, r) /\ ReadinessRight(grid)
      /\ NoneMissing(grid, r, answer[r].cut)
      /\ grid \subseteq [user : User, cell : Cell, ready : BOOLEAN]
  BY <1>1 DEF GridRight, Shown
<1>3. yes \in BOOLEAN  OBVIOUS
<1>4. \A x \in grid : x.user = u => (x.ready <=> yes)
  <2>1. u \notin moved  OBVIOUS
  <2>2. QED  BY Zenon, <1>2, <2>1 DEF ReadinessRight
<1> HIDE DEF grid, yes
<1>5. \A x \in grid : x.user = u =>
        place[u] = [room |-> r, cell |-> x.cell] /\ x.ready = yes
  <2>1. ASSUME NEW x \in grid, x.user = u
        PROVE  place[u] = [room |-> r, cell |-> x.cell] /\ x.ready = yes
    <3>1. x.ready \in BOOLEAN  BY <1>2
    <3>2. x.ready <=> yes  BY <1>4, <2>1
    <3>3. x.ready = yes  BY SMT, <1>3, <3>1, <3>2
    <3>4. QED  BY <1>2, <2>1, <3>3 DEF CellsRight
  <2>2. QED  BY <2>1
<1>6. place[u].room = r /\ place[u].cell # None =>
        answer[r].cut \/ \E x \in grid : x.cell = place[u].cell
  BY <1>2 DEF NoneMissing
<1>7. /\ u \in answer[r].online => place[u].room = r
      /\ place[u].room = r =>
           u \in answer[r].online \/ Cardinality(answer[r].online) = OnlineLimit
  BY <1>1 DEF OnlineRight
<1>8. QED  BY <1>5, <1>6, <1>7 DEF grid, yes

(* Of whoever has kept place and readiness since a call began, its answer  *)
(* says what is so, though every list, and the readiness of each user, was *)
(* read at another time and from another secondary, though two users may   *)
(* have got one cell, and with limits of any size: he is among the users   *)
(* online of his room and no other, or the list is at its limit; his row   *)
(* is that of his cell and as ready as he is; and his cell is not empty,   *)
(* or the list of the queue is at its limit.                               *)
THEOREM StayingIsShown == Spec => []SeatedAreShown
<1>1. QED  BY ViewsCorrect, ViewsInvImpliesShown, PTL

-----------------------------------------------------------------------------
(* Pages *)

LEMMA MinOfTwo ==
    ASSUME NEW a \in Nat, NEW b \in Nat
    PROVE  Min({a, b}) = IF a <= b THEN a ELSE b
  BY DEF Min

(* There are finitely many orders, as each is a set of pairs. *)
LEMMA OrdersFinite == IsFiniteSet(SetToSeqs(Room))
<1> DEFINE I == 1 .. Cardinality(Room)
           S == SetToSeqs(Room)
           T == SUBSET (I \X Room)
           f == [o \in S |-> {<<i, o[i]>> : i \in I}]
<1>1. IsFiniteSet(I)
  BY ConstantsAssumption, FS_CardinalityType, FS_Interval
<1>2. IsFiniteSet(T)
  BY <1>1, ConstantsAssumption, FS_Product, FS_SUBSET
<1>3. \A o \in S : o \in [I -> Room]  BY DEF SetToSeqs
<1> HIDE DEF I, S
<1>4. f \in [S -> T]  BY <1>3
<1>5. ASSUME NEW o \in S, NEW p \in S, f[o] = f[p] PROVE o = p
  <2>1. {<<i, o[i]>> : i \in I} = {<<i, p[i]>> : i \in I}  BY <1>5
  <2>2. ASSUME NEW i \in I PROVE o[i] = p[i]
    <3>1. <<i, o[i]>> \in {<<j, p[j]>> : j \in I}  BY <2>1
    <3>2. QED  BY <3>1
  <2>3. QED  BY <1>3, <2>2
<1> HIDE DEF T, f
<1>6. f \in Injection(S, T)
  <2>1. DOMAIN f = S  BY <1>4
  <2>2. \A o, p \in DOMAIN f : f[o] = f[p] => o = p  BY <1>5, <2>1
  <2>3. QED  BY <1>4, <2>2 DEF Injection, IsInjective
<1>7. IsFiniteSet(S)  BY <1>2, <1>6, FS_Injection
<1>8. QED  BY <1>7 DEF S

LEMMA OneOrder ==
    ASSUME Cardinality(UNION {Orders(v) : v \in Visible}) = 1
    PROVE  \E o \in SetToSeqs(Room) : \A v \in Visible : Orders(v) \subseteq {o}
<1> DEFINE all == UNION {Orders(v) : v \in Visible}
<1>1. all \subseteq SetToSeqs(Room)  BY DEF Orders
<1>2. \A v \in Visible : Orders(v) \subseteq all  OBVIOUS
<1>3. Cardinality(all) = 1  OBVIOUS
<1> HIDE DEF all
<1>4. IsFiniteSet(all)  BY <1>1, OrdersFinite, FS_Subset
<1>5. PICK o : all = {o}  BY <1>3, <1>4, FS_Singleton
<1>6. QED  BY <1>1, <1>2, <1>5

(* A page continues the order where the pages before it ended. *)
LEMMA NextPage ==
    ASSUME TypeOK, NEW o \in SetToSeqs(Room), ReadPage, steady,
           \A v \in Visible : Orders(v) \subseteq {o},
           Len(listed) = Min({offset, Len(o)}),
           \A i \in DOMAIN listed : listed[i] = o[i]
    PROVE  /\ Len(listed') = Min({offset', Len(o)})
           /\ \A i \in DOMAIN listed' : listed'[i] = o[i]
<1>1. listed' = listed \o Skipped(o, offset) /\ offset' = offset + limit
  <2>1. PICK v \in Visible :
          \E p \in Orders(v) : listed' = IF steady THEN listed \o Skipped(p, offset) ELSE <<>>
    BY DEF ReadPage
  <2>2. PICK p \in Orders(v) : listed' = listed \o Skipped(p, offset)
    BY <2>1
  <2>3. p = o  OBVIOUS
  <2>4. QED  BY <2>2, <2>3 DEF ReadPage
<1>2. limit \in Nat /\ offset \in Nat /\ listed \in Seq(Room)
  BY ConstantsAssumption DEF TypeOK
<1> DEFINE rooms == Skipped(o, offset)
           n == Len(o)
           m == Len(listed)
           k == Len(rooms)
<1>3. /\ o \in Seq(Room) /\ rooms \in Seq(Room)
      /\ k = IF offset < Min({offset + limit, n}) THEN Min({offset + limit, n}) - offset ELSE 0
      /\ \A i \in 1 .. k : rooms[i] = o[offset + i]
  BY <1>2, SkippedTyped
<1>4. /\ listed' \in Seq(Room) /\ Len(listed') = m + k
      /\ \A i \in 1 .. m + k : listed'[i] = IF i <= m THEN listed[i] ELSE rooms[i - m]
  BY <1>1, <1>2, <1>3, ConcatProperties
<1>5. n \in Nat /\ k \in Nat /\ m \in Nat  BY <1>2, <1>3
<1>6. /\ \A i \in 1 .. m : listed[i] = o[i]
      /\ DOMAIN listed' = 1 .. m + k
  <2>1. DOMAIN listed = 1 .. m  BY <1>2, LenProperties
  <2>2. DOMAIN listed' = 1 .. Len(listed')  BY <1>4, LenProperties
  <2> HIDE DEF m, k, rooms
  <2>3. QED  BY <1>4, <2>1, <2>2
<1>7. m = Min({offset, n})  OBVIOUS
<1> HIDE DEF rooms, n, m, k
<1>8. m = IF offset <= n THEN offset ELSE n  BY <1>2, <1>5, <1>7, MinOfTwo
<1>9. Min({offset + limit, n}) = IF offset + limit <= n THEN offset + limit ELSE n
  BY <1>2, <1>5, MinOfTwo
<1>10. m + k = IF offset + limit <= n THEN offset + limit ELSE n
  BY <1>2, <1>3, <1>5, <1>8, <1>9
<1>11. k > 0 => m = offset  BY <1>2, <1>3, <1>5, <1>8, <1>9
<1>12. \A i \in 1 .. m + k : listed'[i] = o[i]
  <2>1. ASSUME NEW i \in 1 .. m + k PROVE listed'[i] = o[i]
    <3>1. CASE i <= m
      <4>1. i \in 1 .. m  BY <1>5, <3>1
      <4>2. listed'[i] = listed[i]  BY <1>4, <3>1
      <4>3. QED  BY <1>6, <4>1, <4>2
    <3>2. CASE ~(i <= m)
      <4>1. i - m \in 1 .. k /\ m = offset /\ offset + (i - m) = i
        BY <1>2, <1>5, <1>11, <3>2
      <4>2. listed'[i] = rooms[i - m]  BY <1>4, <3>2
      <4>3. QED  BY <1>3, <4>1, <4>2
    <3>3. QED  BY <3>1, <3>2
  <2>2. QED  BY <2>1
<1>13. Len(listed') = Min({offset', Len(o)})
  BY <1>1, <1>4, <1>9, <1>10 DEF n
<1>14. QED  BY <1>6, <1>12, <1>13

LEMMA PagesInit == Init => PagesRight
  BY DEF Init, PagesRight

LEMMA PagesNext == TypeOK /\ PagesRight /\ [Next]_vars => PagesRight'
<1> SUFFICES ASSUME TypeOK, PagesRight, [Next]_vars, steady'
             PROVE  PagesRight'
  BY DEF PagesRight
<1>1. ASSUME steady, UNCHANGED <<offset, listed>>,
             \A v \in Visible' : v \in Visible \/ Orders(v) = Orders(View)
      PROVE  PagesRight'
  <2>1. PICK o \in SetToSeqs(Room) :
          /\ \A v \in Visible : Orders(v) \subseteq {o}
          /\ Len(listed) = Min({offset, Len(o)})
          /\ \A i \in DOMAIN listed : listed[i] = o[i]
    BY <1>1 DEF PagesRight
  <2>2. View \in Visible  BY DEF Visible
  <2>3. \A v \in Visible' : Orders(v) \subseteq {o}  BY <1>1, <2>1, <2>2
  <2>4. QED  BY <1>1, <2>1, <2>3 DEF PagesRight
<1>2. CASE List
  <2>1. UNCHANGED <<db, lagging>>  BY <1>2 DEF List
  <2>2. Visible' = Visible  BY <2>1 DEF Visible, View
  <2>3. CASE UNCHANGED pages  BY <1>1, <2>2, <2>3
  <2>4. CASE /\ offset' = 0 /\ listed' = <<>>
             /\ steady' = (Cardinality(UNION {Orders(v) : v \in Visible}) = 1)
    <3>1. PICK o \in SetToSeqs(Room) : \A v \in Visible : Orders(v) \subseteq {o}
      BY <2>4, OneOrder
    <3>2. Len(o) \in Nat
      <4>1. Cardinality(Room) \in Nat  BY ConstantsAssumption, FS_CardinalityType
      <4>2. o \in Seq(Room)  BY <4>1, SeqDef DEF SetToSeqs
      <4>3. QED  BY <4>2
    <3>3. Len(listed') = Min({offset', Len(o)})
      BY <2>4, <3>2, MinOfTwo
    <3>4. DOMAIN listed' = {}  BY <2>4, NothingIsEmpty
    <3>5. QED  BY <2>2, <3>1, <3>3, <3>4 DEF PagesRight
  <2>5. QED  BY <1>2, <2>3, <2>4 DEF List
<1>3. CASE ReadPage
  <2>1. UNCHANGED <<steady, db, lagging>>
    BY <1>3 DEF ReadPage
  <2>2. Visible' = Visible  BY <2>1 DEF Visible, View
  <2>3. PICK o \in SetToSeqs(Room) :
          /\ \A v \in Visible : Orders(v) \subseteq {o}
          /\ Len(listed) = Min({offset, Len(o)})
          /\ \A i \in DOMAIN listed : listed[i] = o[i]
    BY <2>1 DEF PagesRight
  <2>4. /\ Len(listed') = Min({offset', Len(o)})
        /\ \A i \in DOMAIN listed' : listed'[i] = o[i]
    BY <1>3, <2>1, <2>3, NextPage
  <2>5. QED  BY <2>2, <2>3, <2>4 DEF PagesRight
<1>4. CASE ReadFails
  <2>1. UNCHANGED pages /\ UNCHANGED <<db, lagging>>
    BY <1>4 DEF ReadFails
  <2>2. Visible' = Visible  BY <2>1 DEF Visible, View
  <2>3. QED  BY <1>1, <2>1, <2>2
<1>5. CASE \/ \E r \in Room : Query(r)
           \/ ReadOnline \/ ReadQueue \/ ReadReady
           \/ Fill \/ OutOfRange \/ AllFilled \/ Return
  <2>1. UNCHANGED pages /\ UNCHANGED <<db, lagging>>
    BY <1>5 DEF Query, ReadOnline, ReadQueue, ReadReady, Fill, OutOfRange,
            AllFilled, Return
  <2>2. Visible' = Visible  BY <2>1 DEF Visible, View
  <2>3. QED  BY <1>1, <2>1, <2>2
<1>6. CASE Commit
  <2>1. /\ steady /\ Orders(View') = Orders(View)
        /\ UNCHANGED <<offset, listed>>
    BY <1>6 DEF Commit
  <2>2. Visible' \subseteq Visible \union {View'}  BY <1>6, AfterCommit
  <2>3. QED  BY <1>1, <2>1, <2>2
<1>7. CASE Replicate
  <2>1. UNCHANGED pages  BY <1>7 DEF Replicate
  <2>2. Visible' \subseteq Visible  BY <1>7, AfterReplicate
  <2>3. QED  BY <1>1, <2>1, <2>2
<1>8. CASE UNCHANGED vars
  <2>1. UNCHANGED pages /\ Visible' = Visible
    BY <1>8 DEF vars, Visible, View
  <2>2. QED  BY <1>1, <2>1
<1>9. QED
  BY <1>2, <1>3, <1>4, <1>5, <1>6, <1>7, <1>8
  DEF Next, Come, SitDown, StandUp, Leave, GetReady, Go, Moves, Assist, Install

LEMMA PagesRightImpliesComplete == TypeOK /\ PagesRight => PagesComplete
<1> SUFFICES ASSUME TypeOK, PagesRight, steady
             PROVE  /\ IsInjective(listed)
                    /\ offset >= Cardinality(Room) => ToSet(listed) = Room
  BY DEF PagesComplete
<1>1. PICK o \in SetToSeqs(Room) :
        /\ Len(listed) = Min({offset, Len(o)})
        /\ \A i \in DOMAIN listed : listed[i] = o[i]
  BY DEF PagesRight
<1> DEFINE N == Cardinality(Room)
<1>2. N \in Nat  BY ConstantsAssumption, FS_CardinalityType
<1>3. /\ o \in [1 .. N -> Room]
      /\ \A i, j \in 1 .. N : i # j => o[i] # o[j]
  BY DEF SetToSeqs
<1> HIDE DEF N
<1>4. o \in Seq(Room) /\ Len(o) = N  BY <1>2, <1>3, SeqDef
<1>5. offset \in Nat /\ listed \in Seq(Room)  BY DEF TypeOK
<1>6. Len(listed) = IF offset <= N THEN offset ELSE N
  BY <1>1, <1>2, <1>4, <1>5, MinOfTwo
<1>7. DOMAIN listed \subseteq 1 .. N  BY <1>2, <1>5, <1>6
<1>8. IsInjective(listed)  BY <1>1, <1>3, <1>7 DEF IsInjective
<1>9. ASSUME offset >= N PROVE ToSet(listed) = Room
  <2>1. DOMAIN listed = 1 .. N  BY <1>2, <1>5, <1>6, <1>9
  <2>2. o \in Injection(1 .. N, Room)
    BY <1>3 DEF Injection, IsInjective
  <2>3. Cardinality(1 .. N) = Cardinality(Room)
    BY <1>2, FS_Interval DEF N
  <2>4. o \in Surjection(1 .. N, Room)
    BY <2>2, <2>3, ConstantsAssumption, FS_Injection
  <2>5. \A r \in Room : \E i \in 1 .. N : o[i] = r
    BY <2>4 DEF Surjection
  <2>6. \A r \in Room : r \in ToSet(listed)
    BY <1>1, <2>1, <2>5 DEF ToSet
  <2>7. ToSet(listed) \subseteq Room  BY <1>1, <1>3, <2>1 DEF ToSet
  <2>8. QED  BY <2>6, <2>7
<1>10. QED  BY <1>8, <1>9 DEF N

(* Someone who turns the pages while everything that may be read has the   *)
(* same, determined order sees no room twice and misses none, with limits  *)
(* of any size and whatever else changes between the pages.                *)
THEOREM PagesShowAll == Spec => []PagesComplete
<1>1. TypeOK /\ PagesRight /\ [Next]_vars => PagesRight'  BY PagesNext
<1>2. QED
  BY <1>1, PagesInit, TypeCorrect, PagesRightImpliesComplete, PTL DEF Spec

=============================================================================
