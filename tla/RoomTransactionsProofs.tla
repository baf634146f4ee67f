----------------------- MODULE RoomTransactionsProofs -----------------------
(***************************************************************************)
(* Theorems about RoomTransactions for every room, user, worker and client *)
(* set, every capacity and every choice of Fns, Faults and MaxLag that the *)
(* statements do not restrict.                                             *)
(***************************************************************************)
EXTENDS RoomTransactions, TLAPS, FiniteSetTheorems, SequenceTheorems

USE DEF db

(* What a request looks like, so that the provers need not open Calls. *)
LEMMA CallFields ==
    ASSUME NEW x \in Calls
    PROVE  /\ x.fn \in Kind \union {"all"} /\ x.fn \in Fns
           /\ x.room \in Room /\ x.user \in User
           /\ x.want \in BOOLEAN /\ x.kick \in BOOLEAN
           /\ x.at \in Seat \union {None}
           /\ Targets(x) \subseteq Kind
           /\ DocsOf(x) = Targets(x) \union {"room"}
           /\ DocsOf(x) \subseteq Doc
           /\ x.fn = "all" => ~x.want
           /\ "all" \notin Fns => Targets(x) = {x.fn}
  BY ConstantsAssumption DEF Calls, Targets, DocsOf, Kind, Doc

-----------------------------------------------------------------------------
(* Type correctness *)

Replies == [can : BOOLEAN, full : BOOLEAN, done : BOOLEAN]

LEMMA TypeInit == Init => TypeOK
<1> SUFFICES ASSUME Init PROVE TypeOK OBVIOUS
<1> USE ConstantsAssumption DEF Init
<1>1. lagging \in Seq(Views) /\ Len(lagging) <= MaxLag  OBVIOUS
<1>2. cnt \in [Kind -> [Room -> Int]]  OBVIOUS
<1>3. QED  BY <1>1, <1>2 DEF TypeOK, Pc, NoReply

LEMMA CommitTypes ==
    ASSUME TypeOK, NEW c \in Client, Commit(c)
    PROVE  TypeOK'
<1> USE DEF TypeOK
<1> DEFINE x == call[c]
<1>1. x \in Calls  BY DEF Commit, Pc
<1> HIDE DEF x
<1> USE CallFields, <1>1, ConstantsAssumption
<1>2. on' \in [Kind -> [Room -> SUBSET User]]
  BY DEF Commit, OnAfter, Flip, x
<1>3. cnt' \in [Kind -> [Room -> Int]]
  BY DEF Commit, CntAfter, x
<1>4. seat' \in [Room -> [User -> Seat \union {None}]]
  BY DEF Commit, SeatAfter, x
<1>5. frozen' \in [Room -> SUBSET User]
  BY DEF Commit, FrozenAfter, x
<1>6. lagging' \in Seq(Views) /\ Len(lagging') <= MaxLag
  <2>1. CASE wrote[c] = {}  BY <2>1 DEF Commit
  <2>2. CASE wrote[c] # {}
    <3> DEFINE longer == Append(lagging, [seat |-> seat, cnt |-> cnt])
    <3>1. [seat |-> seat, cnt |-> cnt] \in Views  BY DEF Views
    <3>2. longer \in Seq(Views) /\ Len(longer) = Len(lagging) + 1  BY <3>1
    <3>3. Tail(longer) \in Seq(Views) /\ Len(Tail(longer)) = Len(lagging)
      <4>1. Len(longer) # 0  BY <3>2
      <4> HIDE DEF longer
      <4>2. QED  BY ONLY <3>2, <4>1, EmptySeq, HeadTailProperties
    <3>4. lagging' = IF Len(longer) > MaxLag THEN Tail(longer) ELSE longer
      BY <2>2 DEF Commit, Remember
    <3> HIDE DEF longer
    <3>5. QED  BY <3>2, <3>3, <3>4
  <2>3. QED  BY <2>1, <2>2
<1>7. stale' \in [Client -> SUBSET Doc]
  BY DEF Commit, StaleAfter
<1>8. /\ session' \in [Worker -> Client \union {None}]
      /\ pc' \in [Client -> Pc]
      /\ call' \in [Client -> Calls \union {None}]
      /\ wrote' \in [Client -> SUBSET Doc]
      /\ reply' \in [Client -> [can : BOOLEAN, full : BOOLEAN, done : BOOLEAN]]
      /\ \A o \in Client : pc'[o] = "idle" <=> call'[o] = None
  BY DEF Commit, Return, NoReply, Pc
<1>9. QED  BY <1>2, <1>3, <1>4, <1>5, <1>6, <1>7, <1>8

LEMMA AfterSeatsTypes ==
    ASSUME TypeOK, NEW c \in Client, pc[c] # "idle",
           NEW taken \in BOOLEAN, AfterSeats(c, taken)
    PROVE  TypeOK'
<1> USE DEF TypeOK, Pc
<1> DEFINE ok == reply[c].can /\ ~taken
           notOk == ~ok
<1>1. ok \in BOOLEAN /\ notOk \in BOOLEAN  OBVIOUS
<1>2. /\ reply' = [reply EXCEPT ![c].can = ok, ![c].done = notOk]
      /\ pc' = [pc EXCEPT ![c] = IF ok THEN "write" ELSE "commit"]
      /\ UNCHANGED <<db, lagging, session, call, stale, wrote>>
  BY DEF AfterSeats
<1> HIDE DEF ok, notOk
<1>3. reply' \in [Client -> Replies]  BY <1>1, <1>2 DEF Replies
<1>4. QED  BY <1>1, <1>2, <1>3 DEF Replies

LEMMA TypeNext == TypeOK /\ [Next]_vars => TypeOK'
<1> SUFFICES ASSUME TypeOK, [Next]_vars PROVE TypeOK'  OBVIOUS
<1> USE DEF TypeOK, Pc
<1>1. ASSUME NEW c \in Client, NEW x \in Calls, Request(c, x) PROVE TypeOK'
  BY <1>1, NoneIsNoRequest DEF Request
<1>2. ASSUME NEW c \in Client, Progress(c) PROVE TypeOK'
  <2>1. CASE StartTransaction(c)
    BY <2>1, ConstantsAssumption DEF StartTransaction
  <2>2. CASE FindRefused(c)  BY <2>2 DEF FindRefused
  <2>3. CASE FindOnline(c)  BY <2>3 DEF FindOnline
  <2>4. CASE FindQueue(c)
    <3>1. call[c] \in Calls  BY <2>4 DEF FindQueue
    <3> DEFINE can == call[c].want => HasPlace(call[c])
               full == call[c].want /\ LastPlaceOrNone(call[c])
    <3>2. can \in BOOLEAN /\ full \in BOOLEAN
      BY <3>1, CallFields DEF HasPlace, LastPlaceOrNone
    <3>3. reply' = [reply EXCEPT ![c].can = can, ![c].full = full]
      BY <2>4 DEF FindQueue
    <3> HIDE DEF can, full
    <3>4. reply' \in [Client -> Replies]  BY <3>2, <3>3 DEF Replies
    <3>5. QED  BY <2>4, <3>4 DEF FindQueue, Replies
  <2>5. CASE FindReadyOrBattle(c)  BY <2>5 DEF FindReadyOrBattle
  <2>6. CASE ReplicaSeats(c)
    <3>0. PICK view \in Visible :
            \E listed \in FirstOf(Seated(call[c], view)) :
                AfterSeats(c, Taken(call[c], view, listed))
      BY <2>6 DEF ReplicaSeats
    <3>1. PICK listed \in FirstOf(Seated(call[c], view)) :
            AfterSeats(c, Taken(call[c], view, listed))
      BY <3>0
    <3>2. Taken(call[c], view, listed) \in BOOLEAN  BY DEF Taken
    <3>3. pc[c] # "idle"  BY <2>6 DEF ReplicaSeats
    <3>4. QED  BY <3>1, <3>2, <3>3, AfterSeatsTypes
  <2>7. CASE ReplicaCount(c)
    <3>1. call[c] \in Calls  BY <2>7 DEF ReplicaCount
    <3>2. PICK view \in Visible :
             reply' = [reply EXCEPT ![c].full = IsLast(call[c], view)]
      BY <2>7 DEF ReplicaCount
    <3> DEFINE full == IsLast(call[c], view)
    <3>3. full \in BOOLEAN  BY <3>1, CallFields DEF IsLast
    <3>4. reply' = [reply EXCEPT ![c].full = full]  BY <3>2
    <3> HIDE DEF full
    <3>5. reply' \in [Client -> Replies]  BY <3>3, <3>4 DEF Replies
    <3>6. QED  BY <2>7, <3>5 DEF ReplicaCount, Replies
  <2>8. CASE Write(c)
    <3>1. PICK d \in Doc : /\ wrote' = [wrote EXCEPT ![c] = @ \union {d}]
                           /\ IF d = "room"
                              THEN /\ pc' = [pc EXCEPT ![c] = "commit"]
                                   /\ reply' = [reply EXCEPT ![c].can = TRUE,
                                                             ![c].done = TRUE]
                              ELSE UNCHANGED <<pc, reply>>
      BY <2>8 DEF Write
    <3>2. CASE d = "room"
      <4> DEFINE yes == TRUE
      <4>1. yes \in BOOLEAN  OBVIOUS
      <4>2. reply' = [reply EXCEPT ![c].can = yes, ![c].done = yes]
        BY <3>1, <3>2
      <4> HIDE DEF yes
      <4>3. reply' \in [Client -> Replies]  BY <4>1, <4>2 DEF Replies
      <4>4. QED  BY <2>8, <3>1, <3>2, <4>3 DEF Write, Replies
    <3>3. CASE d # "room"  BY <2>8, <3>1, <3>3 DEF Write
    <3>4. QED  BY <3>2, <3>3
  <2>9. CASE WriteConflict(c)  BY <2>9 DEF WriteConflict, RolledBack
  <2>10. CASE Commit(c)  BY <2>10, CommitTypes
  <2>11. QED
    BY <1>2, <2>1, <2>2, <2>3, <2>4, <2>5, <2>6, <2>7, <2>8, <2>9, <2>10
    DEF Progress
<1>3. ASSUME NEW c \in Client, Fault(c) PROVE TypeOK'
  <2>1. CASE ReplicaSeatsFails(c)
    BY <2>1, AfterSeatsTypes DEF ReplicaSeatsFails, Taken
  <2>2. CASE ReplicaCountFails(c)  BY <2>2 DEF ReplicaCountFails
  <2>3. CASE Abort(c)  BY <2>3 DEF Abort, RolledBack
  <2>4. CASE Lost(c)  BY <2>4 DEF Lost
  <2>5. CASE Unanswered(c)  BY <2>5 DEF Unanswered
  <2>6. CASE CommitFails(c)
    BY <2>6, ConstantsAssumption DEF CommitFails, Return, NoReply
  <2>7. QED
    BY <1>3, <2>1, <2>2, <2>3, <2>4, <2>5, <2>6 DEF Fault
<1>4. ASSUME NEW r \in Room, NEW u \in User, Thaw(r, u) PROVE TypeOK'
  BY <1>4 DEF Thaw
<1>5. CASE Replicate
  <2>1. Tail(lagging) \in Seq(Views) /\ Len(Tail(lagging)) <= MaxLag
    BY <1>5, ConstantsAssumption, HeadTailProperties DEF Replicate
  <2>2. QED  BY <1>5, <2>1 DEF Replicate
<1>6. CASE UNCHANGED vars  BY <1>6 DEF vars
<1>7. QED  BY <1>1, <1>2, <1>3, <1>4, <1>5, <1>6 DEF Next

(* The state of the rooms, the session and every operation keeps its shape *)
(* in every behaviour, whatever faults occur.                              *)
THEOREM TypeCorrect == Spec => []TypeOK
<1>1. QED  BY TypeInit, TypeNext, PTL DEF Spec

-----------------------------------------------------------------------------
(* The inductive invariant *)

LEMMA InvInit == Init => RoomInv
<1> SUFFICES ASSUME Init PROVE RoomInv  OBVIOUS
<1>1. TypeOK  BY TypeInit
<1>2. \A c \in Client : ClientInv(c)
  BY DEF Init, ClientInv, Admits, Fresh
<1>3. SoleWriter  BY DEF Init, SoleWriter
<1>4. WithinCapacity
  BY ConstantsAssumption DEF Init, WithinCapacity, Kind
<1>5. QED  BY <1>1, <1>2, <1>3, <1>4 DEF RoomInv

(* A step of one client that leaves flags and counters alone. *)
LEMMA OwnStep ==
    ASSUME RoomInv, TypeOK', NEW c \in Client,
           UNCHANGED <<on, cnt>>,
           \A o \in Client \ {c} :
               /\ pc'[o] = pc[o] /\ call'[o] = call[o] /\ reply'[o] = reply[o]
               /\ stale'[o] = stale[o] /\ wrote'[o] = wrote[o],
           ClientInv(c)',
           \/ wrote'[c] = {}
           \/ /\ call'[c] = call[c]
              /\ \A d \in wrote'[c] : d \in wrote[c] \/ ~Locked(c, d)
    PROVE  RoomInv'
<1>1. \A o \in Client : ClientInv(o)'
  <2> SUFFICES ASSUME NEW o \in Client \ {c} PROVE ClientInv(o)'  OBVIOUS
  <2>1. ClientInv(o)  BY DEF RoomInv
  <2>2. QED
    BY <2>1 DEF ClientInv, Admits, Fresh, HasPlace, DocsOf, Targets
<1>2. SoleWriter'
  <2> SUFFICES ASSUME NEW a \in Client, NEW o \in Client, a # o,
                      NEW d \in wrote'[a] \intersect wrote'[o]
               PROVE  ~SameDoc(call'[a], call'[o], d)
    BY DEF SoleWriter, SameDoc
  <2>1. CASE a # c /\ o # c  BY <2>1 DEF RoomInv, SoleWriter
  <2>2. CASE a = c
    <3>1. ~SameDoc(call[c], call[o], d)
      BY <2>2 DEF RoomInv, SoleWriter, Locked
    <3>2. QED  BY <2>2, <3>1
  <2>3. CASE o = c
    <3>1. ~SameDoc(call[c], call[a], d)
      BY <2>3 DEF RoomInv, SoleWriter, Locked
    <3>2. QED  BY <2>3, <3>1 DEF SameDoc
  <2>4. QED  BY <2>1, <2>2, <2>3
<1>3. WithinCapacity'  BY DEF RoomInv, WithinCapacity
<1>4. QED  BY <1>1, <1>2, <1>3 DEF RoomInv

(* What a commit does to the snapshot of another client: whatever that     *)
(* client relies on is unchanged, or its document has become stale.        *)
LEMMA CommitOthers ==
    ASSUME RoomInv, TypeOK', NEW c \in Client, Commit(c),
           NEW o \in Client, o # c
    PROVE  ClientInv(o)'
<1> USE DEF RoomInv
<1> DEFINE x == call[c]
           y == call[o]
<1>1. ClientInv(o) /\ ClientInv(c)  OBVIOUS
<1>2. /\ pc'[o] = pc[o] /\ call'[o] = y /\ reply'[o] = reply[o]
      /\ wrote'[o] = wrote[o]
  BY DEF Commit, Return, TypeOK
<1>3. stale'[o] = IF InSnapshot(o)
                  THEN stale[o] \union
                         {d \in wrote[c] \intersect DocsOf(y) : SameDoc(x, y, d)}
                  ELSE stale[o]
  BY DEF Commit, StaleAfter
<1>4. x \in Calls  BY DEF Commit, TypeOK
<1>5. pc[o] # "idle" => y \in Calls  BY DEF TypeOK
<1>6. \A d \in wrote[c] \intersect wrote[o] : ~SameDoc(x, y, d)
  BY DEF SoleWriter
<1>7. pc[o] = "write" =>
        "room" \notin wrote'[o] /\ wrote'[o] \intersect stale'[o] = {}
  BY <1>1, <1>2, <1>3, <1>6 DEF ClientInv
<1>8. Admits(o)' => HasPlace(call[o])'
  <2> SUFFICES ASSUME Admits(o)' PROVE HasPlace(y)'
    BY DEF HasPlace
  <2>1. y \in Calls /\ y.fn = "queue" /\ "room" \in DocsOf(y)
    BY <1>2, <1>5 DEF Admits, DocsOf
  <2>2. pc[o] \in {"replica", "write"} => InSnapshot(o)
    BY <2>1 DEF InSnapshot
  <2>3. "room" \in wrote[c] => x.room # y.room
    BY <1>2, <1>3, <1>6, <2>1, <2>2 DEF Admits, SameDoc
  <2>4. Admits(o)
    BY <1>2, <1>3 DEF Admits
  <2>5. cnt[y.fn][y.room] < Capacity[y.room]
    BY <1>1, <2>1, <2>4 DEF ClientInv, HasPlace
  <2>6. cnt'[y.fn][y.room] = cnt[y.fn][y.room]
    BY <1>4, <2>1, <2>3, CallFields DEF Commit, CntAfter, Kind
  <2>7. QED  BY <1>2, <2>1, <2>5, <2>6 DEF HasPlace
<1>9. Fresh(o)' => (y.user \in on'[y.fn][y.room]) # y.want
  <2> SUFFICES ASSUME Fresh(o)' PROVE (y.user \in on'[y.fn][y.room]) # y.want
    OBVIOUS
  <2>1. y \in Calls /\ y.fn # "all" /\ y.fn \in DocsOf(y) /\ y.fn \in Kind
    BY <1>2, <1>5, CallFields DEF Fresh, DocsOf, Targets
  <2>2. pc[o] \in {"replica", "write"} => InSnapshot(o)
    BY <2>1 DEF InSnapshot
  <2>3. y.fn \in wrote[c] => ~SameDoc(x, y, y.fn)
    BY <1>2, <1>3, <1>6, <2>1, <2>2 DEF Fresh
  <2>4. Fresh(o)
    BY <1>2, <1>3 DEF Fresh
  <2>5. (y.user \in on[y.fn][y.room]) # y.want
    BY <1>1, <2>4 DEF ClientInv
  <2>6. (y.user \in on'[y.fn][y.room]) <=> (y.user \in on[y.fn][y.room])
    BY <1>4, <2>1, <2>3, CallFields DEF Commit, OnAfter, Flip, SameDoc
  <2>7. QED  BY <2>5, <2>6
<1>10. QED
  BY <1>1, <1>2, <1>7, <1>8, <1>9 DEF ClientInv, DocsOf, Targets

LEMMA CommitInv ==
    ASSUME RoomInv, TypeOK', NEW c \in Client, Commit(c)
    PROVE  RoomInv'
<1> USE DEF RoomInv
<1>1. pc'[c] = "idle" /\ wrote'[c] = {}
  BY DEF Commit, Return, TypeOK
<1>2. ASSUME NEW o \in Client PROVE ClientInv(o)'
  <2>1. CASE o = c  BY <1>1, <2>1 DEF ClientInv, Admits, Fresh
  <2>2. CASE o # c  BY <2>2, CommitOthers
  <2>3. QED  BY <2>1, <2>2
<1>3. SoleWriter'
  <2>1. \A o \in Client \ {c} : wrote'[o] = wrote[o] /\ call'[o] = call[o]
    BY DEF Commit, Return, TypeOK
  <2>2. QED  BY <1>1, <2>1 DEF SoleWriter, SameDoc
<1>4. WithinCapacity'
  <2> SUFFICES ASSUME NEW r \in Room PROVE cnt'["queue"][r] <= Capacity[r]
    BY DEF WithinCapacity
  <2> DEFINE x == call[c]
  <2>1. x \in Calls  BY DEF Commit, TypeOK
  <2>2. cnt["queue"][r] <= Capacity[r] /\ cnt["queue"][r] \in Int
        /\ Capacity[r] \in Nat
    BY ConstantsAssumption DEF WithinCapacity, TypeOK, Kind
  <2>3. CASE "room" \in wrote[c] /\ "queue" \in Targets(x) /\ r = x.room /\ x.want
    <3>1. x.fn = "queue"  BY <2>1, <2>3, CallFields DEF Targets
    <3>2. cnt["queue"][r] < Capacity[r]
      BY <2>3, <3>1 DEF Commit, ClientInv, Admits, HasPlace
    <3>3. cnt'["queue"][r] = cnt["queue"][r] + 1
      BY <2>3 DEF Commit, CntAfter, Kind
    <3>4. QED  BY <2>2, <3>2, <3>3
  <2>4. CASE ~("room" \in wrote[c] /\ "queue" \in Targets(x) /\ r = x.room /\ x.want)
    <3>1. cnt'["queue"][r] \in {cnt["queue"][r], cnt["queue"][r] - 1}
      BY <2>2, <2>4 DEF Commit, CntAfter, Kind
    <3>2. QED  BY <2>2, <3>1
  <2>5. QED  BY <2>3, <2>4
<1>5. QED  BY <1>2, <1>3, <1>4

LEMMA AfterSeatsInv ==
    ASSUME RoomInv, TypeOK', NEW c \in Client,
           pc[c] = "replica", call[c].fn = "queue",
           NEW taken, AfterSeats(c, taken)
    PROVE  RoomInv'
<1>1. ClientInv(c) /\ TypeOK  BY DEF RoomInv
<1>2. ClientInv(c)'
  BY <1>1 DEF AfterSeats, ClientInv, Admits, Fresh, TypeOK, HasPlace
<1>3. wrote'[c] = {}  BY <1>1 DEF AfterSeats, ClientInv
<1>4. QED  BY <1>1, <1>2, <1>3, OwnStep DEF AfterSeats, TypeOK

(* A statement that reached the server, answered or not. *)
LEMMA WriteInv ==
    ASSUME RoomInv, TypeOK', NEW c \in Client, NEW d \in Doc,
           pc[c] = "write", IsNext(c, d), ~Conflict(c, d),
           wrote' = [wrote EXCEPT ![c] = @ \union {d}],
           UNCHANGED <<on, cnt, call, stale>>,
           \/ pc'[c] = "commit"
           \/ d # "room" /\ pc'[c] = pc[c] /\ reply'[c] = reply[c],
           \A o \in Client \ {c} : pc'[o] = pc[o] /\ reply'[o] = reply[o]
    PROVE  RoomInv'
<1>1. ClientInv(c) /\ TypeOK  BY DEF RoomInv
<1>2. wrote'[c] = wrote[c] \union {d} /\ d \in DocsOf(call[c]) /\ d \notin stale[c]
  BY <1>1 DEF TypeOK, IsNext, Conflict
<1>3. HasPlace(call[c])' <=> HasPlace(call[c])  BY DEF HasPlace
<1>4. ClientInv(c)'
  BY <1>1, <1>2, <1>3
  DEF ClientInv, Admits, Fresh, DocsOf, Targets
<1>5. \A o \in Client \ {c} : wrote'[o] = wrote[o]  BY <1>1 DEF TypeOK
<1>6. \A e \in wrote'[c] : e \in wrote[c] \/ ~Locked(c, e)
  BY <1>2 DEF Conflict
<1>7. QED  BY <1>4, <1>5, <1>6, OwnStep

LEMMA RolledBackInv ==
    ASSUME RoomInv, TypeOK', NEW c \in Client, RolledBack(c)
    PROVE  RoomInv'
<1>1. TypeOK  BY DEF RoomInv
<1>2. ClientInv(c)' /\ wrote'[c] = {}
  BY <1>1 DEF RolledBack, ClientInv, Admits, Fresh, TypeOK
<1>3. QED  BY <1>1, <1>2, OwnStep DEF RolledBack, TypeOK

LEMMA InvNext == RoomInv /\ [Next]_vars => RoomInv'
<1> SUFFICES ASSUME RoomInv, [Next]_vars PROVE RoomInv'  OBVIOUS
<1>0. TypeOK /\ TypeOK'  BY TypeNext DEF RoomInv
<1> USE <1>0
<1>1. ASSUME NEW c \in Client, NEW x \in Calls, Request(c, x) PROVE RoomInv'
  <2>1. ClientInv(c)'
    BY <1>1 DEF Request, RoomInv, ClientInv, Admits, Fresh, TypeOK
  <2>2. wrote'[c] = {}
    BY <1>1 DEF Request, RoomInv, ClientInv
  <2>3. QED  BY <1>1, <2>1, <2>2, OwnStep DEF Request, TypeOK
<1>2. ASSUME NEW c \in Client, Progress(c) PROVE RoomInv'
  <2>0. ClientInv(c)  BY DEF RoomInv
  <2>1. CASE StartTransaction(c)
    <3>1. ClientInv(c)'
      BY <2>0, <2>1, CallFields
      DEF StartTransaction, ClientInv, Admits, Fresh, TypeOK, DocsOf, Targets
    <3>2. wrote'[c] = {}  BY <2>0, <2>1 DEF StartTransaction, ClientInv
    <3>3. QED  BY <2>1, <3>1, <3>2, OwnStep DEF StartTransaction, TypeOK
  <2>2. CASE FindRefused(c)
    <3>1. ClientInv(c)'
      BY <2>0, <2>2 DEF FindRefused, ClientInv, Admits, Fresh, TypeOK
    <3>2. wrote'[c] = {}  BY <2>0, <2>2 DEF FindRefused, ClientInv
    <3>3. QED  BY <2>2, <3>1, <3>2, OwnStep DEF FindRefused, TypeOK
  <2>3. CASE FindOnline(c)
    <3>1. ClientInv(c)'
      BY <2>0, <2>3
      DEF FindOnline, ClientInv, Admits, Fresh, TypeOK, Refused, Filtered
    <3>2. wrote'[c] = {}  BY <2>0, <2>3 DEF FindOnline, ClientInv
    <3>3. QED  BY <2>3, <3>1, <3>2, OwnStep DEF FindOnline, TypeOK
  <2>4. CASE FindQueue(c)
    <3>1. ClientInv(c)'
      BY <2>0, <2>4
      DEF FindQueue, ClientInv, Admits, Fresh, TypeOK, Refused, Filtered, HasPlace
    <3>2. wrote'[c] = {}  BY <2>0, <2>4 DEF FindQueue, ClientInv
    <3>3. QED  BY <2>4, <3>1, <3>2, OwnStep DEF FindQueue, TypeOK
  <2>5. CASE FindReadyOrBattle(c)
    <3>1. ClientInv(c)'
      BY <2>0, <2>5
      DEF FindReadyOrBattle, ClientInv, Admits, Fresh, TypeOK, Refused, Filtered
    <3>2. wrote'[c] = {}  BY <2>0, <2>5 DEF FindReadyOrBattle, ClientInv
    <3>3. QED  BY <2>5, <3>1, <3>2, OwnStep DEF FindReadyOrBattle, TypeOK
  <2>6. CASE ReplicaSeats(c)
    <3>0. PICK view \in Visible :
            \E listed \in FirstOf(Seated(call[c], view)) :
                AfterSeats(c, Taken(call[c], view, listed))
      BY <2>6 DEF ReplicaSeats
    <3>1. PICK listed \in FirstOf(Seated(call[c], view)) :
            AfterSeats(c, Taken(call[c], view, listed))
      BY <3>0
    <3>2. QED  BY <2>6, <3>1, AfterSeatsInv DEF ReplicaSeats
  <2>7. CASE ReplicaCount(c)
    <3>1. ClientInv(c)'
      BY <2>0, <2>7
      DEF ReplicaCount, ClientInv, Admits, Fresh, TypeOK, HasPlace
    <3>2. wrote'[c] = {}  BY <2>0, <2>7 DEF ReplicaCount, ClientInv
    <3>3. QED  BY <2>7, <3>1, <3>2, OwnStep DEF ReplicaCount, TypeOK
  <2>8. CASE Write(c)
    <3>1. PICK d \in Doc : /\ IsNext(c, d) /\ ~Conflict(c, d)
                           /\ wrote' = [wrote EXCEPT ![c] = @ \union {d}]
                           /\ d # "room" => UNCHANGED <<pc, reply>>
                           /\ d = "room" => pc'[c] = "commit"
      BY <2>8 DEF Write, TypeOK
    <3>2. QED  BY <2>8, <3>1, WriteInv DEF Write, TypeOK
  <2>9. CASE WriteConflict(c)
    BY <2>9, RolledBackInv DEF WriteConflict
  <2>10. CASE Commit(c)  BY <2>10, CommitInv
  <2>11. QED
    BY <1>2, <2>1, <2>2, <2>3, <2>4, <2>5, <2>6, <2>7, <2>8, <2>9, <2>10
    DEF Progress
<1>3. ASSUME NEW c \in Client, Fault(c) PROVE RoomInv'
  <2>0. ClientInv(c)  BY DEF RoomInv
  <2>1. CASE ReplicaSeatsFails(c)
    BY <2>1, AfterSeatsInv DEF ReplicaSeatsFails
  <2>2. CASE ReplicaCountFails(c)
    <3>1. ClientInv(c)'
      BY <2>0, <2>2 DEF ReplicaCountFails, ClientInv, Admits, Fresh, TypeOK
    <3>2. wrote'[c] = {}  BY <2>0, <2>2 DEF ReplicaCountFails, ClientInv
    <3>3. QED  BY <2>2, <3>1, <3>2, OwnStep DEF ReplicaCountFails, TypeOK
  <2>3. CASE Abort(c)  BY <2>3, RolledBackInv DEF Abort
  <2>4. CASE Lost(c)
    <3>1. ClientInv(c)'
      BY <2>0, <2>4 DEF Lost, ClientInv, Admits, Fresh, TypeOK
    <3>2. QED  BY <2>4, <3>1, OwnStep DEF Lost, TypeOK
  <2>5. CASE Unanswered(c)
    <3>1. PICK d \in Doc : /\ IsNext(c, d) /\ ~Conflict(c, d)
                           /\ wrote' = [wrote EXCEPT ![c] = @ \union {d}]
      BY <2>5 DEF Unanswered
    <3>2. QED  BY <2>5, <3>1, WriteInv DEF Unanswered, TypeOK
  <2>6. CASE CommitFails(c)
    <3>1. ClientInv(c)' /\ wrote'[c] = {}
      BY <2>6 DEF CommitFails, Return, ClientInv, Admits, Fresh, TypeOK
    <3>2. QED  BY <2>6, <3>1, OwnStep DEF CommitFails, Return, TypeOK
  <2>7. QED
    BY <1>3, <2>1, <2>2, <2>3, <2>4, <2>5, <2>6 DEF Fault
<1>4. ASSUME UNCHANGED <<on, cnt, pc, call, stale, wrote, reply>> PROVE RoomInv'
  BY <1>4
  DEF RoomInv, ClientInv, Admits, Fresh, HasPlace, DocsOf, Targets,
      SoleWriter, SameDoc, WithinCapacity
<1>5. ASSUME NEW r \in Room, NEW u \in User, Thaw(r, u) PROVE RoomInv'
  BY <1>4, <1>5 DEF Thaw
<1>6. CASE Replicate  BY <1>4, <1>6 DEF Replicate
<1>7. CASE UNCHANGED vars  BY <1>4, <1>7 DEF vars
<1>8. QED  BY <1>1, <1>2, <1>3, <1>5, <1>6, <1>7 DEF Next

(* In every behaviour what an open transaction has read of the room is     *)
(* still so unless its write to the room is bound to conflict, no two      *)
(* transactions write the same document, and no queue is overbooked.       *)
THEOREM Invariant == Spec => []RoomInv
<1>1. QED  BY InvInit, InvNext, PTL DEF Spec

(* No interleaving of workers and no fault lets the queue counter pass the *)
(* capacity of the room.                                                   *)
THEOREM QueueWithinCapacity == Spec => []WithinCapacity
<1>1. RoomInv => WithinCapacity  BY DEF RoomInv
<1>2. QED  BY Invariant, <1>1, PTL

-----------------------------------------------------------------------------
(* The counters, when no transaction is cut in half *)

LEMMA AtomicInit == Init => AtomicInv
<1> SUFFICES ASSUME Init PROVE AtomicInv  OBVIOUS
<1>1. RoomInv  BY InvInit
<1>2. AllOrNothing /\ NotInBattle
  BY DEF Init, AllOrNothing, NotInBattle, TakesAway
<1>3. CountersMatch
  BY FS_EmptySet, ConstantsAssumption DEF Init, CountersMatch, Kind
<1>4. QED  BY <1>1, <1>2, <1>3 DEF AtomicInv

(* Before a commit, only what one client is about to do can change. *)
LEMMA AtomicOwnStep ==
    ASSUME AtomicInv, RoomInv', NEW c \in Client,
           UNCHANGED <<on, cnt>>,
           \A o \in Client \ {c} :
               /\ pc'[o] = pc[o] /\ call'[o] = call[o]
               /\ stale'[o] = stale[o] /\ wrote'[o] = wrote[o],
           pc'[c] = "commit" => wrote'[c] = {} \/ wrote'[c] = DocsOf(call'[c]),
           TakesAway(c)' => call'[c].user \notin on["battle"][call'[c].room]
    PROVE  AtomicInv'
<1>1. AllOrNothing'
  <2> SUFFICES ASSUME NEW o \in Client, pc'[o] = "commit"
               PROVE wrote'[o] = {} \/ wrote'[o] = DocsOf(call'[o])
    BY DEF AllOrNothing, DocsOf, Targets
  <2>1. QED  BY DEF AtomicInv, AllOrNothing
<1>2. CountersMatch'  BY DEF AtomicInv, CountersMatch
<1>3. NotInBattle'
  <2> SUFFICES ASSUME NEW o \in Client \ {c}, TakesAway(o)'
               PROVE call'[o].user \notin on'["battle"][call'[o].room]
    BY DEF NotInBattle, TakesAway
  <2>1. TakesAway(o)  BY DEF TakesAway
  <2>2. QED  BY <2>1 DEF AtomicInv, NotInBattle
<1>4. QED  BY <1>1, <1>2, <1>3 DEF AtomicInv

LEMMA AtomicCommit ==
    ASSUME Atomic, AtomicInv, RoomInv', NEW c \in Client, Commit(c)
    PROVE  AtomicInv'
<1> DEFINE x == call[c]
<1>1. TypeOK /\ ClientInv(c)  BY DEF AtomicInv, RoomInv
<1>2. x \in Calls /\ x.fn # "all" /\ x.fn \in Kind
  BY <1>1, CallFields DEF Commit, TypeOK, Atomic
<1>3. Targets(x) = {x.fn} /\ DocsOf(x) = {x.fn, "room"}
  BY <1>2 DEF Targets, DocsOf
<1>4. wrote[c] = {} \/ wrote[c] = {x.fn, "room"}
  BY <1>3 DEF Commit, AtomicInv, AllOrNothing
<1>5. ASSUME NEW o \in Client, o # c
      PROVE pc'[o] = pc[o] /\ call'[o] = call[o] /\ wrote'[o] = wrote[o]
  BY <1>1, <1>5 DEF Commit, Return, TypeOK
<1>6. pc'[c] = "idle"  BY <1>1 DEF Commit, Return, TypeOK
<1>7. AllOrNothing'
  BY <1>5, <1>6 DEF AtomicInv, AllOrNothing, DocsOf, Targets
<1>8. CountersMatch'
  <2> SUFFICES ASSUME NEW k \in Kind, NEW r \in Room
               PROVE cnt'[k][r] = AiPlayers[r] + Cardinality(on'[k][r])
    BY DEF CountersMatch
  <2>1. IsFiniteSet(on[k][r]) /\ on[k][r] \subseteq User
    BY <1>1, ConstantsAssumption, FS_Subset DEF TypeOK
  <2>2. cnt[k][r] = AiPlayers[r] + Cardinality(on[k][r])
    BY DEF AtomicInv, CountersMatch
  <2>3. AiPlayers[r] \in Nat /\ Cardinality(on[k][r]) \in Nat
    BY <2>1, ConstantsAssumption, FS_CardinalityType
  <2>4. CASE wrote[c] # {} /\ k = x.fn /\ r = x.room
    <3>1. (x.user \in on[k][r]) # x.want
      BY <1>1, <1>2, <1>4, <2>4 DEF Commit, ClientInv, Fresh
    <3>2. /\ on'[k][r] = Flip(on[k][r], x)
          /\ cnt'[k][r] = cnt[k][r] + (IF x.want THEN 1 ELSE -1)
      BY <1>3, <1>4, <2>4 DEF Commit, OnAfter, CntAfter
    <3>3. CASE x.want
      <4>1. Cardinality(on'[k][r]) = Cardinality(on[k][r]) + 1
        BY <2>1, <3>1, <3>2, <3>3, FS_AddElement DEF Flip
      <4>2. QED  BY <2>2, <2>3, <3>2, <3>3, <4>1
    <3>4. CASE ~x.want
      <4>1. x.user \in on[k][r]  BY <1>2, <3>1, <3>4, CallFields
      <4>2. on'[k][r] = on[k][r] \ {x.user}  BY <3>2, <3>4 DEF Flip
      <4>3. Cardinality(on[k][r] \ {x.user}) = Cardinality(on[k][r]) - 1
        BY <2>1, <4>1, FS_RemoveElement
      <4>4. QED  BY <2>2, <2>3, <3>2, <3>4, <4>2, <4>3
    <3>5. QED  BY <3>3, <3>4
  <2>5. CASE ~(wrote[c] # {} /\ k = x.fn /\ r = x.room)
    <3>1. on'[k][r] = on[k][r] /\ cnt'[k][r] = cnt[k][r]
      BY <1>3, <1>4, <2>5 DEF Commit, OnAfter, CntAfter, Kind
    <3>2. QED  BY <2>2, <3>1
  <2>6. QED  BY <2>4, <2>5
<1>9. NotInBattle'
  <2> SUFFICES ASSUME NEW o \in Client, TakesAway(o)'
               PROVE call'[o].user \notin on'["battle"][call'[o].room]
    BY DEF NotInBattle
  <2> DEFINE y == call[o]
  <2>1. o # c  BY <1>6 DEF TakesAway
  <2>2. /\ pc'[o] = pc[o] /\ call'[o] = y /\ wrote'[o] = wrote[o]
    BY <1>5, <2>1
  <2>3. y \in Calls /\ y.fn # "all" /\ "room" \in DocsOf(y)
    BY <1>1, <2>2 DEF TakesAway, TypeOK, DocsOf
  <2>4. stale'[o] = IF InSnapshot(o)
                    THEN stale[o] \union
                           {d \in wrote[c] \intersect DocsOf(y) : SameDoc(x, y, d)}
                    ELSE stale[o]
    BY <2>1 DEF Commit, StaleAfter
  <2>5. "room" \in wrote[c] => x.room # y.room
    <3>1. \A d \in wrote[c] \intersect wrote[o] : ~SameDoc(x, y, d)
      BY <2>1 DEF AtomicInv, RoomInv, SoleWriter
    <3>2. pc[o] \in {"replica", "write"} => InSnapshot(o)
      BY <2>3 DEF InSnapshot
    <3>3. QED  BY <2>2, <2>3, <2>4, <3>1, <3>2 DEF TakesAway, SameDoc
  <2>6. TakesAway(o)  BY <2>2, <2>4 DEF TakesAway
  <2>7. y.user \notin on["battle"][y.room]
    BY <2>6 DEF AtomicInv, NotInBattle
  <2>8. on'["battle"][y.room] = on["battle"][y.room]
    BY <1>4, <2>3, <2>5, CallFields DEF Commit, OnAfter, Kind
  <2>9. QED  BY <2>2, <2>7, <2>8
<1>10. QED  BY <1>7, <1>8, <1>9 DEF AtomicInv

LEMMA AtomicAfterSeats ==
    ASSUME AtomicInv, RoomInv', NEW c \in Client,
           pc[c] = "replica", NEW taken, AfterSeats(c, taken)
    PROVE  AtomicInv'
<1>1. /\ TypeOK /\ ClientInv(c)
      /\ TakesAway(c) => call[c].user \notin on["battle"][call[c].room]
  BY DEF AtomicInv, RoomInv, NotInBattle
<1>2. wrote'[c] = {}  BY <1>1 DEF AfterSeats, ClientInv
<1>3. TakesAway(c)' => TakesAway(c)
  BY <1>1, <1>2 DEF AfterSeats, TakesAway, TypeOK
<1>4. QED  BY <1>1, <1>2, <1>3, AtomicOwnStep DEF AfterSeats, TypeOK

LEMMA AtomicRolledBack ==
    ASSUME AtomicInv, RoomInv', NEW c \in Client, RolledBack(c)
    PROVE  AtomicInv'
<1>1. TypeOK  BY DEF AtomicInv, RoomInv
<1>2. wrote'[c] = {} /\ pc'[c] = "commit"  BY <1>1 DEF RolledBack, TypeOK
<1>3. ~TakesAway(c)'  BY <1>2 DEF TakesAway
<1>4. QED  BY <1>1, <1>2, <1>3, AtomicOwnStep DEF RolledBack, TypeOK

LEMMA AtomicNext ==
    ASSUME Atomic PROVE AtomicInv /\ [Next]_vars => AtomicInv'
<1> SUFFICES ASSUME AtomicInv, [Next]_vars PROVE AtomicInv'  OBVIOUS
<1>0. TypeOK /\ RoomInv /\ RoomInv'  BY InvNext DEF AtomicInv, RoomInv
<1> USE <1>0
<1>1. ASSUME NEW c \in Client, NEW x \in Calls, Request(c, x) PROVE AtomicInv'
  BY <1>1, AtomicOwnStep DEF Request, TypeOK, TakesAway
<1>2. ASSUME NEW c \in Client, Progress(c) PROVE AtomicInv'
  <2>0. /\ ClientInv(c)
        /\ TakesAway(c) => call[c].user \notin on["battle"][call[c].room]
    BY DEF RoomInv, AtomicInv, NotInBattle
  <2>1. CASE StartTransaction(c)
    <3>1. call[c].fn # "all"
      BY <2>1, CallFields DEF StartTransaction, TypeOK, Atomic
    <3>2. QED
      BY <2>1, <3>1, AtomicOwnStep DEF StartTransaction, TypeOK, TakesAway
  <2>2. CASE FindRefused(c)
    BY <2>0, <2>2, AtomicOwnStep DEF FindRefused, TypeOK, TakesAway, ClientInv
  <2>3. CASE FindOnline(c)
    BY <2>3, AtomicOwnStep DEF FindOnline, TypeOK, TakesAway
  <2>4. CASE FindQueue(c)
    <3>1. TakesAway(c)' => call'[c].user \notin on["battle"][call'[c].room]
      BY <2>4 DEF FindQueue, TakesAway, Refused, HeldByBattle
    <3>2. QED  BY <2>4, <3>1, AtomicOwnStep DEF FindQueue, TypeOK
  <2>5. CASE FindReadyOrBattle(c)
    <3>1. TakesAway(c)' => call'[c].user \notin on["battle"][call'[c].room]
      BY <2>5 DEF FindReadyOrBattle, TakesAway, Refused, HeldByBattle
    <3>2. QED  BY <2>5, <3>1, AtomicOwnStep DEF FindReadyOrBattle, TypeOK
  <2>6. CASE ReplicaSeats(c)
    <3>0. PICK view \in Visible :
            \E listed \in FirstOf(Seated(call[c], view)) :
                AfterSeats(c, Taken(call[c], view, listed))
      BY <2>6 DEF ReplicaSeats
    <3>1. PICK listed \in FirstOf(Seated(call[c], view)) :
            AfterSeats(c, Taken(call[c], view, listed))
      BY <3>0
    <3>2. QED  BY <2>6, <3>1, AtomicAfterSeats DEF ReplicaSeats
  <2>7. CASE ReplicaCount(c)
    BY <2>0, <2>7, AtomicOwnStep DEF ReplicaCount, TypeOK, TakesAway
  <2>8. CASE Write(c)
    <3>1. PICK d \in Doc : /\ IsNext(c, d)
                           /\ wrote' = [wrote EXCEPT ![c] = @ \union {d}]
                           /\ d # "room" => UNCHANGED <<pc, reply>>
                           /\ d = "room" => pc' = [pc EXCEPT ![c] = "commit"]
                           /\ d \notin stale[c]
      BY <2>8 DEF Write, Conflict
    <3>2. call[c] \in Calls /\ "room" \in DocsOf(call[c])
      BY <2>8 DEF Write, TypeOK, DocsOf
    <3>3. d = "room" => wrote'[c] = DocsOf(call[c])
      <4>1. \A e \in DocsOf(call[c]) \ {"room"} : Rank[e] < Rank["room"]
                                         /\ Rank[e] \in Int /\ Rank["room"] \in Int
        BY <3>2, CallFields DEF Rank, Doc, Kind
      <4>2. wrote[c] \subseteq DocsOf(call[c])
        BY <2>0, <2>8 DEF Write, ClientInv
      <4>3. d = "room" => DocsOf(call[c]) \ {"room"} \subseteq wrote[c]
        <5> SUFFICES ASSUME d = "room",
                            NEW e \in DocsOf(call[c]) \ {"room"}, e \notin wrote[c]
                     PROVE FALSE
          OBVIOUS
        <5>1. Rank["room"] <= Rank[e]  BY <3>1 DEF IsNext
        <5>2. QED  BY <4>1, <5>1
      <4>4. QED  BY <3>1, <3>2, <4>2, <4>3 DEF TypeOK
    <3>4. TakesAway(c)' => TakesAway(c)
      BY <2>8, <3>1 DEF Write, TakesAway, TypeOK
    <3>5. pc'[c] = "commit" => d = "room"
      BY <2>8, <3>1 DEF Write
    <3>6. \A o \in Client \ {c} : pc'[o] = pc[o] /\ wrote'[o] = wrote[o]
      BY <3>1 DEF TypeOK
    <3>7. UNCHANGED <<on, cnt, call, stale>>  BY <2>8 DEF Write
    <3>8. QED  BY <2>0, <3>3, <3>4, <3>5, <3>6, <3>7, AtomicOwnStep
  <2>9. CASE WriteConflict(c)
    BY <2>9, AtomicRolledBack DEF WriteConflict
  <2>10. CASE Commit(c)  BY <2>10, AtomicCommit
  <2>11. QED
    BY <1>2, <2>1, <2>2, <2>3, <2>4, <2>5, <2>6, <2>7, <2>8, <2>9, <2>10
    DEF Progress
<1>3. ASSUME NEW c \in Client, Fault(c) PROVE AtomicInv'
  <2>0. ClientInv(c)  BY DEF RoomInv
  <2>1. CASE ReplicaSeatsFails(c)
    BY <2>1, AtomicAfterSeats DEF ReplicaSeatsFails
  <2>2. CASE ReplicaCountFails(c)
    BY <2>0, <2>2, AtomicOwnStep
    DEF ReplicaCountFails, TypeOK, TakesAway, ClientInv
  <2>3. CASE Abort(c)  BY <2>3, AtomicRolledBack DEF Abort
  <2>4. CASE Lost(c)  BY <2>4 DEF Lost, Atomic
  <2>5. CASE Unanswered(c)  BY <2>5 DEF Unanswered, Atomic
  <2>6. CASE CommitFails(c)
    BY <2>6, AtomicOwnStep DEF CommitFails, Return, TypeOK, TakesAway
  <2>7. QED
    BY <1>3, <2>1, <2>2, <2>3, <2>4, <2>5, <2>6 DEF Fault
<1>4. ASSUME UNCHANGED <<on, cnt, pc, call, stale, wrote>> PROVE AtomicInv'
  BY <1>4
  DEF AtomicInv, AllOrNothing, DocsOf, Targets, CountersMatch, NotInBattle,
      TakesAway
<1>5. ASSUME NEW r \in Room, NEW u \in User, Thaw(r, u) PROVE AtomicInv'
  BY <1>4, <1>5 DEF Thaw
<1>6. CASE Replicate  BY <1>4, <1>6 DEF Replicate
<1>7. CASE UNCHANGED vars  BY <1>4, <1>7 DEF vars
<1>8. QED  BY <1>1, <1>2, <1>3, <1>5, <1>6, <1>7 DEF Next

(* If no statement fails between two writes and nobody is purged, every    *)
(* transaction commits all of its writes or none, so counters and flags    *)
(* move together and nobody who fights loses a seat or a ready flag.       *)
THEOREM AtomicInvariant == ASSUME Atomic PROVE Spec => []AtomicInv
<1>1. QED  BY AtomicInit, AtomicNext, PTL DEF Spec

(* Whatever the interleaving of workers, the counters of a room document   *)
(* are exact as long as no statement fails between the two writes of an    *)
(* operation and no purge runs; aborts, write conflicts, failed commits    *)
(* and stale secondaries do no harm to them.                               *)
THEOREM CountersExact == ASSUME Atomic PROVE Spec => []CountersMatch
<1>1. AtomicInv => CountersMatch  BY DEF AtomicInv
<1>2. QED  BY AtomicInvariant, <1>1, PTL

LEMMA OnlyCommitsCount ==
    ASSUME [Next]_vars
    PROVE  UNCHANGED <<on, cnt>> \/ \E c \in Client : Commit(c)
<1>1. ASSUME NEW c \in Client, Progress(c), ~Commit(c)
      PROVE UNCHANGED <<on, cnt>>
  BY <1>1
  DEF Progress, StartTransaction, FindRefused, FindOnline, FindQueue,
      FindReadyOrBattle, ReplicaSeats, ReplicaCount, AfterSeats, Write,
      WriteConflict, RolledBack
<1>2. ASSUME NEW c \in Client, Fault(c) PROVE UNCHANGED <<on, cnt>>
  BY <1>2
  DEF Fault, ReplicaSeatsFails, ReplicaCountFails, AfterSeats, Abort, Lost,
      Unanswered, CommitFails, RolledBack
<1>3. QED  BY <1>1, <1>2 DEF Next, Request, Thaw, Replicate, vars

(* A user in the battle loses neither seat nor ready flag to a concurrent  *)
(* or later operation, as long as no transaction is cut in half and no     *)
(* purge runs: the leaving transaction only reads the battle document, and *)
(* it is the write to the room that makes it conflict with the entry.      *)
THEOREM BattleIsHeld == ASSUME Atomic PROVE Spec => BattleHolds
<1> DEFINE Held == \A r \in Room, u \in User, k \in {"queue", "ready"} :
                      u \in on["battle"][r] /\ u \in on[k][r] => u \in on'[k][r]
<1>1. AtomicInv /\ [Next]_vars => Held
  <2> SUFFICES ASSUME AtomicInv, [Next]_vars,
                      NEW r \in Room, NEW u \in User, NEW k \in {"queue", "ready"},
                      u \in on["battle"][r], u \in on[k][r], u \notin on'[k][r]
               PROVE  FALSE
    OBVIOUS
  <2>1. PICK c \in Client : Commit(c)  BY OnlyCommitsCount
  <2> DEFINE x == call[c]
  <2>2. /\ x \in Calls /\ x.fn # "all" /\ ClientInv(c)
        /\ x.want \in BOOLEAN
    BY <2>1, CallFields DEF AtomicInv, RoomInv, TypeOK, Commit, Atomic
  <2>3. /\ k \in wrote[c] /\ r = x.room /\ u = x.user /\ ~x.want
    BY <2>1, <2>2 DEF Commit, OnAfter, Flip, Kind
  <2>4. x.fn = k
    BY <2>1, <2>2, <2>3 DEF Commit, ClientInv, DocsOf, Targets
  <2>5. TakesAway(c)
    BY <2>1, <2>2, <2>3, <2>4
    DEF AtomicInv, AllOrNothing, Commit, TakesAway, DocsOf
  <2>6. QED  BY <2>3, <2>5 DEF AtomicInv, NotInBattle
<1>2. QED  BY AtomicInvariant, <1>1, PTL DEF Spec, BattleHolds

=============================================================================
