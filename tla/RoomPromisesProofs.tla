------------------------- MODULE RoomPromisesProofs -------------------------
(***************************************************************************)
(* What RoomTransactions promises the callers of an operation: seats,      *)
(* freezes, truthful answers, and at the end that it implements GameRoom.  *)
(* Each theorem names the faults it has to exclude; the runs               *)
(* room_stale_seat and room_lost_statement show why some of them matter.   *)
(***************************************************************************)
EXTENDS RoomTransactionsProofs

USE DEF db

(* No statement fails between two writes of an operation. *)
Whole == Faults \intersect {"lost", "unanswered"} = {}

(* No read of a secondary is behind. *)
UpToDate == MaxLag = 0

(* The grid of the queue is read as it is: the list is not behind, does    *)
(* not break off and has room for all the queue holds if its counter is    *)
(* exact.                                                                  *)
SeatsSeen ==
    /\ Atomic /\ UpToDate /\ "replica" \notin Faults
    /\ \A r \in Room : Capacity[r] <= AiPlayers[r] + QueueLimit

(* The client has written the room, or will unless it has to roll back. *)
Writes(c) ==
    \/ pc[c] = "write" /\ "room" \notin stale[c]
    \/ pc[c] = "commit" /\ "room" \in wrote[c]

(* Nothing is answered before there is something to commit. *)
AnswerIsOpen(c) ==
    /\ pc[c] \in {"idle", "start", "find"} => ~reply[c].can
    /\ pc[c] # "commit" => ~reply[c].done

(* Success is noted with the last write, *)
SuccessIsWritten(c) ==
    pc[c] = "commit" /\ reply[c].done /\ reply[c].can => wrote[c] = DocsOf(call[c])

(* and otherwise nothing is left to commit. *)
FailureWroteNothing(c) ==
    Whole /\ pc[c] = "commit" /\ ~(reply[c].done /\ reply[c].can) => wrote[c] = {}

(* A client that joins the queue has not been kicked since it looked, *)
JoinsUnfrozen(c) ==
    Fresh(c) /\ call[c].fn = "queue" /\ call[c].want =>
        call[c].user \notin frozen[call[c].room]

(* its seat has not been taken, *)
SeatIsFree(c) ==
    SeatsSeen /\ Writes(c) /\ call[c].fn = "queue" /\ call[c].want =>
        \A u \in User : seat[call[c].room][u] # call[c].at

KnowsCount(c) ==
    /\ \/ Writes(c)
       \/ /\ pc[c] = "replica" /\ call[c].fn = "queue"
          /\ "room" \notin stale[c] /\ reply[c].can
    /\ call[c].fn \in {"queue", "ready", "battle"} /\ call[c].want

(* and what it has noted about the last place is so. *)
KnowsIfLast(c) ==
    UpToDate /\ KnowsCount(c) =>
        (reply[c].full <=> Capacity[call[c].room] - cnt[call[c].fn][call[c].room] = 1)

(* From start_transaction to the end a client has its worker's session. *)
HasSession(c) == pc[c] \notin {"idle", "start"} => session[WorkerOf[c]] = c

PromiseClient(c) ==
    /\ AnswerIsOpen(c) /\ SuccessIsWritten(c) /\ FailureWroteNothing(c)
    /\ JoinsUnfrozen(c) /\ SeatIsFree(c) /\ KnowsIfLast(c)
    /\ HasSession(c)

KickedAreOut == \A r \in Room : frozen[r] \intersect on["queue"][r] = {}

(* Who has a seat is in the queue. *)
SeatedAreQueued ==
    \A r \in Room, u \in User : seat[r][u] # None => u \in on["queue"][r]

(* What is known of the documents besides. *)
Background ==
    /\ SeatedAreQueued
    /\ Atomic => AtomicInv

PromiseInv ==
    /\ RoomInv
    /\ \A c \in Client : PromiseClient(c)
    /\ KickedAreOut
    /\ SeatsSeen => SeatExclusive

-----------------------------------------------------------------------------
(* Fields of the reply *)

LEMMA ReplyDone ==
    ASSUME TypeOK, NEW c \in Client, NEW done \in BOOLEAN,
           reply' = [reply EXCEPT ![c].done = done]
    PROVE  /\ reply'[c].done = done /\ reply'[c].can = reply[c].can
           /\ reply'[c].full = reply[c].full
           /\ \A o \in Client \ {c} : reply'[o] = reply[o]
  BY DEF TypeOK

LEMMA ReplyFull ==
    ASSUME TypeOK, NEW c \in Client, NEW full \in BOOLEAN,
           reply' = [reply EXCEPT ![c].full = full]
    PROVE  /\ reply'[c].done = reply[c].done /\ reply'[c].can = reply[c].can
           /\ reply'[c].full = full
           /\ \A o \in Client \ {c} : reply'[o] = reply[o]
  BY DEF TypeOK

LEMMA ReplyCanDone ==
    ASSUME TypeOK, NEW c \in Client, NEW can \in BOOLEAN, NEW done \in BOOLEAN,
           reply' = [reply EXCEPT ![c].can = can, ![c].done = done]
    PROVE  /\ reply'[c].done = done /\ reply'[c].can = can
           /\ reply'[c].full = reply[c].full
           /\ \A o \in Client \ {c} : reply'[o] = reply[o]
  BY DEF TypeOK

LEMMA ReplyCanFull ==
    ASSUME TypeOK, NEW c \in Client, NEW can \in BOOLEAN, NEW full \in BOOLEAN,
           reply' = [reply EXCEPT ![c].can = can, ![c].full = full]
    PROVE  /\ reply'[c].done = reply[c].done /\ reply'[c].can = can
           /\ reply'[c].full = full
           /\ \A o \in Client \ {c} : reply'[o] = reply[o]
  BY DEF TypeOK

-----------------------------------------------------------------------------
(* The documents *)

(* Flags, seats and freezes change in commits and when a freeze runs out. *)
LEMMA OnlyCommitsChange ==
    ASSUME [Next]_vars
    PROVE  \/ UNCHANGED db
           \/ \E c \in Client : Commit(c)
           \/ /\ \E r \in Room, u \in User : Thaw(r, u)
              /\ UNCHANGED pc
<1>1. ASSUME NEW c \in Client, Progress(c), ~Commit(c) PROVE UNCHANGED db
  BY <1>1
  DEF Progress, StartTransaction, FindRefused, FindOnline, FindQueue,
      FindReadyOrBattle, ReplicaSeats, ReplicaCount, AfterSeats, Write,
      WriteConflict, RolledBack
<1>2. ASSUME NEW c \in Client, Fault(c) PROVE UNCHANGED db
  BY <1>2
  DEF Fault, ReplicaSeatsFails, ReplicaCountFails, AfterSeats, Abort, Lost,
      Unanswered, CommitFails, RolledBack
<1>3. ASSUME NEW r \in Room, NEW u \in User, Thaw(r, u) PROVE UNCHANGED pc
  BY <1>3 DEF Thaw
<1>4. ASSUME NEW c \in Client, NEW x \in Calls, Request(c, x) PROVE UNCHANGED db
  BY <1>4 DEF Request
<1>5. Replicate \/ UNCHANGED vars => UNCHANGED db  BY DEF Replicate, vars
<1>6. QED  BY <1>1, <1>2, <1>3, <1>4, <1>5 DEF Next

LEMMA BackgroundInit == Init => Background
  BY AtomicInit DEF Init, Background, SeatedAreQueued

LEMMA BackgroundNext ==
    TypeOK /\ TypeOK' /\ Background /\ [Next]_vars => Background'
<1> SUFFICES ASSUME TypeOK, TypeOK', Background, [Next]_vars PROVE Background'
  OBVIOUS
<1>1. ASSUME NEW c \in Client, Commit(c) PROVE SeatedAreQueued'
  <2> DEFINE x == call[c]
  <2>1. x \in Calls  BY <1>1 DEF Commit, TypeOK
  <2>2. x.room \in Room /\ x.user \in User  BY <2>1, CallFields
  <2>3. x.at # None => x.want  BY <2>1 DEF Calls
  <2> SUFFICES ASSUME NEW r \in Room, NEW u \in User, seat'[r][u] # None
               PROVE  u \in on'["queue"][r]
    BY DEF SeatedAreQueued
  <2>4. on'["queue"][r] = IF "queue" \in wrote[c] /\ r = x.room
                          THEN Flip(on["queue"][r], x) ELSE on["queue"][r]
    BY <1>1 DEF Commit, OnAfter, Kind
  <2>5. seat'[r][u] = IF "queue" \in wrote[c] /\ r = x.room /\ u = x.user
                      THEN x.at ELSE seat[r][u]
    BY <1>1, <2>2 DEF Commit, SeatAfter, TypeOK
  <2>6. seat[r][u] # None => u \in on["queue"][r]
    BY DEF Background, SeatedAreQueued
  <2>7. QED  BY <2>3, <2>4, <2>5, <2>6 DEF Flip
<1>2. ASSUME UNCHANGED <<on, seat>> PROVE SeatedAreQueued'
  BY <1>2 DEF Background, SeatedAreQueued
<1>3. SeatedAreQueued'  BY <1>1, <1>2, OnlyCommitsChange DEF Thaw
<1>4. Atomic => AtomicInv'  BY AtomicNext DEF Background
<1>5. QED  BY <1>3, <1>4 DEF Background, Atomic

-----------------------------------------------------------------------------
LEMMA PromiseInit == Init => PromiseInv
<1> SUFFICES ASSUME Init PROVE PromiseInv  OBVIOUS
<1>1. RoomInv  BY InvInit
<1>2. ASSUME NEW c \in Client PROVE PromiseClient(c)
  <2>1. /\ pc[c] = "idle" /\ ~reply[c].can /\ ~reply[c].done
    BY DEF Init, NoReply
  <2>2. QED
    BY <2>1
    DEF PromiseClient, AnswerIsOpen, SuccessIsWritten, FailureWroteNothing,
        JoinsUnfrozen, Fresh, SeatIsFree, KnowsIfLast, KnowsCount, Writes,
        HasSession
<1>3. KickedAreOut  BY DEF Init, KickedAreOut
<1>4. SeatExclusive  BY DEF Init, SeatExclusive
<1>5. QED  BY <1>1, <1>2, <1>3, <1>4 DEF PromiseInv

(* A step of one client that leaves the documents alone. *)
LEMMA PromiseOwnStep ==
    ASSUME PromiseInv, RoomInv', NEW c \in Client,
           UNCHANGED db,
           \A o \in Client \ {c} :
               /\ pc'[o] = pc[o] /\ call'[o] = call[o] /\ reply'[o] = reply[o]
               /\ stale'[o] = stale[o] /\ wrote'[o] = wrote[o]
               /\ session[WorkerOf[o]] = o => session'[WorkerOf[o]] = o,
           PromiseClient(c)'
    PROVE  PromiseInv'
<1>1. ASSUME NEW o \in Client \ {c} PROVE PromiseClient(o)'
  <2>1. PromiseClient(o)  BY DEF PromiseInv
  <2>2. AnswerIsOpen(o)'  BY <2>1 DEF PromiseClient, AnswerIsOpen
  <2>3. SuccessIsWritten(o)' /\ FailureWroteNothing(o)'
    BY <2>1 DEF PromiseClient, SuccessIsWritten, FailureWroteNothing, DocsOf, Targets
  <2>4. JoinsUnfrozen(o)'  BY <2>1 DEF PromiseClient, JoinsUnfrozen, Fresh
  <2>5. SeatIsFree(o)'  BY <2>1 DEF PromiseClient, SeatIsFree, Writes
  <2>6. KnowsIfLast(o)'
    BY <2>1 DEF PromiseClient, KnowsIfLast, KnowsCount, Writes
  <2>7. HasSession(o)'  BY <2>1 DEF PromiseClient, HasSession
  <2>8. QED  BY <2>2, <2>3, <2>4, <2>5, <2>6, <2>7 DEF PromiseClient
<1>2. KickedAreOut' /\ (SeatsSeen => SeatExclusive)'
  BY DEF PromiseInv, KickedAreOut, SeatExclusive
<1>3. QED  BY <1>1, <1>2 DEF PromiseInv

(* The last document that is written is the room. *)
LEMMA RoomIsLast ==
    ASSUME RoomInv, NEW c \in Client, pc[c] = "write",
           IsNext(c, "room"), wrote' = [wrote EXCEPT ![c] = @ \union {"room"}]
    PROVE  wrote'[c] = DocsOf(call[c])
<1>1. TypeOK /\ ClientInv(c)  BY DEF RoomInv
<1>2. call[c] \in Calls /\ "room" \in DocsOf(call[c])
  BY <1>1 DEF TypeOK, DocsOf
<1>3. \A e \in DocsOf(call[c]) \ {"room"} : Rank[e] < Rank["room"]
                                         /\ Rank[e] \in Int /\ Rank["room"] \in Int
  BY <1>2, CallFields DEF Rank, Doc, Kind
<1>4. wrote[c] \subseteq DocsOf(call[c])  BY <1>1 DEF ClientInv
<1>5. DocsOf(call[c]) \ {"room"} \subseteq wrote[c]
  <2> SUFFICES ASSUME NEW e \in DocsOf(call[c]) \ {"room"}, e \notin wrote[c]
               PROVE FALSE
    OBVIOUS
  <2>1. Rank["room"] <= Rank[e]  BY DEF IsNext
  <2>2. QED  BY <1>3, <2>1
<1>6. QED  BY <1>1, <1>2, <1>4, <1>5 DEF TypeOK

-----------------------------------------------------------------------------
(* Every step of a client before its commit keeps what it relies on. *)

LEMMA PromiseRequest ==
    ASSUME PromiseInv, RoomInv', NEW c \in Client, NEW x \in Calls, Request(c, x)
    PROVE  PromiseInv'
<1>1. TypeOK /\ PromiseClient(c)  BY DEF PromiseInv, RoomInv
<1>2. pc[c] = "idle" /\ pc'[c] = "start" /\ reply' = reply
  BY <1>1 DEF Request, TypeOK
<1>3. PromiseClient(c)'
  BY <1>1, <1>2
  DEF PromiseClient, AnswerIsOpen, SuccessIsWritten, FailureWroteNothing,
      JoinsUnfrozen, Fresh, SeatIsFree, KnowsIfLast, KnowsCount, Writes, HasSession
<1>4. QED  BY <1>1, <1>2, <1>3, PromiseOwnStep DEF Request, TypeOK

LEMMA PromiseStart ==
    ASSUME PromiseInv, RoomInv', NEW c \in Client, StartTransaction(c)
    PROVE  PromiseInv'
<1>1. TypeOK /\ PromiseClient(c) /\ ClientInv(c)  BY DEF PromiseInv, RoomInv
<1>2. /\ pc[c] = "start" /\ pc'[c] \in {"write", "find"}
      /\ session'[WorkerOf[c]] = c /\ UNCHANGED <<db, call, stale, wrote, reply>>
      /\ pc'[c] = "write" => call[c].fn = "all"
      /\ WorkerOf[c] \in Worker
  BY <1>1, ConstantsAssumption DEF StartTransaction, TypeOK
<1>3. call[c] \in Calls  BY <1>1, <1>2 DEF TypeOK
<1>4. AnswerIsOpen(c)'  BY <1>1, <1>2 DEF PromiseClient, AnswerIsOpen
<1>5. SuccessIsWritten(c)' /\ FailureWroteNothing(c)'
  BY <1>2 DEF SuccessIsWritten, FailureWroteNothing
<1>6. JoinsUnfrozen(c)' /\ SeatIsFree(c)' /\ KnowsIfLast(c)'
  BY <1>2 DEF JoinsUnfrozen, Fresh, SeatIsFree, KnowsIfLast, KnowsCount, Writes
<1>7. HasSession(c)'  BY <1>2 DEF HasSession
<1>8. ASSUME NEW o \in Client \ {c}, session[WorkerOf[o]] = o
      PROVE  session'[WorkerOf[o]] = o
  BY <1>1, <1>8, ConstantsAssumption DEF StartTransaction, TypeOK
<1>9. QED
  BY <1>1, <1>2, <1>4, <1>5, <1>6, <1>7, <1>8, PromiseOwnStep
  DEF StartTransaction, TypeOK, PromiseClient

LEMMA PromiseFindRefused ==
    ASSUME PromiseInv, RoomInv', NEW c \in Client, FindRefused(c)
    PROVE  PromiseInv'
<1> DEFINE yes == TRUE
<1>1. TypeOK /\ PromiseClient(c) /\ ClientInv(c)  BY DEF PromiseInv, RoomInv
<1>2. /\ pc[c] = "find" /\ pc'[c] = "commit"
      /\ UNCHANGED <<db, session, call, stale, wrote>>
      /\ wrote'[c] = {}
  BY <1>1 DEF FindRefused, TypeOK, ClientInv
<1>3. reply' = [reply EXCEPT ![c].done = yes] /\ yes \in BOOLEAN
  BY DEF FindRefused
<1> HIDE DEF yes
<1>4. reply'[c].can = reply[c].can /\ \A o \in Client \ {c} : reply'[o] = reply[o]
  BY <1>1, <1>3, ReplyDone
<1>5. ~reply[c].can  BY <1>1, <1>2 DEF PromiseClient, AnswerIsOpen
<1>6. AnswerIsOpen(c)' /\ SuccessIsWritten(c)' /\ FailureWroteNothing(c)'
  BY <1>2, <1>4, <1>5 DEF AnswerIsOpen, SuccessIsWritten, FailureWroteNothing
<1>7. JoinsUnfrozen(c)' /\ SeatIsFree(c)' /\ KnowsIfLast(c)'
  BY <1>2 DEF JoinsUnfrozen, Fresh, SeatIsFree, KnowsIfLast, KnowsCount, Writes
<1>8. HasSession(c)'  BY <1>1, <1>2 DEF PromiseClient, HasSession
<1>9. QED
  BY <1>1, <1>2, <1>4, <1>6, <1>7, <1>8, PromiseOwnStep
  DEF FindRefused, TypeOK, PromiseClient

LEMMA PromiseFindOnline ==
    ASSUME PromiseInv, RoomInv', NEW c \in Client, FindOnline(c)
    PROVE  PromiseInv'
<1>1. TypeOK /\ PromiseClient(c) /\ ClientInv(c)  BY DEF PromiseInv, RoomInv
<1>2. /\ pc[c] = "find" /\ pc'[c] = "write" /\ call'[c].fn = "online"
      /\ UNCHANGED <<db, session, call, stale, wrote, reply>>
  BY <1>1 DEF FindOnline, TypeOK
<1>3. PromiseClient(c)'
  BY <1>1, <1>2
  DEF PromiseClient, AnswerIsOpen, SuccessIsWritten, FailureWroteNothing,
      JoinsUnfrozen, SeatIsFree, KnowsIfLast, KnowsCount, HasSession
<1>4. QED  BY <1>1, <1>2, <1>3, PromiseOwnStep DEF FindOnline, TypeOK

LEMMA PromiseFindQueue ==
    ASSUME PromiseInv, RoomInv', NEW c \in Client, FindQueue(c)
    PROVE  PromiseInv'
<1> DEFINE x == call[c]
           can == x.want => HasPlace(x)
           full == x.want /\ LastPlaceOrNone(x)
<1>1. TypeOK /\ PromiseClient(c) /\ ClientInv(c)  BY DEF PromiseInv, RoomInv
<1>2. /\ pc[c] = "find" /\ x.fn = "queue" /\ ~Refused(x)
      /\ pc'[c] = IF x.want THEN "replica" ELSE "write"
      /\ UNCHANGED <<db, session, call, stale, wrote>>
  BY <1>1 DEF FindQueue, TypeOK
<1>3. x \in Calls  BY <1>1, <1>2 DEF TypeOK
<1>4. /\ x.want \in BOOLEAN /\ x.room \in Room
      /\ Capacity[x.room] \in Nat /\ cnt["queue"][x.room] \in Int
  BY <1>1, <1>3, CallFields, ConstantsAssumption DEF TypeOK, Kind
<1>5. can \in BOOLEAN /\ full \in BOOLEAN
  BY <1>4 DEF HasPlace, LastPlaceOrNone
<1>6. reply' = [reply EXCEPT ![c].can = can, ![c].full = full]
  BY DEF FindQueue
<1>7. x.want /\ can => (full <=> Capacity[x.room] - cnt["queue"][x.room] = 1)
  BY <1>4 DEF HasPlace, LastPlaceOrNone
<1> HIDE DEF can, full
<1>8. /\ reply'[c].can = can /\ reply'[c].full = full
      /\ reply'[c].done = reply[c].done
      /\ \A o \in Client \ {c} : reply'[o] = reply[o]
  BY <1>1, <1>5, <1>6, ReplyCanFull
<1>9. AnswerIsOpen(c)' /\ SuccessIsWritten(c)' /\ FailureWroteNothing(c)'
  BY <1>1, <1>2, <1>8
  DEF PromiseClient, AnswerIsOpen, SuccessIsWritten, FailureWroteNothing
<1>10. JoinsUnfrozen(c)'
  BY <1>2 DEF JoinsUnfrozen, Refused, FrozenOut
<1>11. SeatIsFree(c)'  BY <1>2 DEF SeatIsFree, Writes
<1>12. KnowsIfLast(c)'
  <2> SUFFICES ASSUME KnowsCount(c)'
               PROVE  reply'[c].full <=> Capacity[x.room] - cnt["queue"][x.room] = 1
    BY <1>2 DEF KnowsIfLast
  <2>1. x.want  BY <1>2 DEF KnowsCount
  <2>2. can  BY <1>2, <1>8, <2>1 DEF KnowsCount, Writes
  <2>3. QED  BY <1>7, <1>8, <2>1, <2>2
<1>13. HasSession(c)'  BY <1>1, <1>2 DEF PromiseClient, HasSession
<1>14. QED
  BY <1>1, <1>2, <1>8, <1>9, <1>10, <1>11, <1>12, <1>13, PromiseOwnStep
  DEF FindQueue, TypeOK, PromiseClient

LEMMA PromiseFindReadyOrBattle ==
    ASSUME PromiseInv, RoomInv', NEW c \in Client, FindReadyOrBattle(c)
    PROVE  PromiseInv'
<1>1. TypeOK /\ PromiseClient(c) /\ ClientInv(c)  BY DEF PromiseInv, RoomInv
<1>2. /\ pc[c] = "find" /\ pc'[c] = "replica" /\ call'[c].fn \in {"ready", "battle"}
      /\ UNCHANGED <<db, session, call, stale, wrote, reply>>
  BY <1>1 DEF FindReadyOrBattle, TypeOK
<1>3. PromiseClient(c)'
  BY <1>1, <1>2
  DEF PromiseClient, AnswerIsOpen, SuccessIsWritten, FailureWroteNothing,
      JoinsUnfrozen, SeatIsFree, KnowsIfLast, KnowsCount, Writes, HasSession
<1>4. QED  BY <1>1, <1>2, <1>3, PromiseOwnStep DEF FindReadyOrBattle, TypeOK

LEMMA PromiseAfterSeats ==
    ASSUME PromiseInv, RoomInv', NEW c \in Client,
           pc[c] = "replica", call[c].fn = "queue",
           NEW taken \in BOOLEAN, AfterSeats(c, taken),
           SeatsSeen /\ ~taken /\ call[c].want =>
               \A u \in User : seat[call[c].room][u] # call[c].at
    PROVE  PromiseInv'
<1> DEFINE ok == reply[c].can /\ ~taken
           notOk == ~ok
<1>1. TypeOK /\ PromiseClient(c) /\ ClientInv(c)  BY DEF PromiseInv, RoomInv
<1>2. /\ pc'[c] = IF ok THEN "write" ELSE "commit"
      /\ UNCHANGED <<db, session, call, stale, wrote>>
      /\ wrote[c] = {}
  BY <1>1 DEF AfterSeats, TypeOK, ClientInv
<1>3. ok \in BOOLEAN /\ notOk \in BOOLEAN /\ (ok => reply[c].can /\ ~taken)
      /\ (ok <=> ~notOk)
  OBVIOUS
<1>4. reply' = [reply EXCEPT ![c].can = ok, ![c].done = notOk]
  BY DEF AfterSeats
<1> HIDE DEF ok, notOk
<1>5. /\ reply'[c].can = ok /\ reply'[c].done = notOk
      /\ reply'[c].full = reply[c].full
      /\ \A o \in Client \ {c} : reply'[o] = reply[o]
  BY <1>1, <1>3, <1>4, ReplyCanDone
<1>6. AnswerIsOpen(c)' /\ SuccessIsWritten(c)' /\ FailureWroteNothing(c)'
  BY <1>2, <1>3, <1>5 DEF AnswerIsOpen, SuccessIsWritten, FailureWroteNothing
<1>7. JoinsUnfrozen(c)'
  BY <1>1, <1>2 DEF PromiseClient, JoinsUnfrozen, Fresh
<1>8. SeatIsFree(c)'  BY <1>2, <1>3 DEF SeatIsFree, Writes
<1>9. KnowsIfLast(c)'
  BY <1>1, <1>2, <1>3, <1>5 DEF PromiseClient, KnowsIfLast, KnowsCount, Writes
<1>10. HasSession(c)'  BY <1>1, <1>2 DEF PromiseClient, HasSession
<1>11. QED
  BY <1>1, <1>2, <1>5, <1>6, <1>7, <1>8, <1>9, <1>10, PromiseOwnStep
  DEF AfterSeats, TypeOK, PromiseClient

(* A secondary that is not behind shows the rooms as they are. *)
LEMMA OnlyView ==
    ASSUME TypeOK, UpToDate PROVE Visible = {[seat |-> seat, cnt |-> cnt]}
<1>1. Len(lagging) = 0 /\ lagging \in Seq(Views)
  BY DEF TypeOK, UpToDate
<1>2. DOMAIN lagging = {}  BY <1>1
<1>3. QED  BY <1>2 DEF Visible

(* The list shows everybody who has a seat. *)
LEMMA AllAreListed ==
    ASSUME SeatsSeen, TypeOK, WithinCapacity, Background, NEW x \in Calls,
           NEW view \in Visible, NEW listed \in FirstOf(Seated(x, view)),
           ~Taken(x, view, listed), x.at # None, NEW u \in User
    PROVE  seat[x.room][u] # x.at
<1> DEFINE r == x.room
           users == Seated(x, view)
           queue == on["queue"][r]
<1>1. view.seat = seat  BY OnlyView DEF SeatsSeen
<1>2. r \in Room  BY CallFields
<1>3. users \subseteq queue
  BY <1>1, <1>2 DEF Seated, Background, SeatedAreQueued
<1>4. IsFiniteSet(queue)
  BY <1>2, ConstantsAssumption, FS_Subset DEF TypeOK, Kind
<1>5. /\ Cardinality(users) \in Nat /\ Cardinality(queue) \in Nat
      /\ Cardinality(users) <= Cardinality(queue)
  BY <1>3, <1>4, FS_Subset, FS_CardinalityType
<1>6. cnt["queue"][r] = AiPlayers[r] + Cardinality(queue)
  BY <1>2 DEF SeatsSeen, Background, AtomicInv, CountersMatch, Kind
<1>7. cnt["queue"][r] <= Capacity[r] /\ Capacity[r] <= AiPlayers[r] + QueueLimit
  BY <1>2 DEF SeatsSeen, WithinCapacity
<1>8. AiPlayers[r] \in Nat /\ Capacity[r] \in Nat /\ QueueLimit \in Nat
  BY <1>2, ConstantsAssumption
<1> DEFINE n == Cardinality(users)
           m == Cardinality(queue)
<1> HIDE DEF users, queue, n, m
<1>9. n <= QueueLimit
  <2>1. n \in Nat /\ m \in Nat /\ n <= m  BY <1>5 DEF n, m
  <2>2. cnt["queue"][r] = AiPlayers[r] + m  BY <1>6 DEF m
  <2>3. QED  BY <1>7, <1>8, <2>1, <2>2
<1>10. listed = users  BY <1>9 DEF FirstOf, n, users
<1>11. QED  BY <1>1, <1>10 DEF Taken, Seated, users

LEMMA PromiseReplicaSeats ==
    ASSUME PromiseInv, Background, RoomInv', NEW c \in Client,
           ReplicaSeats(c) \/ ReplicaSeatsFails(c)
    PROVE  PromiseInv'
<1>1. CASE ReplicaSeats(c)
  <2>0. PICK view \in Visible :
          \E listed \in FirstOf(Seated(call[c], view)) :
              AfterSeats(c, Taken(call[c], view, listed))
    BY <1>1 DEF ReplicaSeats
  <2>1. PICK listed \in FirstOf(Seated(call[c], view)) :
          AfterSeats(c, Taken(call[c], view, listed))
    BY <2>0
  <2>2. Taken(call[c], view, listed) \in BOOLEAN  BY DEF Taken
  <2>3. TypeOK /\ WithinCapacity /\ ClientInv(c)  BY DEF PromiseInv, RoomInv
  <2>4. pc[c] = "replica" /\ call[c].fn = "queue" /\ call[c] \in Calls
    BY <1>1, <2>3 DEF ReplicaSeats, TypeOK
  <2>5. call[c].want => call[c].at # None  BY <2>4 DEF Calls
  <2>6. SeatsSeen /\ ~Taken(call[c], view, listed) /\ call[c].want =>
          \A u \in User : seat[call[c].room][u] # call[c].at
    BY <2>3, <2>4, <2>5, AllAreListed
  <2>7. QED  BY <2>1, <2>2, <2>4, <2>6, PromiseAfterSeats
<1>2. CASE ReplicaSeatsFails(c)
  <2>0. PICK view \in Visible :
          \E listed \in SUBSET Seated(call[c], view) :
              AfterSeats(c, Taken(call[c], view, listed))
    BY <1>2 DEF ReplicaSeatsFails
  <2>1. PICK listed \in SUBSET Seated(call[c], view) :
          AfterSeats(c, Taken(call[c], view, listed))
    BY <2>0
  <2>2. Taken(call[c], view, listed) \in BOOLEAN  BY DEF Taken
  <2>3. QED
    BY <1>2, <2>1, <2>2, PromiseAfterSeats DEF ReplicaSeatsFails, SeatsSeen
<1>3. QED  BY <1>1, <1>2

LEMMA PromiseReplicaCount ==
    ASSUME PromiseInv, RoomInv', NEW c \in Client, ReplicaCount(c)
    PROVE  PromiseInv'
<1> DEFINE x == call[c]
<1>1. TypeOK /\ PromiseClient(c) /\ ClientInv(c)  BY DEF PromiseInv, RoomInv
<1>2. /\ pc[c] = "replica" /\ pc'[c] = "write" /\ x.fn \in {"ready", "battle"}
      /\ UNCHANGED <<db, session, call, stale, wrote>>
  BY <1>1 DEF ReplicaCount, TypeOK
<1>3. x \in Calls  BY <1>1, <1>2 DEF TypeOK
<1>4. PICK view \in Visible : reply' = [reply EXCEPT ![c].full = IsLast(x, view)]
  BY DEF ReplicaCount
<1> DEFINE full == IsLast(x, view)
<1>5. full \in BOOLEAN  BY <1>3, CallFields DEF IsLast
<1>6. UpToDate /\ x.want =>
        (full <=> Capacity[x.room] - cnt[x.fn][x.room] = 1)
  BY <1>1, OnlyView DEF IsLast
<1>7. reply' = [reply EXCEPT ![c].full = full]  BY <1>4
<1> HIDE DEF full
<1>8. /\ reply'[c].can = reply[c].can /\ reply'[c].done = reply[c].done
      /\ reply'[c].full = full
      /\ \A o \in Client \ {c} : reply'[o] = reply[o]
  BY <1>1, <1>5, <1>7, ReplyFull
<1>9. AnswerIsOpen(c)' /\ SuccessIsWritten(c)' /\ FailureWroteNothing(c)'
  BY <1>1, <1>2, <1>8
  DEF PromiseClient, AnswerIsOpen, SuccessIsWritten, FailureWroteNothing
<1>10. JoinsUnfrozen(c)' /\ SeatIsFree(c)'
  BY <1>2 DEF JoinsUnfrozen, SeatIsFree
<1>11. KnowsIfLast(c)'
  BY <1>2, <1>6, <1>8 DEF KnowsIfLast, KnowsCount
<1>12. HasSession(c)'  BY <1>1, <1>2 DEF PromiseClient, HasSession
<1>13. QED
  BY <1>1, <1>2, <1>8, <1>9, <1>10, <1>11, <1>12, PromiseOwnStep
  DEF ReplicaCount, TypeOK, PromiseClient

(* A client that is done with its statements although it has not noted a   *)
(* success. *)
LEMMA PromiseGivesUp ==
    ASSUME PromiseInv, RoomInv', NEW c \in Client,
           pc[c] \in {"find", "replica", "write"},
           pc' = [pc EXCEPT ![c] = "commit"],
           UNCHANGED <<db, session, call, stale, reply>>,
           \A o \in Client \ {c} : wrote'[o] = wrote[o],
           "room" \in wrote'[c] => pc[c] = "write" /\ "room" \notin stale[c],
           wrote'[c] = {} \/ ~Whole,
           \/ call[c].fn \notin wrote'[c]
           \/ pc[c] \in {"replica", "write"} /\ call[c].fn \notin stale[c]
    PROVE  PromiseInv'
<1>1. TypeOK /\ PromiseClient(c)  BY DEF PromiseInv, RoomInv
<1>2. pc'[c] = "commit" /\ \A o \in Client \ {c} : pc'[o] = pc[o]
  BY <1>1 DEF TypeOK
<1>3. ~reply'[c].done  BY <1>1 DEF PromiseClient, AnswerIsOpen
<1>4. AnswerIsOpen(c)' /\ SuccessIsWritten(c)' /\ FailureWroteNothing(c)'
  BY <1>2, <1>3 DEF AnswerIsOpen, SuccessIsWritten, FailureWroteNothing, Whole
<1>5. JoinsUnfrozen(c)'
  BY <1>1, <1>2 DEF PromiseClient, JoinsUnfrozen, Fresh
<1>6. SeatIsFree(c)'
  BY <1>2 DEF SeatIsFree, SeatsSeen, Atomic, Whole, Writes
<1>7. KnowsIfLast(c)'
  BY <1>1, <1>2 DEF PromiseClient, KnowsIfLast, KnowsCount, Writes
<1>8. HasSession(c)'  BY <1>1, <1>2 DEF PromiseClient, HasSession
<1>9. QED
  BY <1>2, <1>4, <1>5, <1>6, <1>7, <1>8, PromiseOwnStep DEF PromiseClient

LEMMA PromiseRolledBack ==
    ASSUME PromiseInv, RoomInv', NEW c \in Client, pc[c] \in {"find", "write"},
           RolledBack(c)
    PROVE  PromiseInv'
<1>1. TypeOK  BY DEF PromiseInv, RoomInv
<1>2. wrote'[c] = {} /\ \A o \in Client \ {c} : wrote'[o] = wrote[o]
  BY <1>1 DEF RolledBack, TypeOK
<1>3. QED  BY <1>2, PromiseGivesUp DEF RolledBack

LEMMA PromiseWrite ==
    ASSUME PromiseInv, RoomInv', NEW c \in Client, Write(c)
    PROVE  PromiseInv'
<1> DEFINE yes == TRUE
<1>1. TypeOK /\ PromiseClient(c) /\ ClientInv(c) /\ RoomInv
  BY DEF PromiseInv, RoomInv
<1>2. PICK d \in Doc :
        /\ IsNext(c, d) /\ d \notin stale[c]
        /\ wrote' = [wrote EXCEPT ![c] = @ \union {d}]
        /\ d # "room" => UNCHANGED <<pc, reply>>
        /\ d = "room" => /\ pc' = [pc EXCEPT ![c] = "commit"]
                         /\ reply' = [reply EXCEPT ![c].can = yes, ![c].done = yes]
  BY DEF Write, Conflict
<1>3. yes \in BOOLEAN /\ yes  OBVIOUS
<1> HIDE DEF yes
<1>4. /\ pc[c] = "write" /\ UNCHANGED <<db, session, call, stale>>
      /\ wrote'[c] = wrote[c] \union {d}
      /\ \A o \in Client \ {c} : wrote'[o] = wrote[o]
  BY <1>1, <1>2 DEF Write, TypeOK
<1>5. HasSession(c)'  BY <1>1, <1>4 DEF PromiseClient, HasSession
<1>6. CASE d # "room"
  <2>1. pc' = pc /\ reply' = reply  BY <1>2, <1>6
  <2>2. PromiseClient(c)'
    BY <1>1, <1>4, <1>5, <2>1
    DEF PromiseClient, AnswerIsOpen, SuccessIsWritten, FailureWroteNothing,
        JoinsUnfrozen, Fresh, SeatIsFree, KnowsIfLast, KnowsCount, Writes
  <2>3. QED  BY <1>1, <1>4, <2>1, <2>2, PromiseOwnStep
<1>7. CASE d = "room"
  <2>1. /\ reply'[c].can = yes /\ reply'[c].done = yes
        /\ reply'[c].full = reply[c].full
        /\ \A o \in Client \ {c} : reply'[o] = reply[o]
    BY <1>1, <1>2, <1>3, <1>7, ReplyCanDone
  <2>2. pc'[c] = "commit" /\ \A o \in Client \ {c} : pc'[o] = pc[o]
    BY <1>1, <1>2, <1>7 DEF TypeOK
  <2>3. wrote'[c] = DocsOf(call[c])  BY <1>1, <1>2, <1>4, <1>7, RoomIsLast
  <2>4. AnswerIsOpen(c)' /\ SuccessIsWritten(c)' /\ FailureWroteNothing(c)'
    BY <1>3, <1>4, <2>1, <2>2, <2>3
    DEF AnswerIsOpen, SuccessIsWritten, FailureWroteNothing, DocsOf, Targets
  <2>5. JoinsUnfrozen(c)'
    <3> SUFFICES ASSUME Fresh(c)', call[c].fn = "queue", call[c].want
                 PROVE  call[c].user \notin frozen[call[c].room]
      BY <1>4 DEF JoinsUnfrozen
    <3>1. call[c].fn \in wrote[c]
      BY <1>4, <1>7, <2>2 DEF Fresh
    <3>2. Fresh(c)  BY <1>1, <1>4, <3>1 DEF ClientInv, Fresh
    <3>3. QED  BY <1>1, <3>2 DEF PromiseClient, JoinsUnfrozen
  <2>6. SeatIsFree(c)'
    BY <1>1, <1>2, <1>4, <1>7 DEF PromiseClient, SeatIsFree, Writes
  <2>7. KnowsIfLast(c)'
    BY <1>1, <1>2, <1>4, <1>7, <2>1, <2>2
    DEF PromiseClient, KnowsIfLast, KnowsCount, Writes
  <2>8. QED
    BY <1>1, <1>4, <1>5, <2>1, <2>2, <2>4, <2>5, <2>6, <2>7, PromiseOwnStep
    DEF PromiseClient
<1>8. QED  BY <1>6, <1>7

LEMMA PromiseFault ==
    ASSUME PromiseInv, Background, RoomInv', NEW c \in Client, Fault(c), ~CommitFails(c)
    PROVE  PromiseInv'
<1>1. TypeOK /\ PromiseClient(c) /\ ClientInv(c)  BY DEF PromiseInv, RoomInv
<1>2. CASE ReplicaSeatsFails(c)  BY <1>2, PromiseReplicaSeats
<1>3. CASE ReplicaCountFails(c)
  <2>1. wrote[c] = {}  BY <1>1, <1>3 DEF ReplicaCountFails, ClientInv
  <2>2. QED  BY <1>3, <2>1, PromiseGivesUp DEF ReplicaCountFails
<1>4. CASE Abort(c)  BY <1>4, PromiseRolledBack DEF Abort
<1>5. CASE Lost(c)
  <2>1. /\ wrote'[c] = wrote[c] /\ \A o \in Client : wrote'[o] = wrote[o]
        /\ "room" \notin wrote[c] /\ ~Whole
        /\ pc[c] = "write" => call[c].fn \notin wrote[c] \/ call[c].fn \notin stale[c]
        /\ pc[c] = "find" => wrote[c] = {}
    BY <1>1, <1>5 DEF Lost, ClientInv, Whole
  <2>2. QED  BY <1>5, <2>1, PromiseGivesUp DEF Lost
<1>6. CASE Unanswered(c)
  <2>1. PICK d \in Doc : /\ d \notin stale[c]
                         /\ wrote' = [wrote EXCEPT ![c] = @ \union {d}]
    BY <1>6 DEF Unanswered, Conflict
  <2>2. /\ pc[c] = "write" /\ ~Whole /\ UNCHANGED <<db, session, call, stale, reply>>
        /\ pc' = [pc EXCEPT ![c] = "commit"]
    BY <1>6 DEF Unanswered, Whole
  <2>3. /\ wrote'[c] = wrote[c] \union {d}
        /\ \A o \in Client \ {c} : wrote'[o] = wrote[o]
    BY <1>1, <2>1 DEF TypeOK
  <2>4. "room" \in wrote'[c] => "room" \notin stale[c]
    BY <1>1, <2>1, <2>2, <2>3 DEF ClientInv
  <2>5. call[c].fn \in wrote'[c] => call[c].fn \notin stale[c]
    BY <1>1, <2>1, <2>2, <2>3 DEF ClientInv
  <2>6. QED  BY <2>2, <2>3, <2>4, <2>5, PromiseGivesUp
<1>7. QED  BY <1>2, <1>3, <1>4, <1>5, <1>6 DEF Fault

-----------------------------------------------------------------------------
(* The commit *)

(* Whatever is committed, another client's snapshot of the same document   *)
(* becomes stale, and no other client has written that document.           *)
LEMMA CommitMakesStale ==
    ASSUME RoomInv, NEW c \in Client, Commit(c),
           NEW o \in Client \ {c}, pc[o] \in {"replica", "write", "commit"},
           call[o].fn # "all",
           NEW d \in wrote[c], d \in DocsOf(call[o]), SameDoc(call[c], call[o], d)
    PROVE  /\ pc[o] \in {"replica", "write"} => d \in stale'[o]
           /\ d \notin wrote[o]
<1>1. stale'[o] = IF InSnapshot(o)
                  THEN stale[o] \union
                         {e \in wrote[c] \intersect DocsOf(call[o]) :
                            SameDoc(call[c], call[o], e)}
                  ELSE stale[o]
  BY DEF Commit, StaleAfter
<1>2. pc[o] \in {"replica", "write"} => InSnapshot(o)  BY DEF InSnapshot
<1>3. QED  BY <1>1, <1>2 DEF RoomInv, SoleWriter

(* A client that still counts on its write to the room has nothing to fear *)
(* of a commit: that one is of another room, or writes no room.            *)
LEMMA CommitOfAnotherRoom ==
    ASSUME RoomInv, NEW c \in Client, Commit(c),
           NEW o \in Client \ {c}, call[o].fn # "all",
           \/ Writes(o)'
           \/ pc'[o] = "replica" /\ "room" \notin stale'[o],
           "room" \in wrote[c]
    PROVE  call[c].room # call[o].room
<1>1. /\ pc'[o] = pc[o] /\ wrote'[o] = wrote[o]
  BY DEF RoomInv, TypeOK, Commit, Return
<1>2. "room" \in DocsOf(call[o])  BY DEF DocsOf
<1>3. pc[o] \in {"replica", "write", "commit"}  BY <1>1 DEF Writes
<1>4. SUFFICES ASSUME SameDoc(call[c], call[o], "room") PROVE FALSE
  BY DEF SameDoc
<1>5. QED  BY <1>1, <1>2, <1>3, <1>4, CommitMakesStale DEF Writes

LEMMA CommitWhole ==
    ASSUME PromiseInv, Whole, NEW c \in Client, Commit(c), wrote[c] # {}
    PROVE  wrote[c] = DocsOf(call[c])
  BY DEF PromiseInv, PromiseClient, Commit, SuccessIsWritten, FailureWroteNothing

LEMMA PromiseCommitOthers ==
    ASSUME PromiseInv, RoomInv', NEW c \in Client, Commit(c),
           NEW o \in Client \ {c}
    PROVE  PromiseClient(o)'
<1> DEFINE x == call[c]
           y == call[o]
<1>1. TypeOK /\ RoomInv /\ PromiseClient(o) /\ PromiseClient(c) /\ ClientInv(c)
  BY DEF PromiseInv, RoomInv
<1>2. /\ pc'[o] = pc[o] /\ call'[o] = y /\ reply'[o] = reply[o]
      /\ wrote'[o] = wrote[o]
      /\ pc[c] = "commit"
  BY <1>1 DEF Commit, Return, TypeOK
<1>3. x \in Calls /\ (pc[o] # "idle" => y \in Calls)
  BY <1>1, <1>2 DEF TypeOK
<1>4. stale[o] \subseteq stale'[o]  BY <1>1 DEF Commit, StaleAfter, TypeOK
<1>5. AnswerIsOpen(o)'  BY <1>1, <1>2 DEF PromiseClient, AnswerIsOpen
<1>6. SuccessIsWritten(o)' /\ FailureWroteNothing(o)'
  BY <1>1, <1>2
  DEF PromiseClient, SuccessIsWritten, FailureWroteNothing, DocsOf, Targets
<1>7. JoinsUnfrozen(o)'
  <2> SUFFICES ASSUME Fresh(o)', y.fn = "queue", y.want
               PROVE  y.user \notin frozen'[y.room]
    BY <1>2 DEF JoinsUnfrozen
  <2>1. Fresh(o)  BY <1>2, <1>4 DEF Fresh
  <2>2. y.user \notin frozen[y.room]
    BY <1>1, <2>1 DEF PromiseClient, JoinsUnfrozen
  <2>3. pc[o] \in {"replica", "write", "commit"} /\ y.fn # "all"
        /\ "queue" \in DocsOf(y)
    BY <2>1 DEF Fresh, DocsOf, Targets
  <2>4. ~("queue" \in wrote[c] /\ x.room = y.room /\ x.user = y.user)
    <3> SUFFICES ASSUME "queue" \in wrote[c], SameDoc(x, y, "queue") PROVE FALSE
      BY DEF SameDoc
    <3>1. /\ pc[o] \in {"replica", "write"} => "queue" \in stale'[o]
          /\ "queue" \notin wrote[o]
      BY <1>1, <2>3, CommitMakesStale
    <3>2. QED  BY <1>2, <3>1 DEF Fresh
  <2>5. x.room \in Room /\ y.room \in Room
    BY <1>3, <2>3, CallFields
  <2>6. QED  BY <1>1, <2>2, <2>4, <2>5 DEF Commit, FrozenAfter, TypeOK
<1>8. SeatIsFree(o)'
  <2> SUFFICES ASSUME SeatsSeen, Writes(o)', y.fn = "queue", y.want,
                      NEW u \in User
               PROVE  seat'[y.room][u] # y.at
    BY <1>2 DEF SeatIsFree
  <2>1. Writes(o)  BY <1>2, <1>4 DEF Writes
  <2>2. seat[y.room][u] # y.at  BY <1>1, <2>1 DEF PromiseClient, SeatIsFree
  <2>3. "room" \in wrote[c] => x.room # y.room
    BY <1>1, CommitOfAnotherRoom
  <2>4. wrote[c] # {} => "room" \in wrote[c]
    BY <1>1, CommitWhole DEF SeatsSeen, Atomic, Whole, DocsOf
  <2>5. pc[o] # "idle"  BY <2>1 DEF Writes
  <2>6. x.room \in Room /\ y.room \in Room
    BY <1>3, <2>5, CallFields
  <2>7. QED  BY <1>1, <2>2, <2>3, <2>4, <2>6 DEF Commit, SeatAfter, TypeOK
<1>9. KnowsIfLast(o)'
  <2> SUFFICES ASSUME UpToDate, KnowsCount(o)'
               PROVE  reply[o].full <=> Capacity[y.room] - cnt'[y.fn][y.room] = 1
    BY <1>2 DEF KnowsIfLast
  <2>1. KnowsCount(o)  BY <1>2, <1>4 DEF KnowsCount, Writes
  <2>2. reply[o].full <=> Capacity[y.room] - cnt[y.fn][y.room] = 1
    BY <1>1, <2>1 DEF PromiseClient, KnowsIfLast
  <2>3. y.fn \in Kind /\ y.fn # "all"  BY <2>1 DEF KnowsCount, Kind
  <2>4. \/ Writes(o)'
        \/ pc'[o] = "replica" /\ "room" \notin stale'[o]
    BY DEF KnowsCount, Writes
  <2>5. "room" \in wrote[c] => x.room # y.room
    BY <1>1, <2>3, <2>4, CommitOfAnotherRoom
  <2>6. pc[o] # "idle"  BY <2>1 DEF KnowsCount, Writes
  <2>7. y.room \in Room  BY <1>3, <2>6, CallFields
  <2>8. cnt'[y.fn][y.room] = cnt[y.fn][y.room]
    BY <2>3, <2>5, <2>7 DEF Commit, CntAfter
  <2>9. QED  BY <2>2, <2>8
<1>10. HasSession(o)'
  <2> SUFFICES ASSUME session[WorkerOf[o]] = o, session[WorkerOf[c]] = c
               PROVE  session'[WorkerOf[o]] = o
    BY <1>1, <1>2 DEF PromiseClient, HasSession
  <2>1. WorkerOf[o] # WorkerOf[c]  OBVIOUS
  <2>2. QED  BY <1>1, <2>1, ConstantsAssumption DEF Commit, Return, TypeOK
<1>11. QED
  BY <1>5, <1>6, <1>7, <1>8, <1>9, <1>10 DEF PromiseClient

LEMMA PromiseReturns ==
    ASSUME TypeOK, NEW c \in Client, Return(c)
    PROVE  PromiseClient(c)'
<1>1. pc'[c] = "idle"  BY DEF Return, TypeOK
<1>2. ~reply'[c].can /\ ~reply'[c].done  BY DEF Return, TypeOK, NoReply
<1>3. QED
  BY <1>1, <1>2
  DEF PromiseClient, AnswerIsOpen, SuccessIsWritten, FailureWroteNothing,
      JoinsUnfrozen, Fresh, SeatIsFree, KnowsIfLast, KnowsCount, Writes, HasSession

LEMMA PromiseCommit ==
    ASSUME PromiseInv, RoomInv', NEW c \in Client, Commit(c)
    PROVE  PromiseInv'
<1> DEFINE x == call[c]
<1>1. TypeOK /\ ClientInv(c) /\ PromiseClient(c)  BY DEF PromiseInv, RoomInv
<1>2. x \in Calls /\ pc[c] = "commit"  BY <1>1 DEF Commit, TypeOK
<1>3. /\ x.room \in Room /\ x.user \in User /\ x.want \in BOOLEAN
      /\ x.fn = "all" => ~x.want
  BY <1>2, CallFields
<1>4. PromiseClient(c)'  BY <1>1, PromiseReturns DEF Commit
<1>5. \A o \in Client : PromiseClient(o)'
  BY <1>4, PromiseCommitOthers
<1>6. KickedAreOut'
  <2> SUFFICES ASSUME NEW r \in Room, NEW u \in frozen'[r], u \in on'["queue"][r]
               PROVE  FALSE
    BY DEF KickedAreOut
  <2>1. u \notin frozen[r] \/ u \notin on["queue"][r]
    BY DEF PromiseInv, KickedAreOut
  <2>2. /\ frozen'[r] = IF "queue" \in wrote[c] /\ r = x.room
                        THEN IF x.kick THEN frozen[r] \union {x.user}
                                       ELSE frozen[r] \ {x.user}
                        ELSE frozen[r]
        /\ on'["queue"][r] = IF "queue" \in wrote[c] /\ r = x.room
                             THEN Flip(on["queue"][r], x) ELSE on["queue"][r]
    BY <1>1, <1>3 DEF Commit, FrozenAfter, OnAfter, Kind, TypeOK
  <2>3. x.kick => ~x.want  BY <1>2 DEF Calls
  <2>4. QED  BY <2>1, <2>2, <2>3 DEF Flip
<1>7. SeatsSeen => SeatExclusive'
  <2> SUFFICES ASSUME SeatsSeen, NEW r \in Room, NEW u \in User, NEW v \in User,
                      u # v, seat'[r][u] # None, seat'[r][u] = seat'[r][v]
               PROVE  FALSE
    BY DEF SeatExclusive
  <2>1. seat[r][u] = None \/ seat[r][u] # seat[r][v]
    BY DEF PromiseInv, SeatExclusive
  <2>2. PICK w \in {u, v} : seat'[r][w] # seat[r][w]  BY <2>1
  <2>3. "queue" \in wrote[c] /\ r = x.room /\ w = x.user /\ seat'[r][w] = x.at
    BY <1>1, <1>3, <2>2 DEF Commit, SeatAfter, TypeOK
  <2>4. x.fn = "queue" /\ x.want
    BY <1>2, <2>3 DEF Calls
  <2>5. "room" \in wrote[c]
    BY <2>3, CommitWhole DEF SeatsSeen, Atomic, Whole, DocsOf
  <2>6. \A o \in User : seat[r][o] # x.at
    BY <1>1, <1>2, <2>3, <2>4, <2>5 DEF PromiseClient, SeatIsFree, Writes
  <2>7. \A o \in User \ {w} : seat'[r][o] = seat[r][o]
    BY <1>1, <1>3, <2>3 DEF Commit, SeatAfter, TypeOK
  <2>8. QED  BY <2>3, <2>6, <2>7
<1>8. QED  BY <1>5, <1>6, <1>7 DEF PromiseInv, SeatExclusive

LEMMA PromiseNext == PromiseInv /\ Background /\ [Next]_vars => PromiseInv'
<1> SUFFICES ASSUME PromiseInv, Background, [Next]_vars PROVE PromiseInv'
  OBVIOUS
<1>0. TypeOK /\ RoomInv /\ RoomInv'  BY InvNext DEF PromiseInv, RoomInv
<1> USE <1>0
<1>1. ASSUME NEW c \in Client, NEW x \in Calls, Request(c, x) PROVE PromiseInv'
  BY <1>1, PromiseRequest
<1>2. ASSUME NEW c \in Client, Progress(c) PROVE PromiseInv'
  <2>1. CASE StartTransaction(c)  BY <2>1, PromiseStart
  <2>2. CASE FindRefused(c)  BY <2>2, PromiseFindRefused
  <2>3. CASE FindOnline(c)  BY <2>3, PromiseFindOnline
  <2>4. CASE FindQueue(c)  BY <2>4, PromiseFindQueue
  <2>5. CASE FindReadyOrBattle(c)  BY <2>5, PromiseFindReadyOrBattle
  <2>6. CASE ReplicaSeats(c)  BY <2>6, PromiseReplicaSeats
  <2>7. CASE ReplicaCount(c)  BY <2>7, PromiseReplicaCount
  <2>8. CASE Write(c)  BY <2>8, PromiseWrite
  <2>9. CASE WriteConflict(c)  BY <2>9, PromiseRolledBack DEF WriteConflict
  <2>10. CASE Commit(c)  BY <2>10, PromiseCommit
  <2>11. QED
    BY <1>2, <2>1, <2>2, <2>3, <2>4, <2>5, <2>6, <2>7, <2>8, <2>9, <2>10
    DEF Progress
<1>3. ASSUME NEW c \in Client, CommitFails(c) PROVE PromiseInv'
  <2>1. PromiseClient(c)' /\ PromiseClient(c)
    BY <1>3, PromiseReturns DEF CommitFails, PromiseInv
  <2>2. \A o \in Client \ {c} :
           /\ pc'[o] = pc[o] /\ call'[o] = call[o] /\ reply'[o] = reply[o]
           /\ stale'[o] = stale[o] /\ wrote'[o] = wrote[o]
    BY <1>3 DEF CommitFails, Return, TypeOK
  <2>3. session[WorkerOf[c]] = c
    BY <1>3, <2>1 DEF CommitFails, PromiseClient, HasSession
  <2>4. ASSUME NEW o \in Client \ {c}, session[WorkerOf[o]] = o
        PROVE  session'[WorkerOf[o]] = o
    <3>1. WorkerOf[o] # WorkerOf[c]  BY <2>3, <2>4
    <3>2. QED  BY <1>3, <2>4, <3>1, ConstantsAssumption DEF CommitFails, Return, TypeOK
  <2>5. QED  BY <1>3, <2>1, <2>2, <2>4, PromiseOwnStep DEF CommitFails
<1>4. ASSUME NEW c \in Client, Fault(c) PROVE PromiseInv'
  BY <1>3, <1>4, PromiseFault
<1>5. ASSUME UNCHANGED <<on, cnt, seat, session, pc, call, stale, wrote, reply>>,
             \A r \in Room : frozen'[r] \subseteq frozen[r]
      PROVE  PromiseInv'
  <2>1. ASSUME NEW c \in Client PROVE PromiseClient(c)'
    <3>1. PromiseClient(c)  BY DEF PromiseInv
    <3>2. JoinsUnfrozen(c)'
      <4> SUFFICES ASSUME Fresh(c)', call[c].fn = "queue", call[c].want
                   PROVE  call[c].user \notin frozen'[call[c].room]
        BY <1>5 DEF JoinsUnfrozen
      <4>1. Fresh(c) /\ pc[c] # "idle"  BY <1>5 DEF Fresh
      <4>2. call[c].room \in Room  BY <4>1, CallFields DEF TypeOK
      <4>3. QED  BY <1>5, <3>1, <4>1, <4>2 DEF PromiseClient, JoinsUnfrozen
    <3>3. AnswerIsOpen(c)'  BY <1>5, <3>1 DEF PromiseClient, AnswerIsOpen
    <3>4. SuccessIsWritten(c)' /\ FailureWroteNothing(c)'
      BY <1>5, <3>1
      DEF PromiseClient, SuccessIsWritten, FailureWroteNothing, DocsOf, Targets
    <3>5. SeatIsFree(c)'  BY <1>5, <3>1 DEF PromiseClient, SeatIsFree, Writes
    <3>6. KnowsIfLast(c)'
      BY <1>5, <3>1 DEF PromiseClient, KnowsIfLast, KnowsCount, Writes
    <3>7. HasSession(c)'  BY <1>5, <3>1 DEF PromiseClient, HasSession
    <3>8. QED  BY <3>2, <3>3, <3>4, <3>5, <3>6, <3>7 DEF PromiseClient
  <2>2. KickedAreOut'  BY <1>5 DEF PromiseInv, KickedAreOut
  <2>3. SeatsSeen => SeatExclusive'  BY <1>5 DEF PromiseInv, SeatExclusive
  <2>4. QED  BY <2>1, <2>2, <2>3 DEF PromiseInv, SeatExclusive
<1>6. ASSUME NEW r \in Room, NEW u \in User, Thaw(r, u) PROVE PromiseInv'
  <2>1. \A q \in Room : frozen'[q] \subseteq frozen[q]
    BY <1>6 DEF Thaw, TypeOK
  <2>2. QED  BY <1>5, <1>6, <2>1 DEF Thaw
<1>7. CASE Replicate  BY <1>5, <1>7 DEF Replicate
<1>8. CASE UNCHANGED vars  BY <1>5, <1>8 DEF vars
<1>9. QED  BY <1>1, <1>2, <1>4, <1>6, <1>7, <1>8 DEF Next

(* In every behaviour, whatever faults occur, an answer is noted with the  *)
(* last write and not before, what a client has seen of a freeze, of the   *)
(* seats and of the counter still holds when it commits, and only the      *)
(* client that has its worker's session is in a transaction.               *)
THEOREM Promises == Spec => []PromiseInv
<1>1. Background /\ TypeOK /\ TypeOK' /\ [Next]_vars => Background'
  BY BackgroundNext
<1>2. Spec => []TypeOK  BY TypeCorrect
<1>3. QED
  BY <1>1, <1>2, BackgroundInit, PromiseInit, PromiseNext, PTL DEF Spec

-----------------------------------------------------------------------------
(* What this means to those who call *)

(* Two users never hold the same coordinates in the queue of a room, if no *)
(* operation is cut in half and the grid is read as it is: the write to    *)
(* the room makes one of two transactions that chose the same seat fail.   *)
THEOREM SeatsAreExclusive == ASSUME SeatsSeen PROVE Spec => []SeatExclusive
<1>1. PromiseInv => SeatExclusive  BY DEF PromiseInv
<1>2. QED  BY Promises, <1>1, PTL

(* Operations return with their commit. *)
LEMMA ReturnsByCommit ==
    ASSUME TypeOK, [Next]_vars, NEW c \in Client, Returns(c)
    PROVE  Commit(c) \/ CommitFails(c)
<1> USE DEF TypeOK, Returns
<1>1. ASSUME NEW o \in Client, Progress(o) PROVE Commit(c)
  BY <1>1
  DEF Progress, StartTransaction, FindRefused, FindOnline, FindQueue,
      FindReadyOrBattle, ReplicaSeats, ReplicaCount, AfterSeats, Write,
      WriteConflict, RolledBack, Commit, Return
<1>2. ASSUME NEW o \in Client, Fault(o) PROVE CommitFails(c)
  BY <1>2
  DEF Fault, ReplicaSeatsFails, ReplicaCountFails, AfterSeats, Abort, Lost,
      Unanswered, CommitFails, RolledBack, Return
<1>3. ASSUME NEW o \in Client, NEW x \in Calls, Request(o, x) PROVE FALSE
  BY <1>3 DEF Request
<1>4. ASSUME NEW r \in Room, NEW u \in User, Thaw(r, u) PROVE FALSE
  BY <1>4 DEF Thaw
<1>5. ~Replicate /\ ~UNCHANGED vars  BY DEF Replicate, vars
<1>6. QED  BY <1>1, <1>2, <1>3, <1>4, <1>5 DEF Next

(* A kicked user stays frozen and out of the queue until the freeze runs   *)
(* out, whatever fails and whoever is behind, unless it is purged: someone *)
(* that joins looked at the freeze in the snapshot of its own document.    *)
THEOREM FreezeIsHeld == ASSUME "all" \notin Fns PROVE Spec => FreezeHolds
<1> DEFINE Held == \A r \in Room, u \in User :
                      u \in frozen[r] => \/ u \in frozen'[r] /\ u \notin on'["queue"][r]
                                         \/ Thaw(r, u)
<1>1. PromiseInv /\ [Next]_vars => Held
  <2> SUFFICES ASSUME PromiseInv, [Next]_vars,
                      NEW r \in Room, NEW u \in User, u \in frozen[r], ~Thaw(r, u)
               PROVE  u \in frozen'[r] /\ u \notin on'["queue"][r]
    OBVIOUS
  <2>0. TypeOK /\ u \notin on["queue"][r]
    BY DEF PromiseInv, RoomInv, KickedAreOut
  <2>1. CASE UNCHANGED db  BY <2>0, <2>1
  <2>2. ASSUME NEW c \in Client, Commit(c)
        PROVE  u \in frozen'[r] /\ u \notin on'["queue"][r]
    <3> DEFINE x == call[c]
    <3>1. /\ x \in Calls /\ x.fn # "all" /\ x.room \in Room
          /\ x.want \in BOOLEAN /\ ClientInv(c) /\ PromiseClient(c)
          /\ pc[c] = "commit"
      BY <2>0, <2>2, CallFields DEF PromiseInv, RoomInv, Commit, TypeOK
    <3>2. CASE "queue" \in wrote[c] /\ r = x.room /\ u = x.user
      <4>1. x.fn = "queue"
        BY <3>1, <3>2 DEF ClientInv, DocsOf, Targets
      <4>2. Fresh(c)  BY <3>1, <3>2, <4>1 DEF Fresh
      <4>3. ~x.want
        BY <3>1, <3>2, <4>1, <4>2 DEF PromiseClient, JoinsUnfrozen
      <4>4. u \in on["queue"][r]
        BY <3>1, <3>2, <4>1, <4>2, <4>3 DEF ClientInv
      <4>5. QED  BY <2>0, <4>4
    <3>3. CASE ~("queue" \in wrote[c] /\ r = x.room /\ u = x.user)
      BY <2>0, <2>2, <3>1, <3>3 DEF Commit, FrozenAfter, OnAfter, Flip, Kind, TypeOK
    <3>4. QED  BY <3>2, <3>3
  <2>3. ASSUME NEW q \in Room, NEW v \in User, Thaw(q, v)
        PROVE  u \in frozen'[r] /\ u \notin on'["queue"][r]
    BY <2>0, <2>3 DEF Thaw, TypeOK
  <2>4. QED  BY <2>1, <2>2, <2>3, OnlyCommitsChange
<1>2. QED  BY Promises, <1>1, PTL DEF Spec, FreezeHolds

(* A transaction that has written nothing changes nothing. *)
LEMMA EmptyCommit ==
    ASSUME TypeOK, NEW c \in Client, Commit(c), wrote[c] = {}
    PROVE  UNCHANGED db
<1>1. on' = on /\ cnt' = cnt  BY DEF Commit, OnAfter, CntAfter, TypeOK
<1>2. seat' = seat /\ frozen' = frozen  BY DEF Commit, SeatAfter, FrozenAfter
<1>3. QED  BY <1>1, <1>2

(* An operation that answers with success has given the flag the wanted    *)
(* value, any other has changed nothing, as long as none is cut in half    *)
(* and no commit fails; lost races, aborts and stale secondaries included. *)
THEOREM RepliesAreTruthful ==
    ASSUME Whole, "commit" \notin Faults PROVE Spec => ReplyIsTruthful
<1> DEFINE Truthful ==
        \A c \in Client : Returns(c) =>
          IF reply[c].done /\ reply[c].can
          THEN \A k \in Targets(call[c]) :
                  (call[c].user \in on'[k][call[c].room]) = call[c].want
          ELSE UNCHANGED db
<1>1. PromiseInv /\ [Next]_vars => Truthful
  <2> SUFFICES ASSUME PromiseInv, [Next]_vars, NEW c \in Client, Returns(c)
               PROVE  IF reply[c].done /\ reply[c].can
                      THEN \A k \in Targets(call[c]) :
                              (call[c].user \in on'[k][call[c].room]) = call[c].want
                      ELSE UNCHANGED db
    OBVIOUS
  <2>0. TypeOK /\ PromiseClient(c)  BY DEF PromiseInv, RoomInv
  <2>1. Commit(c)  BY <2>0, ReturnsByCommit DEF CommitFails
  <2> DEFINE x == call[c]
  <2>2. x \in Calls /\ pc[c] = "commit"  BY <2>0, <2>1 DEF Commit, TypeOK
  <2>3. CASE reply[c].done /\ reply[c].can
    <3>1. wrote[c] = DocsOf(x)
      BY <2>0, <2>2, <2>3 DEF PromiseClient, SuccessIsWritten
    <3>2. ASSUME NEW k \in Targets(x)
          PROVE  (x.user \in on'[k][x.room]) = x.want
      <4>1. k \in Kind /\ x.room \in Room /\ x.want \in BOOLEAN /\ k \in wrote[c]
        BY <2>2, <3>1, CallFields
      <4>2. on'[k][x.room] = Flip(on[k][x.room], x)
        BY <2>1, <4>1 DEF Commit, OnAfter
      <4>3. QED  BY <4>1, <4>2 DEF Flip
    <3>3. QED  BY <2>3, <3>2
  <2>4. CASE ~(reply[c].done /\ reply[c].can)
    <3>1. wrote[c] = {}
      BY <2>0, <2>2, <2>4 DEF PromiseClient, FailureWroteNothing
    <3>2. QED  BY <2>0, <2>1, <2>4, <3>1, EmptyCommit
  <2>5. QED  BY <2>3, <2>4
<1>2. QED  BY Promises, <1>1, PTL DEF Spec, ReplyIsTruthful

(* Exactly the user whose entry makes a counter reach the capacity is told *)
(* that it was the last, if secondaries are not behind and no commit       *)
(* fails: ready and battle read the counter outside of their transaction,  *)
(* but a change since its start makes their own write to the room fail.    *)
THEOREM LastIsTold ==
    ASSUME UpToDate, "commit" \notin Faults PROVE Spec => LastOneIsTold
<1> DEFINE Told ==
        \A c \in Client :
          LET x == call[c] IN
          /\ Returns(c) /\ reply[c].done /\ reply[c].can
          /\ x.fn \in {"queue", "ready", "battle"} /\ x.want
          => (reply[c].full <=> cnt'[x.fn][x.room] = Capacity[x.room])
<1>1. PromiseInv /\ [Next]_vars => Told
  <2> SUFFICES ASSUME PromiseInv, [Next]_vars, NEW c \in Client, Returns(c),
                      reply[c].done, reply[c].can,
                      call[c].fn \in {"queue", "ready", "battle"}, call[c].want
               PROVE  reply[c].full <=>
                        cnt'[call[c].fn][call[c].room] = Capacity[call[c].room]
    OBVIOUS
  <2>0. TypeOK /\ PromiseClient(c)  BY DEF PromiseInv, RoomInv
  <2>1. Commit(c)  BY <2>0, ReturnsByCommit DEF CommitFails
  <2> DEFINE x == call[c]
  <2>2. x \in Calls /\ pc[c] = "commit"  BY <2>0, <2>1 DEF Commit, TypeOK
  <2>3. wrote[c] = DocsOf(x)
    BY <2>0, <2>2 DEF PromiseClient, SuccessIsWritten
  <2>4. "room" \in wrote[c] /\ x.fn \in Kind /\ x.fn \in Targets(x)
        /\ x.room \in Room
    BY <2>2, <2>3, CallFields DEF DocsOf, Targets, Kind
  <2>5. reply[c].full <=> Capacity[x.room] - cnt[x.fn][x.room] = 1
    BY <2>0, <2>2, <2>4 DEF PromiseClient, KnowsIfLast, KnowsCount, Writes
  <2>6. cnt'[x.fn][x.room] = cnt[x.fn][x.room] + 1
    BY <2>1, <2>4 DEF Commit, CntAfter
  <2>7. cnt[x.fn][x.room] \in Int /\ Capacity[x.room] \in Int
    BY <2>0, <2>4, ConstantsAssumption DEF TypeOK
  <2>8. QED  BY <2>5, <2>6, <2>7
<1>2. QED  BY Promises, <1>1, PTL DEF Spec, LastOneIsTold

-----------------------------------------------------------------------------
(* One worker without faults *)

(* No statement and no read fails, and all coroutines share one session. *)
LoneWorker ==
    /\ Faults \subseteq {"commit"}
    /\ \A c, o \in Client : WorkerOf[c] = WorkerOf[o]

(* Then no snapshot is stale, and what is committed was a success. *)
Calm ==
    \A c \in Client :
        /\ stale[c] = {}
        /\ pc[c] = "commit" => reply[c].done

LEMMA NobodyElse ==
    ASSUME LoneWorker, PromiseInv, NEW c \in Client, pc[c] \notin {"idle", "start"},
           NEW o \in Client \ {c}
    PROVE  pc[o] \in {"idle", "start"} /\ wrote[o] = {}
<1>1. HasSession(c) /\ HasSession(o) /\ ClientInv(o) /\ TypeOK
  BY DEF PromiseInv, PromiseClient, RoomInv
<1>2. WorkerOf[c] = WorkerOf[o]  BY DEF LoneWorker
<1>3. pc[o] \in {"idle", "start"}  BY <1>1, <1>2 DEF HasSession
<1>4. QED  BY <1>1, <1>3 DEF ClientInv

LEMMA CalmNext ==
    ASSUME LoneWorker, PromiseInv, Calm, [Next]_vars
    PROVE  Calm'
<1> USE DEF TypeOK, Calm
<1>0. TypeOK /\ \A c \in Client : PromiseClient(c)  BY DEF PromiseInv, RoomInv
<1>1. ASSUME NEW c \in Client, NEW x \in Calls, Request(c, x) PROVE Calm'
  BY <1>0, <1>1 DEF Request
<1>2. ASSUME NEW c \in Client, Progress(c) PROVE Calm'
  <2>1. CASE StartTransaction(c)  BY <1>0, <2>1 DEF StartTransaction
  <2>2. CASE FindRefused(c)
    <3> DEFINE yes == TRUE
    <3>1. reply' = [reply EXCEPT ![c].done = yes] /\ yes \in BOOLEAN /\ yes
      BY <2>2 DEF FindRefused
    <3> HIDE DEF yes
    <3>2. reply'[c].done /\ \A o \in Client \ {c} : reply'[o] = reply[o]
      BY <1>0, <3>1, ReplyDone
    <3>3. QED  BY <1>0, <2>2, <3>2 DEF FindRefused
  <2>3. CASE FindOnline(c)  BY <1>0, <2>3 DEF FindOnline
  <2>4. CASE FindQueue(c)
    <3>1. \A o \in Client \ {c} : reply'[o] = reply[o] /\ pc'[o] = pc[o]
      BY <1>0, <2>4 DEF FindQueue
    <3>2. pc'[c] # "commit" /\ stale' = stale  BY <1>0, <2>4 DEF FindQueue
    <3>3. QED  BY <3>1, <3>2
  <2>5. CASE FindReadyOrBattle(c)  BY <1>0, <2>5 DEF FindReadyOrBattle
  <2>6. CASE ReplicaSeats(c)
    <3>0. PICK view \in Visible :
            \E listed \in FirstOf(Seated(call[c], view)) :
                AfterSeats(c, Taken(call[c], view, listed))
      BY <2>6 DEF ReplicaSeats
    <3>1. PICK listed \in FirstOf(Seated(call[c], view)) :
            AfterSeats(c, Taken(call[c], view, listed))
      BY <3>0
    <3> DEFINE ok == reply[c].can /\ ~Taken(call[c], view, listed)
               notOk == ~ok
    <3>2. ok \in BOOLEAN /\ notOk \in BOOLEAN /\ (ok <=> ~notOk)  OBVIOUS
    <3>3. /\ reply' = [reply EXCEPT ![c].can = ok, ![c].done = notOk]
          /\ pc' = [pc EXCEPT ![c] = IF ok THEN "write" ELSE "commit"]
          /\ stale' = stale
      BY <3>1 DEF AfterSeats
    <3> HIDE DEF ok, notOk
    <3>4. /\ reply'[c].done = notOk
          /\ \A o \in Client \ {c} : reply'[o] = reply[o]
      BY <1>0, <3>2, <3>3, ReplyCanDone
    <3>5. pc'[c] = "commit" => notOk  BY <1>0, <3>2, <3>3
    <3>6. QED  BY <1>0, <3>3, <3>4, <3>5
  <2>7. CASE ReplicaCount(c)
    <3>1. \A o \in Client \ {c} : reply'[o] = reply[o] /\ pc'[o] = pc[o]
      BY <1>0, <2>7 DEF ReplicaCount
    <3>2. pc'[c] # "commit" /\ stale' = stale  BY <1>0, <2>7 DEF ReplicaCount
    <3>3. QED  BY <3>1, <3>2
  <2>8. CASE Write(c)
    <3> DEFINE yes == TRUE
    <3>1. PICK d \in Doc :
            /\ d # "room" => UNCHANGED <<pc, reply>>
            /\ d = "room" => /\ pc' = [pc EXCEPT ![c] = "commit"]
                             /\ reply' = [reply EXCEPT ![c].can = yes, ![c].done = yes]
      BY <2>8 DEF Write
    <3>2. yes \in BOOLEAN /\ yes  OBVIOUS
    <3> HIDE DEF yes
    <3>3. stale' = stale  BY <2>8 DEF Write
    <3>4. CASE d # "room"  BY <3>1, <3>3, <3>4
    <3>5. CASE d = "room"
      <4>1. reply'[c].done = yes /\ \A o \in Client \ {c} : reply'[o] = reply[o]
        BY <1>0, <3>1, <3>2, <3>5, ReplyCanDone
      <4>2. \A o \in Client \ {c} : pc'[o] = pc[o]  BY <1>0, <3>1, <3>5
      <4>3. QED  BY <3>2, <3>3, <4>1, <4>2
    <3>6. QED  BY <3>4, <3>5
  <2>9. CASE WriteConflict(c)
    <3>1. PICK d \in Doc : Locked(c, d)
      BY <2>9 DEF WriteConflict, Conflict
    <3>2. PICK o \in Client \ {c} : d \in wrote[o]  BY <3>1 DEF Locked
    <3>3. QED  BY <2>9, <3>2, NobodyElse DEF WriteConflict
  <2>10. CASE Commit(c)
    <3>1. \A o \in Client \ {c} : ~InSnapshot(o)
      BY <2>10, NobodyElse DEF Commit, InSnapshot
    <3>2. \A o \in Client : stale'[o] = {}
      BY <2>10, <3>1 DEF Commit, StaleAfter
    <3>3. /\ pc'[c] = "idle"
          /\ \A o \in Client \ {c} : pc'[o] = pc[o] /\ reply'[o] = reply[o]
      BY <1>0, <2>10 DEF Commit, Return
    <3>4. QED  BY <3>2, <3>3
  <2>11. QED
    BY <1>2, <2>1, <2>2, <2>3, <2>4, <2>5, <2>6, <2>7, <2>8, <2>9, <2>10
    DEF Progress
<1>3. ASSUME NEW c \in Client, Fault(c) PROVE Calm'
  <2>1. CommitFails(c)
    BY <1>3
    DEF Fault, ReplicaSeatsFails, ReplicaCountFails, Abort, Lost, Unanswered, LoneWorker
  <2>2. /\ pc'[c] = "idle" /\ stale' = [stale EXCEPT ![c] = {}]
        /\ \A o \in Client \ {c} : pc'[o] = pc[o] /\ reply'[o] = reply[o]
    BY <1>0, <2>1 DEF CommitFails, Return
  <2>3. QED  BY <1>0, <2>2
<1>4. ASSUME NEW r \in Room, NEW u \in User, Thaw(r, u) PROVE Calm'
  BY <1>4 DEF Thaw
<1>5. Replicate \/ UNCHANGED vars => Calm'  BY DEF Replicate, vars
<1>6. QED  BY <1>1, <1>2, <1>3, <1>4, <1>5 DEF Next

(* The coroutines of a single worker never make each other's operations    *)
(* fail: whoever polls for the session finds no open snapshot behind it,   *)
(* so without faults of the database every operation returns done.         *)
THEOREM CallsOfOneWorkerSucceed == ASSUME LoneWorker PROVE Spec => CallsSucceed
<1>1. Init => Calm  BY DEF Init, Calm
<1>2. Calm /\ PromiseInv /\ [Next]_vars =>
        \A c \in Client : Returns(c) => reply[c].done
  BY DEF Calm, Returns
<1>3. Spec => []Calm  BY <1>1, CalmNext, Promises, PTL DEF Spec
<1>4. QED  BY <1>2, <1>3, Promises, PTL DEF Spec, CallsSucceed

-----------------------------------------------------------------------------
(* The refinement *)

(* Cardinality, seen through the instance. *)
LEMMA SameCardinality ==
    ASSUME NEW S PROVE Game!Cardinality(S) = Cardinality(S)
  BY DEF Game!Cardinality, Cardinality

LEMMA CountIs ==
    ASSUME TypeOK, CountersMatch PROVE cnt = Game!Count(on)
<1>1. Game!Count(on) = [k \in Kind |-> [r \in Room |->
                          AiPlayers[r] + Cardinality(on[k][r])]]
  BY SameCardinality DEF Game!Count, Game!Kind, Kind
<1>2. \A k \in Kind : cnt[k] = [r \in Room |-> AiPlayers[r] + Cardinality(on[k][r])]
  BY DEF TypeOK, CountersMatch
<1>3. QED  BY <1>1, <1>2 DEF TypeOK

LEMMA RoomInits == Init => Game!Init
<1> SUFFICES ASSUME Init PROVE Game!Init  OBVIOUS
<1>1. TypeOK /\ CountersMatch  BY TypeInit, AtomicInit DEF AtomicInv
<1>2. QED  BY <1>1, CountIs DEF Init, Game!Init, Game!Kind, Kind

(* The commit of a whole operation is the abstract step of that operation. *)
LEMMA CommitIsStep ==
    ASSUME SeatsSeen, AtomicInv, PromiseInv, TypeOK', CountersMatch',
           NEW c \in Client, Commit(c), wrote[c] # {}
    PROVE  Game!Next
<1> DEFINE x == call[c]
           k == x.fn
           r == x.room
           u == x.user
<1>1. TypeOK /\ ClientInv(c) /\ PromiseClient(c) /\ pc[c] = "commit"
  BY DEF PromiseInv, RoomInv, Commit
<1>2. /\ x \in Calls /\ k # "all" /\ k \in Kind /\ r \in Room /\ u \in User
      /\ x.want \in BOOLEAN /\ x.kick \in BOOLEAN
  BY <1>1, CallFields DEF TypeOK, SeatsSeen, Atomic
<1>3. wrote[c] = {k, "room"} /\ Targets(x) = {k}
  BY <1>2, CommitWhole DEF SeatsSeen, Atomic, Whole, DocsOf, Targets
<1>4. Fresh(c) /\ Writes(c)  BY <1>1, <1>2, <1>3 DEF Fresh, Writes
<1>5. (u \in on[k][r]) # x.want  BY <1>1, <1>4 DEF ClientInv
<1>6. Game!Members(k, r, Flip(on[k][r], x))
  <2> DEFINE members == Flip(on[k][r], x)
             after == [on EXCEPT ![k][r] = members]
  <2>1. \A l \in Kind : on'[l] = [q \in Room |-> IF l = k /\ q = r THEN members
                                                ELSE on[l][q]]
    BY <1>2, <1>3 DEF Commit, OnAfter, Kind
  <2> HIDE DEF members
  <2>2. \A l \in Kind : after[l] = [q \in Room |-> IF l = k /\ q = r THEN members
                                                ELSE on[l][q]]
    BY <1>1, <1>2 DEF TypeOK
  <2>3. DOMAIN on' = Kind /\ DOMAIN after = Kind  BY <1>1 DEF TypeOK
  <2>4. on' = after
    <3>1. on' = [l \in Kind |-> on'[l]]  BY DEF TypeOK
    <3>2. after = [l \in Kind |-> after[l]]  BY <1>1 DEF TypeOK
    <3> HIDE DEF after
    <3>3. QED  BY <2>1, <2>2, <3>1, <3>2
  <2>5. cnt' = Game!Count(on')
    <3>1. \A k1 \in Kind : cnt'[k1] = [q \in Room |-> AiPlayers[q] + Cardinality(on'[k1][q])]
      BY DEF TypeOK, CountersMatch
    <3>2. Game!Count(on') = [k1 \in Kind |-> [q \in Room |->
                               AiPlayers[q] + Cardinality(on'[k1][q])]]
      BY SameCardinality DEF Game!Count, Game!Kind, Kind
    <3>3. QED  BY <3>1, <3>2 DEF TypeOK
  <2>6. QED  BY <2>4, <2>5 DEF Game!Members, members
<1>7. CASE k # "queue"
  <2>1. UNCHANGED <<seat, frozen>>
    BY <1>3, <1>7 DEF Commit, SeatAfter, FrozenAfter
  <2>2. CASE x.want
    <3>1. Game!Enter(k, r, u)
      BY <1>2, <1>5, <1>6, <1>7, <2>1, <2>2 DEF Game!Enter, Flip
    <3>2. QED  BY <1>2, <3>1 DEF Game!Next, Game!Kind, Kind
  <2>3. CASE ~x.want
    <3>1. k = "ready" => u \notin on["battle"][r]
      BY <1>4, <2>3 DEF AtomicInv, NotInBattle, TakesAway, Writes
    <3>2. Game!Leave(k, r, u)
      BY <1>2, <1>5, <1>6, <1>7, <2>1, <2>3, <3>1 DEF Game!Leave, Flip
    <3>3. QED  BY <1>2, <3>2 DEF Game!Next, Game!Kind, Kind
  <2>4. QED  BY <2>2, <2>3
<1>8. CASE k = "queue"
  <2>1. /\ seat' = [seat EXCEPT ![r][u] = x.at]
        /\ frozen' = [frozen EXCEPT ![r] = IF x.kick THEN @ \union {u} ELSE @ \ {u}]
    BY <1>3, <1>8 DEF Commit, SeatAfter, FrozenAfter
  <2>2. CASE x.want
    <3>1. x.at \in Seat /\ ~x.kick  BY <1>2, <1>8, <2>2 DEF Calls
    <3>2. u \notin frozen[r] /\ \A v \in User : seat[r][v] # x.at
      BY <1>1, <1>4, <1>8, <2>2
      DEF PromiseClient, JoinsUnfrozen, SeatIsFree
    <3>3. cnt["queue"][r] < Capacity[r]
      BY <1>1, <1>3, <1>8, <2>2 DEF ClientInv, Admits, HasPlace
    <3>4. frozen' = frozen
      BY <1>1, <1>2, <2>1, <3>1, <3>2 DEF TypeOK
    <3>5. Game!TakeSeat(r, u, x.at)
      BY <1>5, <1>6, <1>8, <2>1, <2>2, <3>2, <3>3, <3>4 DEF Game!TakeSeat, Flip
    <3>6. QED  BY <1>2, <3>1, <3>5 DEF Game!Next
  <2>3. CASE ~x.want
    <3>1. x.at = None  BY <1>2, <2>3 DEF Calls
    <3>2. u \notin on["battle"][r]
      BY <1>4, <1>8, <2>3 DEF AtomicInv, NotInBattle, TakesAway, Writes
    <3>3. Game!GiveUpSeat(r, u, x.kick)
      BY <1>2, <1>5, <1>6, <1>8, <2>1, <2>3, <3>1, <3>2 DEF Game!GiveUpSeat, Flip
    <3>4. QED  BY <1>2, <3>3 DEF Game!Next
  <2>4. QED  BY <2>2, <2>3
<1>9. QED  BY <1>7, <1>8

LEMMA RoomSteps ==
    ASSUME SeatsSeen, AtomicInv, PromiseInv, [Next]_vars
    PROVE  [Game!Next]_(Game!vars)
<1>1. TypeOK /\ TypeOK' /\ CountersMatch'
  BY AtomicNext, TypeNext DEF SeatsSeen, PromiseInv, RoomInv, AtomicInv
<1>2. CASE UNCHANGED db  BY <1>2 DEF Game!vars
<1>3. ASSUME NEW c \in Client, Commit(c) PROVE [Game!Next]_(Game!vars)
  <2>1. CASE wrote[c] = {}
    BY <1>1, <1>3, <2>1, EmptyCommit DEF Game!vars
  <2>2. CASE wrote[c] # {}  BY <1>1, <1>3, <2>2, CommitIsStep
  <2>3. QED  BY <2>1, <2>2
<1>4. ASSUME NEW r \in Room, NEW u \in User, Thaw(r, u)
      PROVE  [Game!Next]_(Game!vars)
  <2>1. Game!Thaw(r, u)  BY <1>4 DEF Thaw, Game!Thaw
  <2>2. QED  BY <2>1 DEF Game!Next
<1>5. QED  BY <1>2, <1>3, <1>4, OnlyCommitsChange

(* The transactions of all workers together implement the room of          *)
(* GameRoom, where every operation is a single step, as long as none is    *)
(* cut in half, nobody is purged and no read is behind or dropped: lost    *)
(* races, aborts and failed commits are steps that change nothing.         *)
THEOREM GameRoomImplemented == ASSUME SeatsSeen PROVE Spec => ImplementsGameRoom
<1>1. Spec => []AtomicInv  BY AtomicInvariant DEF SeatsSeen
<1>2. QED
  BY <1>1, Promises, RoomInits, RoomSteps, PTL DEF Spec, ImplementsGameRoom, Game!Spec

=============================================================================
