-------------------------- MODULE RoomTransactions --------------------------
(***************************************************************************)
(* The five room operations of MongoClient (ext_mongo/ha.py, from line     *)
(* 1560): each runs one MongoDB transaction over a user's document of one  *)
(* or more kinds and the document of the room, which carries one counter   *)
(* per kind.  All coroutines of a worker process share one client session, *)
(* so a worker has at most one transaction open; the transactions of       *)
(* different workers meet in the database, whose rules are modelled here:  *)
(* a transaction reads a snapshot, a write to a document that changed      *)
(* since the snapshot or that another open transaction wrote aborts it,    *)
(* and a commit applies every write at once.  Reads made without the       *)
(* session go to a secondary and may return an earlier committed state.    *)
(*                                                                         *)
(* Every user document exists from the start (its user has been in the     *)
(* room before): the code treats a missing document as one whose flag is   *)
(* off.  The five minutes of a freeze are the nondeterministic Thaw.       *)
(***************************************************************************)
EXTENDS Integers, FiniteSets, Sequences

CONSTANTS
    Room, User, Seat, Capacity, AiPlayers, None,    \* as in GameRoom
    Worker,     \* server processes, each with one shared session
    Client,     \* coroutines, each serving one request at a time
    WorkerOf,   \* [Client -> Worker]
    Fns,        \* operations the routers call: Kind, and "all" for the purge
    QueueLimit, \* how many users of a queue are listed
    Faults,     \* which of the faults of FaultKind may happen
    MaxLag,     \* bound: commits a secondary may be behind
    MaxDrift    \* bound: how far a counter may be off when a fault or a
                \* purge is allowed to push it further

Kind == {"online", "queue", "ready", "battle"}

Doc == Kind \union {"room"}

FaultKind == {"abort", "lost", "unanswered", "commit", "replica"}

ASSUME ConstantsAssumption ==
    /\ IsFiniteSet(User)
    /\ None \notin Seat /\ None \notin Client
    /\ Capacity \in [Room -> Nat] /\ AiPlayers \in [Room -> Nat]
    /\ \A r \in Room : AiPlayers[r] <= Capacity[r]
    /\ WorkerOf \in [Client -> Worker]
    /\ Fns \subseteq Kind \union {"all"}
    /\ Faults \subseteq FaultKind
    /\ QueueLimit \in Nat /\ MaxLag \in Nat /\ MaxDrift \in Nat

VARIABLES
    on,         \* on[k][r]: users whose flag of kind k is set (committed)
    cnt,        \* cnt[k][r]: counter of kind k in the document of room r
    seat,       \* seat[r][u]: queue coordinates, None out of the queue
    frozen,     \* frozen[r]: users whose frozen_time lies in the future
    lagging,    \* earlier committed states a secondary may still show
    session,    \* session[w]: the client whose transaction is open, or None
    pc,         \* where each client is in its operation
    call,       \* the request it serves, or None
    stale,      \* documents of its own changed since its snapshot
    wrote,      \* documents its open transaction has written
    reply       \* what the operation would return

db == <<on, cnt, seat, frozen>>
vars == <<on, cnt, seat, frozen, lagging, session, pc, call, stale, wrote, reply>>

Pc == {"idle", "start", "find", "replica", "write", "commit"}

(* The requests: a place is named only when joining the queue, force_exit  *)
(* only matters when leaving it, and the purge always takes the user out.  *)
Calls == { x \in [fn : Fns, room : Room, user : User, want : BOOLEAN,
                  at : Seat \union {None}, kick : BOOLEAN] :
             /\ x.at # None <=> x.fn = "queue" /\ x.want
             /\ x.kick => x.fn = "queue" /\ ~x.want
             /\ x.fn = "all" => ~x.want }

ASSUME NoneIsNoRequest == None \notin Calls

(* can: the change was let through.  full: the flag that says the last     *)
(* place went (full, all_ready, all_in_game_battle).  done: as in the code *)
NoReply == [can |-> FALSE, full |-> FALSE, done |-> FALSE]

Targets(x) == IF x.fn = "all" THEN {"online", "queue", "ready"} ELSE {x.fn}

DocsOf(x) == Targets(x) \union {"room"}

Rank == [online |-> 1, queue |-> 2, ready |-> 3, battle |-> 4, room |-> 5]

(* d names the same document for both requests. *)
SameDoc(x, y, d) == x.room = y.room /\ (d = "room" \/ x.user = y.user)

-----------------------------------------------------------------------------
(* The rules of find_one, update_one and the conflict check.               *)

(* Mutant: a repeated request is applied again. *)
NeverFiltered(x) == FALSE

Filtered(x) == (x.user \in on[x.fn][x.room]) = x.want

(* Mutant: the battle document is not asked. *)
HeldByNothing(x) == FALSE

HeldByBattle(x) ==
    /\ x.fn \in {"queue", "ready"} /\ ~x.want
    /\ x.user \in on["battle"][x.room]

FrozenOut(x) == x.fn = "queue" /\ x.want /\ x.user \in frozen[x.room]

Refused(x) == Filtered(x) \/ HeldByBattle(x) \/ FrozenOut(x)

(* Documents are written in a fixed order, the room's last. *)
IsNext(c, d) ==
    LET left == DocsOf(call[c]) \ wrote[c]
    IN  d \in left /\ \A e \in left : Rank[d] <= Rank[e]

Locked(c, d) ==
    \E o \in Client \ {c} : d \in wrote[o] /\ SameDoc(call[c], call[o], d)

Conflict(c, d) == d \in stale[c] \/ Locked(c, d)

(* Mutant: the documents are read without the session, and the snapshot is *)
(* that of the first write.                                                *)
WritesInSnapshot(c) == pc[c] = "write" /\ wrote[c] # {}

InSnapshot(c) ==
    /\ pc[c] \in {"replica", "write"}
    /\ call[c].fn = "all" => wrote[c] # {}

(* The states a secondary may answer with. *)
Visible ==
    {[seat |-> seat, cnt |-> cnt]} \union {lagging[i] : i \in DOMAIN lagging}

Drift(k, r) == cnt[k][r] - AiPlayers[r] - Cardinality(on[k][r])

WithinDrift ==
    \A k \in Kind, r \in Room : Drift(k, r) \in (-MaxDrift) .. MaxDrift

-----------------------------------------------------------------------------
Init ==
    /\ on = [k \in Kind |-> [r \in Room |-> {}]]
    /\ cnt = [k \in Kind |-> AiPlayers]
    /\ seat = [r \in Room |-> [u \in User |-> None]]
    /\ frozen = [r \in Room |-> {}]
    /\ lagging = <<>>
    /\ session = [w \in Worker |-> None]
    /\ pc = [c \in Client |-> "idle"]
    /\ call = [c \in Client |-> None]
    /\ stale = [c \in Client |-> {}]
    /\ wrote = [c \in Client |-> {}]
    /\ reply = [c \in Client |-> NoReply]

(* A router calls an operation.  It purges a user (upsert_game_room_users) *)
(* that is online, queued and ready at that moment.                        *)
Request(c, x) ==
    /\ pc[c] = "idle"
    /\ x.fn = "all" =>
         /\ \A k \in Targets(x) : x.user \in on[k][x.room]
         /\ WithinDrift
    /\ pc' = [pc EXCEPT ![c] = "start"]
    /\ call' = [call EXCEPT ![c] = x]
    /\ UNCHANGED <<db, lagging, session, stale, wrote, reply>>

(* Mutant: the session is taken although a transaction is in progress. *)
StartTransactionAnyway(c) ==
    /\ pc[c] = "start"
    /\ session' = [session EXCEPT ![WorkerOf[c]] = c]
    /\ pc' = [pc EXCEPT ![c] = IF call[c].fn = "all" THEN "write" ELSE "find"]
    /\ UNCHANGED <<db, lagging, call, stale, wrote, reply>>

(* start_transaction raises "Transaction already in progress" while the    *)
(* shared session is busy; the loop sleeps and tries again, so the guard   *)
(* is the test of each round.  The purge reads nothing first.              *)
StartTransaction(c) ==
    /\ pc[c] = "start"
    /\ session[WorkerOf[c]] = None
    /\ session' = [session EXCEPT ![WorkerOf[c]] = c]
    /\ pc' = [pc EXCEPT ![c] = IF call[c].fn = "all" THEN "write" ELSE "find"]
    /\ UNCHANGED <<db, lagging, call, stale, wrote, reply>>

(* Mutant: a refused operation waits in its transaction until it may go on. *)
FindRefusedAgain(c) ==
    /\ pc[c] = "find"
    /\ Refused(call[c])
    /\ UNCHANGED vars

(* Every operation but the purge first reads its user's document: nothing  *)
(* to do, or not allowed now, and the transaction ends without a write.    *)
FindRefused(c) ==
    /\ pc[c] = "find"
    /\ Refused(call[c])
    /\ reply' = [reply EXCEPT ![c].done = TRUE]
    /\ pc' = [pc EXCEPT ![c] = "commit"]
    /\ UNCHANGED <<db, lagging, session, call, stale, wrote>>

FindOnline(c) ==
    /\ pc[c] = "find" /\ call[c].fn = "online"
    /\ ~Refused(call[c])
    /\ pc' = [pc EXCEPT ![c] = "write"]
    /\ UNCHANGED <<db, lagging, session, call, stale, wrote, reply>>

HasPlace(x) == cnt["queue"][x.room] < Capacity[x.room]

(* Mutant: off by one. *)
NoPlace(x) == cnt["queue"][x.room] >= Capacity[x.room]

LastPlaceOrNone(x) ==
    \/ ~HasPlace(x)
    \/ Capacity[x.room] - cnt["queue"][x.room] = 1

(* The queue reads the room in the same snapshot and, to join, goes on to  *)
(* look at the seats.                                                      *)
FindQueue(c) ==
    LET x == call[c] IN
    /\ pc[c] = "find" /\ x.fn = "queue"
    /\ ~Refused(x)
    /\ reply' = [reply EXCEPT ![c].can = x.want => HasPlace(x),
                              ![c].full = x.want /\ LastPlaceOrNone(x)]
    /\ pc' = [pc EXCEPT ![c] = IF x.want THEN "replica" ELSE "write"]
    /\ UNCHANGED <<db, lagging, session, call, stale, wrote>>

(* Ready and battle read the room without the session, in a later step. *)
FindReadyOrBattle(c) ==
    /\ pc[c] = "find" /\ call[c].fn \in {"ready", "battle"}
    /\ ~Refused(call[c])
    /\ pc' = [pc EXCEPT ![c] = "replica"]
    /\ UNCHANGED <<db, lagging, session, call, stale, wrote, reply>>

-----------------------------------------------------------------------------
(* The reads that go to a secondary.                                       *)

AfterSeats(c, taken) ==
    LET ok == reply[c].can /\ ~taken IN
    /\ reply' = [reply EXCEPT ![c].can = ok, ![c].done = ~ok]
    /\ pc' = [pc EXCEPT ![c] = IF ok THEN "write" ELSE "commit"]
    /\ UNCHANGED <<db, lagging, session, call, stale, wrote>>

(* Mutant: only the user's own seat is looked at. *)
TakenBySelf(x, view, listed) == view.seat[x.room][x.user] = x.at

Taken(x, view, listed) == \E u \in listed : view.seat[x.room][u] = x.at

Seated(x, view) == {u \in User : view.seat[x.room][u] # None}

(* At most QueueLimit users, those first in the order of update_ts, which  *)
(* is left open: it is a second of the clock of the worker that wrote it.  *)
FirstOf(users) ==
    IF Cardinality(users) <= QueueLimit
    THEN {users}
    ELSE {listed \in SUBSET users : Cardinality(listed) = QueueLimit}

ReplicaSeats(c) ==
    /\ pc[c] = "replica" /\ call[c].fn = "queue"
    /\ \E view \in Visible : \E listed \in FirstOf(Seated(call[c], view)) :
         AfterSeats(c, Taken(call[c], view, listed))

(* A list that breaks off counts as far as it was read: nobody looks at    *)
(* its second result.                                                      *)
ReplicaSeatsFails(c) ==
    /\ "replica" \in Faults
    /\ pc[c] = "replica" /\ call[c].fn = "queue"
    /\ \E view \in Visible : \E listed \in SUBSET Seated(call[c], view) :
         /\ Cardinality(listed) <= QueueLimit
         /\ AfterSeats(c, Taken(call[c], view, listed))

IsLast(x, view) ==
    x.want /\ Capacity[x.room] - view.cnt[x.fn][x.room] = 1

ReplicaCount(c) ==
    /\ pc[c] = "replica" /\ call[c].fn \in {"ready", "battle"}
    /\ \E view \in Visible :
         reply' = [reply EXCEPT ![c].full = IsLast(call[c], view)]
    /\ pc' = [pc EXCEPT ![c] = "write"]
    /\ UNCHANGED <<db, lagging, session, call, stale, wrote>>

(* Here a failed read raises inside the block, which then commits nothing. *)
ReplicaCountFails(c) ==
    /\ "replica" \in Faults
    /\ pc[c] = "replica" /\ call[c].fn \in {"ready", "battle"}
    /\ pc' = [pc EXCEPT ![c] = "commit"]
    /\ UNCHANGED <<db, lagging, session, call, stale, wrote, reply>>

-----------------------------------------------------------------------------
(* The updates, one document per step.                                     *)

Write(c) ==
    \E d \in Doc :
        /\ pc[c] = "write"
        /\ IsNext(c, d) /\ ~Conflict(c, d)
        /\ wrote' = [wrote EXCEPT ![c] = @ \union {d}]
        /\ IF d = "room"
           THEN /\ pc' = [pc EXCEPT ![c] = "commit"]
                /\ reply' = [reply EXCEPT ![c].can = TRUE, ![c].done = TRUE]
           ELSE UNCHANGED <<pc, reply>>
        /\ UNCHANGED <<db, lagging, session, call, stale>>

(* Mutant: done is set in the finally block. *)
RolledBackButDone(c) ==
    /\ wrote' = [wrote EXCEPT ![c] = {}]
    /\ pc' = [pc EXCEPT ![c] = "commit"]
    /\ reply' = [reply EXCEPT ![c].can = TRUE, ![c].done = TRUE]
    /\ UNCHANGED <<db, lagging, session, call, stale>>

(* The server rolls the transaction back, the statement raises, and the    *)
(* commit that follows fails too: its error is dropped by the outer        *)
(* finally.                                                                *)
RolledBack(c) ==
    /\ wrote' = [wrote EXCEPT ![c] = {}]
    /\ pc' = [pc EXCEPT ![c] = "commit"]
    /\ UNCHANGED <<db, lagging, session, call, stale, reply>>

WriteConflict(c) ==
    \E d \in Doc :
        /\ pc[c] = "write"
        /\ IsNext(c, d) /\ Conflict(c, d)
        /\ RolledBack(c)

Abort(c) ==
    /\ "abort" \in Faults
    /\ pc[c] \in {"find", "write"}
    /\ RolledBack(c)

(* A statement fails on the client before it reaches the server (timeoutMS *)
(* or a broken connection).  The inner finally leaves the block without an *)
(* exception, so the context manager commits what was written so far.      *)
Lost(c) ==
    /\ "lost" \in Faults
    /\ pc[c] \in {"find", "write"}
    /\ WithinDrift
    /\ pc' = [pc EXCEPT ![c] = "commit"]
    /\ UNCHANGED <<db, lagging, session, call, stale, wrote, reply>>

(* The server ran the statement, its answer came too late. *)
Unanswered(c) ==
    \E d \in Doc :
        /\ "unanswered" \in Faults
        /\ pc[c] = "write"
        /\ WithinDrift
        /\ IsNext(c, d) /\ ~Conflict(c, d)
        /\ wrote' = [wrote EXCEPT ![c] = @ \union {d}]
        /\ pc' = [pc EXCEPT ![c] = "commit"]
        /\ UNCHANGED <<db, lagging, session, call, stale, reply>>

-----------------------------------------------------------------------------
(* The end of the block: the context manager commits.                      *)

Flip(members, x) ==
    IF x.want THEN members \union {x.user} ELSE members \ {x.user}

OnAfter(x, docs) ==
    [k \in Kind |-> [r \in Room |->
        IF k \in docs /\ r = x.room THEN Flip(on[k][r], x) ELSE on[k][r]]]

CntAfter(x, docs) ==
    [k \in Kind |-> [r \in Room |->
        IF "room" \in docs /\ k \in Targets(x) /\ r = x.room
        THEN cnt[k][r] + (IF x.want THEN 1 ELSE -1)
        ELSE cnt[k][r]]]

SeatAfter(x, docs) ==
    IF "queue" \in docs THEN [seat EXCEPT ![x.room][x.user] = x.at] ELSE seat

FrozenAfter(x, docs) ==
    IF "queue" \in docs
    THEN [frozen EXCEPT ![x.room] =
             IF x.kick THEN @ \union {x.user} ELSE @ \ {x.user}]
    ELSE frozen

StaleAfter(c) ==
    [o \in Client |->
        IF o = c THEN {}
        ELSE IF InSnapshot(o)
        THEN stale[o] \union
               {d \in wrote[c] \intersect DocsOf(call[o]) :
                    SameDoc(call[c], call[o], d)}
        ELSE stale[o]]

Remember ==
    LET longer == Append(lagging, [seat |-> seat, cnt |-> cnt])
    IN  IF Len(longer) > MaxLag THEN Tail(longer) ELSE longer

(* Mutant: the request outlives its operation. *)
ReturnKeepingCall(c) ==
    /\ session' = [session EXCEPT ![WorkerOf[c]] = None]
    /\ pc' = [pc EXCEPT ![c] = "idle"]
    /\ wrote' = [wrote EXCEPT ![c] = {}]
    /\ reply' = [reply EXCEPT ![c] = NoReply]
    /\ UNCHANGED call

Return(c) ==
    /\ session' = [session EXCEPT ![WorkerOf[c]] = None]
    /\ pc' = [pc EXCEPT ![c] = "idle"]
    /\ call' = [call EXCEPT ![c] = None]
    /\ wrote' = [wrote EXCEPT ![c] = {}]
    /\ reply' = [reply EXCEPT ![c] = NoReply]

Commit(c) ==
    /\ pc[c] = "commit"
    /\ on' = OnAfter(call[c], wrote[c])
    /\ cnt' = CntAfter(call[c], wrote[c])
    /\ seat' = SeatAfter(call[c], wrote[c])
    /\ frozen' = FrozenAfter(call[c], wrote[c])
    /\ lagging' = IF wrote[c] = {} THEN lagging ELSE Remember
    /\ stale' = StaleAfter(c)
    /\ Return(c)

(* The commit itself fails and the server rolls back: the outer finally    *)
(* drops the error, and the operation still answers what it had noted.     *)
CommitFails(c) ==
    /\ "commit" \in Faults
    /\ pc[c] = "commit" /\ wrote[c] # {}
    /\ stale' = [stale EXCEPT ![c] = {}]
    /\ Return(c)
    /\ UNCHANGED <<db, lagging>>

-----------------------------------------------------------------------------
(* The freeze of a kicked user runs out. *)
Thaw(r, u) ==
    /\ u \in frozen[r]
    /\ frozen' = [frozen EXCEPT ![r] = @ \ {u}]
    /\ UNCHANGED <<on, cnt, seat, lagging, session, pc, call, stale, wrote, reply>>

(* The secondaries catch up with one more commit. *)
Replicate ==
    /\ lagging # <<>>
    /\ lagging' = Tail(lagging)
    /\ UNCHANGED <<db, session, pc, call, stale, wrote, reply>>

(* What a client does by itself once called. *)
Progress(c) ==
    \/ StartTransaction(c)
    \/ FindRefused(c) \/ FindOnline(c) \/ FindQueue(c) \/ FindReadyOrBattle(c)
    \/ ReplicaSeats(c) \/ ReplicaCount(c)
    \/ Write(c) \/ WriteConflict(c)
    \/ Commit(c)

Fault(c) ==
    \/ ReplicaSeatsFails(c) \/ ReplicaCountFails(c)
    \/ Abort(c) \/ Lost(c) \/ Unanswered(c)
    \/ CommitFails(c)

Next ==
    \/ \E c \in Client : \E x \in Calls : Request(c, x)
    \/ \E c \in Client : Progress(c) \/ Fault(c)
    \/ \E r \in Room, u \in User : Thaw(r, u)
    \/ Replicate

Spec == Init /\ [][Next]_vars

(* Every call on the driver ends within timeoutMS, with an answer or an    *)
(* error, and asyncio resumes every coroutine it can; nothing makes a      *)
(* router call again.                                                      *)
FairSpec == Spec /\ \A c \in Client : WF_vars(Progress(c))

-----------------------------------------------------------------------------
(* What a secondary shows. *)
Views == [seat : [Room -> [User -> Seat \union {None}]],
          cnt : [Kind -> [Room -> Int]]]

(* Types, and how the parts of a client's state go together: a client has  *)
(* a request while it is not idle, and the transaction of its worker's     *)
(* session from start_transaction to the end of the commit.                *)
TypeOK ==
    /\ on \in [Kind -> [Room -> SUBSET User]]
    /\ cnt \in [Kind -> [Room -> Int]]
    /\ seat \in [Room -> [User -> Seat \union {None}]]
    /\ frozen \in [Room -> SUBSET User]
    /\ lagging \in Seq(Views)
    /\ Len(lagging) <= MaxLag
    /\ session \in [Worker -> Client \union {None}]
    /\ pc \in [Client -> Pc]
    /\ call \in [Client -> Calls \union {None}]
    /\ stale \in [Client -> SUBSET Doc]
    /\ wrote \in [Client -> SUBSET Doc]
    /\ reply \in [Client -> [can : BOOLEAN, full : BOOLEAN, done : BOOLEAN]]
    /\ \A c \in Client : pc[c] = "idle" <=> call[c] = None

(* The counters of a room document are the numbers of its users of each    *)
(* kind plus its AI players, as upsert_installed_game_room_info counts     *)
(* them: the $inc of every operation matches its change of a flag.         *)
CountersMatch ==
    \A k \in Kind, r \in Room :
        cnt[k][r] = AiPlayers[r] + Cardinality(on[k][r])

(* in_game_queue_user_cnt never passes carrying_capacity, though several   *)
(* workers may read a count with one place left before any of them writes. *)
WithinCapacity == \A r \in Room : cnt["queue"][r] <= Capacity[r]

(* Two users in the queue of a room never hold the same coordinates. *)
SeatExclusive ==
    \A r \in Room : \A u, v \in User :
        u # v /\ seat[r][u] # None => seat[r][u] # seat[r][v]

(* No operation takes the seat or the ready flag from a user in a battle,  *)
(* though the check and the write are separate statements and the battle   *)
(* document is only read.                                                  *)
BattleHolds ==
    [][\A r \in Room, u \in User, k \in {"queue", "ready"} :
          u \in on["battle"][r] /\ u \in on[k][r] => u \in on'[k][r]]_vars

(* A kicked user stays frozen and out of the queue until the five minutes  *)
(* are over.                                                               *)
FreezeHolds ==
    [][\A r \in Room, u \in User :
          u \in frozen[r] => \/ u \in frozen'[r] /\ u \notin on'["queue"][r]
                             \/ Thaw(r, u)]_vars

Returns(c) == pc[c] = "commit" /\ pc'[c] = "idle"

(* What an operation answers is what it did: success means that the flag   *)
(* has the wanted value, a refusal or a failure means that nothing of the  *)
(* room has changed.                                                       *)
ReplyIsTruthful ==
    [][\A c \in Client : Returns(c) =>
          IF reply[c].done /\ reply[c].can
          THEN \A k \in Targets(call[c]) :
                  (call[c].user \in on'[k][call[c].room]) = call[c].want
          ELSE UNCHANGED db]_vars

(* Of the users that fill a room's queue, get ready or enter the battle,   *)
(* exactly the one that makes the counter reach the capacity is told so    *)
(* (full, all_ready, all_in_game_battle).                                  *)
LastOneIsTold ==
    [][\A c \in Client :
          LET x == call[c] IN
          /\ Returns(c) /\ reply[c].done /\ reply[c].can
          /\ x.fn \in {"queue", "ready", "battle"} /\ x.want
          => (reply[c].full <=> cnt'[x.fn][x.room] = Capacity[x.room])]_vars

(* The coroutines of one worker never make each other's transactions fail: *)
(* the shared session lets one transaction in at a time, so without faults *)
(* every operation returns done.                                           *)
CallsSucceed == [][\A c \in Client : Returns(c) => reply[c].done]_vars

(* Every transaction that was started releases its worker's session. *)
SessionReleased ==
    \A w \in Worker : session[w] # None ~> session[w] = None

CallsStop == <>[][~\E c \in Client, x \in Calls : Request(c, x)]_vars

(* Every operation returns once the routers make no new requests: no       *)
(* coroutine is left polling for the session for ever.  (While requests    *)
(* keep coming the poll gives no such guarantee.)                          *)
EveryCallReturns == CallsStop => \A c \in Client : <>[](pc[c] = "idle")

Game == INSTANCE GameRoom

(* The transactions implement the abstract room. *)
ImplementsGameRoom == Game!Spec

-----------------------------------------------------------------------------
(* The inductive invariant behind the theorems of RoomTransactionsProofs.  *)

(* The client may still, or will, count a user into the queue. *)
Admits(c) ==
    /\ \/ pc[c] \in {"replica", "write"} /\ "room" \notin stale[c] /\ reply[c].can
       \/ pc[c] = "commit" /\ "room" \in wrote[c]
    /\ call[c].fn = "queue" /\ call[c].want

(* What the client saw of its user's flag still holds. *)
Fresh(c) ==
    /\ pc[c] \in {"replica", "write", "commit"} /\ call[c].fn # "all"
    /\ \/ pc[c] \in {"replica", "write"} /\ call[c].fn \notin stale[c]
       \/ pc[c] = "commit" /\ call[c].fn \in wrote[c]

ClientInv(c) ==
    /\ pc[c] \in {"idle", "start", "find", "replica"} => wrote[c] = {}
    /\ pc[c] \in {"write", "commit"} => wrote[c] \subseteq DocsOf(call[c])
    /\ pc[c] = "write" => "room" \notin wrote[c] /\ wrote[c] \intersect stale[c] = {}
    /\ pc[c] = "write" /\ call[c].fn = "queue" /\ call[c].want => reply[c].can
    /\ pc[c] \in {"find", "replica"} => call[c].fn # "all"
    /\ Admits(c) => HasPlace(call[c])
    /\ Fresh(c) => (call[c].user \in on[call[c].fn][call[c].room]) # call[c].want

(* No document has uncommitted writes of two transactions. *)
SoleWriter ==
    \A c, o \in Client : c # o =>
        \A d \in wrote[c] \intersect wrote[o] : ~SameDoc(call[c], call[o], d)

(* Counters stay within the capacity because what each open transaction    *)
(* relies on is still true unless its snapshot is known to be stale.       *)
RoomInv ==
    /\ TypeOK
    /\ \A c \in Client : ClientInv(c)
    /\ SoleWriter
    /\ WithinCapacity

(* No statement fails between two writes of an operation, and no purge. *)
Atomic ==
    /\ Faults \intersect {"lost", "unanswered"} = {}
    /\ "all" \notin Fns

(* A transaction that reaches its commit has written all or nothing. *)
AllOrNothing ==
    \A c \in Client :
        pc[c] = "commit" => wrote[c] = {} \/ wrote[c] = DocsOf(call[c])

(* The client is about to take a seat or a ready flag from its user. *)
TakesAway(c) ==
    /\ \/ pc[c] \in {"replica", "write"} /\ "room" \notin stale[c]
       \/ pc[c] = "commit" /\ "room" \in wrote[c]
    /\ call[c].fn \in {"queue", "ready"} /\ ~call[c].want

NotInBattle ==
    \A c \in Client :
        TakesAway(c) => call[c].user \notin on["battle"][call[c].room]

AtomicInv ==
    /\ RoomInv
    /\ AllOrNothing
    /\ CountersMatch
    /\ NotInBattle

=============================================================================
