# Verification of clean-fastapi-project

TLA+ models of the server behind `src/app`: game rooms whose users come online,
queue for a seat, get ready and enter a battle; accounts, login codes, a lock
on Redis, and what the server hands on to Kafka, MongoDB and a push service.
The modules are checked with TLC on small instances; theorems about all of them
are proved with TLAPS for every instance. Only liveness, and what the grouping of
AI players computes for lists of any length, rest on the model checker alone.

`ha.py` below is `src/app/internal/extensions/ext_mongo/ha.py`. `PROJECT.json`
gives for every definition the lines it models, and for every property a mutant
of the model, a plausible bug, that the property detects.

1. [Inventory](#1-inventory)
2. [How the parts interact, and what is
   hard](#2-how-the-parts-interact-and-what-is-hard)
3. [The modules](#3-the-modules)
4. [The runs](#4-the-runs)
5. [Fairness](#5-fairness)
6. [What is proved](#6-what-is-proved)
7. [What the code does not guarantee](#7-what-the-code-does-not-guarantee)
8. [Not modelled](#8-not-modelled)
9. [Plan](#9-plan)

## 1. Inventory

| component | source | state | operations | should be true |
|---|---|---|---|---|
| Room operations | `ha.py` 1560-2105 | per room a document with `carrying_capacity`, `ai_player_cnt` and a counter per kind (online, queue, ready, battle); per user and kind a document with a flag, for the queue also seat and `frozen_time`; one client session per process | `upsert_game_room_online_users`, `..._in_game_queue_users`, `..._be_ready_users`, `..._in_game_battle_users`, `upsert_game_room_users` (the purge), each a transaction | counters count flags; the queue is never overbooked; seats are exclusive; a user in a battle keeps seat and flag; a kicked user stays out for five minutes; answers tell what happened; every call returns |
| Installed rooms | `ha.py` 1197-1262, `app.py` 271-525 | the room's document, its assistants | `init_db` of each starting worker: group the AI players by room, open each room, recount, add its slaves | the groups are the rooms; the counters are repaired; the queue fits; each slave is an assistant once; the queue can be drawn |
| Accounts | `ha.py` 359-652 | `user_profile` and, for returning users, `user_profile_for_bad_man` | `init_user_account` (retried), `set_user_profile`, `set_user_profile_extra_info`, `set_user_online`, `delete_user_account`, questions | uids are unique; free plays are counted; deleted data stays; nothing but registering or reactivating revives an account |
| Records per user | `ha.py` 654-1041 | feedback, permissions, invite codes and their usage, game accounts, results, chat | single inserts and upserts | a result is stored once |
| Room views | `ha.py` 1296-1558 | none: each call is many reads of the rooms' state | `list_game_rooms`, `query_game_room` and the lists they read | who stayed is shown where he is, once; who turns the pages sees every room once |
| Redlock | `infra/redlock` | a key with a ttl on each Redis server | `alock`, `aunlock`, `aextend` and blocking twins | one holder at a time; failure leaves no key; every call ends |
| Login codes | `infra/sms`, `ext_redis` 178-220 | token key (a number's messages left today), code key | `send_short_message`, `verify_short_message`, `get_daily_token`, `take_daily_token` | the daily total; tokens come back at midnight; the newest code counts |
| Redis client | `ext_redis` | string and integer cache, counters | `cache_*`, `exist_or_get_*`, `incr`, `decr`, daily tokens | (modelled where used) |
| Kafka producer | `ext_kafka/producer.py` | the producer's buffer | `send_room_event`, `send_msg`, `close` | order kept, what is answered True is in the topic |
| Push messages | `infra/jpush` | none (reads the cache) | `send_jpush` | no push to a user who denied it |
| App | `app.py` | none | startup, shutdown, middlewares | |
| Access tokens, one-time passwords | `infra/jwt`, `pkg/googauth` | none | encode, decode, verify | |
| HTTP session, QR code, RPC clients, singleton, logging, settings, Celery, deployment | rest of `src/app`, `src/devops` | client objects, configuration | | |

The routers (`internal.routers...`), the alarm service, the dependencies and the
protobuf modules are imported but are not part of the repository. The models
take routers as callers that may ask for anything at any time, restricted where
the arguments only make sense after a question (`Asked` in `UserAccount`, the
guard of `Request` for the purge in `RoomTransactions`).

## 2. How the parts interact, and what is hard

A worker is one process with one event loop; `uvicorn` starts `WEB_CONCURRENCY`
of them (1 unless it is set). Within a worker, coroutines interleave at every
`await`; across workers they meet in MongoDB and Redis only.

* **One session per worker.** `MongoClient` keeps a single `_db_session`
  (ha.py:154). `start_transaction` raises "Transaction already in progress"
  while another coroutine of the process has one open, and each operation then
  sleeps 0.1 s and tries again: the session is a mutex, taken by polling.
* **Transactions of several workers.** They read snapshots; writing a document
  that changed since, or that another open transaction has written, is a
  WriteConflict. The room's document is written by every operation that changes
  anything, last.
* **The inner `finally: break`.** It swallows whatever a statement raised, so
  the `async with` block is left without an exception and commits what has been
  written. If the server aborted the transaction the commit fails, harmlessly,
  and the outer `finally` drops that error; if the statement failed on the
  client, the half that was written is committed.
* **Reads without the session** (`list_game_room_in_game_queue_users`,
  `find_one` on the room in ready and battle; everything in the account
  functions and at startup) go to a secondary (`readPreference=secondary`) and
  may show an earlier state.
* **Upserts** insert when nothing matches; two of them may both find nothing,
  and only a unique index stops the second. A missing field counts as a value in
  such an index.
* **The retry decorator** (ha.py:33-63) only sees errors of
  `init_user_account`: the other decorated functions swallow every exception.
* **Views are not snapshots.** A page of rooms is one read, then the online
  users, the queue and the readiness of each user of the queue are reads of
  their own, of whatever state the secondary shows by then. `skip` and `limit`
  cut a list whose order may change from page to page.
* **Read, change, write.** Free plays, assistants of a room and daily tokens are
  read, changed in the process and written back in a later step.
* **Redis commands** of one function are separate steps.
* **Kafka.** `future.get(timeout=5)` in a coroutine blocks the thread of the
  event loop; the producer's own thread goes on.
* **Startup.** Every worker that starts rewrites the installed rooms without a
  transaction, while others may serve.

The list of hazards, each at its line with the properties that cover it, is in
`PROJECT.json`.

## 3. The modules

| module | models | extends / composes |
|---|---|---|
| `GameRoom` | what the room operations promise: one step each, no transactions | |
| `RoomTransactions` | the five room operations statement by statement | refines `GameRoom` (`ImplementsGameRoom`) |
| `RoomViews` | the pages and grids that users are shown, read by read | the commits of `RoomTransactions` as single steps |
| `Installation` | which AI players `init_db` installs together, in which order | operators only |
| `RoomStartup` | starting workers and one installed room | `Installation`; the commits of `RoomTransactions` as single steps |
| `Lease` | what a lock promises: a lease for a bounded time, no servers | |
| `Redlock` | the lock, server by server | refines `Lease` (`ImplementsLease`) |
| `SmsCodes` | login codes and daily tokens of one number, command by command | |
| `UserAccount` | the accounts of a phone number in the two stores | |
| `Coroutines` | the coroutines of one process | |
| `RoomEvents` | Kafka producer and topic | `Coroutines` |
| `Records` | inserts with a unique index | `Coroutines` |
| `PushMessages` | `send_jpush` while the user changes devices | `Coroutines` |
| `FreePlays` | the free plays of one user | `Coroutines` |
| `Deliveries` | these four on one event loop, and a crash | `RoomEvents`, `Records`, `PushMessages`, `FreePlays` |
| `RoomTransactionsProofs`, `RoomViewsProofs`, `RoomStartupProofs`, `RedlockProofs`, `SmsCodesProofs`, `UserAccountProofs`, `DeliveriesProofs` | theorems | the module of that name |
| `RoomPromisesProofs` | theorems about what the room operations promise their callers, and the refinement of `GameRoom` | `RoomTransactionsProofs` |
| `MCRoom`, `MCViews`, `MCStartup`, `MCRedlock`, `MCSms`, `MCUsers`, `MCDeliveries` | instances for TLC | `RoomTransactions`, `RoomViews`, `RoomStartup`, `Redlock`, `SmsCodes`, `UserAccount`, `Deliveries` |

### RoomTransactions

`on`, `cnt`, `seat`, `frozen` are the committed database; `session` the open
transaction of each worker; `pc`, `call`, `wrote`, `stale`, `reply` belong to a
client, a coroutine with one request at a time. An operation goes

    idle -Request-> start -StartTransaction-> find -> [replica] -> write ... -> commit -Commit-> idle

* `StartTransaction` is the round of the polling loop that succeeds.
* `FindRefused`, `FindOnline`, `FindQueue`, `FindReadyOrBattle` are the first
  `find_one` and the decisions on it: nothing to do (`Filtered`), still fighting
  (`HeldByBattle`), frozen (`FrozenOut`), full (`HasPlace`).
* `ReplicaSeats`, `ReplicaCount` are the reads outside the session, of any state
  in `Visible`. The list of the queue returns its first 10 users (ha.py:1878),
  here any `QueueLimit` of them (`FirstOf`), since the order by a second of the
  clock decides little.
* `Write` updates one document, in the code's order, the room's last;
  `WriteConflict` is the server's answer when it must not.
* `Commit` applies all writes (`OnAfter`, `CntAfter`, `SeatAfter`,
  `FrozenAfter`) and marks the documents as stale for open snapshots.
* Faults, each switched on by a member of `Faults`: `abort` (the server aborts),
  `lost` (a statement never reaches it), `unanswered` (it ran, the answer is
  lost), `commit` (the commit fails), `replica` (a read of a secondary fails; a list
  that breaks off counts as far as it was read).
* The purge takes `online`, `queue` and `ready` from a user and reads nothing.
  A router purges a user who has all three.

`reply.can`, `reply.full` and `reply.done` are the parts of the returned tuple.
The clock appears only as `Thaw`: the five minutes of a freeze are over.

### RoomViews

`place`, `ready`, `cells`, `helped` are what the room operations and a starting
worker have committed, for all rooms of one game; `lagging` earlier states of it.
There is one call at a time, which has no writes and so cannot disturb another:

    idle -List-> page -ReadPage-> online -ReadOnline-> queue -ReadQueue-> ready
    ready -ReadReady-> ready (per user) -Fill-> online (next room) ... -> answered

With `use_fast_path`, `ReadPage` goes on to `answered`. `Query` is
`query_game_room`, the same for one room. Each read takes any state of
`Visible`. `Before` are the sort rules of the page over the stored counters, in
which the capacity of a room has no part; `Orders` leaves open what they do not
decide. `Returned` is what a list has: the first users of the room up to its
limit, 100 online and 10 in the queue; which are the first is left open. Two
users may sit in one cell, from the start or because `SitDown` chose it from a
list that lags, breaks off or is at its limit (`LooksFree`). `Fill` puts the
users on the grid, of those in one cell the last (`Grids`); `OutOfRange` is the
`IndexError` of a grid without its first assistant or smaller than a user's row,
after which the rest of the page keeps empty grids. `ReadFails` is a list that
cannot be read and counts as empty. Cells of AI players are always filled and
left out.

`moved` are the users whom the reads of a call may show differently: those who
moved since it began and those the secondary was behind on. `filling.cut` says
that the list of the queue was at its limit. `steady` says whether the rooms
have kept one order since the first page.

### Redlock

`key`, `left` are the servers; a client visits them one after the other
(`Set...`, `Delete...`, `ExtendKey...`), time passes in `Tick` between any two steps,
and `hold` is the validity the caller was given. `init_instance` passes
`retry_count, retry_delay` by position to a constructor whose first of these
parameters is `async_mode`; `RetryCount` models what comes out (the delay is
used as count).

A value that a caller signs with is new (`Lock`), unless the fault `sameSeed` is
switched on: `startup_event` seeds the global generator with the current second
(app.py:119) and takes the lock later in the same start (app.py:175), so workers
that start in one second draw the same 22 characters. That two callers do not
share a value is therefore not a fact about the code, but the assumption
`ValuesDiffer` of the theorems that need it.

`Lease` is the promise behind it: `Grant` only while nobody has the lease,
`GiveBack`, and `Pass`, in which time takes from every lease. `ImplementsLease`
maps `hold`, the validity the callers count on, to `lease`. `aextend` returns
whether a majority agreed and measures no time, so `ExtendDone` grants nothing:
`hold` stays what `alock` made it.

### SmsCodes

`tok` and `expires` are the token key; `Exists`, `Get`, `Post`, `Store`,
`TakeExists`, `SetFirst`, `TakeGet`, `Set`, `Expire` are the commands of one
`send_short_message`. A SET drops the expiry until EXPIRE. `Midnight` expires
the key. `last` numbers the messages; `settled` is the newest one stored while no
other was waiting to be; `atOnce` is how many calls were in progress at once, at
most, since midnight.

### RoomStartup

`Installation` is the pure part of `init_db`: `ByRoom` sorts the AI players of the
configuration, `Combine` is one turn of the loop that closes a group where the
room changes, `MasterFirst` orders a group.

A worker goes down -> count -> open (its group's master) -> read -> assist (each
slave) -> ... -> serving; `turn` is how many of the group it has written.
`Enter`, `Leave` and `Drift` are commits of serving workers, `Drift` that of
half an operation: the flag, which is written first, without the counter (see
`room_lost_statement`). All workers may start, fail and stop at any time, and
each start draws a definition of the room from `Defs`. Three history fields say
how far a promise can go: `missed`, the commits that a worker's counts may not
show; `current`, whether all reads of a start were of the latest state and no
other start has written the room since; `off`, for each kind the commits that
the counts with which the room was last opened had missed, and the half
operations since.

### UserAccount

Documents are records with the fields that any query or update names. An update
is `FindMatch` and `Apply` in one step, or `MatchNothing` and an insert later,
which may meet the index (`Duplicate`). `TimedOut` is the retry decorator, which
only sees `init_user_account`. The second store is used by `UsesSecond`. `Asked`
are the questions a router has asked before, of a state that may be old.

### Deliveries

`Blocked` is true while a coroutine waits for Kafka's future: every action of a
coroutine but its own needs `~Blocked`, those of Kafka's thread, the clock and
the user do not. `Fails` covers an error, a timeout of the request and a lost
answer; the producer is made without `retries`. `Records` keeps the `_id`s the
driver draws: `add_game_result` inserts the caller's own dict, in which the
driver leaves the `_id`. `PushMessages` reads device, permission, type and
registration one after the other; `used` and `denied` are what the user did
meanwhile. `FreePlays` reads the number from a secondary, changes it and writes
it back in a later step, to a document that may have been deleted by then; `due`
is what the user should have, `overlapped` whether a change ever began that could
not see all earlier ones.

## 4. The runs

All but the last two pass. States are distinct states; TLC needs between 15 s
and three minutes for each with two workers.

| run | instance | shows |
|---|---|---|
| `room_queue` | 3 users, 2 seats, capacity 3 with 1 AI player, 2 workers with a client each, queue and battle, no faults (1.07 million states) | counters, capacity, seats, battle, freeze, the user told to be last, answers, refinement |
| `room_faults` | 2 users for one place, 2 clients of one worker, queue and ready, every fault (161 000) | the session is released, calls return |
| `room_purge` | 1 user, 2 clients of one worker, all operations and the purge, secondaries one commit behind, counters off by up to 1 (2.1 million) | operations of one worker do not make each other fail |
| `room_views` | 2 rooms with 2 cells, of which one is taken away by a new start, 2 users anywhere, also in one cell, lists of at most 1 user online and 2 in the queue, pages of 1 or 2 rooms, 2 commits of others, also of half an operation, a secondary one behind, every list may fail (2.45 million) | what is said of a user who stayed is so; pages are complete |
| `redlock_quorum` | 3 servers, 2 callers, 2 values, ttl 3, drift and skew 1, one round, lost answers, unlock, extend and crash (2.89 million) | exclusion, extended locks, clean failure, refinement of `Lease` |
| `redlock_faults` | 1 server as in `app.py`, ttl 2, two rounds, every fault (values from one seed too) and every operation (334 000) | every `alock` ends |
| `sms_codes` | 2 coroutines, 2 messages a day, at most 6 delivered, every fault (870 000) | quota, expiry, newest code, quota returns |
| `startup` | 2 workers that start, fail, serve and stop at the same time, 2 users, a room with 1 place for users or 2, drawn at each start, a master and 2 slaves configured around a player of another room, every fault, lag 1, drift 1 (2.99 million) | recount, queue fits, assistants; `GroupsAreRooms` for all lists of up to 4 AI players of 3 rooms |
| `users` | 1 account, 2 uids, two overlapping calls, every operation, failing reads, lost and unanswered updates, lag 1 (818 000) | uids, deleted data, no revival |
| `deliveries` | 2 coroutines, 2 calls, 2 events, 1 game result, 1 feedback of the same user, free plays up and down, 2 devices, 2 changes by the user, 2 seconds (543 000) | log, result stored once, denied means silent, plays, every call ends |
| `room_stale_seat` | 2 users, 2 seats, lag 1 | **violation** of `SeatExclusive` |
| `room_lost_statement` | 2 users, fault `lost` | **violation** of `CountersMatch` |

Why the bounds are enough for the questions asked:

* Rooms are independent (no operation touches two), so one room is used. Two
  clients make every pairwise conflict; three users for two places make a full
  queue, a last place and a refusal. Overbooking and the freeze are a matter of
  two workers whose snapshots overlap, so `WithinCapacity` and `FreezeHolds` are
  checked in `room_queue`; what faults do to them is the matter of their
  theorems. `room_faults` is about the session of one worker. `room_purge` has
  one user, since it is about coroutines that meet in a session. Capacity always
  counts the AI player, as `carrying_capacity` does.
* `QueueLimit`, 10 in the code, is the number of places for users in `room_queue`,
  where no list is cut, as for every room of at most ten places; `room_faults` has
  as many listed users as places, one.
* `MaxLag` 1 is what a stale read needs: one commit. `MaxDrift` bounds how far
  counters may go under faults; it guards the faults, not the operations.
* Two rooms make an order and a second page; a third adds orders, no case.
  `OnlineLimit` 1 with two users is a list that is cut; `QueueLimit` 2 is one that
  is reached. Two commits between the reads suffice for a user who stands up and sits
  down again where another was; any start state is an initial state, so no commit
  is needed to get there.
* Three servers are the least for which a majority is neither one nor all. One
  round (`RetryDelayConf` 10) keeps `redlock_quorum` small: the next round starts
  like the first of another call, with the same value and servers free of it;
  `redlock_faults` and the theorems have several. ttl 3 with drift 1 leaves a
  validity of 2 and 1.
* Six messages with two a day are three days, or an overlap followed by a day
  without. `QuotaKept` bounds two calls at once by `Total * (Total + 3) / 2`,
  which is reached for totals 1, 2 and 3; that only two calls at once matter, and
  not how many coroutines make them, is proved (section 6).
* In `startup` one kind is recounted (`OneKind`), as the kinds do not touch each
  other there. `MaxAssistants` 4, twice the slaves, lets two starts add all of
  them; it is needed because a start that reads an old list writes it back one
  longer. `MaxMissed` bounds the commits during one count. With one place and two, two
  users can fill the larger room before a start draws the smaller one.
* Two uids are one for a registration and one for the account that hides it.
  `UidsLeft` keeps a call that draws one from finding none at its first attempt;
  later attempts may find none and then time out.
* Two calls in `deliveries` are the two coroutines at once, in any of the
  services, or one after the other: two events in order, or a repeated result.

Symmetry is used for users and seats, values, uids, callers and workers, where
the properties treat them alike, and not in runs with liveness.

`deliveries` has `CHECK_DEADLOCK FALSE`: with the last of `MaxCall` calls
done, the system has nothing more to do. The other specifications never stop.

### Properties

Types (`TypeOK`) are stated once per module. The others:

* `CountersMatch`, `WithinCapacity`, `SeatExclusive`, `BattleHolds`,
  `FreezeHolds`, `ReplyIsTruthful`, `LastOneIsTold`, `CallsSucceed`,
  `SessionReleased`, `EveryCallReturns`, `ImplementsGameRoom` (rooms).
* `SeatedAreShown`, `PagesComplete` (views).
* `MutualExclusion`, `ExtendKeepsLock`, `FailureIsClean`, `LockReturns`,
  `ImplementsLease` (lock).
* `QuotaKept`, `TokenExpires`, `CurrentCodeChecked`, `QuotaReturns` (codes).
* `RecountRepairs`, `QueueFits`, `AssistantsComplete`, `QueueCanBeDrawn`
  (startup), and the assumption `GroupsAreRooms` on the grouping, which TLC
  evaluates over all lists before the run.
* `OldDataKept`, `NoRevival` (accounts).
* `LogIsFaithful`, `ResultStoredOnce`, `DeniedMeansSilent`, `PlaysCounted`,
  `EveryCallReturns` (deliveries).

Each is explained where it is defined.

### Two violations

* **`room_stale_seat`.** `upsert_game_room_in_game_queue_users` checks whether
  the seat is taken (ha.py:1718, "上车前先检查坑位是否已被占") with a list that
  is not read in the transaction. From a secondary one commit behind, the seat
  looks free, and two users get it: the transactions do not overlap, so nothing
  conflicts.
* **`room_lost_statement`.** ha.py:1569 says of the transaction that its
  operations take effect only on commit. When the update of the room's counter
  fails on the client, the `break` in the inner `finally` ends the block without
  an exception and the flag alone is committed.

## 5. Fairness

* `RoomTransactions!FairSpec`: weak fairness of each client's `Progress`. Calls
  of the driver end within `timeoutMS`; asyncio resumes every coroutine that can
  go on. Nothing makes a router ask again, nor a fault happen. A poll for the
  session is disabled whenever it is busy, so weak fairness promises nothing
  under permanent load: `EveryCallReturns` assumes that requests stop
  (`CallsStop`), and is an implication for that reason. `SessionReleased` holds
  without that assumption.
* `Redlock!FairSpec`: answers or timeouts come (`Progress`), keys expire, time
  passes. Callers need not unlock.
* `SmsCodes!FairSpec`: calls go on and midnight comes.
* `Deliveries!FairSpec`: calls go on; Kafka need never answer.

## 6. What is proved

The theorems hold for every value of the constants that satisfies their named
assumptions (each specification's `ConstantsAssumption`, which TLC evaluates on
every run). The column "assumes" names what a theorem excludes beside that;
"nothing" means every fault of the model.

### Rooms: `RoomTransactionsProofs`, `RoomPromisesProofs`

For any number of rooms, users, seats, workers and clients, any lag and drift:

| theorem | statement | assumes |
|---|---|---|
| `TypeCorrect` | `Spec => []TypeOK` | nothing |
| `QueueWithinCapacity` | `Spec => []WithinCapacity` | nothing; the purge included |
| `CountersExact` | `Spec => []CountersMatch` | `Atomic`: no `lost` or `unanswered` statement, no purge |
| `BattleIsHeld` | `Spec => BattleHolds` | `Atomic` |
| `Promises` | `Spec => []PromiseInv` | nothing |
| `SeatsAreExclusive` | `Spec => []SeatExclusive` | `SeatsSeen`: `Atomic`, no lag, no failing read of the grid, and no room with more places for users than a list returns |
| `FreezeIsHeld` | `Spec => FreezeHolds` | no purge |
| `RepliesAreTruthful` | `Spec => ReplyIsTruthful` | `Whole` (no `lost` or `unanswered` statement), no failing commit |
| `LastIsTold` | `Spec => LastOneIsTold` | `UpToDate` (no lag), no failing commit |
| `CallsOfOneWorkerSucceed` | `Spec => CallsSucceed` | `LoneWorker`: all clients in one worker, no fault but `commit` |
| `GameRoomImplemented` | `Spec => ImplementsGameRoom` | `SeatsSeen`; aborts and failing commits may occur |

`WithinCapacity` is not inductive: between the read of the counter and the
commit another worker may admit a user. `RoomInv` adds what keeps it true
(`ClientInv`): a client that is going to count a user in (`Admits`) still sees a
place, unless the room's document is stale for it, in which case its write will
conflict; what it saw of its user's flag is still so (`Fresh`); and no document
has uncommitted writes of two clients (`SoleWriter`), so a commit makes every
other admission stale. `AtomicInv` adds that a transaction reaching its commit
has written all of its documents or none (`AllOrNothing`), which makes the
counters exact, and that a client about to take a seat or a ready flag away
(`TakesAway`) has a user who is not in a battle (`NotInBattle`): entering the
battle writes the room's document, too. `Atomic` is necessary:
`room_lost_statement` is its counterexample.

`PromiseInv` carries one conjunct for each way in which something noted before a
commit could be wrong at the commit. The answer says done only with the last
write (`SuccessIsWritten`), and a failure has nothing left to commit
(`FailureWroteNothing`). A client that joins has a user who is not frozen
(`JoinsUnfrozen`): the freeze is in the document of the user, which it read in
its snapshot and writes itself. Its seat is free (`SeatIsFree`) and what it noted
of the last place is so (`KnowsIfLast`), although both come from reads outside
the transaction: these conjuncts are about clients that have written the room's
document or can, and whoever takes the seat or changes the counter meanwhile
makes it stale. And only the owner of the worker's session is in a transaction
(`HasSession`), from which `Calm` follows for a single worker: no snapshot is ever
stale. Beside the clients the invariant has that whoever is seated is in the
queue (`SeatedAreQueued`): with exact counters (`AtomicInv`) and the queue within
capacity, no more users are seated than a list returns (`AllAreListed`), so the
list shows each seat that is taken. `MaxLag = 0` is necessary for the seats:
`room_stale_seat`.

`GameRoomImplemented` maps each `Commit` to the step of `GameRoom` with the
operation's name, the counters to the numbers of flags (`CountersExact`), and
every other step, lost races and rolled back transactions included, to a
stutter.

### Views: `RoomViewsProofs`

For any number of rooms, users and cells, pages of any size and any lag:

| theorem | statement | assumes |
|---|---|---|
| `TypeCorrect` | `Spec => []TypeOK` | nothing |
| `ViewsCorrect` | `Spec => []ViewsInv` | nothing |
| `StayingIsShown` | `Spec => []SeatedAreShown` | nothing |
| `PagesShowAll` | `Spec => []PagesComplete` | nothing |

A view is put together from reads at different times of different states. The
invariant is that all states which can still be read agree with the database on
everybody who has not `moved` since the call began (`Agreed`), so each part of the
answer, and the room that is being filled, is right about these
(`FillingRight`, `AnswersRight`), whichever state each read took. Right means that
what is said of a user is so (`CellsRight`, `ReadinessRight`, `OnlineRight`), and
that his cell is filled (`NoneMissing`), with him or, since two may have got one
cell and the later overwrites the other, with somebody else; only a list at its
limit leaves him out. Nothing is assumed of the limits or of who shares a cell.
For the pages,
`PagesRight` says that while the order is `steady`, what was listed is the
beginning of one sequence of all rooms.

### Startup: `RoomStartupProofs`

For any number of workers, users, kinds of counters and AI players:

| theorem | statement | assumes |
|---|---|---|
| `TypeCorrect` | `Spec => []TypeOK` | `GroupIsRoom` |
| `StartIsComplete` | `Spec => []AssistantsComplete` | `GroupIsRoom` |
| `DrawnWhenServing` | `Spec => []QueueCanBeDrawn` | `GroupIsRoom` |
| `QueueIsBounded` | `Spec => QueueFits` | `GroupIsRoom` |
| `StartsRepairCounters` | `Spec => RecountRepairs` | `GroupIsRoom` |

`GroupIsRoom` says that the group which `init_db` forms for the room is the room:
its players once each, the master first. The grouping is a fold over a list, so
that it does so for every list is an induction over data and beyond these
proofs; TLC evaluates it for every list of up to four AI players in three rooms
(`GroupsAreRooms`) and for the group of the run (`ConfiguredIsRoom`). One master
per room is part of `ConstantsAssumption`: only a master opens a room, and a
second one would take its assistants away again.

`RecountInv` says that a secondary that is `i` commits behind differs from the
database by at most `i` flags of a kind (`ViewsClose`), so a counter written from
a count is off by no more than the commits the count has missed (`CountsClose`).
`AssistantsInv` says that in an undisturbed start the assistants are the slaves
written so far, in order, and what was read is what is there. `CountersClose` says
that once the room is open each of its counters is off, in either direction, by no
more than `off`: what the last recount missed and the half operations since. A
recount makes it so from `CountsClose`, whatever the counters were before, every
commit and half operation keeps it (`CounterMoves`), and with it the guard of an
admission, which looks at the counter, says something about the users there are
(`QueueStep`). The definitions may be of any sizes: when a smaller one is drawn
the users who are in stay in, and `QueueFits` says that nobody follows them until
enough have left.

### Lock: `RedlockProofs`

For any number of servers and callers, any ttl, drift and retry settings:

| theorem | statement | assumes |
|---|---|---|
| `TypeCorrect` | `Spec => []TypeOK` | nothing |
| `LockExcludes` | `Spec => []MutualExclusion` | `Reliable`: no two callers sign with the same value (`ValuesDiffer`), no server forgets a key and no delayed unlock is run (`KeysStay`) |
| `ExtendKeeps` | `Spec => ExtendKeepsLock` | `Reliable` |
| `LeaseImplemented` | `Spec => ImplementsLease`: the lock is a `Lease` | `Reliable` |
| `FailureLeavesNothing` | `Spec => FailureIsClean` | `ValuesDiffer`, and `Prompt`: no command is lost or late; lost answers, restarts and callers that die may occur |

`ValuesDiffer` is an assumption about the random generator that this program does
not justify for workers which start in the same second (section 7): the theorems
are about the algorithm with values of its callers' own, which it needs, and say
nothing of such workers.

`RedlockInv` says that a valid lock is backed by a majority of servers that hold
its value for longer than the validity (`Backed`), that the servers which said
yes in a round do so as long as the round is young enough (`RoundIsSound`), and
that callers have values of their own (`OwnValues`, from `ValuesDiffer`). Two
majorities share a server, which holds one value. The assumption `Skew <= Drift`
is the algorithm's own: the drift that `alock` subtracts covers the clocks.

For `LeaseImplemented`, every step of the lock is a step of `Lease` or leaves
`hold` as it is: `alock` grants, and by `MutualExclusion` after the step nobody
had a lease; `aunlock` and a crash give back, `Tick` passes, `aextend` changes
nothing.
`CleanInv` says that the servers which an undoing client has visited are free of
its value, and stay so because nobody else has that value.

### Codes: `SmsCodesProofs`

For any number of callers, any total and number of messages:

| theorem | statement | assumes |
|---|---|---|
| `Types` | `Spec => []TypeOK` | nothing |
| `Expiry` | `Spec => []TokenExpires` | nothing |
| `NewestCode` | `Spec => []CurrentCodeChecked` | nothing |
| `Quota` | `Spec => []QuotaKept` | nothing |

`SmsInv` carries three arguments beside `TokenExpires`, which is inductive with
the types. `Ordered`: neither the stored code nor one that is still to be stored
is older than the newest settled one.

`Alone` (one call at a time): the tokens that are left and the messages of the
day are together no more than the total, the unpaid ones and the one message
under way, wherever the call is between its commands (`Accounted`, `Balanced`;
`Left`: a missing key stands for all tokens).

`Paired` (two at once): a call that has read the number of tokens restores, when
it writes, those that the other took since then. So `Ahead` bounds what two
callers can still send: each of them holds the number of tokens that it would
leave (`Holds`), the smaller number is used up while the larger one waits, and
every write lowers the larger one by one. `SendsAfterWrite` is the arithmetic of
that step; `PairActs` shows for each command that messages sent plus messages
ahead do not grow, a failed call being `unpaid`. Calls that are over hold what a
new one would, so a third coroutine can take the place of one that is idle
(`PairJoins`) and only the calls at once count.

The bound for two is not one for any calls that overlap: three callers exceed it
with one message a day, so `atOnce`, the number of calls at once, is part of the
property. For more than two, `Ahead` would be a sum over all callers, which only
an induction over their number can bound.

### Accounts: `UserAccountProofs`

For any number of callers, accounts, uids and retries:

| theorem | statement | assumes |
|---|---|---|
| `TypeCorrect` | `Spec => []TypeOK` | nothing |
| `DeletedIsKept` | `Spec => OldDataKept` | nothing |
| `DeletedIsNotRevived` | `Spec => NoRevival` | nothing |

The types say more than shapes: a uid belongs to one document of a collection,
the second collection has no deleted documents, and a call keeps the form that
its operation needs. With these, each update or insert is of a document that the
operation may touch, whatever was read before it.

### One process: `DeliveriesProofs`

For any number of coroutines, calls, events, records, devices and changes, and
any change of free plays:

| theorem | statement | assumes |
|---|---|---|
| `Types` | `Spec => []TypeOK` | nothing |
| `FaithfulLog` | `Spec => []LogIsFaithful` | nothing: every failure of Kafka, and crashes |
| `StoredOnce` | `Spec => []ResultStoredOnce` | nothing |
| `Silence` | `Spec => []DeniedMeansSilent` | nothing |
| `CountedPlays` | `Spec => []PlaysCounted` | nothing |

The proof follows the composition. `KafkaInv`, `RecordsInv`, `PushInv` and
`PlaysInv` are invariants of one service each; a lemma per service shows that its
own steps keep its part (`KafkaDelivers`, `RecordsEnd`, `PushSteps`, ...) and one
(`KafkaRests`, `RecordsRests`, ...) that any step does which leaves its variables
alone and moves no coroutine into one of its places (`Untouched`), so the
services need not know of each other. `KafkaInv` says that the buffer is the end
of what was sent and that the topic has nothing of it, from which `LogGrows`
derives order and uniqueness; that only one coroutine waits is due to `Blocked`.
`PushInv` says that a call which is beyond the permission was not denied all the
time, and that the device it reads is always one it knows of. `PlaysInv` says
that a change which is alone reads the latest number whichever server it asks.

### Only model-checked

* Liveness: `SessionReleased`, `EveryCallReturns` (rooms and deliveries),
  `LockReturns`, `QuotaReturns`. Fairness is stated with ENABLED, out of the
  prover's reach.
* The grouping of `Installation` (`GroupsAreRooms`): an induction over lists.

## 7. What the code does not guarantee

Properties that fail under constants other than those of the runs. No document
or test promises otherwise, so they are not runs; they say where the passing
runs end.

* Rooms. With the fault `commit` an operation answers done although its commit
  failed (`ReplyIsTruthful`). With `replica` a list of seats that breaks off
  counts as far as it was read, and in a room with more than ten places for
  users the list ends before them (`SeatExclusive`). When the seat is taken,
  `full` may be reported though a place is left. With the purge, a user in a
  battle loses the seat (`BattleHolds`), a kicked user the freeze
  (`FreezeHolds`), and a purge and a leave in two workers count a user down
  twice (`CountersMatch`). With `MaxLag` above 0 the last to get ready may not
  be told (`LastOneIsTold`).
* Redlock. Workers that start in the same second seed the generator alike
  (app.py:119), so at app.py:175 they may sign with the same value: the undo of
  the one that comes second then deletes the key of the first, and its next
  round gets the lock (`MutualExclusion`, `FailureIsClean` and `ImplementsLease`
  fail with `sameSeed`; only `LockReturns` is checked with it). With `lateDel` a
  delayed unlock of an earlier round, which signs with the same value, removes
  the key of a later round; with `restart` a server forgets a key
  (`MutualExclusion`). An `aextend` measures no time and may answer True for a
  key that expired while it asked the other servers; `ExtendKeepsLock` is about
  those that took less than the ttl.
* Codes. With three calls at once more messages go out than `QuotaKept` allows
  for two: with one message a day `n` calls send `n`, with two three calls send 9
  (TLC reaches these and no more with up to four callers), which suggests
  `C(n + Total, n) - 1`; section 6 says why it is not stated. A call cut off
  between SET and EXPIRE leaves a key without expiry: at 0 tokens the number is
  blocked for good. `TokenExpires` and `QuotaReturns` excuse that (`cut`).
* Views. ha.py:1304 says rooms with a free place come third in the order
  ("第三优先返回车队有空位的房间"); the code sorts by the number of users in the queue,
  whatever the capacity, so a large room with places left may come after a small
  full one. Users who move during the call may be shown in two rooms or twice,
  or in none. Of two users in one cell (`room_stale_seat`) the grid shows the
  later of the list only, and the 101st user online or the 11th of the queue is
  not listed: `SeatedAreShown` promises no more. An `IndexError` leaves the
  later rooms of the page without grids, and the answer is not done; that
  happens to a room whose first assistant is still to be written, or which got
  fewer cells while users sat in the others. A list that fails counts as an
  empty one.
* Startup. Two starts that meet may lose an assistant or add one twice, and so
  may one that reads an old list (`AssistantsComplete` is about starts that read
  what was there and met no other). While a worker starts, the room has no
  assistants for the others that serve (`QueueCanBeDrawn` waits for all to serve).
  Counters are off by what was committed between count and write
  (`RecountRepairs`). With a smaller definition drawn anew (`random.shuffle`)
  the users already in the queue may be more than it has places for; `QueueFits`
  only keeps others from following them.
* Accounts. A retry of `init_user_account` after an update that did run draws
  another uid for the document in use. Two registrations may both insert. An
  online status that is set after the deletion inserts a document that is not
  deleted and has no uid (`NoRevival` names it). Two overlapping changes of the
  free plays, or one that read from a lagging secondary, lose one
  (`PlaysCounted` holds until then).
* Deliveries. `send_jpush` ends with `done = done`, False even for a push that
  was accepted. A game result whose insert was run and not answered is answered
  False whenever its caller repeats it. The second result of a user in one second
  is refused. A push allowed on one device may reach another.

## 8. Not modelled

* `get_user_profile`, `query_user_cnt`, chat, permissions, personal AI players,
  game accounts, personal results, invite codes: single statements or reads,
  whose interleavings add nothing to those of `UserAccount` and `Records`.
* Games, AI players and the list of raw rooms in `init_db`: upserts of the
  configuration by their id. Hosted rooms: the loop of installed rooms once
  more, with a fixed definition.
* HTTP middlewares and access tokens: each request is judged by its own headers,
  with no state that steps could leave wrong. One-time passwords: a hash of the
  time; the app does not call it.
* `close` of the Kafka producer, which waits for what the buffer still holds;
  the model lets it be delivered or fail at any time. The shutdown of the app is
  `Stop` and `Crash`.
* HTTP session, QR codes, RPC clients, logging, settings, Celery, deployment:
  wiring and pure I/O.
* Contents of messages and documents beyond what a property tells apart; logging
  and alarms; MongoDB's and Redis's own replication beyond what the code can see.
* How long anything takes, except in `Redlock`, where time is the matter.

## 9. Plan

Done: rooms first (the most state, the most actors), then the lock, codes,
startup, accounts, deliveries, views; proofs of all safety and action properties
of the runs; refinements for rooms and lock, proved.

What could come next:

1. Weaker hypotheses: `SeatExclusive` and `GameRoomImplemented` with failing
   reads where they do no harm; `LockExcludes` with a restart whose keys have
   expired by then (the delayed restart that Redis recommends).
2. `QuotaKept` for more than two calls at once, by model checking.
3. Chat (`ha.py` 995-1041), with the limit of its lists.
