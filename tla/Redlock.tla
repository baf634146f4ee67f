------------------------------ MODULE Redlock ------------------------------
(***************************************************************************)
(* The lock of infra/redlock: alock, aunlock and aextend of the coroutines *)
(* and processes that compete for one resource, over N independent Redis   *)
(* servers.  Each call visits the servers one by one; keys carry a time to *)
(* live; a call that cannot reach a majority in time undoes its keys and   *)
(* tries again.  Time is counted in ticks: what matters is how the time an *)
(* attempt takes, the validity handed to the caller and the lives of the   *)
(* keys compare.  The blocking lock, unlock and extend do the same steps.  *)
(***************************************************************************)
EXTENDS Integers, FiniteSets

CONSTANTS
    N,              \* number of Redis servers (1 in app.py)
    Client,         \* callers, each in one call at a time
    Val,            \* the random 22 characters that sign a lock
    None,           \* no value
    TTL,            \* the ttl argument, in ticks
    Drift,          \* int(ttl * 0.01) + 2, in ticks
    Skew,           \* how much too early a server may drop a key
    RetryCountConf, \* retry_count and retry_delay as given to init_instance,
    RetryDelayConf, \* in tenths; Unset when left out
    Unset,
    Ops,            \* which of "unlock", "extend", "crash" callers do
    Faults,         \* which of FaultKind may happen
    MaxLate         \* bound: delayed requests under way

(* "sameSeed": startup_event seeds the global generator with the current   *)
(* second, and every worker that starts in that second draws the same 22   *)
(* characters as the others.                                               *)
FaultKind ==
    {"lost", "unanswered", "lateSet", "lateDel", "restart", "sameSeed"}

ASSUME ConstantsAssumption ==
    /\ N \in Nat \ {0}
    /\ None \notin Val
    /\ TTL \in Nat /\ Drift \in Nat /\ Skew \in Nat
    /\ Skew <= Drift
    /\ Unset \notin Nat
    /\ RetryCountConf \in Nat \union {Unset}
    /\ RetryDelayConf \in Nat \union {Unset}
    /\ Ops \subseteq {"unlock", "extend", "crash"}
    /\ Faults \subseteq FaultKind
    /\ MaxLate \in Nat

Server == 1 .. N

Quorum == (N \div 2) + 1

(* init_instance hands retry_count and retry_delay to the constructor by   *)
(* position, where async_mode comes first: the delay ends up as the count, *)
(* the count as the mode.  0 counts as not given.                          *)
RetryCount ==
    IF RetryDelayConf \in {Unset, 0} THEN 30 ELSE RetryDelayConf

VARIABLES
    key,    \* key[s]: the value server s holds for the resource, or None
    left,   \* left[s]: ticks until it expires
    late,   \* requests a client gave up on and a server will still run
    pc,     \* where each client is
    val,    \* val[c]: the value of its call, or None
    at,     \* at[c]: the server it turns to next
    ok,     \* ok[c]: servers that said yes in this round
    age,    \* age[c]: ticks since the round began
    retry,  \* retry[c]: rounds that failed
    owned,  \* owned[c]: servers its lock rests on
    hold    \* hold[c]: ticks for which it may still rely on its lock

servers == <<key, left>>
vars == <<key, left, late, pc, val, at, ok, age, retry, owned, hold>>

Pc == {"idle", "lock", "undo", "sleep", "held", "unlock", "extend"}

Init ==
    /\ key = [s \in Server |-> None]
    /\ left = [s \in Server |-> 0]
    /\ late = {}
    /\ pc = [c \in Client |-> "idle"]
    /\ val = [c \in Client |-> None]
    /\ at = [c \in Client |-> 1]
    /\ ok = [c \in Client |-> {}]
    /\ age = [c \in Client |-> 0]
    /\ retry = [c \in Client |-> 0]
    /\ owned = [c \in Client |-> {}]
    /\ hold = [c \in Client |-> 0]

Used(v) ==
    \/ \E s \in Server : key[s] = v
    \/ \E c \in Client : val[c] = v
    \/ \E m \in late : m.val = v

(* The next visit begins with the first server. *)
Round(c) ==
    /\ at' = [at EXCEPT ![c] = 1]
    /\ ok' = [ok EXCEPT ![c] = {}]
    /\ age' = [age EXCEPT ![c] = 0]

Idle(c) ==
    /\ pc' = [pc EXCEPT ![c] = "idle"]
    /\ val' = [val EXCEPT ![c] = None]
    /\ at' = [at EXCEPT ![c] = 1]
    /\ ok' = [ok EXCEPT ![c] = {}]
    /\ age' = [age EXCEPT ![c] = 0]
    /\ retry' = [retry EXCEPT ![c] = 0]
    /\ owned' = [owned EXCEPT ![c] = {}]
    /\ hold' = [hold EXCEPT ![c] = 0]

Visiting(c, where) == pc[c] \in where /\ at[c] \in Server

Visited(c, where) == pc[c] \in where /\ at[c] > N

Advance(c) == at' = [at EXCEPT ![c] = @ + 1]

-----------------------------------------------------------------------------
(* alock                                                                   *)

(* The value is new, unless another process draws from the same seed. *)
Lock(c, v) ==
    /\ pc[c] = "idle"
    /\ ~Used(v) \/ "sameSeed" \in Faults
    /\ val' = [val EXCEPT ![c] = v]
    /\ pc' = [pc EXCEPT ![c] = "lock"]
    /\ Round(c)
    /\ UNCHANGED <<servers, late, retry, owned, hold>>

(* SET resource val NX PX ttl *)
SetKey(s, v) ==
    IF key[s] = None
    THEN /\ key' = [key EXCEPT ![s] = v]
         /\ left' = [left EXCEPT ![s] = TTL]
    ELSE UNCHANGED servers

Set(c) ==
    /\ Visiting(c, {"lock"})
    /\ SetKey(at[c], val[c])
    /\ ok' = [ok EXCEPT ![c] = IF key[at[c]] = None THEN @ \union {at[c]} ELSE @]
    /\ Advance(c)
    /\ UNCHANGED <<late, pc, val, age, retry, owned, hold>>

(* The command raises a RedisError: it never arrived, ... *)
SetLost(c) ==
    /\ "lost" \in Faults
    /\ Visiting(c, {"lock"})
    /\ Advance(c)
    /\ UNCHANGED <<servers, late, pc, val, ok, age, retry, owned, hold>>

(* ... or was run and only the answer got lost, ... *)
SetUnanswered(c) ==
    /\ "unanswered" \in Faults
    /\ Visiting(c, {"lock"})
    /\ SetKey(at[c], val[c])
    /\ Advance(c)
    /\ UNCHANGED <<late, pc, val, ok, age, retry, owned, hold>>

(* ... or the server gets to it after the client has stopped waiting. *)
Delay(c, op) ==
    /\ Cardinality(late) < MaxLate
    /\ late' = late \union {[op |-> op, server |-> at[c], val |-> val[c]]}
    /\ Advance(c)
    /\ UNCHANGED <<servers, pc, val, ok, age, retry, owned, hold>>

SetLate(c) ==
    /\ "lateSet" \in Faults
    /\ Visiting(c, {"lock"})
    /\ Delay(c, "set")

Validity(c) == TTL - age[c] - Drift

(* Mutant: half of the servers are enough. *)
MajorityOfHalf(c) == Cardinality(ok[c]) >= N \div 2

Majority(c) == Cardinality(ok[c]) >= Quorum

(* Mutant: a majority is enough, however long the round took. *)
LockDoneLate(c) ==
    /\ Visited(c, {"lock"})
    /\ Majority(c)
    /\ pc' = [pc EXCEPT ![c] = "held"]
    /\ owned' = [owned EXCEPT ![c] = ok[c]]
    /\ hold' = [hold EXCEPT ![c] = Validity(c)]
    /\ Round(c)
    /\ UNCHANGED <<servers, late, val, retry>>

LockDone(c) ==
    /\ Visited(c, {"lock"})
    /\ Validity(c) > 0 /\ Majority(c)
    /\ pc' = [pc EXCEPT ![c] = "held"]
    /\ owned' = [owned EXCEPT ![c] = ok[c]]
    /\ hold' = [hold EXCEPT ![c] = Validity(c)]
    /\ Round(c)
    /\ UNCHANGED <<servers, late, val, retry>>

LockFails(c) ==
    /\ Visited(c, {"lock"})
    /\ Validity(c) <= 0 \/ ~Majority(c)
    /\ pc' = [pc EXCEPT ![c] = "undo"]
    /\ at' = [at EXCEPT ![c] = 1]
    /\ age' = [age EXCEPT ![c] = 0]
    /\ UNCHANGED <<servers, late, val, ok, retry, owned, hold>>

Drop(s) ==
    /\ key' = [key EXCEPT ![s] = None]
    /\ left' = [left EXCEPT ![s] = 0]

(* Mutant: only the servers that are known to hold the key are asked. *)
DeleteKnown(c) ==
    /\ Visiting(c, {"undo", "unlock"})
    /\ IF key[at[c]] = val[c] /\ at[c] \in ok[c]
       THEN Drop(at[c]) ELSE UNCHANGED servers
    /\ Advance(c)
    /\ UNCHANGED <<late, pc, val, ok, age, retry, owned, hold>>

(* The unlock script, on behalf of a failed alock or of aunlock: the key   *)
(* goes only if it carries the caller's value.                             *)
Delete(c) ==
    /\ Visiting(c, {"undo", "unlock"})
    /\ IF key[at[c]] = val[c] THEN Drop(at[c]) ELSE UNCHANGED servers
    /\ Advance(c)
    /\ UNCHANGED <<late, pc, val, ok, age, retry, owned, hold>>

DeleteLost(c) ==
    /\ "lost" \in Faults
    /\ Visiting(c, {"undo", "unlock"})
    /\ Advance(c)
    /\ UNCHANGED <<servers, late, pc, val, ok, age, retry, owned, hold>>

DeleteLate(c) ==
    /\ "lateDel" \in Faults
    /\ Visiting(c, {"undo", "unlock"})
    /\ Delay(c, "del")

(* Mutant: the failed rounds are not counted. *)
UndoneRetryUncounted(c) ==
    /\ Visited(c, {"undo"})
    /\ 10 * (retry[c] + 1) < RetryCount
    /\ pc' = [pc EXCEPT ![c] = "sleep"]
    /\ Round(c)
    /\ UNCHANGED <<servers, late, val, retry, owned, hold>>

(* retry += 1; another round follows while retry < retry_count. *)
UndoneRetry(c) ==
    /\ Visited(c, {"undo"})
    /\ 10 * (retry[c] + 1) < RetryCount
    /\ retry' = [retry EXCEPT ![c] = @ + 1]
    /\ pc' = [pc EXCEPT ![c] = "sleep"]
    /\ Round(c)
    /\ UNCHANGED <<servers, late, val, owned, hold>>

(* The next round signs with the same value. *)
Wake(c) ==
    /\ pc[c] = "sleep"
    /\ pc' = [pc EXCEPT ![c] = "lock"]
    /\ UNCHANGED <<servers, late, val, at, ok, age, retry, owned, hold>>

(* alock returns (False, None). *)
GiveUp(c) ==
    /\ Visited(c, {"undo"})
    /\ 10 * (retry[c] + 1) >= RetryCount
    /\ Idle(c)
    /\ UNCHANGED <<servers, late>>

-----------------------------------------------------------------------------
(* aunlock, aextend                                                        *)

Unlock(c) ==
    /\ "unlock" \in Ops
    /\ pc[c] = "held"
    /\ pc' = [pc EXCEPT ![c] = "unlock"]
    /\ at' = [at EXCEPT ![c] = 1]
    /\ hold' = [hold EXCEPT ![c] = 0]
    /\ owned' = [owned EXCEPT ![c] = {}]
    /\ UNCHANGED <<servers, late, val, ok, age, retry>>

UnlockDone(c) ==
    /\ Visited(c, {"unlock"})
    /\ Idle(c)
    /\ UNCHANGED <<servers, late>>

Extend(c) ==
    /\ "extend" \in Ops
    /\ pc[c] = "held"
    /\ pc' = [pc EXCEPT ![c] = "extend"]
    /\ Round(c)
    /\ UNCHANGED <<servers, late, val, retry, owned, hold>>

(* Mutant: whatever the script answers counts as a yes. *)
ExtendAnyKey(c) ==
    LET s == at[c] IN
    /\ Visiting(c, {"extend"})
    /\ left' = IF key[s] = val[c] THEN [left EXCEPT ![s] = TTL] ELSE left
    /\ ok' = [ok EXCEPT ![c] = @ \union {s}]
    /\ Advance(c)
    /\ UNCHANGED <<key, late, pc, val, age, retry, owned, hold>>

(* The extend script: pexpire if the key carries the caller's value. *)
ExtendKey(c) ==
    LET s == at[c] IN
    /\ Visiting(c, {"extend"})
    /\ left' = IF key[s] = val[c] THEN [left EXCEPT ![s] = TTL] ELSE left
    /\ ok' = [ok EXCEPT ![c] = IF key[s] = val[c] THEN @ \union {s} ELSE @]
    /\ Advance(c)
    /\ UNCHANGED <<key, late, pc, val, age, retry, owned, hold>>

ExtendLost(c) ==
    /\ "lost" \in Faults
    /\ Visiting(c, {"extend"})
    /\ Advance(c)
    /\ UNCHANGED <<servers, late, pc, val, ok, age, retry, owned, hold>>

ExtendUnanswered(c) ==
    LET s == at[c] IN
    /\ "unanswered" \in Faults
    /\ Visiting(c, {"extend"})
    /\ left' = IF key[s] = val[c] THEN [left EXCEPT ![s] = TTL] ELSE left
    /\ Advance(c)
    /\ UNCHANGED <<key, late, pc, val, ok, age, retry, owned, hold>>

(* aextend returns whether a majority agreed, Majority(c), and nothing     *)
(* about time: the validity in the caller's Lock is the one of its alock.  *)
ExtendDone(c) ==
    /\ Visited(c, {"extend"})
    /\ pc' = [pc EXCEPT ![c] = "held"]
    /\ Round(c)
    /\ UNCHANGED <<servers, late, val, retry, owned, hold>>

(* The caller dies or is cancelled: its keys stay until they expire. *)
Crash(c) ==
    /\ "crash" \in Ops
    /\ pc[c] # "idle"
    /\ Idle(c)
    /\ UNCHANGED <<servers, late>>

-----------------------------------------------------------------------------
(* The servers and the clock                                               *)

LateArrives(m) ==
    /\ m \in late
    /\ late' = late \ {m}
    /\ IF m.op = "set"
       THEN SetKey(m.server, m.val)
       ELSE IF key[m.server] = m.val THEN Drop(m.server) ELSE UNCHANGED servers
    /\ UNCHANGED <<pc, val, at, ok, age, retry, owned, hold>>

(* A key is gone after its ttl, or up to Skew ticks earlier by a clock     *)
(* that runs fast.                                                         *)
Expire(s) ==
    /\ key[s] # None
    /\ left[s] <= Skew
    /\ Drop(s)
    /\ UNCHANGED <<late, pc, val, at, ok, age, retry, owned, hold>>

(* A server comes back without what it had not written to disk. *)
Restart(s) ==
    /\ "restart" \in Faults
    /\ key[s] # None
    /\ Drop(s)
    /\ UNCHANGED <<late, pc, val, at, ok, age, retry, owned, hold>>

Tick ==
    /\ \A s \in Server : key[s] # None => left[s] > 0
    /\ left' = [s \in Server |-> IF left[s] > 0 THEN left[s] - 1 ELSE 0]
    /\ age' = [c \in Client |->
                 IF pc[c] \in {"lock", "extend"} /\ age[c] < TTL
                 THEN age[c] + 1 ELSE age[c]]
    /\ hold' = [c \in Client |-> IF hold[c] > 0 THEN hold[c] - 1 ELSE 0]
    /\ UNCHANGED <<key, late, pc, val, at, ok, retry, owned>>

(* What a client does once it is in a call. *)
Progress(c) ==
    \/ Set(c) \/ LockDone(c) \/ LockFails(c)
    \/ Delete(c) \/ UndoneRetry(c) \/ Wake(c) \/ GiveUp(c)
    \/ UnlockDone(c)
    \/ ExtendKey(c) \/ ExtendDone(c)

Fault(c) ==
    \/ SetLost(c) \/ SetUnanswered(c) \/ SetLate(c)
    \/ DeleteLost(c) \/ DeleteLate(c)
    \/ ExtendLost(c) \/ ExtendUnanswered(c)

Next ==
    \/ \E c \in Client :
         \/ \E v \in Val : Lock(c, v)
         \/ Unlock(c) \/ Extend(c) \/ Crash(c)
         \/ Progress(c) \/ Fault(c)
    \/ \E m \in late : LateArrives(m)
    \/ \E s \in Server : Expire(s) \/ Restart(s)
    \/ Tick

Spec == Init /\ [][Next]_vars

(* Commands are answered or time out (socket_timeout), sleeps end, time    *)
(* passes and Redis drops what has expired.  No caller has to unlock.      *)
FairSpec ==
    /\ Spec
    /\ \A c \in Client : WF_vars(Progress(c))
    /\ \A s \in Server : WF_vars(Expire(s))
    /\ WF_vars(Tick)

-----------------------------------------------------------------------------
(* Types; a client without a call has no value and relies on nothing.      *)
TypeOK ==
    /\ key \in [Server -> Val \union {None}]
    /\ left \in [Server -> 0 .. TTL]
    /\ late \subseteq [op : {"set", "del"}, server : Server, val : Val]
    /\ pc \in [Client -> Pc]
    /\ val \in [Client -> Val \union {None}]
    /\ at \in [Client -> 1 .. N + 1]
    /\ ok \in [Client -> SUBSET Server]
    /\ age \in [Client -> 0 .. TTL]
    /\ retry \in [Client -> Nat]
    /\ owned \in [Client -> SUBSET Server]
    /\ hold \in [Client -> 0 .. TTL]
    /\ \A c \in Client : pc[c] = "idle" <=> val[c] = None

(* At most one caller is within the validity its alock gave it, although   *)
(* rounds of several callers overlap, time passes inside them, answers get *)
(* lost, callers die holding the lock and keys are extended: as long as    *)
(* no two callers sign with the same value.                                *)
MutualExclusion ==
    \A c, o \in Client : hold[c] > 0 /\ hold[o] > 0 => c = o

(* An aextend that returns True less than the ttl, by the drift, after it  *)
(* began has kept the lock: a majority carries the caller's key, and       *)
(* nobody else is within the validity of a lock of his own.  One that took *)
(* longer may return True for keys that have gone meanwhile.               *)
ExtendKeepsLock ==
    [][\A c \in Client :
          /\ pc[c] = "extend" /\ at[c] > N /\ pc'[c] = "held"
          /\ Majority(c) /\ Validity(c) > 0
          => /\ \E q \in SUBSET Server :
                  Cardinality(q) >= Quorum /\ \A s \in q : key[s] = val[c]
             /\ \A o \in Client \ {c} : hold[o] = 0]_vars

(* An alock that returns (False, None) leaves no key of its own behind,    *)
(* not even on a server whose answer it never saw: otherwise the resource  *)
(* stays blocked for everyone until the ttl is over.                       *)
FailureIsClean ==
    [][\A c \in Client :
          pc[c] = "undo" /\ at[c] > N /\ pc'[c] = "idle" =>
              \A s \in Server : key'[s] # val[c]]_vars

(* Every alock ends, with the lock or without it, however the others       *)
(* interfere: the number of rounds is bounded.                             *)
LockReturns == \A c \in Client : pc[c] = "lock" ~> pc[c] \in {"held", "idle"}

(* What a caller may rely on is a lease; what the drift takes from the ttl *)
(* is never granted.                                                       *)
Leases == INSTANCE Lease WITH lease <- hold, Longest <- TTL - Drift

(* The rounds over the servers implement the lease: whatever answer is     *)
(* lost and however slow a round is, a caller gets validity only while no  *)
(* other has any, and for no longer than the ttl less the drift; as        *)
(* MutualExclusion, this needs values no two callers share.                *)
ImplementsLease == Leases!Spec

-----------------------------------------------------------------------------
(* The inductive invariant behind the theorems of RedlockProofs.           *)

(* Every value is signed with by one caller. *)
ValuesDiffer == "sameSeed" \notin Faults

(* No server forgets a key and no delayed unlock is run. *)
KeysStay == Faults \intersect {"restart", "lateDel"} = {}

Reliable == ValuesDiffer /\ KeysStay

OwnValues ==
    \A c, o \in Client : c # o => val[c] = None \/ val[c] # val[o]

Rested == \A c \in Client : pc[c] = "sleep" => ok[c] = {}

(* While a lock is valid, a majority of servers keeps its key for longer   *)
(* than the validity, by the drift.                                        *)
Backed ==
    \A c \in Client : hold[c] > 0 =>
        /\ pc[c] \in {"held", "extend"}
        /\ Cardinality(owned[c]) >= Quorum
        /\ \A s \in owned[c] : key[s] = val[c] /\ left[s] >= hold[c] + Drift

(* The servers that said yes in a round that is not too old still hold the *)
(* key for the rest of a ttl counted from the start of the round.          *)
RoundIsSound ==
    \A c \in Client : pc[c] \in {"lock", "extend"} /\ TTL - age[c] > Skew =>
        \A s \in ok[c] : key[s] = val[c] /\ left[s] >= TTL - age[c]

RedlockInv ==
    /\ TypeOK
    /\ \A m \in late : m.op = "set"
    /\ OwnValues
    /\ Rested
    /\ Backed
    /\ RoundIsSound

=============================================================================
