---------------------------- MODULE RedlockProofs ----------------------------
(***************************************************************************)
(* Mutual exclusion of the lock, and that a failure leaves no key behind,  *)
(* for any number of servers and callers, any ttl and drift, and any retry *)
(* settings.                                                               *)
(***************************************************************************)
EXTENDS Redlock, TLAPS, FiniteSetTheorems

LEMMA Numbers ==
    /\ N \in Nat \ {0} /\ TTL \in Nat /\ Drift \in Nat /\ Skew \in Nat
    /\ Skew <= Drift
    /\ 1 \in 1 .. N + 1
    /\ \A s \in Server : s + 1 \in 1 .. N + 1
    /\ 0 \in 0 .. TTL /\ TTL \in 0 .. TTL
  BY ConstantsAssumption DEF Server

LEMMA OneLess == \A n \in 0 .. TTL : (IF n > 0 THEN n - 1 ELSE 0) \in 0 .. TTL
  BY Numbers

LEMMA Inits == Init => RedlockInv
<1> SUFFICES ASSUME Init PROVE RedlockInv  OBVIOUS
<1>1. TypeOK  BY Numbers DEF Init, TypeOK, Pc
<1>2. /\ \A m \in late : m.op = "set"
      /\ OwnValues /\ Rested /\ Backed /\ RoundIsSound
  BY DEF Init, OwnValues, Rested, Backed, RoundIsSound
<1>3. QED  BY <1>1, <1>2 DEF RedlockInv

-----------------------------------------------------------------------------
(* What the shared parts of the actions do to the types.                   *)

LEMMA RoundTypes ==
  ASSUME TypeOK, NEW c \in Client, Round(c)
  PROVE  /\ at' \in [Client -> 1 .. N + 1]
         /\ ok' \in [Client -> SUBSET Server]
         /\ age' \in [Client -> 0 .. TTL]
  BY Numbers DEF TypeOK, Round

LEMMA AdvanceTypes ==
  ASSUME TypeOK, NEW c \in Client, at[c] \in Server, Advance(c)
  PROVE  at' \in [Client -> 1 .. N + 1]
  BY Numbers DEF TypeOK, Advance

LEMMA IdleTypes ==
  ASSUME TypeOK, NEW c \in Client, Idle(c)
  PROVE  /\ pc' \in [Client -> Pc]
         /\ val' \in [Client -> Val \union {None}]
         /\ at' \in [Client -> 1 .. N + 1]
         /\ ok' \in [Client -> SUBSET Server]
         /\ age' \in [Client -> 0 .. TTL]
         /\ retry' \in [Client -> Nat]
         /\ owned' \in [Client -> SUBSET Server]
         /\ hold' \in [Client -> 0 .. TTL]
         /\ \A o \in Client : pc'[o] = "idle" <=> val'[o] = None
<1>1. /\ pc' \in [Client -> Pc] /\ val' \in [Client -> Val \union {None}]
      /\ \A o \in Client : pc'[o] = "idle" <=> val'[o] = None
  BY DEF TypeOK, Idle, Pc
<1>2. /\ at' \in [Client -> 1 .. N + 1]
      /\ ok' \in [Client -> SUBSET Server]
      /\ age' \in [Client -> 0 .. TTL]
  BY Numbers DEF TypeOK, Idle
<1>3. /\ retry' \in [Client -> Nat]
      /\ owned' \in [Client -> SUBSET Server]
      /\ hold' \in [Client -> 0 .. TTL]
  BY Numbers DEF TypeOK, Idle
<1>4. QED  BY <1>1, <1>2, <1>3

(* SET NX takes only a free server, the scripts only the caller's key. *)
LEMMA SetKeyTypes ==
  ASSUME TypeOK, NEW s \in Server, NEW v \in Val, SetKey(s, v)
  PROVE  /\ key' \in [Server -> Val \union {None}]
         /\ left' \in [Server -> 0 .. TTL]
         /\ \A t \in Server :
              key[t] # None => key'[t] = key[t] /\ left'[t] = left[t]
         /\ key[s] = None => key'[s] = v /\ left'[s] = TTL
  BY Numbers DEF TypeOK, SetKey, servers

LEMMA DropTypes ==
  ASSUME TypeOK, NEW s \in Server, Drop(s)
  PROVE  /\ key' \in [Server -> Val \union {None}]
         /\ left' \in [Server -> 0 .. TTL]
         /\ \A t \in Server : t # s => key'[t] = key[t] /\ left'[t] = left[t]
  BY Numbers DEF TypeOK, Drop

-----------------------------------------------------------------------------
LEMMA TypeNext == TypeOK /\ [Next]_vars => TypeOK'
<1> SUFFICES ASSUME TypeOK, [Next]_vars PROVE TypeOK'  OBVIOUS
<1>1. ASSUME NEW c \in Client, NEW v \in Val, Lock(c, v) PROVE TypeOK'
  <2>1. v # None  BY ConstantsAssumption
  <2>2. /\ pc' \in [Client -> Pc] /\ val' \in [Client -> Val \union {None}]
        /\ \A o \in Client : pc'[o] = "idle" <=> val'[o] = None
    BY <1>1, <2>1 DEF TypeOK, Lock, Pc
  <2>3. QED  BY <1>1, <2>2, RoundTypes DEF TypeOK, Lock, servers
<1>2. ASSUME NEW c \in Client, Unlock(c) PROVE TypeOK'
  <2>1. /\ pc' \in [Client -> Pc]
        /\ \A o \in Client : pc'[o] = "idle" <=> val'[o] = None
    BY <1>2 DEF TypeOK, Unlock, Pc
  <2>2. /\ at' \in [Client -> 1 .. N + 1]
        /\ hold' \in [Client -> 0 .. TTL]
        /\ owned' \in [Client -> SUBSET Server]
    BY <1>2, Numbers DEF TypeOK, Unlock
  <2>3. QED  BY <1>2, <2>1, <2>2 DEF TypeOK, Unlock, servers
<1>3. ASSUME NEW c \in Client, Extend(c) PROVE TypeOK'
  <2>1. /\ pc' \in [Client -> Pc]
        /\ \A o \in Client : pc'[o] = "idle" <=> val'[o] = None
    BY <1>3 DEF TypeOK, Extend, Pc
  <2>2. QED  BY <1>3, <2>1, RoundTypes DEF TypeOK, Extend, servers
<1>4. ASSUME NEW c \in Client, Crash(c) PROVE TypeOK'
  BY <1>4, IdleTypes DEF TypeOK, Crash, servers
<1>5. ASSUME NEW c \in Client, Progress(c) PROVE TypeOK'
  <2>1. CASE Set(c)
    <3>1. at[c] \in Server /\ pc[c] = "lock"  BY <2>1 DEF Set, Visiting
    <3>2. val[c] \in Val  BY <3>1 DEF TypeOK
    <3>3. ok' \in [Client -> SUBSET Server]  BY <2>1, <3>1 DEF TypeOK, Set
    <3>4. QED
      BY <2>1, <3>1, <3>2, <3>3, AdvanceTypes, SetKeyTypes DEF TypeOK, Set
  <2>2. CASE LockDone(c)
    <3>1. /\ pc' \in [Client -> Pc]
          /\ \A o \in Client : pc'[o] = "idle" <=> val'[o] = None
      BY <2>2 DEF TypeOK, LockDone, Visited, Pc
    <3>2. Validity(c) \in 0 .. TTL
      BY <2>2, Numbers DEF TypeOK, LockDone, Validity
    <3>3. /\ owned' \in [Client -> SUBSET Server]
          /\ hold' \in [Client -> 0 .. TTL]
      BY <2>2, <3>2 DEF TypeOK, LockDone
    <3>4. QED  BY <2>2, <3>1, <3>3, RoundTypes DEF TypeOK, LockDone, servers
  <2>3. CASE LockFails(c)
    <3>1. /\ pc' \in [Client -> Pc]
          /\ \A o \in Client : pc'[o] = "idle" <=> val'[o] = None
      BY <2>3 DEF TypeOK, LockFails, Visited, Pc
    <3>2. /\ at' \in [Client -> 1 .. N + 1]
          /\ age' \in [Client -> 0 .. TTL]
      BY <2>3, Numbers DEF TypeOK, LockFails
    <3>3. QED  BY <2>3, <3>1, <3>2 DEF TypeOK, LockFails, servers
  <2>4. CASE Delete(c)
    <3>1. at[c] \in Server  BY <2>4 DEF Delete, Visiting
    <3>2. QED
      BY <2>4, <3>1, AdvanceTypes, DropTypes DEF TypeOK, Delete, servers
  <2>5. CASE UndoneRetry(c)
    <3>1. /\ pc' \in [Client -> Pc]
          /\ \A o \in Client : pc'[o] = "idle" <=> val'[o] = None
      BY <2>5 DEF TypeOK, UndoneRetry, Visited, Pc
    <3>2. retry' \in [Client -> Nat]  BY <2>5 DEF TypeOK, UndoneRetry
    <3>3. QED  BY <2>5, <3>1, <3>2, RoundTypes DEF TypeOK, UndoneRetry, servers
  <2>6. CASE Wake(c)
    <3>1. /\ pc' \in [Client -> Pc]
          /\ \A o \in Client : pc'[o] = "idle" <=> val'[o] = None
      BY <2>6 DEF TypeOK, Wake, Pc
    <3>2. QED  BY <2>6, <3>1 DEF TypeOK, Wake, servers
  <2>7. CASE GiveUp(c) \/ UnlockDone(c)
    BY <2>7, IdleTypes DEF TypeOK, GiveUp, UnlockDone, servers
  <2>8. CASE ExtendKey(c)
    <3>1. at[c] \in Server  BY <2>8 DEF ExtendKey, Visiting
    <3>2. /\ left' \in [Server -> 0 .. TTL]
          /\ ok' \in [Client -> SUBSET Server]
      BY <2>8, <3>1, Numbers DEF TypeOK, ExtendKey
    <3>3. QED  BY <2>8, <3>1, <3>2, AdvanceTypes DEF TypeOK, ExtendKey
  <2>9. CASE ExtendDone(c)
    <3>1. /\ pc' \in [Client -> Pc]
          /\ \A o \in Client : pc'[o] = "idle" <=> val'[o] = None
      BY <2>9 DEF TypeOK, ExtendDone, Visited, Pc
    <3>2. QED  BY <2>9, <3>1, RoundTypes DEF TypeOK, ExtendDone, servers
  <2>10. QED
    BY <1>5, <2>1, <2>2, <2>3, <2>4, <2>5, <2>6, <2>7, <2>8, <2>9 DEF Progress
<1>6. ASSUME NEW c \in Client, Fault(c) PROVE TypeOK'
  <2>1. CASE SetLost(c) \/ DeleteLost(c) \/ ExtendLost(c)
    BY <2>1, AdvanceTypes
    DEF TypeOK, SetLost, DeleteLost, ExtendLost, Visiting, servers
  <2>2. CASE SetUnanswered(c)
    <3>1. at[c] \in Server /\ pc[c] = "lock"
      BY <2>2 DEF SetUnanswered, Visiting
    <3>2. val[c] \in Val  BY <3>1 DEF TypeOK
    <3>3. QED
      BY <2>2, <3>1, <3>2, AdvanceTypes, SetKeyTypes DEF TypeOK, SetUnanswered
  <2>3. CASE SetLate(c) \/ DeleteLate(c)
    <3>1. at[c] \in Server /\ pc[c] # "idle"
      BY <2>3 DEF SetLate, DeleteLate, Visiting
    <3>2. val[c] \in Val  BY <3>1 DEF TypeOK
    <3>3. late' \subseteq [op : {"set", "del"}, server : Server, val : Val]
      BY <2>3, <3>1, <3>2 DEF TypeOK, SetLate, DeleteLate, Delay
    <3>4. QED
      BY <2>3, <3>1, <3>3, AdvanceTypes
      DEF TypeOK, SetLate, DeleteLate, Delay, servers
  <2>4. CASE ExtendUnanswered(c)
    <3>1. at[c] \in Server  BY <2>4 DEF ExtendUnanswered, Visiting
    <3>2. left' \in [Server -> 0 .. TTL]
      BY <2>4, <3>1, Numbers DEF TypeOK, ExtendUnanswered
    <3>3. QED  BY <2>4, <3>1, <3>2, AdvanceTypes DEF TypeOK, ExtendUnanswered
  <2>5. QED  BY <1>6, <2>1, <2>2, <2>3, <2>4 DEF Fault
<1>7. ASSUME NEW m \in late, LateArrives(m) PROVE TypeOK'
  <2>1. m.server \in Server /\ m.val \in Val  BY <1>7 DEF TypeOK
  <2>2. QED
    BY <1>7, <2>1, SetKeyTypes, DropTypes DEF TypeOK, LateArrives, servers
<1>8. ASSUME NEW s \in Server, Expire(s) \/ Restart(s) PROVE TypeOK'
  BY <1>8, DropTypes DEF TypeOK, Expire, Restart
<1>9. CASE Tick
  <2>1. left' \in [Server -> 0 .. TTL]  BY <1>9, OneLess DEF TypeOK, Tick
  <2>2. age' \in [Client -> 0 .. TTL]  BY <1>9, Numbers DEF TypeOK, Tick
  <2>3. hold' \in [Client -> 0 .. TTL]  BY <1>9, OneLess DEF TypeOK, Tick
  <2>4. QED  BY <1>9, <2>1, <2>2, <2>3 DEF TypeOK, Tick
<1>10. CASE UNCHANGED vars  BY <1>10 DEF TypeOK, vars, servers
<1>11. QED
  BY <1>1, <1>2, <1>3, <1>4, <1>5, <1>6, <1>7, <1>8, <1>9, <1>10 DEF Next

(* The types, and that a caller without a call has no value, hold whatever *)
(* fails.                                                                  *)
THEOREM TypeCorrect == Spec => []TypeOK
<1>1. Init => TypeOK  BY Inits DEF RedlockInv
<1>2. QED  BY <1>1, TypeNext, PTL DEF Spec

-----------------------------------------------------------------------------
(* Steps that leave what a lock rests on alone keep the invariant.         *)

(* Client c works on the servers or goes on; nobody else's variables       *)
(* change.                                                                 *)
Others(c) ==
    \A o \in Client \ {c} :
        /\ pc'[o] = pc[o] /\ val'[o] = val[o] /\ ok'[o] = ok[o]
        /\ age'[o] = age[o] /\ owned'[o] = owned[o] /\ hold'[o] = hold[o]

(* A server that holds a key still does, and no shorter. *)
Kept(s) == key[s] # None => key'[s] = key[s] /\ left'[s] >= left[s]

LEMMA KeptByOthers ==
  ASSUME RedlockInv, TypeOK', NEW c \in Client, Others(c),
         \A s \in Server : Kept(s) \/ key[s] = val[c],
         NEW o \in Client \ {c}
  PROVE  /\ hold'[o] > 0 =>
              /\ pc'[o] \in {"held", "extend"}
              /\ Cardinality(owned'[o]) >= Quorum
              /\ \A s \in owned'[o] :
                   key'[s] = val'[o] /\ left'[s] >= hold'[o] + Drift
         /\ pc'[o] \in {"lock", "extend"} /\ TTL - age'[o] > Skew =>
              \A s \in ok'[o] :
                   key'[s] = val'[o] /\ left'[s] >= TTL - age'[o]
         /\ pc'[o] = "sleep" => ok'[o] = {}
<1>1. ASSUME NEW s \in Server, key[s] = val[o], val[o] # None
      PROVE  key'[s] = key[s] /\ left'[s] >= left[s]
  <2>1. val[c] # val[o]  BY <1>1 DEF RedlockInv, OwnValues
  <2>2. QED  BY <1>1, <2>1 DEF Kept
<1>2. /\ \A s \in Server : left[s] \in Nat /\ left'[s] \in Nat
      /\ hold[o] \in Nat /\ age[o] \in Nat
  BY DEF RedlockInv, TypeOK
<1>3. pc[o] # "idle" => val[o] # None  BY DEF RedlockInv, TypeOK
<1>4. owned[o] \subseteq Server /\ ok[o] \subseteq Server
  BY DEF RedlockInv, TypeOK
<1>5. /\ pc'[o] = pc[o] /\ val'[o] = val[o] /\ ok'[o] = ok[o]
      /\ age'[o] = age[o] /\ owned'[o] = owned[o] /\ hold'[o] = hold[o]
  BY DEF Others
<1>6. ASSUME hold[o] > 0
      PROVE  /\ pc[o] \in {"held", "extend"}
             /\ Cardinality(owned[o]) >= Quorum
             /\ \A s \in owned[o] :
                  key'[s] = val[o] /\ left'[s] >= hold[o] + Drift
  <2>1. /\ pc[o] \in {"held", "extend"}
        /\ Cardinality(owned[o]) >= Quorum
        /\ \A s \in owned[o] : key[s] = val[o] /\ left[s] >= hold[o] + Drift
    BY <1>6 DEF RedlockInv, Backed
  <2>2. val[o] # None  BY <2>1, <1>3
  <2>3. ASSUME NEW s \in owned[o]
        PROVE  key'[s] = val[o] /\ left'[s] >= hold[o] + Drift
    <3>1. s \in Server /\ key[s] = val[o] /\ left[s] >= hold[o] + Drift
      BY <2>1, <1>4
    <3>2. key'[s] = val[o] /\ left'[s] >= left[s]  BY <3>1, <2>2, <1>1
    <3>3. QED  BY <3>1, <3>2, <1>2, Numbers
  <2>4. QED  BY <2>1, <2>3
<1>7. ASSUME pc[o] \in {"lock", "extend"}, TTL - age[o] > Skew,
             NEW s \in ok[o]
      PROVE  key'[s] = val[o] /\ left'[s] >= TTL - age[o]
  <2>1. s \in Server /\ key[s] = val[o] /\ left[s] >= TTL - age[o]
    BY <1>7, <1>4 DEF RedlockInv, RoundIsSound
  <2>2. key'[s] = val[o] /\ left'[s] >= left[s]  BY <1>7, <2>1, <1>1, <1>3
  <2>3. QED  BY <2>1, <2>2, <1>2, Numbers
<1>8. pc[o] = "sleep" => ok[o] = {}  BY DEF RedlockInv, Rested
<1>9. QED  BY <1>5, <1>6, <1>7, <1>8

(* The same facts of c itself complete the invariant. *)
LEMMA StepOfOne ==
  ASSUME RedlockInv, TypeOK', NEW c \in Client, Others(c),
         \A s \in Server : Kept(s) \/ key[s] = val[c],
         \A m \in late' : m.op = "set",
         val'[c] = val[c] \/ val'[c] = None \/ ~Used(val'[c]),
         hold'[c] > 0 =>
              /\ pc'[c] \in {"held", "extend"}
              /\ Cardinality(owned'[c]) >= Quorum
              /\ \A s \in owned'[c] :
                   key'[s] = val'[c] /\ left'[s] >= hold'[c] + Drift,
         pc'[c] \in {"lock", "extend"} /\ TTL - age'[c] > Skew =>
              \A s \in ok'[c] :
                   key'[s] = val'[c] /\ left'[s] >= TTL - age'[c],
         pc'[c] = "sleep" => ok'[c] = {}
  PROVE  RedlockInv'
<1>1. OwnValues'
  <2>1. \A o \in Client \ {c} : val'[o] = val[o]  BY DEF Others
  <2>2. \A o \in Client \ {c} : val'[c] = None \/ val'[c] # val[o]
    BY DEF RedlockInv, OwnValues, Used
  <2>3. QED  BY <2>1, <2>2 DEF RedlockInv, OwnValues
<1>2. Backed'  BY KeptByOthers DEF Backed
<1>3. RoundIsSound'  BY KeptByOthers DEF RoundIsSound
<1>4. Rested'  BY KeptByOthers DEF Rested
<1>5. QED  BY <1>1, <1>2, <1>3, <1>4 DEF RedlockInv

-----------------------------------------------------------------------------
LEMMA InvNext == Reliable /\ RedlockInv /\ [Next]_vars => RedlockInv'
<1> SUFFICES ASSUME Reliable, RedlockInv, [Next]_vars PROVE RedlockInv'
  OBVIOUS
<1>1. TypeOK /\ TypeOK'  BY TypeNext DEF RedlockInv
<1>2. /\ \A s \in Server : left[s] \in Nat /\ left[s] <= TTL
      /\ \A s \in Server : left'[s] \in Nat /\ left'[s] <= TTL
      /\ \A c \in Client : hold[c] \in Nat /\ age[c] \in Nat
  BY <1>1, Numbers DEF TypeOK
<1>3. ASSUME NEW c \in Client, Idle(c), UNCHANGED <<servers, late>>
      PROVE  RedlockInv'
  <2>1. Others(c)  BY <1>1, <1>3 DEF TypeOK, Others, Idle
  <2>2. \A s \in Server : Kept(s)  BY <1>3, <1>2 DEF Kept, servers
  <2>3. /\ val'[c] = None /\ pc'[c] = "idle" /\ hold'[c] = 0
        /\ \A m \in late' : m.op = "set"
    BY <1>1, <1>3 DEF TypeOK, Idle, RedlockInv
  <2>4. QED  BY ONLY RedlockInv, <1>1, <2>1, <2>2, <2>3, StepOfOne
<1>4. ASSUME NEW c \in Client, NEW v \in Val, Lock(c, v) PROVE RedlockInv'
  <2>1. Others(c)  BY <1>1, <1>4 DEF TypeOK, Others, Lock, Round
  <2>2. \A s \in Server : Kept(s)  BY <1>4, <1>2 DEF Lock, Kept, servers
  <2>3. /\ ~Used(val'[c]) /\ pc'[c] = "lock" /\ ok'[c] = {}
        /\ hold'[c] = hold[c]
        /\ \A m \in late' : m.op = "set"
    BY <1>1, <1>4 DEF TypeOK, Lock, Round, RedlockInv, Reliable, ValuesDiffer
  <2>4. ~(hold[c] > 0)  BY <1>4 DEF Lock, RedlockInv, Backed
  <2>5. QED  BY <2>1, <2>2, <2>3, <2>4, <1>1, StepOfOne
<1>5. ASSUME NEW c \in Client, Unlock(c) PROVE RedlockInv'
  <2>1. Others(c)  BY <1>1, <1>5 DEF TypeOK, Others, Unlock
  <2>2. \A s \in Server : Kept(s)  BY <1>5, <1>2 DEF Unlock, Kept, servers
  <2>3. /\ val'[c] = val[c] /\ pc'[c] = "unlock" /\ hold'[c] = 0
        /\ \A m \in late' : m.op = "set"
    BY <1>1, <1>5 DEF TypeOK, Unlock, RedlockInv
  <2>4. QED  BY <2>1, <2>2, <2>3, <1>1, StepOfOne
<1>6. ASSUME NEW c \in Client, Extend(c) PROVE RedlockInv'
  <2>1. Others(c)  BY <1>1, <1>6 DEF TypeOK, Others, Extend, Round
  <2>2. \A s \in Server : Kept(s)  BY <1>6, <1>2 DEF Extend, Kept, servers
  <2>3. /\ val'[c] = val[c] /\ pc'[c] = "extend" /\ ok'[c] = {}
        /\ hold'[c] = hold[c] /\ owned'[c] = owned[c] /\ key' = key /\ left' = left
        /\ \A m \in late' : m.op = "set"
    BY <1>1, <1>6 DEF TypeOK, Extend, Round, RedlockInv, servers
  <2>4. QED  BY <2>1, <2>2, <2>3, <1>1, StepOfOne DEF RedlockInv, Backed
<1>7. ASSUME NEW c \in Client, Progress(c) PROVE RedlockInv'
  <2>1. CASE Set(c)
    <3>1. at[c] \in Server /\ pc[c] = "lock" /\ val[c] \in Val
      BY <2>1, <1>1 DEF Set, Visiting, TypeOK
    <3>2. /\ \A t \in Server :
               key[t] # None => key'[t] = key[t] /\ left'[t] = left[t]
          /\ key[at[c]] = None => key'[at[c]] = val[c] /\ left'[at[c]] = TTL
      BY <2>1, <3>1, <1>1, SetKeyTypes DEF Set
    <3>3. Others(c)  BY <1>1, <2>1 DEF TypeOK, Others, Set
    <3>4. \A s \in Server : Kept(s)  BY <3>2, <1>2 DEF Kept
    <3>5. /\ val'[c] = val[c] /\ pc'[c] = "lock" /\ hold'[c] = hold[c]
          /\ age'[c] = age[c]
          /\ ok'[c] = IF key[at[c]] = None THEN ok[c] \union {at[c]} ELSE ok[c]
          /\ \A m \in late' : m.op = "set"
      BY <1>1, <2>1, <3>1 DEF TypeOK, Set, RedlockInv
    <3>6. ~(hold[c] > 0)  BY <3>1 DEF RedlockInv, Backed
    <3>7. ASSUME TTL - age[c] > Skew, NEW s \in ok'[c]
          PROVE  key'[s] = val[c] /\ left'[s] >= TTL - age[c]
      <4>1. CASE s \in ok[c]
        <5>1. s \in Server /\ key[s] = val[c] /\ left[s] >= TTL - age[c]
          BY <3>1, <3>7, <4>1, <1>1 DEF RedlockInv, RoundIsSound, TypeOK
        <5>2. key[s] # None  BY <5>1, <3>1, ConstantsAssumption
        <5>3. QED  BY <5>1, <5>2, <3>2
      <4>2. CASE s \notin ok[c]
        BY <4>2, <3>1, <3>2, <3>5, <3>7, <1>2, Numbers
      <4>3. QED  BY <4>1, <4>2
    <3>8. QED  BY <3>3, <3>4, <3>5, <3>6, <3>7, <1>1, StepOfOne
  <2>2. CASE LockDone(c)
    <3>1. /\ pc[c] = "lock" /\ Validity(c) > 0
          /\ Cardinality(ok[c]) >= Quorum
      BY <2>2 DEF LockDone, Visited, Majority
    <3>2. Others(c)  BY <1>1, <2>2 DEF TypeOK, Others, LockDone, Round
    <3>3. \A s \in Server : Kept(s)  BY <2>2, <1>2 DEF LockDone, Kept, servers
    <3>4. /\ val'[c] = val[c] /\ pc'[c] = "held" /\ hold'[c] = Validity(c)
          /\ owned'[c] = ok[c] /\ ok'[c] = {}
          /\ key' = key /\ left' = left
          /\ \A m \in late' : m.op = "set"
      BY <1>1, <2>2 DEF TypeOK, LockDone, Round, RedlockInv, servers
    <3>5. TTL - age[c] > Skew /\ TTL - age[c] = Validity(c) + Drift
      BY <3>1, <1>2, Numbers DEF Validity
    <3>6. \A s \in ok[c] : key[s] = val[c] /\ left[s] >= Validity(c) + Drift
      BY <3>1, <3>5 DEF RedlockInv, RoundIsSound
    <3>7. QED  BY <3>1, <3>2, <3>3, <3>4, <3>6, <1>1, StepOfOne
  <2>3. CASE LockFails(c)
    <3>1. Others(c)  BY <1>1, <2>3 DEF TypeOK, Others, LockFails
    <3>2. \A s \in Server : Kept(s)  BY <2>3, <1>2 DEF LockFails, Kept, servers
    <3>3. /\ val'[c] = val[c] /\ pc[c] = "lock" /\ pc'[c] = "undo"
          /\ hold'[c] = hold[c]
          /\ \A m \in late' : m.op = "set"
      BY <1>1, <2>3 DEF TypeOK, LockFails, Visited, RedlockInv
    <3>4. ~(hold[c] > 0)  BY <3>3 DEF RedlockInv, Backed
    <3>5. QED  BY <3>1, <3>2, <3>3, <3>4, <1>1, StepOfOne
  <2>4. CASE Delete(c)
    <3>1. at[c] \in Server /\ pc[c] \in {"undo", "unlock"}
      BY <2>4 DEF Delete, Visiting
    <3>2. Others(c)  BY <1>1, <2>4 DEF TypeOK, Others, Delete
    <3>3. \A s \in Server : Kept(s) \/ key[s] = val[c]
      BY <2>4, <3>1, <1>1, <1>2, DropTypes DEF Delete, Kept, servers
    <3>4. /\ val'[c] = val[c] /\ pc'[c] = pc[c] /\ hold'[c] = hold[c]
          /\ \A m \in late' : m.op = "set"
      BY <1>1, <2>4 DEF TypeOK, Delete, RedlockInv
    <3>5. ~(hold[c] > 0)  BY <3>1 DEF RedlockInv, Backed
    <3>6. QED  BY <3>1, <3>2, <3>3, <3>4, <3>5, <1>1, StepOfOne
  <2>5. CASE UndoneRetry(c)
    <3>1. Others(c)  BY <1>1, <2>5 DEF TypeOK, Others, UndoneRetry, Round
    <3>2. \A s \in Server : Kept(s)  BY <2>5, <1>2 DEF UndoneRetry, Kept, servers
    <3>3. /\ val'[c] = val[c] /\ pc[c] = "undo" /\ pc'[c] = "sleep"
          /\ hold'[c] = hold[c] /\ ok'[c] = {}
          /\ \A m \in late' : m.op = "set"
      BY <1>1, <2>5 DEF TypeOK, UndoneRetry, Visited, Round, RedlockInv
    <3>4. ~(hold[c] > 0)  BY <3>3 DEF RedlockInv, Backed
    <3>5. QED  BY <3>1, <3>2, <3>3, <3>4, <1>1, StepOfOne
  <2>6. CASE Wake(c)
    <3>1. Others(c)  BY <1>1, <2>6 DEF TypeOK, Others, Wake
    <3>2. \A s \in Server : Kept(s)  BY <2>6, <1>2 DEF Wake, Kept, servers
    <3>3. /\ val'[c] = val[c] /\ pc[c] = "sleep" /\ pc'[c] = "lock"
          /\ hold'[c] = hold[c] /\ ok'[c] = ok[c]
          /\ \A m \in late' : m.op = "set"
      BY <1>1, <2>6 DEF TypeOK, Wake, RedlockInv
    <3>4. ~(hold[c] > 0) /\ ok'[c] = {}  BY <3>3 DEF RedlockInv, Backed, Rested
    <3>5. QED  BY <3>1, <3>2, <3>3, <3>4, <1>1, StepOfOne
  <2>7. CASE GiveUp(c) \/ UnlockDone(c)
    BY <2>7, <1>3 DEF GiveUp, UnlockDone
  <2>8. CASE ExtendKey(c)
    <3>1. at[c] \in Server /\ pc[c] = "extend" /\ val[c] # None
      BY <2>8, <1>1 DEF ExtendKey, Visiting, TypeOK
    <3>2. /\ key' = key
          /\ \A s \in Server : s # at[c] => left'[s] = left[s]
          /\ left'[at[c]] = IF key[at[c]] = val[c] THEN TTL ELSE left[at[c]]
      BY <1>1, <2>8, <3>1 DEF TypeOK, ExtendKey
    <3>3. \A s \in Server : key'[s] = key[s] /\ left'[s] >= left[s]
      BY <3>2, <1>2, Numbers
    <3>4. Others(c)  BY <1>1, <2>8 DEF TypeOK, Others, ExtendKey
    <3>5. /\ val'[c] = val[c] /\ pc'[c] = "extend" /\ hold'[c] = hold[c]
          /\ age'[c] = age[c] /\ owned'[c] = owned[c]
          /\ ok'[c] = IF key[at[c]] = val[c] THEN ok[c] \union {at[c]} ELSE ok[c]
          /\ \A m \in late' : m.op = "set"
      BY <1>1, <2>8, <3>1 DEF TypeOK, ExtendKey, RedlockInv
    <3>6. ASSUME hold[c] > 0
          PROVE  /\ Cardinality(owned[c]) >= Quorum
                 /\ \A s \in owned[c] :
                      key'[s] = val[c] /\ left'[s] >= hold[c] + Drift
      <4>1. /\ Cardinality(owned[c]) >= Quorum /\ owned[c] \subseteq Server
            /\ \A s \in owned[c] : key[s] = val[c] /\ left[s] >= hold[c] + Drift
        BY <3>6, <1>1 DEF RedlockInv, Backed, TypeOK
      <4>2. ASSUME NEW s \in owned[c]
            PROVE  key'[s] = val[c] /\ left'[s] >= hold[c] + Drift
        <5>1. s \in Server /\ key[s] = val[c] /\ left[s] >= hold[c] + Drift
          BY <4>1
        <5>2. key'[s] = key[s] /\ left'[s] >= left[s]  BY <5>1, <3>3
        <5>3. QED  BY <5>1, <5>2, <1>2, Numbers
      <4>3. QED  BY <4>1, <4>2
    <3>7. ASSUME TTL - age[c] > Skew, NEW s \in ok'[c]
          PROVE  key'[s] = val[c] /\ left'[s] >= TTL - age[c]
      <4>1. CASE s \in ok[c]
        <5>1. s \in Server /\ key[s] = val[c] /\ left[s] >= TTL - age[c]
          BY <3>1, <3>7, <4>1, <1>1 DEF RedlockInv, RoundIsSound, TypeOK
        <5>2. key'[s] = key[s] /\ left'[s] >= left[s]  BY <5>1, <3>3
        <5>3. QED  BY <5>1, <5>2, <1>2, Numbers
      <4>2. CASE s \notin ok[c]
        BY <4>2, <3>1, <3>2, <3>5, <3>7, <1>2, Numbers
      <4>3. QED  BY <4>1, <4>2
    <3>8. \A s \in Server : Kept(s)  BY <3>3 DEF Kept
    <3>9. QED  BY <3>4, <3>5, <3>6, <3>7, <3>8, <1>1, StepOfOne
  <2>9. CASE ExtendDone(c)
    <3>1. pc[c] = "extend"  BY <2>9 DEF ExtendDone, Visited
    <3>2. Others(c)  BY <1>1, <2>9 DEF TypeOK, Others, ExtendDone, Round
    <3>3. \A s \in Server : Kept(s)  BY <2>9, <1>2 DEF ExtendDone, Kept, servers
    <3>4. /\ val'[c] = val[c] /\ pc'[c] = "held" /\ ok'[c] = {}
          /\ key' = key /\ left' = left
          /\ \A m \in late' : m.op = "set"
      BY <1>1, <2>9 DEF TypeOK, ExtendDone, Round, RedlockInv, servers
    <3>5. hold'[c] = hold[c] /\ owned'[c] = owned[c]  BY <2>9 DEF ExtendDone
    <3>6. QED
      BY <3>1, <3>2, <3>3, <3>4, <3>5, <1>1, StepOfOne DEF RedlockInv, Backed
  <2>10. QED
    BY <1>7, <2>1, <2>2, <2>3, <2>4, <2>5, <2>6, <2>7, <2>8, <2>9 DEF Progress
<1>8. ASSUME NEW c \in Client, Fault(c) PROVE RedlockInv'
  <2>1. ASSUME pc'[c] = pc[c], val'[c] = val[c], hold'[c] = hold[c],
               age'[c] = age[c], owned'[c] = owned[c], ok'[c] = ok[c],
               Others(c), \A s \in Server : Kept(s),
               \A m \in late' : m.op = "set", pc[c] # "idle"
        PROVE  RedlockInv'
    <3>1. /\ val[c] # None
          /\ \A s \in Server : key[s] = val[c] =>
                key'[s] = val[c] /\ left'[s] >= left[s]
      BY <2>1, <1>1 DEF Kept, TypeOK
    <3>2. ASSUME hold[c] > 0
          PROVE  /\ pc[c] \in {"held", "extend"}
                 /\ Cardinality(owned[c]) >= Quorum
                 /\ \A s \in owned[c] :
                      key'[s] = val[c] /\ left'[s] >= hold[c] + Drift
      <4>1. /\ pc[c] \in {"held", "extend"}
            /\ Cardinality(owned[c]) >= Quorum /\ owned[c] \subseteq Server
            /\ \A s \in owned[c] : key[s] = val[c] /\ left[s] >= hold[c] + Drift
        BY <3>2, <1>1 DEF RedlockInv, Backed, TypeOK
      <4>2. ASSUME NEW s \in owned[c]
            PROVE  key'[s] = val[c] /\ left'[s] >= hold[c] + Drift
        <5>1. s \in Server /\ key[s] = val[c] /\ left[s] >= hold[c] + Drift
          BY <4>1
        <5>2. key'[s] = val[c] /\ left'[s] >= left[s]  BY <5>1, <3>1
        <5>3. QED  BY <5>1, <5>2, <1>2, Numbers
      <4>3. QED  BY <4>1, <4>2
    <3>3. ASSUME pc[c] \in {"lock", "extend"}, TTL - age[c] > Skew, NEW s \in ok[c]
          PROVE  key'[s] = val[c] /\ left'[s] >= TTL - age[c]
      <4>1. s \in Server /\ key[s] = val[c] /\ left[s] >= TTL - age[c]
        BY <3>3, <1>1 DEF RedlockInv, RoundIsSound, TypeOK
      <4>2. key'[s] = val[c] /\ left'[s] >= left[s]  BY <4>1, <3>1
      <4>3. QED  BY <4>1, <4>2, <1>2, Numbers
    <3>4. pc[c] = "sleep" => ok[c] = {}  BY DEF RedlockInv, Rested
    <3>5. QED  BY <2>1, <3>2, <3>3, <3>4, <1>1, StepOfOne
  <2>2. CASE SetLost(c) \/ DeleteLost(c) \/ ExtendLost(c)
    <3>1. Others(c) /\ pc[c] # "idle"
      BY <2>2, <1>1 DEF TypeOK, Others, SetLost, DeleteLost, ExtendLost, Visiting
    <3>2. \A s \in Server : Kept(s)
      BY <2>2, <1>2 DEF SetLost, DeleteLost, ExtendLost, Kept, servers
    <3>3. \A m \in late' : m.op = "set"
      BY <2>2 DEF SetLost, DeleteLost, ExtendLost, RedlockInv
    <3>4. QED
      BY <2>1, <2>2, <3>1, <3>2, <3>3 DEF SetLost, DeleteLost, ExtendLost
  <2>3. CASE SetUnanswered(c)
    <3>1. at[c] \in Server /\ pc[c] = "lock" /\ val[c] \in Val
      BY <2>3, <1>1 DEF SetUnanswered, Visiting, TypeOK
    <3>2. \A s \in Server : Kept(s)
      BY <2>3, <3>1, <1>1, <1>2, SetKeyTypes DEF SetUnanswered, Kept
    <3>3. Others(c)  BY <2>3 DEF Others, SetUnanswered
    <3>4. \A m \in late' : m.op = "set"  BY <2>3 DEF SetUnanswered, RedlockInv
    <3>5. QED  BY <2>1, <2>3, <3>1, <3>2, <3>3, <3>4 DEF SetUnanswered
  <2>4. CASE SetLate(c)
    <3>1. Others(c) /\ pc[c] # "idle"
      BY <2>4, <1>1 DEF TypeOK, Others, SetLate, Delay, Visiting
    <3>2. \A s \in Server : Kept(s)  BY <2>4, <1>2 DEF SetLate, Delay, Kept, servers
    <3>3. \A m \in late' : m.op = "set"
      BY <2>4 DEF SetLate, Delay, RedlockInv
    <3>4. QED  BY <2>1, <2>4, <3>1, <3>2, <3>3 DEF SetLate, Delay
  <2>5. ~DeleteLate(c)  BY DEF DeleteLate, Reliable, KeysStay
  <2>6. CASE ExtendUnanswered(c)
    <3>1. at[c] \in Server /\ pc[c] = "extend"
      BY <2>6 DEF ExtendUnanswered, Visiting
    <3>2. \A s \in Server : key'[s] = key[s] /\ left'[s] >= left[s]
      <4>1. /\ key' = key
            /\ \A s \in Server : s # at[c] => left'[s] = left[s]
            /\ left'[at[c]] = IF key[at[c]] = val[c] THEN TTL ELSE left[at[c]]
        BY <1>1, <2>6, <3>1 DEF TypeOK, ExtendUnanswered
      <4>2. QED  BY <4>1, <1>2, Numbers
    <3>3. \A s \in Server : Kept(s)  BY <3>2 DEF Kept
    <3>4. Others(c)  BY <2>6 DEF Others, ExtendUnanswered
    <3>5. \A m \in late' : m.op = "set"
      BY <2>6 DEF ExtendUnanswered, RedlockInv
    <3>6. QED  BY <2>1, <2>6, <3>1, <3>3, <3>4, <3>5 DEF ExtendUnanswered
  <2>7. QED  BY <1>8, <2>2, <2>3, <2>4, <2>5, <2>6 DEF Fault
<1>9. ASSUME NEW c \in Client, Crash(c) PROVE RedlockInv'
  BY <1>9, <1>3 DEF Crash
(* A step of a server or of the clock: nobody's variables but the ages     *)
(* change.                                                                 *)
<1>10. ASSUME UNCHANGED <<pc, val, ok, owned>>,
              \A m \in late' : m.op = "set",
              \A c \in Client : hold'[c] <= hold[c],
              \A c \in Client, s \in Server :
                 /\ hold[c] > 0 /\ hold'[c] > 0 /\ s \in owned[c]
                      => key'[s] = val[c] /\ left'[s] >= hold'[c] + Drift
                 /\ pc[c] \in {"lock", "extend"} /\ s \in ok[c] /\ TTL - age'[c] > Skew
                      => key'[s] = val[c] /\ left'[s] >= TTL - age'[c]
       PROVE  RedlockInv'
  <2>1. \A c \in Client : hold'[c] > 0 => hold[c] > 0
    <3>1. \A c \in Client : hold[c] \in Nat /\ hold'[c] \in Nat
      BY <1>1 DEF TypeOK
    <3>2. QED  BY <3>1, <1>10
  <2>2. Backed'
    BY <1>10, <1>1, <2>1 DEF Backed, RedlockInv, TypeOK
  <2>3. RoundIsSound'  BY <1>10, <1>1 DEF RoundIsSound, TypeOK
  <2>4. OwnValues' /\ Rested'  BY <1>10 DEF OwnValues, Rested, RedlockInv
  <2>5. QED  BY <1>1, <1>10, <2>2, <2>3, <2>4 DEF RedlockInv
<1>11. \A c \in Client, s \in Server :
         /\ hold[c] > 0 /\ s \in owned[c] =>
              /\ key[s] = val[c] /\ key[s] # None
              /\ left[s] >= hold[c] + Drift /\ left[s] > Skew
         /\ pc[c] \in {"lock", "extend"} /\ s \in ok[c] /\ TTL - age[c] > Skew =>
              /\ key[s] = val[c] /\ key[s] # None
              /\ left[s] >= TTL - age[c] /\ left[s] > Skew
  <2> TAKE c \in Client, s \in Server
  <2>1. pc[c] # "idle" => val[c] # None  BY <1>1 DEF TypeOK
  <2>2. ASSUME hold[c] > 0, s \in owned[c]
        PROVE  /\ key[s] = val[c] /\ key[s] # None
               /\ left[s] >= hold[c] + Drift /\ left[s] > Skew
    <3>1. key[s] = val[c] /\ left[s] >= hold[c] + Drift /\ pc[c] # "idle"
      BY <2>2 DEF RedlockInv, Backed
    <3>2. QED  BY <2>1, <2>2, <3>1, <1>2, Numbers
  <2>3. ASSUME pc[c] \in {"lock", "extend"}, s \in ok[c], TTL - age[c] > Skew
        PROVE  /\ key[s] = val[c] /\ key[s] # None
               /\ left[s] >= TTL - age[c] /\ left[s] > Skew
    <3>1. key[s] = val[c] /\ left[s] >= TTL - age[c]
      BY <2>3 DEF RedlockInv, RoundIsSound
    <3>2. QED  BY <2>1, <2>3, <3>1, <1>2, Numbers
  <2>4. QED  BY <2>2, <2>3
<1>12. ASSUME NEW m \in late, LateArrives(m) PROVE RedlockInv'
  <2>1. m.op = "set" /\ m.server \in Server /\ m.val \in Val
    BY <1>1 DEF RedlockInv, TypeOK
  <2>2. \A s \in Server : key[s] # None => key'[s] = key[s] /\ left'[s] = left[s]
    BY <1>12, <2>1, <1>1, SetKeyTypes DEF LateArrives
  <2>3. /\ UNCHANGED <<pc, val, ok, owned, hold, age>>
        /\ \A x \in late' : x.op = "set"
    BY <1>12 DEF LateArrives, RedlockInv
  <2>4. \A c \in Client, s \in Server :
           /\ hold[c] > 0 /\ hold'[c] > 0 /\ s \in owned[c]
                => key'[s] = val[c] /\ left'[s] >= hold'[c] + Drift
           /\ pc[c] \in {"lock", "extend"} /\ s \in ok[c] /\ TTL - age'[c] > Skew
                => key'[s] = val[c] /\ left'[s] >= TTL - age'[c]
    BY <2>2, <2>3, <1>11
  <2>5. \A c \in Client : hold'[c] <= hold[c]  BY <2>3, <1>2
  <2>6. QED  BY <2>3, <2>4, <2>5, <1>10
<1>13. ASSUME NEW s \in Server, Expire(s) PROVE RedlockInv'
  <2>1. /\ left[s] <= Skew
        /\ \A t \in Server : t # s => key'[t] = key[t] /\ left'[t] = left[t]
    BY <1>13, <1>1, DropTypes DEF Expire
  <2>2. /\ UNCHANGED <<pc, val, ok, owned, hold, age>>
        /\ \A x \in late' : x.op = "set"
    BY <1>13 DEF Expire, RedlockInv
  <2>3. ~(left[s] > Skew)  BY <2>1, <1>2, Numbers
  <2>4. \A c \in Client, t \in Server :
           /\ hold[c] > 0 /\ hold'[c] > 0 /\ t \in owned[c]
                => key'[t] = val[c] /\ left'[t] >= hold'[c] + Drift
           /\ pc[c] \in {"lock", "extend"} /\ t \in ok[c] /\ TTL - age'[c] > Skew
                => key'[t] = val[c] /\ left'[t] >= TTL - age'[c]
    BY <2>1, <2>2, <2>3, <1>11
  <2>5. \A c \in Client : hold'[c] <= hold[c]  BY <2>2, <1>2
  <2>6. QED  BY <2>2, <2>4, <2>5, <1>10
<1>14. \A s \in Server : ~Restart(s)  BY DEF Restart, Reliable, KeysStay
<1>15. CASE Tick
  <2>1. /\ UNCHANGED <<key, pc, val, ok, owned>>
        /\ \A x \in late' : x.op = "set"
    BY <1>15 DEF Tick, RedlockInv
  <2>2. /\ \A s \in Server : left'[s] = IF left[s] > 0 THEN left[s] - 1 ELSE 0
        /\ \A c \in Client : hold'[c] = IF hold[c] > 0 THEN hold[c] - 1 ELSE 0
        /\ \A c \in Client :
             age'[c] = IF pc[c] \in {"lock", "extend"} /\ age[c] < TTL
                       THEN age[c] + 1 ELSE age[c]
    BY <1>15 DEF Tick
  <2>3. ASSUME NEW c \in Client, NEW s \in Server,
               hold[c] > 0, hold'[c] > 0, s \in owned[c]
        PROVE  key'[s] = val[c] /\ left'[s] >= hold'[c] + Drift
    BY <2>1, <2>2, <2>3, <1>2, <1>11, Numbers
  <2>4. ASSUME NEW c \in Client, NEW s \in Server,
               pc[c] \in {"lock", "extend"}, s \in ok[c], TTL - age'[c] > Skew
        PROVE  key'[s] = val[c] /\ left'[s] >= TTL - age'[c]
    <3>1. age[c] < TTL /\ age'[c] = age[c] + 1
      BY <2>2, <2>4, <1>2, Numbers
    <3>2. TTL - age[c] > Skew  BY <3>1, <2>4, <1>2, Numbers
    <3>3. key[s] = val[c] /\ left[s] >= TTL - age[c] /\ left[s] > Skew
      BY <3>2, <2>4, <1>11
    <3>4. QED  BY <2>1, <2>2, <3>1, <3>3, <1>2, Numbers
  <2>5. \A c \in Client : hold'[c] <= hold[c]  BY <2>2, <1>2
  <2>6. \A c \in Client, s \in Server :
           /\ hold[c] > 0 /\ hold'[c] > 0 /\ s \in owned[c]
                => key'[s] = val[c] /\ left'[s] >= hold'[c] + Drift
           /\ pc[c] \in {"lock", "extend"} /\ s \in ok[c] /\ TTL - age'[c] > Skew
                => key'[s] = val[c] /\ left'[s] >= TTL - age'[c]
    BY <2>3, <2>4
  <2>7. QED  BY <2>1, <2>5, <2>6, <1>10
<1>16. CASE UNCHANGED vars
  <2>1. /\ UNCHANGED <<key, left, pc, val, ok, owned, hold, age>>
        /\ \A x \in late' : x.op = "set"
    BY <1>16 DEF vars, servers, RedlockInv
  <2>2. \A c \in Client, s \in Server :
           /\ hold[c] > 0 /\ hold'[c] > 0 /\ s \in owned[c]
                => key'[s] = val[c] /\ left'[s] >= hold'[c] + Drift
           /\ pc[c] \in {"lock", "extend"} /\ s \in ok[c] /\ TTL - age'[c] > Skew
                => key'[s] = val[c] /\ left'[s] >= TTL - age'[c]
    BY <2>1, <1>11
  <2>3. \A c \in Client : hold'[c] <= hold[c]  BY <2>1, <1>2
  <2>4. QED  BY <2>1, <2>2, <2>3, <1>10
<1>17. QED
  BY <1>4, <1>5, <1>6, <1>7, <1>8, <1>9, <1>12, <1>13, <1>14, <1>15, <1>16 DEF Next

-----------------------------------------------------------------------------
(* Two majorities of the servers have one in common, which carries the     *)
(* value of one client only.                                               *)
LEMMA OneMajority ==
  ASSUME TypeOK, OwnValues, NEW c \in Client, NEW o \in Client, c # o,
         pc[c] # "idle",
         NEW p \in SUBSET Server, NEW q \in SUBSET Server,
         Cardinality(p) >= Quorum, Cardinality(q) >= Quorum,
         \A s \in p : key[s] = val[c],
         \A s \in q : key[s] = val[o]
  PROVE  FALSE
<1>1. IsFiniteSet(Server) /\ Cardinality(Server) = N
  BY FS_Interval, Numbers DEF Server
<1>2. /\ IsFiniteSet(p) /\ IsFiniteSet(q)
      /\ Cardinality(p) \in Nat /\ Cardinality(q) \in Nat
  BY <1>1, FS_Subset, FS_CardinalityType
<1>3. Cardinality(p) + Cardinality(q) > Cardinality(Server)
  BY <1>1, <1>2, Numbers DEF Quorum
<1>4. p \cap q # {}
  BY <1>1, <1>3, FS_MajoritiesIntersect
<1>5. PICK s : s \in p /\ s \in q  BY <1>4
<1>6. val[c] = val[o]  BY <1>5
<1>7. QED  BY <1>6 DEF OwnValues, TypeOK

LEMMA Exclusion == RedlockInv => MutualExclusion
<1> SUFFICES ASSUME RedlockInv, NEW c \in Client, NEW o \in Client,
                    hold[c] > 0, hold[o] > 0, c # o
             PROVE  FALSE
  BY DEF MutualExclusion
<1>1. /\ Cardinality(owned[c]) >= Quorum /\ Cardinality(owned[o]) >= Quorum
      /\ owned[c] \subseteq Server /\ owned[o] \subseteq Server
      /\ \A s \in owned[c] : key[s] = val[c]
      /\ \A s \in owned[o] : key[s] = val[o]
      /\ pc[c] # "idle"
  BY DEF RedlockInv, Backed, TypeOK
<1>2. QED  BY <1>1, OneMajority DEF RedlockInv

(* The lock excludes: as long as no two callers sign with the same value,  *)
(* no server forgets a key and no delayed unlock is run, two callers never *)
(* rely on it at the same time, for any number of servers and callers, any *)
(* ttl and drift, although requests and answers are lost, SETs arrive      *)
(* late, callers die and clocks differ by up to the drift.  Nothing is     *)
(* assumed of the scheduling of the rounds.  The first of the three        *)
(* assumptions is the generator's, which each worker seeds with a second.  *)
THEOREM LockExcludes == ASSUME Reliable PROVE Spec => []MutualExclusion
<1>1. Init => RedlockInv  BY Inits
<1>2. RedlockInv /\ [Next]_vars => RedlockInv'  BY InvNext, Reliable
<1>3. RedlockInv => MutualExclusion  BY Exclusion
<1>4. QED  BY <1>1, <1>2, <1>3, PTL DEF Spec

(* An aextend that returns True in time has kept the lock, under the       *)
(* assumptions of LockExcludes.                                            *)
THEOREM ExtendKeeps == ASSUME Reliable PROVE Spec => ExtendKeepsLock
<1>1. Init => RedlockInv  BY Inits
<1>2. RedlockInv /\ [Next]_vars => RedlockInv'  BY InvNext, Reliable
<1>3. RedlockInv /\ [Next]_vars =>
        [\A c \in Client :
          /\ pc[c] = "extend" /\ at[c] > N /\ pc'[c] = "held"
          /\ Majority(c) /\ Validity(c) > 0
          => /\ \E q \in SUBSET Server :
                  Cardinality(q) >= Quorum /\ \A s \in q : key[s] = val[c]
             /\ \A o \in Client \ {c} : hold[o] = 0]_vars
  <2> SUFFICES ASSUME RedlockInv, NEW c \in Client, pc[c] = "extend",
                      Majority(c), Validity(c) > 0
               PROVE  /\ \E q \in SUBSET Server :
                           /\ Cardinality(q) >= Quorum
                           /\ \A s \in q : key[s] = val[c]
                      /\ \A o \in Client \ {c} : hold[o] = 0
    OBVIOUS
  <2>1. ok[c] \in SUBSET Server /\ age[c] \in Nat  BY DEF RedlockInv, TypeOK
  <2>2. TTL - age[c] > Skew  BY <2>1, Numbers DEF Validity
  <2>3. \A s \in ok[c] : key[s] = val[c]  BY <2>2 DEF RedlockInv, RoundIsSound
  <2>4. ASSUME NEW o \in Client \ {c}, hold[o] > 0 PROVE FALSE
    <3>1. /\ Cardinality(owned[o]) >= Quorum /\ owned[o] \in SUBSET Server
          /\ \A s \in owned[o] : key[s] = val[o]
      BY <2>4 DEF RedlockInv, Backed, TypeOK
    <3>2. QED
      BY <2>1, <2>3, <3>1, OneMajority DEF RedlockInv, Majority
  <2>5. \A o \in Client : hold[o] \in Nat  BY DEF RedlockInv, TypeOK
  <2>6. QED  BY <2>1, <2>3, <2>4, <2>5 DEF Majority
<1>4. QED  BY <1>1, <1>2, <1>3, PTL DEF Spec, ExtendKeepsLock

-----------------------------------------------------------------------------
(* A step of the rounds is one of the lease, or leaves the validities. *)
LEMMA LeaseNext ==
  ASSUME RedlockInv, RedlockInv', [Next]_vars
  PROVE  [Leases!Next]_hold
<1>1. /\ hold \in [Client -> 0 .. TTL] /\ hold' \in [Client -> 0 .. TTL]
      /\ MutualExclusion'
  <2>1. MutualExclusion'
    <3>1. RedlockInv' => MutualExclusion'  BY Exclusion, PTL
    <3>2. QED  BY <3>1
  <2>2. QED  BY <2>1 DEF RedlockInv, TypeOK
(* Who is given validity is the only one to have any. *)
<1>2. ASSUME NEW c \in Client, NEW n \in 1 .. TTL - Drift, hold[c] = 0,
             hold' = [hold EXCEPT ![c] = n]
      PROVE  Leases!Next
  <2>1. ASSUME NEW o \in Client, o # c PROVE hold[o] = 0
    <3>1. hold'[o] = hold[o] /\ hold'[c] > 0  BY <1>1, <1>2, <2>1, Numbers
    <3>2. ~(hold'[o] > 0)  BY <1>1, <3>1, <2>1 DEF MutualExclusion
    <3>3. QED  BY <1>1, <3>1, <3>2, Numbers
  <2>2. Leases!Grant(c, n)  BY <1>2, <2>1 DEF Leases!Grant
  <2>3. QED  BY <2>2 DEF Leases!Next
<1>3. ASSUME NEW c \in Client, hold' = [hold EXCEPT ![c] = 0]
      PROVE  Leases!Next
  BY <1>3 DEF Leases!Next, Leases!GiveBack
<1>4. ASSUME NEW c \in Client, LockDone(c) PROVE Leases!Next
  <2>1. pc[c] = "lock" /\ age[c] \in 0 .. TTL
    BY <1>4 DEF LockDone, Visited, RedlockInv, TypeOK
  <2>2. hold[c] = 0
    <3>1. ~(hold[c] > 0)  BY <2>1 DEF RedlockInv, Backed
    <3>2. QED  BY <3>1, <1>1, Numbers
  <2>3. Validity(c) \in 1 .. TTL - Drift
    BY <1>4, <2>1, Numbers DEF LockDone, Validity
  <2>4. QED  BY <1>2, <1>4, <2>2, <2>3 DEF LockDone
<1>5. ASSUME NEW c \in Client, ExtendDone(c) PROVE UNCHANGED hold
  BY <1>5 DEF ExtendDone
<1>6. ASSUME NEW c \in Client, Unlock(c) \/ UnlockDone(c) \/ GiveUp(c) \/ Crash(c)
      PROVE  Leases!Next
  BY <1>3, <1>6 DEF Unlock, UnlockDone, GiveUp, Crash, Idle
<1>7. ASSUME NEW c \in Client, Progress(c)
      PROVE  Leases!Next \/ UNCHANGED hold
  <2>1. CASE Set(c) \/ LockFails(c) \/ Delete(c) \/ UndoneRetry(c) \/ Wake(c)
             \/ ExtendKey(c)
    BY <2>1 DEF Set, LockFails, Delete, UndoneRetry, Wake, ExtendKey
  <2>2. QED  BY <1>4, <1>5, <1>6, <1>7, <2>1 DEF Progress
<1>8. ASSUME NEW c \in Client, Fault(c) PROVE UNCHANGED hold
  BY <1>8 DEF Fault, SetLost, SetUnanswered, SetLate, DeleteLost, DeleteLate,
              ExtendLost, ExtendUnanswered, Delay
<1>9. ASSUME NEW c \in Client, Extend(c) \/ \E v \in Val : Lock(c, v)
      PROVE  UNCHANGED hold
  BY <1>9 DEF Lock, Extend
<1>10. CASE Tick  BY <1>10 DEF Tick, Leases!Next, Leases!Pass
<1>11. ASSUME NEW m \in late, LateArrives(m) PROVE UNCHANGED hold
  BY <1>11 DEF LateArrives
<1>12. ASSUME NEW s \in Server, Expire(s) \/ Restart(s) PROVE UNCHANGED hold
  BY <1>12 DEF Expire, Restart
<1>13. CASE UNCHANGED vars  BY <1>13 DEF vars
<1>14. QED
  BY <1>6, <1>7, <1>8, <1>9, <1>10, <1>11, <1>12, <1>13 DEF Next

(* The lock implements the lease, for any number of servers and callers:   *)
(* a caller is given validity only when no other has any, never more than  *)
(* the ttl less the drift, and loses a tick of it with every tick.         *)
THEOREM LeaseImplemented == ASSUME Reliable PROVE Spec => ImplementsLease
<1>1. Init => RedlockInv /\ Leases!Init
  BY Inits DEF Init, Leases!Init
<1>2. RedlockInv /\ [Next]_vars => RedlockInv'  BY InvNext, Reliable
<1>3. RedlockInv /\ RedlockInv' /\ [Next]_vars => [Leases!Next]_hold
  BY LeaseNext
<1>4. QED  BY <1>1, <1>2, <1>3, PTL DEF Spec, ImplementsLease, Leases!Spec
-----------------------------------------------------------------------------
(* A failed alock leaves nothing behind                                    *)

(* Every command runs while its client waits for it, answered or not.      *)
Prompt == Faults \intersect {"lost", "lateSet", "lateDel"} = {}

(* The servers that a client has visited to undo its round are free of its *)
(* value; nobody else brings it there, and no request of it is under way.  *)
CleanInv ==
    /\ TypeOK /\ late = {} /\ OwnValues
    /\ \A c \in Client : pc[c] = "undo" =>
          \A s \in Server : s < at[c] => key[s] # val[c]

(* A step of client c, which frees keys or sets its own. *)
LEMMA CleanStep ==
  ASSUME CleanInv, TypeOK', NEW c \in Client, late' = {},
         \A o \in Client \ {c} :
             pc'[o] = pc[o] /\ val'[o] = val[o] /\ at'[o] = at[o],
         val'[c] = val[c] \/ val'[c] = None \/ ~Used(val'[c]),
         \A s \in Server : key'[s] \in {key[s], None, val[c]},
         pc'[c] = "undo" => \A s \in Server : s < at'[c] => key'[s] # val'[c]
  PROVE  CleanInv'
<1>1. OwnValues'
  <2>1. \A o \in Client \ {c} : val'[c] = None \/ val'[c] # val[o]
    BY DEF CleanInv, OwnValues, Used
  <2>2. QED  BY <2>1 DEF CleanInv, OwnValues
<1>2. ASSUME NEW o \in Client, o # c, pc'[o] = "undo",
             NEW s \in Server, s < at'[o]
      PROVE  key'[s] # val'[o]
  <2>1. pc[o] = "undo" /\ val'[o] = val[o] /\ s < at[o]  BY <1>2
  <2>2. val[o] # None  BY <2>1 DEF CleanInv, TypeOK
  <2>3. key[s] # val[o] /\ val[c] # val[o]
    BY <1>2, <2>1, <2>2 DEF CleanInv, OwnValues
  <2>4. QED  BY <2>1, <2>2, <2>3
<1>3. QED  BY <1>1, <1>2 DEF CleanInv

LEMMA CleanNext ==
  ASSUME Prompt, ValuesDiffer, CleanInv, [Next]_vars
  PROVE  CleanInv'
<1>1. TypeOK /\ TypeOK' /\ late = {}  BY TypeNext DEF CleanInv
<1>2. ASSUME NEW c \in Client, NEW v \in Val, Lock(c, v) PROVE CleanInv'
  <2>1. /\ \A o \in Client \ {c} :
             pc'[o] = pc[o] /\ val'[o] = val[o] /\ at'[o] = at[o]
        /\ ~Used(val'[c]) /\ pc'[c] = "lock" /\ late' = late /\ key' = key
    BY <1>1, <1>2 DEF Lock, Round, servers, TypeOK, ValuesDiffer
  <2>2. QED  BY <1>1, <2>1, CleanStep
(* Steps that leave the servers alone and do not begin to undo. *)
<1>3. ASSUME NEW c \in Client,
             \/ Unlock(c) \/ Extend(c) \/ LockDone(c) \/ UndoneRetry(c) \/ Wake(c)
             \/ ExtendKey(c) \/ ExtendUnanswered(c) \/ ExtendDone(c)
      PROVE  CleanInv'
  <2>1. /\ \A o \in Client \ {c} :
             pc'[o] = pc[o] /\ val'[o] = val[o] /\ at'[o] = at[o]
        /\ val' = val /\ late' = late /\ key' = key
    BY <1>1, <1>3 DEF Unlock, Extend, LockDone, UndoneRetry, Wake, ExtendKey,
                      ExtendUnanswered, ExtendDone, Round, Advance, servers, TypeOK
  <2>2. pc'[c] # "undo"
    BY <1>1, <1>3 DEF Unlock, Extend, LockDone, UndoneRetry, Wake, ExtendKey,
                      ExtendUnanswered, ExtendDone, Visiting, TypeOK
  <2>3. QED  BY <1>1, <2>1, <2>2, CleanStep
<1>4. ASSUME NEW c \in Client, GiveUp(c) \/ UnlockDone(c) \/ Crash(c)
      PROVE  CleanInv'
  <2>1. /\ \A o \in Client \ {c} :
             pc'[o] = pc[o] /\ val'[o] = val[o] /\ at'[o] = at[o]
        /\ pc'[c] = "idle" /\ val'[c] = None /\ late' = late /\ key' = key
    BY <1>1, <1>4 DEF GiveUp, UnlockDone, Crash, Idle, servers, TypeOK
  <2>2. QED  BY <1>1, <2>1, CleanStep
<1>5. ASSUME NEW c \in Client, Set(c) \/ SetUnanswered(c) PROVE CleanInv'
  <2>1. /\ \A o \in Client \ {c} :
             pc'[o] = pc[o] /\ val'[o] = val[o] /\ at'[o] = at[o]
        /\ pc[c] = "lock" /\ pc'[c] = "lock" /\ val' = val /\ late' = late
    BY <1>1, <1>5 DEF Set, SetUnanswered, Visiting, Advance, TypeOK
  <2>2. at[c] \in Server /\ SetKey(at[c], val[c])
    BY <1>5 DEF Set, SetUnanswered, Visiting
  <2>3. \A s \in Server : key'[s] \in {key[s], val[c]}
    BY <1>1, <2>2 DEF SetKey, servers, TypeOK
  <2>4. QED  BY <1>1, <2>1, <2>3, CleanStep
<1>6. ASSUME NEW c \in Client, LockFails(c) PROVE CleanInv'
  <2>1. /\ \A o \in Client \ {c} :
             pc'[o] = pc[o] /\ val'[o] = val[o] /\ at'[o] = at[o]
        /\ at'[c] = 1 /\ val' = val /\ late' = late /\ key' = key
    BY <1>1, <1>6 DEF LockFails, servers, TypeOK
  <2>2. \A s \in Server : ~(s < 1)  BY DEF Server
  <2>3. QED  BY <1>1, <2>1, <2>2, CleanStep
(* The server that is visited is freed, if it has the value. *)
<1>7. ASSUME NEW c \in Client, Delete(c) PROVE CleanInv'
  <2>1. /\ \A o \in Client \ {c} :
             pc'[o] = pc[o] /\ val'[o] = val[o] /\ at'[o] = at[o]
        /\ at[c] \in Server /\ at'[c] = at[c] + 1
        /\ pc' = pc /\ pc[c] # "idle" /\ val' = val /\ late' = late
    BY <1>1, <1>7 DEF Delete, Visiting, Advance, TypeOK
  <2>2. val[c] # None  BY <1>1, <2>1 DEF TypeOK
  <2>3. /\ \A s \in Server : key'[s] \in {key[s], None}
        /\ key'[at[c]] # val[c]
    BY <1>1, <1>7, <2>1, <2>2 DEF Delete, Drop, servers, TypeOK
  <2>4. ASSUME pc'[c] = "undo", NEW s \in Server, s < at'[c]
        PROVE  key'[s] # val'[c]
    <3>1. CASE s = at[c]  BY <2>1, <2>3, <3>1
    <3>2. CASE s # at[c]
      <4>1. s < at[c]  BY <2>1, <2>4, <3>2 DEF Server
      <4>2. key[s] # val[c]  BY <2>1, <2>4, <4>1 DEF CleanInv
      <4>3. QED  BY <2>1, <2>2, <2>3, <4>2
    <3>3. QED  BY <3>1, <3>2
  <2>5. QED  BY <1>1, <2>1, <2>3, <2>4, CleanStep
<1>8. ASSUME \A s \in Server : key'[s] \in {key[s], None},
             UNCHANGED <<late, pc, val, at>>
      PROVE  CleanInv'
  <2>1. ASSUME NEW o \in Client, pc[o] = "undo", NEW s \in Server, s < at[o]
        PROVE  key'[s] # val[o]
    <3>1. key[s] # val[o]  BY <2>1 DEF CleanInv
    <3>2. val[o] # None  BY <1>1, <2>1 DEF TypeOK
    <3>3. QED  BY <1>8, <3>1, <3>2
  <2>2. QED  BY <1>1, <1>8, <2>1 DEF CleanInv, OwnValues
<1>9. ASSUME NEW s \in Server, Expire(s) \/ Restart(s) PROVE CleanInv'
  BY <1>1, <1>8, <1>9 DEF Expire, Restart, Drop, TypeOK
<1>10. CASE Tick \/ UNCHANGED vars  BY <1>8, <1>10 DEF Tick, vars
<1>11. ASSUME NEW c \in Client, Fault(c) PROVE SetUnanswered(c) \/ ExtendUnanswered(c)
  BY <1>11 DEF Fault, Prompt, SetLost, SetLate, DeleteLost, DeleteLate, ExtendLost
<1>12. QED
  BY <1>1, <1>2, <1>3, <1>4, <1>5, <1>6, <1>7, <1>9, <1>10, <1>11
  DEF Next, Progress

(* An alock that returns (False, None) has freed every server of its key,  *)
(* those included whose answer it never saw: it asks all of them, not only *)
(* those that said yes.  For any number of servers and callers, answers    *)
(* that are lost, callers that die and servers that forget; a command that *)
(* is lost or late may leave a key until its ttl is over.                  *)
THEOREM FailureLeavesNothing ==
  ASSUME Prompt, ValuesDiffer PROVE Spec => FailureIsClean
<1>1. Init => CleanInv
  <2> SUFFICES ASSUME Init PROVE CleanInv  OBVIOUS
  <2>1. TypeOK /\ OwnValues  BY Inits DEF RedlockInv
  <2>2. QED  BY <2>1 DEF CleanInv, Init
<1>2. CleanInv /\ [Next]_vars => CleanInv'  BY CleanNext, Prompt, ValuesDiffer
<1>3. CleanInv /\ [Next]_vars =>
        [\A c \in Client : pc[c] = "undo" /\ at[c] > N /\ pc'[c] = "idle" =>
             \A s \in Server : key'[s] # val[c]]_vars
  <2> SUFFICES ASSUME CleanInv, Next, NEW c \in Client,
                      pc[c] = "undo", at[c] > N, pc'[c] = "idle",
                      NEW s \in Server
               PROVE  key'[s] # val[c]
    OBVIOUS
  <2>1. TypeOK  BY DEF CleanInv
  <2>2. ASSUME NEW o \in Client, GiveUp(o) \/ Crash(o)
        PROVE  key'[s] # val[c]
    <3>1. s < at[c]  BY <2>1, Numbers DEF Server, TypeOK
    <3>2. key' = key  BY <2>2 DEF GiveUp, Crash, servers
    <3>3. QED  BY <3>1, <3>2 DEF CleanInv
  <2>3. ASSUME NEW o \in Client, (\E v \in Val : Lock(o, v)) \/ Unlock(o) \/ Extend(o)
        PROVE  FALSE
    BY <2>1, <2>3 DEF Lock, Unlock, Extend, TypeOK
  <2>4. ASSUME NEW o \in Client, Progress(o), ~GiveUp(o) PROVE FALSE
    BY <2>1, <2>4 DEF Progress, Set, LockDone, LockFails, Delete, UndoneRetry,
       Wake, UnlockDone, ExtendKey, ExtendDone, Visited, Idle, TypeOK
  <2>5. ASSUME NEW o \in Client, Fault(o) PROVE FALSE
    BY <2>5 DEF Fault, SetLost, SetUnanswered, SetLate, DeleteLost, DeleteLate,
       ExtendLost, ExtendUnanswered, Delay
  <2>6. ~Tick /\ (\A m \in late : ~LateArrives(m))
        /\ \A t \in Server : ~Expire(t) /\ ~Restart(t)
    BY DEF Tick, LateArrives, Expire, Restart
  <2>7. QED  BY <2>2, <2>3, <2>4, <2>5, <2>6 DEF Next
<1>4. QED  BY <1>1, <1>2, <1>3, PTL DEF Spec, FailureIsClean

=============================================================================
