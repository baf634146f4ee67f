---------------------------- MODULE SmsCodesProofs ----------------------------
(***************************************************************************)
(* The expiry of the token key, the order of the codes and the quota of    *)
(* calls, one and two at once, for any number of callers and any total.    *)
(***************************************************************************)
EXTENDS SmsCodes, TLAPS, FiniteSetTheorems

-----------------------------------------------------------------------------
(* Greatest and least of two, and how many calls are in progress           *)

LEMMA MaxOfTwo ==
    ASSUME NEW a \in Int, NEW b \in Int
    PROVE  Max({a, b}) = IF a >= b THEN a ELSE b
  BY DEF Max

LEMMA MinOfTwo ==
    ASSUME NEW a \in Int, NEW b \in Int
    PROVE  Min({a, b}) = IF a <= b THEN a ELSE b
  BY DEF Min

LEMMA ActiveFinite ==
    /\ IsFiniteSet(Active) /\ Cardinality(Active) \in Nat
    /\ Cardinality(Active) = 0 <=> Active = {}
<1>1. Active \subseteq Caller  BY DEF Active
<1>2. IsFiniteSet(Active)  BY <1>1, ConstantsAssumption, FS_Subset
<1>3. QED  BY <1>2, FS_CardinalityType, FS_EmptySet

(* No caller but the one that sends joins the calls in progress. *)
LEMMA ActiveStep ==
  ASSUME TypeOK, [Next]_vars
  PROVE  \/ \E c \in Caller : Send(c)
         \/ Midnight /\ pc' = pc
         \/ /\ atOnce' = atOnce
            /\ \A c \in Caller : pc'[c] # "idle" => pc[c] # "idle"
<1>1. ASSUME NEW c \in Caller, Progress(c) \/ Fault(c)
      PROVE  atOnce' = atOnce /\ \A d \in Caller : pc'[d] # "idle" => pc[d] # "idle"
  <2>1. atOnce' = atOnce /\ pc[c] # "idle" /\ \E where : Goto(c, where)
    BY <1>1 DEF Progress, Fault, Exists, Get, Post, Cache, TakeExists,
                SetFirst, TakeNothing, TakeGet, Set, Expire, CheckFails,
                PostFails, CacheFails, TakeFails, Crash, Return, day
  <2>2. QED  BY <2>1 DEF Goto, TypeOK
<1>2. CASE Verify \/ Verdict \/ UNCHANGED vars
  BY <1>2 DEF Verify, Verdict, vars, day
<1>3. CASE Midnight  BY <1>3 DEF Midnight
<1>4. QED  BY <1>1, <1>2, <1>3 DEF Next

LEMMA AtOnceStep ==
  ASSUME TypeOK, [Next]_vars
  PROVE  atOnce' \in Nat /\ Cardinality(Active') <= atOnce'
<1>1. atOnce \in Nat /\ Cardinality(Active) <= atOnce  BY DEF TypeOK
<1>2. IsFiniteSet(Active) /\ Cardinality(Active) \in Nat  BY ActiveFinite
<1>3. ASSUME NEW c \in Caller, Send(c) PROVE atOnce' \in Nat /\ Cardinality(Active') <= atOnce'
  <2>1. atOnce' = Max({atOnce, Cardinality(Active) + 1})  BY <1>3 DEF Send
  <2>2. Active' = Active \union {c} /\ c \notin Active
    BY <1>3 DEF Send, Goto, Active, TypeOK
  <2>3. Cardinality(Active') = Cardinality(Active) + 1
    BY <1>2, <2>2, FS_AddElement
  <2>4. QED  BY <1>1, <1>2, <2>1, <2>3, MaxOfTwo
<1>4. CASE Midnight /\ pc' = pc
  <2>1. atOnce' = Cardinality(Active)  BY <1>4 DEF Midnight
  <2>2. Active' = Active  BY <1>4 DEF Active
  <2>3. QED  BY <1>2, <2>1, <2>2
<1>5. ASSUME atOnce' = atOnce, \A c \in Caller : pc'[c] # "idle" => pc[c] # "idle"
      PROVE  atOnce' \in Nat /\ Cardinality(Active') <= atOnce'
  <2>1. Active' \subseteq Active  BY <1>5 DEF Active
  <2>2. Cardinality(Active') <= Cardinality(Active) /\ Cardinality(Active') \in Nat
    BY <1>2, <2>1, FS_Subset, FS_CardinalityType
  <2>3. QED  BY <1>1, <1>2, <1>5, <2>2
<1>6. QED  BY <1>3, <1>4, <1>5, ActiveStep

-----------------------------------------------------------------------------
(* Types                                                                   *)

LEMMA ReturnTypes ==
  ASSUME TypeOK, NEW c \in Caller, Return(c)
  PROVE  /\ pc' \in [Caller -> Pc]
         /\ old' \in [Caller -> 0 .. Total - 1]
         /\ \A d \in Caller : pc'[d] = "set" => old'[d] > 0
         /\ msg' \in [Caller -> {None} \union 1 .. last]
         /\ \A d \in Caller :
              msg'[d] = None <=> pc'[d] \in {"idle", "exists", "get", "post"}
<1>1. pc' \in [Caller -> Pc] /\ msg' \in [Caller -> {None} \union 1 .. last]
  BY DEF TypeOK, Return, Goto, Pc
<1>2. old' \in [Caller -> 0 .. Total - 1]
  BY ConstantsAssumption DEF TypeOK, Return
<1>3. \A d \in Caller : pc'[d] = "set" => old'[d] > 0
  BY DEF TypeOK, Return, Goto
<1>4. \A d \in Caller :
        msg'[d] = None <=> pc'[d] \in {"idle", "exists", "get", "post"}
  BY DEF TypeOK, Return, Goto
<1>5. QED  BY <1>1, <1>2, <1>3, <1>4

LEMMA StoreTypes ==
  ASSUME TypeOK, NEW c \in Caller, pc[c] = "cache", Store(c)
  PROVE  code' \in {None} \union 1 .. last /\ settled' \in 0 .. last
<1>1. msg[c] \in 1 .. last  BY DEF TypeOK
<1>2. QED  BY <1>1 DEF TypeOK, Store, Settle

LEMMA TypeStep == TypeOK /\ [Next]_vars => TypeOK'
<1> SUFFICES ASSUME TypeOK, [Next]_vars PROVE TypeOK'  OBVIOUS
<1> USE ConstantsAssumption
<1>0. atOnce' \in Nat /\ Cardinality(Active') <= atOnce'  BY AtOnceStep
<1>1. ASSUME NEW c \in Caller, Send(c) \/ Exists(c) \/ TakeExists(c)
      PROVE  TypeOK'
  <2>2. pc' \in [Caller -> Pc]
    BY <1>1 DEF Send, Exists, TakeExists, Goto, TypeOK, Pc
  <2>3. \A d \in Caller :
          /\ pc'[d] = "set" => old[d] > 0
          /\ msg[d] = None <=> pc'[d] \in {"idle", "exists", "get", "post"}
    BY <1>1 DEF Send, Exists, TakeExists, Goto, TypeOK
  <2>4. UNCHANGED <<token, stored, old, msg, verify, last, today, unpaid>>
    BY <1>1 DEF Send, Exists, TakeExists, day
  <2>5. today' = today /\ unpaid' = unpaid
    BY <1>1 DEF Send, Exists, TakeExists, day
  <2>6. QED  BY <1>0, <2>2, <2>3, <2>4, <2>5 DEF token, stored, TypeOK
<1>2. ASSUME NEW c \in Caller, Get(c) \/ CheckFails(c) \/ TakeNothing(c)
      PROVE  TypeOK'
  <2>1. CASE Return(c)
    BY <1>0, <1>2, <2>1, ReturnTypes
       DEF Get, CheckFails, TakeNothing, Goto, token, stored, day, TypeOK
  <2>2. CASE Get(c) /\ ~Return(c)
    BY <1>0, <2>2 DEF Get, Goto, token, stored, day, TypeOK, Pc
  <2>3. QED  BY <1>2, <2>1, <2>2 DEF CheckFails, TakeNothing
<1>3. ASSUME NEW c \in Caller, Post(c) PROVE TypeOK'
  BY <1>0, <1>3 DEF Post, Deliver, Goto, token, stored, TypeOK, Pc
<1>4. ASSUME NEW c \in Caller, PostFails(c) PROVE TypeOK'
  BY <1>0, <1>4, ReturnTypes DEF PostFails, Deliver, token, stored, TypeOK
<1>5. ASSUME NEW c \in Caller, Cache(c) PROVE TypeOK'
  BY <1>0, <1>5, StoreTypes DEF Cache, Goto, token, day, TypeOK, Pc
<1>6. ASSUME NEW c \in Caller, CacheFails(c) PROVE TypeOK'
  BY <1>0, <1>6, ReturnTypes, StoreTypes DEF CacheFails, token, stored, TypeOK
<1>7. ASSUME NEW c \in Caller, SetFirst(c) \/ Set(c) PROVE TypeOK'
  <2>1. tok' \in 0 .. Total - 1
    BY <1>7 DEF SetFirst, Set, SetToken, TypeOK
  <2>2. QED
    BY <1>0, <1>7, <2>1 DEF SetFirst, Set, SetToken, Goto, stored, day, TypeOK, Pc
<1>8. ASSUME NEW c \in Caller, TakeGet(c) PROVE TypeOK'
  BY <1>0, <1>8 DEF TakeGet, Goto, token, stored, day, TypeOK, Pc
<1>9. ASSUME NEW c \in Caller, Expire(c) PROVE TypeOK'
  BY <1>0, <1>9, ReturnTypes DEF Expire, stored, day, TypeOK
<1>10. ASSUME NEW c \in Caller, TakeFails(c) PROVE TypeOK'
  <2>1. /\ tok' \in {None} \union 0 .. Total - 1
        /\ expires' \in BOOLEAN /\ cut' \in BOOLEAN
        /\ expires' => tok' # None /\ ~cut'
    <3>1. CASE UNCHANGED token  BY <3>1 DEF token, TypeOK
    <3>2. CASE LeaveUnexpired  BY <3>2 DEF LeaveUnexpired, TypeOK
    <3>3. CASE /\ pc[c] \in {"setFirst", "set"}
               /\ tok' = IF pc[c] = "set" THEN old[c] - 1 ELSE Total - 1
               /\ expires' = FALSE /\ cut' = TRUE
      <4>1. tok' \in 0 .. Total - 1  BY <3>3 DEF TypeOK
      <4>2. QED  BY <3>3, <4>1
    <3>4. QED  BY <1>10, <3>1, <3>2, <3>3 DEF TakeFails
  <2>2. unpaid' \in Nat  BY <1>10 DEF TakeFails, TypeOK
  <2>3. QED  BY <1>0, <1>10, <2>1, <2>2, ReturnTypes DEF TakeFails, stored, TypeOK
<1>11. ASSUME NEW c \in Caller, Crash(c) PROVE TypeOK'
  <2>1. /\ tok' \in {None} \union 0 .. Total - 1
        /\ expires' \in BOOLEAN /\ cut' \in BOOLEAN
        /\ expires' => tok' # None /\ ~cut'
    BY <1>11 DEF Crash, LeaveUnexpired, token, TypeOK
  <2>2. unpaid' \in Nat  BY <1>11 DEF Crash, TypeOK
  <2>3. QED  BY <1>0, <1>11, <2>1, <2>2, ReturnTypes DEF Crash, stored, TypeOK
<1>12. ASSUME Verify \/ Verdict PROVE TypeOK'
  BY <1>0, <1>12 DEF Verify, Verdict, token, stored, day, TypeOK
<1>13. ASSUME Midnight PROVE TypeOK'
  <2>2. tok' \in {None} \union 0 .. Total - 1 /\ expires' \in BOOLEAN
        /\ cut' \in BOOLEAN /\ (expires' => tok' # None /\ ~cut')
    BY <1>13 DEF Midnight, token, TypeOK
  <2>3. today' \in 0 .. last' /\ unpaid' \in Nat
    BY <1>13 DEF Midnight, TypeOK
  <2>4. UNCHANGED <<stored, pc, old, msg, verify, last>>
    BY <1>13 DEF Midnight
  <2>5. QED  BY <1>0, <2>2, <2>3, <2>4 DEF stored, TypeOK
<1>14. CASE UNCHANGED vars
  BY <1>0, <1>14 DEF vars, TypeOK
<1>15. QED
  BY <1>1, <1>2, <1>3, <1>4, <1>5, <1>6, <1>7, <1>8, <1>9, <1>10, <1>11,
     <1>12, <1>13, <1>14 DEF Next, Progress, Fault

-----------------------------------------------------------------------------
(* The expiry of the key                                                   *)

LEMMA ExpiryStep == TypeOK /\ TokenExpires /\ [Next]_vars => TokenExpires'
<1> SUFFICES ASSUME TypeOK, TokenExpires, [Next]_vars PROVE TokenExpires'
  OBVIOUS
(* A step that leaves the key alone and is not a return from "expire". *)
<1>1. ASSUME NEW c \in Caller, UNCHANGED token, pc[c] # "expire",
             \A d \in Caller : d # c => pc'[d] = pc[d]
      PROVE  TokenExpires'
  BY <1>1 DEF TokenExpires, token
<1>2. ASSUME NEW c \in Caller, Goto(c, "idle") \/ \E where : Goto(c, where)
      PROVE  \A d \in Caller : d # c => pc'[d] = pc[d]
  BY <1>2 DEF Goto, TypeOK
<1>3. ASSUME NEW c \in Caller,
             \/ Send(c) \/ Exists(c) \/ Get(c) \/ Post(c) \/ Cache(c)
             \/ TakeExists(c) \/ TakeNothing(c) \/ TakeGet(c)
             \/ CheckFails(c) \/ PostFails(c) \/ CacheFails(c)
      PROVE  TokenExpires'
  <2>1. UNCHANGED token /\ pc[c] # "expire" /\ \E where : Goto(c, where)
    BY <1>3 DEF Send, Exists, Get, Post, Cache, TakeExists, TakeNothing,
                TakeGet, CheckFails, PostFails, CacheFails, Return
  <2>2. QED  BY <1>1, <1>2, <2>1
<1>4. ASSUME NEW c \in Caller, SetFirst(c) \/ Set(c) PROVE TokenExpires'
  <2>1. pc'[c] = "expire"  BY <1>4 DEF SetFirst, Set, Goto, TypeOK
  <2>2. QED  BY <2>1 DEF TokenExpires
<1>5. ASSUME NEW c \in Caller, Expire(c) PROVE TokenExpires'
  BY <1>5 DEF Expire, TokenExpires
<1>6. ASSUME NEW c \in Caller, LeaveUnexpired PROVE TokenExpires'
  BY <1>6 DEF LeaveUnexpired, TokenExpires, TypeOK
<1>7. ASSUME NEW c \in Caller, TakeFails(c) \/ Crash(c) PROVE TokenExpires'
  <2>1. CASE LeaveUnexpired  BY <1>6, <2>1
  <2>2. CASE cut' = TRUE  BY <2>2 DEF TokenExpires
  <2>3. CASE pc[c] # "expire" /\ UNCHANGED token
    BY <1>1, <1>2, <1>7, <2>3 DEF TakeFails, Crash, Return
  <2>4. QED  BY <1>7, <2>1, <2>2, <2>3 DEF TakeFails, Crash
<1>8. ASSUME Midnight PROVE TokenExpires'
  BY <1>8 DEF Midnight, token, TokenExpires, TypeOK
<1>9. CASE Verify \/ Verdict \/ UNCHANGED vars
  BY <1>9 DEF Verify, Verdict, vars, token, TokenExpires
<1>10. QED
  BY <1>3, <1>4, <1>5, <1>7, <1>8, <1>9 DEF Next, Progress, Fault

-----------------------------------------------------------------------------
(* The order of the codes                                                  *)

(* Steps that store nothing and bring nobody to "cache". *)
LEMMA OrderedStays ==
  ASSUME TypeOK, Ordered, UNCHANGED <<stored, verify>>,
         \A c \in Caller : pc'[c] = "cache" => pc[c] = "cache" /\ msg'[c] = msg[c]
  PROVE  Ordered'
  BY DEF Ordered, CurrentCodeChecked, stored

LEMMA StoreOrders ==
  ASSUME TypeOK, Ordered, UNCHANGED verify, NEW c \in Caller, pc[c] = "cache",
         Store(c), pc'[c] # "cache",
         \A d \in Caller : d # c => pc'[d] = pc[d] /\ msg'[d] = msg[d]
  PROVE  Ordered'
<1>1. msg[c] \in 1 .. last /\ settled \in 0 .. last  BY DEF TypeOK
<1>2. CASE \E o \in Caller \ {c} : pc[o] = "cache"
  BY <1>2, <1>1 DEF Store, Settle, Ordered, CurrentCodeChecked
<1>3. CASE ~ \E o \in Caller \ {c} : pc[o] = "cache"
  <2>1. code' = msg[c] /\ settled' = msg[c]  BY <1>3 DEF Store, Settle
  <2>2. \A d \in Caller : pc'[d] # "cache"  BY <1>3
  <2>3. QED  BY <1>1, <2>1, <2>2 DEF Ordered, CurrentCodeChecked
<1>4. QED  BY <1>2, <1>3

LEMMA OrderStep == TypeOK /\ Ordered /\ [Next]_vars => Ordered'
<1> SUFFICES ASSUME TypeOK, Ordered, [Next]_vars PROVE Ordered'  OBVIOUS
<1>1. ASSUME NEW c \in Caller, Post(c) PROVE Ordered'
  <2>1. msg'[c] = last + 1 /\ settled <= last /\ settled \in Nat /\ last \in Nat
    BY <1>1 DEF Post, Deliver, TypeOK
  <2>2. \A d \in Caller : d # c => pc'[d] = pc[d] /\ msg'[d] = msg[d]
    BY <1>1 DEF Post, Goto, TypeOK
  <2>3. QED
    BY <1>1, <2>1, <2>2 DEF Post, stored, Ordered, CurrentCodeChecked
<1>2. ASSUME NEW c \in Caller, Cache(c) PROVE Ordered'
  <2>1. pc'[c] # "cache" /\ \A d \in Caller : d # c => pc'[d] = pc[d]
    BY <1>2 DEF Cache, Goto, TypeOK
  <2>2. QED  BY <1>2, <2>1, StoreOrders DEF Cache
<1>3. ASSUME NEW c \in Caller, Return(c)
      PROVE  /\ pc'[c] # "cache"
             /\ \A d \in Caller : d # c => pc'[d] = pc[d] /\ msg'[d] = msg[d]
  BY <1>3 DEF Return, Goto, TypeOK
<1>4. ASSUME NEW c \in Caller, CacheFails(c) PROVE Ordered'
  <2>1. CASE UNCHANGED stored
    BY <1>3, <1>4, <2>1, OrderedStays DEF CacheFails
  <2>2. CASE Store(c)
    BY <1>3, <1>4, <2>2, StoreOrders DEF CacheFails
  <2>3. QED  BY <1>4, <2>1, <2>2 DEF CacheFails
<1>5. ASSUME NEW c \in Caller,
             CheckFails(c) \/ PostFails(c) \/ TakeNothing(c) \/ Expire(c)
             \/ TakeFails(c) \/ Crash(c)
      PROVE  Ordered'
  <2>1. Return(c) /\ UNCHANGED <<stored, verify>>
    BY <1>5 DEF CheckFails, PostFails, TakeNothing, Expire, TakeFails, Crash
  <2>2. QED  BY <1>3, <2>1, OrderedStays
<1>6. ASSUME NEW c \in Caller, Get(c) PROVE Ordered'
  <2>1. CASE Return(c)
    BY <1>3, <1>6, <2>1, OrderedStays DEF Get, day
  <2>2. CASE ~Return(c)
    BY <1>6, <2>2, OrderedStays DEF Get, Goto, TypeOK
  <2>3. QED  BY <2>1, <2>2
<1>7. ASSUME NEW c \in Caller,
             Send(c) \/ Exists(c) \/ TakeExists(c) \/ SetFirst(c)
             \/ TakeGet(c) \/ Set(c)
      PROVE  Ordered'
  <2>1. /\ UNCHANGED <<stored, verify, msg>>
        /\ \A d \in Caller : pc'[d] = "cache" => pc[d] = "cache"
    BY <1>7 DEF Send, Exists, TakeExists, SetFirst, TakeGet, Set, Goto, TypeOK
  <2>2. QED  BY <2>1, OrderedStays
<1>8. ASSUME Verify PROVE Ordered'
  BY <1>8, ConstantsAssumption
     DEF Verify, stored, Ordered, CurrentCodeChecked
<1>9. ASSUME Verdict PROVE Ordered'
  BY <1>9, ConstantsAssumption
     DEF Verdict, stored, Ordered, CurrentCodeChecked
<1>10. CASE Midnight \/ UNCHANGED vars
  BY <1>10, OrderedStays DEF Midnight, vars, stored
<1>11. QED
  BY <1>1, <1>2, <1>4, <1>5, <1>6, <1>7, <1>8, <1>9, <1>10
     DEF Next, Progress, Fault

-----------------------------------------------------------------------------
(* The quota of one call at a time                                         *)

LEMMA Numbers ==
  ASSUME TypeOK
  PROVE  /\ Total \in Nat /\ Total >= 1 /\ today \in Nat /\ unpaid \in Nat
         /\ None \notin Nat /\ (tok # None => tok \in Nat /\ tok <= Total - 1)
         /\ Left \in Nat /\ Left <= Total
  BY ConstantsAssumption DEF TypeOK, Left

(* A call that was the only one still is, or is over. *)
LEMMA AloneStep ==
  ASSUME TypeOK, Alone, NEW c \in Caller, pc[c] # "idle",
         \A d \in Caller : d # c => pc'[d] = pc[d],
         pc'[c] # "idle" => Accounted(c)',
         pc'[c] = "idle" => Balanced'
  PROVE  Alone'
  BY DEF Alone

LEMMA OthersStay ==
  ASSUME TypeOK, NEW c \in Caller, NEW where, Goto(c, where), where \in Pc
  PROVE  pc'[c] = where /\ \A d \in Caller : d # c => pc'[d] = pc[d]
  BY DEF TypeOK, Goto

LEMMA AloneActs ==
  ASSUME TypeOK, Alone, NEW c \in Caller, Progress(c) \/ Fault(c)
  PROVE  Alone'
<1>1. pc[c] # "idle" => Accounted(c)  BY DEF Alone
<1>2. ASSUME NEW where \in Pc, Goto(c, where), pc[c] # "idle",
             where # "idle" => Accounted(c)', where = "idle" => Balanced'
      PROVE  Alone'
  BY <1>2, OthersStay, AloneStep
<1>3. "idle" \in Pc  BY DEF Pc
<1>4. ASSUME Return(c), pc[c] # "idle", Balanced' PROVE Alone'
  BY <1>2, <1>3, <1>4 DEF Return
<1>5. CASE Exists(c)
  <2>1. Balanced /\ Balanced' /\ Left' = Left
    BY <1>1, <1>5 DEF Exists, token, day, Accounted, Balanced, Left
  <2>2. tok = None => today < Total + unpaid
    BY <2>1, Numbers DEF Balanced, Left
  <2>3. pc'[c] = IF tok = None THEN "post" ELSE "get"
    BY <1>5 DEF Exists, Goto, TypeOK
  <2>4. Accounted(c)'
    BY <1>5, <2>1, <2>2, <2>3 DEF Exists, day, Accounted
  <2>5. QED  BY <1>2, <1>5, <2>4 DEF Exists, Pc
<1>6. CASE Get(c)
  <2>1. Balanced /\ Balanced'
    BY <1>1, <1>6 DEF Get, token, day, Accounted, Balanced, Left
  <2>2. CASE Return(c)  BY <1>4, <1>6, <2>1, <2>2 DEF Get
  <2>3. CASE tok \notin {None, 0} /\ Goto(c, "post")
    <3>1. today < Total + unpaid
      BY <2>1, <2>3, Numbers DEF Balanced, Left
    <3>2. pc'[c] = "post"  BY <2>3 DEF Goto, TypeOK
    <3>3. Accounted(c)'
      BY <1>6, <2>1, <3>1, <3>2 DEF Get, day, Accounted
    <3>4. QED  BY <1>2, <1>6, <2>3, <3>3 DEF Get, Pc
  <2>4. QED  BY <1>6, <2>2, <2>3 DEF Get
<1>7. CASE Post(c)
  <2>1. Balanced /\ today < Total + unpaid
    BY <1>1, <1>7 DEF Post, Accounted
  <2>2. today' = today + 1 /\ unpaid' = unpaid /\ Left' = Left
    BY <1>7 DEF Post, Deliver, token, Left
  <2>3. today' + Left' <= Total + unpaid' + 1 /\ today' <= Total + unpaid'
    BY <2>1, <2>2, Numbers DEF Balanced
  <2>4. pc'[c] = "cache"  BY <1>7 DEF Post, Goto, TypeOK
  <2>5. Accounted(c)'  BY <2>3, <2>4 DEF Accounted
  <2>6. QED  BY <1>2, <1>7, <2>5 DEF Post, Pc
<1> DEFINE Sent == today + Left <= Total + unpaid + 1 /\ today <= Total + unpaid
<1>8. CASE Cache(c)
  <2>1. Sent /\ Sent'
    BY <1>1, <1>8 DEF Cache, token, day, Accounted, Left
  <2>2. pc'[c] = "takeExists"  BY <1>8 DEF Cache, Goto, TypeOK
  <2>3. Accounted(c)'  BY <2>1, <2>2 DEF Accounted
  <2>4. QED  BY <1>2, <1>8, <2>3 DEF Cache, Pc
<1>9. CASE TakeExists(c)
  <2>1. Sent /\ Sent' /\ UNCHANGED <<tok, today, unpaid>>
    BY <1>1, <1>9 DEF TakeExists, token, day, Accounted, Left
  <2>2. pc'[c] = IF tok = None THEN "setFirst" ELSE "takeGet"
    BY <1>9 DEF TakeExists, Goto, TypeOK
  <2>3. tok = None => today <= unpaid + 1
    BY <2>1, Numbers DEF Left
  <2>4. Accounted(c)'  BY <2>1, <2>2, <2>3 DEF Accounted
  <2>5. QED  BY <1>2, <1>9, <2>4 DEF TakeExists, Pc
<1>10. CASE SetFirst(c)
  <2>1. today <= unpaid + 1  BY <1>1, <1>10 DEF SetFirst, Accounted
  <2>2. tok' = Total - 1 /\ UNCHANGED <<today, unpaid>>
    BY <1>10 DEF SetFirst, SetToken, day
  <2>3. Balanced'
    BY <2>1, <2>2, Numbers, ConstantsAssumption DEF Balanced, Left
  <2>4. pc'[c] = "expire"  BY <1>10 DEF SetFirst, Goto, TypeOK
  <2>5. Accounted(c)'  BY <2>3, <2>4 DEF Accounted
  <2>6. QED  BY <1>2, <1>10, <2>5 DEF SetFirst, Pc
<1>11. CASE TakeNothing(c)
  <2>1. today <= Total + unpaid /\ (tok = None => today <= unpaid)
    BY <1>1, <1>11 DEF TakeNothing, Accounted
  <2>2. UNCHANGED <<tok, today, unpaid>> /\ tok \in {None, 0}
    BY <1>11 DEF TakeNothing, token, day
  <2>3. Balanced'
    BY <2>1, <2>2, Numbers DEF Balanced, Left
  <2>4. QED  BY <1>4, <1>11, <2>3 DEF TakeNothing
<1>12. CASE TakeGet(c)
  <2>1. Sent /\ Sent' /\ UNCHANGED <<tok, today, unpaid>>
    BY <1>1, <1>12 DEF TakeGet, token, day, Accounted, Left
  <2>2. old'[c] = tok /\ tok # None /\ pc'[c] = "set"
    BY <1>12 DEF TakeGet, Goto, TypeOK
  <2>3. today' + old'[c] <= Total + unpaid' + 1
    BY <2>1, <2>2 DEF Left
  <2>4. Accounted(c)'  BY <2>1, <2>2, <2>3 DEF Accounted
  <2>5. QED  BY <1>2, <1>12, <2>4 DEF TakeGet, Pc
<1>13. ASSUME pc[c] = "set", tok' = old[c] - 1, UNCHANGED <<today, unpaid>>
       PROVE  Balanced'
  <2>1. today + old[c] <= Total + unpaid + 1 /\ old[c] \in 0 .. Total - 1
    BY <1>1, <1>13 DEF Accounted, TypeOK
  <2>2. old[c] - 1 # None
    BY <1>13, <2>1, ConstantsAssumption DEF TypeOK
  <2>3. QED  BY <1>13, <2>1, <2>2, Numbers DEF Balanced, Left
<1>14. CASE Set(c)
  <2>1. Balanced'  BY <1>13, <1>14 DEF Set, SetToken, day
  <2>2. pc'[c] = "expire"  BY <1>14 DEF Set, Goto, TypeOK
  <2>3. Accounted(c)'  BY <2>1, <2>2 DEF Accounted
  <2>4. QED  BY <1>2, <1>14, <2>3 DEF Set, Pc
<1>15. CASE Expire(c)
  <2>1. Balanced'
    BY <1>1, <1>15 DEF Expire, day, Accounted, Balanced, Left
  <2>2. QED  BY <1>4, <1>15, <2>1 DEF Expire
<1>16. CASE CheckFails(c)
  <2>1. Balanced'
    BY <1>1, <1>16 DEF CheckFails, token, day, Accounted, Balanced, Left
  <2>2. QED  BY <1>4, <1>16, <2>1 DEF CheckFails
<1>17. CASE PostFails(c)
  <2>1. Balanced /\ UNCHANGED tok
    BY <1>1, <1>17 DEF PostFails, token, Accounted
  <2>2. \/ today' = today + 1 /\ unpaid' = unpaid + 1
        \/ UNCHANGED <<today, unpaid>>
    BY <1>17 DEF PostFails, Deliver
  <2>3. Balanced'  BY <2>1, <2>2, Numbers DEF Balanced, Left
  <2>4. QED  BY <1>4, <1>17, <2>3 DEF PostFails
(* A call that fails before it took a token owes one from then on. *)
<1>18. ASSUME pc[c] \in {"cache", "takeExists", "setFirst", "takeGet", "set"},
              UNCHANGED <<tok, today>>, unpaid' = unpaid + 1
       PROVE  Balanced'
  <2>1. Sent  BY <1>1, <1>18 DEF Accounted
  <2>2. QED  BY <1>18, <2>1, Numbers DEF Balanced, Left
<1>19. CASE CacheFails(c)
  BY <1>4, <1>18, <1>19 DEF CacheFails, token
<1>20. ASSUME pc[c] \in {"exists", "get", "post", "expire"},
              UNCHANGED <<tok, today, unpaid>>
       PROVE  Balanced'
  BY <1>1, <1>20 DEF Accounted, Balanced, Left
<1>21. CASE TakeFails(c)
  <2>1. Balanced'
    <3>1. CASE UNCHANGED token /\ unpaid' = unpaid + 1
               /\ pc[c] \in {"takeExists", "takeGet", "setFirst", "set"}
      BY <1>18, <1>21, <3>1 DEF TakeFails, token
    <3>2. CASE pc[c] = "expire" /\ LeaveUnexpired /\ UNCHANGED unpaid
      BY <1>20, <1>21, <3>2 DEF TakeFails, LeaveUnexpired
    <3>3. CASE pc[c] = "set" /\ tok' = old[c] - 1 /\ UNCHANGED unpaid
      BY <1>13, <1>21, <3>3 DEF TakeFails
    <3>4. CASE pc[c] = "setFirst" /\ tok' = Total - 1 /\ UNCHANGED unpaid
      <4>1. today <= unpaid + 1  BY <1>1, <3>4 DEF Accounted
      <4>2. QED
        BY <1>21, <3>4, <4>1, Numbers, ConstantsAssumption
           DEF TakeFails, Balanced, Left
    <3>5. QED  BY <1>21, <3>1, <3>2, <3>3, <3>4 DEF TakeFails
  <2>2. QED  BY <1>4, <1>21, <2>1 DEF TakeFails
<1>22. CASE Crash(c)
  <2>1. UNCHANGED <<tok, today>>
    BY <1>22 DEF Crash, LeaveUnexpired, token
  <2>2. Balanced'
    BY <1>18, <1>20, <1>22, <2>1 DEF Crash, TypeOK, Pc
  <2>3. QED  BY <1>4, <1>22, <2>2 DEF Crash
<1>23. QED
  BY <1>5, <1>6, <1>7, <1>8, <1>9, <1>10, <1>11, <1>12, <1>14, <1>15, <1>16,
     <1>17, <1>19, <1>21, <1>22 DEF Progress, Fault

(* Nothing is sent on a new day yet, and no more is left than the total. *)
LEMMA NewDay ==
  ASSUME TypeOK, today' = 0, unpaid' = 0, UNCHANGED <<pc, old>>,
         tok' = None \/ tok' = tok
  PROVE  Balanced' /\ \A c \in Caller : Accounted(c)'
<1>1. today' + Left' <= Total + unpaid'
  BY Numbers, ConstantsAssumption DEF Left
<1>2. Balanced'  BY <1>1 DEF Balanced
<1>3. ASSUME NEW c \in Caller PROVE Accounted(c)'
  <2>1. old'[c] \in 0 .. Total - 1  BY DEF TypeOK
  <2>2. /\ today' < Total + unpaid' /\ today' <= unpaid'
        /\ today' <= unpaid' + 1 /\ today' <= Total + unpaid'
        /\ today' + Left' <= Total + unpaid' + 1
        /\ today' + old'[c] <= Total + unpaid' + 1
    BY Numbers, ConstantsAssumption, <2>1 DEF Left
  <2>3. QED  BY <1>2, <2>2 DEF Accounted
<1>4. QED  BY <1>2, <1>3

LEMMA AloneMidnight == TypeOK /\ Midnight /\ atOnce' <= 1 => Alone'
<1> SUFFICES ASSUME TypeOK, Midnight, atOnce' <= 1 PROVE Alone'  OBVIOUS
<1>1. \A c, d \in Caller : pc[c] # "idle" /\ pc[d] # "idle" => c = d
  <2>1. IsFiniteSet(Active) /\ Cardinality(Active) \in Nat  BY ActiveFinite
  <2>2. ~ (Cardinality(Active) > 1)  BY <2>1 DEF Midnight
  <2>3. Cardinality(Active) = 0 \/ Cardinality(Active) = 1  BY <2>1, <2>2
  <2>4. Active = {} \/ \E x : Active = {x}
    BY <2>1, <2>3, FS_EmptySet, FS_Singleton
  <2>5. QED  BY <2>4 DEF Active
<1>2. today' = 0 /\ unpaid' = 0 /\ UNCHANGED <<pc, old>>
  BY DEF Midnight
<1>3. tok' = None \/ tok' = tok
  <2>1. CASE expires  BY <2>1, Zenon DEF Midnight
  <2>2. CASE ~expires
    <3>1. UNCHANGED token  BY <2>2, Zenon DEF Midnight
    <3>2. QED  BY <3>1 DEF token
  <2>3. QED  BY <2>1, <2>2
<1>4. Balanced' /\ \A c \in Caller : Accounted(c)'  BY <1>2, <1>3, NewDay
<1>5. QED  BY <1>1, <1>2, <1>4 DEF Alone

LEMMA AloneStays ==
  TypeOK /\ (atOnce <= 1 => Alone) /\ [Next]_vars => (atOnce' <= 1 => Alone')
<1> SUFFICES ASSUME TypeOK, atOnce <= 1 => Alone, [Next]_vars, atOnce' <= 1
             PROVE  Alone'
  OBVIOUS
<1>1. ASSUME NEW c \in Caller, Progress(c) \/ Fault(c) PROVE Alone'
  <2>1. atOnce <= 1
    BY <1>1 DEF Progress, Fault, Exists, Get, Post, Cache, TakeExists,
                SetFirst, TakeNothing, TakeGet, Set, Expire, CheckFails,
                PostFails, CacheFails, TakeFails, Crash, day
  <2>2. QED  BY <1>1, <2>1, AloneActs
<1>2. ASSUME NEW c \in Caller, Send(c) PROVE Alone'
  <2>1. Alone /\ \A d \in Caller : pc[d] = "idle"
    <3>1. atOnce \in Nat /\ Cardinality(Active) \in Nat
          /\ atOnce' = Max({atOnce, Cardinality(Active) + 1})
      BY <1>2, ActiveFinite DEF Send, TypeOK
    <3>2. atOnce <= 1 /\ Cardinality(Active) = 0  BY <3>1, MaxOfTwo
    <3>3. Active = {}  BY <3>2, ActiveFinite
    <3>4. QED  BY <3>2, <3>3 DEF Active
  <2>2. Balanced /\ Balanced'
    BY <1>2, <2>1 DEF Send, Alone, token, Balanced, Left
  <2>3. pc'[c] = "exists" /\ \A d \in Caller : d # c => pc'[d] = pc[d]
    BY <1>2 DEF Send, Goto, TypeOK
  <2>4. Accounted(c)'  BY <2>2, <2>3 DEF Accounted
  <2>5. QED  BY <2>1, <2>3, <2>4 DEF Alone
<1>3. CASE Midnight  BY <1>3, AloneMidnight
<1>4. CASE Verify \/ Verdict \/ UNCHANGED vars
  <2>1. UNCHANGED <<tok, pc, old, today, unpaid, atOnce>>
    BY <1>4 DEF Verify, Verdict, vars, token, day
  <2>2. QED  BY <2>1 DEF Alone, Accounted, Balanced, Left
<1>5. QED  BY <1>1, <1>2, <1>3, <1>4 DEF Next

-----------------------------------------------------------------------------
(* The quota of two calls at once: Ahead bounds what two callers can still *)
(* send; each message delivered, each write and each failure keeps it.     *)

LEMMA SquareGrows ==
  ASSUME NEW a \in Int, NEW b \in Int, -1 <= a, a <= b
  PROVE  a * (a + 3) <= b * (b + 3) /\ b * (b + 3) \in Int /\ a * (a + 3) \in Int
<1>1. a * (a + 3) \in Int /\ b * (b + 3) \in Int
  OBVIOUS
<1> DEFINE d == b - a
<1>2. d \in Nat /\ b = a + d  OBVIOUS
<1> HIDE DEF d
<1>3. b * (b + 3) = a * (a + 3) + d * (2 * a + 3 + d)  BY <1>2
<1>4. d * (2 * a + 3 + d) >= 0
  <2>1. 2 * a + 3 + d \in Nat  BY <1>2
  <2> DEFINE e == 2 * a + 3 + d
  <2>2. e \in Nat  BY <2>1
  <2> HIDE DEF e
  <2>3. d * e >= 0  BY <1>2, <2>2
  <2>4. QED  BY <2>3 DEF e
<1>5. d * (2 * a + 3 + d) \in Int  BY <1>2
<1>6. QED  BY <1>1, <1>3, <1>4, <1>5

(* The more is held, the more can be sent. *)
LEMMA SendsGrows ==
  ASSUME NEW a \in Int, NEW b \in Int, NEW x \in Int, NEW y \in Int,
         -1 <= a, -1 <= b, a <= x, b <= y
  PROVE  /\ Sends(a, b) \in Int /\ Sends(x, y) \in Int
         /\ Sends(a, b) <= Sends(x, y)
<1> DEFINE hi == Max({a, b})
           lo == Min({a, b})
           high == Max({x, y})
           low == Min({x, y})
<1>1. /\ hi = (IF a >= b THEN a ELSE b) /\ lo = (IF a <= b THEN a ELSE b)
      /\ high = (IF x >= y THEN x ELSE y) /\ low = (IF x <= y THEN x ELSE y)
  BY MaxOfTwo, MinOfTwo
<1>2. Sends(a, b) = 2 * lo + hi * (hi + 3) /\ Sends(x, y) = 2 * low + high * (high + 3)
  BY DEF Sends
<1> HIDE DEF hi, lo, high, low
<1>3. /\ hi \in Int /\ lo \in Int /\ high \in Int /\ low \in Int
      /\ -1 <= hi /\ hi <= high /\ lo <= low
  BY <1>1
<1>4. /\ hi * (hi + 3) <= high * (high + 3)
      /\ hi * (hi + 3) \in Int /\ high * (high + 3) \in Int
  BY <1>3, SquareGrows
<1>5. QED  BY <1>2, <1>3, <1>4

LEMMA SendsTyped ==
  ASSUME NEW x \in Int, NEW y \in Int, -1 <= x, -1 <= y
  PROVE  Sends(x, y) \in Int
  BY SendsGrows

LEMMA SendsSymmetric ==
  ASSUME NEW x \in Int, NEW y \in Int
  PROVE  Sends(x, y) = Sends(y, x)
<1>1. {x, y} = {y, x}  OBVIOUS
<1>2. QED  BY <1>1, Zenon DEF Sends

(* A caller that writes v while another is to write u: what both send from *)
(* then on was ahead of them before.                                       *)
LEMMA SendsAfterWrite ==
  ASSUME NEW v \in Nat, NEW u \in Int, -1 <= u,
         NEW x \in Int, NEW y \in Int, v <= x, u <= y, -1 <= y
  PROVE  /\ 2 + Sends(v - 1, Max({u, v - 1})) <= Sends(x, y)
         /\ Sends(v - 1, Max({u, v - 1})) \in Int
<1> DEFINE w == Max({u, v - 1})
<1>1. w = IF u >= v - 1 THEN u ELSE v - 1  BY MaxOfTwo
<1> HIDE DEF w
<1>2. w \in Int /\ w >= v - 1 /\ w >= u /\ w >= -1  BY <1>1
<1>3. Sends(v - 1, w) = 2 * (v - 1) + w * (w + 3)
  BY <1>2, MaxOfTwo, MinOfTwo DEF Sends
<1>4. w * (w + 3) \in Int  BY <1>2
<1>5. CASE u >= v
  <2>1. w = u  BY <1>1, <1>5
  <2>2. Sends(v, u) = 2 * v + u * (u + 3)
    BY <1>5, MaxOfTwo, MinOfTwo DEF Sends
  <2>3. Sends(v, u) <= Sends(x, y) /\ Sends(v, u) \in Int /\ Sends(x, y) \in Int
    BY SendsGrows
  <2>4. 2 + Sends(v - 1, w) = Sends(v, u)
    BY <1>3, <1>4, <2>1, <2>2
  <2>5. QED  BY <1>3, <1>4, <2>3, <2>4 DEF w
<1>6. CASE u < v
  <2>1. w = v - 1  BY <1>1, <1>6
  <2>2. Sends(v, -1) = v * (v + 3) - 2
    <3>1. Max({v, -1}) = v /\ Min({v, -1}) = -1  BY MaxOfTwo, MinOfTwo
    <3>2. v * (v + 3) \in Int  OBVIOUS
    <3>3. QED  BY <3>1, <3>2 DEF Sends
  <2>3. Sends(v, -1) <= Sends(x, y) /\ Sends(v, -1) \in Int /\ Sends(x, y) \in Int
    BY SendsGrows
  <2>4. (v - 1) * (v - 1 + 3) = v * (v + 3) - 2 * v - 2  OBVIOUS
  <2>5. v * (v + 3) \in Int /\ (v - 1) * (v - 1 + 3) \in Int  OBVIOUS
  <2>6. 2 + Sends(v - 1, w) = Sends(v, -1)
    BY <1>3, <2>1, <2>2, <2>4, <2>5
  <2>7. QED  BY <1>3, <1>4, <2>3, <2>6 DEF w
<1>7. QED  BY <1>5, <1>6

(* What a caller holds is at least what is left but one, and at most that *)
(* of a whole day.                                                        *)
LEMMA HoldsIs ==
  ASSUME TypeOK, NEW c \in Caller
  PROVE  /\ Left \in Nat /\ Left <= Total /\ Total \in Nat /\ Total >= 1
         /\ Writes(c) \in Int /\ -1 <= Writes(c) /\ Writes(c) <= Total - 1
         /\ Holds(c) = (IF Writes(c) >= Left - 1 THEN Writes(c) ELSE Left - 1)
         /\ Holds(c) \in Int /\ -1 <= Holds(c) /\ Holds(c) <= Total - 1
         /\ Writes(c) <= Holds(c) /\ Left - 1 <= Holds(c)
<1>1. Left \in Nat /\ Left <= Total /\ Total \in Nat /\ Total >= 1  BY Numbers
<1>2. Writes(c) \in Int /\ -1 <= Writes(c) /\ Writes(c) <= Total - 1
  <2>1. old[c] \in 0 .. Total - 1 /\ (pc[c] = "set" => old[c] > 0)  BY DEF TypeOK
  <2>2. QED  BY <1>1, <2>1 DEF Writes
<1>3. Holds(c) = IF Writes(c) >= Left - 1 THEN Writes(c) ELSE Left - 1
  BY <1>1, <1>2, MaxOfTwo DEF Holds
<1>4. QED  BY <1>1, <1>2, <1>3

(* It does not matter which of the two is which. *)
LEMMA PairIsSymmetric ==
  ASSUME TypeOK, NEW c \in Caller, NEW d \in Caller, Pair(c, d)
  PROVE  Pair(d, c)
<1>1. Holds(c) \in Int /\ Holds(d) \in Int  BY HoldsIs
<1>2. Sends(Holds(c), Holds(d)) = Sends(Holds(d), Holds(c))
  BY <1>1, SendsSymmetric
<1>3. Sends(Holds(c), Holds(d)) \in Int  BY HoldsIs, SendsGrows
<1>4. Ahead(c, d) = Ahead(d, c)  BY <1>2, <1>3 DEF Ahead, Due
<1>5. QED  BY <1>4 DEF Pair

(* The steps of c that leave the key alone. *)
LEMMA PairKeeps ==
  ASSUME TypeOK, NEW c \in Caller, NEW d \in Caller, Pair(c, d), tok' = tok,
         \A e \in Caller \ {c} : pc'[e] = pc[e] /\ old'[e] = old[e],
         today' \in Nat, unpaid' \in Nat,
         NEW x \in Int, -1 <= x, Holds(c)' = x,
         2 * today' + Sends(x, Holds(d)) + Due(c)' - 2 * unpaid'
           <= 2 * today + Sends(Holds(c), Holds(d)) + Due(c) - 2 * unpaid
  PROVE  Pair(c, d)'
<1> DEFINE all == Total * (Total + 3)
           before == Sends(Holds(c), Holds(d))
           after == Sends(x, Holds(d))
<1>1. /\ c # d /\ \A e \in Caller \ {c, d} : pc[e] = "idle"
      /\ 2 * today + Ahead(c, d) <= all + 2 * unpaid
  BY DEF Pair
<1>2. Left' = Left  BY DEF Left
<1>3. Writes(d)' = Writes(d) /\ Due(d)' = Due(d)  BY <1>1 DEF Writes, Due, Owes
<1>4. Holds(d)' = Holds(d)  BY <1>2, <1>3 DEF Holds
<1>5. before \in Int /\ after \in Int
  <2>1. /\ Holds(c) \in Int /\ -1 <= Holds(c)
        /\ Holds(d) \in Int /\ -1 <= Holds(d)
    BY HoldsIs
  <2>2. QED  BY <2>1, SendsTyped
<1>6. Due(c) \in Int /\ Due(d) \in Int /\ Due(c)' \in Int  BY DEF Due
<1>7. all \in Int /\ today \in Nat /\ unpaid \in Nat  BY Numbers
<1>8. Ahead(c, d) = before + Due(c) + Due(d)  BY DEF Ahead
<1>9. Ahead(c, d)' = after + Due(c)' + Due(d)  BY <1>3, <1>4 DEF Ahead
<1>10. 2 * today' + after + Due(c)' - 2 * unpaid' <= 2 * today + before + Due(c) - 2 * unpaid
  OBVIOUS
<1> HIDE DEF all, before, after
<1>11. 2 * today' + Ahead(c, d)' <= all + 2 * unpaid'
  BY <1>1, <1>5, <1>6, <1>7, <1>8, <1>9, <1>10
<1>12. QED  BY <1>1, <1>11 DEF Pair, all

(* The write of c. *)
LEMMA PairWrites ==
  ASSUME TypeOK, NEW c \in Caller, NEW d \in Caller, Pair(c, d),
         pc[c] \in {"setFirst", "set"}, tok' = Writes(c),
         pc'[c] \in {"idle", "expire"}, UNCHANGED <<today, unpaid>>,
         \A e \in Caller \ {c} : pc'[e] = pc[e] /\ old'[e] = old[e]
  PROVE  Pair(c, d)'
<1> DEFINE all == Total * (Total + 3)
           before == Sends(Holds(c), Holds(d))
           v == Writes(c)
           u == Writes(d)
           after == Sends(v - 1, Max({u, v - 1}))
<1>1. /\ c # d /\ \A e \in Caller \ {c, d} : pc[e] = "idle"
      /\ 2 * today + Ahead(c, d) <= all + 2 * unpaid
  BY DEF Pair
<1>2. v \in Nat /\ v <= Total - 1
  <2>1. old[c] \in 0 .. Total - 1 /\ (pc[c] = "set" => old[c] > 0)  BY DEF TypeOK
  <2>2. v \in Int /\ v <= Total - 1 /\ Total \in Nat /\ Total >= 1  BY HoldsIs
  <2>3. CASE pc[c] = "setFirst"
    <3>1. v = Total - 1  BY <2>3 DEF Writes
    <3> HIDE DEF v
    <3>2. QED  BY <2>2, <3>1
  <2>4. CASE pc[c] = "set"
    <3>1. v = old[c] - 1 /\ old[c] > 0  BY <2>1, <2>4 DEF Writes
    <3> HIDE DEF v
    <3>2. QED  BY <2>1, <2>2, <3>1
  <2>5. QED  BY <2>3, <2>4
<1>3. tok' # None /\ Left' = v
  <2>1. v # None  BY <1>2, ConstantsAssumption
  <2>2. QED  BY <2>1 DEF Left
<1>4. Writes(c)' = -1 /\ Writes(d)' = u  BY <1>1 DEF Writes
<1>5. Holds(c)' = v - 1
  <2>1. Holds(c)' = Max({-1, v - 1})  BY <1>3, <1>4 DEF Holds
  <2>2. QED  BY <1>2, <2>1, MaxOfTwo
<1>6. Holds(d)' = Max({u, v - 1})  BY <1>3, <1>4 DEF Holds
<1>7. Due(c) = 0 /\ Due(c)' = 2  BY DEF Due, Owes
<1>8. Due(d) \in Int /\ Due(d)' \in Int /\ Due(d)' <= Due(d)
  BY <1>1, <1>3 DEF Due, Owes
<1>9. before \in Int  BY HoldsIs, SendsGrows
<1>10. 2 + after <= before /\ after \in Int
  <2>1. u \in Int /\ -1 <= u /\ u <= Holds(d) /\ Holds(d) \in Int /\ -1 <= Holds(d)
        /\ Holds(c) \in Int /\ v <= Holds(c)
    BY HoldsIs
  <2> HIDE DEF u, v
  <2>2. QED  BY <1>2, <2>1, SendsAfterWrite
<1>11. all \in Int /\ today \in Nat /\ unpaid \in Nat  BY Numbers
<1>12. Ahead(c, d) = before + Due(c) + Due(d)  BY DEF Ahead
<1>13. Ahead(c, d)' = after + Due(c)' + Due(d)'  BY <1>5, <1>6 DEF Ahead
<1> HIDE DEF all, before, after
<1>14. 2 * today' + Ahead(c, d)' <= all + 2 * unpaid'
  BY <1>1, <1>7, <1>8, <1>9, <1>10, <1>11, <1>12, <1>13
<1>15. QED  BY <1>1, <1>14 DEF Pair, all

(* Steps after which c holds no more than before, and owes a message less  *)
(* if one was delivered.                                                   *)
LEMMA PairSettles ==
  ASSUME TypeOK, NEW c \in Caller, NEW d \in Caller, Pair(c, d), tok' = tok,
         \A e \in Caller \ {c} : pc'[e] = pc[e] /\ old'[e] = old[e],
         today' \in Nat, unpaid' \in Nat,
         NEW w \in Int, -1 <= w, w <= Holds(c), Writes(c)' = w,
         2 * today' + Due(c)' - 2 * unpaid' <= 2 * today + Due(c) - 2 * unpaid
  PROVE  Pair(c, d)'
<1>1. /\ Left \in Nat /\ Holds(c) \in Int /\ -1 <= Holds(c) /\ Left - 1 <= Holds(c)
      /\ Holds(d) \in Int /\ -1 <= Holds(d)
  BY HoldsIs
<1> DEFINE x == Max({w, Left - 1})
           y == Holds(d)
           z == Holds(c)
<1>2. x \in Int /\ -1 <= x /\ x <= Holds(c)  BY <1>1, MaxOfTwo
<1>3. Holds(c)' = x  BY DEF Holds, Left
<1>4. Sends(x, y) <= Sends(z, y) /\ Sends(x, y) \in Int /\ Sends(z, y) \in Int
  <2> HIDE DEF x, y, z
  <2>1. y \in Int /\ -1 <= y /\ y <= y /\ z \in Int /\ x <= z  BY <1>1, <1>2 DEF y, z
  <2>2. QED  BY <1>2, <2>1, SendsGrows
<1>5. /\ today \in Nat /\ unpaid \in Nat /\ Due(c) \in Int /\ Due(c)' \in Int
  BY Numbers DEF Due
<1>6. 2 * today' + Due(c)' - 2 * unpaid' <= 2 * today + Due(c) - 2 * unpaid
  OBVIOUS
<1> HIDE DEF x, y, z
<1>7. 2 * today' + Sends(x, y) + Due(c)' - 2 * unpaid'
        <= 2 * today + Sends(z, y) + Due(c) - 2 * unpaid
  BY <1>4, <1>5, <1>6
<1>8. QED  BY <1>2, <1>3, <1>7, PairKeeps DEF y, z

(* A call whose message finds no token left is as good as one over. *)
LEMMA PairFindsNothing ==
  ASSUME TypeOK, NEW c \in Caller, NEW d \in Caller, Pair(c, d), tok' = tok,
         \A e \in Caller \ {c} : pc'[e] = pc[e] /\ old'[e] = old[e],
         UNCHANGED <<today, unpaid>>,
         pc[c] = "takeGet", tok = 0, pc'[c] = "idle"
  PROVE  Pair(c, d)'
<1> DEFINE y == Holds(d)
<1>1. y \in Int /\ -1 <= y  BY HoldsIs
<1>2. None # 0 /\ today \in Nat /\ unpaid \in Nat  BY Numbers, ConstantsAssumption
<1>3. Left = 0 /\ Left' = 0  BY <1>2 DEF Left
<1>4. Writes(c) = 0 /\ Writes(c)' = -1  BY DEF Writes
<1>5. Holds(c) = 0 /\ Holds(c)' = -1
  <2>1. Holds(c) = Max({0, -1}) /\ Holds(c)' = Max({-1, -1})
    BY <1>3, <1>4 DEF Holds
  <2>2. QED  BY <2>1, MaxOfTwo
<1>6. Due(c) = 0 /\ Due(c)' = 2  BY <1>2 DEF Due, Owes
<1> HIDE DEF y
<1>7. 2 + Sends(-1, y) = Sends(0, y) /\ Sends(-1, y) \in Int
  <2>1. Max({-1, y}) = y /\ Min({-1, y}) = -1  BY <1>1, MaxOfTwo, MinOfTwo
  <2>2. y * (y + 3) \in Int  BY <1>1
  <2>3. Sends(-1, y) = y * (y + 3) - 2  BY <2>1, <2>2 DEF Sends
  <2>4. CASE y = -1
    <3>1. Max({0, y}) = 0 /\ Min({0, y}) = -1  BY <2>4, MaxOfTwo, MinOfTwo
    <3>2. Sends(0, y) = -2  BY <3>1 DEF Sends
    <3>3. y * (y + 3) = -2  BY <2>4
    <3>4. QED  BY <2>3, <3>2, <3>3
  <2>5. CASE y # -1
    <3>1. Max({0, y}) = y /\ Min({0, y}) = 0  BY <1>1, <2>5, MaxOfTwo, MinOfTwo
    <3>2. Sends(0, y) = y * (y + 3)  BY <2>2, <3>1 DEF Sends
    <3>3. QED  BY <2>2, <2>3, <3>2
  <2>6. QED  BY <2>4, <2>5
<1>8. 2 * today' + Sends(-1, y) + Due(c)' - 2 * unpaid'
        <= 2 * today + Sends(Holds(c), y) + Due(c) - 2 * unpaid
  BY <1>2, <1>5, <1>6, <1>7
<1>9. QED  BY <1>2, <1>5, <1>8, PairKeeps DEF y

(* What each step of a call does to the counts of the day. *)
LEMMA PairActs ==
  ASSUME TypeOK, TypeOK', NEW c \in Caller, NEW d \in Caller, Pair(c, d),
         Progress(c) \/ Fault(c)
  PROVE  Pair(c, d)'
<1>1. /\ today \in Nat /\ unpaid \in Nat /\ today' \in Nat /\ unpaid' \in Nat
      /\ None \notin Nat /\ Total \in Nat /\ Total >= 1
  BY Numbers DEF TypeOK
<1>2. /\ Left \in Nat /\ Left - 1 <= Holds(c) /\ Writes(c) <= Holds(c)
      /\ -1 <= Writes(c) /\ Writes(c) \in Int /\ Holds(c) \in Int /\ -1 <= Holds(c)
  BY HoldsIs
<1>3. ASSUME \/ Return(c)
             \/ UNCHANGED old /\ \E where : Goto(c, where)
      PROVE  \A e \in Caller \ {c} : pc'[e] = pc[e] /\ old'[e] = old[e]
  BY <1>3 DEF Return, Goto, TypeOK
<1>4. ASSUME Return(c), tok' = tok, UNCHANGED <<today, unpaid>>, Owes(c)
      PROVE  Pair(c, d)'
  <2>1. pc'[c] = "idle"  BY <1>4 DEF Return, Goto, TypeOK
  <2>2. Writes(c)' = -1 /\ Due(c)' = 2 /\ Due(c) = 2
    BY <1>4, <2>1 DEF Writes, Due, Owes
  <2>3. QED  BY <1>1, <1>2, <1>3, <1>4, <2>2, PairSettles
(* A call that fails before it took a token owes one from then on. *)
<1>5. ASSUME Return(c), tok' = tok, today' = today, unpaid' = unpaid + 1
      PROVE  Pair(c, d)'
  <2>1. pc'[c] = "idle"  BY <1>5 DEF Return, Goto, TypeOK
  <2>2. Writes(c)' = -1 /\ Due(c)' = 2 /\ Due(c) \in {0, 2}
    BY <2>1 DEF Writes, Due, Owes
  <2>3. 2 * today' + Due(c)' - 2 * unpaid' <= 2 * today + Due(c) - 2 * unpaid
    BY <1>1, <1>5, <2>2
  <2>4. QED  BY <1>1, <1>2, <1>3, <1>5, <2>2, <2>3, PairSettles
(* A step of which only the place matters. *)
<1>6. ASSUME NEW where \in Pc, Goto(c, where), UNCHANGED <<tok, old, today, unpaid>>,
             Writes(c)' \in Int, -1 <= Writes(c)', Writes(c)' <= Holds(c),
             Due(c)' = Due(c)
      PROVE  Pair(c, d)'
  <2>1. Due(c) \in Int  BY DEF Due
  <2>2. 2 * today' + Due(c)' - 2 * unpaid' <= 2 * today + Due(c) - 2 * unpaid
    BY <1>1, <1>6, <2>1
  <2>3. QED  BY <1>1, <1>3, <1>6, <2>2, PairSettles
<1>7. CASE Exists(c)
  <2>1. /\ pc[c] = "exists" /\ UNCHANGED <<tok, old, today, unpaid>>
        /\ Goto(c, IF tok = None THEN "post" ELSE "get")
    BY <1>7 DEF Exists, token, day
  <2>2. pc'[c] = IF tok = None THEN "post" ELSE "get"
    BY <2>1 DEF Goto, TypeOK
  <2>3. Due(c)' = 2 /\ Due(c) = 2  BY <2>1, <2>2 DEF Due, Owes
  <2>4. CASE tok = None
    <3>1. Writes(c)' = 0  BY <2>2, <2>4 DEF Writes
    <3>2. 0 <= Holds(c)  BY <1>1, <1>2, <2>4 DEF Left
    <3>3. QED  BY <1>6, <2>1, <2>3, <2>4, <3>1, <3>2 DEF Pc
  <2>5. CASE tok # None
    <3>1. Writes(c)' = -1  BY <2>2, <2>5 DEF Writes
    <3>2. QED  BY <1>2, <1>6, <2>1, <2>3, <2>5, <3>1 DEF Pc
  <2>6. QED  BY <2>4, <2>5
<1>8. CASE Get(c)
  <2>1. pc[c] = "get" /\ UNCHANGED <<tok, today, unpaid>>
    BY <1>8 DEF Get, token, day
  <2>2. CASE tok \in {None, 0}
    BY <1>4, <1>8, <2>1, <2>2 DEF Get, Owes
  <2>3. CASE tok \notin {None, 0}
    <3>1. Goto(c, "post") /\ UNCHANGED old  BY <1>8, <2>3 DEF Get
    <3>2. pc'[c] = "post"  BY <3>1 DEF Goto, TypeOK
    <3>3. Writes(c)' = 0 /\ Due(c)' = 2 /\ Due(c) = 2
      BY <2>1, <3>2 DEF Writes, Due, Owes
    <3>4. 0 <= Holds(c)  BY <1>1, <1>2, <2>3 DEF Left
    <3>5. QED  BY <1>6, <2>1, <3>1, <3>3, <3>4 DEF Pc
  <2>4. QED  BY <2>2, <2>3
<1>9. CASE Post(c)
  <2>1. /\ pc[c] = "post" /\ Goto(c, "cache") /\ UNCHANGED <<tok, old, unpaid>>
        /\ today' = today + 1
    BY <1>9 DEF Post, Deliver, token
  <2>2. pc'[c] = "cache"  BY <2>1 DEF Goto, TypeOK
  <2>3. Writes(c)' = 0 /\ Writes(c) = 0 /\ Due(c)' = 0 /\ Due(c) = 2
    BY <2>1, <2>2 DEF Writes, Due, Owes
  <2>4. 2 * today' + Due(c)' - 2 * unpaid' <= 2 * today + Due(c) - 2 * unpaid
    BY <1>1, <2>1, <2>3
  <2>5. QED  BY <1>1, <1>2, <1>3, <2>1, <2>3, <2>4, PairSettles
<1>10. CASE PostFails(c)
  <2>1. /\ pc[c] = "post" /\ Return(c) /\ tok' = tok
        /\ \/ today' = today + 1 /\ unpaid' = unpaid + 1
           \/ UNCHANGED <<today, unpaid>>
    BY <1>10 DEF PostFails, Deliver, token
  <2>2. pc'[c] = "idle"  BY <2>1 DEF Return, Goto, TypeOK
  <2>3. Writes(c)' = -1 /\ Due(c)' = 2 /\ Due(c) = 2
    BY <2>1, <2>2 DEF Writes, Due, Owes
  <2>4. 2 * today' + Due(c)' - 2 * unpaid' <= 2 * today + Due(c) - 2 * unpaid
    <3>1. CASE UNCHANGED <<today, unpaid>>  BY <1>1, <2>3, <3>1
    <3>2. CASE today' = today + 1 /\ unpaid' = unpaid + 1  BY <1>1, <2>3, <3>2
    <3>3. QED  BY <2>1, <3>1, <3>2
  <2>5. QED  BY <1>1, <1>2, <1>3, <2>1, <2>3, <2>4, PairSettles
<1>11. CASE Cache(c)
  <2>1. pc[c] = "cache" /\ Goto(c, "takeExists") /\ UNCHANGED <<tok, old, today, unpaid>>
    BY <1>11 DEF Cache, token, day
  <2>2. pc'[c] = "takeExists"  BY <2>1 DEF Goto, TypeOK
  <2>3. Writes(c)' = 0 /\ Writes(c) = 0 /\ Due(c)' = 0 /\ Due(c) = 0
    BY <2>1, <2>2 DEF Writes, Due, Owes
  <2>4. QED  BY <1>2, <1>6, <2>1, <2>3 DEF Pc
<1>12. CASE CacheFails(c)
  BY <1>5, <1>12 DEF CacheFails, token
<1>13. CASE TakeExists(c)
  <2>1. /\ pc[c] = "takeExists" /\ UNCHANGED <<tok, old, today, unpaid>>
        /\ Goto(c, IF tok = None THEN "setFirst" ELSE "takeGet")
    BY <1>13 DEF TakeExists, token, day
  <2>2. pc'[c] = IF tok = None THEN "setFirst" ELSE "takeGet"
    BY <2>1 DEF Goto, TypeOK
  <2>3. Due(c)' = 0 /\ Due(c) = 0  BY <2>1, <2>2 DEF Due, Owes
  <2>4. CASE tok = None
    <3>1. Writes(c)' = Total - 1  BY <2>2, <2>4 DEF Writes
    <3>2. Total - 1 <= Holds(c)  BY <1>2, <2>4 DEF Left
    <3>3. QED  BY <1>1, <1>6, <2>1, <2>3, <2>4, <3>1, <3>2 DEF Pc
  <2>5. CASE tok # None
    <3>1. Writes(c)' = 0 /\ Writes(c) = 0  BY <2>1, <2>2, <2>5 DEF Writes
    <3>2. QED  BY <1>2, <1>6, <2>1, <2>3, <2>5, <3>1 DEF Pc
  <2>6. QED  BY <2>4, <2>5
<1>14. CASE TakeNothing(c)
  <2>1. /\ pc[c] = "takeGet" /\ tok \in {None, 0} /\ Return(c)
        /\ UNCHANGED <<tok, today, unpaid>>
    BY <1>14 DEF TakeNothing, token, day
  <2>2. CASE tok = None  BY <1>4, <2>1, <2>2 DEF Owes
  <2>3. CASE tok = 0
    <3>1. pc'[c] = "idle"  BY <2>1 DEF Return, Goto, TypeOK
    <3>2. QED  BY <1>3, <2>1, <2>3, <3>1, PairFindsNothing
  <2>4. QED  BY <2>1, <2>2, <2>3
<1>15. CASE TakeGet(c)
  <2>1. /\ pc[c] = "takeGet" /\ tok \notin {None, 0} /\ Goto(c, "set")
        /\ old' = [old EXCEPT ![c] = tok] /\ UNCHANGED <<tok, today, unpaid>>
    BY <1>15 DEF TakeGet, token, day
  <2>2. pc'[c] = "set" /\ old'[c] = tok /\ tok \in Nat
    BY <2>1 DEF Goto, TypeOK
  <2>3. Due(c)' = 0 /\ Due(c) = 0  BY <2>1, <2>2 DEF Due, Owes
  <2>4. Writes(c)' = tok - 1  BY <2>2 DEF Writes
  <2>5. tok - 1 <= Holds(c) /\ -1 <= tok - 1 /\ tok - 1 \in Int
    BY <1>2, <2>1, <2>2 DEF Left
  <2>6. \A e \in Caller \ {c} : pc'[e] = pc[e] /\ old'[e] = old[e]
    BY <2>1 DEF Goto, TypeOK
  <2>7. 2 * today' + Due(c)' - 2 * unpaid' <= 2 * today + Due(c) - 2 * unpaid
    BY <1>1, <2>1, <2>3
  <2>8. QED  BY <1>1, <2>1, <2>4, <2>5, <2>6, <2>7, PairSettles
<1>16. CASE SetFirst(c)
  <2>1. /\ pc[c] = "setFirst" /\ tok' = Total - 1 /\ Goto(c, "expire")
        /\ UNCHANGED <<old, today, unpaid>>
    BY <1>16 DEF SetFirst, SetToken, day
  <2>2. tok' = Writes(c) /\ pc'[c] = "expire"  BY <2>1 DEF Writes, Goto, TypeOK
  <2>3. QED  BY <1>3, <2>1, <2>2, PairWrites
<1>17. CASE Set(c)
  <2>1. /\ pc[c] = "set" /\ tok' = old[c] - 1 /\ Goto(c, "expire")
        /\ UNCHANGED <<old, today, unpaid>>
    BY <1>17 DEF Set, SetToken, day
  <2>2. tok' = Writes(c) /\ pc'[c] = "expire"  BY <2>1 DEF Writes, Goto, TypeOK
  <2>3. QED  BY <1>3, <2>1, <2>2, PairWrites
<1>18. CASE Expire(c)
  BY <1>4, <1>18 DEF Expire, day, Owes
<1>19. CASE CheckFails(c)
  BY <1>4, <1>19 DEF CheckFails, token, day, Owes
<1>20. CASE TakeFails(c)
  <2>1. Return(c) /\ today' = today  BY <1>20 DEF TakeFails
  <2>2. CASE UNCHANGED token /\ unpaid' = unpaid + 1
    BY <1>5, <2>1, <2>2 DEF token
  <2>3. CASE pc[c] = "expire" /\ LeaveUnexpired /\ UNCHANGED unpaid
    BY <1>4, <2>1, <2>3 DEF LeaveUnexpired, Owes
  <2>4. CASE /\ pc[c] \in {"setFirst", "set"} /\ UNCHANGED unpaid
             /\ tok' = IF pc[c] = "set" THEN old[c] - 1 ELSE Total - 1
    <3>1. tok' = Writes(c)  BY <2>4 DEF Writes
    <3>2. pc'[c] = "idle"  BY <2>1 DEF Return, Goto, TypeOK
    <3>3. QED  BY <1>3, <2>1, <2>4, <3>1, <3>2, PairWrites
  <2>5. QED  BY <1>20, <2>2, <2>3, <2>4 DEF TakeFails
<1>21. CASE Crash(c)
  <2>1. Return(c) /\ UNCHANGED <<tok, today>>
    BY <1>21 DEF Crash, LeaveUnexpired, token
  <2>2. \/ unpaid' = unpaid + 1
        \/ unpaid' = unpaid /\ Owes(c)
    BY <1>21 DEF Crash, TypeOK, Pc, Owes
  <2>3. QED  BY <1>4, <1>5, <2>1, <2>2
<1>22. QED
  BY <1>7, <1>8, <1>9, <1>10, <1>11, <1>12, <1>13, <1>14, <1>15, <1>16, <1>17,
     <1>18, <1>19, <1>20, <1>21 DEF Progress, Fault

(* Two callers that hold less than a day's tokens send no more than that *)
(* each way.                                                             *)
LEMMA SendsOfADay ==
  ASSUME NEW t \in Nat, NEW x \in Int, NEW y \in Int,
         -1 <= x, x <= t - 1, -1 <= y, y <= t - 1
  PROVE  Sends(x, y) \in Int /\ Sends(x, y) + 4 <= t * (t + 3)
<1>1. Sends(x, y) <= Sends(t - 1, t - 1) /\ Sends(x, y) \in Int
      /\ Sends(t - 1, t - 1) \in Int
  BY SendsGrows
<1>2. Sends(t - 1, t - 1) = 2 * (t - 1) + (t - 1) * (t - 1 + 3)
  <2>1. Max({t - 1, t - 1}) = t - 1 /\ Min({t - 1, t - 1}) = t - 1
    BY MaxOfTwo, MinOfTwo
  <2>2. QED  BY <2>1, Zenon DEF Sends
<1>3. (t - 1) * (t - 1 + 3) = t * (t + 3) - 2 * t - 2  OBVIOUS
<1>4. t * (t + 3) \in Int /\ (t - 1) * (t - 1 + 3) \in Int  OBVIOUS
<1>5. QED  BY <1>1, <1>2, <1>3, <1>4

(* The day begins with all of it ahead. *)
LEMMA PairedInit == Init /\ TypeOK => Paired
<1> SUFFICES ASSUME Init, TypeOK PROVE Paired  OBVIOUS
<1>1. CASE \A c, d \in Caller : c = d  BY <1>1 DEF Paired, Init
<1>2. CASE \E c, d \in Caller : c # d
  <2>1. PICK c \in Caller, d \in Caller : c # d  BY <1>2
  <2>2. pc[c] = "idle" /\ pc[d] = "idle" /\ today = 0 /\ unpaid = 0
    BY DEF Init
  <2>3. Due(c) = 2 /\ Due(d) = 2  BY <2>2 DEF Due, Owes
  <2>4. Total \in Nat  BY HoldsIs
  <2> DEFINE x == Holds(c)
             y == Holds(d)
  <2>5. /\ x \in Int /\ -1 <= x /\ x <= Total - 1
        /\ y \in Int /\ -1 <= y /\ y <= Total - 1
    BY HoldsIs
  <2>6. Ahead(c, d) = Sends(x, y) + 2 + 2  BY <2>3 DEF Ahead
  <2> HIDE DEF x, y
  <2>7. Sends(x, y) \in Int /\ Sends(x, y) + 4 <= Total * (Total + 3)
    BY <2>4, <2>5, SendsOfADay
  <2>8. Total * (Total + 3) \in Int  BY <2>4
  <2>9. 2 * today + Ahead(c, d) <= Total * (Total + 3) + 2 * unpaid
    BY <2>2, <2>6, <2>7, <2>8
  <2>10. Pair(c, d)  BY <2>1, <2>9 DEF Pair, Init
  <2>11. QED  BY <1>2, <2>10 DEF Paired
<1>3. QED  BY <1>1, <1>2

(* A new call takes the place of one that is over. *)
LEMMA PairJoins ==
  ASSUME TypeOK, NEW c \in Caller, NEW d \in Caller, Pair(c, d),
         pc[c] = "idle", NEW e \in Caller, e # d, Send(e)
  PROVE  Pair(e, d)'
<1> DEFINE all == Total * (Total + 3)
<1>1. /\ c # d /\ \A f \in Caller \ {c, d} : pc[f] = "idle"
      /\ 2 * today + Ahead(c, d) <= all + 2 * unpaid
  BY DEF Pair
<1>2. /\ UNCHANGED <<tok, old, today, unpaid>>
      /\ pc'[e] = "exists" /\ \A f \in Caller \ {e} : pc'[f] = pc[f]
  BY DEF Send, Goto, token, TypeOK
<1>3. Left' = Left  BY <1>2 DEF Left
<1>4. Writes(c) = -1 /\ Writes(e)' = -1 /\ Due(c) = 2 /\ Due(e)' = 2
  BY <1>2 DEF Writes, Due, Owes
<1>5. Writes(d)' = Writes(d) /\ Due(d)' = Due(d)
  BY <1>2 DEF Writes, Due, Owes
<1>6. Holds(e)' = Holds(c) /\ Holds(d)' = Holds(d)
  BY <1>3, <1>4, <1>5 DEF Holds
<1>7. Ahead(e, d)' = Ahead(c, d)  BY <1>4, <1>5, <1>6 DEF Ahead
<1>8. \A f \in Caller \ {e, d} : pc'[f] = "idle"  BY <1>1, <1>2
<1>9. 2 * today' + Ahead(e, d)' <= all + 2 * unpaid'  BY <1>1, <1>2, <1>7
<1>10. QED  BY <1>8, <1>9 DEF Pair

(* The calls in progress at midnight are the new day's first. *)
LEMMA PairOfANewDay ==
  ASSUME TypeOK, TypeOK', NEW c \in Caller, NEW d \in Caller, c # d,
         Active \subseteq {c, d}, Midnight
  PROVE  Pair(c, d)'
<1>1. UNCHANGED <<pc, old>> /\ today' = 0 /\ unpaid' = 0  BY DEF Midnight
<1>2. Total \in Nat /\ Total >= 1 /\ None \notin Nat  BY Numbers
<1>3. Left' \in Nat /\ Left' <= Total
  <2>1. tok' \in {None} \union 0 .. Total - 1  BY DEF TypeOK
  <2>2. QED  BY <1>2, <2>1 DEF Left
<1>4. ASSUME NEW e \in Caller
      PROVE  /\ Holds(e)' \in Int /\ -1 <= Holds(e)' /\ Holds(e)' <= Total - 1
             /\ Due(e)' \in {0, 2}
  <2>1. old'[e] \in 0 .. Total - 1  BY DEF TypeOK
  <2>2. Writes(e)' \in Int /\ -1 <= Writes(e)' /\ Writes(e)' <= Total - 1
    BY <1>2, <2>1 DEF Writes
  <2> DEFINE w == Writes(e)'
             l == Left' - 1
  <2>3. Holds(e)' = Max({w, l})  BY DEF Holds
  <2>4. w \in Int /\ -1 <= w /\ w <= Total - 1
    BY <2>2
  <2>5. l \in Int /\ -1 <= l /\ l <= Total - 1
    <3> DEFINE n == Left'
    <3>1. n \in Nat /\ n <= Total /\ l = n - 1  BY <1>3
    <3> HIDE DEF n, l
    <3>2. QED  BY <1>2, <3>1
  <2>6. Due(e)' \in {0, 2}  BY DEF Due
  <2> HIDE DEF w, l
  <2>7. QED  BY <1>2, <2>3, <2>4, <2>5, <2>6, MaxOfTwo
<1> DEFINE x == Holds(c)'
           y == Holds(d)'
           all == Total * (Total + 3)
<1>5. /\ x \in Int /\ -1 <= x /\ x <= Total - 1
      /\ y \in Int /\ -1 <= y /\ y <= Total - 1
      /\ Due(c)' \in {0, 2} /\ Due(d)' \in {0, 2}
  BY <1>4
<1>6. Ahead(c, d)' = Sends(x, y) + Due(c)' + Due(d)'  BY DEF Ahead
<1> HIDE DEF x, y
<1>7. Sends(x, y) \in Int /\ Sends(x, y) + 4 <= all
  BY <1>2, <1>5, SendsOfADay
<1>8. all \in Int  BY <1>2
<1> HIDE DEF all
<1>9. 2 * today' + Ahead(c, d)' <= all + 2 * unpaid'
  BY <1>1, <1>5, <1>6, <1>7, <1>8
<1>10. \A e \in Caller \ {c, d} : pc'[e] = "idle"  BY <1>1 DEF Active
<1>11. QED  BY <1>9, <1>10 DEF Pair, all

(* Of at most two calls in progress both are those of some two callers. *)
LEMMA TwoCover ==
  ASSUME Cardinality(Active) <= 2, NEW a \in Caller, NEW b \in Caller, a # b
  PROVE  \E c, d \in Caller : c # d /\ Active \subseteq {c, d}
<1>1. /\ IsFiniteSet(Active) /\ Cardinality(Active) \in Nat
      /\ Active \subseteq Caller
  BY ActiveFinite DEF Active
<1>2. CASE Active = {}  BY <1>2
<1>3. CASE Active # {}
  <2>1. PICK c \in Active : TRUE  BY <1>3
  <2> DEFINE rest == Active \ {c}
  <2>2. IsFiniteSet(rest) /\ Cardinality(rest) = Cardinality(Active) - 1
    BY <1>1, <2>1, FS_RemoveElement
  <2>3. Cardinality(rest) = 0 \/ Cardinality(rest) = 1
    BY <1>1, <2>2, FS_CardinalityType
  <2>4. rest = {} \/ \E d : rest = {d}
    BY <2>2, <2>3, FS_EmptySet, FS_Singleton
  <2>5. CASE rest = {}
    <3>1. Active \subseteq {c, a} /\ Active \subseteq {c, b}  BY <2>5
    <3>2. QED  BY <1>1, <2>1, <3>1
  <2>6. CASE \E d : rest = {d}
    <3>1. PICK d : rest = {d}  BY <2>6
    <3>2. d \in Active /\ d # c /\ Active \subseteq {c, d}  BY <3>1
    <3>3. QED  BY <1>1, <2>1, <3>2
  <2>7. QED  BY <2>4, <2>5, <2>6
<1>4. QED  BY <1>2, <1>3

(* A caller that sends is, or takes the place of, one of the two. *)
LEMMA PairSends ==
  ASSUME TypeOK, NEW c \in Caller, NEW d \in Caller, Pair(c, d),
         Cardinality(Active) <= 1, NEW e \in Caller, Send(e)
  PROVE  \E x, y \in Caller : Pair(x, y)'
<1>1. c # d /\ pc[e] = "idle"  BY DEF Pair, Send
<1>2. Pair(d, c)  BY PairIsSymmetric
<1>3. pc[c] = "idle" \/ pc[d] = "idle"
  <2>1. IsFiniteSet(Active) /\ Cardinality(Active) \in Nat  BY ActiveFinite
  <2>2. Cardinality(Active) = 0 \/ Cardinality(Active) = 1  BY <2>1
  <2>3. Active = {} \/ \E x : Active = {x}
    BY <2>1, <2>2, FS_EmptySet, FS_Singleton
  <2>4. QED  BY <1>1, <2>3 DEF Active
<1>4. CASE e = d  BY <1>1, <1>2, <1>4, PairJoins
<1>5. CASE e = c  BY <1>1, <1>5, PairJoins
<1>6. CASE e # c /\ e # d  BY <1>2, <1>3, <1>6, PairJoins
<1>7. QED  BY <1>4, <1>5, <1>6

(* One caller makes one call at a time. *)
LEMMA OneCaller ==
  ASSUME TypeOK, [Next]_vars, \A c, d \in Caller : c = d, atOnce <= 1
  PROVE  atOnce' <= 1
<1>1. IsFiniteSet(Active) /\ Cardinality(Active) \in Nat  BY ActiveFinite
<1>2. Cardinality(Active) <= 1
  <2>1. CASE Active = {}  BY <2>1, ActiveFinite
  <2>2. CASE Active # {}
    <3>1. PICK x \in Active : TRUE  BY <2>2
    <3>2. Active = {x}  BY <3>1 DEF Active
    <3>3. QED  BY <3>2, FS_Singleton
  <2>3. QED  BY <2>1, <2>2
<1>3. ASSUME NEW c \in Caller, Send(c) PROVE atOnce' <= 1
  <2>1. Active = {}  BY <1>3 DEF Send, Active
  <2>2. Cardinality(Active) = 0  BY <2>1, ActiveFinite
  <2>3. atOnce' = Max({atOnce, Cardinality(Active) + 1}) /\ atOnce \in Nat
    BY <1>3 DEF Send, TypeOK
  <2>4. QED  BY <2>2, <2>3, MaxOfTwo
<1>4. CASE Midnight  BY <1>2, <1>4 DEF Midnight
<1>5. QED  BY <1>3, <1>4, ActiveStep

(* Step by step, what two callers can still send stays within the day's. *)
LEMMA PairedStays == TypeOK /\ TypeOK' /\ Paired /\ [Next]_vars => Paired'
<1> SUFFICES ASSUME TypeOK, TypeOK', Paired, [Next]_vars PROVE Paired'
  OBVIOUS
<1>1. CASE \A c, d \in Caller : c = d
  <2>1. atOnce' <= 1  BY <1>1, OneCaller DEF Paired
  <2>2. QED  BY <1>1, <2>1 DEF Paired
<1>2. CASE ~ \A c, d \in Caller : c = d
  <2> SUFFICES ASSUME atOnce' <= 2 PROVE \E c, d \in Caller : Pair(c, d)'
    BY <1>2 DEF Paired
  <2>1. CASE Midnight
    <3>1. PICK a \in Caller, b \in Caller : a # b  BY <1>2
    <3>2. Cardinality(Active) <= 2  BY <2>1 DEF Midnight
    <3>3. PICK c \in Caller, d \in Caller : c # d /\ Active \subseteq {c, d}
      BY <3>1, <3>2, TwoCover
    <3>4. Pair(c, d)'  BY <2>1, <3>3, PairOfANewDay
    <3>5. QED  BY <3>4
  <2>2. ASSUME NEW e \in Caller, Send(e)
        PROVE  \E c, d \in Caller : Pair(c, d)'
    <3>1. atOnce' = Max({atOnce, Cardinality(Active) + 1}) /\ atOnce \in Nat
          /\ Cardinality(Active) \in Nat
      BY <2>2, ActiveFinite DEF Send, TypeOK
    <3>2. atOnce <= 2 /\ Cardinality(Active) <= 1  BY <3>1, MaxOfTwo
    <3>3. PICK c \in Caller, d \in Caller : Pair(c, d)  BY <1>2, <3>2 DEF Paired
    <3>4. QED  BY <2>2, <3>2, <3>3, PairSends
  <2>3. ASSUME NEW e \in Caller, Progress(e) \/ Fault(e)
        PROVE  \E c, d \in Caller : Pair(c, d)'
    <3>1. atOnce' = atOnce /\ pc[e] # "idle"
      BY <2>3 DEF Progress, Fault, Exists, Get, Post, Cache, TakeExists,
                  SetFirst, TakeNothing, TakeGet, Set, Expire, CheckFails,
                  PostFails, CacheFails, TakeFails, Crash, day
    <3>2. PICK c \in Caller, d \in Caller : Pair(c, d)  BY <1>2, <3>1 DEF Paired
    <3>3. e = c \/ e = d  BY <3>1, <3>2 DEF Pair
    <3>4. Pair(d, c)  BY <3>2, PairIsSymmetric
    <3>5. Pair(c, d)' \/ Pair(d, c)'  BY <2>3, <3>2, <3>3, <3>4, PairActs
    <3>6. QED  BY <3>5
  <2>4. CASE Verify \/ Verdict \/ UNCHANGED vars
    <3>1. UNCHANGED <<tok, pc, old, today, unpaid, atOnce>>
      BY <2>4 DEF Verify, Verdict, vars, token, day
    <3>2. PICK c \in Caller, d \in Caller : Pair(c, d)  BY <1>2, <3>1 DEF Paired
    <3>3. Pair(c, d)'
      BY <3>1, <3>2 DEF Pair, Ahead, Holds, Left, Writes, Due, Owes
    <3>4. QED  BY <3>3
  <2>5. QED  BY <2>1, <2>2, <2>3, <2>4 DEF Next
<1>3. QED  BY <1>1, <1>2

(* What is ahead is not negative: a caller that holds nothing owes a *)
(* message.                                                          *)
LEMMA PairedBounds ==
  TypeOK /\ Paired /\ atOnce = 2 =>
    today <= (Total * (Total + 3)) \div 2 + unpaid
<1> SUFFICES ASSUME TypeOK, Paired, atOnce = 2
             PROVE  today <= (Total * (Total + 3)) \div 2 + unpaid
  OBVIOUS
<1>1. PICK c \in Caller, d \in Caller : Pair(c, d)  BY DEF Paired
<1> DEFINE x == Holds(c)
           y == Holds(d)
           all == Total * (Total + 3)
<1>2. x \in Int /\ -1 <= x /\ y \in Int /\ -1 <= y  BY HoldsIs
<1>3. ASSUME NEW e \in Caller
      PROVE  Due(e) \in {0, 2} /\ (Holds(e) = -1 => Due(e) = 2)
  <2>1. Due(e) \in {0, 2}  BY DEF Due
  <2>2. ASSUME Holds(e) = -1 PROVE Due(e) = 2
    <3>1. Writes(e) = -1  BY <2>2, HoldsIs
    <3>2. pc[e] \notin {"setFirst", "set", "post", "cache", "takeExists", "takeGet"}
      <4>1. Total \in Nat /\ Total >= 1 /\ (pc[e] = "set" => old[e] > 0 /\ old[e] \in Nat)
        BY Numbers DEF TypeOK
      <4>2. QED  BY <3>1, <4>1 DEF Writes
    <3>3. pc[e] \in Pc  BY DEF TypeOK
    <3>4. QED  BY <3>2, <3>3 DEF Due, Owes, Pc
  <2>3. QED  BY <2>1, <2>2
<1>4. /\ Due(c) \in {0, 2} /\ (x = -1 => Due(c) = 2)
      /\ Due(d) \in {0, 2} /\ (y = -1 => Due(d) = 2)
  BY <1>3
<1>5. Ahead(c, d) = Sends(x, y) + Due(c) + Due(d)
      /\ 2 * today + Ahead(c, d) <= all + 2 * unpaid
  BY <1>1 DEF Ahead, Pair
<1> HIDE DEF x, y
<1>6. Sends(x, y) + Due(c) + Due(d) >= 0 /\ Sends(x, y) \in Int
  <2> DEFINE m == IF x >= y THEN x ELSE y
             l == IF x <= y THEN x ELSE y
  <2>1. Sends(x, y) = 2 * l + m * (m + 3)
    <3>1. Max({x, y}) = m /\ Min({x, y}) = l  BY <1>2, MaxOfTwo, MinOfTwo
    <3> HIDE DEF m, l
    <3>2. QED  BY <3>1 DEF Sends
  <2>2. /\ m \in Int /\ l \in Int /\ -1 <= l /\ l <= m
        /\ (l = -1 => Due(c) = 2 \/ Due(d) = 2)
        /\ (m = -1 => Due(c) = 2 /\ Due(d) = 2)
    BY <1>2, <1>4
  <2> HIDE DEF m, l
  <2>3. CASE m = -1
    <3>1. m * (m + 3) = -2 /\ l = -1  BY <2>2, <2>3
    <3>2. QED  BY <2>1, <2>2, <2>3, <3>1
  <2>4. CASE m >= 0
    <3>1. m * (m + 3) >= 0 /\ m * (m + 3) \in Int
      <4>1. 0 * (0 + 3) <= m * (m + 3) /\ m * (m + 3) \in Int
        BY <2>2, <2>4, SquareGrows
      <4>2. 0 * (0 + 3) = 0  OBVIOUS
      <4>3. QED  BY <4>1, <4>2
    <3>2. QED  BY <1>4, <2>1, <2>2, <3>1
  <2>5. QED  BY <2>2, <2>3, <2>4
<1>7. today \in Nat /\ unpaid \in Nat /\ all \in Nat  BY Numbers
<1> HIDE DEF all
<1>8. 2 * today <= all + 2 * unpaid
  BY <1>4, <1>5, <1>6, <1>7
<1>9. today <= all \div 2 + unpaid  BY <1>7, <1>8
<1>10. QED  BY <1>9 DEF all
-----------------------------------------------------------------------------
LEMMA Inits == Init => SmsInv
<1> SUFFICES ASSUME Init PROVE SmsInv  OBVIOUS
<1>1. TypeOK
  <2>1. /\ last \in 0 .. MaxMsg /\ settled \in 0 .. last /\ today \in 0 .. last
        /\ old \in [Caller -> 0 .. Total - 1]
    BY ConstantsAssumption DEF Init
  <2>2. pc \in [Caller -> Pc] /\ msg \in [Caller -> {None} \union 1 .. last]
    BY DEF Init, Pc
  <2>3. atOnce \in Nat /\ Cardinality(Active) <= atOnce
    <3>1. Active = {} /\ atOnce = 0  BY DEF Init, Active
    <3>2. QED  BY <3>1, FS_EmptySet
  <2>4. QED  BY <2>1, <2>2, <2>3 DEF Init, TypeOK
<1>2. TokenExpires  BY DEF Init, TokenExpires
<1>3. Ordered  BY ConstantsAssumption DEF Init, Ordered, CurrentCodeChecked
<1>4. Alone  BY ConstantsAssumption DEF Init, Alone, Balanced, Left
<1>5. Paired  BY <1>1, PairedInit
<1>6. QED  BY <1>1, <1>2, <1>3, <1>4, <1>5 DEF SmsInv

LEMMA InvStep == SmsInv /\ [Next]_vars => SmsInv'
  BY TypeStep, ExpiryStep, OrderStep, AloneStays, PairedStays DEF SmsInv

LEMMA Invariance == Spec => []SmsInv
  BY Inits, InvStep, PTL DEF Spec

(* Every value has its type, and a call carries a message from its         *)
(* delivery on: the steps of send_short_message keep their order.          *)
THEOREM Types == Spec => []TypeOK
  BY Invariance, PTL DEF SmsInv

(* The key expires at midnight unless take_daily_token was cut off between *)
(* its SET and its EXPIRE.                                                 *)
THEOREM Expiry == Spec => []TokenExpires
  BY Invariance, PTL DEF SmsInv

(* verify_short_message asks about no older message than the newest that   *)
(* was stored while no other waited to be.                                 *)
THEOREM NewestCode == Spec => []CurrentCodeChecked
<1>1. SmsInv => CurrentCodeChecked  BY DEF SmsInv, Ordered
<1>2. QED  BY <1>1, Invariance, PTL

(* One call at a time sends no more messages a day than the tokens of the  *)
(* day, and two calls at once no more than they can hand each other back,  *)
(* besides those whose calls failed before they took one.                  *)
THEOREM Quota == Spec => []QuotaKept
<1>1. SmsInv => QuotaKept
  <2> SUFFICES ASSUME SmsInv PROVE QuotaKept  OBVIOUS
  <2>1. TypeOK /\ (atOnce <= 1 => Alone) /\ Paired  BY DEF SmsInv
  <2>2. atOnce <= 1 => today <= Total + unpaid
    <3> SUFFICES ASSUME atOnce <= 1 PROVE today <= Total + unpaid  OBVIOUS
    <3>1. CASE \A c \in Caller : pc[c] = "idle"
      BY <2>1, <3>1, Numbers DEF Alone, Balanced
    <3>2. CASE \E c \in Caller : pc[c] # "idle"
      <4>1. PICK c \in Caller : pc[c] # "idle"  BY <3>2
      <4>2. Accounted(c) /\ pc[c] \in Pc  BY <2>1, <4>1 DEF Alone, TypeOK
      <4>3. QED
        BY <2>1, <4>1, <4>2, Numbers DEF Accounted, Balanced, Pc
    <3>3. QED  BY <3>1, <3>2
  <2>3. atOnce = 2 => today <= (Total * (Total + 3)) \div 2 + unpaid
    BY <2>1, PairedBounds
  <2>4. QED  BY <2>2, <2>3 DEF QuotaKept
<1>2. QED  BY <1>1, Invariance, PTL

=============================================================================
