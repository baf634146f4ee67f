-------------------------- MODULE RoomStartupProofs --------------------------
(***************************************************************************)
(* Theorems about RoomStartup for any number of workers, users, kinds of   *)
(* flags and AI players, whatever faults occur and however far secondaries *)
(* lag.  How init_db sorts and groups the AI players is a fold over a list *)
(* of any length, beyond these proofs: GroupIsRoom says what comes out of  *)
(* it for the room, and the run startup checks that for every short list.  *)
(***************************************************************************)
EXTENDS RoomStartup, TLAPS, FiniteSetTheorems, SequenceTheorems

GroupIsRoom == IsRoomOf(Group, Players, Room)

USE DEF room, db, local

-----------------------------------------------------------------------------
(* The inductive invariants *)

(* As many flags of each kind are set in f as in g, up to n of them. *)
Within(f, g, n) ==
    \A k \in Kinds : Cardinality(f[k]) - Cardinality(g[k]) \in (-n) .. n

(* A lagging view has missed one commit more than those after it, each of  *)
(* which changes one flag.                                                 *)
ViewsClose ==
    \A i \in DOMAIN lagging : Within(lagging[i].on, on, Len(lagging) + 1 - i)

(* A count is off by no more than the commits it may have missed. *)
CountsClose ==
    \A w \in Worker : \A i \in DOMAIN counted[w] :
        counted[w][i] - Cardinality(on[Order[i]]) \in (-missed[w]) .. missed[w]

RecountInv == ViewsClose /\ CountsClose

(* After an undisturbed start has written n of the group, the assistants   *)
(* are its slaves so far, the last one first.                              *)
SlavesSoFar(n) ==
    /\ Len(assistants) = n - 1
    /\ \A i \in 1 .. n - 1 : assistants[i] = Group[n + 1 - i].id

AssistantsInv ==
    \A w \in Worker :
        current[w] /\ pc[w] \in {"read", "assist", "serving"} =>
            /\ SlavesSoFar(turn[w])
            /\ pc[w] = "assist" => found[w] = assistants

(* Once the room is open, the counter of each kind is off by no more than  *)
(* the commits its last recount missed and the half operations since.      *)
CountersClose ==
    opened =>
        \A k \in Kinds :
            cnt[k] - def.ai - Cardinality(on[k]) \in (-off[k]) .. off[k]

-----------------------------------------------------------------------------
(* Lemmas about the operators *)

LEMMA MaxOfTwo ==
    ASSUME NEW a \in Int, NEW b \in Int
    PROVE  Max({a, b}) = IF a >= b THEN a ELSE b
  BY DEF Max

(* The slaves of the group, from its second place on, are those of the     *)
(* room, each once.                                                        *)
LEMMA GroupFacts ==
    ASSUME GroupIsRoom
    PROVE  /\ Len(Group) \in Nat /\ Len(Group) >= 2
           /\ \A i \in 1 .. Len(Group) : IsMaster(Group[i]) <=> i = 1
           /\ \A i \in 2 .. Len(Group) : Group[i].id \in Slaves
           /\ \A s \in Slaves : \E i \in 2 .. Len(Group) : Group[i].id = s
           /\ IsFiniteSet(Slaves) /\ Cardinality(Slaves) = Len(Group) - 1
<1> DEFINE All == Range(Players)
           n == Len(Group)
<1>1. /\ Group \in Seq(All)
      /\ \A i, j \in DOMAIN Group : Group[i] = Group[j] => i = j
      /\ Range(Group) = {p \in All : p.room = Room}
      /\ \A i \in DOMAIN Group : IsMaster(Group[i]) <=> i = 1
  BY DEF GroupIsRoom, IsRoomOf, IsInjective
<1>2. n \in Nat /\ DOMAIN Group = 1 .. n  BY <1>1, LenProperties
<1>3. \A p, q \in All : p.id = q.id => p = q
  BY ConstantsAssumption DEF Range
<1>4. Slaves = {p.id : p \in {q \in All : q.room = Room /\ ~IsMaster(q)}}
  BY DEF Slaves, IsSlave, IsMaster
<1> HIDE DEF All, n
<1>5. \A i \in 1 .. n : Group[i] \in All /\ Group[i].room = Room
  BY <1>1, <1>2 DEF Range
<1>6. \A i \in 2 .. n : Group[i].id \in Slaves
  <2>1. ASSUME NEW i \in 2 .. n PROVE Group[i].id \in Slaves
    <3>1. i \in 1 .. n /\ i # 1  BY <1>2
    <3>2. ~IsMaster(Group[i])  BY <1>1, <1>2, <3>1
    <3>3. QED  BY <1>4, <1>5, <3>1, <3>2
  <2>2. QED  BY <2>1
<1>7. \A s \in Slaves : \E i \in 2 .. n : Group[i].id = s
  <2>1. ASSUME NEW s \in Slaves PROVE \E i \in 2 .. n : Group[i].id = s
    <3>1. PICK p \in All : p.room = Room /\ ~IsMaster(p) /\ p.id = s  BY <1>4
    <3>2. p \in Range(Group)  BY <1>1, <3>1
    <3>3. PICK i \in 1 .. n : Group[i] = p  BY <1>2, <3>2 DEF Range
    <3>4. i # 1  BY <1>1, <1>2, <3>1, <3>3
    <3>5. i \in 2 .. n  BY <1>2, <3>4
    <3>6. QED  BY <3>1, <3>3, <3>5
  <2>2. QED  BY <2>1
<1>8. n >= 2
  <2>1. PICK i \in 2 .. n : TRUE  BY <1>7, ConstantsAssumption
  <2>2. QED  BY <1>2, <2>1
<1> DEFINE f == [i \in 1 .. n - 1 |-> Group[i + 1].id]
<1>9. f \in [1 .. n - 1 -> Slaves]
  <2>1. ASSUME NEW i \in 1 .. n - 1 PROVE Group[i + 1].id \in Slaves
    <3>1. i + 1 \in 2 .. n  BY <1>2
    <3>2. QED  BY <1>6, <3>1
  <2>2. QED  BY <2>1
<1>10. \A i, j \in 1 .. n - 1 : f[i] = f[j] => i = j
  <2>1. ASSUME NEW i \in 1 .. n - 1, NEW j \in 1 .. n - 1, f[i] = f[j]
        PROVE  i = j
    <3>1. i + 1 \in 1 .. n /\ j + 1 \in 1 .. n  BY <1>2
    <3>2. Group[i + 1].id = Group[j + 1].id  BY <2>1
    <3>3. Group[i + 1] = Group[j + 1]  BY <1>3, <1>5, <3>1, <3>2
    <3>4. i + 1 = j + 1  BY <1>1, <1>2, <3>1, <3>3
    <3>5. QED  BY <3>4
  <2>2. QED  BY <2>1
<1>11. \A s \in Slaves : \E i \in 1 .. n - 1 : f[i] = s
  <2>1. ASSUME NEW s \in Slaves PROVE \E i \in 1 .. n - 1 : f[i] = s
    <3>1. PICK i \in 2 .. n : Group[i].id = s  BY <1>7
    <3>2. i - 1 \in 1 .. n - 1 /\ (i - 1) + 1 = i  BY <1>2
    <3>3. f[i - 1] = s  BY <3>1, <3>2
    <3>4. QED  BY <3>2, <3>3
  <2>2. QED  BY <2>1
<1> HIDE DEF f
<1>12. f \in Bijection(1 .. n - 1, Slaves)
  <2>1. f \in Injection(1 .. n - 1, Slaves)
    BY <1>9, <1>10 DEF Injection, IsInjective
  <2>2. f \in Surjection(1 .. n - 1, Slaves)
    BY <1>9, <1>11 DEF Surjection
  <2>3. QED  BY <2>1, <2>2 DEF Bijection
<1>13. ExistsBijection(1 .. n - 1, Slaves)  BY <1>12 DEF ExistsBijection
<1>14. n - 1 \in Nat  BY <1>2, <1>8
<1>15. Cardinality(Slaves) = n - 1  BY <1>13, <1>14, FS_CountingElements
<1>16. IsFiniteSet(Slaves)  BY <1>13, <1>14, FS_NatBijection
<1>17. \A i \in 1 .. n : IsMaster(Group[i]) <=> i = 1  BY <1>1, <1>2
<1>18. QED  BY <1>2, <1>6, <1>7, <1>8, <1>15, <1>16, <1>17 DEF n

(* The master comes first, then one slave after the other. *)
LEMMA WhereNext ==
    ASSUME GroupIsRoom, NEW n \in 0 .. Len(Group)
    PROVE  Where(n) = IF n = 0 THEN "count"
                      ELSE IF n = Len(Group) THEN "serving" ELSE "read"
<1>1. /\ Len(Group) \in Nat /\ Len(Group) >= 2
      /\ \A i \in 1 .. Len(Group) : IsMaster(Group[i]) <=> i = 1
  BY GroupFacts
<1> DEFINE N == Len(Group)
<1> HIDE DEF N
<1>2. N \in Nat /\ N >= 2 /\ n \in 0 .. N  BY <1>1 DEF N
<1>3. CASE n = N
  BY <1>2, <1>3 DEF Where, AllWritten, N
<1>4. CASE n # N
  <2>1. n + 1 \in 1 .. N  BY <1>2, <1>4
  <2>2. IsMaster(Group[n + 1]) <=> n = 0  BY <1>1, <1>2, <2>1 DEF N
  <2>3. QED  BY <1>2, <1>4, <2>2 DEF Where, AllWritten, N
<1>5. QED  BY <1>3, <1>4

LEMMA StateTyped ==
    ASSUME TypeOK
    PROVE  /\ on \in [Kinds -> SUBSET User] /\ assistants \in Seq(Slaves)
           /\ \A v \in Visible : v \in States
           /\ \A v \in Visible : /\ v.on \in [Kinds -> SUBSET User]
                                 /\ v.assistants \in Seq(Slaves)
<1>1. View \in States /\ lagging \in Seq(States)  BY DEF TypeOK
<1>2. \A v \in Visible : v \in States
  <2> HIDE DEF States
  <2>1. \A i \in DOMAIN lagging : lagging[i] \in States  BY <1>1
  <2>2. QED  BY <1>1, <2>1 DEF Visible, Range
<1>3. on \in [Kinds -> SUBSET User] /\ assistants \in Seq(Slaves)
  BY <1>1 DEF View, States
<1>4. QED  BY <1>2, <1>3 DEF States

LEMMA CountTyped ==
    ASSUME NEW f \in [Kinds -> SUBSET User], NEW k \in Kinds
    PROVE  IsFiniteSet(f[k]) /\ Cardinality(f[k]) \in Nat
  BY ConstantsAssumption, FS_Subset, FS_CardinalityType

(* A commit adds the state it leaves behind. *)
LEMMA Remembered ==
    ASSUME TypeOK, Remember
    PROVE  /\ lagging' \in Seq(States) /\ Len(lagging') <= MaxLag
           /\ \A i \in DOMAIN lagging' :
                \/ i = Len(lagging') /\ lagging'[i] = View
                \/ \E j \in DOMAIN lagging :
                     /\ lagging'[i] = lagging[j]
                     /\ Len(lagging') - i = Len(lagging) + 1 - j
<1> DEFINE now == View
           longer == Append(lagging, now)
           n == Len(lagging)
<1>1. /\ now \in States /\ lagging \in Seq(States)
      /\ n \in Nat /\ n <= MaxLag /\ MaxLag \in Nat
  BY ConstantsAssumption DEF TypeOK
<1>2. lagging' = IF Len(longer) > MaxLag THEN Tail(longer) ELSE longer
  BY DEF Remember
<1> HIDE DEF States, now
<1>3. /\ longer \in Seq(States) /\ Len(longer) = n + 1
      /\ \A i \in 1 .. n : longer[i] = lagging[i]
      /\ longer[n + 1] = now
  BY <1>1, AppendProperties
<1> HIDE DEF longer
<1>4. /\ Tail(longer) \in Seq(States) /\ Len(Tail(longer)) = n
      /\ \A i \in 1 .. n : Tail(longer)[i] = longer[i + 1]
  <2>1. Len(longer) # 0  BY <1>1, <1>3
  <2>2. longer # <<>>  BY <2>1
  <2>3. /\ Tail(longer) \in Seq(States) /\ Len(Tail(longer)) = Len(longer) - 1
        /\ \A i \in 1 .. Len(Tail(longer)) : Tail(longer)[i] = longer[i + 1]
    BY <1>3, <2>2, HeadTailProperties
  <2>4. Len(longer) - 1 = n  BY <1>1, <1>3
  <2>5. QED  BY <2>3, <2>4
<1>5. DOMAIN lagging = 1 .. n  BY <1>1, LenProperties
<1> HIDE DEF n
<1>6. CASE Len(longer) > MaxLag
  <2>1. lagging' = Tail(longer)  BY <1>2, <1>6
  <2>2. Len(lagging') = n /\ DOMAIN lagging' = 1 .. n
    BY <1>4, <2>1, LenProperties
  <2>3. ASSUME NEW i \in 1 .. n
        PROVE  \/ i = n /\ lagging'[i] = now
               \/ \E j \in 1 .. n : lagging'[i] = lagging[j] /\ n - i = n + 1 - j
    <3>1. CASE i = n  BY <1>3, <1>4, <2>1, <3>1
    <3>2. CASE i # n
      <4>1. i + 1 \in 1 .. n /\ n - i = n + 1 - (i + 1)  BY <1>1, <3>2
      <4>2. lagging'[i] = lagging[i + 1]  BY <1>3, <1>4, <2>1, <4>1
      <4>3. QED  BY <4>1, <4>2
    <3>3. QED  BY <3>1, <3>2
  <2>4. lagging' \in Seq(States)  BY <1>4, <2>1
  <2>5. QED  BY <1>1, <1>5, <2>2, <2>3, <2>4 DEF n, now
<1>7. CASE ~(Len(longer) > MaxLag)
  <2>1. lagging' = longer  BY <1>2, <1>7
  <2>2. Len(lagging') = n + 1 /\ DOMAIN lagging' = 1 .. n + 1
    BY <1>3, <2>1, LenProperties
  <2>3. ASSUME NEW i \in 1 .. n + 1
        PROVE  \/ i = n + 1 /\ lagging'[i] = now
               \/ \E j \in 1 .. n : lagging'[i] = lagging[j] /\ n + 1 - i = n + 1 - j
    <3>1. CASE i = n + 1  BY <1>3, <2>1, <3>1
    <3>2. CASE i # n + 1
      <4>1. i \in 1 .. n  BY <1>1, <3>2
      <4>2. lagging'[i] = lagging[i]  BY <1>3, <2>1, <4>1
      <4>3. QED  BY <4>1, <4>2
    <3>3. QED  BY <3>1, <3>2
  <2>4. lagging' \in Seq(States)  BY <1>3, <2>1
  <2>5. n + 1 <= MaxLag  BY <1>1, <1>3, <1>7
  <2>6. QED  BY <1>5, <2>2, <2>3, <2>4, <2>5 DEF n, now
<1>8. QED  BY <1>6, <1>7

LEMMA ReplicateForgets ==
    ASSUME TypeOK, Replicate
    PROVE  /\ lagging' \in Seq(States) /\ Len(lagging') <= MaxLag
           /\ \A i \in DOMAIN lagging' :
                /\ i + 1 \in DOMAIN lagging
                /\ lagging'[i] = lagging[i + 1]
                /\ Len(lagging') - i = Len(lagging) - (i + 1)
<1> DEFINE n == Len(lagging)
<1>1. /\ lagging # <<>> /\ lagging' = Tail(lagging)
      /\ lagging \in Seq(States) /\ n <= MaxLag /\ MaxLag \in Nat
  BY ConstantsAssumption DEF TypeOK, Replicate
<1> HIDE DEF States
<1>2. n \in Nat /\ DOMAIN lagging = 1 .. n  BY <1>1, LenProperties
<1>3. /\ lagging' \in Seq(States) /\ Len(lagging') = n - 1
      /\ \A i \in 1 .. Len(lagging') : lagging'[i] = lagging[i + 1]
  BY <1>1, HeadTailProperties
<1>4. DOMAIN lagging' = 1 .. n - 1  BY <1>3, LenProperties
<1> HIDE DEF n
<1>5. \A i \in 1 .. n - 1 : i + 1 \in 1 .. n /\ n - 1 - i = n - (i + 1)
  BY <1>2
<1>6. \A i \in DOMAIN lagging' :
        /\ i + 1 \in DOMAIN lagging
        /\ lagging'[i] = lagging[i + 1]
        /\ Len(lagging') - i = Len(lagging) - (i + 1)
  BY <1>2, <1>3, <1>4, <1>5 DEF n
<1>7. QED  BY <1>1, <1>2, <1>3, <1>6

-----------------------------------------------------------------------------
(* Types *)

(* What TypeOK says of each worker. *)
PlaceOK(w) ==
    /\ ~Counting(w) => counted[w] = <<>>
    /\ pc[w] = "count" => Len(counted[w]) < Len(Order)
    /\ pc[w] = "open" => Len(counted[w]) = Len(Order)
    /\ pc[w] \in {"down", "count", "open"} => turn[w] = 0
    /\ pc[w] \in {"read", "assist"} => turn[w] \in 1 .. Len(Group) - 1 /\ opened
    /\ pc[w] = "assist" => Len(found[w]) + Len(Group) - turn[w] <= MaxAssistants
    /\ pc[w] = "serving" => turn[w] = Len(Group) /\ opened

LEMMA OrderNotEmpty == Len(Order) \in Nat /\ Len(Order) > 0
<1>1. Order \in Seq(Kinds) /\ "queue" \in Kinds  BY ConstantsAssumption
<1>2. PICK i \in DOMAIN Order : TRUE  BY <1>1 DEF Kinds, Range
<1>3. DOMAIN Order = 1 .. Len(Order) /\ Len(Order) \in Nat
  BY <1>1, LenProperties
<1>4. QED  BY <1>2, <1>3

LEMMA OrderKinds == \A i \in 1 .. Len(Order) : Order[i] \in Kinds
  BY ConstantsAssumption, ElementOfSeq

LEMMA MissedTop == Max({MaxLag, MaxMissed}) \in Nat
                   /\ MaxLag <= Max({MaxLag, MaxMissed})
                   /\ MaxMissed <= Max({MaxLag, MaxMissed})
  BY ConstantsAssumption, MaxOfTwo

LEMMA NoneMissed == 0 \in 0 .. Max({MaxLag, MaxMissed})
<1> DEFINE top == Max({MaxLag, MaxMissed})
<1>1. top \in Nat  BY MissedTop
<1> HIDE DEF top
<1>2. 0 \in 0 .. top  BY <1>1
<1>3. QED  BY <1>2 DEF top

LEMMA MissedNat == TypeOK => \A w \in Worker : missed[w] \in Nat
<1> DEFINE top == Max({MaxLag, MaxMissed})
<1>1. top \in Nat  BY MissedTop
<1>2. TypeOK => missed \in [Worker -> 0 .. top]  BY DEF TypeOK
<1> HIDE DEF top
<1>3. QED  BY <1>1, <1>2

LEMMA TypeInit == Init => TypeOK
<1> SUFFICES ASSUME Init PROVE TypeOK  OBVIOUS
<1>1. /\ on = [k \in Kinds |-> {}] /\ cnt = [k \in Kinds |-> 0] /\ def \in Defs
      /\ assistants = <<>> /\ opened = FALSE /\ lagging = <<>>
      /\ pc = [w \in Worker |-> "down"] /\ plan = [w \in Worker |-> def]
      /\ counted = [w \in Worker |-> <<>>] /\ found = [w \in Worker |-> <<>>]
      /\ turn = [w \in Worker |-> 0] /\ missed = [w \in Worker |-> 0]
      /\ current = [w \in Worker |-> FALSE] /\ off = [k \in Kinds |-> 0]
  BY DEF Init
<1>2. View \in States /\ Len(assistants) <= MaxAssistants
  <2>1. assistants \in Seq(Slaves) /\ Len(assistants) = 0  BY <1>1
  <2>2. on \in [Kinds -> SUBSET User]  BY <1>1
  <2>3. QED  BY <2>1, <2>2, ConstantsAssumption DEF View, States
<1>3. lagging \in Seq(States) /\ Len(lagging) <= MaxLag
  <2> HIDE DEF States
  <2>1. QED  BY <1>1, ConstantsAssumption
<1>4. counted \in [Worker -> Seq(Nat)] /\ found \in [Worker -> Seq(Slaves)]
  BY <1>1
<1>5. /\ cnt \in [Kinds -> Int] /\ def \in Defs /\ plan \in [Worker -> Defs]
      /\ opened \in BOOLEAN /\ pc \in [Worker -> Pc] /\ current \in [Worker -> BOOLEAN]
      /\ off \in [Kinds -> Nat] /\ turn \in [Worker -> Nat]
      /\ missed \in [Worker -> 0 .. Max({MaxLag, MaxMissed})]
  <2>1. missed \in [Worker -> 0 .. Max({MaxLag, MaxMissed})]
    BY <1>1, NoneMissed
  <2>2. /\ cnt \in [Kinds -> Int] /\ turn \in [Worker -> Nat]
        /\ off \in [Kinds -> Nat]
    BY <1>1
  <2>3. pc \in [Worker -> Pc]  BY <1>1 DEF Pc
  <2>4. opened \in BOOLEAN /\ current \in [Worker -> BOOLEAN]  BY <1>1
  <2>5. def \in Defs /\ plan \in [Worker -> Defs]  BY <1>1
  <2>6. QED  BY <2>1, <2>2, <2>3, <2>4, <2>5
<1>6. \A w \in Worker : PlaceOK(w)  BY <1>1 DEF PlaceOK, Counting
<1>7. QED  BY <1>2, <1>3, <1>4, <1>5, <1>6 DEF TypeOK, PlaceOK

(* A worker whose own state a step leaves alone. *)
LEMMA PlaceKept ==
    ASSUME TypeOK, NEW o \in Worker,
           pc'[o] = pc[o], counted'[o] = counted[o], found'[o] = found[o],
           turn'[o] = turn[o], opened => opened'
    PROVE  PlaceOK(o)'
  BY DEF TypeOK, PlaceOK, Counting

(* What a write to the room leaves behind is well typed, if what it writes *)
(* is.                                                                     *)
LEMMA RoomTypes ==
    ASSUME TypeOK, Remember,
           on' \in [Kinds -> SUBSET User], assistants' \in Seq(Slaves)
    PROVE  View' \in States /\ lagging' \in Seq(States) /\ Len(lagging') <= MaxLag
  BY Remembered DEF View, States

LEMMA OpenRoomTypes ==
    ASSUME TypeOK, NEW w \in Worker, pc[w] = "open", OpenRoom(w)
    PROVE  /\ View' \in States /\ Len(assistants') <= MaxAssistants
           /\ cnt' \in [Kinds -> Int] /\ def' \in Defs /\ opened' = TRUE
           /\ lagging' \in Seq(States) /\ Len(lagging') <= MaxLag
           /\ current' \in [Worker -> BOOLEAN] /\ off' \in [Kinds -> Nat]
<1>1. /\ cnt' = [k \in Kinds |->
                   UsersAndAi(w, CHOOSE i \in DOMAIN Order : Order[i] = k)]
      /\ def' = plan[w] /\ assistants' = <<>> /\ opened' = TRUE
      /\ on' = on /\ Remember /\ Outdates(w)
      /\ off' = [k \in Kinds |-> missed[w]]
  BY DEF OpenRoom, NoAssistants
<1>2. cnt' \in [Kinds -> Int]
  <2>1. ASSUME NEW k \in Kinds
        PROVE  UsersAndAi(w, CHOOSE i \in DOMAIN Order : Order[i] = k) \in Int
    <3> DEFINE i == CHOOSE j \in DOMAIN Order : Order[j] = k
    <3>1. i \in DOMAIN Order  BY DEF Kinds, Range
    <3> HIDE DEF i
    <3>2. Order \in Seq(Kinds) /\ counted[w] \in Seq(Nat)
      BY ConstantsAssumption DEF TypeOK
    <3>3. Len(counted[w]) = Len(Order)  BY DEF TypeOK
    <3>4. counted[w][i] \in Nat  BY <3>1, <3>2, <3>3
    <3>5. plan[w].ai \in Nat  BY ConstantsAssumption DEF TypeOK
    <3>6. UsersAndAi(w, i) \in Int  BY <3>4, <3>5 DEF UsersAndAi
    <3>7. QED  BY <3>6 DEF i
  <2>2. QED  BY <1>1, <2>1
<1>3. def' \in Defs  BY <1>1 DEF TypeOK
<1>4. assistants' \in Seq(Slaves) /\ Len(assistants') = 0  BY <1>1
<1>5. on' \in [Kinds -> SUBSET User]  BY <1>1, StateTyped
<1>6. off' \in [Kinds -> Nat]  BY <1>1, MissedNat
<1>7. current' \in [Worker -> BOOLEAN]  BY <1>1 DEF Outdates, TypeOK
<1>8. QED
  BY <1>1, <1>2, <1>3, <1>4, <1>5, <1>6, <1>7, RoomTypes, ConstantsAssumption

LEMMA WriteTypes ==
    ASSUME TypeOK, GroupIsRoom, NEW w \in Worker, pc[w] = "assist", WriteAssistants(w)
    PROVE  /\ View' \in States /\ Len(assistants') <= MaxAssistants
           /\ lagging' \in Seq(States) /\ Len(lagging') <= MaxLag
           /\ current' \in [Worker -> BOOLEAN]
           /\ UNCHANGED <<cnt, def, opened, off>>
           /\ assistants' = <<Group[turn[w] + 1].id>> \o found[w]
           /\ Group[turn[w] + 1].id \in Slaves
<1>1. /\ assistants' = <<Group[turn[w] + 1].id>> \o found[w]
      /\ Outdates(w) /\ Remember /\ UNCHANGED <<on, cnt, def, opened, off>>
  BY DEF WriteAssistants, WithNext
<1>2. /\ turn[w] \in 1 .. Len(Group) - 1 /\ found[w] \in Seq(Slaves)
      /\ Len(found[w]) + Len(Group) - turn[w] <= MaxAssistants
  BY DEF TypeOK
<1>3. Len(Group) \in Nat  BY GroupFacts
<1>4. Group[turn[w] + 1].id \in Slaves
  <2>1. turn[w] + 1 \in 2 .. Len(Group)  BY <1>2, <1>3
  <2>2. QED  BY <2>1, GroupFacts
<1>5. assistants' \in Seq(Slaves) /\ Len(assistants') = Len(found[w]) + 1
  BY <1>1, <1>2, <1>4
<1>6. Len(assistants') <= MaxAssistants
  BY <1>2, <1>3, <1>5, ConstantsAssumption
<1>7. on' \in [Kinds -> SUBSET User]  BY <1>1, StateTyped
<1>8. current' \in [Worker -> BOOLEAN]  BY <1>1 DEF Outdates, TypeOK
<1>9. QED  BY <1>1, <1>4, <1>5, <1>6, <1>7, <1>8, RoomTypes

(* The worker's own part when its call returns or the process ends. *)
LEMMA WrittenTypes ==
    ASSUME TypeOK, GroupIsRoom, NEW w \in Worker,
           pc[w] \in {"open", "assist"}, Written(w), opened'
    PROVE  /\ pc' \in [Worker -> Pc] /\ plan' \in [Worker -> Defs]
           /\ counted' \in [Worker -> Seq(Nat)] /\ found' \in [Worker -> Seq(Slaves)]
           /\ turn' \in [Worker -> Nat]
           /\ missed' \in [Worker -> 0 .. Max({MaxLag, MaxMissed})]
           /\ \A o \in Worker : PlaceOK(o)'
           /\ turn'[w] = turn[w] + 1
           /\ pc'[w] = IF turn'[w] = Len(Group) THEN "serving" ELSE "read"
<1> DEFINE N == Len(Group)
<1>1. N \in Nat /\ N >= 2  BY GroupFacts
<1>2. turn[w] \in 0 .. N - 1
  BY <1>1 DEF TypeOK
<1>3. /\ turn' = [turn EXCEPT ![w] = @ + 1]
      /\ pc' = [pc EXCEPT ![w] = Where(turn[w] + 1)]
      /\ counted' = [counted EXCEPT ![w] = <<>>]
      /\ found' = [found EXCEPT ![w] = <<>>]
      /\ missed' = [missed EXCEPT ![w] = 0] /\ plan' = plan
  BY DEF Written, Goto
<1>4. Where(turn[w] + 1) = IF turn[w] + 1 = N THEN "serving" ELSE "read"
  BY <1>1, <1>2, WhereNext
<1>5. turn'[w] = turn[w] + 1 /\ pc'[w] = Where(turn[w] + 1)
  BY <1>3 DEF TypeOK
<1>6. /\ pc' \in [Worker -> Pc] /\ plan' \in [Worker -> Defs]
      /\ turn' \in [Worker -> Nat]
  BY <1>1, <1>2, <1>3, <1>4 DEF TypeOK, Pc
<1>7. counted' \in [Worker -> Seq(Nat)] /\ found' \in [Worker -> Seq(Slaves)]
  BY <1>3 DEF TypeOK
<1>8. missed' \in [Worker -> 0 .. Max({MaxLag, MaxMissed})]
  BY <1>3, NoneMissed DEF TypeOK
<1>9. ASSUME NEW o \in Worker PROVE PlaceOK(o)'
  <2>1. CASE o = w
    <3>1. counted'[w] = <<>>  BY <1>3 DEF TypeOK
    <3>2. pc'[w] \in {"serving", "read"}  BY <1>4, <1>5
    <3>3. pc'[w] = "read" => turn'[w] \in 1 .. N - 1
      BY <1>1, <1>2, <1>4, <1>5
    <3>4. pc'[w] = "serving" => turn'[w] = N
      BY <1>1, <1>2, <1>4, <1>5
    <3>5. QED  BY <2>1, <3>1, <3>2, <3>3, <3>4 DEF PlaceOK
  <2>2. CASE o # w
    <3>1. pc'[o] = pc[o] /\ counted'[o] = counted[o] /\ found'[o] = found[o]
          /\ turn'[o] = turn[o]
      BY <1>3, <2>2 DEF TypeOK
    <3>2. QED  BY <3>1, PlaceKept
  <2>3. QED  BY <2>1, <2>2
<1>10. QED  BY <1>4, <1>5, <1>6, <1>7, <1>8, <1>9

LEMMA ExitTypes ==
    ASSUME TypeOK, NEW w \in Worker, Exit(w), opened => opened'
    PROVE  /\ pc' \in [Worker -> Pc] /\ plan' \in [Worker -> Defs]
           /\ counted' \in [Worker -> Seq(Nat)] /\ found' \in [Worker -> Seq(Slaves)]
           /\ turn' \in [Worker -> Nat]
           /\ missed' \in [Worker -> 0 .. Max({MaxLag, MaxMissed})]
           /\ \A o \in Worker : PlaceOK(o)'
           /\ pc'[w] = "down"
<1>1. /\ turn' = [turn EXCEPT ![w] = 0]
      /\ pc' = [pc EXCEPT ![w] = "down"]
      /\ counted' = [counted EXCEPT ![w] = <<>>]
      /\ found' = [found EXCEPT ![w] = <<>>]
      /\ missed' = [missed EXCEPT ![w] = 0] /\ plan' = plan
  BY DEF Exit, Goto
<1>2. counted' \in [Worker -> Seq(Nat)] /\ found' \in [Worker -> Seq(Slaves)]
  BY <1>1 DEF TypeOK
<1>3. /\ pc' \in [Worker -> Pc] /\ plan' \in [Worker -> Defs]
      /\ turn' \in [Worker -> Nat] /\ pc'[w] = "down"
      /\ missed' \in [Worker -> 0 .. Max({MaxLag, MaxMissed})]
  BY <1>1, NoneMissed DEF TypeOK, Pc
<1>4. ASSUME NEW o \in Worker PROVE PlaceOK(o)'
  <2>1. CASE o = w
    <3>1. counted'[w] = <<>> /\ pc'[w] = "down" /\ turn'[w] = 0
      BY <1>1 DEF TypeOK
    <3>2. QED  BY <2>1, <3>1 DEF PlaceOK
  <2>2. CASE o # w
    <3>1. pc'[o] = pc[o] /\ counted'[o] = counted[o] /\ found'[o] = found[o]
          /\ turn'[o] = turn[o]
      BY <1>1, <2>2 DEF TypeOK
    <3>2. QED  BY <3>1, PlaceKept
  <2>3. QED  BY <2>1, <2>2
<1>5. QED  BY <1>2, <1>3, <1>4

LEMMA ReadsTypes ==
    ASSUME TypeOK, NEW w \in Worker, NEW v, Reads(w, v)
    PROVE  v \in Visible /\ current' \in [Worker -> BOOLEAN]
           /\ (current'[w] => current[w] /\ v = View)
           /\ \A o \in Worker \ {w} : current'[o] = current[o]
<1> DEFINE same == v = View
           still == current[w] /\ same
<1>1. v \in Visible /\ current' = [current EXCEPT ![w] = still]
  BY DEF Reads
<1>2. current \in [Worker -> BOOLEAN] /\ still \in BOOLEAN  BY DEF TypeOK
<1>3. still => current[w] /\ v = View  OBVIOUS
<1> HIDE DEF same, still
<1>4. QED  BY <1>1, <1>2, <1>3

LEMMA RecountTypes ==
    ASSUME TypeOK, NEW w \in Worker, Recount(w)
    PROVE  TypeOK'
<1>1. PICK v \in Visible :
        /\ Reads(w, v)
        /\ counted' = [counted EXCEPT ![w] =
                         Append(@, Cardinality(v.on[Order[Len(@) + 1]]))]
        /\ missed' = [missed EXCEPT ![w] = IF v = View THEN @ ELSE Max({@, MaxLag})]
  BY DEF Recount
<1>2. /\ pc[w] = "count"
      /\ pc' = [pc EXCEPT ![w] = IF Len(counted'[w]) = Len(Order) THEN "open" ELSE "count"]
      /\ UNCHANGED <<on, cnt, def, assistants, opened, lagging, plan, found, turn, off>>
  BY DEF Recount, Goto
<1> DEFINE m == Len(counted[w])
           n == Cardinality(v.on[Order[m + 1]])
<1>3. counted[w] \in Seq(Nat) /\ m \in Nat /\ m < Len(Order)
  BY <1>2 DEF TypeOK
<1>4. n \in Nat
  <2>1. m + 1 \in 1 .. Len(Order)  BY <1>3, OrderNotEmpty
  <2>2. v.on \in [Kinds -> SUBSET User]  BY StateTyped
  <2>3. QED  BY <2>1, <2>2, OrderKinds, CountTyped
<1>5. counted' = [counted EXCEPT ![w] = Append(counted[w], n)]  BY <1>1
<1> HIDE DEF n
<1>6. Append(counted[w], n) \in Seq(Nat) /\ Len(Append(counted[w], n)) = m + 1
  BY <1>3, <1>4, AppendProperties
<1>7. counted' \in [Worker -> Seq(Nat)] /\ counted'[w] = Append(counted[w], n)
  BY <1>5, <1>6 DEF TypeOK
<1> DEFINE top == Max({MaxLag, MaxMissed})
<1>8. missed' \in [Worker -> 0 .. top]
  <2>1. top \in Nat /\ MaxLag \in Nat /\ MaxLag <= top
    BY MissedTop, ConstantsAssumption
  <2>2. missed \in [Worker -> 0 .. top]  BY DEF TypeOK
  <2> HIDE DEF top
  <2>3. missed[w] \in Int /\ MaxLag \in Int  BY <2>1, <2>2
  <2>4. Max({missed[w], MaxLag}) \in 0 .. top
    BY <2>1, <2>2, <2>3, MaxOfTwo
  <2> DEFINE now == IF v = View THEN missed[w] ELSE Max({missed[w], MaxLag})
  <2>5. now \in 0 .. top  BY <2>2, <2>4
  <2>6. missed' = [missed EXCEPT ![w] = now]  BY <1>1
  <2> HIDE DEF now
  <2>7. QED  BY <2>2, <2>5, <2>6
<1>9. /\ pc' \in [Worker -> Pc]
      /\ pc'[w] = IF m + 1 = Len(Order) THEN "open" ELSE "count"
  BY <1>2, <1>6, <1>7 DEF TypeOK, Pc
<1>10. ASSUME NEW o \in Worker PROVE PlaceOK(o)'
  <2>1. CASE o = w
    <3>1. turn'[w] = 0  BY <1>2 DEF TypeOK
    <3>2. Len(counted'[w]) = m + 1  BY <1>6, <1>7
    <3>3. m + 1 <= Len(Order)  BY <1>3, OrderNotEmpty
    <3> HIDE DEF m
    <3>4. pc'[w] = "count" => Len(counted'[w]) < Len(Order)
      <4>1. Len(Order) \in Nat  BY OrderNotEmpty
      <4>2. m \in Nat  BY <1>3
      <4>3. QED  BY <1>9, <3>2, <3>3, <4>1, <4>2
    <3>5. pc'[w] = "open" => Len(counted'[w]) = Len(Order)
      BY <1>9, <3>2
    <3>6. pc'[w] \in {"count", "open"}  BY <1>9
    <3>7. QED  BY <2>1, <3>1, <3>4, <3>5, <3>6 DEF PlaceOK, Counting
  <2>2. CASE o # w
    <3>1. pc'[o] = pc[o] /\ counted'[o] = counted[o] /\ found'[o] = found[o]
          /\ turn'[o] = turn[o]
      BY <1>2, <1>5, <2>2 DEF TypeOK
    <3>2. opened => opened'  BY <1>2
    <3>3. QED  BY <3>1, <3>2, PlaceKept
  <2>3. QED  BY <2>1, <2>2
<1>11. current' \in [Worker -> BOOLEAN]  BY <1>1, ReadsTypes
<1>12. View' = View  BY <1>2 DEF View
<1>13. QED
  BY <1>2, <1>7, <1>8, <1>9, <1>10, <1>11, <1>12 DEF TypeOK, PlaceOK

LEMMA ReadAssistantsTypes ==
    ASSUME TypeOK, GroupIsRoom, NEW w \in Worker, ReadAssistants(w)
    PROVE  TypeOK'
<1>1. PICK v \in Visible :
        /\ Reads(w, v)
        /\ Len(v.assistants) + Len(Group) - turn[w] <= MaxAssistants
        /\ found' = [found EXCEPT ![w] = v.assistants]
  BY DEF ReadAssistants
<1>2. /\ pc[w] = "read" /\ pc' = [pc EXCEPT ![w] = "assist"]
      /\ UNCHANGED <<on, cnt, def, assistants, opened, lagging, plan, counted, turn,
                     missed, off>>
  BY DEF ReadAssistants, Goto
<1>3. found' \in [Worker -> Seq(Slaves)] /\ found'[w] = v.assistants
  BY <1>1, StateTyped DEF TypeOK
<1>4. pc' \in [Worker -> Pc] /\ pc'[w] = "assist"  BY <1>2 DEF TypeOK, Pc
<1>5. ASSUME NEW o \in Worker PROVE PlaceOK(o)'
  <2>1. CASE o = w
    <3>1. /\ counted'[w] = <<>> /\ turn'[w] = turn[w] /\ opened'
          /\ turn[w] \in 1 .. Len(Group) - 1
      BY <1>2 DEF TypeOK, Counting
    <3>2. QED  BY <1>1, <1>3, <1>4, <2>1, <3>1 DEF PlaceOK
  <2>2. CASE o # w
    <3>1. pc'[o] = pc[o] /\ counted'[o] = counted[o] /\ found'[o] = found[o]
          /\ turn'[o] = turn[o]
      BY <1>1, <1>2, <2>2 DEF TypeOK
    <3>2. opened => opened'  BY <1>2
    <3>3. QED  BY <3>1, <3>2, PlaceKept
  <2>3. QED  BY <2>1, <2>2
<1>6. current' \in [Worker -> BOOLEAN]  BY <1>1, ReadsTypes
<1>7. View' = View  BY <1>2 DEF View
<1>8. QED  BY <1>2, <1>3, <1>4, <1>5, <1>6, <1>7 DEF TypeOK, PlaceOK

LEMMA TransactionTypes ==
    ASSUME TypeOK, Transaction,
           on' \in [Kinds -> SUBSET User], cnt' \in [Kinds -> Int],
           off' \in [Kinds -> Nat]
    PROVE  TypeOK'
<1>1. /\ Remember /\ Missed
      /\ UNCHANGED <<def, assistants, opened, pc, plan, counted, found, turn, current>>
  BY DEF Transaction
<1>2. assistants' \in Seq(Slaves)  BY <1>1, StateTyped
<1>3. View' \in States /\ lagging' \in Seq(States) /\ Len(lagging') <= MaxLag
  BY <1>1, <1>2, RoomTypes
<1>4. def' \in Defs  BY <1>1 DEF TypeOK
<1> DEFINE top == Max({MaxLag, MaxMissed})
<1>5. missed' \in [Worker -> 0 .. top]
  <2>1. top \in Nat /\ MaxMissed <= top /\ MaxMissed \in Nat
    BY MissedTop, ConstantsAssumption
  <2>2. missed \in [Worker -> 0 .. top]  BY DEF TypeOK
  <2>3. /\ \A w \in Worker : Counting(w) => missed[w] < MaxMissed
        /\ missed' = [w \in Worker |-> IF Counting(w) THEN missed[w] + 1 ELSE missed[w]]
    BY <1>1 DEF Missed
  <2> HIDE DEF top
  <2>4. \A w \in Worker :
          (IF Counting(w) THEN missed[w] + 1 ELSE missed[w]) \in 0 .. top
    BY <2>1, <2>2, <2>3
  <2>5. QED  BY <2>3, <2>4
<1>6. ASSUME NEW o \in Worker PROVE PlaceOK(o)'  BY <1>1, PlaceKept
<1>7. QED  BY <1>1, <1>3, <1>4, <1>5, <1>6 DEF TypeOK, PlaceOK

(* One flag of one kind is set or cleared. *)
LEMMA FlagChanged ==
    ASSUME TypeOK, NEW k \in Kinds, NEW u \in User, SetFlag(k, u) \/ ClearFlag(k, u)
    PROVE  /\ on' \in [Kinds -> SUBSET User]
           /\ \A l \in Kinds : l # k => on'[l] = on[l]
           /\ Cardinality(on[k]) \in Nat
           /\ SetFlag(k, u) => Cardinality(on'[k]) = Cardinality(on[k]) + 1
           /\ ClearFlag(k, u) => Cardinality(on'[k]) = Cardinality(on[k]) - 1
<1>1. on \in [Kinds -> SUBSET User]  BY StateTyped
<1>2. IsFiniteSet(on[k]) /\ Cardinality(on[k]) \in Nat  BY <1>1, CountTyped
<1>3. ASSUME SetFlag(k, u)
      PROVE  /\ on' \in [Kinds -> SUBSET User]
             /\ \A l \in Kinds : l # k => on'[l] = on[l]
             /\ Cardinality(on'[k]) = Cardinality(on[k]) + 1
  <2>1. u \notin on[k] /\ on' = [on EXCEPT ![k] = @ \union {u}]  BY <1>3 DEF SetFlag
  <2>2. on'[k] = on[k] \union {u}  BY <1>1, <2>1
  <2>3. Cardinality(on[k] \union {u}) = Cardinality(on[k]) + 1
    BY <1>2, <2>1, FS_AddElement
  <2>4. QED  BY <1>1, <2>1, <2>2, <2>3
<1>4. ASSUME ClearFlag(k, u)
      PROVE  /\ on' \in [Kinds -> SUBSET User]
             /\ \A l \in Kinds : l # k => on'[l] = on[l]
             /\ Cardinality(on'[k]) = Cardinality(on[k]) - 1
  <2>1. u \in on[k] /\ on' = [on EXCEPT ![k] = @ \ {u}]  BY <1>4 DEF ClearFlag
  <2>2. on'[k] = on[k] \ {u}  BY <1>1, <2>1
  <2>3. Cardinality(on[k] \ {u}) = Cardinality(on[k]) - 1
    BY <1>2, <2>1, FS_RemoveElement
  <2>4. QED  BY <1>1, <2>1, <2>2, <2>3
<1>5. ~(SetFlag(k, u) /\ ClearFlag(k, u))  BY DEF SetFlag, ClearFlag
<1>6. QED  BY <1>2, <1>3, <1>4

LEMMA OthersTyped ==
    ASSUME TypeOK, NEW k \in Kinds, NEW u \in User,
           Enter(k, u) \/ Leave(k, u) \/ Drift(k, u)
    PROVE  TypeOK'
<1>1. cnt \in [Kinds -> Int] /\ off \in [Kinds -> Nat]  BY DEF TypeOK
<1>2. SetFlag(k, u) \/ ClearFlag(k, u)  BY DEF Enter, Leave, Drift
<1>3. on' \in [Kinds -> SUBSET User]  BY <1>2, FlagChanged
<1>4. cnt' \in [Kinds -> Int] /\ off' \in [Kinds -> Nat]
  BY <1>1 DEF Enter, Leave, Drift
<1>5. Transaction  BY DEF Enter, Leave, Drift
<1>6. QED  BY <1>3, <1>4, <1>5, TransactionTypes

LEMMA TypeNext == GroupIsRoom /\ TypeOK /\ [Next]_vars => TypeOK'
<1> SUFFICES ASSUME GroupIsRoom, TypeOK, [Next]_vars PROVE TypeOK'  OBVIOUS
<1>1. ASSUME NEW w \in Worker, Start(w) PROVE TypeOK'
  <2>1. /\ pc[w] = "down" /\ pc' = [pc EXCEPT ![w] = Where(turn[w])]
        /\ current' = [current EXCEPT ![w] = TRUE]
        /\ UNCHANGED <<on, cnt, def, assistants, opened, lagging, counted, found, turn,
                       missed, off>>
        /\ \E d \in Defs : plan' = [plan EXCEPT ![w] = d]
    BY <1>1 DEF Start, Goto
  <2>2. turn[w] = 0 /\ counted[w] = <<>>  BY <2>1 DEF TypeOK, Counting
  <2>3. Where(turn[w]) = "count"
    <3>1. Len(Group) \in Nat  BY GroupFacts
    <3>2. QED  BY <2>2, <3>1, WhereNext
  <2>4. pc' \in [Worker -> Pc] /\ pc'[w] = "count"  BY <2>1, <2>3 DEF TypeOK, Pc
  <2>5. ASSUME NEW o \in Worker PROVE PlaceOK(o)'
    <3>1. CASE o = w
      <4>1. Len(counted'[w]) = 0 /\ turn'[w] = 0  BY <2>1, <2>2
      <4>2. QED  BY <2>4, <3>1, <4>1, OrderNotEmpty DEF PlaceOK, Counting
    <3>2. CASE o # w
      <4>1. pc'[o] = pc[o]  BY <2>1, <3>2 DEF TypeOK
      <4>2. QED  BY <2>1, <4>1, PlaceKept
    <3>3. QED  BY <3>1, <3>2
  <2>6. plan' \in [Worker -> Defs] /\ current' \in [Worker -> BOOLEAN] /\ View' = View
    BY <2>1 DEF TypeOK, View
  <2>7. QED  BY <2>1, <2>4, <2>5, <2>6 DEF TypeOK, PlaceOK
<1>2. ASSUME NEW w \in Worker, Recount(w) PROVE TypeOK'  BY <1>2, RecountTypes
<1>3. ASSUME NEW w \in Worker, Open(w) PROVE TypeOK'
  <2>1. pc[w] = "open" /\ OpenRoom(w) /\ Written(w)  BY <1>3 DEF Open
  <2>2. opened'  BY <2>1, OpenRoomTypes
  <2>3. QED  BY <2>1, <2>2, OpenRoomTypes, WrittenTypes DEF TypeOK, PlaceOK
<1>4. ASSUME NEW w \in Worker, ReadAssistants(w) PROVE TypeOK'
  BY <1>4, ReadAssistantsTypes
<1>5. ASSUME NEW w \in Worker, AddAssistant(w) PROVE TypeOK'
  <2>1. pc[w] = "assist" /\ WriteAssistants(w) /\ Written(w)  BY <1>5 DEF AddAssistant
  <2>2. opened /\ opened' = opened  BY <2>1, WriteTypes DEF TypeOK
  <2>3. QED  BY <2>1, <2>2, WriteTypes, WrittenTypes DEF TypeOK, PlaceOK
<1>6. ASSUME NEW w \in Worker, StartFails(w) \/ Stop(w) PROVE TypeOK'
  <2>1. Exit(w) /\ UNCHANGED <<on, cnt, def, assistants, opened, lagging, current, off>>
    BY <1>6 DEF StartFails, Stop
  <2>2. View' = View  BY <2>1 DEF View
  <2>3. QED  BY <2>1, <2>2, ExitTypes DEF TypeOK, PlaceOK
<1>7. ASSUME NEW w \in Worker, WriteUnanswered(w) PROVE TypeOK'
  <2>1. Exit(w)  BY <1>7 DEF WriteUnanswered
  <2>2. CASE pc[w] = "open" /\ OpenRoom(w)
    <3>1. opened'  BY <2>2, OpenRoomTypes
    <3>2. QED  BY <2>1, <2>2, <3>1, OpenRoomTypes, ExitTypes DEF TypeOK, PlaceOK
  <2>3. CASE pc[w] = "assist" /\ WriteAssistants(w)
    <3>1. opened' = opened  BY <2>3, WriteTypes
    <3>2. QED  BY <2>1, <2>3, <3>1, WriteTypes, ExitTypes DEF TypeOK, PlaceOK
  <2>4. QED  BY <1>7, <2>2, <2>3 DEF WriteUnanswered
<1>8. CASE Replicate
  <2>1. UNCHANGED <<on, cnt, def, assistants, opened, pc, plan, counted, found, turn,
                    missed, current, off>>
    BY <1>8 DEF Replicate
  <2>2. lagging' \in Seq(States) /\ Len(lagging') <= MaxLag  BY <1>8, ReplicateForgets
  <2>3. View' = View  BY <2>1 DEF View
  <2>4. ASSUME NEW o \in Worker PROVE PlaceOK(o)'  BY <2>1, PlaceKept
  <2>5. QED  BY <2>1, <2>2, <2>3, <2>4 DEF TypeOK, PlaceOK
<1>9. CASE UNCHANGED vars  BY <1>9 DEF vars, TypeOK, View, Counting
<1>10. CASE \E k \in Kinds, u \in User : Enter(k, u) \/ Leave(k, u) \/ Drift(k, u)
  BY <1>10, OthersTyped
<1>11. QED
  BY <1>1, <1>2, <1>3, <1>4, <1>5, <1>6, <1>7, <1>8, <1>9, <1>10 DEF Next

(* Workers, whatever happens to them, count and write in the order of      *)
(* init_db: a slave is only written to a room that is open, a worker only  *)
(* serves when the whole group is written.                                 *)
THEOREM TypeCorrect == ASSUME GroupIsRoom PROVE Spec => []TypeOK
<1>1. TypeOK /\ [Next]_vars => TypeOK'  BY TypeNext
<1>2. QED  BY <1>1, TypeInit, PTL DEF Spec

-----------------------------------------------------------------------------
(* Who writes the room, and what others see of it *)

(* A step writes no assistants, and no worker gets further by it. *)
AssistantsAlone ==
    /\ assistants' = assistants
    /\ \A w \in Worker :
         /\ current'[w] => current[w]
         /\ pc'[w] \in {"read", "assist", "serving"} =>
              pc'[w] = pc[w] /\ turn'[w] = turn[w] /\ found'[w] = found[w]

LEMMA StepKinds ==
    ASSUME GroupIsRoom, TypeOK, [Next]_vars
    PROVE  \/ \E w \in Worker : \/ Open(w) \/ ReadAssistants(w) \/ AddAssistant(w)
                                \/ WriteUnanswered(w)
           \/ \E w \in Worker : Start(w) /\ assistants' = assistants /\ pc'[w] = "count"
           \/ AssistantsAlone
<1>1. ASSUME NEW w \in Worker, Start(w)
      PROVE  assistants' = assistants /\ pc'[w] = "count"
  <2>1. pc[w] = "down" /\ pc' = [pc EXCEPT ![w] = Where(turn[w])]
        /\ assistants' = assistants
    BY <1>1 DEF Start, Goto
  <2>2. Where(turn[w]) = "count"
    <3>1. turn[w] = 0  BY <2>1 DEF TypeOK
    <3>2. Len(Group) \in Nat  BY GroupFacts
    <3>3. QED  BY <3>1, <3>2, WhereNext
  <2>3. QED  BY <2>1, <2>2 DEF TypeOK
<1>2. ASSUME NEW w \in Worker, Recount(w) PROVE AssistantsAlone
  <2>1. PICK v \in Visible : Reads(w, v)  BY <1>2 DEF Recount
  <2>2. /\ assistants' = assistants /\ turn' = turn /\ found' = found
        /\ pc' = [pc EXCEPT ![w] = IF Len(counted'[w]) = Len(Order) THEN "open" ELSE "count"]
    BY <1>2 DEF Recount, Goto
  <2>3. \A o \in Worker : current'[o] => current[o]  BY <2>1, ReadsTypes
  <2>4. QED  BY <2>2, <2>3 DEF AssistantsAlone, TypeOK
<1>3. ASSUME NEW w \in Worker, StartFails(w) \/ Stop(w) PROVE AssistantsAlone
  BY <1>3 DEF StartFails, Stop, Exit, Goto, AssistantsAlone, TypeOK
<1>4. ASSUME \E k \in Kinds, u \in User : Enter(k, u) \/ Leave(k, u) \/ Drift(k, u)
      PROVE  AssistantsAlone
  BY <1>4 DEF Enter, Leave, Drift, Transaction, AssistantsAlone
<1>5. ASSUME Replicate \/ UNCHANGED vars PROVE AssistantsAlone
  BY <1>5 DEF Replicate, vars, AssistantsAlone
<1>6. QED  BY <1>1, <1>2, <1>3, <1>4, <1>5 DEF Next

-----------------------------------------------------------------------------
(* Assistants *)

(* What w writes makes every other start one that has met another. *)
LEMMA OthersOutdated ==
    ASSUME TypeOK, NEW w \in Worker, Outdates(w)
    PROVE  /\ \A o \in Worker \ {w} : ~current'[o]
           /\ current'[w] => current[w]
  BY DEF Outdates, TypeOK

LEMMA AssistantsInit == Init => AssistantsInv /\ QueueCanBeDrawn
<1> SUFFICES ASSUME Init PROVE AssistantsInv /\ QueueCanBeDrawn  OBVIOUS
<1>1. \A w \in Worker : pc[w] = "down"  BY DEF Init
<1>2. QED  BY <1>1, ConstantsAssumption DEF AssistantsInv, QueueCanBeDrawn, Serving

LEMMA AssistantsNext ==
    GroupIsRoom /\ TypeOK /\ AssistantsInv /\ [Next]_vars => AssistantsInv'
<1> SUFFICES ASSUME GroupIsRoom, TypeOK, AssistantsInv, [Next]_vars,
                    NEW o \in Worker, current'[o],
                    pc'[o] \in {"read", "assist", "serving"}
             PROVE  SlavesSoFar(turn[o])' /\ (pc'[o] = "assist" => found'[o] = assistants')
  BY DEF AssistantsInv
<1> DEFINE N == Len(Group)
<1>0. N \in Nat /\ N >= 2  BY GroupFacts
<1>1. ASSUME NEW w \in Worker, Open(w)
      PROVE  SlavesSoFar(turn[o])' /\ (pc'[o] = "assist" => found'[o] = assistants')
  <2>1. /\ pc[w] = "open" /\ Outdates(w) /\ assistants' = <<>>
        /\ Written(w) /\ OpenRoom(w)
    BY <1>1 DEF Open, OpenRoom, NoAssistants
  <2>2. o = w  BY <2>1, OthersOutdated
  <2>3. turn[w] = 0  BY <2>1 DEF TypeOK
  <2>4. opened'  BY <2>1, OpenRoomTypes
  <2>5. turn'[w] = 1 /\ pc'[w] # "assist"  BY <2>1, <2>3, <2>4, WrittenTypes
  <2>6. Len(assistants') = 0  BY <2>1
  <2>7. QED  BY <2>2, <2>5, <2>6 DEF SlavesSoFar
<1>2. ASSUME NEW w \in Worker, ReadAssistants(w)
      PROVE  SlavesSoFar(turn[o])' /\ (pc'[o] = "assist" => found'[o] = assistants')
  <2>1. PICK v \in Visible :
          Reads(w, v) /\ found' = [found EXCEPT ![w] = v.assistants]
    BY <1>2 DEF ReadAssistants
  <2>2. /\ pc[w] = "read" /\ pc' = [pc EXCEPT ![w] = "assist"]
        /\ assistants' = assistants /\ turn' = turn
    BY <1>2 DEF ReadAssistants, Goto
  <2>3. CASE o = w
    <3>1. current[w] /\ v = View  BY <2>1, <2>3, ReadsTypes
    <3>2. SlavesSoFar(turn[w])  BY <2>2, <3>1 DEF AssistantsInv
    <3>3. found'[w] = assistants  BY <2>1, <3>1 DEF TypeOK, View
    <3>4. QED  BY <2>2, <2>3, <3>2, <3>3 DEF SlavesSoFar
  <2>4. CASE o # w
    <3>1. current[o] /\ pc'[o] = pc[o] /\ found'[o] = found[o]
      BY <2>1, <2>2, <2>4, ReadsTypes DEF TypeOK
    <3>2. SlavesSoFar(turn[o]) /\ (pc[o] = "assist" => found[o] = assistants)
      BY <3>1 DEF AssistantsInv
    <3>3. QED  BY <2>2, <3>1, <3>2 DEF SlavesSoFar
  <2>5. QED  BY <2>3, <2>4
<1>3. ASSUME NEW w \in Worker, AddAssistant(w)
      PROVE  SlavesSoFar(turn[o])' /\ (pc'[o] = "assist" => found'[o] = assistants')
  <2>1. /\ pc[w] = "assist" /\ Outdates(w) /\ Written(w) /\ WriteAssistants(w)
        /\ assistants' = <<Group[turn[w] + 1].id>> \o found[w]
    BY <1>3 DEF AddAssistant, WriteAssistants, WithNext
  <2>2. o = w /\ current[w]  BY <2>1, OthersOutdated
  <2>3. SlavesSoFar(turn[w]) /\ found[w] = assistants
    BY <2>1, <2>2 DEF AssistantsInv
  <2>4. turn[w] \in 1 .. N - 1  BY <2>1 DEF TypeOK
  <2>5. opened'  BY <2>1, WriteTypes DEF TypeOK
  <2>6. turn'[w] = turn[w] + 1 /\ pc'[w] # "assist"  BY <2>1, <2>5, WrittenTypes
  <2> DEFINE n == turn[w]
             next == Group[n + 1].id
  <2>7. next \in Slaves /\ assistants \in Seq(Slaves)  BY <2>1, WriteTypes, StateTyped
  <2>8. /\ Len(assistants) = n - 1
        /\ \A i \in 1 .. n - 1 : assistants[i] = Group[n + 1 - i].id
    BY <2>3 DEF SlavesSoFar
  <2>9. assistants' = <<next>> \o assistants  BY <2>1, <2>3
  <2>10. n \in Nat /\ n >= 1  BY <1>0, <2>4
  <2> HIDE DEF n, next
  <2>11. /\ Len(assistants') = n
         /\ \A i \in 1 .. n : assistants'[i] = IF i = 1 THEN next ELSE assistants[i - 1]
    <3>1. <<next>> \in Seq(Slaves) /\ Len(<<next>>) = 1 /\ <<next>>[1] = next
      BY <2>7
    <3>2. /\ Len(<<next>> \o assistants) = 1 + Len(assistants)
          /\ \A i \in 1 .. 1 + Len(assistants) :
               (<<next>> \o assistants)[i] =
                 IF i <= 1 THEN <<next>>[i] ELSE assistants[i - 1]
      BY <2>7, <3>1, ConcatProperties
    <3>3. 1 + Len(assistants) = n  BY <2>8, <2>10
    <3>4. QED  BY <2>9, <2>10, <3>1, <3>2, <3>3
  <2>12. ASSUME NEW i \in 1 .. n PROVE assistants'[i] = Group[n + 1 + 1 - i].id
    <3>1. CASE i = 1
      <4>1. n + 1 + 1 - i = n + 1  BY <2>10, <3>1
      <4>2. QED  BY <2>11, <3>1, <4>1 DEF next
    <3>2. CASE i # 1
      <4>1. i - 1 \in 1 .. n - 1 /\ n + 1 - (i - 1) = n + 1 + 1 - i
        BY <2>10, <3>2
      <4>2. QED  BY <2>8, <2>11, <3>2, <4>1
    <3>3. QED  BY <3>1, <3>2
  <2>13. turn'[w] = n + 1 /\ n + 1 - 1 = n  BY <2>6, <2>10 DEF n
  <2>14. SlavesSoFar(turn[w])'  BY <2>11, <2>12, <2>13 DEF SlavesSoFar
  <2>15. QED  BY <2>2, <2>6, <2>14
<1>4. ASSUME NEW w \in Worker, WriteUnanswered(w)
      PROVE  SlavesSoFar(turn[o])' /\ (pc'[o] = "assist" => found'[o] = assistants')
  <2>1. Outdates(w) /\ Exit(w)
    BY <1>4 DEF WriteUnanswered, OpenRoom, WriteAssistants
  <2>2. o = w  BY <2>1, OthersOutdated
  <2>3. pc'[w] = "down"  BY <2>1 DEF Exit, Goto, TypeOK
  <2>4. QED  BY <2>2, <2>3
<1>5. ASSUME NEW w \in Worker, Start(w), assistants' = assistants
      PROVE  SlavesSoFar(turn[o])' /\ (pc'[o] = "assist" => found'[o] = assistants')
  <2>1. pc'[w] = "count"
    <3>1. turn[w] = 0 /\ pc' = [pc EXCEPT ![w] = Where(turn[w])]
      BY <1>5 DEF Start, Goto, TypeOK
    <3>2. QED  BY <1>0, <3>1, WhereNext DEF TypeOK
  <2>2. o # w  BY <2>1
  <2>3. current[o] /\ pc'[o] = pc[o] /\ turn'[o] = turn[o] /\ found'[o] = found[o]
    BY <1>5, <2>2 DEF Start, Goto, TypeOK
  <2>4. SlavesSoFar(turn[o]) /\ (pc[o] = "assist" => found[o] = assistants)
    BY <2>3 DEF AssistantsInv
  <2>5. QED  BY <1>5, <2>3, <2>4 DEF SlavesSoFar
<1>6. ASSUME AssistantsAlone
      PROVE  SlavesSoFar(turn[o])' /\ (pc'[o] = "assist" => found'[o] = assistants')
  <2>1. /\ assistants' = assistants /\ current[o] /\ pc'[o] = pc[o]
        /\ turn'[o] = turn[o] /\ found'[o] = found[o]
    BY <1>6 DEF AssistantsAlone
  <2>2. SlavesSoFar(turn[o]) /\ (pc[o] = "assist" => found[o] = assistants)
    BY <2>1 DEF AssistantsInv
  <2>3. QED  BY <2>1, <2>2 DEF SlavesSoFar
<1>7. QED  BY <1>1, <1>2, <1>3, <1>4, <1>5, <1>6, StepKinds

LEMMA AssistantsInvImpliesComplete ==
    GroupIsRoom /\ TypeOK /\ AssistantsInv => AssistantsComplete
<1> SUFFICES ASSUME GroupIsRoom, TypeOK, AssistantsInv,
                    NEW w \in Worker, pc[w] = "serving", current[w]
             PROVE  Range(assistants) = Slaves /\ Len(assistants) = Cardinality(Slaves)
  BY DEF AssistantsComplete
<1> DEFINE N == Len(Group)
<1>1. /\ N \in Nat /\ N >= 2 /\ Cardinality(Slaves) = N - 1
      /\ \A s \in Slaves : \E i \in 2 .. N : Group[i].id = s
  BY GroupFacts
<1>2. turn[w] = N  BY DEF TypeOK
<1>3. /\ Len(assistants) = N - 1
      /\ \A i \in 1 .. N - 1 : assistants[i] = Group[N + 1 - i].id
  BY <1>2 DEF AssistantsInv, SlavesSoFar
<1>4. assistants \in Seq(Slaves)  BY StateTyped
<1>5. DOMAIN assistants = 1 .. N - 1 /\ \A i \in 1 .. N - 1 : assistants[i] \in Slaves
  BY <1>3, <1>4, LenProperties, ElementOfSeq
<1> HIDE DEF N
<1>6. ASSUME NEW s \in Slaves PROVE s \in Range(assistants)
  <2>1. PICK i \in 2 .. N : Group[i].id = s  BY <1>1
  <2>2. N + 1 - i \in 1 .. N - 1 /\ N + 1 - (N + 1 - i) = i  BY <1>1
  <2>3. assistants[N + 1 - i] = s  BY <1>3, <2>1, <2>2
  <2>4. QED  BY <1>5, <2>2, <2>3 DEF Range
<1>7. Range(assistants) \subseteq Slaves  BY <1>5 DEF Range
<1>8. QED  BY <1>1, <1>3, <1>6, <1>7

(* Whatever other starts left behind, a start whose reads were current and *)
(* that no other start wrote into has each slave in the room exactly once. *)
THEOREM StartIsComplete ==
    ASSUME GroupIsRoom PROVE Spec => []AssistantsComplete
<1>1. AssistantsInv /\ TypeOK /\ [Next]_vars => AssistantsInv'  BY AssistantsNext
<1>2. TypeOK /\ AssistantsInv => AssistantsComplete  BY AssistantsInvImpliesComplete
<1>3. QED  BY <1>1, <1>2, AssistantsInit, TypeCorrect, PTL DEF Spec

(* Who leaves the room without assistants is not serving afterwards, and   *)
(* whoever comes to serve has added one.                                   *)
LEMMA DrawnNext ==
    GroupIsRoom /\ TypeOK /\ QueueCanBeDrawn /\ [Next]_vars => QueueCanBeDrawn'
<1> SUFFICES ASSUME GroupIsRoom, TypeOK, QueueCanBeDrawn, [Next]_vars,
                    assistants' = <<>>
             PROVE  \E w \in Worker : pc'[w] # "serving"
  BY DEF QueueCanBeDrawn, Serving
<1>1. ASSUME NEW w \in Worker, Open(w) PROVE pc'[w] # "serving"
  <2>1. /\ pc[w] = "open" /\ Written(w) /\ OpenRoom(w)
    BY <1>1 DEF Open
  <2>2. opened' /\ turn[w] = 0  BY <2>1, OpenRoomTypes DEF TypeOK
  <2>3. /\ turn'[w] = turn[w] + 1
        /\ pc'[w] = IF turn'[w] = Len(Group) THEN "serving" ELSE "read"
    BY <2>1, <2>2, WrittenTypes
  <2>4. turn'[w] # Len(Group)
    <3> DEFINE N == Len(Group)
    <3>1. N \in Nat /\ N >= 2  BY GroupFacts
    <3>2. turn'[w] = 1  BY <2>2, <2>3
    <3> HIDE DEF N
    <3>3. turn'[w] # N  BY <3>1, <3>2
    <3>4. QED  BY <3>3 DEF N
  <2>5. QED  BY <2>3, <2>4
<1>2. ASSUME NEW w \in Worker, pc[w] = "assist", WriteAssistants(w) PROVE FALSE
  <2>1. /\ assistants' = <<Group[turn[w] + 1].id>> \o found[w]
        /\ Group[turn[w] + 1].id \in Slaves
    BY <1>2, WriteTypes
  <2>2. found[w] \in Seq(Slaves)  BY DEF TypeOK
  <2>3. Len(assistants') = 1 + Len(found[w]) /\ Len(found[w]) \in Nat
    <3> DEFINE one == <<Group[turn[w] + 1].id>>
    <3>1. one \in Seq(Slaves) /\ Len(one) = 1  BY <2>1
    <3>2. assistants' = one \o found[w]  BY <2>1
    <3> HIDE DEF one
    <3>3. QED  BY <2>2, <3>1, <3>2, ConcatProperties, LenProperties
  <2>4. Len(assistants') # 0  BY <2>3
  <2>5. QED  BY <2>4
<1>3. ASSUME NEW w \in Worker, WriteUnanswered(w) PROVE pc'[w] # "serving"
  <2>1. Exit(w)  BY <1>3 DEF WriteUnanswered
  <2>2. QED  BY <2>1 DEF Exit, Goto, TypeOK
<1>4. ASSUME AssistantsAlone PROVE \E w \in Worker : pc'[w] # "serving"
  <2>1. Serving # Worker  BY <1>4 DEF AssistantsAlone, QueueCanBeDrawn
  <2>2. PICK o \in Worker : pc[o] # "serving"  BY <2>1 DEF Serving
  <2>3. QED  BY <1>4, <2>2 DEF AssistantsAlone
<1>5. ASSUME NEW w \in Worker, ReadAssistants(w) PROVE pc'[w] # "serving"
  BY <1>5 DEF ReadAssistants, Goto, TypeOK
<1>6. QED
  BY <1>1, <1>2, <1>3, <1>4, <1>5, StepKinds DEF AddAssistant

(* However starts overlap and are cut short, once every worker serves the  *)
(* room has an assistant, and its grid can be drawn.                       *)
THEOREM DrawnWhenServing ==
    ASSUME GroupIsRoom PROVE Spec => []QueueCanBeDrawn
<1>1. QueueCanBeDrawn /\ TypeOK /\ [Next]_vars => QueueCanBeDrawn'  BY DrawnNext
<1>2. QED  BY <1>1, AssistantsInit, TypeCorrect, PTL DEF Spec

-----------------------------------------------------------------------------
(* Recounted counters *)

LEMMA WithinNext ==
    ASSUME NEW f \in [Kinds -> SUBSET User], NEW g \in [Kinds -> SUBSET User],
           NEW h \in [Kinds -> SUBSET User], NEW n \in Nat,
           Within(f, g, n), Within(g, h, 1)
    PROVE  Within(f, h, n + 1)
<1>1. ASSUME NEW k \in Kinds
      PROVE  Cardinality(f[k]) - Cardinality(h[k]) \in (-(n + 1)) .. n + 1
  <2> DEFINE a == Cardinality(f[k])
             b == Cardinality(g[k])
             c == Cardinality(h[k])
  <2>1. a \in Nat /\ b \in Nat /\ c \in Nat  BY CountTyped
  <2>2. a - b \in (-n) .. n /\ b - c \in (-1) .. 1  BY DEF Within
  <2> HIDE DEF a, b, c
  <2>3. a - c \in (-(n + 1)) .. n + 1  BY <2>1, <2>2
  <2>4. QED  BY <2>3 DEF a, b, c
<1>2. QED  BY <1>1 DEF Within

LEMMA WithinSelf ==
    ASSUME NEW f \in [Kinds -> SUBSET User], NEW n \in Nat PROVE Within(f, f, n)
<1>1. ASSUME NEW k \in Kinds PROVE Cardinality(f[k]) - Cardinality(f[k]) \in (-n) .. n
  <2> DEFINE a == Cardinality(f[k])
  <2>1. a \in Nat  BY CountTyped
  <2> HIDE DEF a
  <2>2. a - a \in (-n) .. n  BY <2>1
  <2>3. QED  BY <2>2 DEF a
<1>2. QED  BY <1>1 DEF Within

(* A commit changes one flag and is missed by those that count; what       *)
(* changes no flag only adds to the secondary's past, or forgets some.     *)
LEMMA FlagSteps ==
    ASSUME TypeOK, TypeOK', [Next]_vars
    PROVE  \/ Transaction /\ Within(on, on', 1)
           \/ on' = on /\ (lagging' = lagging \/ Remember \/ Replicate)
<1>1. /\ on \in [Kinds -> SUBSET User] /\ on' \in [Kinds -> SUBSET User]
  BY DEF TypeOK, View, States
<1>2. ASSUME NEW k \in Kinds, \A l \in Kinds : l # k => on'[l] = on[l],
             Cardinality(on[k]) - Cardinality(on'[k]) \in (-1) .. 1
      PROVE  Within(on, on', 1)
  <2>1. ASSUME NEW l \in Kinds
        PROVE  Cardinality(on[l]) - Cardinality(on'[l]) \in (-1) .. 1
    <3>1. CASE l = k  BY <1>2, <3>1
    <3>2. CASE l # k
      <4>1. on'[l] = on[l]  BY <1>1, <1>2, <3>2
      <4>2. Within(on, on, 1)  BY <1>1, WithinSelf
      <4>3. QED  BY <4>1, <4>2 DEF Within
    <3>3. QED  BY <3>1, <3>2
  <2>2. QED  BY <2>1 DEF Within
<1>3. ASSUME NEW k \in Kinds, NEW u \in User,
             Enter(k, u) \/ Leave(k, u) \/ Drift(k, u)
      PROVE  Transaction /\ Within(on, on', 1)
  <2>1. Transaction /\ (SetFlag(k, u) \/ ClearFlag(k, u))
    BY <1>3 DEF Enter, Leave, Drift
  <2> DEFINE a == Cardinality(on[k])
             b == Cardinality(on'[k])
  <2>2. /\ \A l \in Kinds : l # k => on'[l] = on[l]
        /\ a \in Nat /\ (b = a + 1 \/ b = a - 1)
    BY <2>1, FlagChanged
  <2>3. a - b \in (-1) .. 1
    <3> HIDE DEF a, b
    <3>1. QED  BY <2>2
  <2>4. QED  BY <1>2, <2>1, <2>2, <2>3
<1>6. CASE \E w \in Worker : \/ Start(w) \/ Recount(w) \/ Open(w)
                             \/ ReadAssistants(w) \/ AddAssistant(w)
                             \/ StartFails(w) \/ WriteUnanswered(w) \/ Stop(w)
  BY <1>6 DEF Start, Recount, Open, OpenRoom, ReadAssistants, AddAssistant,
              WriteAssistants, StartFails, WriteUnanswered, Stop
<1>7. CASE Replicate \/ UNCHANGED vars  BY <1>7 DEF Replicate, vars
<1>8. QED  BY <1>3, <1>6, <1>7 DEF Next

LEMMA ViewsNext ==
    TypeOK /\ TypeOK' /\ ViewsClose /\ [Next]_vars => ViewsClose'
<1> SUFFICES ASSUME TypeOK, TypeOK', ViewsClose, [Next]_vars PROVE ViewsClose'
  OBVIOUS
<1> DEFINE n == Len(lagging)
<1>1. /\ on \in [Kinds -> SUBSET User] /\ on' \in [Kinds -> SUBSET User]
      /\ lagging \in Seq(States) /\ lagging' \in Seq(States)
  BY DEF TypeOK, View, States
<1>2. /\ n \in Nat /\ n' \in Nat /\ DOMAIN lagging = 1 .. n /\ DOMAIN lagging' = 1 .. n'
  <2> HIDE DEF States
  <2>1. QED  BY <1>1, LenProperties
<1>3. \A i \in 1 .. n : lagging[i].on \in [Kinds -> SUBSET User]
  <2>1. \A i \in DOMAIN lagging : lagging[i] \in Visible  BY DEF Visible, Range
  <2>2. QED  BY <1>2, <2>1, StateTyped
<1> HIDE DEF n
<1>4. \A i \in 1 .. n : Within(lagging[i].on, on, n + 1 - i)
  BY <1>2 DEF ViewsClose, n
<1>5. ASSUME Remember, Within(on, on', 1) PROVE ViewsClose'
  <2>1. ASSUME NEW i \in 1 .. n' PROVE Within(lagging'[i].on, on', n' + 1 - i)
    <3>1. CASE i = n' /\ lagging'[i] = View
      <4>1. n' + 1 - i = 1
        <5>1. i \in Nat /\ n' = i  BY <1>2, <3>1
        <5>2. i + 1 - i = 1  BY <5>1
        <5>3. QED  BY <5>1, <5>2
      <4>2. lagging'[i].on = on  BY <3>1 DEF View
      <4>3. QED  BY <1>5, <4>1, <4>2
    <3>2. ASSUME NEW j \in 1 .. n, lagging'[i] = lagging[j], n' - i = n + 1 - j
          PROVE  Within(lagging'[i].on, on', n' + 1 - i)
      <4>1. n + 1 - j \in Nat /\ n' + 1 - i = (n + 1 - j) + 1  BY <1>2, <3>2
      <4>2. Within(lagging[j].on, on, n + 1 - j)  BY <1>4
      <4>3. Within(lagging[j].on, on', (n + 1 - j) + 1)
        BY <1>1, <1>3, <1>5, <4>1, <4>2, WithinNext
      <4>4. QED  BY <3>2, <4>1, <4>3
    <3>3. QED  BY <1>2, <1>5, <3>1, <3>2, Remembered DEF n
  <2>2. QED  BY <1>2, <2>1 DEF ViewsClose, n
<1>6. ASSUME Replicate, on' = on PROVE ViewsClose'
  <2>1. ASSUME NEW i \in 1 .. n' PROVE Within(lagging'[i].on, on', n' + 1 - i)
    <3>1. i + 1 \in 1 .. n /\ lagging'[i] = lagging[i + 1] /\ n' - i = n - (i + 1)
      BY <1>2, <1>6, ReplicateForgets DEF n
    <3>2. n' + 1 - i = n + 1 - (i + 1)  BY <1>2, <3>1
    <3>3. QED  BY <1>4, <1>6, <3>1, <3>2
  <2>2. QED  BY <1>2, <2>1 DEF ViewsClose, n
<1>7. CASE Transaction /\ Within(on, on', 1)  BY <1>5, <1>7 DEF Transaction
<1>8. CASE on' = on /\ Remember
  <2>1. Within(on, on', 1)  BY <1>1, <1>8, WithinSelf
  <2>2. QED  BY <1>5, <1>8, <2>1
<1>9. CASE on' = on /\ lagging' = lagging  BY <1>9 DEF ViewsClose, Within
<1>10. CASE on' = on /\ Replicate  BY <1>6, <1>10
<1>11. QED  BY <1>7, <1>8, <1>9, <1>10, FlagSteps

(* Any view a worker may count in is no further off than MaxLag commits.   *)
LEMMA VisibleClose ==
    ASSUME TypeOK, ViewsClose, NEW v \in Visible, v # View
    PROVE  Within(v.on, on, MaxLag)
<1> DEFINE n == Len(lagging)
<1>1. lagging \in Seq(States) /\ n <= MaxLag /\ MaxLag \in Nat
  BY ConstantsAssumption DEF TypeOK
<1>2. n \in Nat /\ DOMAIN lagging = 1 .. n
  <2> HIDE DEF States
  <2>1. QED  BY <1>1, LenProperties
<1>3. PICK i \in 1 .. n : v = lagging[i]  BY <1>2 DEF Visible, Range
<1>4. Within(v.on, on, n + 1 - i)  BY <1>2, <1>3 DEF ViewsClose
<1>5. v.on \in [Kinds -> SUBSET User] /\ on \in [Kinds -> SUBSET User]  BY StateTyped
<1> HIDE DEF n
<1>6. n + 1 - i \in Nat /\ n + 1 - i <= MaxLag  BY <1>1, <1>2
<1>7. ASSUME NEW k \in Kinds
      PROVE  Cardinality(v.on[k]) - Cardinality(on[k]) \in (-MaxLag) .. MaxLag
  <2> DEFINE a == Cardinality(v.on[k])
             b == Cardinality(on[k])
             m == n + 1 - i
  <2>1. a \in Nat /\ b \in Nat  BY <1>5, CountTyped
  <2>2. a - b \in (-m) .. m  BY <1>4 DEF Within
  <2>3. m \in Nat /\ m <= MaxLag  BY <1>6
  <2> HIDE DEF a, b, m
  <2>4. a - b \in (-MaxLag) .. MaxLag  BY <1>1, <2>1, <2>2, <2>3
  <2>5. QED  BY <2>4 DEF a, b
<1>8. QED  BY <1>7 DEF Within

(* A worker's counts are as close as CountsClose says. *)
CloseCounts(w) ==
    \A i \in DOMAIN counted[w] :
        counted[w][i] - Cardinality(on[Order[i]]) \in (-missed[w]) .. missed[w]

LEMMA CountsKept ==
    ASSUME CountsClose, NEW o \in Worker, on' = on,
           \/ counted'[o] = counted[o] /\ missed'[o] = missed[o]
           \/ counted'[o] = <<>>
    PROVE  CloseCounts(o)'
<1>1. CASE counted'[o] = <<>>
  <2>1. DOMAIN <<>> = {}  OBVIOUS
  <2>2. QED  BY <1>1, <2>1 DEF CloseCounts
<1>2. CASE counted'[o] = counted[o] /\ missed'[o] = missed[o]
  BY <1>2 DEF CountsClose, CloseCounts
<1>3. QED  BY <1>1, <1>2

LEMMA CountsTransaction ==
    ASSUME TypeOK, TypeOK', CountsClose, Transaction, Within(on, on', 1)
    PROVE  CountsClose'
<1> SUFFICES ASSUME NEW w \in Worker PROVE CloseCounts(w)'
  BY DEF CountsClose, CloseCounts
<1>1. /\ on \in [Kinds -> SUBSET User] /\ on' \in [Kinds -> SUBSET User]
      /\ counted \in [Worker -> Seq(Nat)]
      /\ missed \in [Worker -> 0 .. Max({MaxLag, MaxMissed})]
  BY DEF TypeOK, View, States
<1>2. counted' = counted
      /\ missed' = [o \in Worker |-> IF Counting(o) THEN missed[o] + 1 ELSE missed[o]]
  BY DEF Transaction, Missed
<1>3. CASE ~Counting(w)
  <2>1. counted'[w] = <<>>  BY <1>2, <1>3 DEF TypeOK
  <2>2. DOMAIN <<>> = {}  OBVIOUS
  <2>3. QED  BY <2>1, <2>2 DEF CloseCounts
<1>4. CASE Counting(w)
  <2>1. missed'[w] = missed[w] + 1  BY <1>2, <1>4
  <2>2. missed[w] \in Nat  BY <1>1, MissedTop
  <2>3. ASSUME NEW i \in DOMAIN counted[w]
        PROVE  counted[w][i] - Cardinality(on'[Order[i]]) \in
                 (-(missed[w] + 1)) .. missed[w] + 1
    <3>1. counted[w][i] \in Nat  BY <1>1
    <3>2. Order[i] \in Kinds
      <4>1. /\ Len(counted[w]) \in Nat /\ DOMAIN counted[w] = 1 .. Len(counted[w])
        BY <1>1, LenProperties
      <4>2. Len(counted[w]) <= Len(Order) /\ Len(Order) \in Nat
        BY <1>4, <4>1, OrderNotEmpty DEF TypeOK, Counting
      <4>3. i \in 1 .. Len(Order)  BY <4>1, <4>2
      <4>4. QED  BY <4>3, OrderKinds
    <3> DEFINE a == counted[w][i]
               b == Cardinality(on[Order[i]])
               c == Cardinality(on'[Order[i]])
               m == missed[w]
    <3>3. b \in Nat /\ c \in Nat  BY <1>1, <3>2, CountTyped
    <3>4. b - c \in (-1) .. 1  BY <3>2 DEF Within
    <3>5. a - b \in (-m) .. m  BY DEF CountsClose
    <3>6. a \in Nat /\ m \in Nat  BY <2>2, <3>1
    <3> HIDE DEF a, b, c, m
    <3>7. a - c \in (-(m + 1)) .. m + 1  BY <3>3, <3>4, <3>5, <3>6
    <3>8. QED  BY <3>7 DEF a, c, m
  <2>4. QED  BY <1>2, <2>1, <2>3 DEF CloseCounts
<1>5. QED  BY <1>3, <1>4

LEMMA CountsRecount ==
    ASSUME TypeOK, TypeOK', ViewsClose, CountsClose, NEW w \in Worker, Recount(w)
    PROVE  CountsClose'
<1>1. PICK v \in Visible :
        /\ Reads(w, v)
        /\ counted' = [counted EXCEPT ![w] =
                         Append(@, Cardinality(v.on[Order[Len(@) + 1]]))]
        /\ missed' = [missed EXCEPT ![w] = IF v = View THEN @ ELSE Max({@, MaxLag})]
  BY DEF Recount
<1>2. pc[w] = "count" /\ on' = on  BY DEF Recount
<1> DEFINE m == Len(counted[w])
           n == Cardinality(v.on[Order[m + 1]])
           now == IF v = View THEN missed[w] ELSE Max({missed[w], MaxLag})
<1>3. counted[w] \in Seq(Nat) /\ m \in Nat /\ m < Len(Order)
  BY <1>2 DEF TypeOK
<1>4. Order[m + 1] \in Kinds
  <2>1. m + 1 \in 1 .. Len(Order)  BY <1>3, OrderNotEmpty
  <2>2. QED  BY <2>1, OrderKinds
<1>5. v.on \in [Kinds -> SUBSET User] /\ on \in [Kinds -> SUBSET User]  BY StateTyped
<1>6. n \in Nat  BY <1>4, <1>5, CountTyped
<1>7. counted' = [counted EXCEPT ![w] = Append(counted[w], n)]
      /\ missed' = [missed EXCEPT ![w] = now]
  BY <1>1
<1> DEFINE top == Max({MaxLag, MaxMissed})
<1>8. missed \in [Worker -> 0 .. top] /\ top \in Nat  BY MissedTop DEF TypeOK
<1> HIDE DEF top
<1>9. missed[w] \in Nat /\ MaxLag \in Nat  BY <1>8, ConstantsAssumption
<1>10. now \in Nat /\ now >= missed[w] /\ (v # View => now >= MaxLag)
  BY <1>9, MaxOfTwo
<1>11. n - Cardinality(on[Order[m + 1]]) \in (-now) .. now
  <2> DEFINE b == Cardinality(on[Order[m + 1]])
  <2>1. b \in Nat  BY <1>4, <1>5, CountTyped
  <2>2. CASE v = View
    <3>1. n = b  BY <2>2 DEF View
    <3> HIDE DEF n, b, now
    <3>2. n - b \in (-now) .. now  BY <1>10, <2>1, <3>1
    <3>3. QED  BY <3>2 DEF b
  <2>3. CASE v # View
    <3>1. n - b \in (-MaxLag) .. MaxLag
      BY <1>4, <2>3, VisibleClose DEF Within
    <3>2. now >= MaxLag  BY <1>10, <2>3
    <3> HIDE DEF n, b, now
    <3>3. n - b \in (-now) .. now
      BY <1>6, <1>9, <1>10, <2>1, <3>1, <3>2
    <3>4. QED  BY <3>3 DEF b
  <2>4. QED  BY <2>2, <2>3
<1> HIDE DEF n, now
<1>12. /\ counted'[w] = Append(counted[w], n) /\ missed'[w] = now
       /\ \A o \in Worker \ {w} : counted'[o] = counted[o] /\ missed'[o] = missed[o]
  BY <1>7, <1>8 DEF TypeOK
<1>13. CloseCounts(w)'
  <2> DEFINE longer == Append(counted[w], n)
  <2>1. /\ longer \in Seq(Nat) /\ Len(longer) = m + 1
        /\ \A i \in 1 .. m : longer[i] = counted[w][i]
        /\ longer[m + 1] = n
    BY <1>3, <1>6, AppendProperties
  <2>2. DOMAIN longer = 1 .. m + 1  BY <2>1, LenProperties
  <2>3. DOMAIN counted[w] = 1 .. m  BY <1>3, LenProperties
  <2> HIDE DEF longer
  <2>4. ASSUME NEW i \in 1 .. m + 1
        PROVE  longer[i] - Cardinality(on[Order[i]]) \in (-now) .. now
    <3>1. CASE i = m + 1  BY <1>11, <2>1, <3>1
    <3>2. CASE i # m + 1
      <4>1. i \in 1 .. m  BY <1>3, <3>2
      <4> DEFINE a == counted[w][i]
                 b == Cardinality(on[Order[i]])
                 l == missed[w]
      <4>2. a - b \in (-l) .. l  BY <2>3, <4>1 DEF CountsClose
      <4>3. a \in Nat  BY <1>3, <2>3, <4>1
      <4>4. b \in Nat
        <5>1. i \in 1 .. Len(Order)  BY <1>3, <4>1, OrderNotEmpty
        <5>2. QED  BY <1>5, <5>1, OrderKinds, CountTyped
      <4>5. l \in Nat /\ now \in Nat /\ now >= l  BY <1>9, <1>10
      <4>6. longer[i] = a  BY <2>1, <4>1
      <4> HIDE DEF a, b, l
      <4>7. a - b \in (-now) .. now  BY <4>2, <4>3, <4>4, <4>5
      <4>8. QED  BY <4>6, <4>7 DEF b
    <3>3. QED  BY <3>1, <3>2
  <2>5. counted'[w] = longer  BY <1>12 DEF longer
  <2>6. QED  BY <1>2, <1>12, <2>2, <2>4, <2>5 DEF CloseCounts
<1>14. ASSUME NEW o \in Worker \ {w} PROVE CloseCounts(o)'
  BY <1>2, <1>12, CountsKept
<1>15. \A o \in Worker : CloseCounts(o)'  BY <1>13, <1>14
<1>16. QED  BY <1>15 DEF CountsClose, CloseCounts

LEMMA RecountInit == Init => RecountInv
<1> SUFFICES ASSUME Init PROVE RecountInv  OBVIOUS
<1>1. DOMAIN <<>> = {}  OBVIOUS
<1>2. lagging = <<>> /\ \A w \in Worker : counted[w] = <<>>  BY DEF Init
<1>3. QED  BY <1>1, <1>2 DEF RecountInv, ViewsClose, CountsClose

LEMMA RecountNext ==
    TypeOK /\ TypeOK' /\ RecountInv /\ [Next]_vars => RecountInv'
<1> SUFFICES ASSUME TypeOK, TypeOK', RecountInv, [Next]_vars PROVE RecountInv'
  OBVIOUS
<1>1. ViewsClose /\ CountsClose  BY DEF RecountInv
<1>2. ViewsClose'  BY <1>1, ViewsNext
<1>3. ASSUME on' = on,
             \A o \in Worker : \/ counted'[o] = counted[o] /\ missed'[o] = missed[o]
                              \/ counted'[o] = <<>>
      PROVE  CountsClose'
  <2>1. \A o \in Worker : CloseCounts(o)'  BY <1>1, <1>3, CountsKept
  <2>2. QED  BY <2>1 DEF CountsClose, CloseCounts
<1>4. ASSUME NEW w \in Worker,
             \/ Open(w) \/ AddAssistant(w)
             \/ StartFails(w) \/ WriteUnanswered(w) \/ Stop(w)
      PROVE  CountsClose'
  <2>1. /\ on' = on /\ counted' = [counted EXCEPT ![w] = <<>>]
        /\ missed' = [missed EXCEPT ![w] = 0]
    BY <1>4 DEF Open, OpenRoom, AddAssistant, WriteAssistants, Written,
                StartFails, WriteUnanswered, Stop, Exit
  <2>2. \A o \in Worker : \/ counted'[o] = counted[o] /\ missed'[o] = missed[o]
                          \/ counted'[o] = <<>>
    BY <2>1 DEF TypeOK
  <2>3. QED  BY <1>3, <2>1, <2>2
<1>5. ASSUME \/ \E w \in Worker : Start(w) \/ ReadAssistants(w)
             \/ Replicate \/ UNCHANGED vars
      PROVE  CountsClose'
  <2>1. on' = on /\ counted' = counted /\ missed' = missed
    BY <1>5 DEF Start, ReadAssistants, Replicate, vars
  <2>2. QED  BY <1>3, <2>1
<1>6. ASSUME NEW w \in Worker, Recount(w) PROVE CountsClose'
  BY <1>1, <1>6, CountsRecount
<1>7. ASSUME \E k \in Kinds, u \in User : Enter(k, u) \/ Leave(k, u) \/ Drift(k, u)
      PROVE  CountsClose'
  <2>1. Transaction  BY <1>7 DEF Enter, Leave, Drift
  <2>2. Within(on, on', 1)
    <3>1. on \in [Kinds -> SUBSET User]  BY StateTyped
    <3>2. CASE on' = on
      <4>1. Within(on, on, 1)  BY <3>1, WithinSelf
      <4>2. QED  BY <3>2, <4>1
    <3>3. QED  BY <3>2, FlagSteps
  <2>3. QED  BY <1>1, <2>1, <2>2, CountsTransaction
<1>8. CountsClose'  BY <1>4, <1>5, <1>6, <1>7 DEF Next
<1>9. QED  BY <1>2, <1>8 DEF RecountInv

(* What a worker that leaves "open" has done. *)
LEMMA OpenLeft ==
    ASSUME TypeOK, [Next]_vars, NEW w \in Worker,
           pc[w] = "open", pc'[w] \notin {"open", "down"}
    PROVE  Open(w)
<1>1. ASSUME NEW o \in Worker,
             \/ Start(o) \/ Recount(o) \/ ReadAssistants(o) \/ AddAssistant(o)
      PROVE  o # w /\ pc'[w] = pc[w]
  <2>1. pc[o] # "open"
    BY <1>1 DEF Start, Recount, ReadAssistants, AddAssistant
  <2>2. \E where : pc' = [pc EXCEPT ![o] = where]
    BY <1>1 DEF Start, Recount, ReadAssistants, AddAssistant, Written, Goto
  <2>3. QED  BY <2>1, <2>2 DEF TypeOK
<1>2. ASSUME NEW o \in Worker, StartFails(o) \/ WriteUnanswered(o) \/ Stop(o)
      PROVE  FALSE
  <2>1. pc' = [pc EXCEPT ![o] = "down"]
    BY <1>2 DEF StartFails, WriteUnanswered, Stop, Exit, Goto
  <2>2. QED  BY <2>1 DEF TypeOK
<1>3. ASSUME NEW o \in Worker, Open(o) PROVE Open(w)
  <2>1. pc' = [pc EXCEPT ![o] = Where(turn[o] + 1)]  BY <1>3 DEF Open, Written, Goto
  <2>2. o = w  BY <2>1 DEF TypeOK
  <2>3. QED  BY <1>3, <2>2
<1>4. ASSUME \/ \E k \in Kinds, u \in User : Enter(k, u) \/ Leave(k, u) \/ Drift(k, u)
             \/ Replicate \/ UNCHANGED vars
      PROVE  pc' = pc
  BY <1>4 DEF Enter, Leave, Drift, Transaction, Replicate, vars
<1>5. QED  BY <1>1, <1>2, <1>3, <1>4 DEF Next

LEMMA RecountStep ==
    ASSUME TypeOK, RecountInv, NEW w \in Worker, NEW k \in Kinds,
           pc[w] = "open", OpenRoom(w)
    PROVE  cnt'[k] - def'.ai - Cardinality(on'[k]) \in (-missed[w]) .. missed[w]
<1> DEFINE i == CHOOSE j \in DOMAIN Order : Order[j] = k
<1>1. /\ cnt'[k] = UsersAndAi(w, i) /\ def' = plan[w] /\ on' = on
  BY DEF OpenRoom
<1>2. i \in DOMAIN Order /\ Order[i] = k  BY DEF Kinds, Range
<1> HIDE DEF i
<1>3. i \in DOMAIN counted[w] /\ counted[w][i] \in Nat
  <2>1. Order \in Seq(Kinds) /\ counted[w] \in Seq(Nat)
        /\ Len(counted[w]) = Len(Order)
    BY ConstantsAssumption DEF TypeOK
  <2>2. DOMAIN Order = DOMAIN counted[w]  BY <2>1, LenProperties
  <2>3. i \in DOMAIN counted[w]  BY <1>2, <2>2
  <2>4. QED  BY <2>1, <2>3
<1>4. counted[w][i] - Cardinality(on[k]) \in (-missed[w]) .. missed[w]
  BY <1>2, <1>3 DEF RecountInv, CountsClose
<1>5. plan[w].ai \in Nat  BY ConstantsAssumption DEF TypeOK
<1>6. Cardinality(on[k]) \in Nat  BY StateTyped, CountTyped
<1> DEFINE a == counted[w][i]
           b == Cardinality(on[k])
           ai == plan[w].ai
<1>7. cnt'[k] = a + ai /\ def'.ai = ai /\ Cardinality(on'[k]) = b
  BY <1>1 DEF UsersAndAi
<1>8. a \in Nat /\ b \in Nat /\ ai \in Nat /\ a - b \in (-missed[w]) .. missed[w]
  BY <1>3, <1>4, <1>5, <1>6
<1> HIDE DEF a, b, ai
<1>9. (a + ai) - ai - b = a - b  BY <1>8
<1>10. QED  BY <1>7, <1>8, <1>9

(* Whatever faults put the counters off, and however stale the views that  *)
(* were counted in, opening the room leaves no counter further off than    *)
(* the commits that its counts may have missed.                            *)
THEOREM StartsRepairCounters ==
    ASSUME GroupIsRoom PROVE Spec => RecountRepairs
<1>1. TypeOK /\ TypeOK' /\ RecountInv /\ [Next]_vars => RecountInv'
  BY RecountNext
<1>2. TypeOK /\ RecountInv /\ [Next]_vars =>
        [ \A w \in Worker, k \in Kinds :
             pc[w] = "open" /\ pc'[w] \notin {"open", "down"} =>
                cnt'[k] - def'.ai - Cardinality(on'[k]) \in
                   (-missed[w]) .. missed[w] ]_vars
  BY OpenLeft, RecountStep DEF Open
<1>3. QED
  BY <1>1, <1>2, RecountInit, TypeCorrect, PTL DEF Spec, RecountRepairs

-----------------------------------------------------------------------------
(* Users in the queue *)

(* What the steps of RoomStartup do to flags and counters. *)
LEMMA CounterSteps ==
    ASSUME [Next]_vars
    PROVE  \/ UNCHANGED <<on, cnt, def, opened, off>>
           \/ \E w \in Worker : OpenRoom(w) /\ pc[w] = "open"
           \/ \E k \in Kinds, u \in User : Enter(k, u) \/ Leave(k, u) \/ Drift(k, u)
  BY DEF Next, Start, Recount, Open, ReadAssistants, AddAssistant, WriteAssistants,
         StartFails, WriteUnanswered, Stop, Replicate, vars

LEMMA CountersInit == Init => CountersClose
  BY DEF Init, CountersClose

(* Flag and counter of one kind are moved, or only the flag. *)
LEMMA CounterMoves ==
    ASSUME TypeOK, CountersClose, NEW k \in Kinds, NEW u \in User,
           Enter(k, u) \/ Leave(k, u) \/ Drift(k, u)
    PROVE  CountersClose'
<1>1. /\ Transaction /\ (SetFlag(k, u) \/ ClearFlag(k, u))
      /\ cnt \in [Kinds -> Int] /\ off \in [Kinds -> Nat] /\ def \in Defs
  BY DEF Enter, Leave, Drift, TypeOK
<1>2. opened /\ def' = def
  BY <1>1 DEF Transaction, Serving, TypeOK
<1>3. \A l \in Kinds : l # k => on'[l] = on[l] /\ cnt'[l] = cnt[l] /\ off'[l] = off[l]
  <2>1. \A l \in Kinds : l # k => on'[l] = on[l]  BY <1>1, FlagChanged
  <2>2. QED  BY <1>1, <2>1 DEF Enter, Leave, Drift
<1> DEFINE c == cnt[k]
           q == Cardinality(on[k])
           n == off[k]
           ai == def.ai
<1>4. c \in Int /\ q \in Nat /\ n \in Nat /\ ai \in Nat
  BY <1>1, FlagChanged, ConstantsAssumption
<1>5. c - ai - q \in (-n) .. n  BY <1>2 DEF CountersClose
<1>6. \/ c' = c + 1 /\ q' = q + 1 /\ n' = n
      \/ c' = c - 1 /\ q' = q - 1 /\ n' = n
      \/ c' = c /\ (q' = q + 1 \/ q' = q - 1) /\ n' = n + 1
  <2>1. CASE Enter(k, u)
    <3>1. SetFlag(k, u) /\ cnt' = [cnt EXCEPT ![k] = @ + 1] /\ off' = off
      BY <2>1 DEF Enter
    <3>2. q' = q + 1  BY <3>1, FlagChanged
    <3>3. c' = c + 1 /\ n' = n  BY <1>1, <3>1
    <3>4. QED  BY <3>2, <3>3
  <2>2. CASE Leave(k, u)
    <3>1. ClearFlag(k, u) /\ cnt' = [cnt EXCEPT ![k] = @ - 1] /\ off' = off
      BY <2>2 DEF Leave
    <3>2. q' = q - 1  BY <3>1, FlagChanged
    <3>3. c' = c - 1 /\ n' = n  BY <1>1, <3>1
    <3>4. QED  BY <3>2, <3>3
  <2>3. CASE Drift(k, u)
    <3>1. /\ SetFlag(k, u) \/ ClearFlag(k, u)
          /\ cnt' = cnt /\ off' = [off EXCEPT ![k] = @ + 1]
      BY <2>3 DEF Drift
    <3>2. q' = q + 1 \/ q' = q - 1  BY <3>1, FlagChanged
    <3>3. c' = c /\ n' = n + 1  BY <1>1, <3>1
    <3>4. QED  BY <3>2, <3>3
  <2>4. QED  BY <2>1, <2>2, <2>3
<1>7. ai' = ai  BY <1>2
<1> HIDE DEF c, q, n, ai
<1>8. c' - ai' - q' \in (-n') .. n'  BY <1>4, <1>5, <1>6, <1>7
<1>9. ASSUME NEW l \in Kinds
      PROVE  cnt'[l] - def'.ai - Cardinality(on'[l]) \in (-off'[l]) .. off'[l]
  <2>1. CASE l = k  BY <1>8, <2>1 DEF c, q, n, ai
  <2>2. CASE l # k  BY <1>2, <1>3, <2>2 DEF CountersClose
  <2>3. QED  BY <2>1, <2>2
<1>10. QED  BY <1>9 DEF CountersClose

LEMMA CountersNext ==
    TypeOK /\ RecountInv /\ CountersClose /\ [Next]_vars => CountersClose'
<1> SUFFICES ASSUME TypeOK, RecountInv, CountersClose, [Next]_vars
             PROVE  CountersClose'
  OBVIOUS
<1>1. CASE UNCHANGED <<on, cnt, def, opened, off>>  BY <1>1 DEF CountersClose
<1>2. ASSUME NEW w \in Worker, OpenRoom(w), pc[w] = "open" PROVE CountersClose'
  <2>1. off' = [k \in Kinds |-> missed[w]]  BY <1>2 DEF OpenRoom
  <2>2. QED  BY <1>2, <2>1, RecountStep DEF CountersClose
<1>3. QED  BY <1>1, <1>2, CounterMoves, CounterSteps

(* Who gets into the queue, has a place by a counter that is close. *)
LEMMA QueueStep ==
    ASSUME TypeOK, CountersClose, [Next]_vars,
           Cardinality(on'["queue"]) > Cardinality(on["queue"])
    PROVE  def'.ai + Cardinality(on'["queue"]) <= def'.cap + off'["queue"]
<1> DEFINE c == cnt["queue"]
           q == Cardinality(on["queue"])
           n == off["queue"]
           ai == def.ai
           cap == def.cap
<1>1. /\ "queue" \in Kinds
      /\ c \in Int /\ q \in Nat /\ n \in Nat /\ ai \in Nat /\ cap \in Nat
  BY StateTyped, CountTyped, ConstantsAssumption DEF TypeOK
<1>2. on' # on  BY <1>1
<1>3. PICK k \in Kinds, u \in User : Enter(k, u) \/ Leave(k, u) \/ Drift(k, u)
  BY <1>2, CounterSteps DEF OpenRoom
<1>4. /\ Transaction /\ (SetFlag(k, u) \/ ClearFlag(k, u))
      /\ Enter(k, u) \/ Drift(k, u) \/ ClearFlag(k, u)
  BY <1>3 DEF Enter, Leave, Drift
<1>5. opened /\ def' = def  BY <1>4 DEF Transaction, Serving, TypeOK
<1>6. k = "queue"
  <2>1. SUFFICES ASSUME k # "queue" PROVE FALSE  OBVIOUS
  <2>2. on'["queue"] = on["queue"]  BY <1>1, <1>4, <2>1, FlagChanged
  <2>3. QED  BY <1>1, <2>2
<1>7. SetFlag(k, u)
  <2>1. SUFFICES ASSUME ClearFlag(k, u) PROVE FALSE  BY <1>4
  <2>2. q' = q - 1  BY <1>4, <1>6, <2>1, FlagChanged
  <2>3. q' > q  OBVIOUS
  <2> HIDE DEF q
  <2>4. QED  BY <1>1, <2>2, <2>3
<1>8. q' = q + 1  BY <1>4, <1>6, <1>7, FlagChanged
<1>9. c < cap  BY <1>6, <1>7 DEF SetFlag, HasPlace
<1>10. c - ai - q \in (-n) .. n  BY <1>1, <1>5 DEF CountersClose
<1> DEFINE m == off'["queue"]
<1>11. m \in Nat /\ m >= n
  BY <1>1, <1>3, <1>6 DEF Enter, Leave, Drift, TypeOK
<1> HIDE DEF c, q, n, m, ai, cap
<1>12. ai + (q + 1) <= cap + m  BY <1>1, <1>9, <1>10, <1>11
<1>13. QED  BY <1>5, <1>8, <1>12 DEF q, m, ai, cap

(* However many starts, overlapping, cut short or reading what is stale,   *)
(* have recounted the room and given it other places: nobody gets into its *)
(* queue beyond the places it has by then, except for the commits that the *)
(* last recount missed and the half operations since.                      *)
THEOREM QueueIsBounded == ASSUME GroupIsRoom PROVE Spec => QueueFits
<1>1. TypeOK /\ TypeOK' /\ RecountInv /\ [Next]_vars => RecountInv'
  BY RecountNext
<1>2. TypeOK /\ RecountInv /\ CountersClose /\ [Next]_vars => CountersClose'
  BY CountersNext
<1>3. TypeOK /\ CountersClose /\ [Next]_vars =>
        [ Cardinality(on'["queue"]) > Cardinality(on["queue"]) =>
            def'.ai + Cardinality(on'["queue"]) <= def'.cap + off'["queue"] ]_vars
  BY QueueStep
<1>4. QED
  BY <1>1, <1>2, <1>3, RecountInit, CountersInit, TypeCorrect, PTL DEF Spec, QueueFits

=============================================================================
