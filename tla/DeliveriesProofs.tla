-------------------------- MODULE DeliveriesProofs --------------------------
(***************************************************************************)
(* The services of one process: the log of Kafka, the records, the pushes  *)
(* and the free plays, for any number of coroutines and calls.             *)
(***************************************************************************)
EXTENDS Deliveries, TLAPS

LEMMA Inits == Init => DeliveriesInv
<1> SUFFICES ASSUME Init PROVE DeliveriesInv  OBVIOUS
<1> USE DEF Init
<1>1. TypeOK
  <2>1. KafkaTypeOK
    <3>1. <<>> \in Seq(Event) /\ IsInjective(<<>>)  BY DEF IsInjective
    <3>2. [e \in Event |-> None] \in [Event -> BOOLEAN \union {None}]  OBVIOUS
    <3>3. \A c \in Caller : pc[c] # "ack"  OBVIOUS
    <3>4. QED  BY <3>1, <3>2, <3>3 DEF KafkaInit, KafkaTypeOK
  <2>2. RecordsTypeOK  BY RecordsAssumption DEF RecordsInit, RecordsTypeOK
  <2>3. PushTypeOK  BY PushAssumption DEF PushInit, PushTypeOK
  <2>4. PlaysTypeOK
    <3>1. Granted \in Int \union {None}  BY PlaysAssumption
    <3>2. user \in [plays : Int \union {None}, deleted : BOOLEAN]
      BY <3>1 DEF PlaysInit
    <3>3. due \in Int /\ overlapped \in BOOLEAN
      <4>1. due = IF Granted = None THEN 3 ELSE Granted  BY DEF PlaysInit
      <4>2. due \in Int  BY <3>1, <4>1
      <4>3. overlapped \in BOOLEAN  BY Zenon DEF PlaysInit
      <4>4. QED  BY <4>2, <4>3
    <3>4. \A c \in Caller : pc[c] \notin {"plays", "update"}  OBVIOUS
    <3>5. behind \in [plays : Int \union {None}, deleted : BOOLEAN]
      BY <3>2 DEF PlaysInit
    <3>6. QED  BY <3>2, <3>3, <3>4, <3>5, Zenon DEF PlaysTypeOK
  <2>5. QED
    BY <2>1, <2>2, <2>3, <2>4, DeliveriesAssumption DEF TypeOK, Pc, Argument
<1>2. KafkaInv
  <2>1. \A e \in Event : answer[e] # TRUE /\ result[e] # TRUE
    BY NoneIsNoEvent, Zenon DEF KafkaInit
  <2>2. LogIsFaithful
    <3>1. IsInjective(log)  BY DEF KafkaInit, IsInjective
    <3>2. \A e \in Event : answer[e] = TRUE => e \in Range(log)
      BY <2>1, Zenon
    <3>3. DOMAIN log = {}  BY DEF KafkaInit
    <3>4. QED  BY <3>1, <3>2, <3>3, Zenon DEF LogIsFaithful
  <2>3. \A e \in Event : result[e] = TRUE => e \in Range(log)
    BY <2>1, Zenon
  <2>4. \A c \in Caller : pc[c] # "ack"  OBVIOUS
  <2>5. Len(buffer) = 0 /\ Len(sent) = 0 /\ Len(log) = 0
    BY DEF KafkaInit
  <2>6. 1 .. Len(buffer) = {} /\ 1 .. Len(log) = {}  BY <2>5
  <2>7. Len(buffer) <= Len(sent)  BY <2>5
  <2>8. QED  BY <2>2, <2>3, <2>4, <2>6, <2>7, Zenon DEF KafkaInv
<1>3. RecordsInv
  <2>1. stored = {} /\ \A r \in Result : drawn[r] <= 1
    BY DEF RecordsInit, Record
  <2>2. QED  BY <2>1 DEF RecordsInv, ResultStoredOnce
<1>4. PushInv  BY DEF PushInit, PushInv, Pushing, DeniedMeansSilent
<1>5. PlaysInv
  BY PlaysAssumption DEF PlaysInit, PlaysInv, PlaysOf, Changing
<1>6. QED  BY <1>1, <1>2, <1>3, <1>4, <1>5 DEF DeliveriesInv

-----------------------------------------------------------------------------
(* Every step of a coroutine moves it from one place of its call to the    *)
(* next and leaves the others where they are.                              *)

Moves(c, from, to, value) ==
    /\ pc[c] \in from /\ to \in Pc /\ pc' = [pc EXCEPT ![c] = to]
    /\ value \in Argument /\ arg' = [arg EXCEPT ![c] = value]

LEMMA Moved ==
  ASSUME TypeOK, NEW c \in Caller, NEW from, NEW to, NEW value,
         Moves(c, from, to, value)
  PROVE  /\ pc[c] \in from /\ pc'[c] = to /\ arg'[c] = value
         /\ pc' \in [Caller -> Pc] /\ arg' \in [Caller -> Argument]
         /\ \A d \in Caller : d # c => pc'[d] = pc[d] /\ arg'[d] = arg[d]
  BY DEF TypeOK, Moves

LEMMA Argless ==
  ASSUME TypeOK, NEW c \in Caller, NEW from, NEW to, NEW value,
         Moves(c, from, to, value), value = None <=> to \in {"idle", "device"}
  PROVE  /\ pc' \in [Caller -> Pc] /\ arg' \in [Caller -> Argument]
         /\ \A d \in Caller : arg'[d] = None <=> pc'[d] \in {"idle", "device"}
  BY Moved DEF TypeOK

(* What a step of one service leaves as it is for another, whose places    *)
(* are none that the step goes to.                                         *)
Untouched(places) ==
    \A c \in Caller : pc'[c] \in places => pc'[c] = pc[c] /\ arg'[c] = arg[c]

LEMMA OthersUntouched ==
  ASSUME TypeOK, NEW c \in Caller, NEW from, NEW to, NEW value,
         Moves(c, from, to, value), NEW places, to \notin places
  PROVE  Untouched(places)
  BY Moved DEF Untouched

PushPlaces == {"device", "permission", "type", "registration", "post"}

LEMMA KafkaRests ==
  ASSUME TypeOK, KafkaInv, UNCHANGED kafka, Untouched({"ack"})
  PROVE  KafkaTypeOK' /\ KafkaInv'
<1>1. KafkaTypeOK'  BY DEF TypeOK, KafkaTypeOK, kafka, Untouched
<1>2. \A c, d \in Caller : pc'[c] = "ack" /\ pc'[d] = "ack" => c = d
  BY DEF KafkaInv, Untouched
<1>3. QED  BY <1>1, <1>2 DEF KafkaInv, LogIsFaithful, kafka

LEMMA RecordsRests ==
  ASSUME TypeOK, RecordsInv, UNCHANGED records, Untouched({"insert"})
  PROVE  RecordsTypeOK' /\ RecordsInv'
<1>1. RecordsTypeOK'  BY DEF TypeOK, RecordsTypeOK, records, Untouched
<1>2. RecordsInv'  BY DEF RecordsInv, ResultStoredOnce, records
<1>3. QED  BY <1>1, <1>2

LEMMA PushRests ==
  ASSUME TypeOK, PushInv, UNCHANGED push, Untouched(PushPlaces)
  PROVE  PushTypeOK' /\ PushInv'
<1>1. PushTypeOK'
  BY DEF TypeOK, PushTypeOK, push, cache, Untouched, PushPlaces
<1>2. PushInv'
  BY DEF PushInv, Pushing, DeniedMeansSilent, push, cache, Untouched, PushPlaces
<1>3. QED  BY <1>1, <1>2

LEMMA PlaysRests ==
  ASSUME TypeOK, PlaysInv, UNCHANGED account, Untouched({"plays", "update"})
  PROVE  PlaysTypeOK' /\ PlaysInv'
<1>1. PlaysTypeOK'  BY DEF TypeOK, PlaysTypeOK, account, Untouched
<1>2. PlaysInv'
  BY DEF PlaysInv, PlaysOf, Changing, account, Untouched
<1>3. QED  BY <1>1, <1>2

-----------------------------------------------------------------------------
(* Kafka. *)

(* The order of the topic and its place in what was sent. *)
Ordered(l, s) ==
    \A i, j \in DOMAIN l : \A m, n \in DOMAIN s :
        i < j /\ l[i] = s[m] /\ l[j] = s[n] => m < n

Buffers(b, s) ==
    /\ Len(b) <= Len(s)
    /\ \A i \in 1 .. Len(b) : b[i] = s[Len(s) - Len(b) + i]

Within(l, s, k) == \A i \in 1 .. Len(l) : \E m \in 1 .. k : l[i] = s[m]

(* A record that is handed over is last in the buffer. *)
LEMMA SentGrows ==
  ASSUME NEW s \in Seq(Event), NEW b \in Seq(Event), NEW l \in Seq(Event),
         IsInjective(s), Buffers(b, s), Within(l, s, Len(s) - Len(b)),
         Ordered(l, s), NEW e \in Event, e \notin Range(s)
  PROVE  LET t == Append(s, e)  d == Append(b, e) IN
         /\ t \in Seq(Event) /\ d \in Seq(Event) /\ IsInjective(t)
         /\ Buffers(d, t) /\ Within(l, t, Len(t) - Len(d)) /\ Ordered(l, t)
<1> DEFINE t == Append(s, e)  d == Append(b, e)
<1>1. /\ t \in Seq(Event) /\ Len(t) = Len(s) + 1 /\ t[Len(t)] = e
      /\ \A i \in 1 .. Len(s) : t[i] = s[i] /\ s[i] # e
  BY DEF Range
<1>2. /\ d \in Seq(Event) /\ Len(d) = Len(b) + 1 /\ d[Len(d)] = e
      /\ \A i \in 1 .. Len(b) : d[i] = b[i]
  OBVIOUS
<1>3. DOMAIN s = 1 .. Len(s) /\ DOMAIN t = 1 .. Len(t) /\ DOMAIN l = 1 .. Len(l)
      /\ Len(s) \in Nat /\ Len(b) \in Nat /\ Len(l) \in Nat
  BY <1>1
<1> HIDE DEF t, d
<1>4. IsInjective(t)  BY <1>1, <1>3 DEF IsInjective
<1>5. Buffers(d, t)
  <2>1. Len(d) <= Len(t)  BY <1>1, <1>2, <1>3 DEF Buffers
  <2>2. ASSUME NEW i \in 1 .. Len(d) PROVE d[i] = t[Len(t) - Len(d) + i]
    <3>1. CASE i = Len(d)  BY <3>1, <1>1, <1>2, <1>3
    <3>2. CASE i \in 1 .. Len(b)
      <4>1. d[i] = s[Len(s) - Len(b) + i]  BY <3>2, <1>2 DEF Buffers
      <4>2. Len(s) - Len(b) + i \in 1 .. Len(s)
        BY <3>2, <1>3 DEF Buffers
      <4>3. Len(t) - Len(d) + i = Len(s) - Len(b) + i  BY <1>1, <1>2, <1>3
      <4>4. t[Len(t) - Len(d) + i] = s[Len(s) - Len(b) + i]
        BY <4>2, <4>3, <1>1
      <4>5. QED  BY <4>1, <4>4
    <3>3. QED  BY <3>1, <3>2, <1>2, <1>3
  <2>3. QED  BY <2>1, <2>2 DEF Buffers
<1>6. Within(l, t, Len(t) - Len(d))
  <2>1. Len(t) - Len(d) = Len(s) - Len(b)  BY <1>1, <1>2, <1>3
  <2>2. \A m \in 1 .. Len(s) - Len(b) : m \in 1 .. Len(s) /\ t[m] = s[m]
    BY <1>1, <1>3
  <2>3. QED  BY <2>1, <2>2 DEF Within
<1>7. Ordered(l, t)
  <2>1. ASSUME NEW i \in DOMAIN l, NEW m \in DOMAIN t, l[i] = t[m]
        PROVE  m \in DOMAIN s /\ t[m] = s[m]
    <3>1. PICK k \in 1 .. Len(s) - Len(b) : l[i] = s[k]  BY <1>3 DEF Within
    <3>2. k \in 1 .. Len(s)  BY <1>3
    <3>3. m # Len(t)  BY <2>1, <3>1, <3>2, <1>1
    <3>4. m \in 1 .. Len(s) + 1 /\ m # Len(s) + 1  BY <3>3, <1>1, <1>3
    <3> DEFINE n == Len(s)
    <3> n \in Nat  BY <1>3
    <3> HIDE DEF n
    <3>5. m \in 1 .. n + 1 /\ m # n + 1  BY <3>4 DEF n
    <3>6. m \in 1 .. n  BY <3>5
    <3>7. m \in 1 .. Len(s)  BY <3>6 DEF n
    <3>8. QED  BY <3>7, <1>1, <1>3
  <2> SUFFICES ASSUME NEW i \in DOMAIN l, NEW j \in DOMAIN l,
                      NEW m \in DOMAIN t, NEW n \in DOMAIN t,
                      i < j, l[i] = t[m], l[j] = t[n]
               PROVE  m < n
    BY DEF Ordered
  <2>2. m \in DOMAIN s /\ n \in DOMAIN s /\ l[i] = s[m] /\ l[j] = s[n]
    BY <2>1
  <2>3. QED  BY <2>2 DEF Ordered
<1>8. QED  BY <1>1, <1>2, <1>4, <1>5, <1>6, <1>7 DEF t, d

(* The first record of the buffer leaves it. *)
LEMMA BufferShrinks ==
  ASSUME NEW s \in Seq(Event), NEW b \in Seq(Event), NEW l \in Seq(Event),
         b # <<>>, Buffers(b, s), Within(l, s, Len(s) - Len(b))
  PROVE  /\ Tail(b) \in Seq(Event) /\ Buffers(Tail(b), s)
         /\ Within(l, s, Len(s) - Len(Tail(b)))
         /\ Head(b) \in Event
         /\ Len(s) - Len(Tail(b)) = Len(s) - Len(b) + 1
         /\ Head(b) = s[Len(s) - Len(b) + 1]
<1>1. /\ Tail(b) \in Seq(Event) /\ Len(Tail(b)) = Len(b) - 1 /\ Head(b) \in Event
      /\ Len(b) \in Nat \ {0} /\ Len(s) \in Nat /\ Head(b) = b[1]
      /\ \A i \in 1 .. Len(b) - 1 : Tail(b)[i] = b[i + 1]
  OBVIOUS
<1>2. Buffers(Tail(b), s)
  <2>1. Len(Tail(b)) <= Len(s)  BY <1>1 DEF Buffers
  <2>2. ASSUME NEW i \in 1 .. Len(Tail(b))
        PROVE  Tail(b)[i] = s[Len(s) - Len(Tail(b)) + i]
    <3>1. i + 1 \in 1 .. Len(b) /\ Tail(b)[i] = b[i + 1]  BY <1>1
    <3>2. b[i + 1] = s[Len(s) - Len(b) + (i + 1)]  BY <3>1 DEF Buffers
    <3>3. Len(s) - Len(b) + (i + 1) = Len(s) - Len(Tail(b)) + i  BY <1>1
    <3>4. QED  BY <3>1, <3>2, <3>3
  <2>3. QED  BY <2>1, <2>2 DEF Buffers
<1>3. Len(s) - Len(Tail(b)) = Len(s) - Len(b) + 1  BY <1>1
<1>4. Within(l, s, Len(s) - Len(Tail(b)))
  <2>1. 1 .. Len(s) - Len(b) \subseteq 1 .. Len(s) - Len(Tail(b))  BY <1>1, <1>3
  <2>2. QED  BY <2>1 DEF Within
<1>5. Head(b) = s[Len(s) - Len(b) + 1]  BY <1>1 DEF Buffers
<1>6. QED  BY <1>1, <1>2, <1>3, <1>4, <1>5

(* It is appended to the topic, where it comes after all that were sent    *)
(* before it.                                                              *)
LEMMA LogGrows ==
  ASSUME NEW s \in Seq(Event), NEW l \in Seq(Event), NEW k \in Nat,
         IsInjective(s), IsInjective(l), Within(l, s, k), Ordered(l, s),
         k < Len(s)
  PROVE  LET g == Append(l, s[k + 1]) IN
         /\ g \in Seq(Event) /\ IsInjective(g)
         /\ Within(g, s, k + 1) /\ Ordered(g, s)
         /\ Range(g) = Range(l) \union {s[k + 1]}
<1> DEFINE x == s[k + 1]  g == Append(l, x)
<1>1. /\ k + 1 \in 1 .. Len(s) /\ x \in Event
      /\ g \in Seq(Event) /\ Len(g) = Len(l) + 1 /\ g[Len(g)] = x
      /\ \A i \in 1 .. Len(l) : g[i] = l[i]
  OBVIOUS
<1>2. DOMAIN s = 1 .. Len(s) /\ DOMAIN g = 1 .. Len(g) /\ DOMAIN l = 1 .. Len(l)
      /\ Len(s) \in Nat /\ Len(l) \in Nat
  BY <1>1
<1>3. \A m \in DOMAIN s : s[m] = x <=> m = k + 1
  BY <1>1, <1>2 DEF IsInjective
<1> HIDE DEF x, g
<1>4. ASSUME NEW i \in 1 .. Len(l), NEW m \in DOMAIN s, l[i] = s[m]
      PROVE  m <= k
  <2>1. PICK n \in 1 .. k : l[i] = s[n]  BY DEF Within
  <2>2. n \in DOMAIN s  BY <1>2
  <2>3. m = n  BY <1>4, <2>1, <2>2 DEF IsInjective
  <2>4. QED  BY <2>3, <1>2
<1>5. \A i \in 1 .. Len(l) : l[i] # x
  <2> SUFFICES ASSUME NEW i \in 1 .. Len(l), l[i] = x PROVE FALSE  OBVIOUS
  <2>1. l[i] = s[k + 1]  BY <1>1, <1>2, <1>3
  <2>2. k + 1 <= k  BY <2>1, <1>1, <1>2, <1>4
  <2>3. QED  BY <2>2
<1>6. IsInjective(g)
  BY <1>1, <1>2, <1>5 DEF IsInjective
<1>7. Within(g, s, k + 1)
  <2>1. \A i \in 1 .. Len(l) : \E m \in 1 .. k + 1 : g[i] = s[m]
    BY <1>1 DEF Within
  <2>2. \E m \in 1 .. k + 1 : g[Len(g)] = s[m]  BY <1>1 DEF x
  <2>3. QED  BY <2>1, <2>2, <1>1, <1>2 DEF Within
<1>8. Ordered(g, s)
  <2> SUFFICES ASSUME NEW i \in DOMAIN g, NEW j \in DOMAIN g,
                      NEW m \in DOMAIN s, NEW n \in DOMAIN s,
                      i < j, g[i] = s[m], g[j] = s[n]
               PROVE  m < n
    BY DEF Ordered
  <2>1. i \in 1 .. Len(l) /\ g[i] = l[i]  BY <1>1, <1>2
  <2>2. CASE j = Len(g)
    <3>1. n = k + 1  BY <2>2, <1>1, <1>3
    <3>2. m <= k  BY <2>1, <1>4
    <3>3. QED  BY <3>1, <3>2, <1>2
  <2>3. CASE j # Len(g)
    <3>1. j \in 1 .. Len(l) /\ g[j] = l[j]  BY <2>3, <1>1, <1>2
    <3>2. QED  BY <3>1, <2>1, <1>2 DEF Ordered
  <2>4. QED  BY <2>2, <2>3
<1>9. Range(g) = Range(l) \union {x}
  BY <1>1, <1>2 DEF Range
<1>10. QED  BY <1>1, <1>6, <1>7, <1>8, <1>9 DEF x, g

(* The invariant in the words of these lemmas. *)
LEMMA KafkaParts ==
  KafkaInv <=>
    /\ IsInjective(log) /\ Ordered(log, sent)
    /\ \A e \in Event : answer[e] = TRUE => e \in Range(log)
    /\ \A c, d \in Caller : pc[c] = "ack" /\ pc[d] = "ack" => c = d
    /\ Buffers(buffer, sent) /\ Within(log, sent, Len(sent) - Len(buffer))
    /\ \A e \in Event : result[e] = TRUE => e \in Range(log)
BY Zenon DEF KafkaInv, LogIsFaithful, Ordered, Buffers, Within

LEMMA KafkaSends ==
  ASSUME TypeOK, KafkaInv, NEW c \in Caller, NEW e \in Event,
         ~Blocked, SendEvent(c, e)
  PROVE  KafkaTypeOK' /\ KafkaInv' /\ Moves(c, {"idle"}, "ack", e)
<1>1. /\ Moves(c, {"idle"}, "ack", e)
      /\ sent' = Append(sent, e) /\ buffer' = Append(buffer, e)
      /\ UNCHANGED <<log, result, answer>>
      /\ answer[e] = None /\ e \notin Range(sent)
  BY DEF SendEvent, Start, Unsent, Moves, Pc, Argument
<1>2. /\ sent \in Seq(Event) /\ IsInjective(sent)
      /\ buffer \in Seq(Event) /\ log \in Seq(Event)
  BY DEF TypeOK, KafkaTypeOK
<1>3. /\ sent' \in Seq(Event) /\ buffer' \in Seq(Event) /\ IsInjective(sent')
      /\ Buffers(buffer', sent') /\ Within(log', sent', Len(sent') - Len(buffer'))
      /\ Ordered(log', sent')
  BY <1>1, <1>2, KafkaParts, SentGrows
<1>4. \A d \in Caller : pc[d] # "ack"  BY DEF Blocked
<1>5. \A d \in Caller : pc'[d] = "ack" => d = c
  BY <1>1, <1>4, Moved
<1>6. KafkaTypeOK'
  <2>1. \A d \in Caller : pc'[d] = "ack" => arg'[d] \in Event /\ answer'[arg'[d]] = None
    BY <1>1, <1>5, Moved
  <2>2. QED  BY <1>1, <1>2, <1>3, <2>1 DEF TypeOK, KafkaTypeOK
<1>7. KafkaInv'
  <2>1. \A b, d \in Caller : pc'[b] = "ack" /\ pc'[d] = "ack" => b = d
    BY <1>5
  <2>2. IsInjective(log)' /\ (\A x \in Event : answer[x] = TRUE => x \in Range(log))'
        /\ (\A x \in Event : result[x] = TRUE => x \in Range(log))'
    BY <1>1, KafkaParts, Zenon
  <2>3. QED
    BY <1>3, <2>1, <2>2, Zenon
       DEF KafkaInv, LogIsFaithful, Ordered, Buffers, Within
<1>8. QED  BY <1>1, <1>6, <1>7

(* A refusal is answered False, so is a timeout; any other answer is that  *)
(* of the future.                                                          *)
LEMMA KafkaAnswers ==
  ASSUME TypeOK, KafkaInv, NEW e \in Event, NEW done \in BOOLEAN,
         UNCHANGED <<sent, buffer, log, result>>,
         answer' = [answer EXCEPT ![e] = done],
         done = TRUE => e \in Range(log),
         Untouched({"ack"}),
         \A d \in Caller : pc'[d] = "ack" => arg'[d] # e
  PROVE  KafkaTypeOK' /\ KafkaInv'
<1>1. answer \in [Event -> BOOLEAN \union {None}]  BY DEF TypeOK, KafkaTypeOK
<1>2. answer' \in [Event -> BOOLEAN \union {None}] /\ answer'[e] = done
      /\ \A x \in Event : x # e => answer'[x] = answer[x]
  BY <1>1, Zenon
<1>3. \A d \in Caller : pc'[d] = "ack" => arg'[d] \in Event /\ answer'[arg'[d]] = None
  BY <1>2 DEF TypeOK, KafkaTypeOK, Untouched
<1>4. KafkaTypeOK'
  BY <1>2, <1>3, Zenon DEF TypeOK, KafkaTypeOK
<1>5. \A x \in Event : answer'[x] = TRUE => x \in Range(log)
  <2> SUFFICES ASSUME NEW x \in Event, answer'[x] = TRUE PROVE x \in Range(log)
    OBVIOUS
  <2>1. CASE x = e  BY <2>1, <1>2, Zenon
  <2>2. CASE x # e
    <3>1. answer[x] = TRUE  BY <2>2, <1>2, Zenon
    <3>2. QED  BY <3>1, KafkaParts, Zenon
  <2>3. QED  BY <2>1, <2>2
<1>6. \A b, d \in Caller : pc'[b] = "ack" /\ pc'[d] = "ack" => b = d
  BY KafkaParts DEF Untouched
<1>7. /\ log' = log /\ sent' = sent /\ buffer' = buffer /\ result' = result
  OBVIOUS
<1>8. KafkaInv'
  <2>1. LogIsFaithful'  BY <1>5, <1>7, Zenon DEF KafkaInv, LogIsFaithful
  <2>2. QED  BY <1>6, <1>7, <2>1, Zenon DEF KafkaInv
<1>9. QED  BY <1>4, <1>8

LEMMA KafkaRefuses ==
  ASSUME TypeOK, KafkaInv, NEW c \in Caller, NEW e \in Event, SendRefused(c, e)
  PROVE  KafkaTypeOK' /\ KafkaInv' /\ UNCHANGED <<pc, arg>>
<1>1. /\ UNCHANGED <<pc, arg, sent, buffer, log, result>>
      /\ answer' = [answer EXCEPT ![e] = FALSE]
      /\ \A d \in Caller : pc[d] # "ack"
  BY DEF SendRefused, Blocked
<1>2. Untouched({"ack"})  BY <1>1 DEF Untouched
<1>3. \A d \in Caller : pc'[d] # "ack"  BY <1>1
<1>4. FALSE \in BOOLEAN /\ (FALSE = TRUE => e \in Range(log))  BY Zenon
<1>5. QED  BY <1>1, <1>2, <1>3, <1>4, KafkaAnswers

LEMMA KafkaReturns ==
  ASSUME TypeOK, KafkaInv, NEW c \in Caller, Got(c) \/ TimesOut(c)
  PROVE  KafkaTypeOK' /\ KafkaInv' /\ Moves(c, {"ack"}, "idle", None)
<1>1. \E done \in BOOLEAN :
         /\ pc[c] = "ack" /\ Answer(c, done)
         /\ done = TRUE => arg[c] \in Range(log)
  <2>1. CASE Got(c)
    <3>1. pc[c] = "ack" /\ result[arg[c]] # None /\ Answer(c, result[arg[c]])
      BY <2>1 DEF Got
    <3>2. arg[c] \in Event  BY <3>1 DEF TypeOK, KafkaTypeOK
    <3>3. result[arg[c]] \in BOOLEAN
      BY <3>1, <3>2, Zenon DEF TypeOK, KafkaTypeOK
    <3>4. result[arg[c]] = TRUE => arg[c] \in Range(log)
      BY <3>2, KafkaParts, Zenon
    <3>5. QED  BY <3>1, <3>3, <3>4, Zenon
  <2>2. CASE TimesOut(c)
    <3>1. pc[c] = "ack" /\ Answer(c, FALSE)  BY <2>2 DEF TimesOut
    <3>2. QED  BY <3>1, Zenon
  <2>3. QED  BY <2>1, <2>2
<1>2. PICK done \in BOOLEAN :
         /\ pc[c] = "ack" /\ Answer(c, done)
         /\ done = TRUE => arg[c] \in Range(log)
  BY <1>1
<1>3. Moves(c, {"ack"}, "idle", None)
  BY <1>2 DEF Answer, Return, Moves, Pc, Argument
<1>4. arg[c] \in Event  BY <1>2 DEF TypeOK, KafkaTypeOK
<1>5. Untouched({"ack"})  BY <1>3, OthersUntouched
<1>6. \A d \in Caller : pc'[d] = "ack" => FALSE
  BY <1>2, <1>3, Moved, KafkaParts
<1>7. UNCHANGED <<sent, buffer, log, result>>
      /\ answer' = [answer EXCEPT ![arg[c]] = done]
  BY <1>2, Zenon DEF Answer
<1>8. KafkaTypeOK' /\ KafkaInv'
  BY <1>2, <1>4, <1>5, <1>6, <1>7, KafkaAnswers
<1>9. QED  BY <1>3, <1>8

LEMMA KafkaDelivers ==
  ASSUME TypeOK, KafkaInv, Deliver \/ Fails
  PROVE  KafkaTypeOK' /\ KafkaInv' /\ UNCHANGED <<pc, arg>>
<1> DEFINE e == Head(buffer)  k == Len(sent) - Len(buffer)
<1>1. PICK done \in BOOLEAN :
        /\ buffer # <<>> /\ buffer' = Tail(buffer)
        /\ result' = [result EXCEPT ![e] = done]
        /\ log' \in {log, Append(log, e)}
        /\ done = TRUE => log' = Append(log, e)
        /\ UNCHANGED <<pc, arg, sent, answer>>
  <2>1. CASE Deliver  BY <2>1, Zenon DEF Deliver
  <2>2. CASE Fails  BY <2>2, Zenon DEF Fails, GiveUp
  <2>3. QED  BY <2>1, <2>2
<1>2. /\ sent \in Seq(Event) /\ IsInjective(sent)
      /\ buffer \in Seq(Event) /\ log \in Seq(Event)
  BY DEF TypeOK, KafkaTypeOK
<1>3. /\ buffer' \in Seq(Event) /\ Buffers(buffer', sent)
      /\ Within(log, sent, Len(sent) - Len(buffer'))
      /\ e \in Event /\ Len(sent) - Len(buffer') = k + 1 /\ e = sent[k + 1]
  BY <1>1, <1>2, KafkaParts, BufferShrinks
<1>4. k \in Nat /\ k < Len(sent)
  BY <1>1, <1>2, KafkaParts DEF Buffers
<1>5. /\ log' \in Seq(Event) /\ IsInjective(log') /\ Ordered(log', sent)
      /\ Within(log', sent, Len(sent) - Len(buffer'))
      /\ Range(log) \subseteq Range(log')
      /\ log' = Append(log, e) => e \in Range(log')
  <2> DEFINE g == Append(log, e)
  <2>1. /\ g \in Seq(Event) /\ IsInjective(g) /\ Ordered(g, sent)
        /\ Within(g, sent, k + 1) /\ Range(g) = Range(log) \union {e}
    <3>1. Within(log, sent, k)  BY KafkaParts
    <3>2. Ordered(log, sent) /\ IsInjective(log)  BY KafkaParts
    <3> HIDE DEF k
    <3>3. LET h == Append(log, sent[k + 1]) IN
            /\ h \in Seq(Event) /\ IsInjective(h)
            /\ Within(h, sent, k + 1) /\ Ordered(h, sent)
            /\ Range(h) = Range(log) \union {sent[k + 1]}
      BY <1>2, <1>4, <3>1, <3>2, LogGrows
    <3>4. QED  BY <3>3, <1>3
  <2> HIDE DEF g, k, e
  <2>2. CASE log' = g
    BY <2>1, <2>2, <1>3 DEF g
  <2>3. CASE log' = log
    <3>1. log' = g => e \in Range(log')  BY <2>1, <2>3
    <3>2. QED  BY <2>3, <3>1, <1>2, <1>3, KafkaParts DEF g
  <2>4. QED  BY <2>2, <2>3, <1>1 DEF g, e
<1> HIDE DEF k, e
<1>6. /\ result' \in [Event -> BOOLEAN \union {None}] /\ result'[e] = done
      /\ \A x \in Event : x # e => result'[x] = result[x]
  BY <1>1, <1>3, Zenon DEF TypeOK, KafkaTypeOK
<1>7. \A x \in Event : result'[x] = TRUE => x \in Range(log')
  <2> SUFFICES ASSUME NEW x \in Event, result'[x] = TRUE PROVE x \in Range(log')
    OBVIOUS
  <2>1. CASE x = e  BY <2>1, <1>1, <1>5, <1>6, Zenon
  <2>2. CASE x # e
    <3>1. x \in Range(log)  BY <2>2, <1>6, KafkaParts, Zenon
    <3>2. QED  BY <3>1, <1>5
  <2>3. QED  BY <2>1, <2>2
<1>8. \A x \in Event : answer'[x] = TRUE => x \in Range(log')
  <2> SUFFICES ASSUME NEW x \in Event, answer'[x] = TRUE PROVE x \in Range(log')
    OBVIOUS
  <2>1. answer[x] = TRUE  BY <1>1, Zenon
  <2>2. x \in Range(log)  BY <2>1, KafkaParts, Zenon
  <2>3. QED  BY <2>2, <1>5
<1>9. sent' = sent /\ pc' = pc /\ arg' = arg /\ answer' = answer  BY <1>1
<1>10. KafkaTypeOK'
  BY <1>2, <1>3, <1>5, <1>6, <1>9, Zenon DEF TypeOK, KafkaTypeOK
<1>11. KafkaInv'
  BY <1>3, <1>5, <1>7, <1>8, <1>9, Zenon
     DEF KafkaInv, LogIsFaithful, Ordered, Buffers, Within
<1>12. QED  BY <1>9, <1>10, <1>11

-----------------------------------------------------------------------------
(* The records. *)

LEMMA RecordsBegin ==
  ASSUME TypeOK, RecordsInv, NEW c \in Caller, NEW r \in Record, Insert(c, r)
  PROVE  RecordsTypeOK' /\ RecordsInv' /\ Moves(c, {"idle"}, "insert", r)
<1>1. Moves(c, {"idle"}, "insert", r)
  BY DEF Insert, Start, Moves, Pc, Argument
<1>2. /\ time \in 0 .. MaxTime /\ MaxTime \in Nat
      /\ stamp \in [Record -> {None} \union 0 .. time]
      /\ drawn \in [Record -> Nat]
      /\ stored \subseteq [of : Record, id : Nat, at : 0 .. time]
  BY RecordsAssumption DEF TypeOK, RecordsTypeOK
<1>3. /\ stamp' = [stamp EXCEPT ![r] = time]
      /\ time' = time /\ stored' = stored
      /\ drawn' = IF DrawsId(r) THEN [drawn EXCEPT ![r] = @ + 1] ELSE drawn
  BY DEF Insert
<1>4. stamp' \in [Record -> {None} \union 0 .. time] /\ stamp'[r] = time
      /\ \A q \in Record : q # r => stamp'[q] = stamp[q]
  BY <1>2, <1>3
<1>5. /\ drawn' \in [Record -> Nat] /\ drawn'[r] > 0
      /\ \A q \in Record : q # r => drawn'[q] = drawn[q]
      /\ r \in Result => drawn'[r] <= 1
  <2>1. CASE DrawsId(r)
    <3>1. drawn' = [drawn EXCEPT ![r] = @ + 1]  BY <2>1, <1>3
    <3>2. r \in Result => drawn[r] = 0
      BY <2>1, RecordsAssumption DEF DrawsId
    <3>3. QED  BY <3>1, <3>2, <1>2
  <2>2. CASE ~ DrawsId(r)
    <3>1. drawn' = drawn /\ r \in Result /\ drawn[r] # 0
      BY <2>2, <1>3 DEF DrawsId, Record
    <3>2. QED  BY <3>1, <1>2 DEF RecordsInv
  <2>3. QED  BY <2>1, <2>2
<1>6. \A d \in Caller : pc'[d] = "insert" =>
        arg'[d] \in Record /\ drawn'[arg'[d]] > 0 /\ stamp'[arg'[d]] # None
  <2> SUFFICES ASSUME NEW d \in Caller, pc'[d] = "insert"
               PROVE  arg'[d] \in Record /\ drawn'[arg'[d]] > 0 /\ stamp'[arg'[d]] # None
    OBVIOUS
  <2>1. CASE d = c
    <3>1. arg'[d] = r  BY <2>1, <1>1, Moved
    <3>2. time # None  BY <1>2, RecordsAssumption
    <3>3. QED  BY <3>1, <3>2, <1>4, <1>5
  <2>2. CASE d # c
    <3>1. pc[d] = "insert" /\ arg'[d] = arg[d]  BY <2>2, <1>1, Moved
    <3>2. arg[d] \in Record /\ drawn[arg[d]] > 0 /\ stamp[arg[d]] # None
      BY <3>1 DEF TypeOK, RecordsTypeOK
    <3>3. arg[d] # r  BY DEF Insert
    <3>4. QED  BY <3>1, <3>2, <3>3, <1>4, <1>5
  <2>3. QED  BY <2>1, <2>2
<1>7. RecordsTypeOK'  BY <1>2, <1>3, <1>4, <1>5, <1>6 DEF RecordsTypeOK
<1>8. RecordsInv'
  <2>1. ASSUME NEW q \in Result PROVE drawn'[q] <= 1
    <3>1. q \in Record /\ drawn[q] <= 1  BY DEF Record, RecordsInv
    <3>2. QED  BY <3>1, <1>5
  <2>2. QED  BY <2>1, <1>3 DEF RecordsInv, ResultStoredOnce
<1>9. QED  BY <1>1, <1>7, <1>8

LEMMA RecordsEnd ==
  ASSUME TypeOK, RecordsInv, NEW c \in Caller, Inserted(c) \/ NotInserted(c)
  PROVE  RecordsTypeOK' /\ RecordsInv' /\ Moves(c, {"insert"}, "idle", None)
<1>1. Moves(c, {"insert"}, "idle", None)
  BY DEF Inserted, NotInserted, Return, Moves, Pc, Argument
<1>2. Untouched({"insert"})  BY <1>1, OthersUntouched
<1>3. CASE NotInserted(c)
  <2>1. UNCHANGED records  BY <1>3 DEF NotInserted
  <2>2. QED  BY <1>1, <1>2, <2>1, RecordsRests
<1>4. CASE Inserted(c)
  <2> DEFINE r == arg[c]
  <2>1. /\ r \in Record /\ drawn[r] > 0 /\ stamp[r] # None
        /\ drawn \in [Record -> Nat] /\ time \in 0 .. MaxTime
        /\ stamp \in [Record -> {None} \union 0 .. time]
        /\ stored \subseteq [of : Record, id : Nat, at : 0 .. time]
    BY <1>4 DEF Inserted, TypeOK, RecordsTypeOK
  <2>2. /\ ~ Duplicate(r) /\ stored' = stored \union {Document(r)}
        /\ time' = time /\ stamp' = stamp /\ drawn' = drawn
    BY <1>4 DEF Inserted
  <2>3. Document(r) \in [of : Record, id : Nat, at : 0 .. time]
    BY <2>1 DEF Document
  <2>4. RecordsTypeOK'
    BY <1>2, <2>1, <2>2, <2>3 DEF RecordsTypeOK, TypeOK, Untouched
  <2>5. r \in Result => drawn[r] = 1  BY <2>1 DEF RecordsInv
  <2>6. r \in Result => \A d \in stored : d.of # r
    <3> SUFFICES ASSUME r \in Result, NEW d \in stored, d.of = r PROVE FALSE
      OBVIOUS
    <3>1. d.id = drawn[r]  BY <2>5 DEF RecordsInv
    <3>2. QED  BY <3>1, <2>2 DEF Duplicate
  <2>7. Document(r).of = r /\ Document(r).id = drawn[r]  BY DEF Document
  <2> HIDE DEF r
  <2>8. RecordsInv'
    BY <2>2, <2>5, <2>6, <2>7 DEF RecordsInv, ResultStoredOnce
  <2>9. QED  BY <1>1, <2>4, <2>8
<1>5. QED  BY <1>3, <1>4

LEMMA RecordsAge ==
  ASSUME TypeOK, RecordsInv, Second
  PROVE  RecordsTypeOK' /\ RecordsInv' /\ UNCHANGED <<pc, arg>>
<1>1. /\ UNCHANGED <<pc, arg, stamp, drawn, stored>>
      /\ time' = time + 1 /\ time < MaxTime
      /\ time \in 0 .. MaxTime /\ MaxTime \in Nat
  BY RecordsAssumption DEF Second, TypeOK, RecordsTypeOK
<1>2. time' \in 0 .. MaxTime /\ 0 .. time \subseteq 0 .. time'  BY <1>1
<1>3. RecordsTypeOK'  BY <1>1, <1>2 DEF TypeOK, RecordsTypeOK
<1>4. RecordsInv'  BY <1>1 DEF RecordsInv, ResultStoredOnce
<1>5. QED  BY <1>1, <1>3, <1>4

-----------------------------------------------------------------------------
(* The pushes. *)

LEMMA PushBegins ==
  ASSUME TypeOK, PushInv, NEW c \in Caller, Push(c)
  PROVE  PushTypeOK' /\ PushInv' /\ Moves(c, {"idle"}, "device", None)
<1>1. Moves(c, {"idle"}, "device", None)
  BY DEF Push, Start, Moves, Pc, Argument, TypeOK
<1>2. /\ used' = [used EXCEPT ![c] = {device} \ {None}]
      /\ denied' = [denied EXCEPT ![c] = device # None /\ permits[device] = FALSE]
      /\ UNCHANGED cache /\ pushed' = pushed
  BY Zenon DEF Push
<1>3. /\ device \in Device \union {None}
      /\ used \in [Caller -> SUBSET Device] /\ denied \in [Caller -> BOOLEAN]
  BY DEF TypeOK, PushTypeOK
<1>4. /\ used' \in [Caller -> SUBSET Device] /\ used'[c] = {device} \ {None}
      /\ \A d \in Caller : d # c => used'[d] = used[d]
  BY <1>2, <1>3
<1>5. /\ denied' \in [Caller -> BOOLEAN]
      /\ denied'[c] => device # None /\ permits[device] = FALSE
      /\ \A d \in Caller : d # c => denied'[d] = denied[d]
  BY <1>2, <1>3, Zenon
<1>6. \A d \in Caller : pc'[d] # "device" =>
          d # c /\ pc'[d] = pc[d] /\ arg'[d] = arg[d]
  BY <1>1, Moved
<1>7. PushTypeOK'
  <2>1. \A d \in Caller : pc'[d] \in {"permission", "type", "registration", "post"}
           => arg'[d] \in used'[d]
    BY <1>4, <1>6 DEF TypeOK, PushTypeOK
  <2>2. QED
    BY <1>2, <1>4, <1>5, <2>1, Zenon DEF TypeOK, PushTypeOK, cache
<1>8. PushInv'
  <2>1. \A d \in Caller : Pushing(d)' /\ device # None => device \in used'[d]
    <3> SUFFICES ASSUME NEW d \in Caller, Pushing(d)', device # None
                 PROVE  device \in used'[d]
      OBVIOUS
    <3>1. CASE d = c  BY <3>1, <1>4
    <3>2. CASE d # c
      BY <3>2, <1>1, <1>4, Moved DEF PushInv, Pushing
    <3>3. QED  BY <3>1, <3>2
  <2>2. \A d \in Caller : denied'[d] => \A x \in used'[d] : permits[x] = FALSE
    <3> SUFFICES ASSUME NEW d \in Caller, denied'[d], NEW x \in used'[d]
                 PROVE  permits[x] = FALSE
      BY Zenon
    <3>1. CASE d = c
      <4>1. x = device  BY <3>1, <1>4
      <4>2. QED  BY <3>1, <4>1, <1>5, Zenon
    <3>2. CASE d # c
      BY <3>2, <1>4, <1>5, Zenon DEF PushInv
    <3>3. QED  BY <3>1, <3>2
  <2>3. \A d \in Caller : pc'[d] \in {"type", "registration", "post"} => ~ denied'[d]
    <3> SUFFICES ASSUME NEW d \in Caller, pc'[d] \in {"type", "registration", "post"}
                 PROVE  ~ denied'[d]
      BY Zenon
    <3>1. d # c /\ pc[d] \in {"type", "registration", "post"}  BY <1>6
    <3>2. QED  BY <3>1, <1>5, Zenon DEF PushInv
  <2>4. pushed' = 0  BY <1>2 DEF PushInv, DeniedMeansSilent
  <2>5. device' = device /\ permits' = permits  BY <1>2 DEF cache
  <2>6. QED
    BY <2>1, <2>2, <2>3, <2>4, <2>5, Zenon DEF PushInv, DeniedMeansSilent
<1>9. QED  BY <1>1, <1>7, <1>8

(* The end of a call, in which no push was counted. *)
LEMMA PushEnds ==
  ASSUME TypeOK, PushInv, NEW c \in Caller, pc[c] \in PushPlaces,
         PushReturns(c), UNCHANGED <<cache, pushed>>
  PROVE  PushTypeOK' /\ PushInv' /\ Moves(c, PushPlaces, "idle", None)
<1>1. Moves(c, PushPlaces, "idle", None)
  BY DEF PushReturns, Return, Moves, Pc, Argument
<1>2. /\ used' = [used EXCEPT ![c] = {}] /\ denied' = [denied EXCEPT ![c] = FALSE]
      /\ device' = device /\ permits' = permits /\ pushed' = pushed
      /\ regid' = regid /\ changes' = changes
  BY Zenon DEF PushReturns, cache
<1>3. used \in [Caller -> SUBSET Device] /\ denied \in [Caller -> BOOLEAN]
  BY DEF TypeOK, PushTypeOK
<1>4. /\ used' \in [Caller -> SUBSET Device] /\ used'[c] = {}
      /\ \A d \in Caller : d # c => used'[d] = used[d]
  BY <1>2, <1>3
<1>5. /\ denied' \in [Caller -> BOOLEAN] /\ ~ denied'[c]
      /\ \A d \in Caller : d # c => denied'[d] = denied[d]
  BY <1>2, <1>3, Zenon
<1>6. \A d \in Caller : pc'[d] \in PushPlaces =>
          d # c /\ pc'[d] = pc[d] /\ arg'[d] = arg[d]
  BY <1>1, Moved DEF PushPlaces
<1>7. PushTypeOK'
  <2>1. \A d \in Caller : pc'[d] \in {"permission", "type", "registration", "post"}
           => arg'[d] \in used'[d]
    BY <1>4, <1>6 DEF TypeOK, PushTypeOK, PushPlaces
  <2>2. QED
    BY <1>2, <1>4, <1>5, <2>1, Zenon DEF TypeOK, PushTypeOK
<1>8. PushInv'
  <2>1. \A d \in Caller : Pushing(d)' /\ device # None => device \in used'[d]
    BY <1>4, <1>6 DEF PushInv, Pushing, PushPlaces
  <2>2. \A d \in Caller : denied'[d] => \A x \in used'[d] : permits[x] = FALSE
    BY <1>4, <1>5, Zenon DEF PushInv
  <2>3. \A d \in Caller : pc'[d] \in {"type", "registration", "post"} => ~ denied'[d]
    <3> SUFFICES ASSUME NEW d \in Caller, pc'[d] \in {"type", "registration", "post"}
                 PROVE  ~ denied'[d]
      BY Zenon
    <3>1. d # c /\ pc[d] \in {"type", "registration", "post"}
      BY <1>6 DEF PushPlaces
    <3>2. QED  BY <3>1, <1>5, Zenon DEF PushInv
  <2>4. pushed' = 0  BY <1>2 DEF PushInv, DeniedMeansSilent
  <2>5. QED
    BY <1>2, <2>1, <2>2, <2>3, <2>4, Zenon DEF PushInv, DeniedMeansSilent
<1>9. QED  BY <1>1, <1>7, <1>8

(* A read that leads to the next one: what it found is one of the devices  *)
(* the call knows of, and after the permission the call is not denied.     *)
LEMMA PushAdvances ==
  ASSUME TypeOK, PushInv, NEW c \in Caller, NEW from, NEW to, NEW value,
         Moves(c, from, to, value), pc[c] \in PushPlaces,
         to \in PushPlaces \ {"device"},
         value \in used[c], to # "permission" => ~ denied[c], UNCHANGED push
  PROVE  PushTypeOK' /\ PushInv'
<1>1. /\ pc'[c] = to /\ arg'[c] = value
      /\ \A d \in Caller : d # c => pc'[d] = pc[d] /\ arg'[d] = arg[d]
  BY Moved
<1>2. /\ used' = used /\ denied' = denied /\ device' = device /\ pushed' = pushed
      /\ permits' = permits /\ regid' = regid /\ changes' = changes
  BY DEF push, cache
<1>3. PushTypeOK'
  <2>1. \A d \in Caller : pc'[d] \in {"permission", "type", "registration", "post"}
           => arg'[d] \in used[d]
    BY <1>1 DEF TypeOK, PushTypeOK
  <2>2. QED  BY <1>2, <2>1, Zenon DEF TypeOK, PushTypeOK
<1>4. PushInv'
  <2>1. \A d \in Caller : Pushing(d)' /\ device # None => device \in used[d]
    BY <1>1 DEF PushInv, Pushing, PushPlaces
  <2>2. \A d \in Caller : pc'[d] \in {"type", "registration", "post"} => ~ denied[d]
    <3> SUFFICES ASSUME NEW d \in Caller, pc'[d] \in {"type", "registration", "post"}
                 PROVE  ~ denied[d]
      BY Zenon
    <3>1. CASE d = c
      <4>1. to # "permission"  BY <3>1, <1>1
      <4>2. QED  BY <4>1, <3>1, Zenon
    <3>2. CASE d # c
      <4>1. pc[d] \in {"type", "registration", "post"}  BY <3>2, <1>1
      <4>2. QED  BY <4>1, Zenon DEF PushInv
    <3>3. QED  BY <3>1, <3>2
  <2>3. QED  BY <1>2, <2>1, <2>2, Zenon DEF PushInv, DeniedMeansSilent
<1>5. QED  BY <1>3, <1>4

PushStep(c) ==
    \/ ReadDevice(c) \/ ReadPermission(c) \/ ReadType(c)
    \/ ReadRegistration(c) \/ Post(c) \/ ReadFails(c)

PushMoved(c) ==
    \E to \in {"idle"} \union PushPlaces, value \in Argument :
       /\ Moves(c, PushPlaces, to, value)
       /\ value = None <=> to \in {"idle", "device"}

LEMMA PushStops ==
  ASSUME TypeOK, PushInv, NEW c \in Caller, pc[c] \in PushPlaces,
         PushReturns(c), UNCHANGED <<cache, pushed>>
  PROVE  PushTypeOK' /\ PushInv' /\ PushMoved(c)
BY PushEnds DEF PushMoved, Argument

LEMMA PushProceeds ==
  ASSUME TypeOK, PushInv, NEW c \in Caller,
         NEW from \in PushPlaces, NEW to \in PushPlaces \ {"device"},
         NEW value \in Argument, value \in used[c], Go(c, from, to),
         arg' = [arg EXCEPT ![c] = value],
         to # "permission" => ~ denied[c], UNCHANGED push
  PROVE  PushTypeOK' /\ PushInv' /\ PushMoved(c)
<1>1. Moves(c, PushPlaces, to, value) /\ pc[c] \in PushPlaces
  BY DEF Go, Moves, Pc, PushPlaces
<1>2. value # None  BY PushAssumption DEF TypeOK, PushTypeOK
<1>3. to \notin {"idle", "device"}  BY DEF PushPlaces
<1>4. PushMoved(c)
  <2>1. value = None <=> to \in {"idle", "device"}  BY <1>2, <1>3
  <2>2. to \in {"idle"} \union PushPlaces  OBVIOUS
  <2>3. QED  BY <1>1, <2>1, <2>2, Zenon DEF PushMoved
<1>5. PushTypeOK' /\ PushInv'
  BY <1>1, PushAdvances
<1>6. QED  BY <1>4, <1>5

(* ... on what it has read before. *)
LEMMA PushKeepsOn ==
  ASSUME TypeOK, PushInv, NEW c \in Caller,
         NEW from \in PushPlaces \ {"device"}, NEW to \in PushPlaces \ {"device"},
         Go(c, from, to), ~ denied[c], UNCHANGED <<arg, push>>
  PROVE  PushTypeOK' /\ PushInv' /\ PushMoved(c)
<1>1. pc[c] = from  BY DEF Go
<1>2. arg[c] \in used[c] /\ arg[c] \in Argument /\ arg' = [arg EXCEPT ![c] = arg[c]]
  BY <1>1 DEF TypeOK, PushTypeOK, PushPlaces
<1>3. UNCHANGED push  OBVIOUS
<1>4. QED  BY <1>2, <1>3, PushProceeds

LEMMA PushSteps ==
  ASSUME TypeOK, PushInv, NEW c \in Caller, PushStep(c)
  PROVE  PushTypeOK' /\ PushInv' /\ PushMoved(c)
<1>1. ASSUME pc[c] \in {"type", "registration", "post"}
      PROVE  ~ denied[c]
  BY <1>1, Zenon DEF PushInv
<1>2. CASE ReadDevice(c)
  <2>1. CASE device # None /\ Go(c, "device", "permission")
             /\ arg' = [arg EXCEPT ![c] = device] /\ UNCHANGED push
    <3>1. pc[c] = "device"  BY <2>1 DEF Go
    <3>2. device \in used[c]  BY <3>1, <2>1 DEF PushInv, Pushing
    <3>3. device \in Argument  BY DEF TypeOK, PushTypeOK, Argument
    <3>4. "device" \in PushPlaces /\ "permission" \in PushPlaces \ {"device"}
      BY DEF PushPlaces
    <3>5. QED  BY <2>1, <3>2, <3>3, <3>4, PushProceeds
  <2>2. CASE pc[c] = "device" /\ PushReturns(c) /\ UNCHANGED <<cache, pushed>>
    BY <2>2, PushStops DEF PushPlaces
  <2>3. QED  BY <1>2, <2>1, <2>2 DEF ReadDevice
<1>3. CASE ReadPermission(c)
  <2>1. CASE Go(c, "permission", "type") /\ ~ RefusedBy(c) /\ UNCHANGED <<arg, push>>
    <3>1. pc[c] = "permission"  BY <2>1 DEF Go
    <3>2. arg[c] \in used[c]  BY <3>1 DEF TypeOK, PushTypeOK
    <3>3. ~ denied[c]  BY <2>1, <3>2, Zenon DEF RefusedBy, PushInv
    <3>4. {"permission", "type"} \subseteq PushPlaces \ {"device"}  BY DEF PushPlaces
    <3>5. QED  BY <2>1, <3>3, <3>4, PushKeepsOn
  <2>2. CASE pc[c] = "permission" /\ PushReturns(c) /\ UNCHANGED <<cache, pushed>>
    BY <2>2, PushStops DEF PushPlaces
  <2>3. QED  BY <1>3, <2>1, <2>2 DEF ReadPermission
<1>4. CASE ReadType(c)
  <2>1. Go(c, "type", "registration") /\ UNCHANGED <<arg, push>>  BY <1>4 DEF ReadType
  <2>2. ~ denied[c]  BY <2>1, <1>1 DEF Go
  <2>3. {"type", "registration"} \subseteq PushPlaces \ {"device"}  BY DEF PushPlaces
  <2>4. QED  BY <2>1, <2>2, <2>3, PushKeepsOn
<1>5. CASE ReadRegistration(c)
  <2>1. CASE Go(c, "registration", "post") /\ UNCHANGED <<arg, push>>
    <3>1. ~ denied[c]  BY <2>1, <1>1 DEF Go
    <3>2. {"registration", "post"} \subseteq PushPlaces \ {"device"}  BY DEF PushPlaces
    <3>3. QED  BY <2>1, <3>1, <3>2, PushKeepsOn
  <2>2. CASE pc[c] = "registration" /\ PushReturns(c) /\ UNCHANGED <<cache, pushed>>
    BY <2>2, PushStops DEF PushPlaces
  <2>3. QED  BY <1>5, <2>1, <2>2 DEF ReadRegistration
<1>6. CASE Post(c)
  <2>1. pc[c] = "post" /\ PushReturns(c) /\ UNCHANGED cache  BY <1>6 DEF Post
  <2>2. ~ denied[c]  BY <2>1, <1>1
  <2>3. pushed' = pushed  BY <1>6, <2>2, Zenon DEF Post
  <2>4. QED  BY <2>1, <2>3, PushStops DEF PushPlaces
<1>7. CASE ReadFails(c)
  BY <1>7, PushStops DEF ReadFails, PushPlaces
<1>8. QED  BY <1>2, <1>3, <1>4, <1>5, <1>6, <1>7 DEF PushStep

UserCaches ==
    \/ \E d \in Device : CacheDevice(d)
    \/ CacheRegistration
    \/ \E d \in Device, on \in BOOLEAN : CachePermission(d, on)

LEMMA PushChanges ==
  ASSUME TypeOK, PushInv, UserCaches
  PROVE  PushTypeOK' /\ PushInv' /\ UNCHANGED <<pc, arg>>
<1>1. /\ Change
      /\ device' \in Device \union {None} /\ regid' \in Device \union {None}
      /\ permits' \in [Device -> BOOLEAN \union {None}]
  <2>1. /\ device \in Device \union {None} /\ regid \in Device \union {None}
        /\ permits \in [Device -> BOOLEAN \union {None}]
    BY DEF TypeOK, PushTypeOK
  <2>2. CASE \E d \in Device : CacheDevice(d)  BY <2>1, <2>2 DEF CacheDevice
  <2>3. CASE CacheRegistration  BY <2>1, <2>3 DEF CacheRegistration
  <2>4. CASE \E d \in Device, on \in BOOLEAN : CachePermission(d, on)
    <3>1. PICK d \in Device, on \in BOOLEAN : CachePermission(d, on)  BY <2>4
    <3>2. permits' = [permits EXCEPT ![d] = on]  BY <3>1 DEF CachePermission
    <3>3. permits' \in [Device -> BOOLEAN \union {None}]  BY <3>2, <2>1, Zenon
    <3>4. QED  BY <2>1, <3>1, <3>3 DEF CachePermission
  <2>5. QED  BY <2>2, <2>3, <2>4 DEF UserCaches
<1>2. /\ changes < MaxChange /\ changes' = changes + 1
      /\ used' = [c \in Caller |-> used[c] \union
                     (IF Pushing(c) THEN {device'} \ {None} ELSE {})]
      /\ UNCHANGED <<pc, arg, pushed>>
  BY <1>1 DEF Change
<1>3. denied' = [c \in Caller |-> denied[c] /\ \A d \in used'[c] : permits'[d] = FALSE]
  BY <1>1, Zenon DEF Change
<1>4. /\ used' \in [Caller -> SUBSET Device]
      /\ \A c \in Caller : used[c] \subseteq used'[c]
      /\ \A c \in Caller : Pushing(c) /\ device' # None => device' \in used'[c]
  BY <1>1, <1>2 DEF TypeOK, PushTypeOK
<1>5. /\ denied' \in [Caller -> BOOLEAN]
      /\ \A c \in Caller : denied'[c] => denied[c] /\ \A d \in used'[c] : permits'[d] = FALSE
  BY <1>3, Zenon
<1>6. changes' \in 0 .. MaxChange
  BY <1>2, PushAssumption DEF TypeOK, PushTypeOK
<1>7. PushTypeOK'
  <2>1. \A c \in Caller : pc'[c] \in {"permission", "type", "registration", "post"}
           => arg'[c] \in used'[c]
    BY <1>2, <1>4 DEF TypeOK, PushTypeOK
  <2>2. QED  BY <1>1, <1>4, <1>5, <1>6, <2>1, Zenon DEF PushTypeOK
<1>8. PushInv'
  <2>1. \A c \in Caller : Pushing(c)' <=> Pushing(c)  BY <1>2 DEF Pushing
  <2>2. \A c \in Caller : pc'[c] \in {"type", "registration", "post"} => ~ denied'[c]
    BY <1>2, <1>5, Zenon DEF PushInv
  <2>3. pushed' = 0  BY <1>2 DEF PushInv, DeniedMeansSilent
  <2>4. QED
    BY <1>4, <1>5, <2>1, <2>2, <2>3, Zenon DEF PushInv, DeniedMeansSilent
<1>9. QED  BY <1>2, <1>7, <1>8

-----------------------------------------------------------------------------
(* The free plays. *)

LEMMA PlaysBegin ==
  ASSUME TypeOK, PlaysInv, NEW c \in Caller, NEW n \in Steps, ChangePlays(c, n)
  PROVE  /\ PlaysTypeOK' /\ PlaysInv'
         /\ Moves(c, {"idle"}, "plays", [by |-> n, found |-> None])
<1> DEFINE change == [by |-> n, found |-> None]
<1>1. change \in PlaysChange  BY PlaysAssumption DEF PlaysChange
<1>2. Moves(c, {"idle"}, "plays", change)
  BY <1>1 DEF ChangePlays, Start, Moves, Pc, Argument
<1>3. /\ pc'[c] = "plays" /\ arg'[c] = change
      /\ \A d \in Caller : d # c => pc'[d] = pc[d] /\ arg'[d] = arg[d]
  BY <1>2, Moved
<1>4. /\ UNCHANGED <<user, behind, due>>
      /\ overlapped' = (overlapped \/ behind # user \/ \E o \in Caller : Changing(o))
  BY DEF ChangePlays
<1>5. PlaysTypeOK'
  <2>1. overlapped' \in BOOLEAN  BY <1>4, Zenon
  <2>2. \A d \in Caller : pc'[d] \in {"plays", "update"} =>
          arg'[d] \in PlaysChange /\ (arg'[d].found = None <=> pc'[d] = "plays")
    BY <1>1, <1>3 DEF TypeOK, PlaysTypeOK
  <2>3. QED  BY <1>4, <2>1, <2>2, Zenon DEF TypeOK, PlaysTypeOK
<1>6. PlaysInv'
  <2> SUFFICES ASSUME ~ overlapped'
               PROVE  /\ PlaysOf(user)' = due'
                      /\ \A a, d \in Caller : Changing(a)' /\ Changing(d)' => a = d
                      /\ \A d \in Caller : Changing(d)' => PlaysOf(behind)' = due'
                      /\ \A d \in Caller : pc'[d] = "update" => arg'[d].found = due'
    BY DEF PlaysInv
  <2>1. ~ overlapped /\ behind = user /\ \A o \in Caller : ~ Changing(o)
    BY <1>4
  <2>2. PlaysOf(user) = due  BY <2>1 DEF PlaysInv
  <2>3. PlaysOf(user)' = due' /\ PlaysOf(behind)' = due'
    BY <1>4, <2>1, <2>2 DEF PlaysOf
  <2>4. \A d \in Caller : Changing(d)' => d = c
    BY <1>3, <2>1 DEF Changing
  <2>5. \A d \in Caller : pc'[d] # "update"
    BY <1>3, <2>1 DEF Changing
  <2>6. QED  BY <2>3, <2>4, <2>5
<1>7. QED  BY <1>2, <1>5, <1>6

LEMMA PlaysOfIsInt ==
  ASSUME NEW d \in [plays : Int \union {None}, deleted : BOOLEAN]
  PROVE  PlaysOf(d) \in Int /\ PlaysOf(d) # None
BY PlaysAssumption DEF PlaysOf

LEMMA PlaysRead ==
  ASSUME TypeOK, PlaysInv, NEW c \in Caller, ReadPlays(c)
  PROVE  /\ PlaysTypeOK' /\ PlaysInv'
         /\ \E value : Moves(c, {"plays"}, "update", value) /\ value # None
<1>1. PICK d \in {user, behind} : arg' = [arg EXCEPT ![c].found = PlaysOf(d)]
  BY DEF ReadPlays
<1>2. pc[c] = "plays" /\ pc' = [pc EXCEPT ![c] = "update"] /\ UNCHANGED account
  BY DEF ReadPlays, Go
<1>3. arg[c] \in PlaysChange  BY <1>2 DEF TypeOK, PlaysTypeOK
<1>4. PlaysOf(d) \in Int /\ PlaysOf(d) # None
  BY PlaysOfIsInt DEF TypeOK, PlaysTypeOK
<1> DEFINE value == [arg[c] EXCEPT !.found = PlaysOf(d)]
<1>5. /\ value \in PlaysChange /\ value.found = PlaysOf(d)
      /\ arg' = [arg EXCEPT ![c] = value]
  BY <1>1, <1>3, <1>4 DEF PlaysChange
<1> HIDE DEF value
<1>6. Moves(c, {"plays"}, "update", value)
  BY <1>2, <1>5 DEF Moves, Pc, Argument
<1>7. /\ pc'[c] = "update" /\ arg'[c] = value
      /\ \A o \in Caller : o # c => pc'[o] = pc[o] /\ arg'[o] = arg[o]
  BY <1>6, Moved
<1>8. PlaysTypeOK'
  <2>1. \A o \in Caller : pc'[o] \in {"plays", "update"} =>
          arg'[o] \in PlaysChange /\ (arg'[o].found = None <=> pc'[o] = "plays")
    BY <1>4, <1>5, <1>7 DEF TypeOK, PlaysTypeOK
  <2>2. QED  BY <1>2, <2>1, Zenon DEF TypeOK, PlaysTypeOK, account
<1>9. PlaysInv'
  <2>1. UNCHANGED <<user, behind, due, overlapped>>  BY <1>2 DEF account
  <2>2. \A o \in Caller : Changing(o)' <=> Changing(o)
    BY <1>2, <1>7 DEF Changing
  <2>3. ASSUME ~ overlapped, NEW o \in Caller, pc'[o] = "update"
        PROVE  arg'[o].found = due
    <3>1. Changing(c)  BY <1>2 DEF Changing
    <3>2. PlaysOf(user) = due /\ PlaysOf(behind) = due
      BY <2>3, <3>1 DEF PlaysInv
    <3>3. CASE o = c  BY <3>2, <3>3, <1>5, <1>7
    <3>4. CASE o # c  BY <3>4, <2>3, <1>7 DEF PlaysInv
    <3>5. QED  BY <3>3, <3>4
  <2>4. PlaysOf(user)' = PlaysOf(user) /\ PlaysOf(behind)' = PlaysOf(behind)
    BY <2>1 DEF PlaysOf
  <2>5. QED  BY <2>1, <2>2, <2>3, <2>4 DEF PlaysInv
<1>10. value # None
  BY <1>5, PlaysAssumption
<1>11. QED  BY <1>6, <1>8, <1>9, <1>10

LEMMA PlaysWritten ==
  ASSUME TypeOK, PlaysInv, NEW c \in Caller, WritePlays(c)
  PROVE  PlaysTypeOK' /\ PlaysInv' /\ Moves(c, {"update"}, "idle", None)
<1>1. Moves(c, {"update"}, "idle", None)
  BY DEF WritePlays, Return, Moves, Pc, Argument
<1>2. /\ pc[c] = "update" /\ pc'[c] = "idle"
      /\ \A o \in Caller : o # c => pc'[o] = pc[o] /\ arg'[o] = arg[o]
  BY <1>1, Moved DEF WritePlays
<1> DEFINE n == arg[c].found + arg[c].by
<1>3. /\ user' = [user EXCEPT !.plays = n] /\ behind' = user
      /\ due' = due + arg[c].by /\ overlapped' = overlapped
  BY DEF WritePlays
<1>4. /\ arg[c] \in PlaysChange /\ arg[c].found # None
      /\ user \in [plays : Int \union {None}, deleted : BOOLEAN] /\ due \in Int
  BY <1>2 DEF TypeOK, PlaysTypeOK
<1>5. arg[c].found \in Int /\ arg[c].by \in Int  BY <1>4 DEF PlaysChange
<1>6. n \in Int /\ n # None /\ due' \in Int
  BY <1>3, <1>4, <1>5, PlaysAssumption
<1>7. user' \in [plays : Int \union {None}, deleted : BOOLEAN] /\ user'.plays = n
  BY <1>3, <1>4, <1>6
<1>8. PlaysTypeOK'
  <2>1. \A o \in Caller : pc'[o] \in {"plays", "update"} =>
          arg'[o] \in PlaysChange /\ (arg'[o].found = None <=> pc'[o] = "plays")
    BY <1>2 DEF TypeOK, PlaysTypeOK
  <2>2. behind' \in [plays : Int \union {None}, deleted : BOOLEAN]
    BY <1>3, <1>4
  <2>3. overlapped' \in BOOLEAN  BY <1>3, Zenon DEF TypeOK, PlaysTypeOK
  <2>4. QED  BY <1>6, <1>7, <2>1, <2>2, <2>3, Zenon DEF PlaysTypeOK
<1>9. PlaysInv'
  <2>1. ASSUME ~ overlapped PROVE PlaysOf(user)' = due'
    <3>1. arg[c].found = due  BY <2>1, <1>2 DEF PlaysInv
    <3>2. PlaysOf(user)' = n  BY <1>6, <1>7 DEF PlaysOf
    <3>3. QED  BY <3>1, <3>2, <1>3
  <2>2. ASSUME ~ overlapped, NEW o \in Caller PROVE ~ Changing(o)'
    <3>1. \A d \in Caller : Changing(d) => d = c
      BY <2>2, <1>2 DEF PlaysInv, Changing
    <3>2. QED  BY <3>1, <1>2 DEF Changing
  <2>3. ASSUME ~ overlapped, NEW o \in Caller PROVE pc'[o] # "update"
    BY <2>3, <2>2 DEF Changing
  <2>4. QED  BY <2>1, <2>2, <2>3, <1>3 DEF PlaysInv
<1>10. QED  BY <1>1, <1>8, <1>9

LEMMA PlaysElsewhere ==
  ASSUME TypeOK, PlaysInv, CatchUp \/ DeleteUser
  PROVE  PlaysTypeOK' /\ PlaysInv' /\ UNCHANGED <<pc, arg>>
<1>1. /\ UNCHANGED <<pc, arg, due, overlapped>> /\ behind' = user
      /\ user' \in [plays : Int \union {None}, deleted : BOOLEAN]
      /\ user'.plays = user.plays
  <2>1. user \in [plays : Int \union {None}, deleted : BOOLEAN]
    BY DEF TypeOK, PlaysTypeOK
  <2>2. CASE CatchUp  BY <2>1, <2>2 DEF CatchUp
  <2>3. CASE DeleteUser
    <3>1. user' = [user EXCEPT !.deleted = TRUE] /\ behind' = user
          /\ UNCHANGED <<pc, arg, due, overlapped>>
      BY <2>3 DEF DeleteUser
    <3>2. TRUE \in BOOLEAN  OBVIOUS
    <3>3. user' \in [plays : Int \union {None}, deleted : BOOLEAN]
      BY <2>1, <3>1, <3>2
    <3>4. QED  BY <2>1, <3>1, <3>3
  <2>4. QED  BY <2>2, <2>3
<1>2. PlaysTypeOK'
  BY <1>1 DEF TypeOK, PlaysTypeOK
<1>3. PlaysOf(user)' = PlaysOf(user) /\ PlaysOf(behind)' = PlaysOf(user)
  BY <1>1 DEF PlaysOf
<1>4. PlaysInv'
  BY <1>1, <1>3 DEF PlaysInv, Changing
<1>5. QED  BY <1>1, <1>2, <1>4

-----------------------------------------------------------------------------
(* All of them. *)

Arguments ==
    /\ pc \in [Caller -> Pc] /\ arg \in [Caller -> Argument]
    /\ \A c \in Caller : arg[c] = None <=> pc[c] \in {"idle", "device"}

LEMMA Composed ==
  ASSUME Arguments', KafkaTypeOK' /\ KafkaInv', RecordsTypeOK' /\ RecordsInv',
         PushTypeOK' /\ PushInv', PlaysTypeOK' /\ PlaysInv', calls' \in 0 .. MaxCall
  PROVE  DeliveriesInv'
BY Zenon DEF Arguments, DeliveriesInv, TypeOK

(* A step that moves no coroutine, and one that moves a single one. *)
LEMMA NoneMoves ==
  ASSUME TypeOK, UNCHANGED <<pc, arg>>
  PROVE  Arguments' /\ \A places : Untouched(places)
BY DEF TypeOK, Arguments, Untouched

LEMMA OneMoves ==
  ASSUME TypeOK, NEW c \in Caller, NEW from, NEW to, NEW value,
         Moves(c, from, to, value), value = None <=> to \in {"idle", "device"}
  PROVE  Arguments'
BY Argless DEF Arguments

(* The actions, one after the other: the service that acts keeps its part  *)
(* of the invariant, the others rest.                                      *)
LEMMA CallStep ==
  ASSUME DeliveriesInv, NEW c \in Caller, Call(c)
  PROVE  DeliveriesInv'
<1>1. TypeOK /\ KafkaInv /\ RecordsInv /\ PushInv /\ PlaysInv  BY DEF DeliveriesInv
<1>2. ~ Blocked /\ calls' \in 0 .. MaxCall
  BY <1>1, DeliveriesAssumption DEF Call, TypeOK
<1>3. ASSUME NEW e \in Event, SendEvent(c, e), UNCHANGED <<records, push, account>>
      PROVE  DeliveriesInv'
  <2>1. KafkaTypeOK' /\ KafkaInv' /\ Moves(c, {"idle"}, "ack", e)
    BY <1>1, <1>2, <1>3, KafkaSends
  <2>2. Untouched({"insert"}) /\ Untouched(PushPlaces) /\ Untouched({"plays", "update"})
    BY <1>1, <2>1, OthersUntouched DEF PushPlaces
  <2>3. Arguments'  BY <1>1, <2>1, OneMoves, NoneIsNoEvent
  <2>4. QED
    BY <1>1, <1>2, <1>3, <2>1, <2>2, <2>3, Composed, RecordsRests, PushRests, PlaysRests
<1>4. ASSUME NEW e \in Event, SendRefused(c, e), UNCHANGED <<records, push, account>>
      PROVE  DeliveriesInv'
  <2>1. KafkaTypeOK' /\ KafkaInv' /\ UNCHANGED <<pc, arg>>
    BY <1>1, <1>4, KafkaRefuses
  <2>2. QED
    BY <1>1, <1>2, <1>4, <2>1, NoneMoves, Composed, RecordsRests, PushRests, PlaysRests
<1>5. ASSUME NEW r \in Record, Insert(c, r), UNCHANGED <<kafka, push, account>>
      PROVE  DeliveriesInv'
  <2>1. RecordsTypeOK' /\ RecordsInv' /\ Moves(c, {"idle"}, "insert", r)
    BY <1>1, <1>5, RecordsBegin
  <2>2. Untouched({"ack"}) /\ Untouched(PushPlaces) /\ Untouched({"plays", "update"})
    BY <1>1, <2>1, OthersUntouched DEF PushPlaces
  <2>3. Arguments'  BY <1>1, <2>1, OneMoves, RecordsAssumption
  <2>4. QED
    BY <1>1, <1>2, <1>5, <2>1, <2>2, <2>3, Composed, KafkaRests, PushRests, PlaysRests
<1>6. ASSUME Push(c), UNCHANGED <<kafka, records, account>>
      PROVE  DeliveriesInv'
  <2>1. PushTypeOK' /\ PushInv' /\ Moves(c, {"idle"}, "device", None)
    BY <1>1, <1>6, PushBegins
  <2>2. Untouched({"ack"}) /\ Untouched({"insert"}) /\ Untouched({"plays", "update"})
    BY <1>1, <2>1, OthersUntouched
  <2>3. Arguments'  BY <1>1, <2>1, OneMoves
  <2>4. QED
    BY <1>1, <1>2, <1>6, <2>1, <2>2, <2>3, Composed, KafkaRests, RecordsRests, PlaysRests
<1>7. ASSUME NEW n \in Steps, ChangePlays(c, n), UNCHANGED <<kafka, records, push>>
      PROVE  DeliveriesInv'
  <2> DEFINE change == [by |-> n, found |-> None]
  <2>1. PlaysTypeOK' /\ PlaysInv' /\ Moves(c, {"idle"}, "plays", change)
    BY <1>1, <1>7, PlaysBegin
  <2>2. Untouched({"ack"}) /\ Untouched({"insert"}) /\ Untouched(PushPlaces)
    BY <1>1, <2>1, OthersUntouched DEF PushPlaces
  <2>3. change # None
    <3>1. change \in PlaysChange  BY PlaysAssumption DEF PlaysChange
    <3>2. QED  BY <3>1, PlaysAssumption
  <2>4. Arguments'  BY <1>1, <2>1, <2>3, OneMoves
  <2>5. QED
    BY <1>1, <1>2, <1>7, <2>1, <2>2, <2>4, Composed, KafkaRests, RecordsRests, PushRests
<1>8. QED  BY <1>3, <1>4, <1>5, <1>6, <1>7 DEF Call

LEMMA EventStep ==
  ASSUME DeliveriesInv, NEW c \in Caller, EventReturns(c)
  PROVE  DeliveriesInv'
<1>1. TypeOK /\ KafkaInv /\ RecordsInv /\ PushInv /\ PlaysInv  BY DEF DeliveriesInv
<1>2. KafkaTypeOK' /\ KafkaInv' /\ Moves(c, {"ack"}, "idle", None)
  BY <1>1, KafkaReturns DEF EventReturns
<1>3. Untouched({"insert"}) /\ Untouched(PushPlaces) /\ Untouched({"plays", "update"})
  BY <1>1, <1>2, OthersUntouched DEF PushPlaces
<1>4. UNCHANGED <<records, push, account>> /\ calls' \in 0 .. MaxCall
  BY <1>1 DEF EventReturns, TypeOK
<1>5. Arguments'  BY <1>1, <1>2, OneMoves
<1>6. QED
  BY <1>1, <1>2, <1>3, <1>4, <1>5, Composed, RecordsRests, PushRests, PlaysRests

LEMMA InsertStep ==
  ASSUME DeliveriesInv, NEW c \in Caller, InsertReturns(c)
  PROVE  DeliveriesInv'
<1>1. TypeOK /\ KafkaInv /\ RecordsInv /\ PushInv /\ PlaysInv  BY DEF DeliveriesInv
<1>2. RecordsTypeOK' /\ RecordsInv' /\ Moves(c, {"insert"}, "idle", None)
  BY <1>1, RecordsEnd DEF InsertReturns
<1>3. Untouched({"ack"}) /\ Untouched(PushPlaces) /\ Untouched({"plays", "update"})
  BY <1>1, <1>2, OthersUntouched DEF PushPlaces
<1>4. UNCHANGED <<kafka, push, account>> /\ calls' \in 0 .. MaxCall
  BY <1>1 DEF InsertReturns, TypeOK
<1>5. Arguments'  BY <1>1, <1>2, OneMoves
<1>6. QED
  BY <1>1, <1>2, <1>3, <1>4, <1>5, Composed, KafkaRests, PushRests, PlaysRests

LEMMA PushGoes ==
  ASSUME DeliveriesInv, NEW c \in Caller, PushGoesOn(c) \/ PushFails(c)
  PROVE  DeliveriesInv'
<1>1. TypeOK /\ KafkaInv /\ RecordsInv /\ PushInv /\ PlaysInv  BY DEF DeliveriesInv
<1>2. PushStep(c)  BY DEF PushGoesOn, PushFails, PushStep
<1>3. PushTypeOK' /\ PushInv' /\ PushMoved(c)  BY <1>1, <1>2, PushSteps
<1>4. PICK to \in {"idle"} \union PushPlaces, value \in Argument :
         /\ Moves(c, PushPlaces, to, value)
         /\ value = None <=> to \in {"idle", "device"}
  BY <1>3 DEF PushMoved
<1>5. Untouched({"ack"}) /\ Untouched({"insert"}) /\ Untouched({"plays", "update"})
  BY <1>1, <1>4, OthersUntouched DEF PushPlaces
<1>6. UNCHANGED <<kafka, records, account>> /\ calls' \in 0 .. MaxCall
  BY <1>1 DEF PushGoesOn, PushFails, TypeOK
<1>7. Arguments'  BY <1>1, <1>4, OneMoves
<1>8. QED
  BY <1>1, <1>3, <1>5, <1>6, <1>7, Composed, KafkaRests, RecordsRests, PlaysRests

LEMMA ChangeStep ==
  ASSUME DeliveriesInv, NEW c \in Caller, ChangeGoesOn(c)
  PROVE  DeliveriesInv'
<1>1. TypeOK /\ KafkaInv /\ RecordsInv /\ PushInv /\ PlaysInv  BY DEF DeliveriesInv
<1>2. UNCHANGED <<kafka, records, push>> /\ calls' \in 0 .. MaxCall
  BY <1>1 DEF ChangeGoesOn, TypeOK
<1>3. \E to \in {"idle", "update"}, value \in Argument :
         /\ Moves(c, {"plays", "update"}, to, value)
         /\ value = None <=> to = "idle"
         /\ PlaysTypeOK' /\ PlaysInv'
  <2>1. CASE ReadPlays(c)  BY <1>1, <2>1, PlaysRead DEF Moves
  <2>2. CASE WritePlays(c)  BY <1>1, <2>2, PlaysWritten DEF Moves
  <2>3. CASE NoPlays(c) \/ NotWritten(c)
    <3>1. Moves(c, {"plays", "update"}, "idle", None) /\ UNCHANGED account
      BY <2>3 DEF NoPlays, NotWritten, Return, Moves, Pc, Argument
    <3>2. Untouched({"plays", "update"})  BY <1>1, <3>1, OthersUntouched
    <3>3. QED  BY <1>1, <3>1, <3>2, PlaysRests DEF Argument
  <2>4. QED  BY <2>1, <2>2, <2>3 DEF ChangeGoesOn
<1>4. PICK to \in {"idle", "update"}, value \in Argument :
         /\ Moves(c, {"plays", "update"}, to, value)
         /\ value = None <=> to = "idle"
  BY <1>3
<1>5. Untouched({"ack"}) /\ Untouched({"insert"}) /\ Untouched(PushPlaces)
  BY <1>1, <1>4, OthersUntouched DEF PushPlaces
<1>6. Arguments'  BY <1>1, <1>4, OneMoves
<1>7. QED
  BY <1>1, <1>2, <1>3, <1>5, <1>6, Composed, KafkaRests, RecordsRests, PushRests

LEMMA EnvironmentStep ==
  ASSUME DeliveriesInv, Environment
  PROVE  DeliveriesInv'
<1>1. TypeOK /\ KafkaInv /\ RecordsInv /\ PushInv /\ PlaysInv  BY DEF DeliveriesInv
<1>2. calls' \in 0 .. MaxCall  BY <1>1 DEF Environment, TypeOK
<1>3. CASE (Deliver \/ Fails) /\ UNCHANGED <<records, push, account>>
  <2>1. KafkaTypeOK' /\ KafkaInv' /\ UNCHANGED <<pc, arg>>
    BY <1>1, <1>3, KafkaDelivers
  <2>2. QED
    BY <1>1, <1>2, <1>3, <2>1, NoneMoves, Composed, RecordsRests, PushRests, PlaysRests
<1>4. CASE Second /\ UNCHANGED <<kafka, push, account>>
  <2>1. RecordsTypeOK' /\ RecordsInv' /\ UNCHANGED <<pc, arg>>
    BY <1>1, <1>4, RecordsAge
  <2>2. QED
    BY <1>1, <1>2, <1>4, <2>1, NoneMoves, Composed, KafkaRests, PushRests, PlaysRests
<1>5. CASE (CatchUp \/ DeleteUser) /\ UNCHANGED <<kafka, records, push>>
  <2>1. PlaysTypeOK' /\ PlaysInv' /\ UNCHANGED <<pc, arg>>
    BY <1>1, <1>5, PlaysElsewhere
  <2>2. QED
    BY <1>1, <1>2, <1>5, <2>1, NoneMoves, Composed, KafkaRests, RecordsRests, PushRests
<1>6. CASE UserCaches /\ UNCHANGED <<kafka, records, account>>
  <2>1. PushTypeOK' /\ PushInv' /\ UNCHANGED <<pc, arg>>
    BY <1>1, <1>6, PushChanges
  <2>2. QED
    BY <1>1, <1>2, <1>6, <2>1, NoneMoves, Composed, KafkaRests, RecordsRests, PlaysRests
<1>7. QED  BY <1>3, <1>4, <1>5, <1>6 DEF Environment, UserCaches

LEMMA CrashStep ==
  ASSUME DeliveriesInv, Crash
  PROVE  DeliveriesInv'
<1>1. TypeOK /\ KafkaInv /\ RecordsInv /\ PushInv /\ PlaysInv  BY DEF DeliveriesInv
<1>2. /\ pc' = [c \in Caller |-> "idle"] /\ arg' = [c \in Caller |-> None]
      /\ KafkaCrash /\ UNCHANGED <<records, cache, pushed, account, calls>>
      /\ used' = [c \in Caller |-> {}]
  BY DEF Crash
<1>3. denied' = [c \in Caller |-> FALSE]  BY Zenon DEF Crash
<1>4. Arguments'  BY <1>2 DEF Arguments, Pc, Argument
<1>5. \A c \in Caller : pc'[c] = "idle"  BY <1>2
<1>6. Untouched({"insert"}) /\ Untouched({"plays", "update"})
  BY <1>5 DEF Untouched
<1>7. KafkaTypeOK' /\ KafkaInv'
  <2>1. /\ buffer' = <<>> /\ sent' = sent /\ log' = log
        /\ result' = result /\ answer' = answer
    BY <1>2 DEF KafkaCrash
  <2>2. buffer' \in Seq(Event) /\ Len(buffer') = 0  BY <2>1
  <2>3. \A c \in Caller : pc'[c] # "ack"  BY <1>5
  <2>4. KafkaTypeOK'
    BY <1>1, <2>1, <2>2, <2>3, Zenon DEF TypeOK, KafkaTypeOK
  <2>5. Len(sent) \in Nat /\ Len(buffer) \in Nat /\ Len(buffer) <= Len(sent)
    BY <1>1 DEF TypeOK, KafkaTypeOK, KafkaInv
  <2>6. Buffers(buffer', sent')  BY <2>1, <2>2, <2>5 DEF Buffers
  <2>7. Within(log', sent', Len(sent') - Len(buffer'))
    <3>1. Within(log, sent, Len(sent) - Len(buffer))  BY <1>1, KafkaParts
    <3>2. 1 .. Len(sent) - Len(buffer) \subseteq 1 .. Len(sent') - Len(buffer')
      BY <2>1, <2>2, <2>5
    <3>3. QED  BY <2>1, <3>1, <3>2 DEF Within
  <2>8. KafkaInv'
    <3>1. LogIsFaithful'
      BY <1>1, <1>2 DEF KafkaCrash, KafkaInv, LogIsFaithful
    <3>2. (\A e \in Event : result[e] = TRUE => e \in Range(log))'
      BY <1>1, <2>1, Zenon DEF KafkaInv
    <3>3. QED
      BY <2>3, <2>6, <2>7, <3>1, <3>2, Zenon DEF KafkaInv, Buffers, Within
  <2>9. QED  BY <2>4, <2>8
<1>8. PushTypeOK' /\ PushInv'
  <2>1. /\ device' = device /\ permits' = permits /\ pushed' = pushed
        /\ regid' = regid /\ changes' = changes
    BY <1>2 DEF cache
  <2>2. used' \in [Caller -> SUBSET Device]  BY <1>2
  <2>3. denied' \in [Caller -> BOOLEAN] /\ \A c \in Caller : ~ denied'[c]
    BY <1>3, Zenon
  <2>4. \A c \in Caller : pc'[c] \notin PushPlaces  BY <1>5 DEF PushPlaces
  <2>5. PushTypeOK'
    <3>1. \A c \in Caller : pc'[c] \notin {"permission", "type", "registration", "post"}
      BY <1>5
    <3>2. QED  BY <1>1, <2>1, <2>2, <2>3, <3>1, Zenon DEF TypeOK, PushTypeOK
  <2>6. PushInv'
    <3>1. \A c \in Caller : ~ Pushing(c)'  BY <1>5 DEF Pushing
    <3>2. pushed' = 0  BY <1>1, <2>1 DEF PushInv, DeniedMeansSilent
    <3>3. QED  BY <2>3, <3>1, <3>2, Zenon DEF PushInv, DeniedMeansSilent
  <2>7. QED  BY <2>5, <2>6
<1>9. RecordsTypeOK' /\ RecordsInv'
  <2>1. UNCHANGED records  BY <1>2
  <2>2. QED  BY <1>1, <1>6, <2>1, RecordsRests
<1>10. PlaysTypeOK' /\ PlaysInv'
  <2>1. UNCHANGED account  BY <1>2
  <2>2. QED  BY <1>1, <1>6, <2>1, PlaysRests
<1>11. calls' \in 0 .. MaxCall  BY <1>1, <1>2 DEF TypeOK
<1>12. QED  BY <1>4, <1>7, <1>8, <1>9, <1>10, <1>11, Composed

LEMMA InvStep ==
  ASSUME DeliveriesInv, [Next]_vars
  PROVE  DeliveriesInv'
<1>1. CASE UNCHANGED vars
  <2>1. UNCHANGED <<kafka, records, push, account, calls, pc, arg>>
    BY <1>1 DEF vars, services
  <2>2. TypeOK /\ KafkaInv /\ RecordsInv /\ PushInv /\ PlaysInv  BY DEF DeliveriesInv
  <2>3. calls' \in 0 .. MaxCall  BY <2>1, <2>2 DEF TypeOK
  <2>4. QED
    BY <2>1, <2>2, <2>3, NoneMoves, Composed, KafkaRests, RecordsRests, PushRests, PlaysRests
<1>2. CASE Next
  BY <1>2, CallStep, EventStep, InsertStep, PushGoes, ChangeStep, EnvironmentStep, CrashStep
     DEF Next, Progress
<1>3. QED  BY <1>1, <1>2

LEMMA Invariance == Spec => []DeliveriesInv
<1>1. Init => DeliveriesInv  BY Inits
<1>2. DeliveriesInv /\ [Next]_vars => DeliveriesInv'  BY InvStep
<1>3. QED  BY <1>1, <1>2, PTL DEF Spec

-----------------------------------------------------------------------------
(* Whatever the four services of a process do between each other's steps,  *)
(* and wherever it dies, their states keep their types.                    *)
THEOREM Types == Spec => []TypeOK
<1>1. DeliveriesInv => TypeOK  BY DEF DeliveriesInv
<1>2. QED  BY <1>1, Invariance, PTL

(* The topic has every event at most once, in the order in which they were *)
(* sent, and every one that was answered True, for any number of           *)
(* coroutines, events and crashes.                                         *)
THEOREM FaithfulLog == Spec => []LogIsFaithful
<1>1. DeliveriesInv => LogIsFaithful  BY DEF DeliveriesInv, KafkaInv
<1>2. QED  BY <1>1, Invariance, PTL

(* A game result is stored at most once, however often and however late    *)
(* its caller asks again.                                                  *)
THEOREM StoredOnce == Spec => []ResultStoredOnce
<1>1. DeliveriesInv => ResultStoredOnce  BY DEF DeliveriesInv, RecordsInv
<1>2. QED  BY <1>1, Invariance, PTL

(* No push goes to a user who has denied it on every device he has used    *)
(* during the call, for any number of devices and changes between the      *)
(* four reads.                                                             *)
THEOREM Silence == Spec => []DeniedMeansSilent
<1>1. DeliveriesInv => DeniedMeansSilent  BY DEF DeliveriesInv, PushInv
<1>2. QED  BY <1>1, Invariance, PTL

(* Free plays are counted exactly as long as no two changes overlap, for   *)
(* any change of them by any amount.                                       *)
THEOREM CountedPlays == Spec => []PlaysCounted
<1>1. DeliveriesInv => PlaysCounted
  BY DEF DeliveriesInv, PlaysInv, PlaysCounted, PlaysOf
<1>2. QED  BY <1>1, Invariance, PTL

=============================================================================
