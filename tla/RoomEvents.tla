----------------------------- MODULE RoomEvents -----------------------------
(***************************************************************************)
(* The events of one room on their way to Kafka: send_room_event, and      *)
(* send_msg, which does the same with another message, of the              *)
(* kafkaProducer (ext_kafka/producer.py) of one server process.  The       *)
(* producer's own thread sends its records in their order and never again, *)
(* whereas the coroutine waits for the answer without giving the event     *)
(* loop back: until then no coroutine of the process takes a step.         *)
(***************************************************************************)
EXTENDS Coroutines, Integers, Sequences, SequencesExt

CONSTANT
    Event       \* events, each sent at most once

ASSUME NoneIsNoEvent == None \notin Event \union BOOLEAN

VARIABLES
    sent,       \* events handed to the producer, in their order
    buffer,     \* those its thread has not finished with
    log,        \* events in the topic's partition
    result,     \* of each event: its future, TRUE, FALSE or None
    answer      \* of each event: what send_room_event has returned

kafka == <<sent, buffer, log, result, answer>>

(* future.get(): the process waits. *)
Blocked == \E c \in Caller : pc[c] = "ack"

KafkaInit ==
    /\ sent = <<>> /\ buffer = <<>> /\ log = <<>>
    /\ result = [e \in Event |-> None]
    /\ answer = [e \in Event |-> None]

Unsent(e) == answer[e] = None /\ e \notin Range(sent)

(* The message is built and handed over. *)
SendEvent(c, e) ==
    /\ ~Blocked /\ Unsent(e)
    /\ Start(c, "ack")
    /\ arg' = [arg EXCEPT ![c] = e]
    /\ sent' = Append(sent, e)
    /\ buffer' = Append(buffer, e)
    /\ UNCHANGED <<log, result, answer>>

(* A key is missing in raw_event, its type is none of the eight (then      *)
(* event has no value), or send() raises.                                  *)
SendRefused(c, e) ==
    /\ pc[c] = "idle" /\ ~Blocked
    /\ Unsent(e)
    /\ answer' = [answer EXCEPT ![e] = FALSE]
    /\ UNCHANGED <<pc, arg, sent, buffer, log, result>>

Answer(c, done) ==
    /\ answer' = [answer EXCEPT ![arg[c]] = done]
    /\ Return(c)
    /\ UNCHANGED <<sent, buffer, log, result>>

(* Mutant: done does not wait for the future. *)
GotWithoutWaiting(c) ==
    /\ pc[c] = "ack"
    /\ Answer(c, result[arg[c]] # FALSE)

Got(c) ==
    /\ pc[c] = "ack"
    /\ result[arg[c]] # None
    /\ Answer(c, result[arg[c]])

(* Mutant: future.get() without a timeout. *)
NeverTimesOut(c) == FALSE

(* timeout=5: the record stays where it is. *)
TimesOut(c) ==
    /\ pc[c] = "ack"
    /\ result[arg[c]] = None
    /\ Answer(c, FALSE)

(* The broker appends the next record and says so. *)
Deliver ==
    /\ buffer # <<>>
    /\ log' = Append(log, Head(buffer))
    /\ result' = [result EXCEPT ![Head(buffer)] = TRUE]
    /\ buffer' = Tail(buffer)
    /\ UNCHANGED <<pc, arg, sent, answer>>

(* Mutant: retries=1 with several requests in flight. *)
Resend == IF Len(buffer) > 1 THEN Tail(buffer) \o <<Head(buffer)>> ELSE buffer

(* The producer is made without retries: a record is given up. *)
GiveUp == Tail(buffer)

(* An error, request_timeout_ms, or an answer that was lost. *)
Fails ==
    /\ buffer # <<>>
    /\ log' \in {log, Append(log, Head(buffer))}
    /\ result' = [result EXCEPT ![Head(buffer)] = FALSE]
    /\ buffer' = GiveUp
    /\ UNCHANGED <<pc, arg, sent, answer>>

(* The process dies and its records with it. *)
KafkaCrash ==
    /\ buffer' = <<>>
    /\ UNCHANGED <<sent, log, result, answer>>

KafkaTypeOK ==
    /\ sent \in Seq(Event) /\ IsInjective(sent)
    /\ buffer \in Seq(Event) /\ log \in Seq(Event)
    /\ result \in [Event -> BOOLEAN \union {None}]
    /\ answer \in [Event -> BOOLEAN \union {None}]
    /\ \A c \in Caller : pc[c] = "ack" => arg[c] \in Event /\ answer[arg[c]] = None

(* The topic shows each event of the room at most once and in the order in *)
(* which they were sent, and every event that was answered True: an event  *)
(* that timed out may still come, but only before every later one.         *)
LogIsFaithful ==
    /\ IsInjective(log)
    /\ \A i, j \in DOMAIN log : \A m, n \in DOMAIN sent :
         i < j /\ log[i] = sent[m] /\ log[j] = sent[n] => m < n
    /\ \A e \in Event : answer[e] = TRUE => e \in Range(log)

(* Why: only one coroutine waits, and the buffer holds the end of what was *)
(* sent, of which the topic has nothing yet.                               *)
KafkaInv ==
    /\ LogIsFaithful
    /\ \A c, d \in Caller : pc[c] = "ack" /\ pc[d] = "ack" => c = d
    /\ Len(buffer) <= Len(sent)
    /\ \A i \in 1 .. Len(buffer) : buffer[i] = sent[Len(sent) - Len(buffer) + i]
    /\ \A i \in 1 .. Len(log) :
          \E m \in 1 .. Len(sent) - Len(buffer) : log[i] = sent[m]
    /\ \A e \in Event : result[e] = TRUE => e \in Range(log)

=============================================================================
