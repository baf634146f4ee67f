----------------------------- MODULE Deliveries -----------------------------
(***************************************************************************)
(* What the coroutines of one server process hand on when something has    *)
(* happened in a room: room events to Kafka, records to MongoDB, pushes to *)
(* a user's device.  They share the event loop, which the wait for Kafka   *)
(* (future.get in ext_kafka/producer.py) does not give back: whatever      *)
(* MongoDB or Redis answer meanwhile is seen later.                        *)
(***************************************************************************)
EXTENDS RoomEvents, Records, PushMessages, FreePlays

CONSTANT
    MaxCall     \* bound: calls

ASSUME DeliveriesAssumption == MaxCall \in Nat

VARIABLE
    calls       \* number of calls made

services == <<kafka, records, push, account>>
vars == <<pc, arg, services, calls>>

Init ==
    /\ pc = [c \in Caller |-> "idle"]
    /\ arg = [c \in Caller |-> None]
    /\ KafkaInit /\ RecordsInit /\ PushInit /\ PlaysInit
    /\ calls = 0

Pc == {"idle", "ack", "insert", "plays", "update",
       "device", "permission", "type", "registration", "post"}

(* A router calls one of the services. *)
Call(c) ==
    /\ calls < MaxCall
    /\ calls' = calls + 1
    /\ ~Blocked
    /\ \/ /\ \E e \in Event : SendEvent(c, e) \/ SendRefused(c, e)
          /\ UNCHANGED <<records, push, account>>
       \/ (\E r \in Record : Insert(c, r)) /\ UNCHANGED <<kafka, push, account>>
       \/ Push(c) /\ UNCHANGED <<kafka, records, account>>
       \/ (\E n \in Steps : ChangePlays(c, n)) /\ UNCHANGED <<kafka, records, push>>

(* The coroutine that waits for Kafka goes on. *)
EventReturns(c) ==
    /\ Got(c) \/ TimesOut(c)
    /\ UNCHANGED <<records, push, account, calls>>

(* The answer of MongoDB reaches its coroutine. *)
InsertReturns(c) ==
    /\ ~Blocked
    /\ Inserted(c) \/ NotInserted(c)
    /\ UNCHANGED <<kafka, push, account, calls>>

PushGoesOn(c) ==
    /\ ~Blocked
    /\ \/ ReadDevice(c) \/ ReadPermission(c) \/ ReadType(c)
       \/ ReadRegistration(c) \/ Post(c)
    /\ UNCHANGED <<kafka, records, account, calls>>

ChangeGoesOn(c) ==
    /\ ~Blocked
    /\ ReadPlays(c) \/ NoPlays(c) \/ WritePlays(c) \/ NotWritten(c)
    /\ UNCHANGED <<kafka, records, push, calls>>

Progress(c) == EventReturns(c) \/ InsertReturns(c) \/ PushGoesOn(c) \/ ChangeGoesOn(c)

PushFails(c) ==
    /\ ~Blocked
    /\ ReadFails(c)
    /\ UNCHANGED <<kafka, records, account, calls>>

(* Kafka's own thread, the clock, other processes and the user do not wait *)
(* for the loop.                                                           *)
Environment ==
    /\ \/ (Deliver \/ Fails) /\ UNCHANGED <<records, push, account>>
       \/ Second /\ UNCHANGED <<kafka, push, account>>
       \/ (CatchUp \/ DeleteUser) /\ UNCHANGED <<kafka, records, push>>
       \/ /\ \/ \E d \in Device : CacheDevice(d)
             \/ CacheRegistration
             \/ \E d \in Device, on \in BOOLEAN : CachePermission(d, on)
          /\ UNCHANGED <<kafka, records, account>>
    /\ UNCHANGED calls

(* The process dies, with all its coroutines, and is started again. *)
Crash ==
    /\ \E c \in Caller : pc[c] # "idle"
    /\ KafkaCrash
    /\ pc' = [c \in Caller |-> "idle"]
    /\ arg' = [c \in Caller |-> None]
    /\ used' = [c \in Caller |-> {}]
    /\ denied' = [c \in Caller |-> FALSE]
    /\ UNCHANGED <<records, cache, pushed, account, calls>>

Next ==
    \/ \E c \in Caller : Call(c) \/ Progress(c) \/ PushFails(c)
    \/ Environment
    \/ Crash

Spec == Init /\ [][Next]_vars

(* MongoDB, Redis and the push service answer or time out; Kafka's answer  *)
(* may never come, only the wait for it ends.                              *)
FairSpec == Spec /\ \A c \in Caller : WF_vars(Progress(c))

-----------------------------------------------------------------------------
(* What a coroutine works on. *)
Argument == {None} \union Event \union Record \union Device \union PlaysChange

(* The types of the four parts, and a coroutine without an argument is    *)
(* idle or has read nothing yet.                                           *)
TypeOK ==
    /\ pc \in [Caller -> Pc] /\ arg \in [Caller -> Argument]
    /\ KafkaTypeOK /\ RecordsTypeOK /\ PushTypeOK /\ PlaysTypeOK
    /\ \A c \in Caller : arg[c] = None <=> pc[c] \in {"idle", "device"}
    /\ calls \in 0 .. MaxCall

(* Every call ends, also those that only have to wait for the loop while   *)
(* Kafka is down.                                                          *)
EveryCallReturns == \A c \in Caller : pc[c] # "idle" ~> pc[c] = "idle"

DeliveriesInv == TypeOK /\ KafkaInv /\ RecordsInv /\ PushInv /\ PlaysInv

=============================================================================
