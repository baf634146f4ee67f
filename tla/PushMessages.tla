---------------------------- MODULE PushMessages ----------------------------
(***************************************************************************)
(* send_jpush (infra/jpush) for one user: four reads from the cache, one   *)
(* after the other, then a request to the push service.  Meanwhile the     *)
(* user changes the permission of a device or signs in on another one, for *)
(* which the device id, its type and its registration id are cached one    *)
(* after the other, too.                                                   *)
(***************************************************************************)
EXTENDS Coroutines, Integers

CONSTANTS
    Device,     \* the user's devices
    MaxChange   \* bound: changes the user makes

ASSUME PushAssumption == None \notin Device /\ MaxChange \in Nat

VARIABLES
    device,     \* cached device id, or None
    regid,      \* cached registration id, that of a device, or None
    permits,    \* cached permissions of the devices: BOOLEAN or None
    changes,    \* number of changes
    used,       \* of each caller: devices cached since its call began
    denied,     \* whether all of these have denied permission all the time
    pushed      \* number of pushes made although denied

cache == <<device, regid, permits, changes>>
push == <<cache, used, denied, pushed>>

(* The user has signed in before, or not. *)
PushInit ==
    /\ device \in Device \union {None}
    /\ regid \in {None, device}
    /\ permits = [d \in Device |-> None]
    /\ changes = 0
    /\ used = [c \in Caller |-> {}]
    /\ denied = [c \in Caller |-> FALSE]
    /\ pushed = 0

Push(c) ==
    /\ Start(c, "device")
    /\ used' = [used EXCEPT ![c] = {device} \ {None}]
    /\ denied' = [denied EXCEPT ![c] = device # None /\ permits[device] = FALSE]
    /\ UNCHANGED <<arg, cache, pushed>>

PushReturns(c) ==
    /\ Return(c)
    /\ used' = [used EXCEPT ![c] = {}]
    /\ denied' = [denied EXCEPT ![c] = FALSE]

(* Mutant: the test of a missing device id does not end the call. *)
ReadAnyDevice(c) ==
    /\ Go(c, "device", "permission")
    /\ arg' = [arg EXCEPT ![c] = device]
    /\ UNCHANGED push

(* No device id is cached: len(None) raises. *)
ReadDevice(c) ==
    \/ /\ device # None
       /\ Go(c, "device", "permission")
       /\ arg' = [arg EXCEPT ![c] = device]
       /\ UNCHANGED push
    \/ /\ pc[c] = "device" /\ device = None
       /\ PushReturns(c)
       /\ UNCHANGED <<cache, pushed>>

(* Mutant: the permission only counts if there is a registration. *)
RefusedIfKnown(c) == permits[arg[c]] = FALSE /\ regid # None

(* A permission that is not cached is none that is 0. *)
RefusedBy(c) == permits[arg[c]] = FALSE

(* True, for there is no need to push, or on to the device type. *)
ReadPermission(c) ==
    \/ /\ Go(c, "permission", "type")
       /\ ~RefusedBy(c)
       /\ UNCHANGED <<arg, push>>
    \/ /\ pc[c] = "permission" /\ RefusedBy(c)
       /\ PushReturns(c)
       /\ UNCHANGED <<cache, pushed>>

(* Every value stands for a type: an unknown one, or none, for ios. *)
ReadType(c) ==
    /\ Go(c, "type", "registration")
    /\ UNCHANGED <<arg, push>>

ReadRegistration(c) ==
    \/ /\ regid # None
       /\ Go(c, "registration", "post")
       /\ UNCHANGED <<arg, push>>
    \/ /\ pc[c] = "registration" /\ regid = None
       /\ PushReturns(c)
       /\ UNCHANGED <<cache, pushed>>

(* One of the reads fails: False. *)
ReadFails(c) ==
    /\ pc[c] \in {"device", "permission", "type", "registration"}
    /\ PushReturns(c)
    /\ UNCHANGED <<cache, pushed>>

(* Delivered, refused or failed: False in any case (done = done). *)
Post(c) ==
    /\ pc[c] = "post"
    /\ pushed' = IF denied[c] THEN pushed + 1 ELSE pushed
    /\ PushReturns(c)
    /\ UNCHANGED cache

-----------------------------------------------------------------------------
(* What the user's own requests cache. *)

Pushing(c) ==
    pc[c] \in {"device", "permission", "type", "registration", "post"}

(* A change and what it means for the calls in progress. *)
Change ==
    /\ changes < MaxChange
    /\ changes' = changes + 1
    /\ used' = [c \in Caller |-> used[c] \union
                  (IF Pushing(c) THEN {device'} \ {None} ELSE {})]
    /\ denied' = [c \in Caller |->
                    denied[c] /\ \A d \in used'[c] : permits'[d] = FALSE]
    /\ UNCHANGED <<pc, arg, pushed>>

CacheDevice(d) ==
    /\ d # device
    /\ device' = d
    /\ UNCHANGED <<regid, permits>>
    /\ Change

CacheRegistration ==
    /\ regid # device
    /\ regid' = device
    /\ UNCHANGED <<device, permits>>
    /\ Change

CachePermission(d, on) ==
    /\ permits[d] # on
    /\ permits' = [permits EXCEPT ![d] = on]
    /\ UNCHANGED <<device, regid>>
    /\ Change

PushTypeOK ==
    /\ device \in Device \union {None} /\ regid \in Device \union {None}
    /\ permits \in [Device -> BOOLEAN \union {None}]
    /\ changes \in 0 .. MaxChange
    /\ used \in [Caller -> SUBSET Device]
    /\ denied \in [Caller -> BOOLEAN]
    /\ \A c \in Caller : pc[c] \in {"permission", "type", "registration", "post"} =>
                            arg[c] \in used[c]

(* A user who has denied the permission on every device that was his since *)
(* the call began gets no push, though he signs in on another device       *)
(* between the reads.                                                      *)
DeniedMeansSilent == pushed = 0

(* Why: the device that is read is one of those the call knows of, so that *)
(* a call that was denied all the time meets a permission that is refused. *)
PushInv ==
    /\ DeniedMeansSilent
    /\ \A c \in Caller : Pushing(c) /\ device # None => device \in used[c]
    /\ \A c \in Caller : denied[c] => \A d \in used[c] : permits[d] = FALSE
    /\ \A c \in Caller : pc[c] \in {"type", "registration", "post"} => ~denied[c]

=============================================================================
