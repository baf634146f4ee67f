------------------------------ MODULE SmsCodes ------------------------------
(***************************************************************************)
(* The short messages with a login code: send_short_message and            *)
(* verify_short_message (infra/sms) for one phone number, with the daily   *)
(* tokens of RedisClient (ext_redis) that limit them.  Every Redis command *)
(* is a step, so calls for the same number interleave between the commands *)
(* of get_daily_token and take_daily_token; the token key expires at       *)
(* midnight, if it has an expiry.                                          *)
(***************************************************************************)
EXTENDS Integers, FiniteSets, FiniteSetsExt

CONSTANTS
    Caller,     \* coroutines that send messages to the number
    Total,      \* messages a day
    None,       \* no key
    Faults,     \* which of FaultKind may happen
    MaxMsg      \* bound: messages delivered in a behaviour

FaultKind == {"lost", "unanswered", "provider", "crash"}

ASSUME ConstantsAssumption ==
    /\ Total \in Nat \ {0}
    /\ None \notin Nat /\ None \notin {"current", "outdated"}
    /\ IsFiniteSet(Caller)
    /\ Faults \subseteq FaultKind
    /\ MaxMsg \in Nat

VARIABLES
    tok,        \* value of the token key, or None
    expires,    \* whether the key has an expiry
    code,       \* the message whose code is verified, or None
    pc,         \* where each caller is
    old,        \* old_remaining of its take_daily_token
    msg,        \* the message it has sent, or None
    verify,     \* the message a verification in progress has read: None,
                \* "current", or "outdated" if it is older than settled
    last,       \* number of messages delivered so far; they are numbered
    settled,    \* newest message stored while no other waited to be, or 0
    today,      \* messages delivered since midnight
    unpaid,     \* of these, those whose sender failed before it took a token
    atOnce,     \* most calls that were in progress at once since midnight
    cut         \* whether the key is one whose call failed before EXPIRE

token == <<tok, expires, cut>>
stored == <<code, settled>>
day == <<today, unpaid, atOnce>>
vars == <<tok, expires, cut, code, settled, pc, old, msg, verify, last,
          today, unpaid, atOnce>>

Pc == {"idle", "exists", "get", "post", "cache",
       "takeExists", "setFirst", "takeGet", "set", "expire"}

Init ==
    /\ tok = None /\ expires = FALSE /\ cut = FALSE
    /\ code = None /\ settled = 0
    /\ pc = [c \in Caller |-> "idle"]
    /\ old = [c \in Caller |-> 0]
    /\ msg = [c \in Caller |-> None]
    /\ verify = None
    /\ last = 0 /\ today = 0 /\ unpaid = 0 /\ atOnce = 0

Active == {c \in Caller : pc[c] # "idle"}

Goto(c, where) == pc' = [pc EXCEPT ![c] = where]

Return(c) ==
    /\ Goto(c, "idle")
    /\ old' = [old EXCEPT ![c] = 0]
    /\ msg' = [msg EXCEPT ![c] = None]

-----------------------------------------------------------------------------
(* send_short_message: is a token left?                                    *)

Send(c) ==
    /\ pc[c] = "idle"
    /\ Goto(c, "exists")
    /\ atOnce' = Max({atOnce, Cardinality(Active) + 1})
    /\ UNCHANGED <<token, stored, old, msg, verify, last, today, unpaid>>

Exists(c) ==
    /\ pc[c] = "exists"
    /\ Goto(c, IF tok = None THEN "post" ELSE "get")
    /\ UNCHANGED <<token, stored, old, msg, verify, last, day>>

(* A key that has expired since EXISTS makes int(None) raise: remaining is *)
(* 0 then, as for a used up token.                                         *)
Get(c) ==
    /\ pc[c] = "get"
    /\ IF tok \in {None, 0}
       THEN Return(c)
       ELSE Goto(c, "post") /\ UNCHANGED <<old, msg>>
    /\ UNCHANGED <<token, stored, verify, last, day>>

(* The code ignores done, but a failed read leaves remaining at 0. *)
CheckFails(c) ==
    /\ "lost" \in Faults
    /\ pc[c] \in {"exists", "get"}
    /\ Return(c)
    /\ UNCHANGED <<token, stored, verify, last, day>>

(* The provider delivers the message and answers with its id. *)
Deliver ==
    /\ last < MaxMsg
    /\ last' = last + 1
    /\ today' = today + 1

Post(c) ==
    /\ pc[c] = "post"
    /\ Deliver
    /\ msg' = [msg EXCEPT ![c] = last']
    /\ Goto(c, "cache")
    /\ UNCHANGED <<token, stored, old, verify, unpaid, atOnce>>

(* An error, an invalid number, or no answer after the message went out:   *)
(* (-1, False) or (-2, False).                                             *)
PostFails(c) ==
    /\ "provider" \in Faults
    /\ pc[c] = "post"
    /\ Return(c)
    /\ \/ Deliver /\ unpaid' = unpaid + 1
       \/ UNCHANGED <<last, today, unpaid>>
    /\ UNCHANGED <<token, stored, verify, atOnce>>

(* If no other message waits to be stored, none that is older will be. *)
Settle(c) ==
    settled' = IF \E o \in Caller \ {c} : pc[o] = "cache"
               THEN settled ELSE msg[c]

(* Mutant: SET NX, a message that is stored stays. *)
StoreOnce(c) ==
    /\ code' = IF code = None THEN msg[c] ELSE code
    /\ Settle(c)

(* SET phone_number {msg_id, expired} *)
Store(c) ==
    /\ code' = msg[c]
    /\ Settle(c)

Cache(c) ==
    /\ pc[c] = "cache"
    /\ Store(c)
    /\ Goto(c, "takeExists")
    /\ UNCHANGED <<token, old, msg, verify, last, day>>

CacheFails(c) ==
    /\ pc[c] = "cache"
    /\ \/ "lost" \in Faults /\ UNCHANGED stored
       \/ "unanswered" \in Faults /\ Store(c)
    /\ unpaid' = unpaid + 1
    /\ Return(c)
    /\ UNCHANGED <<token, verify, last, today, atOnce>>

-----------------------------------------------------------------------------
(* take_daily_token                                                        *)

TakeExists(c) ==
    /\ pc[c] = "takeExists"
    /\ Goto(c, IF tok = None THEN "setFirst" ELSE "takeGet")
    /\ UNCHANGED <<token, stored, old, msg, verify, last, day>>

(* SET makes a key without expiry out of any key. *)
SetToken(n) ==
    /\ tok' = n
    /\ expires' = FALSE
    /\ cut' = FALSE

(* Mutant: the first message is free. *)
SetFirstUncharged(c) ==
    /\ pc[c] = "setFirst"
    /\ SetToken(Total)
    /\ Goto(c, "expire")
    /\ UNCHANGED <<stored, old, msg, verify, last, day>>

SetFirst(c) ==
    /\ pc[c] = "setFirst"
    /\ SetToken(Total - 1)
    /\ Goto(c, "expire")
    /\ UNCHANGED <<stored, old, msg, verify, last, day>>

(* The key expired since EXISTS, or nothing is left: no token is taken,    *)
(* and the message counts as sent all the same.                            *)
TakeNothing(c) ==
    /\ pc[c] = "takeGet"
    /\ tok \in {None, 0}
    /\ Return(c)
    /\ UNCHANGED <<token, stored, verify, last, day>>

TakeGet(c) ==
    /\ pc[c] = "takeGet"
    /\ tok \notin {None, 0}
    /\ old' = [old EXCEPT ![c] = tok]
    /\ Goto(c, "set")
    /\ UNCHANGED <<token, stored, msg, verify, last, day>>

(* Mutant: what was read is written back. *)
SetUnchanged(c) ==
    /\ pc[c] = "set"
    /\ SetToken(old[c])
    /\ Goto(c, "expire")
    /\ UNCHANGED <<stored, old, msg, verify, last, day>>

(* Mutant: the expiry is left to the first message of the day. *)
SetWithoutExpire(c) ==
    /\ pc[c] = "set"
    /\ SetToken(old[c] - 1)
    /\ Return(c)
    /\ UNCHANGED <<stored, verify, last, day>>

Set(c) ==
    /\ pc[c] = "set"
    /\ SetToken(old[c] - 1)
    /\ Goto(c, "expire")
    /\ UNCHANGED <<stored, old, msg, verify, last, day>>

Expire(c) ==
    /\ pc[c] = "expire"
    /\ expires' = (tok # None)
    /\ cut' = FALSE
    /\ Return(c)
    /\ UNCHANGED <<tok, stored, verify, last, day>>

(* The call ends without its EXPIRE. *)
LeaveUnexpired ==
    /\ cut' = (tok # None /\ ~expires)
    /\ UNCHANGED <<tok, expires>>

(* A command of take_daily_token raises, whether the server ran it or not. *)
(* The caller is told that the message was sent.                           *)
TakeFails(c) ==
    /\ \/ /\ "lost" \in Faults
          /\ pc[c] \in {"takeExists", "takeGet", "setFirst", "set"}
          /\ UNCHANGED token
          /\ unpaid' = unpaid + 1
       \/ /\ "lost" \in Faults
          /\ pc[c] = "expire"
          /\ LeaveUnexpired
          /\ UNCHANGED unpaid
       \/ /\ "unanswered" \in Faults
          /\ pc[c] \in {"setFirst", "set"}
          /\ tok' = IF pc[c] = "set" THEN old[c] - 1 ELSE Total - 1
          /\ expires' = FALSE /\ cut' = TRUE
          /\ UNCHANGED unpaid
    /\ Return(c)
    /\ UNCHANGED <<stored, verify, last, today, atOnce>>

(* The request is cancelled or the process dies. *)
Crash(c) ==
    /\ "crash" \in Faults
    /\ pc[c] # "idle"
    /\ unpaid' = IF pc[c] \in {"cache", "takeExists", "setFirst", "takeGet", "set"}
                 THEN unpaid + 1 ELSE unpaid
    /\ IF pc[c] = "expire" THEN LeaveUnexpired ELSE UNCHANGED token
    /\ Return(c)
    /\ UNCHANGED <<stored, verify, last, today, atOnce>>

-----------------------------------------------------------------------------
(* verify_short_message                                                    *)

(* The user types a code: the id of the message is read and, if less than *)
(* SM_PERIOD_OF_VALIDITY has passed since it was stored, the provider is   *)
(* asked about it.                                                         *)
Verify ==
    /\ verify = None /\ code # None
    /\ verify' = IF code >= settled THEN "current" ELSE "outdated"
    /\ UNCHANGED <<token, stored, pc, old, msg, last, day>>

(* The period is over, or the provider answers or fails. *)
Verdict ==
    /\ verify # None
    /\ verify' = None
    /\ UNCHANGED <<token, stored, pc, old, msg, last, day>>

Midnight ==
    /\ IF expires
       THEN tok' = None /\ expires' = FALSE /\ UNCHANGED cut
       ELSE UNCHANGED token
    /\ today' = 0 /\ unpaid' = 0
    /\ atOnce' = Cardinality(Active)
    /\ UNCHANGED <<stored, pc, old, msg, verify, last>>

Progress(c) ==
    \/ Exists(c) \/ Get(c) \/ Post(c) \/ Cache(c)
    \/ TakeExists(c) \/ SetFirst(c) \/ TakeNothing(c) \/ TakeGet(c)
    \/ Set(c) \/ Expire(c)

Fault(c) ==
    CheckFails(c) \/ PostFails(c) \/ CacheFails(c) \/ TakeFails(c) \/ Crash(c)

Next ==
    \/ \E c \in Caller : Send(c) \/ Progress(c) \/ Fault(c)
    \/ Verify \/ Verdict \/ Midnight

Spec == Init /\ [][Next]_vars

(* Redis and the provider answer or time out, and there is a next day. *)
FairSpec ==
    /\ Spec
    /\ \A c \in Caller : WF_vars(Progress(c))
    /\ WF_vars(Midnight)

-----------------------------------------------------------------------------
(* Types; a call carries a message exactly from its delivery on, and the   *)
(* token stays within the day's total.                                     *)
TypeOK ==
    /\ tok \in {None} \union 0 .. Total - 1
    /\ expires \in BOOLEAN /\ cut \in BOOLEAN
    /\ expires => tok # None /\ ~cut
    /\ atOnce \in Nat /\ Cardinality(Active) <= atOnce
    /\ pc \in [Caller -> Pc]
    /\ old \in [Caller -> 0 .. Total - 1]
    /\ \A c \in Caller : pc[c] = "set" => old[c] > 0
    /\ msg \in [Caller -> {None} \union 1 .. last]
    /\ \A c \in Caller : msg[c] = None <=> pc[c] \in {"idle", "exists", "get", "post"}
    /\ code \in {None} \union 1 .. last
    /\ verify \in {None, "current", "outdated"}
    /\ last \in 0 .. MaxMsg /\ settled \in 0 .. last
    /\ today \in 0 .. last /\ unpaid \in Nat

(* A number is sent no more messages a day than the total, and those whose *)
(* calls failed before they took a token: neither midnight between two     *)
(* commands nor a token key that lost its expiry gives any away.  Two      *)
(* calls at once do, and not any number: a call can restore at most the    *)
(* tokens that were taken since it read, once for each token.  How many    *)
(* coroutines there are in all does not matter.                            *)
QuotaKept ==
    /\ atOnce <= 1 => today <= Total + unpaid
    /\ atOnce = 2 => today <= (Total * (Total + 3)) \div 2 + unpaid

(* The token key has an expiry whenever no take_daily_token is between its *)
(* SET and its EXPIRE, however the calls overlap, unless one has failed    *)
(* there: the number gets its messages back the next day.                  *)
TokenExpires ==
    ~cut /\ (\A c \in Caller : pc[c] # "expire") => expires = (tok # None)

(* A number that has used up its messages can send again some day, unless  *)
(* a call has failed before its EXPIRE.                                    *)
QuotaReturns == tok = 0 ~> tok # 0 \/ cut

(* The code that is checked is never one of an older message than one that *)
(* was stored when no other was waiting: only calls that overlap can leave *)
(* the older of their messages behind.                                     *)
CurrentCodeChecked == verify # "outdated"

-----------------------------------------------------------------------------
(* Why they hold: the invariant the proofs are about.                      *)

(* What is stored, or waits to be, is not older than what is settled. *)
Ordered ==
    /\ code # None => code >= settled
    /\ \A c \in Caller : pc[c] = "cache" => msg[c] >= settled
    /\ CurrentCodeChecked

(* The tokens that are left; a missing key stands for all of them. *)
Left == IF tok = None THEN Total ELSE tok

Balanced == today + Left <= Total + unpaid

(* The messages of the day, where the only call is: between the delivery  *)
(* and the SET its own message is not taken from the tokens yet.           *)
Accounted(c) ==
    /\ pc[c] \in {"exists", "get", "post", "expire"} => Balanced
    /\ pc[c] = "post" => today < Total + unpaid
    /\ pc[c] \in {"cache", "takeExists", "setFirst", "takeGet", "set"} =>
          today + Left <= Total + unpaid + 1 /\ today <= Total + unpaid
    /\ pc[c] = "setFirst" => today <= unpaid + 1
    /\ pc[c] = "takeGet" => (tok = None => today <= unpaid)
    /\ pc[c] = "set" => today + old[c] <= Total + unpaid + 1

Alone ==
    /\ \A c, d \in Caller : pc[c] # "idle" /\ pc[d] # "idle" => c = d
    /\ \A c \in Caller : pc[c] # "idle" => Accounted(c)
    /\ (\A c \in Caller : pc[c] = "idle") => Balanced

(* Two calls at once.  The tokens that caller c will leave when it writes *)
(* the key; none if it is to write what it reads later, and -1 if nothing. *)
Writes(c) ==
    CASE pc[c] = "setFirst" -> Total - 1
      [] pc[c] = "set" -> old[c] - 1
      [] pc[c] \in {"post", "cache", "takeExists", "takeGet"} -> 0
      [] OTHER -> -1

(* At least those that it would leave if it read them now. *)
Holds(c) == Max({Writes(c), Left - 1})

(* Whether its next message is still to be delivered, or was before *)
(* midnight and finds no token to take.                             *)
Owes(c) ==
    \/ pc[c] \in {"idle", "exists", "get", "post", "expire"}
    \/ pc[c] = "takeGet" /\ tok = None

(* Twice the messages that follow if x and y are held: the smaller number *)
(* is used up while the larger one, h, waits; from there on two callers    *)
(* can send h * (h + 3) \div 2.                                            *)
Sends(x, y) == 2 * Min({x, y}) + Max({x, y}) * (Max({x, y}) + 3)

Due(c) == IF Owes(c) THEN 2 ELSE 0

(* Twice the messages that two callers can still send today. *)
Ahead(c, d) == Sends(Holds(c), Holds(d)) + Due(c) + Due(d)

Pair(c, d) ==
    /\ c # d /\ \A e \in Caller \ {c, d} : pc[e] = "idle"
    /\ 2 * today + Ahead(c, d) <= Total * (Total + 3) + 2 * unpaid

(* With one caller there are never two calls. *)
Paired ==
    IF \A c, d \in Caller : c = d THEN atOnce <= 1
    ELSE atOnce <= 2 => \E c, d \in Caller : Pair(c, d)

SmsInv ==
    /\ TypeOK /\ TokenExpires /\ Ordered
    /\ atOnce <= 1 => Alone
    /\ Paired

=============================================================================
