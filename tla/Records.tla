------------------------------- MODULE Records -------------------------------
(***************************************************************************)
(* The records of a user that MongoClient only inserts (ext_mongo/ha.py):  *)
(* add_user_feedback, add_invite_code_usage_record, add_game_result.  Each *)
(* is one insert_one into a store with a unique index on the user and the  *)
(* second of creation.  add_game_result inserts the caller's own dict, in  *)
(* which the driver leaves the _id it has drawn, so that a caller that     *)
(* asks again with the same dict inserts the same _id; the others build a  *)
(* new document each time.  All swallow every exception, which leaves      *)
(* nothing for retry_decorator to retry: only callers do.                  *)
(***************************************************************************)
EXTENDS Coroutines, Integers

CONSTANTS
    Result,     \* dicts given to add_game_result
    Feedback,   \* records the other two are called for
    UserOf,     \* the user each of them is about
    MaxTime     \* bound: seconds that pass

Record == Result \union Feedback

ASSUME RecordsAssumption ==
    /\ Result \intersect Feedback = {}
    /\ None \notin Record /\ None \notin Nat
    /\ MaxTime \in Nat

VARIABLES
    time,       \* the second
    stamp,      \* of each record: create_ts of its document, or None
    drawn,      \* of each record: how many _ids were drawn for it
    stored      \* documents in the stores

records == <<time, stamp, drawn, stored>>

RecordsInit ==
    /\ time = 0
    /\ stamp = [r \in Record |-> None]
    /\ drawn = [r \in Record |-> 0]
    /\ stored = {}

(* The store of game results and those of the others have each an index. *)
SameStore(r, q) == (r \in Result) = (q \in Result)

Document(r) == [of |-> r, id |-> drawn[r], at |-> stamp[r]]

(* DuplicateKeyError, for the _id or for the user and the second *)
Duplicate(r) ==
    \E d \in stored :
        \/ d.of = r /\ d.id = drawn[r]
        \/ SameStore(d.of, r) /\ UserOf[d.of] = UserOf[r] /\ d.at = stamp[r]

(* Mutant: doc = dict(result). *)
NewDocument(r) == TRUE

DrawsId(r) == r \in Feedback \/ drawn[r] = 0

(* Every request brings its own record, and may call again with it. *)
Insert(c, r) ==
    /\ Start(c, "insert")
    /\ arg' = [arg EXCEPT ![c] = r]
    /\ \A o \in Caller : arg[o] # r
    /\ r \in Feedback => stamp[r] = None
    /\ stamp' = [stamp EXCEPT ![r] = time]
    /\ drawn' = IF DrawsId(r) THEN [drawn EXCEPT ![r] = @ + 1] ELSE drawn
    /\ UNCHANGED <<time, stored>>

(* The server runs it; True, or False because the answer is lost. *)
Inserted(c) ==
    /\ pc[c] = "insert"
    /\ ~Duplicate(arg[c])
    /\ stored' = stored \union {Document(arg[c])}
    /\ Return(c)
    /\ UNCHANGED <<time, stamp, drawn>>

(* DuplicateKeyError or a request that was lost: False *)
NotInserted(c) ==
    /\ pc[c] = "insert"
    /\ Return(c)
    /\ UNCHANGED records

Second ==
    /\ time < MaxTime
    /\ time' = time + 1
    /\ UNCHANGED <<pc, arg, stamp, drawn, stored>>

RecordsTypeOK ==
    /\ time \in 0 .. MaxTime
    /\ stamp \in [Record -> {None} \union 0 .. time]
    /\ drawn \in [Record -> Nat]
    /\ stored \subseteq [of : Record, id : Nat, at : 0 .. time]
    /\ \A c \in Caller : pc[c] = "insert" =>
            arg[c] \in Record /\ drawn[arg[c]] > 0 /\ stamp[arg[c]] # None

(* A game result is stored at most once however often its caller asks      *)
(* again, in later seconds too, because it was answered False.             *)
ResultStoredOnce == \A d, e \in stored : d.of = e.of /\ d.of \in Result => d = e

(* Why: a dict has one _id for good, which the store refuses twice. *)
RecordsInv ==
    /\ ResultStoredOnce
    /\ \A r \in Result : drawn[r] <= 1
    /\ \A d \in stored : d.of \in Result => d.id = 1

=============================================================================
