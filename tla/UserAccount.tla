----------------------------- MODULE UserAccount -----------------------------
(***************************************************************************)
(* User accounts in MongoClient (ext_mongo/ha.py, lines 359-652): one      *)
(* document in user_profile, or, for a user that deleted the account and   *)
(* registered again, one more in user_profile_for_bad_man, which then      *)
(* hides the first.  Every update is an update_one with upsert: it changes *)
(* one document its query matches, or else inserts one with what the query *)
(* and the update say, so a field the two do not name is missing.  Only    *)
(* uid has a unique index, where a missing uid is a value like any other.  *)
(* Reads go to a secondary, which may be behind.                           *)
(***************************************************************************)
EXTENDS Integers, FiniteSets, Sequences

CONSTANTS
    Caller,     \* coroutines, each running one operation at a time
    Account,    \* phone numbers
    Uid,        \* what new_uid() may return
    Ops,        \* operations the routers call
    Faults,     \* which of FaultKind may happen
    MaxLag,     \* bound: writes a secondary may be behind
    None        \* a missing field, no document

OpKind == {"register", "recreate", "profile", "online", "device",
           "delete", "reactivate"}

FaultKind == {"read", "lost", "unanswered"}

ASSUME ConstantsAssumption ==
    /\ Ops \subseteq OpKind
    /\ Faults \subseteq FaultKind
    /\ MaxLag \in Nat
    /\ None \notin Account \union Uid

VARIABLES
    main,       \* documents of user_profile
    second,     \* documents of user_profile_for_bad_man
    lagging,    \* earlier states a secondary may still show
    pc,         \* where each caller is
    call,       \* its operation, or None
    tries,      \* attempts of init_user_account, see retry_decorator
    back        \* is_recreated, as it has read it

stores == <<main, second>>
vars == <<main, second, lagging, pc, call, tries, back>>

Pc == {"idle", "recreated", "update", "insert"}

(* What queries ask for; aged: 15 days have passed since update_ts.        *)
Blank == [uid |-> None, acc |-> None, deleted |-> FALSE, aged |-> FALSE]

ByUid == {"profile", "device"}

(* The arguments of each operation.  In init_user_account the uid may be   *)
(* left to new_uid().                                                      *)
Calls == { x \in [op : Ops, acc : Account \union {None}, uid : Uid \union {None}] :
             /\ x.acc = None <=> x.op \in ByUid
             /\ x.op \in ByUid => x.uid # None
             /\ x.uid # None => x.op \in ByUid \union {"recreate"} }

ASSUME NoneIsNoCall == None \notin Calls

View == [main |-> main, second |-> second]

Visible == {View} \union {lagging[i] : i \in DOMAIN lagging}

Init ==
    /\ main = {} /\ second = {} /\ lagging = <<>>
    /\ pc = [c \in Caller |-> "idle"]
    /\ call = [c \in Caller |-> None]
    /\ tries = [c \in Caller |-> 0]
    /\ back = [c \in Caller |-> FALSE]

-----------------------------------------------------------------------------
(* The questions routers ask first, answered from the state v. *)

Of(acc, docs) == {d \in docs : d.acc = acc}

Created(v, acc) == \E d \in Of(acc, v.main) : ~d.deleted

Deleted(v, acc) == \E d \in Of(acc, v.main) : d.deleted

Expired(v, acc) == \A d \in Of(acc, v.main) : d.deleted => d.aged

Recreated(v, x) ==
    \E d \in v.second :
        ~d.deleted /\ IF x.op \in ByUid THEN d.uid = x.uid ELSE d.acc = x.acc

(* The routers register an unknown account, with a new uid, and for a      *)
(* deleted one they may reuse the uid that is_user_account_deleted hands   *)
(* back; an account goes offline at any time, also after its deletion.     *)
Asked(v, x) ==
    CASE x.op = "register"   -> Of(x.acc, v.main) = {}
      [] x.op = "recreate"   -> /\ Deleted(v, x.acc)
                                /\ x.uid \in {None} \union {d.uid : d \in Of(x.acc, v.main)}
      [] x.op = "delete"     -> Created(v, x.acc)
      [] x.op = "reactivate" -> Deleted(v, x.acc) /\ ~Expired(v, x.acc)
      [] x.op = "online"     -> Of(x.acc, v.main) # {}
      [] OTHER               -> \E d \in v.main \union v.second : d.uid = x.uid

Draws(x) == x.op \in {"register", "recreate"} /\ x.uid = None

(* What new_uid() may return: nothing that is in use or may still be read. *)
Fresh ==
    Uid \ ( {d.uid : d \in UNION {v.main \union v.second : v \in Visible}}
            \union {call[o].uid : o \in {o \in Caller : call[o] # None}} )

(* Bound: a uid is left for every call that draws one, though not for all  *)
(* of its attempts; one that finds none can only be lost.                  *)
UidsLeft ==
    Cardinality(Fresh) > Cardinality({o \in Caller : call[o] # None /\ Draws(call[o])})

Request(c, x) ==
    /\ pc[c] = "idle"
    /\ Draws(x) => UidsLeft
    /\ \E v \in Visible : Asked(v, x)
    /\ call' = [call EXCEPT ![c] = x]
    /\ pc' = [pc EXCEPT ![c] = IF x.op \in {"profile", "online"} THEN "recreated" ELSE "update"]
    /\ UNCHANGED <<stores, lagging, tries, back>>

Return(c) ==
    /\ pc' = [pc EXCEPT ![c] = "idle"]
    /\ call' = [call EXCEPT ![c] = None]
    /\ tries' = [tries EXCEPT ![c] = 0]
    /\ back' = [back EXCEPT ![c] = FALSE]

(* is_user_account_recreated decides on the store; if it fails, it answers *)
(* False like for a user that never came back.                             *)
ReadRecreated(c) ==
    /\ pc[c] = "recreated"
    /\ \/ \E v \in Visible : back' = [back EXCEPT ![c] = Recreated(v, call[c])]
       \/ "read" \in Faults /\ back' = [back EXCEPT ![c] = FALSE]
    /\ pc' = [pc EXCEPT ![c] = "update"]
    /\ UNCHANGED <<stores, lagging, call, tries>>

-----------------------------------------------------------------------------
(* update_one(query, update, upsert=True) *)

(* Mutant: deleted documents are not left out. *)
MatchesDeleted(c, d) ==
    LET x == call[c] IN
    IF x.op \in ByUid THEN d.uid = x.uid ELSE d.acc = x.acc

Matches(c, d) ==
    LET x == call[c] IN
    /\ IF x.op \in ByUid THEN d.uid = x.uid ELSE d.acc = x.acc
    /\ x.op \in ByUid \union {"online"} => ~d.deleted

(* The document d with what the query and the update of c say; a new       *)
(* account gets the uid u.                                                 *)
Updated(c, d, u) ==
    LET x == call[c] IN
    CASE x.op \in {"register", "recreate"} -> [Blank EXCEPT !.uid = u, !.acc = x.acc]
      [] x.op \in ByUid                    -> [d EXCEPT !.uid = x.uid, !.aged = FALSE]
      [] x.op = "online"                   -> [d EXCEPT !.acc = x.acc, !.aged = FALSE]
      [] x.op \in {"delete", "reactivate"} ->
           [d EXCEPT !.acc = x.acc, !.deleted = (x.op = "delete"), !.aged = FALSE]

(* Mutant: everything goes to user_profile. *)
OnlyMain(c) == FALSE

UsesSecond(c) ==
    \/ call[c].op = "recreate"
    \/ call[c].op \in {"profile", "online"} /\ back[c]

Store(c) == IF UsesSecond(c) THEN second ELSE main

(* The uid for init_user_account: the one it was given, or a new one for   *)
(* each attempt.                                                           *)
Draw(c, u) == IF Draws(call[c]) THEN u \in Fresh ELSE u = call[c].uid

(* In place of the document d of the store, or as a new one if d is Blank. *)
Put(c, d, new) ==
    LET rest == Store(c) \ {d} IN
    /\ \A e \in rest : e.uid # new.uid
    /\ IF UsesSecond(c)
       THEN second' = rest \union {new} /\ UNCHANGED main
       ELSE main' = rest \union {new} /\ UNCHANGED second
    /\ LET longer == Append(lagging, View)
       IN  lagging' = IF Len(longer) > MaxLag THEN Tail(longer) ELSE longer

(* What the server does with the update, d being the document it found. *)
Apply(c, d) == \E u \in Uid \union {None} : Draw(c, u) /\ Put(c, d, Updated(c, d, u))

FindMatch(c, d) ==
    \/ pc[c] = "update" /\ d \in Store(c) /\ Matches(c, d)
    \/ pc[c] = "insert" /\ d = Blank

Updating(c) == pc[c] \in {"update", "insert"}

Update(c) ==
    /\ Updating(c)
    /\ \E d \in Store(c) \union {Blank} : FindMatch(c, d) /\ Apply(c, d)
    /\ Return(c)

(* Nothing matches: the server is going to insert a document.  The index   *)
(* on the account is not unique and does not stop it if meanwhile another  *)
(* was inserted.                                                           *)
MatchNothing(c) ==
    /\ pc[c] = "update"
    /\ \A d \in Store(c) : ~Matches(c, d)
    /\ pc' = [pc EXCEPT ![c] = "insert"]
    /\ UNCHANGED <<stores, lagging, call, tries, back>>

(* DuplicateKeyError; nothing retries it. *)
Duplicate(c) ==
    /\ Updating(c)
    /\ \E d \in Store(c) \union {Blank} :
         /\ FindMatch(c, d)
         /\ \E e \in Store(c) \ {d} : e.uid = Updated(c, d, call[c].uid).uid
    /\ ~Draws(call[c])
    /\ Return(c)
    /\ UNCHANGED <<stores, lagging>>

(* Mutant: off by one. *)
TimedOutOnceMore(c) ==
    IF call[c].op \in {"register", "recreate"} /\ tries[c] <= 2
    THEN /\ tries' = [tries EXCEPT ![c] = @ + 1]
         /\ pc' = [pc EXCEPT ![c] = "update"]
         /\ UNCHANGED <<call, back>>
    ELSE Return(c)

(* A timeout ends the call, but init_user_account is tried three times. *)
TimedOut(c) ==
    IF call[c].op \in {"register", "recreate"} /\ tries[c] < 2
    THEN /\ tries' = [tries EXCEPT ![c] = @ + 1]
         /\ pc' = [pc EXCEPT ![c] = "update"]
         /\ UNCHANGED <<call, back>>
    ELSE Return(c)

Lost(c) ==
    /\ "lost" \in Faults /\ Updating(c)
    /\ TimedOut(c)
    /\ UNCHANGED <<stores, lagging>>

(* The update is done, but its answer does not come in time. *)
Unanswered(c) ==
    /\ "unanswered" \in Faults /\ Updating(c)
    /\ \E d \in Store(c) \union {Blank} : FindMatch(c, d) /\ Apply(c, d)
    /\ TimedOut(c)

(* 15 days pass without an update. *)
Aging ==
    /\ \E d \in main : d.deleted /\ ~d.aged
    /\ main' = {[d EXCEPT !.aged = d.deleted] : d \in main}
    /\ lagging' = <<>>
    /\ UNCHANGED <<second, pc, call, tries, back>>

Replicate ==
    /\ lagging # <<>>
    /\ lagging' = Tail(lagging)
    /\ UNCHANGED <<stores, pc, call, tries, back>>

Next ==
    \/ \E c \in Caller :
         \/ \E x \in Calls : Request(c, x)
         \/ ReadRecreated(c)
         \/ Update(c) \/ MatchNothing(c) \/ Duplicate(c) \/ Lost(c) \/ Unanswered(c)
    \/ Aging \/ Replicate

Spec == Init /\ [][Next]_vars

-----------------------------------------------------------------------------
Docs == [uid : Uid \union {None}, acc : Account \union {None}, deleted : BOOLEAN,
         aged : BOOLEAN]

(* Types; a uid belongs to one document of a store, and only deleted       *)
(* accounts are past their 15 days.                                        *)
TypeOK ==
    /\ main \subseteq Docs /\ second \subseteq Docs
    /\ \A docs \in {main, second} : \A d, e \in docs : d.uid = e.uid => d = e
    /\ \A d \in main : d.aged => d.deleted
    /\ \A d \in second : ~d.deleted
    /\ lagging \in Seq([main : SUBSET Docs, second : SUBSET Docs])
    /\ Len(lagging) <= MaxLag
    /\ pc \in [Caller -> Pc]
    /\ call \in [Caller -> Calls \union {None}]
    /\ \A c \in Caller : call[c] = None <=> pc[c] = "idle"
    /\ tries \in [Caller -> 0 .. 2]
    /\ back \in [Caller -> BOOLEAN]

(* A deleted account stays as it is while its user goes on under a new     *)
(* one, and its 15 days are not begun anew, until registering, deleting or *)
(* reactivating it writes to it.                                           *)
OldDataKept ==
    [][ \A d \in main : d.deleted =>
          \/ main' \intersect {d, [d EXCEPT !.aged = TRUE]} # {}
          \/ \E c \in Caller : /\ call[c] # None
                               /\ call[c].op \in {"register", "delete", "reactivate"}
                               /\ call[c].acc = d.acc ]_vars

(* Once all documents of an account are deleted, only registering or       *)
(* reactivating it gives it one that is not; an online status that is set  *)
(* late leaves one without a uid, to which nobody signs in.                *)
NoRevival ==
    [][ \A acc \in Account :
          Deleted(View, acc) /\ ~Created(View, acc) /\ Created(View', acc) =>
          \E c \in Caller :
             /\ call[c] # None /\ call[c].acc = acc
             /\ \/ call[c].op \in {"register", "reactivate"}
                \/ /\ call[c].op = "online"
                   /\ \A d \in Of(acc, main') : ~d.deleted => d.uid = None ]_vars

=============================================================================
