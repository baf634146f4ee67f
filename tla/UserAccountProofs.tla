-------------------------- MODULE UserAccountProofs --------------------------
(***************************************************************************)
(* Theorems about UserAccount for any number of callers, accounts and uids *)
(* and whatever fails or lags behind.                                      *)
(***************************************************************************)
EXTENDS UserAccount, TLAPS, SequenceTheorems

USE DEF stores

(* What a request looks like. *)
LEMMA CallFields ==
    ASSUME NEW x \in Calls
    PROVE  /\ x.op \in OpKind
           /\ x.acc \in Account \union {None} /\ x.uid \in Uid \union {None}
           /\ x.acc = None <=> x.op \in ByUid
  BY ConstantsAssumption DEF Calls

LEMMA BlankIsDoc == Blank \in Docs /\ ~Blank.deleted /\ Blank.acc = None
  BY DEF Blank, Docs

(* What an update leaves in place of d. *)
LEMMA UpdatedFields ==
    ASSUME NEW c \in Caller, call[c] \in Calls,
           NEW d \in Docs, NEW u \in Uid \union {None}
    PROVE  /\ Updated(c, d, u) \in Docs
           /\ ~Updated(c, d, u).aged
           /\ call[c].op \in {"register", "recreate"} =>
                /\ Updated(c, d, u).uid = u /\ Updated(c, d, u).acc = call[c].acc
                /\ ~Updated(c, d, u).deleted
           /\ call[c].op \in ByUid =>
                /\ Updated(c, d, u).acc = d.acc
                /\ Updated(c, d, u).deleted = d.deleted
           /\ call[c].op = "online" =>
                /\ Updated(c, d, u).acc = call[c].acc /\ Updated(c, d, u).uid = d.uid
                /\ Updated(c, d, u).deleted = d.deleted
           /\ call[c].op \in {"delete", "reactivate"} =>
                /\ Updated(c, d, u).acc = call[c].acc
                /\ Updated(c, d, u).deleted = (call[c].op = "delete")
<1> DEFINE x == call[c]
<1>1. x \in Calls  OBVIOUS
<1> HIDE DEF x
<1> USE CallFields, <1>1
<1>2. CASE x.op \in {"register", "recreate"}
  BY <1>2 DEF Updated, Blank, Docs, ByUid, x
<1>3. CASE x.op \in ByUid
  BY <1>3 DEF Updated, Docs, ByUid, x
<1>4. CASE x.op = "online"
  BY <1>4 DEF Updated, Docs, ByUid, x
<1>5. CASE x.op \in {"delete", "reactivate"}
  BY <1>5 DEF Updated, Docs, ByUid, x
<1>6. QED  BY <1>2, <1>3, <1>4, <1>5 DEF OpKind, ByUid, x

(* A write names the state it replaces as one that may still be read. *)
LEMMA LongerTypes ==
    ASSUME TypeOK,
           lagging' = LET longer == Append(lagging, View)
                      IN  IF Len(longer) > MaxLag THEN Tail(longer) ELSE longer
    PROVE  /\ lagging' \in Seq([main : SUBSET Docs, second : SUBSET Docs])
           /\ Len(lagging') <= MaxLag
<1> DEFINE S == [main : SUBSET Docs, second : SUBSET Docs]
           longer == Append(lagging, View)
<1>1. lagging \in Seq(S) /\ View \in S  BY DEF TypeOK, View
<1>2. longer \in Seq(S) /\ Len(longer) = Len(lagging) + 1
  <2> HIDE DEF S
  <2>1. QED  BY <1>1
<1>3. Tail(longer) \in Seq(S) /\ Len(Tail(longer)) = Len(lagging)
  <2>1. Len(longer) # 0
    <3>1. Len(lagging) \in Nat  BY <1>1
    <3> HIDE DEF longer
    <3>2. QED  BY <1>2, <3>1
  <2> HIDE DEF longer, S
  <2>2. QED  BY ONLY <1>2, <2>1, EmptySeq, HeadTailProperties
<1>4. lagging' = IF Len(longer) > MaxLag THEN Tail(longer) ELSE longer
  OBVIOUS
<1>5. Len(lagging) \in Nat /\ Len(lagging) <= MaxLag /\ MaxLag \in Nat
  BY ConstantsAssumption DEF TypeOK
<1> HIDE DEF longer, S
<1>6. CASE Len(longer) > MaxLag
  <2>1. lagging' = Tail(longer)  BY <1>4, <1>6
  <2>2. QED  BY <1>3, <1>5, <2>1 DEF S
<1>7. CASE ~(Len(longer) > MaxLag)
  <2>1. lagging' = longer  BY <1>4, <1>7
  <2>2. Len(longer) \in Nat  BY <1>2, <1>5
  <2>3. Len(lagging') <= MaxLag  BY <1>5, <1>7, <2>1, <2>2
  <2>4. QED  BY <1>2, <2>1, <2>3 DEF S
<1>8. QED  BY <1>6, <1>7

(* What the server finds for an update, and that the call asks for one. *)
LEMMA FoundFields ==
    ASSUME TypeOK, NEW c \in Caller, Updating(c),
           NEW d \in Store(c) \union {Blank}, FindMatch(c, d)
    PROVE  /\ call[c] \in Calls
           /\ d \in Docs
           /\ d \in Store(c) => d \in main \union second
           /\ d = Blank \/ d \in Store(c)
  BY BlankIsDoc DEF TypeOK, Updating, Store

(* An update leaves documents, each with a uid of its own, and no deleted  *)
(* one in the second collection.                                           *)
LEMMA ApplyTypes ==
    ASSUME TypeOK, NEW c \in Caller, Updating(c),
           NEW d \in Store(c) \union {Blank}, FindMatch(c, d), Apply(c, d)
    PROVE  /\ main' \subseteq Docs /\ second' \subseteq Docs
           /\ \A docs \in {main', second'} : \A a, b \in docs : a.uid = b.uid => a = b
           /\ \A e \in main' : e.aged => e.deleted
           /\ \A e \in second' : ~e.deleted
           /\ lagging' \in Seq([main : SUBSET Docs, second : SUBSET Docs])
           /\ Len(lagging') <= MaxLag
<1>1. PICK u \in Uid \union {None} : Draw(c, u) /\ Put(c, d, Updated(c, d, u))
  BY DEF Apply
<1> DEFINE new == Updated(c, d, u)
           rest == Store(c) \ {d}
<1>2. call[c] \in Calls /\ d \in Docs /\ (d = Blank \/ d \in Store(c))
  BY FoundFields
<1>3. new \in Docs /\ ~new.aged  BY <1>2, UpdatedFields
<1>4. UsesSecond(c) => ~new.deleted
  <2>1. ASSUME UsesSecond(c) PROVE ~d.deleted
    BY <2>1, <1>2, BlankIsDoc DEF TypeOK, Store
  <2>2. ASSUME UsesSecond(c)
        PROVE  call[c].op \in {"recreate", "profile", "online"}
    BY <2>2 DEF UsesSecond
  <2>3. QED  BY <1>2, <2>1, <2>2, UpdatedFields DEF ByUid
<1> HIDE DEF new
<1>5. /\ \A e \in rest : e.uid # new.uid
      /\ IF UsesSecond(c)
         THEN second' = rest \union {new} /\ UNCHANGED main
         ELSE main' = rest \union {new} /\ UNCHANGED second
  BY <1>1 DEF Put, new
<1>6. /\ lagging' \in Seq([main : SUBSET Docs, second : SUBSET Docs])
      /\ Len(lagging') <= MaxLag
  BY <1>1, LongerTypes DEF Put
<1>7. CASE UsesSecond(c)
  BY <1>3, <1>4, <1>5, <1>6, <1>7 DEF TypeOK, Store
<1>8. CASE ~UsesSecond(c)
  BY <1>3, <1>4, <1>5, <1>6, <1>8 DEF TypeOK, Store
<1>9. QED  BY <1>7, <1>8

LEMMA ReturnTypes ==
    ASSUME TypeOK, NEW c \in Caller, Return(c)
    PROVE  /\ pc' \in [Caller -> Pc]
           /\ call' \in [Caller -> Calls \union {None}]
           /\ \A o \in Caller : call'[o] = None <=> pc'[o] = "idle"
           /\ tries' \in [Caller -> 0 .. 2]
           /\ back' \in [Caller -> BOOLEAN]
  BY DEF TypeOK, Return, Pc

LEMMA TimedOutTypes ==
    ASSUME TypeOK, NEW c \in Caller, Updating(c), TimedOut(c)
    PROVE  /\ pc' \in [Caller -> Pc]
           /\ call' \in [Caller -> Calls \union {None}]
           /\ \A o \in Caller : call'[o] = None <=> pc'[o] = "idle"
           /\ tries' \in [Caller -> 0 .. 2]
           /\ back' \in [Caller -> BOOLEAN]
<1>1. CASE call[c].op \in {"register", "recreate"} /\ tries[c] < 2
  <2>1. tries[c] + 1 \in 0 .. 2  BY <1>1 DEF TypeOK
  <2>2. QED  BY <1>1, <2>1 DEF TypeOK, TimedOut, Pc, Updating
<1>2. CASE ~(call[c].op \in {"register", "recreate"} /\ tries[c] < 2)
  BY <1>2, ReturnTypes DEF TimedOut
<1>3. QED  BY <1>1, <1>2

LEMMA TypeInit == Init => TypeOK
  BY ConstantsAssumption DEF Init, TypeOK, Pc

LEMMA TypeNext == TypeOK /\ [Next]_vars => TypeOK'
<1> SUFFICES ASSUME TypeOK, [Next]_vars PROVE TypeOK'  OBVIOUS
<1>1. ASSUME NEW c \in Caller, NEW x \in Calls, Request(c, x) PROVE TypeOK'
  BY <1>1, NoneIsNoCall DEF Request, TypeOK, Pc
<1>2. ASSUME NEW c \in Caller, ReadRecreated(c) PROVE TypeOK'
  <2>1. back' \in [Caller -> BOOLEAN]
    <3>1. CASE back' = [back EXCEPT ![c] = FALSE]  BY <3>1 DEF TypeOK
    <3>2. ASSUME NEW v \in Visible, back' = [back EXCEPT ![c] = Recreated(v, call[c])]
          PROVE  back' \in [Caller -> BOOLEAN]
      <4> DEFINE yes == Recreated(v, call[c])
      <4>1. yes \in BOOLEAN  BY DEF Recreated
      <4>2. back' = [back EXCEPT ![c] = yes]  BY <3>2
      <4> HIDE DEF yes
      <4>3. QED  BY <4>1, <4>2 DEF TypeOK
    <3>3. QED  BY <1>2, <3>1, <3>2 DEF ReadRecreated
  <2>2. QED  BY <1>2, <2>1 DEF ReadRecreated, TypeOK, Pc
<1>3. ASSUME NEW c \in Caller, Update(c) PROVE TypeOK'
  BY <1>3, ApplyTypes, ReturnTypes DEF Update, TypeOK
<1>4. ASSUME NEW c \in Caller, MatchNothing(c) PROVE TypeOK'
  BY <1>4 DEF MatchNothing, TypeOK, Pc
<1>5. ASSUME NEW c \in Caller, Duplicate(c) PROVE TypeOK'
  BY <1>5, ReturnTypes DEF Duplicate, TypeOK
<1>6. ASSUME NEW c \in Caller, Lost(c) PROVE TypeOK'
  BY <1>6, TimedOutTypes DEF Lost, TypeOK
<1>7. ASSUME NEW c \in Caller, Unanswered(c) PROVE TypeOK'
  BY <1>7, ApplyTypes, TimedOutTypes DEF Unanswered, TypeOK
<1>8. CASE Aging
  <2>1. main' = {[d EXCEPT !.aged = d.deleted] : d \in main}  BY <1>8 DEF Aging
  <2>2. /\ main' \subseteq Docs
        /\ \A a, b \in main' : a.uid = b.uid => a = b
        /\ \A e \in main' : e.aged => e.deleted
    BY <2>1 DEF TypeOK, Docs
  <2>3. /\ lagging' = <<>> /\ UNCHANGED <<second, pc, call, tries, back>>
    BY <1>8 DEF Aging
  <2>4. QED  BY <2>2, <2>3, ConstantsAssumption DEF TypeOK
<1>9. CASE Replicate
  <2>1. /\ Tail(lagging) \in Seq([main : SUBSET Docs, second : SUBSET Docs])
        /\ Len(Tail(lagging)) <= MaxLag
    <3> DEFINE S == [main : SUBSET Docs, second : SUBSET Docs]
    <3>1. lagging \in Seq(S) /\ lagging # <<>> /\ Len(lagging) <= MaxLag
      BY <1>9 DEF Replicate, TypeOK
    <3> HIDE DEF S
    <3>2. Tail(lagging) \in Seq(S) /\ Len(Tail(lagging)) <= MaxLag
      BY <3>1, ConstantsAssumption, HeadTailProperties
    <3>3. QED  BY <3>2 DEF S
  <2>2. QED  BY <1>9, <2>1 DEF Replicate, TypeOK
<1>10. CASE UNCHANGED vars  BY <1>10 DEF vars, TypeOK
<1>11. QED
  BY <1>1, <1>2, <1>3, <1>4, <1>5, <1>6, <1>7, <1>8, <1>9, <1>10 DEF Next

(* Documents and calls keep their shape, a uid belongs to one document of  *)
(* a collection, user_profile_for_bad_man holds no deleted one and 15 days *)
(* have only passed for a deleted one: in every behaviour, whatever fails. *)
THEOREM TypeCorrect == Spec => []TypeOK
<1>1. QED  BY TypeInit, TypeNext, PTL DEF Spec

-----------------------------------------------------------------------------
(* An operation writes to user_profile: u is the uid it has, and d the     *)
(* document it found there or, if it inserts one, Blank.                   *)
WritesMain(c, d, u) ==
    /\ call[c] \in Calls /\ ~UsesSecond(c)
    /\ d \in Docs /\ u \in Uid \union {None}
    /\ d = Blank \/ (d \in main /\ Matches(c, d))
    /\ main' = (main \ {d}) \union {Updated(c, d, u)}

LEMMA ApplyMain ==
    ASSUME TypeOK, NEW c \in Caller, Updating(c),
           NEW d \in Store(c) \union {Blank}, FindMatch(c, d), Apply(c, d)
    PROVE  main' = main \/ \E u : WritesMain(c, d, u)
<1>1. PICK u \in Uid \union {None} : Draw(c, u) /\ Put(c, d, Updated(c, d, u))
  BY DEF Apply
<1>2. CASE UsesSecond(c)  BY <1>1, <1>2 DEF Put
<1>3. CASE ~UsesSecond(c)
  <2>1. main' = (main \ {d}) \union {Updated(c, d, u)}
    BY <1>1, <1>3 DEF Put, Store
  <2>2. d = Blank \/ (d \in main /\ Matches(c, d))
    BY <1>3 DEF FindMatch, Store
  <2>3. WritesMain(c, d, u)
    BY <1>3, <2>1, <2>2, FoundFields DEF WritesMain
  <2>4. QED  BY <2>3
<1>4. QED  BY <1>2, <1>3

(* How a step changes user_profile. *)
LEMMA MainChanges ==
    ASSUME TypeOK, [Next]_vars
    PROVE  \/ main' = main
           \/ main' = {[d EXCEPT !.aged = d.deleted] : d \in main}
           \/ \E c \in Caller : \E d, u : WritesMain(c, d, u)
<1>1. ASSUME NEW c \in Caller, Update(c) \/ Unanswered(c)
      PROVE  main' = main \/ \E d, u : WritesMain(c, d, u)
  <2>1. /\ Updating(c)
        /\ \E d \in Store(c) \union {Blank} : FindMatch(c, d) /\ Apply(c, d)
    BY <1>1 DEF Update, Unanswered
  <2>2. PICK d \in Store(c) \union {Blank} : FindMatch(c, d) /\ Apply(c, d)
    BY <2>1
  <2>3. main' = main \/ \E u : WritesMain(c, d, u)
    BY <2>1, <2>2, ApplyMain
  <2>4. QED  BY <2>3
<1>2. ASSUME NEW c \in Caller,
             \/ \E x \in Calls : Request(c, x)
             \/ ReadRecreated(c) \/ MatchNothing(c) \/ Duplicate(c) \/ Lost(c)
      PROVE  main' = main
  BY <1>2 DEF Request, ReadRecreated, MatchNothing, Duplicate, Lost
<1>3. CASE Aging  BY <1>3 DEF Aging
<1>4. CASE Replicate \/ UNCHANGED vars  BY <1>4 DEF Replicate, vars
<1>5. QED  BY <1>1, <1>2, <1>3, <1>4 DEF Next

(* A document of user_profile that is deleted is replaced only by an       *)
(* operation on its own account that may touch deleted ones.               *)
LEMMA OldDataStep ==
    ASSUME TypeOK, [Next]_vars, NEW e \in main, e.deleted
    PROVE  \/ main' \intersect {e, [e EXCEPT !.aged = TRUE]} # {}
           \/ \E c \in Caller : /\ call[c] # None
                                /\ call[c].op \in {"register", "delete", "reactivate"}
                                /\ call[c].acc = e.acc
<1>1. CASE main' = main  BY <1>1
<1>2. CASE main' = {[d EXCEPT !.aged = d.deleted] : d \in main}
  <2> DEFINE after == [e EXCEPT !.aged = e.deleted]
  <2>1. after \in main'  BY <1>2
  <2>2. after = [e EXCEPT !.aged = TRUE]  BY DEF TypeOK, Docs
  <2> HIDE DEF after
  <2>3. QED  BY <2>1, <2>2
<1>3. ASSUME NEW c \in Caller, NEW d, NEW u, WritesMain(c, d, u)
      PROVE  \/ e \in main'
             \/ /\ call[c] # None
                /\ call[c].op \in {"register", "delete", "reactivate"}
                /\ call[c].acc = e.acc
  <2>1. CASE d # e  BY <1>3, <2>1 DEF WritesMain
  <2>2. CASE d = e
    <3>1. Matches(c, e) /\ call[c] \in Calls /\ ~UsesSecond(c)
      BY <1>3, <2>2, BlankIsDoc DEF WritesMain
    <3>2. call[c].op \notin ByUid \union {"online"} /\ call[c].op # "recreate"
      BY <3>1 DEF Matches, UsesSecond
    <3>3. call[c].acc = e.acc  BY <3>1, <3>2 DEF Matches
    <3>4. call[c].op \in {"register", "delete", "reactivate"}
      BY <3>1, <3>2, CallFields DEF OpKind, ByUid
    <3>5. QED  BY <3>1, <3>3, <3>4, NoneIsNoCall
  <2>3. QED  BY <2>1, <2>2
<1>4. QED  BY <1>1, <1>2, <1>3, MainChanges

(* A deleted account stays as it is, 15 days included, while its user goes *)
(* on under a new one: what a late call for the old user writes, or one    *)
(* that is tried again, or one that inserts because it found nothing, goes *)
(* elsewhere.                                                              *)
THEOREM DeletedIsKept == Spec => OldDataKept
<1>1. TypeOK /\ [Next]_vars =>
        [ \A d \in main : d.deleted =>
            \/ main' \intersect {d, [d EXCEPT !.aged = TRUE]} # {}
            \/ \E c \in Caller : /\ call[c] # None
                                 /\ call[c].op \in {"register", "delete", "reactivate"}
                                 /\ call[c].acc = d.acc ]_vars
  BY OldDataStep
<1>2. QED  BY <1>1, TypeCorrect, PTL DEF Spec, OldDataKept

(* A step that gives an account a document that is not deleted.            *)
LEMMA RevivalStep ==
    ASSUME TypeOK, [Next]_vars, NEW acc \in Account,
           ~Created(View, acc), Created(View', acc)
    PROVE  \E c \in Caller :
             /\ call[c] # None /\ call[c].acc = acc
             /\ \/ call[c].op \in {"register", "reactivate"}
                \/ /\ call[c].op = "online"
                   /\ \A d \in Of(acc, main') : ~d.deleted => d.uid = None
<1>1. \A d \in main : d.acc = acc => d.deleted
  BY DEF Created, Of, View
<1>2. PICK e \in main' : e.acc = acc /\ ~e.deleted
  BY DEF Created, Of, View
<1>3. ~(main' = main)  BY <1>1, <1>2
<1>4. ~(main' = {[d EXCEPT !.aged = d.deleted] : d \in main})
  BY <1>1, <1>2 DEF TypeOK, Docs
<1>5. PICK c \in Caller : \E d, u : WritesMain(c, d, u)
  BY <1>3, <1>4, MainChanges
<1>6. PICK d, u : WritesMain(c, d, u)  BY <1>5
<1> DEFINE new == Updated(c, d, u)
<1>7. call[c] \in Calls /\ ~UsesSecond(c) /\ d \in Docs /\ u \in Uid \union {None}
  BY <1>6 DEF WritesMain
<1>8. main' = (main \ {d}) \union {new}  BY <1>6 DEF WritesMain
<1>9. d = Blank \/ (d \in main /\ Matches(c, d))  BY <1>6 DEF WritesMain
<1>10. /\ call[c].op \in {"register", "recreate"} => new.acc = call[c].acc
       /\ call[c].op \in ByUid => new.acc = d.acc /\ new.deleted = d.deleted
       /\ call[c].op = "online" =>
            /\ new.acc = call[c].acc /\ new.uid = d.uid
            /\ new.deleted = d.deleted
       /\ call[c].op \in {"delete", "reactivate"} =>
            /\ new.acc = call[c].acc /\ new.deleted = (call[c].op = "delete")
  BY <1>7, UpdatedFields
<1> HIDE DEF new
<1>11. e = new  BY <1>1, <1>2, <1>8
<1>12. acc # None  BY ConstantsAssumption
<1>13. call[c] # None  BY <1>7, NoneIsNoCall
<1>14. CASE call[c].op \in {"register", "reactivate"}
  BY <1>2, <1>10, <1>11, <1>13, <1>14
<1>15. CASE call[c].op = "online"
  <2>1. d = Blank
    <3>1. ASSUME d \in main, Matches(c, d) PROVE FALSE
      <4>1. d.acc = call[c].acc /\ ~d.deleted
        BY <1>15, <3>1 DEF Matches, ByUid
      <4>2. QED  BY <1>1, <1>2, <1>10, <1>11, <1>15, <3>1, <4>1
    <3>2. QED  BY <1>9, <3>1
  <2>2. new.uid = None  BY <1>10, <1>15, <2>1 DEF Blank
  <2>3. \A o \in Of(acc, main') : ~o.deleted => o.uid = None
    BY <1>1, <1>8, <2>2 DEF Of
  <2>4. QED  BY <1>2, <1>10, <1>11, <1>13, <1>15, <2>3
<1>16. CASE call[c].op \in ByUid
  <2>1. d.acc = acc /\ ~d.deleted  BY <1>2, <1>10, <1>11, <1>16
  <2>2. QED  BY <1>1, <1>9, <1>12, <2>1, BlankIsDoc
<1>17. call[c].op \notin {"recreate", "delete"}
  BY <1>2, <1>7, <1>10, <1>11 DEF UsesSecond
<1>18. QED
  BY <1>7, <1>14, <1>15, <1>16, <1>17, CallFields DEF OpKind, ByUid

(* Once all documents of an account are deleted, only registering or       *)
(* reactivating it brings it back; an online status that is set late       *)
(* leaves a document without a uid.  So nothing that was under way when    *)
(* the account was deleted undoes that.                                    *)
THEOREM DeletedIsNotRevived == Spec => NoRevival
<1>1. TypeOK /\ [Next]_vars =>
        [ \A acc \in Account :
            Deleted(View, acc) /\ ~Created(View, acc) /\ Created(View', acc) =>
            \E c \in Caller :
               /\ call[c] # None /\ call[c].acc = acc
               /\ \/ call[c].op \in {"register", "reactivate"}
                  \/ /\ call[c].op = "online"
                     /\ \A d \in Of(acc, main') : ~d.deleted => d.uid = None ]_vars
  BY RevivalStep
<1>2. QED  BY <1>1, TypeCorrect, PTL DEF Spec, NoRevival

=============================================================================
