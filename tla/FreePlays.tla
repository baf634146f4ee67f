----------------------------- MODULE FreePlays -----------------------------
(***************************************************************************)
(* The free plays of one user (set_user_profile_extra_info in              *)
(* ext_mongo/ha.py with "invite" and "play"): the number is read from a    *)
(* secondary, changed in the process and written back, to a document that  *)
(* may meanwhile have been changed by another coroutine or been marked as  *)
(* deleted.                                                                *)
(***************************************************************************)
EXTENDS Coroutines, Integers

CONSTANTS
    Granted,    \* extra_free_play_cnt of the document, or None
    Steps       \* values of incr_free_play_cnt

(* A change of the free plays: by how much, and the number that was read. *)
PlaysChange == [by : Int, found : Int \union {None}]

ASSUME PlaysAssumption ==
    /\ Granted \in Nat \union {None} /\ Steps \subseteq Int
    /\ None \notin Int /\ None \notin PlaysChange

VARIABLES
    user,       \* the document
    behind,     \* the same as a secondary may still show it
    due,        \* plays the user should have
    overlapped  \* whether a change began that could not see all earlier ones

account == <<user, behind, due, overlapped>>

(* Mutant: the default is taken for every document. *)
DefaultPlays(d) == 3

(* profile.get("extra_free_play_cnt", 3) *)
PlaysOf(d) == IF d.plays = None THEN 3 ELSE d.plays

PlaysInit ==
    /\ user = [plays |-> Granted, deleted |-> FALSE]
    /\ behind = user
    /\ due = IF Granted = None THEN 3 ELSE Granted
    /\ overlapped = FALSE

Changing(o) == pc[o] \in {"plays", "update"}

ChangePlays(c, n) ==
    /\ Start(c, "plays")
    /\ arg' = [arg EXCEPT ![c] = [by |-> n, found |-> None]]
    /\ overlapped' = (overlapped \/ behind # user \/ \E o \in Caller : Changing(o))
    /\ UNCHANGED <<user, behind, due>>

ReadPlays(c) ==
    /\ Go(c, "plays", "update")
    /\ \E d \in {user, behind} :
         ~d.deleted /\ arg' = [arg EXCEPT ![c].found = PlaysOf(d)]
    /\ UNCHANGED account

(* There is no such user, which is an answer of True, or the read fails. *)
NoPlays(c) ==
    /\ pc[c] = "plays"
    /\ Return(c)
    /\ UNCHANGED account

(* True, or False because the answer is lost. *)
WritePlays(c) ==
    /\ pc[c] = "update"
    /\ ~user.deleted
    /\ user' = [user EXCEPT !.plays = arg[c].found + arg[c].by]
    /\ behind' = user
    /\ due' = due + arg[c].by
    /\ Return(c)
    /\ UNCHANGED overlapped

(* The request is lost; or no document matches, and the insert of the      *)
(* upsert meets the unique index on the uid of the deleted one.            *)
NotWritten(c) ==
    /\ pc[c] = "update"
    /\ Return(c)
    /\ UNCHANGED account

(* The secondary catches up. *)
CatchUp ==
    /\ behind # user
    /\ behind' = user
    /\ UNCHANGED <<pc, arg, user, due, overlapped>>

(* delete_user_account, during a change. *)
DeleteUser ==
    /\ ~user.deleted /\ \E c \in Caller : Changing(c)
    /\ user' = [user EXCEPT !.deleted = TRUE]
    /\ behind' = user
    /\ UNCHANGED <<pc, arg, due, overlapped>>

PlaysTypeOK ==
    /\ user \in [plays : Int \union {None}, deleted : BOOLEAN]
    /\ behind \in [plays : Int \union {None}, deleted : BOOLEAN]
    /\ due \in Int /\ overlapped \in BOOLEAN
    /\ \A c \in Caller : pc[c] \in {"plays", "update"} =>
            arg[c] \in PlaysChange /\ (arg[c].found = None <=> pc[c] = "plays")

(* As long as no two changes overlap, in this process or because the       *)
(* second one reads from a secondary that has not seen the first, the free *)
(* plays of a user are those granted at the start, one more for every user *)
(* invited and one less for every play, whatever fails.                    *)
PlaysCounted ==
    overlapped \/ user.plays = due \/ (user.plays = None /\ due = 3)

(* Why: a change that is alone reads the latest number, whatever it reads. *)
PlaysInv ==
    ~overlapped =>
        /\ PlaysOf(user) = due
        /\ \A c, d \in Caller : Changing(c) /\ Changing(d) => c = d
        /\ \A c \in Caller : Changing(c) => PlaysOf(behind) = due
        /\ \A c \in Caller : pc[c] = "update" => arg[c].found = due

=============================================================================
