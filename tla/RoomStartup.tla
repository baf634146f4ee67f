----------------------------- MODULE RoomStartup -----------------------------
(***************************************************************************)
(* The startup of a worker (init_db in app.py) as far as it writes one     *)
(* installed room, through upsert_installed_game_room_info, for one AI     *)
(* player of the room after the other: the master opens it, whatever it    *)
(* was, with a definition drawn by a shuffle, counters recounted from the  *)
(* users' flags and no assistants; a slave is turn with a read and a      *)
(* write.  None of this is in a transaction, the reads go to a secondary,  *)
(* and meanwhile other workers may start too or serve.  What a serving     *)
(* worker does to the room is one step here: the committed transactions of *)
(* RoomTransactions.                                                       *)
(***************************************************************************)
EXTENDS Installation

CONSTANTS
    Worker,     \* server processes
    User,       \* human players
    Order,      \* kinds of flags in the order of their recount
    Defs,       \* room definitions the shuffle may assign: [cap, ai]
    Players,    \* the AI players of the configuration: [id, room, master]
    Room,       \* the room that is modelled
    Faults,     \* which of FaultKind may happen
    MaxLag,     \* bound: commits a secondary may be behind
    MaxDrift,   \* bound: half an operation is done to a kind off less
    MaxMissed,  \* bound: commits of others since a start began to count
    MaxAssistants   \* bound: length of the assistants, which a lagging
                    \* secondary can make grow with every start

FaultKind == {"fail", "unanswered", "crash", "drift"}

Kinds == Range(Order)

Group == GroupOf(Players, Room)

Slaves == {p.id : p \in {q \in Range(Players) : q.room = Room /\ IsSlave(q)}}

ASSUME ConstantsAssumption ==
    /\ Worker # {} /\ IsFiniteSet(User)
    /\ Order \in Seq(Kinds) /\ "queue" \in Kinds
    /\ Defs # {} /\ Defs \subseteq [cap : Nat, ai : Nat]
    /\ \A i, j \in DOMAIN Players : Players[i].id = Players[j].id => i = j
    /\ \E p \in Range(Players) :
          /\ p.room = Room /\ IsMaster(p)
          /\ \A q \in Range(Players) : q.room = Room /\ IsMaster(q) => q = p
    /\ Slaves # {}
    /\ Faults \subseteq FaultKind
    /\ MaxLag \in Nat /\ MaxDrift \in Nat /\ MaxMissed \in Nat
    /\ MaxAssistants \in Nat /\ Cardinality(Slaves) <= MaxAssistants

VARIABLES
    on,         \* on[k]: users whose flag of kind k is set
    cnt,        \* cnt[k]: the counter of kind k in the room's document
    def,        \* its carrying_capacity and ai_player_cnt
    assistants, \* its assistants, the last one added first
    opened,     \* whether the document exists
    lagging,    \* earlier states a secondary may still show
    pc,         \* where each worker is
    plan,       \* the definition it has drawn
    counted,    \* the counts it has made, in the order of Order
    found,      \* the assistants it has read
    turn,       \* how many of the group it has written
    missed,     \* commits that its counts may not show
    current,    \* whether its start has read only the latest state, and
                \* since then no other start has written the room
    off         \* off[k]: commits that the counts with which the room was
                \* opened last missed, and half operations since

room == <<cnt, def, assistants, opened>>
db == <<on, room>>
local == <<plan, counted, found, turn, missed>>
vars == <<db, lagging, pc, local, current, off>>

Pc == {"down", "count", "open", "read", "assist", "serving"}

Serving == {w \in Worker : pc[w] = "serving"}

View == [on |-> on, assistants |-> assistants]

Init ==
    /\ on = [k \in Kinds |-> {}]
    /\ cnt = [k \in Kinds |-> 0]
    /\ def \in Defs
    /\ assistants = <<>> /\ opened = FALSE
    /\ lagging = <<>>
    /\ pc = [w \in Worker |-> "down"]
    /\ plan = [w \in Worker |-> def]
    /\ counted = [w \in Worker |-> <<>>]
    /\ found = [w \in Worker |-> <<>>]
    /\ turn = [w \in Worker |-> 0]
    /\ missed = [w \in Worker |-> 0]
    /\ current = [w \in Worker |-> FALSE]
    /\ off = [k \in Kinds |-> 0]

(* A commit leaves the state it replaces behind on a secondary. *)
Remember ==
    LET longer == Append(lagging, View)
    IN  lagging' = IF Len(longer) > MaxLag THEN Tail(longer) ELSE longer

Visible == {View} \union Range(lagging)

Counting(w) == pc[w] \in {"count", "open"}

(* Worker w reads the state v, the latest or an earlier one. *)
Reads(w, v) ==
    /\ v \in Visible
    /\ current' = [current EXCEPT ![w] = @ /\ v = View]

(* Worker w has written the room, which another start may have read. *)
Outdates(w) == current' = [o \in Worker |-> current[o] /\ o = w]

Goto(w, where) == pc' = [pc EXCEPT ![w] = where]

-----------------------------------------------------------------------------
(* Mutant: the last of the group is left out. *)
AllButOne(n) == n + 1 >= Len(Group)

AllWritten(n) == n = Len(Group)

(* Where a worker goes that has written n of the group. *)
Where(n) ==
    CASE AllWritten(n) -> "serving"
      [] ~ AllWritten(n) /\ IsMaster(Group[n + 1]) -> "count"
      [] OTHER -> "read"

(* The call for one of the group returns, and what it has read is gone. *)
Written(w) ==
    /\ turn' = [turn EXCEPT ![w] = @ + 1]
    /\ Goto(w, Where(turn[w] + 1))
    /\ counted' = [counted EXCEPT ![w] = <<>>]
    /\ found' = [found EXCEPT ![w] = <<>>]
    /\ missed' = [missed EXCEPT ![w] = 0]
    /\ UNCHANGED plan

(* random.shuffle(rooms): any definition of the game may be the room's. *)
Start(w) ==
    /\ pc[w] = "down"
    /\ \E d \in Defs : plan' = [plan EXCEPT ![w] = d]
    /\ current' = [current EXCEPT ![w] = TRUE]
    /\ Goto(w, Where(turn[w]))
    /\ UNCHANGED <<db, lagging, counted, found, turn, missed, off>>

(* count_documents, one kind after the other *)
Recount(w) ==
    /\ pc[w] = "count"
    /\ \E v \in Visible :
         /\ Reads(w, v)
         /\ counted' = [counted EXCEPT ![w] =
                          Append(@, Cardinality(v.on[Order[Len(@) + 1]]))]
         /\ missed' = [missed EXCEPT ![w] = IF v = View THEN @ ELSE Max({@, MaxLag})]
    /\ Goto(w, IF Len(counted'[w]) = Len(Order) THEN "open" ELSE "count")
    /\ UNCHANGED <<db, lagging, plan, found, turn, off>>

(* Mutant: the AI players are forgotten. *)
UsersOnly(w, i) == counted[w][i]

UsersAndAi(w, i) == counted[w][i] + plan[w].ai

(* Mutant: the assistants are left as they were. *)
KeptAssistants == assistants

NoAssistants == <<>>

OpenRoom(w) ==
    /\ cnt' = [k \in Kinds |->
                 UsersAndAi(w, CHOOSE i \in DOMAIN Order : Order[i] = k)]
    /\ def' = plan[w]
    /\ assistants' = NoAssistants
    /\ opened' = TRUE
    /\ Outdates(w) /\ Remember
    /\ off' = [k \in Kinds |-> missed[w]]
    /\ UNCHANGED on

Open(w) ==
    /\ pc[w] = "open"
    /\ OpenRoom(w)
    /\ Written(w)

(* find_one without a session *)
ReadAssistants(w) ==
    /\ pc[w] = "read"
    /\ \E v \in Visible :
         /\ Reads(w, v)
         /\ Len(v.assistants) + Len(Group) - turn[w] <= MaxAssistants
         /\ found' = [found EXCEPT ![w] = v.assistants]
    /\ Goto(w, "assist")
    /\ UNCHANGED <<db, lagging, plan, counted, turn, missed, off>>

(* Mutant: the next slave is taken to be there already. *)
OthersOnly(w) == found[w]

WithNext(w) == <<Group[turn[w] + 1].id>> \o found[w]

WriteAssistants(w) ==
    /\ assistants' = WithNext(w)
    /\ Outdates(w) /\ Remember
    /\ UNCHANGED <<on, cnt, def, opened, off>>

AddAssistant(w) ==
    /\ pc[w] = "assist"
    /\ WriteAssistants(w)
    /\ Written(w)

Exit(w) ==
    /\ Goto(w, "down")
    /\ turn' = [turn EXCEPT ![w] = 0]
    /\ counted' = [counted EXCEPT ![w] = <<>>]
    /\ found' = [found EXCEPT ![w] = <<>>]
    /\ missed' = [missed EXCEPT ![w] = 0]
    /\ UNCHANGED plan

(* Any read or write fails: init_db returns False and the process exits. *)
StartFails(w) ==
    /\ "fail" \in Faults
    /\ pc[w] \notin {"down", "serving"}
    /\ Exit(w)
    /\ UNCHANGED <<db, lagging, current, off>>

(* A write is done but its answer lost: the process exits all the same. *)
WriteUnanswered(w) ==
    /\ "unanswered" \in Faults
    /\ \/ pc[w] = "open" /\ OpenRoom(w)
       \/ pc[w] = "assist" /\ WriteAssistants(w)
    /\ Exit(w)

Stop(w) ==
    /\ "crash" \in Faults
    /\ pc[w] = "serving"
    /\ Exit(w)
    /\ UNCHANGED <<db, lagging, current, off>>

-----------------------------------------------------------------------------
(* What serving workers do to the room. *)

(* A start that counts now may not see it. *)
Missed ==
    /\ \A w \in Worker : Counting(w) => missed[w] < MaxMissed
    /\ missed' = [w \in Worker |-> IF Counting(w) THEN missed[w] + 1 ELSE missed[w]]

HasPlace == cnt["queue"] < def.cap

Transaction ==
    /\ Serving # {}
    /\ Remember /\ Missed
    /\ UNCHANGED <<def, assistants, opened, pc, plan, counted, found, turn, current>>

SetFlag(k, u) ==
    /\ u \notin on[k]
    /\ k = "queue" => HasPlace
    /\ on' = [on EXCEPT ![k] = @ \union {u}]

ClearFlag(k, u) ==
    /\ u \in on[k]
    /\ on' = [on EXCEPT ![k] = @ \ {u}]

Enter(k, u) ==
    /\ SetFlag(k, u)
    /\ cnt' = [cnt EXCEPT ![k] = @ + 1]
    /\ UNCHANGED off
    /\ Transaction

Leave(k, u) ==
    /\ ClearFlag(k, u)
    /\ cnt' = [cnt EXCEPT ![k] = @ - 1]
    /\ UNCHANGED off
    /\ Transaction

(* Only the flag is committed, which is written first, not the counter     *)
(* (the run room_lost_statement).                                          *)
Drift(k, u) ==
    /\ "drift" \in Faults
    /\ SetFlag(k, u) \/ ClearFlag(k, u)
    /\ UNCHANGED cnt
    /\ off[k] < MaxDrift /\ off' = [off EXCEPT ![k] = @ + 1]
    /\ Transaction

Replicate ==
    /\ lagging # <<>>
    /\ lagging' = Tail(lagging)
    /\ UNCHANGED <<db, pc, local, current, off>>

Next ==
    \/ \E w \in Worker :
         \/ Start(w) \/ Recount(w) \/ Open(w) \/ ReadAssistants(w) \/ AddAssistant(w)
         \/ StartFails(w) \/ WriteUnanswered(w) \/ Stop(w)
    \/ \E k \in Kinds, u \in User : Enter(k, u) \/ Leave(k, u) \/ Drift(k, u)
    \/ Replicate

Spec == Init /\ [][Next]_vars

-----------------------------------------------------------------------------
States == [on : [Kinds -> SUBSET User], assistants : Seq(Slaves)]

(* Types; a starting worker has counted as many kinds and written as many  *)
(* players as its place in init_db says, and no slave before the master.   *)
TypeOK ==
    /\ View \in States /\ Len(assistants) <= MaxAssistants
    /\ cnt \in [Kinds -> Int]
    /\ def \in Defs /\ plan \in [Worker -> Defs]
    /\ opened \in BOOLEAN
    /\ lagging \in Seq(States) /\ Len(lagging) <= MaxLag
    /\ pc \in [Worker -> Pc] /\ current \in [Worker -> BOOLEAN]
    /\ off \in [Kinds -> Nat]
    /\ counted \in [Worker -> Seq(Nat)] /\ found \in [Worker -> Seq(Slaves)]
    /\ turn \in [Worker -> Nat]
    /\ missed \in [Worker -> 0 .. Max({MaxLag, MaxMissed})]
    /\ \A w \in Worker :
         /\ ~Counting(w) => counted[w] = <<>>
         /\ pc[w] = "count" => Len(counted[w]) < Len(Order)
         /\ pc[w] = "open" => Len(counted[w]) = Len(Order)
         /\ pc[w] \in {"down", "count", "open"} => turn[w] = 0
         /\ pc[w] \in {"read", "assist"} => turn[w] \in 1 .. Len(Group) - 1 /\ opened
         /\ pc[w] = "assist" =>
              Len(found[w]) + Len(Group) - turn[w] <= MaxAssistants
         /\ pc[w] = "serving" => turn[w] = Len(Group) /\ opened

(* Opening the room repairs its counters, however wrong they were before:  *)
(* they are exact if nothing was committed since the first count that the  *)
(* counts do not show, and else off by no more than those commits.         *)
RecountRepairs ==
    [][ \A w \in Worker, k \in Kinds :
           pc[w] = "open" /\ pc'[w] \notin {"open", "down"} =>
              cnt'[k] - def'.ai - Cardinality(on'[k]) \in (-missed[w]) .. missed[w] ]_vars

(* Nobody gets into the queue of a room that has no place for him in the   *)
(* definition it has by now, but for the commits which the counts of the   *)
(* last start missed and the half operations since: what earlier starts    *)
(* and failures gave away does not add up, and after a start with fewer    *)
(* places nobody follows until enough users have left.                     *)
QueueFits ==
    [][ Cardinality(on'["queue"]) > Cardinality(on["queue"]) =>
          def'.ai + Cardinality(on'["queue"]) <= def'.cap + off'["queue"] ]_vars

(* A start that read what was there, and that no other start met, leaves   *)
(* each slave in the room exactly once, however many starts were cut short *)
(* before it and whatever they still had written.                          *)
AssistantsComplete ==
    \A w \in Worker :
        pc[w] = "serving" /\ current[w] =>
            Range(assistants) = Slaves /\ Len(assistants) = Cardinality(Slaves)

(* As soon as every worker serves, the grid of the room can be drawn,      *)
(* since query_game_room puts ai_slaves[0] on it, however their starts     *)
(* overlapped and whatever they read; a room without assistants is one     *)
(* that some start has left, or is about to complete.                      *)
QueueCanBeDrawn == Serving = Worker => assistants # <<>>

=============================================================================
