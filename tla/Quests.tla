------------------------------- MODULE Quests -------------------------------
(***************************************************************************)
(* The quests of a player: the Quest objects in memory, the rows of the    *)
(* database, and the reward, which is in the memory of the player until a  *)
(* save of the player takes it to the table of the users.                  *)
(*                                                                         *)
(* Saving, finishing, cancelling and loading are several statements each,  *)
(* and a statement is a step: the server may crash before any of them, and *)
(* the player logs in again with what the rows say.                        *)
(*                                                                         *)
(* One handler at a time works on a player here.  The requests of the web  *)
(* site run on a network thread, without a lock; from the first access of  *)
(* one to the quests while the zone changes them nothing has a meaning any *)
(* more, so the model has requests between the handlers of the zone only.  *)
(*                                                                         *)
(* The web site, which inserts the rows of a quest that is accepted, is    *)
(* not in the repository; here it accepts each quest once.  Progress is    *)
(* counted up to its target; ship, laboratory, inventory are left out.     *)
(***************************************************************************)
EXTENDS Naturals, Sequences

CONSTANTS
    Quest,      \* the templates of the quests
    Kinds,      \* what a condition counts: a kind of mob or ore, a map, damage, time
    Timer,      \* the kind that counts the time
    Conditions, \* the conditions of each quest
    Ordered,    \* the quests whose conditions come in order
    None

ASSUME QuestsAssumption ==
    /\ Timer \in Kinds
    /\ Conditions \in [Quest -> Seq([kind : Kinds, target : Nat \ {0}])]
    /\ \A q \in Quest : Conditions[q] # <<>>
    /\ Ordered \subseteq Quest
    /\ None \notin Quest \cup Kinds

VARIABLES
    player,     \* the player is out or in the game
    objects,    \* m_Quests
    progress,   \* m_Progress of each Quest object
    completed,  \* m_Completed of each Quest object
    purse,      \* how often the reward of each quest is in the credits in memory
    rows,       \* user_quests: none, open or completed
    steps,      \* user_quest_progress: a row for each condition, or no rows
    account,    \* how often the reward of each quest is in the credits in the table
    job,        \* the handler that is under way
    played,     \* how many events each condition has counted since the quest was accepted
    broken,     \* the quests whose cancelling was cut short by a crash
    lost        \* the completed quests whose reward went with a crash

memory == <<player, objects, progress, completed, purse>>
database == <<rows, steps, account>>
history == <<played, broken, lost>>
vars == <<memory, database, job, history>>

Size(q) == Len(Conditions[q])
Target(q, i) == Conditions[q][i].target

Step == [n : Nat, done : BOOLEAN]
Fresh(q) == [i \in 1 .. Size(q) |-> [n |-> 0, done |-> FALSE]]

\* A handler: the quests it has still to visit, the one it writes and its next
\* statement, the event it is about, and what comes after.
Job(op, left, q, i, kind, then) ==
    [op |-> op, left |-> left, quest |-> q, next |-> i, kind |-> kind, then |-> then]
Idle == Job("idle", {}, None, 0, None, "end")

TypeOK ==
    /\ player \in {"out", "in"}
    /\ objects \subseteq Quest
    /\ progress \in [Quest -> Seq(Step)]
    /\ completed \in [Quest -> BOOLEAN]
    /\ purse \in [Quest -> Nat]
    /\ rows \in [Quest -> {"none", "open", "completed"}]
    /\ steps \in [Quest -> Seq(Step)]
    /\ account \in [Quest -> Nat]
    /\ job \in [op : {"idle", "check", "save", "cancel", "load"}, left : SUBSET Quest,
                quest : Quest \cup {None}, next : Nat, kind : Kinds \cup {None},
                then : {"end", "load", "leave"}]
    /\ played \in [Quest -> Seq(Nat)]
    /\ broken \subseteq Quest
    /\ lost \subseteq Quest

Init ==
    /\ player = "out"
    /\ objects = {}
    /\ progress = [q \in Quest |-> <<>>]
    /\ completed = [q \in Quest |-> FALSE]
    /\ purse = [q \in Quest |-> 0]
    /\ rows = [q \in Quest |-> "none"]
    /\ steps = [q \in Quest |-> <<>>]
    /\ account = [q \in Quest |-> 0]
    /\ job = Idle
    /\ played = [q \in Quest |-> <<>>]
    /\ broken = {}
    /\ lost = {}

-----------------------------------------------------------------------------
\* A player loads, saves and leaves.

Online == player = "in" /\ job = Idle

\* The web site accepts a quest for a player.
Accept(q) ==
    /\ played[q] = <<>>
    /\ rows' = [rows EXCEPT ![q] = "open"]
    /\ steps' = [steps EXCEPT ![q] = Fresh(q)]
    /\ played' = [played EXCEPT ![q] = [i \in 1 .. Size(q) |-> 0]]
    /\ UNCHANGED <<memory, account, job, broken, lost>>

\* LoadQuests: the objects are deleted and the quests that are not completed selected ...
LoadQuests ==
    /\ objects' = {}
    /\ progress' = [q \in Quest |-> <<>>]
    /\ completed' = [q \in Quest |-> FALSE]
    /\ job' = Job("load", {q \in Quest : rows[q] = "open"}, None, 0, None, "end")

\* ... and for each one an object is made, with the progress that has a row.
LoadQuest(q) ==
    /\ job.op = "load" /\ q \in job.left
    /\ objects' = objects \cup {q}
    /\ progress' = [progress EXCEPT ![q] = steps[q]]
    /\ job' = [job EXCEPT !.left = @ \ {q}]
    /\ UNCHANGED <<player, completed, purse, database, history>>

\* LoadFromDB of the player: the credits, then the quests.
Login ==
    /\ player = "out"
    /\ player' = "in"
    /\ purse' = account
    /\ LoadQuests
    /\ UNCHANGED <<database, history>>

\* Slip: a player that leaves saves the quests only.
SaveToDBGoodbye(then) ==
    /\ Online
    /\ account' = IF then = "leave" THEN account ELSE purse
    /\ job' = Job("save", objects, None, 0, None, then)
    /\ UNCHANGED <<memory, rows, steps, history>>

\* SaveToDB of the player, in the game or when it leaves: the credits, then the quests.
SaveToDB(then) ==
    /\ Online
    /\ account' = purse
    /\ job' = Job("save", objects, None, 0, None, then)
    /\ UNCHANGED <<memory, rows, steps, history>>

\* The next quest is saved.
SaveQuest(q) ==
    /\ job.op = "save" /\ job.quest = None /\ q \in job.left
    /\ job' = [job EXCEPT !.left = @ \ {q}, !.quest = q, !.next = 0]
    /\ UNCHANGED <<memory, database, history>>

Writes(q) == job.op \in {"check", "save"} /\ job.quest = q

\* Quest::SaveToDB: the row of the quest ...
WriteRow(q) ==
    /\ Writes(q) /\ job.next = 0
    /\ rows' = [rows EXCEPT ![q] =
          IF @ = "none" THEN @ ELSE IF completed[q] THEN "completed" ELSE "open"]
    /\ job' = [job EXCEPT !.next = 1]
    /\ UNCHANGED <<memory, steps, account, history>>

\* Slip: the last condition is written first.
WriteStepBackwards(q) ==
    LET i == Len(progress[q]) + 1 - job.next
    IN  /\ Writes(q) /\ job.next \in 1 .. Len(progress[q])
        /\ steps' = IF steps[q] = <<>> THEN steps
                    ELSE [steps EXCEPT ![q][i] = progress[q][i]]
        /\ job' = [job EXCEPT !.next = @ + 1]
        /\ UNCHANGED <<memory, rows, account, history>>

\* ... the rows of its conditions, one by one ...
WriteStep(q) ==
    LET i == job.next
    IN  /\ Writes(q) /\ i \in 1 .. Len(progress[q])
        /\ steps' = IF steps[q] = <<>> THEN steps
                    ELSE [steps EXCEPT ![q][i] = progress[q][i]]
        /\ job' = [job EXCEPT !.next = i + 1]
        /\ UNCHANGED <<memory, rows, account, history>>

\* ... and a quest that was finished is deleted and erased.
Written(q) ==
    /\ Writes(q) /\ job.next > Len(progress[q])
    /\ job' = [job EXCEPT !.quest = None, !.next = 0]
    /\ IF job.op = "check"
       THEN /\ objects' = objects \ {q}
            /\ progress' = [progress EXCEPT ![q] = <<>>]
            /\ completed' = [completed EXCEPT ![q] = FALSE]
       ELSE UNCHANGED <<objects, progress, completed>>
    /\ UNCHANGED <<player, purse, database, history>>

\* Nothing of a player is left in memory.
Forget ==
    /\ player' = "out"
    /\ objects' = {}
    /\ progress' = [q \in Quest |-> <<>>]
    /\ completed' = [q \in Quest |-> FALSE]
    /\ purse' = [q \in Quest |-> 0]
    /\ job' = Idle

\* All quests are visited: the handler ends, loads them again, or the player is deleted.
Visited ==
    /\ job.op \in {"check", "save", "load"} /\ job.quest = None /\ job.left = {}
    /\ CASE job.then = "end" -> job' = Idle /\ UNCHANGED memory
         [] job.then = "load" -> LoadQuests /\ UNCHANGED <<player, purse>>
         [] job.then = "leave" -> Forget
    /\ UNCHANGED <<database, history>>

-----------------------------------------------------------------------------
\* Events and requests.

\* A condition of kind k counts, in order: p is the progress with what came before.
\* What else an event must match (the NPC, the ore, the map, which a visit compares
\* with itself when it is given as a number) is part of the kind; the timer counts
\* up to the target, as the others do.
Counts(q, k, p, i) ==
    /\ Conditions[q][i].kind = k
    /\ q \in Ordered => \A j \in 1 .. i - 1 : p[j].done

\* The time is up for no condition before all others are fulfilled.
Fulfils(q, k, p, i) ==
    k = Timer => /\ \A j \in 1 .. i - 1 : p[j].done
                 /\ \A j \in i + 1 .. Len(p) : progress[q][j].done

\* The loop over the conditions turns progress[q] into p.
Follows(q, k, p) ==
    \A i \in 1 .. Len(progress[q]) :
        LET n == IF progress[q][i].n < Target(q, i) THEN progress[q][i].n + 1
                                                    ELSE progress[q][i].n
        IN  p[i] = IF Counts(q, k, p, i)
                   THEN [n |-> n, done |-> progress[q][i].done
                                              \/ (n >= Target(q, i) /\ Fulfils(q, k, p, i))]
                   ELSE progress[q][i]

\* Slip: the last condition is not looked at.
AllCompletedButLast(q, p) ==
    \A i \in 1 .. Len(p) - 1 : p[i].done \/ Conditions[q][i].kind = Timer

\* All conditions of the loaded progress, but for those that count the time.
AllCompleted(q, p) ==
    \A i \in 1 .. Len(p) : p[i].done \/ Conditions[q][i].kind = Timer

\* CheckQuestCondition, for each quest of the player.
Event(k) ==
    /\ Online
    /\ job' = Job("check", objects, None, 0, k, "end")
    /\ UNCHANGED <<memory, database, history>>

\* Progress that one loop can reach.
Reachable(q) ==
    [1 .. Len(progress[q]) ->
        [n : UNION {{progress[q][i].n, progress[q][i].n + 1} : i \in 1 .. Len(progress[q])},
         done : BOOLEAN]]

\* The conditions count, and a quest that is completed pays its reward and is saved.
CheckQuest(q) ==
    /\ job.op = "check" /\ job.quest = None /\ q \in job.left
    /\ \E p \in Reachable(q) :
          /\ Follows(q, job.kind, p)
          /\ progress' = [progress EXCEPT ![q] = p]
          /\ played' = [played EXCEPT ![q] = [i \in 1 .. Size(q) |->
                IF i <= Len(p) /\ Counts(q, job.kind, p, i) /\ @[i] < Target(q, i)
                THEN @[i] + 1 ELSE @[i]]]
          /\ IF AllCompleted(q, p)
             THEN /\ purse' = [purse EXCEPT ![q] = @ + 1]
                  /\ completed' = [completed EXCEPT ![q] = TRUE]
                  /\ job' = [job EXCEPT !.left = @ \ {q}, !.quest = q, !.next = 0]
             ELSE /\ job' = [job EXCEPT !.left = @ \ {q}]
                  /\ UNCHANGED <<purse, completed>>
    /\ UNCHANGED <<player, objects, database, broken, lost>>

\* HandleUpdateQuests, new or update: the quests are saved and loaded again.
UpdateQuests ==
    /\ Online
    /\ job' = Job("save", objects, None, 0, None, "load")
    /\ UNCHANGED <<memory, database, history>>

\* HandleUpdateQuests, abandoned: the rows of the conditions are deleted ...
CancelQuest(q) ==
    /\ Online /\ q \in objects
    /\ steps' = [steps EXCEPT ![q] = <<>>]
    /\ job' = Job("cancel", {}, q, 0, None, "load")
    /\ UNCHANGED <<memory, rows, account, history>>

\* ... that of the quest, and the object ...
CancelRow ==
    LET q == job.quest
    IN  /\ job.op = "cancel" /\ job.next = 0
        /\ rows' = [rows EXCEPT ![q] = "none"]
        /\ objects' = objects \ {q}
        /\ progress' = [progress EXCEPT ![q] = <<>>]
        /\ job' = [job EXCEPT !.next = 1]
        /\ UNCHANGED <<player, completed, purse, steps, account, history>>

\* ... and the player is saved before the quests are loaded again.
CancelSave ==
    /\ job.op = "cancel" /\ job.next = 1
    /\ account' = purse
    /\ job' = Job("save", objects, None, 0, None, "load")
    /\ UNCHANGED <<memory, rows, steps, history>>

\* The server ends, and the rows stay as they are.
Crash ==
    /\ player = "in"
    /\ Forget
    /\ broken' = IF job.op = "cancel" /\ job.next = 0 THEN broken \cup {job.quest} ELSE broken
    /\ lost' = lost \cup {q \in Quest : rows[q] = "completed" /\ account[q] < purse[q]}
    /\ UNCHANGED <<database, played>>

-----------------------------------------------------------------------------

Work ==
    \/ \E q \in Quest : \/ LoadQuest(q) \/ SaveQuest(q)
                        \/ WriteRow(q) \/ WriteStep(q) \/ Written(q) \/ CheckQuest(q)
    \/ Visited \/ CancelRow \/ CancelSave

Next ==
    \/ Work
    \/ \E q \in Quest : Accept(q) \/ CancelQuest(q)
    \/ Login \/ SaveToDB("end") \/ SaveToDB("leave") \/ UpdateQuests \/ Crash
    \/ \E k \in Kinds : Event(k)

Spec == Init /\ [][Next]_vars

-----------------------------------------------------------------------------

\* Over crashes, reloads and half-written saves, a quest that was paid has had an event
\* for every target, the time apart, or its cancelling was cut short by a crash.
PaidMeansFulfilled ==
    \A q \in Quest :
        purse[q] > 0 \/ account[q] > 0 \/ rows[q] = "completed" =>
            \/ q \in broken
            \/ \A i \in 1 .. Size(q) :
                  Conditions[q][i].kind = Timer \/ played[q][i] >= Target(q, i)

\* However often the server crashes between the reward and the rows, nobody has the
\* reward of a quest twice.
NotPaidTwice == \A q \in Quest : purse[q] <= 1 /\ account[q] <= 1

\* The reward of a completed quest is in the table, or on its way there in the memory of
\* a player who is in the game; only a crash can lose it.
RewardsSurviveLogout ==
    \A q \in Quest :
        rows[q] = "completed" => account[q] = 1 \/ purse[q] = 1 \/ q \in lost

\* A completed quest is worth its reward once: never twice, and nothing but a crash
\* makes it less.
RewardedOnce == NotPaidTwice /\ RewardsSurviveLogout

\* Where the reward of a quest is: a row that is completed promises it, and the credits
\* in the table, which are written by another handler, pay it.
Reward(q) ==
    CASE account[q] > 0 -> "paid"
      [] account[q] = 0 /\ purse[q] > 0 ->
            IF rows[q] = "completed" THEN "promised" ELSE "earned"
      [] account[q] = 0 /\ purse[q] = 0 ->
            IF rows[q] = "completed" THEN IF q \in lost THEN "lost" ELSE "missing"
                                     ELSE "open"

\* Over all saves, logins and crashes the credits in memory and in the table are the
\* account of Rewards: each reward is paid once, and only a crash loses one.
Account == INSTANCE Rewards WITH reward <- [q \in Quest |-> Reward(q)], paid <- account

ImplementsRewards == Account!Spec

\* A crash in the middle of a save leaves no condition of an ordered quest begun before
\* the ones it waits for are done.
OrderKept ==
    \A q \in Ordered : \A p \in {progress[q], steps[q]} :
        \A i \in 1 .. Len(p) : p[i].n > 0 => \A j \in 1 .. i - 1 : p[j].done

=============================================================================
