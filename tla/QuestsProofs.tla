---------------------------- MODULE QuestsProofs ----------------------------
(***************************************************************************)
(* The quests and their rows, for any quests and conditions: what is paid, *)
(* and what saves, reloads and crashes between any two statements leave.   *)
(***************************************************************************)
EXTENDS Quests, SequenceTheorems, TLAPS

\* The quest is finished and its rows are written.
Paying(q) == job.op = "check" /\ job.quest = q

\* The rows of the conditions are deleted, that of the quest is not.
Cancelling(q) == job.op = "cancel" /\ job.quest = q /\ job.next = 0

\* A handler visits the quests in memory; a load visits open quests only.
JobIsSound ==
    /\ player = "out" => job = Idle /\ objects = {}
    /\ job.op = "idle" => job = Idle
    /\ job.op = "check" => job.then = "end" /\ job.kind \in Kinds
    /\ job.op \in {"check", "save"} =>
          /\ job.left \subseteq objects
          /\ job.quest # None => job.quest \in objects \ job.left
    /\ job.op = "load" =>
          /\ job.quest = None /\ job.then = "end"
          /\ \A q \in job.left : rows[q] = "open"
    /\ job.op = "cancel" =>
          /\ job.left = {} /\ job.quest \in Quest /\ job.next \in {0, 1} /\ job.then = "load"
          /\ job.next = 0 => job.quest \in objects

\* Before the web site accepts a quest there is nothing of it.
NotAccepted ==
    \A q \in Quest : played[q] = <<>> =>
        /\ rows[q] = "none" /\ purse[q] = 0 /\ account[q] = 0
        /\ q \notin objects /\ steps[q] = <<>>

\* What is in memory is open; only the quest that is being finished is completed, and
\* is so in its row after the first statement.
ObjectsAreOpen ==
    /\ \A q \in objects : rows[q] = "open" \/ Paying(q)
    /\ \A q \in Quest : completed[q] <=> Paying(q)
    /\ \A q \in Quest : Paying(q) =>
          /\ rows[q] # "none" /\ purse[q] = 1
          /\ job.next >= 1 => rows[q] = "completed"

\* The reward of a quest is in the table once its row says so, and before that in memory.
RewardIsOne ==
    \A q \in Quest :
        /\ purse[q] \in {0, 1} /\ account[q] \in {0, 1}
        /\ rows[q] # "completed" => account[q] = 0
        /\ rows[q] # "completed" /\ ~Paying(q) => purse[q] = 0
        /\ player = "in" => account[q] <= purse[q]
        /\ player = "out" => purse[q] = 0
        /\ job.then = "leave" => account[q] = purse[q]

\* Progress and rows are those of all conditions; only a quest whose cancelling was
\* cut short has none.
AllConditions ==
    \A q \in Quest :
        /\ progress[q] = <<>> \/ Len(progress[q]) = Size(q)
        /\ steps[q] = <<>> \/ Len(steps[q]) = Size(q)
        /\ played[q] = <<>> \/ Len(played[q]) = Size(q)
        /\ q \notin objects => progress[q] = <<>>
        /\ q \in objects /\ progress[q] = <<>> => q \in broken
        /\ rows[q] = "open" /\ ~Cancelling(q) /\ steps[q] = <<>> => q \in broken
        /\ q \in objects /\ steps[q] # <<>> => progress[q] # <<>>

\* No condition has counted more than happened, and it is done when it reached its target.
Honest(q, p) ==
    \A i \in 1 .. Len(p) :
        /\ p[i].n <= played[q][i]
        /\ p[i].done => p[i].n >= Target(q, i)

Counted == \A q \in Quest : Honest(q, progress[q]) /\ Honest(q, steps[q])

\* The rows are behind the memory, and a save that is under way has made its first
\* part equal.
RowsAreBehind ==
    \A q \in objects : steps[q] # <<>> =>
        /\ \A i \in 1 .. Size(q) : steps[q][i].done => progress[q][i].done
        /\ Writes(q) => \A i \in 1 .. Size(q) : i < job.next => steps[q][i] = progress[q][i]

\* The inductive invariant.
IInv ==
    /\ TypeOK /\ JobIsSound /\ NotAccepted /\ ObjectsAreOpen /\ RewardIsOne
    /\ AllConditions /\ Counted /\ RowsAreBehind
    /\ PaidMeansFulfilled /\ RewardsSurviveLogout /\ OrderKept

-----------------------------------------------------------------------------
\* The parts of the invariant that speak of the progress, and of what it became.
Parts == AllConditions /\ Counted /\ RowsAreBehind /\ OrderKept

\* What a template says of its conditions.
LEMMA Templates ==
    ASSUME NEW q \in Quest
    PROVE  /\ Size(q) \in Nat \ {0}
           /\ \A i \in 1 .. Size(q) : Target(q, i) \in Nat \ {0} /\ Conditions[q][i].kind \in Kinds
  <1>1. Conditions[q] \in Seq([kind : Kinds, target : Nat \ {0}]) /\ Conditions[q] # <<>>
    BY QuestsAssumption
  <1>2. Len(Conditions[q]) \in Nat \ {0}
    BY <1>1, EmptySeq
  <1>3. \A i \in 1 .. Len(Conditions[q]) : Conditions[q][i] \in [kind : Kinds, target : Nat \ {0}]
    BY <1>1, ElementOfSeq
  <1> QED
    BY <1>2, <1>3 DEF Size, Target

\* The sequences of a state in which TypeOK holds.
LEMMA Sequences ==
    ASSUME TypeOK, NEW q \in Quest
    PROVE  /\ Len(progress[q]) \in Nat /\ Len(steps[q]) \in Nat /\ Len(played[q]) \in Nat
           /\ progress[q] \in [1 .. Len(progress[q]) -> Step]
           /\ steps[q] \in [1 .. Len(steps[q]) -> Step]
           /\ played[q] \in [1 .. Len(played[q]) -> Nat]
           /\ progress[q] = <<>> <=> Len(progress[q]) = 0
           /\ steps[q] = <<>> <=> Len(steps[q]) = 0
           /\ played[q] = <<>> <=> Len(played[q]) = 0
  <1>1. progress[q] \in Seq(Step) /\ steps[q] \in Seq(Step) /\ played[q] \in Seq(Nat)
    BY DEF TypeOK
  <1> QED
    BY <1>1, EmptySeq, LenProperties

\* A function on 1 .. n is a sequence of length n.
LEMMA FunctionIsSeq ==
    ASSUME NEW S, NEW n \in Nat, NEW f \in [1 .. n -> S]
    PROVE  f \in Seq(S) /\ Len(f) = n /\ (n > 0 => f # <<>>)
  <1>1. f \in Seq(S)
    BY SeqDef
  <1>2. Len(f) \in Nat /\ 1 .. Len(f) = 1 .. n
    BY <1>1, LenProperties
  <1>3. Len(f) = n
    BY <1>2
  <1> QED
    BY <1>1, <1>3, EmptySeq

LEMMA InitIInv == Init => IInv
  <1> SUFFICES ASSUME Init PROVE IInv
    OBVIOUS
  <1> USE QuestsAssumption DEF Init, Idle, Job
  <1>1. TypeOK
    BY EmptySeq DEF TypeOK
  <1>2. JobIsSound /\ NotAccepted /\ ObjectsAreOpen /\ RewardIsOne
    BY DEF JobIsSound, NotAccepted, ObjectsAreOpen, RewardIsOne, Paying
  <1>3. Parts
    BY DEF Parts, AllConditions, Counted, Honest, RowsAreBehind, OrderKept, Cancelling, Writes
  <1>4. PaidMeansFulfilled /\ RewardsSurviveLogout
    BY DEF PaidMeansFulfilled, RewardsSurviveLogout
  <1> QED
    BY <1>1, <1>2, <1>3, <1>4 DEF IInv, Parts

-----------------------------------------------------------------------------
\* The web site accepts a quest.
LEMMA AcceptIInv ==
    ASSUME IInv, NEW q \in Quest, Accept(q)
    PROVE  IInv'
  <1> USE DEF Accept, memory
  <1>1. rows[q] = "none" /\ purse[q] = 0 /\ account[q] = 0 /\ q \notin objects
    BY DEF IInv, NotAccepted
  <1>2. ~Paying(q) /\ ~Cancelling(q)
    BY <1>1 DEF IInv, ObjectsAreOpen, JobIsSound, Paying, Cancelling
  <1>3. /\ Fresh(q) \in Seq(Step) /\ Len(Fresh(q)) = Size(q) /\ Fresh(q) # <<>>
        /\ [i \in 1 .. Size(q) |-> 0] \in Seq(Nat)
        /\ Len([i \in 1 .. Size(q) |-> 0]) = Size(q)
        /\ [i \in 1 .. Size(q) |-> 0] # <<>>
    <2>1. Size(q) \in Nat \ {0}
      BY Templates
    <2>2. Fresh(q) \in [1 .. Size(q) -> Step] /\ [i \in 1 .. Size(q) |-> 0] \in [1 .. Size(q) -> Nat]
      BY DEF Fresh, Step
    <2>3. Fresh(q) \in Seq(Step) /\ Len(Fresh(q)) = Size(q) /\ Fresh(q) # <<>>
      BY <2>1, <2>2, FunctionIsSeq
    <2> DEFINE zero == [i \in 1 .. Size(q) |-> 0]
    <2>4. zero \in [1 .. Size(q) -> Nat]
      OBVIOUS
    <2> HIDE DEF zero
    <2>5. zero \in Seq(Nat) /\ Len(zero) = Size(q) /\ zero # <<>>
      BY <2>1, <2>4, FunctionIsSeq
    <2> QED
      BY <2>3, <2>5 DEF zero
  <1>4. TypeOK'
    BY <1>3 DEF IInv, TypeOK
  <1>5. JobIsSound'
    BY <1>1 DEF IInv, JobIsSound
  <1>6. NotAccepted'
    BY <1>3 DEF IInv, TypeOK, NotAccepted
  <1>7. ObjectsAreOpen'
    BY <1>1, <1>2 DEF IInv, TypeOK, ObjectsAreOpen, Paying
  <1>8. RewardIsOne'
    BY <1>1, <1>2 DEF IInv, TypeOK, RewardIsOne, Paying
  <1>9. AllConditions'
    BY <1>1, <1>3 DEF IInv, TypeOK, AllConditions, Cancelling
  <1>10. Counted'
    <2>1. progress[q] = <<>>
      BY <1>1 DEF IInv, AllConditions
    <2>2. Honest(q, progress[q])' /\ Honest(q, steps[q])'
      BY <1>3, <2>1, Templates DEF IInv, TypeOK, Honest, Fresh
    <2> QED
      BY <2>2 DEF IInv, TypeOK, Counted, Honest
  <1>11. RowsAreBehind'
    BY <1>1 DEF IInv, TypeOK, RowsAreBehind, Writes
  <1>12. PaidMeansFulfilled' /\ RewardsSurviveLogout'
    BY <1>1 DEF IInv, TypeOK, PaidMeansFulfilled, RewardsSurviveLogout
  <1>13. OrderKept'
    <2> SUFFICES ASSUME NEW o \in Ordered, NEW p \in {progress[o], steps'[o]},
                        NEW i \in 1 .. Len(p), p[i].n > 0, NEW j \in 1 .. i - 1
                 PROVE  p[j].done
      BY DEF OrderKept
    <2>1. CASE o = q /\ p = steps'[o]
      <3>1. p = Fresh(q)
        BY <2>1 DEF IInv, TypeOK
      <3>2. i \in 1 .. Size(q)
        BY <3>1, <1>3
      <3> QED
        BY <3>1, <3>2 DEF Fresh
    <2>2. CASE ~(o = q /\ p = steps'[o])
      <3>1. p \in {progress[o], steps[o]}
        BY <2>2, QuestsAssumption DEF IInv, TypeOK
      <3> QED
        BY <3>1 DEF IInv, OrderKept
    <2> QED
      BY <2>1, <2>2
  <1> QED
    BY <1>4, <1>5, <1>6, <1>7, <1>8, <1>9, <1>10, <1>11, <1>12, <1>13 DEF IInv

-----------------------------------------------------------------------------
\* Loading, saving and leaving.

\* LoadQuests begins, at a login or when a handler is through with the quests.
LEMMA LoadQuestsIInv ==
    ASSUME IInv, LoadQuests, player' = "in",
           \A q \in Quest : ~Paying(q) /\ ~Cancelling(q),
           (player = "in" /\ purse' = purse) \/ (player = "out" /\ purse' = account),
           UNCHANGED <<database, history>>
    PROVE  IInv'
  <1> USE DEF LoadQuests, database, history
  <1>1. TypeOK'
    BY EmptySeq DEF IInv, TypeOK, Job
  <1>2. \A q \in Quest : ~Paying(q)' /\ ~Cancelling(q)' /\ ~Writes(q)'
    BY DEF Paying, Cancelling, Writes, Job
  <1>3. JobIsSound'
    BY DEF JobIsSound, Job
  <1>4. NotAccepted' /\ ObjectsAreOpen'
    BY <1>2 DEF IInv, TypeOK, NotAccepted, ObjectsAreOpen
  <1>5. RewardIsOne'
    <2>1. job'.then = "end"
      BY DEF Job
    <2>2. CASE player = "in" /\ purse' = purse
      BY <1>2, <2>1, <2>2 DEF IInv, TypeOK, RewardIsOne
    <2>3. CASE player = "out" /\ purse' = account
      BY <1>2, <2>1, <2>3 DEF IInv, TypeOK, RewardIsOne
    <2> QED
      BY <2>2, <2>3
  <1>6. AllConditions'
    BY <1>2 DEF IInv, TypeOK, AllConditions
  <1>7. Counted'
    <2>1. ASSUME NEW q \in Quest PROVE Honest(q, progress[q])' /\ Honest(q, steps[q])'
      <3>1. progress'[q] = <<>> /\ Len(<<>>) = 0
        OBVIOUS
      <3> QED
        BY <3>1 DEF IInv, Counted, Honest
    <2> QED
      BY <2>1 DEF Counted
  <1>8. RowsAreBehind'
    BY DEF RowsAreBehind
  <1>9. PaidMeansFulfilled' /\ RewardsSurviveLogout'
    BY DEF IInv, TypeOK, PaidMeansFulfilled, RewardsSurviveLogout, RewardIsOne
  <1>10. OrderKept'
    <2>1. \A q \in Ordered : progress'[q] = <<>> /\ Len(<<>>) = 0
      BY QuestsAssumption
    <2> QED
      BY <2>1 DEF IInv, OrderKept
  <1> QED
    BY <1>1, <1>3, <1>4, <1>5, <1>6, <1>7, <1>8, <1>9, <1>10 DEF IInv

LEMMA LoginIInv ==
    ASSUME IInv, Login
    PROVE  IInv'
  <1>1. job = Idle
    BY DEF Login, IInv, JobIsSound
  <1>2. \A q \in Quest : ~Paying(q) /\ ~Cancelling(q)
    BY <1>1 DEF Idle, Job, Paying, Cancelling
  <1> QED
    BY <1>2, LoadQuestsIInv DEF Login

\* A quest is made from its rows.
LEMMA LoadQuestIInv ==
    ASSUME IInv, NEW q \in Quest, LoadQuest(q)
    PROVE  IInv'
  <1> USE DEF LoadQuest, database, history
  <1>1. job.op = "load" /\ job.quest = None /\ job.then = "end" /\ rows[q] = "open"
    BY DEF IInv, JobIsSound
  <1>2. /\ job'.op = "load" /\ job'.quest = None /\ job'.then = "end"
        /\ job'.left \subseteq job.left
    BY <1>1 DEF IInv, TypeOK
  <1>3. \A r \in Quest : ~Paying(r) /\ ~Paying(r)' /\ ~Cancelling(r) /\ ~Cancelling(r)' /\ ~Writes(r)'
    BY <1>1, <1>2 DEF Paying, Cancelling, Writes
  <1>4. played[q] # <<>>
    BY <1>1 DEF IInv, NotAccepted
  <1>5. TypeOK'
    BY DEF IInv, TypeOK
  <1>6. JobIsSound'
    BY <1>1, <1>2 DEF IInv, JobIsSound, Idle, Job
  <1>7. NotAccepted' /\ ObjectsAreOpen'
    BY <1>1, <1>3, <1>4 DEF IInv, TypeOK, NotAccepted, ObjectsAreOpen
  <1>8. RewardIsOne'
    BY <1>1, <1>2, <1>3 DEF IInv, TypeOK, RewardIsOne
  <1>9. AllConditions'
    BY <1>1, <1>3 DEF IInv, TypeOK, AllConditions
  <1>10. Counted'
    BY DEF IInv, TypeOK, Counted, Honest
  <1>11. RowsAreBehind'
    BY <1>3 DEF IInv, TypeOK, RowsAreBehind
  <1>12. PaidMeansFulfilled' /\ RewardsSurviveLogout'
    BY DEF IInv, PaidMeansFulfilled, RewardsSurviveLogout
  <1>13. OrderKept'
    <2>1. \A o \in Ordered : progress'[o] \in {progress[o], steps[o]}
      BY QuestsAssumption DEF IInv, TypeOK
    <2> QED
      BY <2>1 DEF IInv, OrderKept
  <1> QED
    BY <1>5, <1>6, <1>7, <1>8, <1>9, <1>10, <1>11, <1>12, <1>13 DEF IInv

\* The steps that only choose what a handler does next, and what a save of the player
\* writes to the table of the users.
LEMMA JobIInv ==
    ASSUME IInv, UNCHANGED <<memory, rows, steps, history>>,
           job' \in [op : {"idle", "check", "save", "cancel", "load"}, left : SUBSET Quest,
                     quest : Quest \cup {None}, next : Nat, kind : Kinds \cup {None},
                     then : {"end", "load", "leave"}],
           \A q \in Quest : /\ ~Paying(q) /\ ~Paying(q)' /\ ~Cancelling(q) /\ ~Cancelling(q)'
                            /\ Writes(q)' => job'.next = 0,
           \/ account' = account /\ (job'.then = "leave" => job.then = "leave")
           \/ account' = purse /\ player = "in",
           JobIsSound'
    PROVE  IInv'
  <1> USE DEF memory, history
  <1>1. TypeOK'
    BY DEF IInv, TypeOK
  <1>2. NotAccepted' /\ ObjectsAreOpen'
    BY DEF IInv, TypeOK, NotAccepted, ObjectsAreOpen
  <1>3. RewardIsOne' /\ RewardsSurviveLogout'
    <2>1. CASE account' = account /\ (job'.then = "leave" => job.then = "leave")
      BY <2>1 DEF IInv, TypeOK, RewardIsOne, RewardsSurviveLogout
    <2>2. CASE account' = purse /\ player = "in"
      <3>1. RewardIsOne'
        <4>1. \A q \in Quest : rows[q] # "completed" => purse[q] = 0
          BY DEF IInv, RewardIsOne
        <4> QED
          BY <2>2, <4>1 DEF IInv, TypeOK, RewardIsOne
      <3>2. RewardsSurviveLogout'
        BY <2>2 DEF IInv, TypeOK, RewardIsOne, RewardsSurviveLogout
      <3> QED
        BY <3>1, <3>2
    <2> QED
      BY <2>1, <2>2
  <1>4. AllConditions' /\ Counted'
    BY DEF IInv, AllConditions, Counted, Honest
  <1>5. RowsAreBehind'
    <2> SUFFICES ASSUME NEW q \in objects, steps[q] # <<>>
                 PROVE  /\ \A i \in 1 .. Size(q) : steps[q][i].done => progress[q][i].done
                        /\ Writes(q)' => \A i \in 1 .. Size(q) :
                               i < job'.next => steps[q][i] = progress[q][i]
      BY DEF RowsAreBehind
    <2> QED
      <3>1. q \in Quest /\ Size(q) \in Nat
        BY Templates DEF IInv, TypeOK
      <3>2. \A i \in 1 .. Size(q) : steps[q][i].done => progress[q][i].done
        BY DEF IInv, RowsAreBehind
      <3>3. Writes(q)' => \A i \in 1 .. Size(q) : ~(i < job'.next)
        BY <3>1
      <3> QED
        BY <3>2, <3>3
  <1>6. PaidMeansFulfilled' /\ OrderKept'
    BY DEF IInv, PaidMeansFulfilled, OrderKept
  <1> QED
    BY <1>1, <1>2, <1>3, <1>4, <1>5, <1>6 DEF IInv

\* A handler of the zone, of the web site or of the player itself begins.
LEMMA OnlineIInv ==
    ASSUME IInv,
           \/ \E k \in Kinds : Event(k)
           \/ SaveToDB("end") \/ SaveToDB("leave") \/ UpdateQuests
    PROVE  IInv'
  <1>1. \A q \in Quest : ~Paying(q) /\ ~Cancelling(q)
    BY DEF Event, SaveToDB, UpdateQuests, Online, Idle, Job, Paying, Cancelling
  <1>2. player = "in" /\ objects \subseteq Quest
    BY DEF Event, SaveToDB, UpdateQuests, Online, IInv, TypeOK
  <1>3. ASSUME NEW k \in Kinds, Event(k) PROVE IInv'
    <2>1. JobIsSound'
      BY <1>2, <1>3 DEF Event, memory, JobIsSound, Job
    <2>2. job' = [op |-> "check", left |-> objects, quest |-> None, next |-> 0, kind |-> k,
                  then |-> "end"]
      BY <1>3 DEF Event, Job
    <2>3. \A q \in Quest : ~Paying(q)' /\ ~Cancelling(q)' /\ ~Writes(q)'
      BY <2>2, QuestsAssumption DEF Paying, Cancelling, Writes
    <2> QED
      BY <1>1, <1>2, <1>3, <2>1, <2>2, <2>3, JobIInv DEF Event, database, history
  <1>4. ASSUME NEW then \in {"end", "leave"}, SaveToDB(then) PROVE IInv'
    <2>1. JobIsSound'
      BY <1>2, <1>4 DEF SaveToDB, memory, JobIsSound, Job
    <2> QED
      BY <1>1, <1>2, <1>4, <2>1, JobIInv DEF SaveToDB, database, history, Job, Paying, Cancelling, Writes
  <1>5. CASE UpdateQuests
    <2>1. JobIsSound'
      BY <1>2, <1>5 DEF UpdateQuests, memory, JobIsSound, Job
    <2> QED
      BY <1>1, <1>2, <1>5, <2>1, JobIInv DEF UpdateQuests, database, history, Job, Paying, Cancelling, Writes
  <1> QED
    BY <1>3, <1>4, <1>5

LEMMA SaveQuestIInv ==
    ASSUME IInv, NEW q \in Quest, SaveQuest(q)
    PROVE  IInv'
  <1>1. job.op = "save" /\ job.quest = None /\ q \in job.left /\ job.left \subseteq objects
    BY DEF SaveQuest, IInv, JobIsSound
  <1>2. /\ job'.op = "save" /\ job'.quest = q /\ job'.next = 0 /\ job'.left = job.left \ {q}
        /\ job'.then = job.then /\ job'.kind = job.kind
    BY <1>1 DEF SaveQuest, IInv, TypeOK
  <1>3. \A r \in Quest : ~Paying(r) /\ ~Paying(r)' /\ ~Cancelling(r) /\ ~Cancelling(r)'
    BY <1>1, <1>2 DEF Paying, Cancelling
  <1>4. JobIsSound'
    BY <1>1, <1>2 DEF SaveQuest, memory, IInv, JobIsSound, Idle, Job
  <1> QED
    BY <1>2, <1>3, <1>4, JobIInv DEF SaveQuest, database, history, IInv, TypeOK, Writes

\* The row of a quest: it changes only when the quest is finished.
LEMMA WriteRowIInv ==
    ASSUME IInv, NEW q \in Quest, WriteRow(q)
    PROVE  IInv'
  <1> USE DEF WriteRow, memory, history
  <1>1. /\ job'.op = job.op /\ job'.quest = job.quest /\ job'.next = 1 /\ job'.left = job.left
        /\ job'.then = job.then /\ job'.kind = job.kind
    BY DEF IInv, TypeOK
  <1>2. job.op \in {"check", "save"} /\ job.quest = q /\ q \in objects /\ player = "in"
    BY QuestsAssumption DEF Writes, IInv, JobIsSound, TypeOK, Idle, Job
  <1>3. \A r \in Quest : (Paying(r)' <=> Paying(r)) /\ ~Cancelling(r) /\ ~Cancelling(r)'
    BY <1>1, <1>2 DEF Paying, Cancelling
  <1>4. rows' = IF Paying(q) THEN [rows EXCEPT ![q] = "completed"] ELSE rows
    <2>1. CASE Paying(q)
      BY <2>1 DEF IInv, TypeOK, ObjectsAreOpen
    <2>2. CASE ~Paying(q)
      <3>1. rows[q] = "open" /\ ~completed[q]
        BY <1>2, <2>2 DEF IInv, TypeOK, ObjectsAreOpen
      <3> QED
        BY <2>2, <3>1 DEF IInv, TypeOK
    <2> QED
      BY <2>1, <2>2
  <1>5. Paying(q) => rows[q] # "none" /\ purse[q] = 1 /\ played[q] # <<>>
    BY DEF IInv, ObjectsAreOpen, NotAccepted
  <1>6. TypeOK'
    BY <1>4 DEF IInv, TypeOK
  <1>7. JobIsSound'
    BY <1>1, <1>2 DEF IInv, JobIsSound
  <1>8. NotAccepted'
    BY <1>4, <1>5 DEF IInv, TypeOK, NotAccepted
  <1>9. ObjectsAreOpen'
    BY <1>1, <1>2, <1>3, <1>4 DEF IInv, TypeOK, ObjectsAreOpen, Paying
  <1>10. RewardIsOne'
    BY <1>1, <1>3, <1>4, <1>5 DEF IInv, TypeOK, RewardIsOne
  <1>11. AllConditions' /\ Counted'
    BY <1>3, <1>4 DEF IInv, TypeOK, AllConditions, Counted, Honest
  <1>12. RowsAreBehind'
    <2> SUFFICES ASSUME NEW r \in objects, steps[r] # <<>>
                 PROVE  /\ \A i \in 1 .. Size(r) : steps[r][i].done => progress[r][i].done
                        /\ \A i \in 1 .. Size(r) : ~(i < 1)
      BY <1>1 DEF RowsAreBehind
    <2>1. r \in Quest /\ Size(r) \in Nat
      BY Templates DEF IInv, TypeOK
    <2> QED
      BY <2>1 DEF IInv, RowsAreBehind
  <1>13. PaidMeansFulfilled' /\ RewardsSurviveLogout'
    <2>1. RewardsSurviveLogout'
      BY <1>4, <1>5 DEF IInv, TypeOK, RewardsSurviveLogout
    <2>2. \A r \in Quest : rows'[r] = "completed" => rows[r] = "completed" \/ purse[r] > 0
      BY <1>4, <1>5 DEF IInv, TypeOK
    <2> QED
      BY <2>1, <2>2 DEF IInv, PaidMeansFulfilled
  <1>14. OrderKept'
    BY DEF IInv, OrderKept
  <1> QED
    BY <1>6, <1>7, <1>8, <1>9, <1>10, <1>11, <1>12, <1>13, <1>14 DEF IInv

\* The row of a condition takes what is in memory.
LEMMA WriteStepIInv ==
    ASSUME IInv, NEW q \in Quest, WriteStep(q)
    PROVE  IInv'
  <1> DEFINE i == job.next
  <1> USE DEF memory, history
  <1>1. /\ Writes(q) /\ i \in 1 .. Len(progress[q])
        /\ steps' = IF steps[q] = <<>> THEN steps ELSE [steps EXCEPT ![q][i] = progress[q][i]]
        /\ UNCHANGED <<memory, rows, account, history>>
    BY DEF WriteStep
  <1> HIDE DEF i
  <1>2. /\ job'.op = job.op /\ job'.quest = job.quest /\ job'.next = i + 1 /\ job'.left = job.left
        /\ job'.then = job.then /\ job'.kind = job.kind
        /\ job' \in [op : {"idle", "check", "save", "cancel", "load"}, left : SUBSET Quest,
                     quest : Quest \cup {None}, next : Nat, kind : Kinds \cup {None},
                     then : {"end", "load", "leave"}]
    <2>1. job' = [job EXCEPT !.next = i + 1] /\ i \in Nat
      BY DEF WriteStep, IInv, TypeOK, i
    <2>2. job \in [op : {"idle", "check", "save", "cancel", "load"}, left : SUBSET Quest,
                   quest : Quest \cup {None}, next : Nat, kind : Kinds \cup {None},
                   then : {"end", "load", "leave"}]
      BY DEF IInv, TypeOK
    <2> QED
      BY <2>1, <2>2
  <1>3. job.op \in {"check", "save"} /\ job.quest = q /\ q \in objects /\ player = "in"
    BY <1>1, QuestsAssumption DEF Writes, IInv, JobIsSound, TypeOK, Idle, Job
  <1>4. \A r \in Quest : (Paying(r)' <=> Paying(r)) /\ ~Cancelling(r) /\ ~Cancelling(r)'
                         /\ (Writes(r)' <=> Writes(r))
    BY <1>2, <1>3 DEF Paying, Cancelling, Writes
  <1>5. /\ Len(progress[q]) \in Nat /\ progress[q] \in [1 .. Len(progress[q]) -> Step]
        /\ progress[q] # <<>> /\ Len(progress[q]) = Size(q)
    BY <1>1, Sequences DEF IInv, AllConditions
  <1>6. CASE steps[q] = <<>>
    <2>1. UNCHANGED <<memory, database, history>>
      BY <1>1, <1>6 DEF database
    <2>2. TypeOK' /\ JobIsSound' /\ NotAccepted' /\ RewardIsOne'
      BY <1>2, <1>3, <1>4, <2>1 DEF database, IInv, TypeOK, JobIsSound, NotAccepted, RewardIsOne
    <2>3. ObjectsAreOpen'
      BY <1>1, <1>2, <1>3, <1>4, <1>5, <2>1 DEF database, IInv, TypeOK, ObjectsAreOpen, i
    <2>4. AllConditions' /\ Counted' /\ OrderKept'
      BY <1>4, <2>1 DEF database, IInv, AllConditions, Counted, Honest, OrderKept
    <2>5. RowsAreBehind'
      <3>1. \A r \in Quest : Writes(r) => r = q
        BY <1>3 DEF Writes
      <3>2. objects \subseteq Quest
        BY DEF IInv, TypeOK
      <3> QED
        BY <1>4, <1>6, <2>1, <3>1, <3>2 DEF database, IInv, RowsAreBehind
    <2>6. PaidMeansFulfilled' /\ RewardsSurviveLogout'
      BY <2>1 DEF database, IInv, PaidMeansFulfilled, RewardsSurviveLogout
    <2> QED
      BY <2>2, <2>3, <2>4, <2>5, <2>6 DEF IInv
  <1>7. CASE steps[q] # <<>>
    <2> DEFINE new == [steps[q] EXCEPT ![i] = progress[q][i]]
    <2>1. steps[q] \in Seq(Step) /\ Len(steps[q]) = Size(q) /\ i \in 1 .. Len(steps[q])
      BY <1>1, <1>5, <1>7 DEF IInv, TypeOK, AllConditions
    <2>2. progress[q][i] \in Step
      BY <1>1, <1>5
    <2>3. /\ new \in Seq(Step) /\ Len(new) = Size(q)
          /\ \A j \in 1 .. Size(q) : new[j] = IF j = i THEN progress[q][i] ELSE steps[q][j]
      BY <2>1, <2>2, ExceptSeq
    <2>4. steps' = [steps EXCEPT ![q] = new]
      BY <1>1, <1>7 DEF IInv, TypeOK
    <2>5. new # <<>> /\ Size(q) \in Nat \ {0}
      BY <2>3, Templates, EmptySeq
    <2> HIDE DEF new
    <2>6. TypeOK'
      <3>1. steps' \in [Quest -> Seq(Step)]
        BY <2>3, <2>4 DEF IInv, TypeOK
      <3> QED
        BY <1>1, <1>2, <3>1 DEF IInv, TypeOK
    <2>7. JobIsSound'
      BY <1>1, <1>2, <1>3 DEF IInv, JobIsSound
    <2>8. NotAccepted'
      BY <1>1, <1>3, <2>4, <2>5 DEF IInv, TypeOK, NotAccepted
    <2>9. ObjectsAreOpen' /\ RewardIsOne'
      BY <1>1, <1>2, <1>3, <1>4, <1>5 DEF IInv, TypeOK, ObjectsAreOpen, RewardIsOne, i
    <2>10. AllConditions'
      BY <1>1, <1>4, <1>5, <2>3, <2>4, <2>5 DEF IInv, TypeOK, AllConditions
    <2>11. Counted'
      <3>1. \A j \in 1 .. Size(q) :
                new[j].n <= played[q][j] /\ (new[j].done => new[j].n >= Target(q, j))
        <4>1. Honest(q, progress[q]) /\ Honest(q, steps[q])
          BY DEF IInv, Counted
        <4> QED
          BY <1>1, <1>5, <2>1, <2>3, <4>1 DEF Honest
      <3>2. \A r \in Quest : steps'[r] = IF r = q THEN new ELSE steps[r]
        BY <2>4 DEF IInv, TypeOK
      <3>3. \A r \in Quest : Honest(r, progress[r])' /\ (r # q => Honest(r, steps[r])')
        BY <1>1, <3>2 DEF IInv, Counted, Honest
      <3>4. Honest(q, steps[q])'
        BY <1>1, <2>3, <3>1, <3>2 DEF Honest
      <3> QED
        BY <3>3, <3>4 DEF Counted
    <2>12. RowsAreBehind'
      <3> SUFFICES ASSUME NEW r \in objects, steps'[r] # <<>>
                   PROVE  /\ \A k \in 1 .. Size(r) : steps'[r][k].done => progress[r][k].done
                          /\ Writes(r) => \A k \in 1 .. Size(r) :
                                 k < i + 1 => steps'[r][k] = progress[r][k]
        <4>1. objects' = objects /\ progress' = progress /\ objects \subseteq Quest
          BY <1>1 DEF IInv, TypeOK
        <4> QED
          BY <1>2, <1>4, <4>1 DEF RowsAreBehind
      <3>1. CASE r = q
        <4>1. steps'[r] = new
          BY <2>4, <3>1 DEF IInv, TypeOK
        <4>2. /\ \A k \in 1 .. Size(q) : steps[q][k].done => progress[q][k].done
              /\ \A k \in 1 .. Size(q) : k < i => steps[q][k] = progress[q][k]
          BY <1>1, <1>3, <1>7 DEF IInv, RowsAreBehind, i
        <4>3. \A k \in 1 .. Size(q) : new[k].done => progress[q][k].done
          BY <2>3, <4>2
        <4>4. \A k \in 1 .. Size(q) : k < i + 1 => new[k] = progress[q][k]
          BY <1>1, <1>5, <2>3, <4>2
        <4> QED
          BY <3>1, <4>1, <4>3, <4>4
      <3>2. CASE r # q
        <4>1. steps'[r] = steps[r] /\ ~Writes(r)
          BY <1>3, <2>4, <3>2 DEF IInv, TypeOK, Writes
        <4> QED
          BY <4>1 DEF IInv, RowsAreBehind
      <3> QED
        BY <3>1, <3>2
    <2>13. PaidMeansFulfilled' /\ RewardsSurviveLogout'
      BY <1>1 DEF IInv, PaidMeansFulfilled, RewardsSurviveLogout
    <2>14. OrderKept'
      <3> SUFFICES ASSUME NEW o \in Ordered, NEW p \in {progress[o], steps'[o]},
                          NEW k \in 1 .. Len(p), p[k].n > 0, NEW j \in 1 .. k - 1
                   PROVE  p[j].done
        BY <1>1 DEF OrderKept
      <3>1. CASE p \in {progress[o], steps[o]}
        BY <3>1 DEF IInv, OrderKept
      <3>2. CASE o = q /\ p = new
        <4>1. k \in 1 .. Size(q) /\ j \in 1 .. Size(q) /\ j < k
          BY <2>3, <2>5, <3>2
        <4>2. /\ progress[q][k].n > 0 => progress[q][j].done
              /\ steps[q][k].n > 0 => steps[q][j].done
          BY <1>5, <2>1, <3>2, <4>1 DEF IInv, OrderKept
        <4>3. /\ steps[q][j].done => progress[q][j].done
              /\ k = i => steps[q][j] = progress[q][j]
          BY <1>1, <1>3, <1>7, <4>1 DEF IInv, RowsAreBehind, i
        <4>4. CASE k = i
          BY <2>3, <3>2, <4>1, <4>2, <4>3, <4>4
        <4>5. CASE k # i
          BY <2>3, <3>2, <4>1, <4>2, <4>3, <4>5
        <4> QED
          BY <4>4, <4>5
      <3> QED
        BY <2>4, <3>1, <3>2, QuestsAssumption DEF IInv, TypeOK
    <2> QED
      BY <2>6, <2>7, <2>8, <2>9, <2>10, <2>11, <2>12, <2>13, <2>14 DEF IInv
  <1> QED
    BY <1>6, <1>7

\* Nothing of the player is left in memory, after a save or in a crash.
LEMMA ForgetIInv ==
    ASSUME IInv, Forget, UNCHANGED <<database, played>>,
           broken \subseteq broken', broken' \subseteq Quest,
           lost \subseteq lost', lost' \subseteq Quest,
           \A q \in Quest : rows[q] = "completed" /\ account[q] # 1 => q \in lost',
           \A q \in Quest : Cancelling(q) => q \in broken'
    PROVE  IInv'
  <1> USE DEF Forget, database
  <1>1. \A q \in Quest : ~Paying(q)' /\ ~Cancelling(q)' /\ ~Writes(q)'
    BY DEF Paying, Cancelling, Writes, Idle, Job
  <1>2. TypeOK'
    BY EmptySeq DEF IInv, TypeOK, Idle, Job
  <1>3. JobIsSound' /\ NotAccepted' /\ ObjectsAreOpen'
    BY <1>1 DEF IInv, TypeOK, JobIsSound, NotAccepted, ObjectsAreOpen, Idle, Job
  <1>4. RewardIsOne' /\ RewardsSurviveLogout'
    BY DEF IInv, TypeOK, RewardIsOne, RewardsSurviveLogout, Idle, Job
  <1>5. AllConditions'
    BY <1>1 DEF IInv, TypeOK, AllConditions
  <1>6. \A q \in Quest : progress'[q] = <<>> /\ Len(<<>>) = 0
    OBVIOUS
  <1>7. Counted'
    <2>1. \A q \in Quest : Honest(q, progress[q])' /\ Honest(q, steps[q])'
      BY <1>6 DEF IInv, Counted, Honest
    <2> QED
      BY <2>1 DEF Counted
  <1>8. RowsAreBehind'
    BY DEF RowsAreBehind
  <1>9. PaidMeansFulfilled'
    BY DEF IInv, TypeOK, PaidMeansFulfilled
  <1>10. OrderKept'
    BY <1>6, QuestsAssumption DEF IInv, OrderKept
  <1> QED
    BY <1>2, <1>3, <1>4, <1>5, <1>7, <1>8, <1>9, <1>10 DEF IInv

LEMMA CrashIInv ==
    ASSUME IInv, Crash
    PROVE  IInv'
  <1>1. broken' \subseteq Quest /\ lost' \subseteq Quest /\ UNCHANGED <<database, played>>
    BY DEF Crash, IInv, TypeOK, JobIsSound
  <1>2. broken \subseteq broken' /\ \A q \in Quest : Cancelling(q) => q \in broken'
    BY DEF Crash, Cancelling
  <1>3. lost \subseteq lost' /\ \A q \in Quest : rows[q] = "completed" /\ account[q] # 1 => q \in lost'
    BY DEF Crash, IInv, TypeOK, RewardIsOne, RewardsSurviveLogout
  <1> QED
    BY <1>1, <1>2, <1>3, ForgetIInv DEF Crash

\* A handler is through with the quests.
LEMMA VisitedIInv ==
    ASSUME IInv, Visited
    PROVE  IInv'
  <1>1. /\ job.op \in {"check", "save", "load"} /\ job.quest = None /\ job.left = {}
        /\ UNCHANGED <<database, history>>
    BY DEF Visited
  <1>2. player = "in"
    BY <1>1 DEF IInv, JobIsSound, TypeOK, Idle, Job
  <1>3. \A q \in Quest : ~Paying(q) /\ ~Cancelling(q)
    BY <1>1, QuestsAssumption DEF Paying, Cancelling
  <1>4. CASE job.then = "end"
    <2>1. job' = Idle /\ UNCHANGED memory
      BY <1>4 DEF Visited
    <2>2. \A q \in Quest : ~Paying(q)' /\ ~Cancelling(q)' /\ ~Writes(q)'
      BY <2>1 DEF Paying, Cancelling, Writes, Idle, Job
    <2>3. JobIsSound'
      BY <1>2, <2>1 DEF memory, JobIsSound, Idle, Job
    <2> QED
      BY <1>1, <1>3, <2>1, <2>2, <2>3, JobIInv DEF database, history, Idle, Job
  <1>5. CASE job.then = "load"
    BY <1>1, <1>2, <1>3, <1>5, LoadQuestsIInv DEF Visited
  <1>6. CASE job.then = "leave"
    <2>1. \A q \in Quest : rows[q] = "completed" /\ account[q] # 1 => q \in lost
      BY <1>6 DEF IInv, TypeOK, RewardIsOne, RewardsSurviveLogout
    <2> QED
      BY <1>1, <1>3, <1>6, <2>1, ForgetIInv DEF Visited, history, IInv, TypeOK
  <1> QED
    BY <1>4, <1>5, <1>6 DEF IInv, TypeOK

\* The rows of a quest are written; if it is finished, its object is deleted.
LEMMA WrittenIInv ==
    ASSUME IInv, NEW q \in Quest, Written(q)
    PROVE  IInv'
  <1> USE DEF Written, database, history
  <1>1. /\ job'.op = job.op /\ job'.quest = None /\ job'.next = 0 /\ job'.left = job.left
        /\ job'.then = job.then /\ job'.kind = job.kind
    BY DEF IInv, TypeOK
  <1>2. job.op \in {"check", "save"} /\ job.quest = q /\ q \in objects \ job.left /\ player = "in"
    BY QuestsAssumption DEF Writes, IInv, JobIsSound, TypeOK, Idle, Job
  <1>3. \A r \in Quest : ~Paying(r)' /\ ~Cancelling(r) /\ ~Cancelling(r)' /\ ~Writes(r)'
    BY <1>1, <1>2, QuestsAssumption DEF Paying, Cancelling, Writes
  <1>4. TypeOK'
    <2>1. job' \in [op : {"idle", "check", "save", "cancel", "load"}, left : SUBSET Quest,
                    quest : Quest \cup {None}, next : Nat, kind : Kinds \cup {None},
                    then : {"end", "load", "leave"}]
      BY DEF IInv, TypeOK
    <2>2. CASE job.op = "check"
      <3>1. progress' = [progress EXCEPT ![q] = <<>>]
            /\ completed' = [completed EXCEPT ![q] = FALSE] /\ objects' \subseteq objects
        BY <2>2
      <3> HIDE DEF Written
      <3>2. progress' \in [Quest -> Seq(Step)]
        BY <3>1, EmptySeq DEF IInv, TypeOK
      <3> QED
        BY <2>1, <3>1, <3>2 DEF Written, IInv, TypeOK
    <2>3. CASE job.op # "check"
      BY <2>1, <2>3 DEF IInv, TypeOK
    <2> QED
      BY <2>2, <2>3
  <1>5. CASE job.op = "save"
    <2>1. JobIsSound'
      BY <1>1, <1>2, <1>5 DEF IInv, JobIsSound
    <2>2. \A r \in Quest : ~Paying(r)
      BY <1>5 DEF Paying
    <2> QED
      BY <1>1, <1>3, <1>4, <1>5, <2>1, <2>2, JobIInv DEF memory, TypeOK
  <1>6. CASE job.op = "check"
    <2>1. /\ objects' = objects \ {q} /\ progress' = [progress EXCEPT ![q] = <<>>]
          /\ completed' = [completed EXCEPT ![q] = FALSE]
      BY <1>6
    <2>2. /\ \A r \in Quest : Paying(r) <=> r = q
          /\ rows[q] = "completed"
      <3>1. Len(progress[q]) \in Nat /\ job.next \in Nat
        BY Sequences DEF IInv, TypeOK
      <3>2. job.next >= 1 /\ \A r \in Quest : Paying(r) <=> r = q
        BY <1>2, <1>6, <3>1 DEF Paying
      <3> QED
        BY <3>2 DEF IInv, ObjectsAreOpen
    <2>3. JobIsSound' /\ NotAccepted'
      BY <1>1, <1>2, <1>6, <2>1, <2>2 DEF IInv, JobIsSound, NotAccepted
    <2>4. ObjectsAreOpen' /\ RewardIsOne'
      BY <1>1, <1>3, <2>1, <2>2 DEF IInv, TypeOK, ObjectsAreOpen, RewardIsOne
    <2>5. AllConditions'
      BY <1>3, <2>1 DEF IInv, TypeOK, AllConditions
    <2>6. \A r \in Quest : progress'[r] = progress[r] \/ (progress'[r] = <<>> /\ Len(<<>>) = 0)
      BY <2>1 DEF IInv, TypeOK
    <2>7. Counted'
      <3>1. \A r \in Quest : Honest(r, progress[r])' /\ Honest(r, steps[r])'
        BY <2>6 DEF IInv, Counted, Honest
      <3> QED
        BY <3>1 DEF Counted
    <2>8. RowsAreBehind'
      BY <1>3, <2>1 DEF IInv, TypeOK, RowsAreBehind
    <2>9. PaidMeansFulfilled' /\ RewardsSurviveLogout'
      BY DEF IInv, PaidMeansFulfilled, RewardsSurviveLogout
    <2>10. OrderKept'
      BY <2>6, QuestsAssumption DEF IInv, OrderKept
    <2> QED
      BY <1>4, <2>3, <2>4, <2>5, <2>7, <2>8, <2>9, <2>10 DEF IInv
  <1> QED
    BY <1>2, <1>5, <1>6

-----------------------------------------------------------------------------
\* Cancelling.

LEMMA CancelQuestIInv ==
    ASSUME IInv, NEW q \in Quest, CancelQuest(q)
    PROVE  IInv'
  <1> USE DEF CancelQuest, memory, history
  <1>1. player = "in" /\ job = Idle /\ q \in objects
    BY DEF Online
  <1>2. \A r \in Quest : ~Paying(r) /\ ~Paying(r)' /\ ~Cancelling(r) /\ ~Writes(r)'
                         /\ (Cancelling(r)' <=> r = q)
    BY <1>1 DEF Paying, Cancelling, Writes, Idle, Job
  <1>3. \A r \in Quest : steps'[r] = IF r = q THEN <<>> ELSE steps[r]
    BY DEF IInv, TypeOK
  <1>4. TypeOK'
    BY EmptySeq DEF IInv, TypeOK, Job
  <1>5. JobIsSound'
    BY <1>1 DEF JobIsSound, Idle, Job
  <1>6. NotAccepted' /\ ObjectsAreOpen'
    BY <1>1, <1>2, <1>3 DEF IInv, TypeOK, NotAccepted, ObjectsAreOpen
  <1>7. RewardIsOne'
    BY <1>2 DEF IInv, RewardIsOne, Job
  <1>8. AllConditions'
    BY <1>2, <1>3 DEF IInv, AllConditions
  <1>9. Counted'
    <2>1. \A r \in Quest : Honest(r, progress[r])' /\ Honest(r, steps[r])'
      BY <1>3 DEF IInv, Counted, Honest
    <2> QED
      BY <2>1 DEF Counted
  <1>10. RowsAreBehind'
    BY <1>2, <1>3 DEF IInv, TypeOK, RowsAreBehind
  <1>11. PaidMeansFulfilled' /\ RewardsSurviveLogout'
    BY DEF IInv, PaidMeansFulfilled, RewardsSurviveLogout
  <1>12. OrderKept'
    BY <1>3, QuestsAssumption DEF IInv, OrderKept
  <1> QED
    BY <1>4, <1>5, <1>6, <1>7, <1>8, <1>9, <1>10, <1>11, <1>12 DEF IInv

LEMMA CancelRowIInv ==
    ASSUME IInv, CancelRow
    PROVE  IInv'
  <1> DEFINE q == job.quest
  <1> USE DEF CancelRow, database, history
  <1>1. /\ q \in Quest /\ q \in objects /\ job.left = {} /\ job.then = "load"
        /\ job.op = "cancel" /\ job.next = 0
    BY DEF IInv, JobIsSound
  <1>2. /\ job'.op = "cancel" /\ job'.quest = q /\ job'.next = 1 /\ job'.left = {}
        /\ job'.then = "load" /\ job'.kind = job.kind
    BY <1>1 DEF IInv, TypeOK
  <1>3. player = "in"
    BY <1>1 DEF IInv, JobIsSound, TypeOK, Idle, Job
  <1>4. \A r \in Quest : ~Paying(r) /\ ~Paying(r)' /\ ~Cancelling(r)' /\ ~Writes(r)'
                         /\ (Cancelling(r) <=> r = q)
    BY <1>1, <1>2 DEF Paying, Cancelling, Writes
  <1>5. /\ rows' = [rows EXCEPT ![q] = "none"] /\ objects' = objects \ {q}
        /\ progress' = [progress EXCEPT ![q] = <<>>]
        /\ UNCHANGED <<player, completed, purse, steps, account, history>>
    OBVIOUS
  <1>6. TypeOK'
    BY EmptySeq DEF IInv, TypeOK
  <1> HIDE DEF CancelRow, q
  <1>7. JobIsSound'
    BY <1>1, <1>2, <1>3, <1>5 DEF JobIsSound
  <1>8. NotAccepted' /\ ObjectsAreOpen'
    BY <1>1, <1>4, <1>5 DEF IInv, TypeOK, NotAccepted, ObjectsAreOpen
  <1>9. RewardIsOne' /\ RewardsSurviveLogout'
    <2>1. \A r \in Quest : rows'[r] = IF r = q THEN "none" ELSE rows[r]
      BY <1>5 DEF IInv, TypeOK
    <2>2. account[q] = 0 /\ purse[q] = 0
      <3>1. rows[q] = "open"
        BY <1>1, <1>4 DEF IInv, ObjectsAreOpen
      <3> QED
        BY <1>1, <1>4, <3>1 DEF IInv, RewardIsOne
    <2>3. RewardIsOne'
      BY <1>1, <1>2, <1>3, <1>4, <1>5, <2>1, <2>2 DEF IInv, TypeOK, RewardIsOne
    <2>4. RewardsSurviveLogout'
      BY <1>5, <2>1 DEF IInv, RewardsSurviveLogout
    <2> QED
      BY <2>3, <2>4
  <1>10. AllConditions'
    BY <1>1, <1>4, <1>5 DEF IInv, TypeOK, AllConditions
  <1>11. \A r \in Quest : progress'[r] = progress[r] \/ (progress'[r] = <<>> /\ Len(<<>>) = 0)
    BY <1>5 DEF IInv, TypeOK
  <1>12. Counted'
    <2>1. \A r \in Quest : Honest(r, progress[r])' /\ Honest(r, steps[r])'
      BY <1>5, <1>11 DEF IInv, Counted, Honest
    <2> QED
      BY <2>1 DEF Counted
  <1>13. RowsAreBehind'
    BY <1>4, <1>5 DEF IInv, TypeOK, RowsAreBehind
  <1>14. PaidMeansFulfilled'
    BY <1>1, <1>5 DEF IInv, TypeOK, PaidMeansFulfilled
  <1>15. OrderKept'
    BY <1>5, <1>11, QuestsAssumption DEF IInv, OrderKept
  <1> QED
    BY <1>6, <1>7, <1>8, <1>9, <1>10, <1>12, <1>13, <1>14, <1>15 DEF IInv

LEMMA CancelSaveIInv ==
    ASSUME IInv, CancelSave
    PROVE  IInv'
  <1>1. player = "in" /\ objects \subseteq Quest
    BY DEF CancelSave, IInv, JobIsSound, TypeOK, Idle, Job
  <1>2. \A q \in Quest : ~Paying(q) /\ ~Cancelling(q)
    BY DEF CancelSave, Paying, Cancelling
  <1>3. job' = [op |-> "save", left |-> objects, quest |-> None, next |-> 0, kind |-> None,
                then |-> "load"]
    BY DEF CancelSave, Job
  <1>4. \A q \in Quest : ~Paying(q)' /\ ~Cancelling(q)' /\ ~Writes(q)'
    BY <1>3, QuestsAssumption DEF Paying, Cancelling, Writes
  <1>5. JobIsSound'
    BY <1>1, <1>3 DEF CancelSave, memory, JobIsSound
  <1> QED
    BY <1>1, <1>2, <1>3, <1>4, <1>5, JobIInv DEF CancelSave

-----------------------------------------------------------------------------
\* Counting.

\* What played becomes for the conditions of q that count an event.
History(q, k, p) ==
    [i \in 1 .. Size(q) |->
        IF i <= Len(p) /\ Counts(q, k, p, i) /\ played[q][i] < Target(q, i)
        THEN played[q][i] + 1 ELSE played[q][i]]

\* The loop over the conditions keeps them all, loses nothing that is done, counts no more
\* than happened, and begins no condition of an ordered quest before its turn.
LEMMA LoopOverConditions ==
    ASSUME IInv, NEW q \in objects, NEW k \in Kinds, NEW p \in Reachable(q), Follows(q, k, p),
           played[q] # <<>>
    PROVE  /\ p \in Seq(Step) /\ Len(p) = Len(progress[q]) /\ (p = <<>> <=> progress[q] = <<>>)
           /\ History(q, k, p) \in Seq(Nat) /\ Len(History(q, k, p)) = Size(q)
           /\ History(q, k, p) # <<>>
           /\ \A i \in 1 .. Size(q) : History(q, k, p)[i] >= played[q][i]
           /\ \A i \in 1 .. Len(p) :
                 /\ progress[q][i].done => p[i].done
                 /\ p[i].n <= History(q, k, p)[i]
                 /\ p[i].done => p[i].n >= Target(q, i)
                 /\ p[i].n > 0 => progress[q][i].n > 0 \/ Counts(q, k, p, i)
  <1> DEFINE old == progress[q]
             h == History(q, k, p)
  <1>1. q \in Quest /\ Len(old) \in Nat /\ old \in [1 .. Len(old) -> Step] /\ Size(q) \in Nat \ {0}
    BY Sequences, Templates DEF IInv, TypeOK
  <1>2. Len(old) = 0 \/ Len(old) = Size(q)
    BY <1>1, EmptySeq DEF IInv, AllConditions
  <1>3. \A i \in 1 .. Size(q) : played[q][i] \in Nat /\ Target(q, i) \in Nat \ {0}
    BY <1>1, Sequences, Templates DEF IInv, AllConditions
  <1>4. p \in [1 .. Len(old) -> Step]
    <2> DEFINE N == UNION {{old[i].n, old[i].n + 1} : i \in 1 .. Len(old)}
    <2>1. \A i \in 1 .. Len(old) : old[i].n \in Nat
      BY <1>1 DEF Step
    <2>2. N \subseteq Nat
      BY <2>1
    <2>3. [n : N, done : BOOLEAN] \subseteq Step
      BY <2>2 DEF Step
    <2>4. p \in [1 .. Len(old) -> [n : N, done : BOOLEAN]]
      BY DEF Reachable
    <2> HIDE DEF N
    <2> QED
      BY <2>3, <2>4
  <1>5. p \in Seq(Step) /\ Len(p) = Len(old)
    BY <1>1, <1>4, FunctionIsSeq
  <1>6. p = <<>> <=> old = <<>>
    BY <1>1, <1>5, EmptySeq, Sequences DEF IInv
  <1>7. h \in [1 .. Size(q) -> Nat]
    BY <1>3 DEF History
  <1>8. h \in Seq(Nat) /\ Len(h) = Size(q) /\ h # <<>>
    BY <1>1, <1>7, FunctionIsSeq
  <1>9. \A i \in 1 .. Size(q) : h[i] >= played[q][i]
    BY <1>3 DEF History
  <1>10. ASSUME NEW i \in 1 .. Len(p)
         PROVE  /\ old[i].done => p[i].done
                /\ p[i].n <= h[i]
                /\ p[i].done => p[i].n >= Target(q, i)
                /\ p[i].n > 0 => old[i].n > 0 \/ Counts(q, k, p, i)
    <2> DEFINE n == IF old[i].n < Target(q, i) THEN old[i].n + 1 ELSE old[i].n
    <2>1. i \in 1 .. Len(old) /\ i \in 1 .. Size(q) /\ i <= Len(p)
      BY <1>1, <1>2, <1>5
    <2>2. old[i] \in Step /\ old[i].n <= played[q][i] /\ (old[i].done => old[i].n >= Target(q, i))
      BY <1>1, <2>1 DEF IInv, Counted, Honest
    <2>3. h[i] = IF Counts(q, k, p, i) /\ played[q][i] < Target(q, i)
                 THEN played[q][i] + 1 ELSE played[q][i]
      BY <2>1 DEF History
    <2>4. CASE Counts(q, k, p, i)
      <3>1. p[i] = [n |-> n, done |-> old[i].done \/ (n >= Target(q, i) /\ Fulfils(q, k, p, i))]
        BY <2>1, <2>4 DEF Follows
      <3>2. p[i].n = n /\ p[i].done = (old[i].done \/ (n >= Target(q, i) /\ Fulfils(q, k, p, i)))
        <4> HIDE DEF n
        <4> QED
          BY <3>1
      <3>3. n <= h[i] /\ n >= old[i].n
        BY <1>3, <2>1, <2>2, <2>3, <2>4 DEF Step
      <3> QED
        BY <1>3, <2>1, <2>2, <2>4, <3>2, <3>3 DEF Step
    <2>5. CASE ~Counts(q, k, p, i)
      <3>1. p[i] = old[i]
        BY <2>1, <2>5 DEF Follows
      <3> QED
        BY <1>3, <2>1, <2>2, <2>3, <2>5, <3>1
    <2> QED
      BY <2>4, <2>5
  <1> QED
    BY <1>5, <1>6, <1>8, <1>9, <1>10

\* An event of which the conditions of a quest take notice, and its reward.
LEMMA CheckQuestIInv ==
    ASSUME IInv, NEW q \in Quest, CheckQuest(q)
    PROVE  IInv'
  <1>1. /\ job.op = "check" /\ job.quest = None /\ q \in job.left /\ job.left \subseteq objects
        /\ job.then = "end" /\ job.kind \in Kinds
        /\ UNCHANGED <<player, objects, database, broken, lost>>
    BY DEF CheckQuest, IInv, JobIsSound
  <1> DEFINE k == job.kind
  <1>2. PICK p \in Reachable(q) :
          /\ Follows(q, k, p)
          /\ progress' = [progress EXCEPT ![q] = p]
          /\ played' = [played EXCEPT ![q] = [i \in 1 .. Size(q) |->
                IF i <= Len(p) /\ Counts(q, k, p, i) /\ @[i] < Target(q, i)
                THEN @[i] + 1 ELSE @[i]]]
          /\ IF AllCompleted(q, p)
             THEN /\ purse' = [purse EXCEPT ![q] = @ + 1]
                  /\ completed' = [completed EXCEPT ![q] = TRUE]
                  /\ job' = [job EXCEPT !.left = @ \ {q}, !.quest = q, !.next = 0]
             ELSE /\ job' = [job EXCEPT !.left = @ \ {q}]
                  /\ UNCHANGED <<purse, completed>>
    BY DEF CheckQuest
  <1> DEFINE h == History(q, k, p)
  <1>3. played' = [played EXCEPT ![q] = h]
    BY <1>2 DEF History, IInv, TypeOK
  <1>4. q \in objects /\ player = "in" /\ \A r \in Quest : ~Paying(r) /\ ~Cancelling(r)
    BY <1>1, QuestsAssumption DEF Paying, Cancelling, IInv, JobIsSound, TypeOK, Idle, Job
  <1>5. rows[q] = "open" /\ purse[q] = 0 /\ account[q] = 0 /\ played[q] # <<>>
    BY <1>4 DEF IInv, ObjectsAreOpen, RewardIsOne, NotAccepted
  <1>6. /\ p \in Seq(Step) /\ Len(p) = Len(progress[q]) /\ (p = <<>> <=> progress[q] = <<>>)
        /\ h \in Seq(Nat) /\ Len(h) = Size(q) /\ h # <<>>
        /\ \A i \in 1 .. Size(q) : h[i] >= played[q][i]
        /\ \A i \in 1 .. Len(p) :
              /\ progress[q][i].done => p[i].done
              /\ p[i].n <= h[i]
              /\ p[i].done => p[i].n >= Target(q, i)
              /\ p[i].n > 0 => progress[q][i].n > 0 \/ Counts(q, k, p, i)
    BY <1>1, <1>2, <1>4, <1>5, LoopOverConditions
  <1> HIDE DEF h
  <1>7. /\ \A r \in Quest : progress'[r] = IF r = q THEN p ELSE progress[r]
        /\ \A r \in Quest : played'[r] = IF r = q THEN h ELSE played[r]
    BY <1>2, <1>3 DEF IInv, TypeOK
  <1>8. /\ job'.op = "check" /\ job'.left = job.left \ {q} /\ job'.then = "end"
        /\ job'.kind \in Kinds
        /\ job' \in [op : {"idle", "check", "save", "cancel", "load"}, left : SUBSET Quest,
                     quest : Quest \cup {None}, next : Nat, kind : Kinds \cup {None},
                     then : {"end", "load", "leave"}]
        /\ AllCompleted(q, p) => job'.quest = q /\ job'.next = 0
        /\ ~AllCompleted(q, p) => job'.quest = None
    <2>1. job \in [op : {"idle", "check", "save", "cancel", "load"}, left : SUBSET Quest,
                   quest : Quest \cup {None}, next : Nat, kind : Kinds \cup {None},
                   then : {"end", "load", "leave"}]
      BY DEF IInv, TypeOK
    <2>2. CASE AllCompleted(q, p)
      <3>1. job' = [job EXCEPT !.left = job.left \ {q}, !.quest = q, !.next = 0]
        BY <1>2, <2>2
      <3> QED
        BY <1>1, <2>1, <2>2, <3>1
    <2>3. CASE ~AllCompleted(q, p)
      <3>1. job' = [job EXCEPT !.left = job.left \ {q}]
        BY <1>2, <2>3
      <3> QED
        BY <1>1, <2>1, <2>3, <3>1
    <2> QED
      BY <2>2, <2>3
  <1>9. \A r \in Quest : /\ ~Cancelling(r)'
                         /\ Paying(r)' <=> (r = q /\ AllCompleted(q, p))
                         /\ Writes(r)' => job'.next = 0
    BY <1>8, QuestsAssumption DEF Paying, Cancelling, Writes
  <1>10. /\ \A r \in Quest : purse'[r] = IF r = q /\ AllCompleted(q, p) THEN 1 ELSE purse[r]
         /\ \A r \in Quest : completed'[r] = IF r = q /\ AllCompleted(q, p) THEN TRUE ELSE completed[r]
         /\ purse' \in [Quest -> Nat] /\ completed' \in [Quest -> BOOLEAN]
    <2>1. CASE AllCompleted(q, p)
      <3>1. purse' = [purse EXCEPT ![q] = 1] /\ completed' = [completed EXCEPT ![q] = TRUE]
        BY <1>2, <1>5, <2>1
      <3> QED
        BY <2>1, <3>1 DEF IInv, TypeOK
    <2>2. CASE ~AllCompleted(q, p)
      BY <1>2, <2>2 DEF IInv, TypeOK
    <2> QED
      BY <2>1, <2>2
  <1>11. TypeOK'
    <2>1. progress' \in [Quest -> Seq(Step)] /\ played' \in [Quest -> Seq(Nat)]
      <3>1. progress \in [Quest -> Seq(Step)] /\ played \in [Quest -> Seq(Nat)]
        BY DEF IInv, TypeOK
      <3>2. progress' = [progress EXCEPT ![q] = p] /\ p \in Seq(Step) /\ h \in Seq(Nat)
        BY <1>2, <1>6
      <3> QED
        BY <1>3, <3>1, <3>2
    <2> QED
      BY <1>1, <1>8, <1>10, <2>1 DEF database, IInv, TypeOK
  <1>12. JobIsSound'
    BY <1>1, <1>4, <1>8 DEF database, JobIsSound
  <1>13. NotAccepted' /\ ObjectsAreOpen'
    <2>1. NotAccepted'
      BY <1>1, <1>6, <1>7, <1>10 DEF database, IInv, NotAccepted
    <2>2. ObjectsAreOpen'
      <3>1. \A r \in objects : rows[r] = "open"
        BY <1>4 DEF IInv, TypeOK, ObjectsAreOpen
      <3>2. \A r \in Quest : completed'[r] <=> Paying(r)'
        BY <1>4, <1>9, <1>10 DEF IInv, ObjectsAreOpen
      <3>3. \A r \in Quest : Paying(r)' => r = q /\ rows[q] = "open" /\ purse'[q] = 1 /\ job'.next = 0
        BY <1>5, <1>8, <1>9, <1>10
      <3> QED
        BY <1>1, <3>1, <3>2, <3>3 DEF database, ObjectsAreOpen
    <2> QED
      BY <2>1, <2>2
  <1>14. RewardIsOne' /\ RewardsSurviveLogout'
    BY <1>1, <1>4, <1>5, <1>8, <1>9, <1>10
    DEF database, IInv, TypeOK, RewardIsOne, RewardsSurviveLogout
  <1>15. AllConditions'
    BY <1>1, <1>4, <1>6, <1>7, <1>9 DEF database, IInv, AllConditions
  <1>16. Counted'
    <2>1. Honest(q, progress[q])'
      BY <1>6, <1>7 DEF Honest
    <2>2. Honest(q, steps[q])'
      <3>1. Len(steps[q]) \in Nat /\ (Len(steps[q]) = 0 \/ Len(steps[q]) = Size(q)) /\ Size(q) \in Nat
        BY Sequences, Templates, EmptySeq DEF IInv, AllConditions
      <3>2. \A i \in 1 .. Len(steps[q]) : steps[q][i].n \in Nat /\ i \in 1 .. Size(q)
        BY <3>1, Sequences DEF IInv, Step
      <3>3. \A i \in 1 .. Size(q) : h[i] \in Nat /\ played[q][i] \in Nat
        BY <1>5, <1>6, Sequences, LenProperties DEF IInv, AllConditions
      <3>4. \A i \in 1 .. Len(steps[q]) :
               steps[q][i].n <= played[q][i] /\ (steps[q][i].done => steps[q][i].n >= Target(q, i))
        BY DEF IInv, Counted, Honest
      <3>5. \A i \in 1 .. Len(steps[q]) : steps[q][i].n <= h[i]
        BY <1>6, <3>2, <3>3, <3>4
      <3>6. played'[q] = h /\ steps' = steps
        BY <1>1, <1>7 DEF database
      <3> QED
        BY <3>4, <3>5, <3>6 DEF Honest
    <2>3. \A r \in Quest \ {q} : Honest(r, progress[r])' /\ Honest(r, steps[r])'
      BY <1>1, <1>7 DEF database, IInv, Counted, Honest
    <2> QED
      BY <2>1, <2>2, <2>3 DEF Counted
  <1>17. RowsAreBehind'
    <2> SUFFICES ASSUME NEW r \in objects, steps[r] # <<>>
                 PROVE  /\ \A i \in 1 .. Size(r) : steps[r][i].done => progress'[r][i].done
                        /\ Writes(r)' => \A i \in 1 .. Size(r) : ~(i < job'.next)
      BY <1>1 DEF database, RowsAreBehind
    <2>1. r \in Quest /\ Size(r) \in Nat
      BY Templates DEF IInv, TypeOK
    <2>2. Writes(r)' => \A i \in 1 .. Size(r) : ~(i < job'.next)
      BY <1>9, <2>1
    <2>3. \A i \in 1 .. Size(r) : steps[r][i].done => progress[r][i].done
      BY DEF IInv, RowsAreBehind
    <2>4. progress[r] # <<>> /\ Len(progress[r]) = Size(r)
      BY <2>1 DEF IInv, AllConditions
    <2> QED
      BY <1>6, <1>7, <2>1, <2>2, <2>3, <2>4
  <1>18. PaidMeansFulfilled'
    <2> SUFFICES ASSUME NEW r \in Quest, purse'[r] > 0 \/ account[r] > 0 \/ rows[r] = "completed",
                        r \notin broken, NEW i \in 1 .. Size(r), Conditions[r][i].kind # Timer
                 PROVE  played'[r][i] >= Target(r, i)
      BY <1>1 DEF database, PaidMeansFulfilled
    <2>1. CASE r # q
      BY <1>7, <1>10, <2>1 DEF IInv, PaidMeansFulfilled
    <2>2. CASE r = q
      <3>1. AllCompleted(q, p)
        BY <1>5, <1>10, <2>2
      <3>2. progress[q] # <<>> /\ Len(p) = Size(q)
        BY <1>4, <1>6, <2>2 DEF IInv, AllConditions
      <3>3. p[i].done /\ p[i].n <= h[i] /\ p[i].n >= Target(q, i)
        BY <1>6, <2>2, <3>1, <3>2 DEF AllCompleted
      <3>4. p[i].n \in Nat /\ h[i] \in Nat /\ Target(q, i) \in Nat
        <4>1. i \in 1 .. Len(p) /\ i \in 1 .. Len(h)
          BY <1>6, <2>2, <3>2
        <4>2. p[i] \in Step /\ h[i] \in Nat
          BY <1>6, <4>1, ElementOfSeq
        <4> QED
          BY <2>2, <4>2, Templates DEF Step
      <3> QED
        BY <1>7, <2>2, <3>3, <3>4
    <2> QED
      BY <2>1, <2>2
  <1>19. OrderKept'
    <2> SUFFICES ASSUME NEW o \in Ordered, NEW s \in {progress'[o], steps[o]},
                        NEW i \in 1 .. Len(s), s[i].n > 0, NEW j \in 1 .. i - 1
                 PROVE  s[j].done
      BY <1>1 DEF database, OrderKept
    <2>1. CASE s \in {progress[o], steps[o]}
      BY <2>1 DEF IInv, OrderKept
    <2>2. CASE o = q /\ s = p
      <3>1. Len(p) \in Nat /\ j \in 1 .. Len(p)
        BY <1>6, <2>2, LenProperties
      <3>2. CASE Counts(q, k, p, i)
        BY <2>2, <3>2 DEF Counts
      <3>3. CASE progress[q][i].n > 0
        BY <1>6, <2>2, <3>1, <3>3 DEF IInv, OrderKept
      <3> QED
        BY <1>6, <2>2, <3>2, <3>3
    <2> QED
      BY <1>7, <2>1, <2>2, QuestsAssumption
  <1> QED
    BY <1>11, <1>12, <1>13, <1>14, <1>15, <1>16, <1>17, <1>18, <1>19 DEF IInv

-----------------------------------------------------------------------------

LEMMA NextIInv == IInv /\ [Next]_vars => IInv'
  <1> SUFFICES ASSUME IInv, [Next]_vars PROVE IInv'
    OBVIOUS
  <1>1. ASSUME NEW q \in Quest,
               \/ LoadQuest(q) \/ SaveQuest(q)
               \/ WriteRow(q) \/ WriteStep(q) \/ Written(q) \/ CheckQuest(q)
        PROVE  IInv'
    BY <1>1, LoadQuestIInv, SaveQuestIInv, WriteRowIInv, WriteStepIInv, WrittenIInv, CheckQuestIInv
  <1>2. CASE Work
    BY <1>1, <1>2, VisitedIInv, CancelRowIInv, CancelSaveIInv DEF Work
  <1>3. CASE \E q \in Quest : Accept(q) \/ CancelQuest(q)
    BY <1>3, AcceptIInv, CancelQuestIInv
  <1>4. CASE Login \/ Crash
    BY <1>4, LoginIInv, CrashIInv
  <1>5. CASE SaveToDB("end") \/ SaveToDB("leave") \/ UpdateQuests \/ \E k \in Kinds : Event(k)
    BY <1>5, OnlineIInv
  <1>6. CASE UNCHANGED vars
    BY <1>6 DEF vars, memory, database, history, IInv, TypeOK, JobIsSound, NotAccepted,
        ObjectsAreOpen, RewardIsOne, AllConditions, Counted, Honest, RowsAreBehind,
        PaidMeansFulfilled, RewardsSurviveLogout, OrderKept, Paying, Cancelling, Writes
  <1> QED
    BY <1>2, <1>3, <1>4, <1>5, <1>6 DEF Next

\* The inductive invariant holds of the specification.
THEOREM Invariance == Spec => []IInv
  BY InitIInv, NextIInv, PTL DEF Spec

\* Every variable keeps its type.
THEOREM TypeCorrect == Spec => []TypeOK
  BY Invariance, PTL DEF IInv

\* Whatever is saved, reloaded, cancelled or cut short by a crash, a quest that was paid
\* was fulfilled, unless a crash had cut its cancelling short.
THEOREM PaidOnlyFulfilled == Spec => []PaidMeansFulfilled
  BY Invariance, PTL DEF IInv

\* The reward of a quest is paid once, on both sides of the database.
THEOREM PaidOnce == Spec => []NotPaidTwice
  <1>1. IInv => NotPaidTwice
    <2> SUFFICES ASSUME IInv, NEW q \in Quest
                 PROVE  purse[q] <= 1 /\ account[q] <= 1
      BY DEF NotPaidTwice
    <2>1. purse[q] \in {0, 1} /\ account[q] \in {0, 1}
      BY DEF IInv, RewardIsOne
    <2> QED
      BY <2>1
  <1> QED
    BY <1>1, Invariance, PTL

\* Only a crash loses the reward of a completed quest.
THEOREM RewardsKept == Spec => []RewardsSurviveLogout
  BY Invariance, PTL DEF IInv

\* A completed quest is rewarded once, however often the player leaves.
THEOREM QuestsRewardOnce == Spec => []RewardedOnce
  BY PaidOnce, RewardsKept, PTL DEF RewardedOnce

\* An ordered quest keeps its order in memory and in rows that are half saved.
THEOREM OrderIsKept == Spec => []OrderKept
  BY Invariance, PTL DEF IInv

-----------------------------------------------------------------------------
(* The account of Rewards: what the steps of the handlers are for it.      *)

LEMMA SameRewards ==
    ASSUME UNCHANGED <<purse, account, rows, lost>>
    PROVE  UNCHANGED Account!vars
  <1>1. \A q : Reward(q)' = Reward(q)
    BY DEF Reward
  <1> QED
    BY <1>1 DEF Account!vars

\* Where a reward can be.
LEMMA RewardFacts ==
    ASSUME IInv, NEW q \in Quest
    PROVE  /\ purse[q] \in {0, 1} /\ account[q] \in {0, 1}
           /\ Reward(q) = "paid" <=> account[q] = 1
           /\ Reward(q) = "promised" <=> account[q] = 0 /\ purse[q] = 1 /\ rows[q] = "completed"
           /\ Reward(q) = "earned" <=> account[q] = 0 /\ purse[q] = 1 /\ rows[q] # "completed"
           /\ Reward(q) = "open" <=> account[q] = 0 /\ purse[q] = 0 /\ rows[q] # "completed"
           /\ Reward(q) \in {"open", "earned", "promised", "paid", "lost"}
  <1>1. purse[q] \in {0, 1} /\ account[q] \in {0, 1}
    BY DEF IInv, RewardIsOne
  <1>2. account[q] = 0 /\ purse[q] = 0 /\ rows[q] = "completed" => q \in lost
    BY DEF IInv, RewardsSurviveLogout
  <1> QED
    BY <1>1, <1>2 DEF Reward

\* The step of one reward.
LEMMA OneReward ==
    ASSUME NEW q \in Quest, NEW r, Reward(q)' = r,
           \A p \in Quest \ {q} : Reward(p)' = Reward(p)
    PROVE  [p \in Quest |-> Reward(p)]' = [[p \in Quest |-> Reward(p)] EXCEPT ![q] = r]
  OBVIOUS

\* While no quest is being finished, the credits are written for all that is promised.
LEMMA PayRewards ==
    ASSUME IInv, player = "in", \A q \in Quest : ~Paying(q),
           account' = purse, UNCHANGED <<purse, rows, lost>>
    PROVE  Account!Pay
  <1> DEFINE reward == [q \in Quest |-> Reward(q)]
  <1>1. \A q \in Quest : rows[q] # "completed" => purse[q] = 0 /\ account[q] = 0
    BY DEF IInv, RewardIsOne
  <1>2. \A q \in Quest : reward[q] # "earned"
    BY <1>1, RewardFacts
  <1>3. ASSUME NEW q \in Quest
        PROVE  /\ Reward(q)' = IF q \in Account!Promised THEN "paid" ELSE Reward(q)
               /\ purse[q] = IF q \in Account!Promised THEN account[q] + 1 ELSE account[q]
    <2>1. q \in Account!Promised <=> account[q] = 0 /\ purse[q] = 1 /\ rows[q] = "completed"
      BY RewardFacts DEF Account!Promised
    <2>2. purse[q] \in {0, 1} /\ account[q] \in {0, 1} /\ account[q] <= purse[q]
      BY DEF IInv, RewardIsOne
    <2>3. CASE account[q] = 0 /\ purse[q] = 1
      <3>1. q \in Account!Promised
        BY <1>1, <2>1, <2>3
      <3>2. account'[q] > 0
        BY <2>3
      <3>3. Reward(q)' = "paid"
        BY <3>2 DEF Reward
      <3> QED
        BY <2>3, <3>1, <3>3
    <2>4. CASE account[q] = purse[q]
      <3>1. q \notin Account!Promised
        BY <2>1, <2>4
      <3>2. account'[q] = account[q] /\ UNCHANGED <<purse, rows, lost>>
        BY <2>4
      <3>3. Reward(q)' = Reward(q)
        BY <3>2 DEF Reward
      <3> QED
        BY <2>4, <3>1, <3>3
    <2> QED
      BY <2>2, <2>3, <2>4
  <1>4. reward' = [q \in Quest |-> IF q \in Account!Promised THEN "paid" ELSE reward[q]]
    BY <1>3
  <1>5. purse \in [Quest -> Nat]
    BY DEF IInv, TypeOK
  <1>6. account' = [q \in Quest |-> IF q \in Account!Promised THEN account[q] + 1 ELSE account[q]]
    BY <1>3, <1>5
  <1> QED
    BY <1>2, <1>4, <1>6 DEF Account!Pay

LEMMA SaveRewards ==
    ASSUME IInv, CancelSave \/ \E then \in {"end", "leave"} : SaveToDB(then)
    PROVE  Account!Pay
  <1>1. player = "in" /\ job.op # "check"
    BY DEF CancelSave, SaveToDB, Online, Idle, Job, IInv, TypeOK, JobIsSound
  <1> QED
    BY <1>1, PayRewards DEF Paying, CancelSave, SaveToDB, memory, history

\* A player that logs in has what the table says.
LEMMA LoginRewards ==
    ASSUME IInv, Login
    PROVE  UNCHANGED Account!vars
  <1>1. purse' = account /\ UNCHANGED <<account, rows, lost>>
    BY DEF Login, database, history
  <1>2. \A q \in Quest : purse[q] = 0 /\ account[q] \in {0, 1}
    BY DEF Login, IInv, RewardIsOne
  <1>3. \A q \in Quest : Reward(q)' = Reward(q)
    BY <1>1, <1>2 DEF Reward
  <1> QED
    BY <1>1, <1>3 DEF Account!vars

\* The reward of a quest that is finished is on record with the row of the quest.
LEMMA WriteRowRewards ==
    ASSUME IInv, NEW q \in Quest, WriteRow(q)
    PROVE  Account!Promise(q) \/ UNCHANGED Account!vars
  <1>1. /\ rows' = [rows EXCEPT ![q] =
              IF @ = "none" THEN @ ELSE IF completed[q] THEN "completed" ELSE "open"]
        /\ UNCHANGED <<purse, account, lost>>
    BY DEF WriteRow, memory, history
  <1>2. q \in objects /\ job.quest = q /\ job.op \in {"check", "save"}
    BY QuestsAssumption DEF WriteRow, Writes, IInv, JobIsSound
  <1>3. CASE rows'[q] = rows[q]
    <2>1. rows' = rows
      BY <1>1, <1>3 DEF IInv, TypeOK
    <2> QED
      BY <1>1, <2>1, SameRewards
  <1>4. CASE rows'[q] # rows[q]
    <2>1. Paying(q)
      BY <1>1, <1>2, <1>4 DEF IInv, TypeOK, ObjectsAreOpen
    <2>2. rows'[q] = "completed" /\ rows[q] # "completed" /\ purse[q] = 1 /\ account[q] = 0
      BY <1>1, <1>4, <2>1 DEF IInv, TypeOK, ObjectsAreOpen, RewardIsOne
    <2>3. Reward(q) = "earned" /\ Reward(q)' = "promised"
      BY <1>1, <2>2 DEF Reward
    <2>4. \A p \in Quest \ {q} : Reward(p)' = Reward(p)
      BY <1>1 DEF Reward, IInv, TypeOK
    <2>5. [p \in Quest |-> Reward(p)]'
             = [[p \in Quest |-> Reward(p)] EXCEPT ![q] = "promised"]
      BY <2>3, <2>4, OneReward
    <2>6. [p \in Quest |-> Reward(p)][q] = "earned"
      BY <2>3
    <2> QED
      BY <1>1, <2>5, <2>6 DEF Account!Promise
  <1> QED
    BY <1>3, <1>4

\* A quest that is finished was open, and its reward neither in memory nor in the table.
LEMMA CheckQuestRewards ==
    ASSUME IInv, NEW q \in Quest, CheckQuest(q)
    PROVE  Account!Earn(q) \/ UNCHANGED Account!vars
  <1>1. UNCHANGED <<account, rows, lost>> /\ job.quest = None /\ q \in objects
    BY DEF CheckQuest, database, IInv, JobIsSound
  <1>2. CASE UNCHANGED purse
    BY <1>1, <1>2, SameRewards
  <1>3. CASE purse' = [purse EXCEPT ![q] = @ + 1]
    <2>1. ~Paying(q)
      BY <1>1, QuestsAssumption DEF Paying
    <2>2. rows[q] = "open" /\ purse[q] = 0 /\ account[q] = 0
      BY <1>1, <2>1 DEF IInv, ObjectsAreOpen, RewardIsOne
    <2>3. purse'[q] = 1 /\ \A p \in Quest \ {q} : purse'[p] = purse[p]
      BY <1>3, <2>2 DEF IInv, TypeOK
    <2>4. Reward(q) = "open" /\ Reward(q)' = "earned"
      BY <1>1, <2>2, <2>3 DEF Reward
    <2>5. \A p \in Quest \ {q} : Reward(p)' = Reward(p)
      BY <1>1, <2>3 DEF Reward
    <2>6. [p \in Quest |-> Reward(p)]'
             = [[p \in Quest |-> Reward(p)] EXCEPT ![q] = "earned"]
      BY <2>4, <2>5, OneReward
    <2>7. [p \in Quest |-> Reward(p)][q] = "open"
      BY <2>4
    <2> QED
      BY <1>1, <2>6, <2>7 DEF Account!Earn
  <1> QED
    BY <1>2, <1>3 DEF CheckQuest

\* A player leaves when the table has all that is in memory.
LEMMA VisitedRewards ==
    ASSUME IInv, Visited
    PROVE  UNCHANGED Account!vars
  <1>1. UNCHANGED <<rows, account, lost>>
    BY DEF Visited, database, history
  <1>2. job.then \in {"end", "load", "leave"}
    BY DEF IInv, TypeOK
  <1>3. ASSUME NEW q \in Quest
        PROVE  account[q] \in {0, 1} /\ (job.then = "leave" => account[q] = purse[q])
    BY DEF IInv, RewardIsOne
  <1>4. CASE job.then # "leave"
    BY <1>1, <1>2, <1>4, SameRewards DEF Visited, memory
  <1>5. CASE job.then = "leave"
    <2>1. \A q \in Quest : purse'[q] = 0
      BY <1>5 DEF Visited, Forget
    <2>2. \A q \in Quest : Reward(q)' = Reward(q)
      BY <1>1, <1>3, <1>5, <2>1 DEF Reward
    <2> QED
      BY <1>1, <2>2 DEF Account!vars
  <1> QED
    BY <1>4, <1>5

\* What is cancelled has no reward.
LEMMA CancelRowRewards ==
    ASSUME IInv, CancelRow
    PROVE  UNCHANGED Account!vars
  <1> DEFINE q == job.quest
  <1>1. /\ rows' = [rows EXCEPT ![q] = "none"]
        /\ UNCHANGED <<purse, account, lost>>
    BY DEF CancelRow, history
  <1>2. q \in Quest /\ q \in objects /\ ~Paying(q)
    BY DEF CancelRow, IInv, JobIsSound, Paying
  <1>3. rows[q] = "open"
    BY <1>2 DEF IInv, ObjectsAreOpen
  <1>4. \A p \in Quest : rows'[p] = "completed" <=> rows[p] = "completed"
    BY <1>1, <1>2, <1>3 DEF IInv, TypeOK
  <1>5. \A p \in Quest : Reward(p)' = Reward(p)
    BY <1>1, <1>4 DEF Reward
  <1> QED
    BY <1>1, <1>5 DEF Account!vars

\* What a crash takes back, and what it takes for ever.
LEMMA CrashRewards ==
    ASSUME IInv, Crash
    PROVE  Account!Crash
  <1> DEFINE reward == [q \in Quest |-> Reward(q)]
  <1>1. /\ \A q \in Quest : purse'[q] = 0
        /\ lost' = lost \cup {q \in Quest : rows[q] = "completed" /\ account[q] < purse[q]}
        /\ UNCHANGED <<account, rows>>
    BY DEF Crash, Forget, database
  <1>2. ASSUME NEW q \in Quest
        PROVE  Reward(q)' = CASE Reward(q) = "earned"   -> "open"
                              [] Reward(q) = "promised" -> "lost"
                              [] OTHER                  -> Reward(q)
    <2>1. purse[q] \in {0, 1} /\ account[q] \in {0, 1}
      BY RewardFacts
    <2>2. CASE account[q] = 1
      <3>1. Reward(q) = "paid" /\ Reward(q)' = "paid"
        BY <1>1, <2>2 DEF Reward
      <3> QED
        BY <3>1
    <2>3. CASE account[q] = 0 /\ purse[q] = 1 /\ rows[q] = "completed"
      <3>1. q \in lost'
        BY <1>1, <2>3
      <3>2. Reward(q) = "promised" /\ Reward(q)' = "lost"
        BY <1>1, <2>3, <3>1 DEF Reward
      <3> QED
        BY <3>2
    <2>4. CASE account[q] = 0 /\ purse[q] = 1 /\ rows[q] # "completed"
      <3>1. Reward(q) = "earned" /\ Reward(q)' = "open"
        BY <1>1, <2>4 DEF Reward
      <3> QED
        BY <3>1
    <2>5. CASE account[q] = 0 /\ purse[q] = 0
      <3>1. q \in lost' <=> q \in lost
        BY <1>1, <2>5
      <3>2. Reward(q)' = Reward(q) /\ Reward(q) \notin {"earned", "promised"}
        BY <1>1, <2>5, <3>1 DEF Reward
      <3> QED
        BY <3>2
    <2> QED
      BY <2>1, <2>2, <2>3, <2>4, <2>5
  <1>3. reward' = [q \in Quest |-> CASE reward[q] = "earned"   -> "open"
                                     [] reward[q] = "promised" -> "lost"
                                     [] OTHER                  -> reward[q]]
    BY <1>2
  <1> QED
    BY <1>1, <1>3 DEF Account!Crash

LEMMA AcceptRewards ==
    ASSUME IInv, NEW q \in Quest, Accept(q)
    PROVE  UNCHANGED Account!vars
  <1>1. rows' = [rows EXCEPT ![q] = "open"] /\ UNCHANGED <<purse, account, lost>>
    BY DEF Accept, memory
  <1>2. rows[q] = "none"
    BY DEF Accept, IInv, NotAccepted
  <1>3. \A p \in Quest : rows'[p] = "completed" <=> rows[p] = "completed"
    BY <1>1, <1>2 DEF IInv, TypeOK
  <1>4. \A p \in Quest : Reward(p)' = Reward(p)
    BY <1>1, <1>3 DEF Reward
  <1> QED
    BY <1>1, <1>4 DEF Account!vars

LEMMA NextRewards == IInv /\ [Next]_vars => [Account!Next]_Account!vars
  <1> SUFFICES ASSUME IInv, [Next]_vars PROVE [Account!Next]_Account!vars
    OBVIOUS
  <1> USE DEF Account!Next
  <1>1. CASE UNCHANGED vars
    BY <1>1, SameRewards DEF vars, memory, database, history
  <1>2. ASSUME NEW q \in Quest, WriteRow(q) \/ CheckQuest(q) \/ Accept(q)
        PROVE  [Account!Next]_Account!vars
    BY <1>2, WriteRowRewards, CheckQuestRewards, AcceptRewards
  <1>3. CASE Login \/ Visited \/ CancelRow
    BY <1>3, LoginRewards, VisitedRewards, CancelRowRewards
  <1>4. CASE CancelSave \/ SaveToDB("end") \/ SaveToDB("leave") \/ Crash
    BY <1>4, SaveRewards, CrashRewards
  <1>5. ASSUME NEW q \in Quest,
               LoadQuest(q) \/ SaveQuest(q) \/ WriteStep(q) \/ Written(q) \/ CancelQuest(q)
        PROVE  UNCHANGED Account!vars
    BY <1>5, SameRewards
    DEF LoadQuest, SaveQuest, WriteStep, Written, CancelQuest, memory, database, history
  <1>6. ASSUME UpdateQuests \/ \E k \in Kinds : Event(k)
        PROVE  UNCHANGED Account!vars
    BY <1>6, SameRewards DEF UpdateQuests, Event, memory, database, history
  <1> QED
    BY <1>1, <1>2, <1>3, <1>4, <1>5, <1>6 DEF Next, Work

\* The credits in memory and in the table are one account of Rewards: what is promised is
\* paid once, all at a time, and only a crash takes anything back.
THEOREM RewardsImplemented == Spec => ImplementsRewards
  <1>1. Init => Account!Init
    BY DEF Init, Account!Init, Reward
  <1> QED
    BY <1>1, NextRewards, Invariance, PTL DEF Spec, ImplementsRewards, Account!Spec

=============================================================================
