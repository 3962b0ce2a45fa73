----------------------------- MODULE TickProofs ------------------------------
(***************************************************************************)
(* The safety of what happens in a tick, on its two levels that share no   *)
(* variable: the zone pool that updates the maps, for every set of workers *)
(* and every finite set of zones, with or without spurious wake-ups; and the *)
(* maps as the objects of their cells see it, for every set of maps, cells *)
(* and objects.                                                            *)
(***************************************************************************)
EXTENDS ZoneUpdater, Surroundings, FiniteSetTheorems, TLAPS

-----------------------------------------------------------------------------
\* The zone pool.

\* No request is in two places.
Distinct ==
    /\ \A i, j \in 1..Len(queue) : queue[i] = queue[j] => i = j
    /\ \A v, w \in Workers : task[v] = task[w] /\ task[v] # None => v = w
    /\ Queued \cap Held = {}
    /\ Outstanding \cap todo = {}

\* The pending counter counts.
Counted ==
    /\ IsFiniteSet(Outstanding)
    /\ pending = Cardinality(Outstanding)

\* Which workers may hold a request, and which must.
Holding ==
    \A w \in Workers :
        /\ pc[w] \in {"poll", "waiting", "woken", "returned", "crashed"} => task[w] = None
        /\ pc[w] = "updating" => task[w] # None

\* Outside a tick nothing is outstanding; the pool is cancelled outside a tick only.
Quiet ==
    /\ world \in {"world", "drained", "down"} \/ token => Outstanding = {}
    /\ token => world \in {"wait", "sleep", "drained", "down"}
    /\ world \in {"drained", "down"} => token
    /\ shutDown => token
    /\ world # "schedule" => todo = {}

\* The inductive invariant.
IInv == TypeOK /\ Distinct /\ Counted /\ Holding /\ Quiet

-----------------------------------------------------------------------------

\* What an Append and a Tail do to the elements of a sequence.
LEMMA ElementsOfAppend ==
    ASSUME NEW S, NEW s \in Seq(S), NEW x \in S
    PROVE  /\ Append(s, x) \in Seq(S)
           /\ {Append(s, x)[i] : i \in 1..Len(Append(s, x))} =
                {s[i] : i \in 1..Len(s)} \cup {x}
  <1> DEFINE t == Append(s, x)
  <1>1. t \in Seq(S) /\ Len(t) = Len(s) + 1 /\ t[Len(s) + 1] = x
    OBVIOUS
  <1>2. \A i \in 1..Len(s) : t[i] = s[i]
    OBVIOUS
  <1>3. 1..Len(t) = (1..Len(s)) \cup {Len(s) + 1}
    BY <1>1
  <1> QED
    BY <1>1, <1>2, <1>3

LEMMA ElementsOfTail ==
    ASSUME NEW S, NEW s \in Seq(S), s # <<>>,
           \A i, j \in 1..Len(s) : s[i] = s[j] => i = j
    PROVE  /\ Tail(s) \in Seq(S)
           /\ Head(s) \in S
           /\ Head(s) \in {s[i] : i \in 1..Len(s)}
           /\ {Tail(s)[i] : i \in 1..Len(Tail(s))} =
                {s[i] : i \in 1..Len(s)} \ {Head(s)}
           /\ \A i, j \in 1..Len(Tail(s)) : Tail(s)[i] = Tail(s)[j] => i = j
  <1> DEFINE t == Tail(s)
  <1>1. Len(s) > 0 /\ Head(s) = s[1] /\ t \in Seq(S) /\ Len(t) = Len(s) - 1
    OBVIOUS
  <1>2. \A i \in 1..Len(t) : t[i] = s[i + 1] /\ i + 1 \in 1..Len(s)
    BY <1>1
  <1>3. \A j \in 1..Len(s) : j # 1 => j - 1 \in 1..Len(t) /\ t[j - 1] = s[j]
    BY <1>1, <1>2
  <1>4. \A i, j \in 1..Len(t) : t[i] = t[j] => i = j
    BY <1>1, <1>2
  <1> QED
    BY <1>1, <1>2, <1>3, <1>4

-----------------------------------------------------------------------------

LEMMA InitIInv == Init => IInv
  <1> SUFFICES ASSUME Init PROVE IInv
    OBVIOUS
  <1>1. Queued = {} /\ Held = {} /\ Outstanding = {}
    BY DEF Init, Queued, Held, Outstanding
  <1>2. TypeOK
    <2>1. <<>> \in Seq(Zones)
      OBVIOUS
    <2> QED
      BY <2>1 DEF Init, TypeOK, WorldPCs, WorkerPCs
  <1>3. Counted
    BY <1>1, FS_EmptySet DEF Init, Counted
  <1> QED
    BY <1>1, <1>2, <1>3 DEF Init, IInv, Distinct, Holding, Quiet

\* A step that moves no request keeps everything that is said of requests.
LEMMA NoRequestMoves ==
    ASSUME IInv, UNCHANGED <<queue, task, pending>>
    PROVE  /\ Queued' = Queued /\ Held' = Held /\ Outstanding' = Outstanding
           /\ Counted'
           /\ (Outstanding \cap todo' = {} => Distinct')
  BY DEF IInv, Distinct, Counted, Queued, Held, Outstanding

LEMMA ScheduleUpdateIInv ==
    ASSUME IInv, NEW z \in Zones, ScheduleUpdate(z)
    PROVE  IInv'
  <1> USE DEF ScheduleUpdate
  <1>1. pc' \in [Workers -> WorkerPCs]
        /\ \A w \in Workers : pc'[w] = pc[w] \/ (pc[w] = "waiting" /\ pc'[w] = "woken")
    BY DEF IInv, TypeOK, NotifyOne, WorkerPCs
  <1>2. Queued' = Queued \cup {z} /\ queue' \in Seq(Zones)
    BY ElementsOfAppend DEF IInv, TypeOK, Queued
  <1>3. Held' = Held
    BY DEF Held
  <1>4. Outstanding' = Outstanding \cup {z} /\ z \notin Outstanding
    BY <1>2, <1>3 DEF IInv, Distinct, Outstanding
  <1>5. TypeOK'
    BY <1>1, <1>2 DEF IInv, TypeOK
  <1>6. Counted'
    BY <1>4, FS_AddElement DEF IInv, Counted
  <1>7. \A i, j \in 1..Len(queue') : queue'[i] = queue'[j] => i = j
    <2>1. z \notin Queued
      BY <1>4 DEF Outstanding
    <2>2. Len(queue') = Len(queue) + 1 /\ queue'[Len(queue) + 1] = z
          /\ \A i \in 1..Len(queue) : queue'[i] = queue[i] /\ queue'[i] # z
      BY <2>1 DEF IInv, TypeOK, Queued
    <2>3. Len(queue) \in Nat
      BY DEF IInv, TypeOK
    <2> QED
      BY <2>2, <2>3 DEF IInv, Distinct
  <1>8. Distinct'
    BY <1>2, <1>3, <1>4, <1>7, ZoneAssumption DEF IInv, Distinct, Outstanding
  <1>9. Holding'
    BY <1>1 DEF IInv, Holding
  <1>10. Quiet'
    BY DEF IInv, Quiet
  <1> QED
    BY <1>5, <1>6, <1>8, <1>9, <1>10 DEF IInv

\* Taking a request moves it from the queue to the worker.
LEMMA TakeMoves ==
    ASSUME IInv, NEW w \in Workers, Take(w), queue # <<>>, ~shutDown
    PROVE  /\ queue' \in Seq(Zones) /\ Head(queue) \in Zones
           /\ \A i, j \in 1..Len(queue') : queue'[i] = queue'[j] => i = j
           /\ task' = [task EXCEPT ![w] = Head(queue)]
           /\ Head(queue) # None /\ Head(queue) \notin Held
           /\ Queued' = Queued \ {Head(queue)}
           /\ Held' = Held \cup {Head(queue)}
           /\ Outstanding' = Outstanding
  <1> DEFINE z == Head(queue)
  <1>1. task[w] = None
    BY DEF Take, IInv, Holding
  <1>2. queue' = Tail(queue) /\ task' = [task EXCEPT ![w] = z]
    BY DEF Take
  <1>3. queue \in Seq(Zones)
    BY DEF IInv, TypeOK
  <1>4. \A i, j \in 1..Len(queue) : queue[i] = queue[j] => i = j
    BY DEF IInv, Distinct
  <1>5. /\ Tail(queue) \in Seq(Zones) /\ z \in Zones
        /\ z \in {queue[i] : i \in 1..Len(queue)}
        /\ {Tail(queue)[i] : i \in 1..Len(Tail(queue))} =
             {queue[i] : i \in 1..Len(queue)} \ {z}
        /\ \A i, j \in 1..Len(Tail(queue)) : Tail(queue)[i] = Tail(queue)[j] => i = j
    BY <1>3, <1>4, ElementsOfTail
  <1>6. Queued = {queue[i] : i \in 1..Len(queue)}
    BY DEF Queued
  <1>7. Queued' = {Tail(queue)[i] : i \in 1..Len(Tail(queue))}
    BY <1>2 DEF Queued
  <1> HIDE DEF z
  <1>8. Queued' = Queued \ {z} /\ z \in Queued
    BY <1>5, <1>6, <1>7
  <1>9. z # None /\ z \notin Held
    BY <1>5, <1>8, ZoneAssumption DEF IInv, Distinct
  <1>10. task'[w] = z /\ \A v \in Workers : v # w => task'[v] = task[v]
    BY <1>2 DEF IInv, TypeOK
  <1>11. Held' = Held \cup {z}
    BY <1>1, <1>9, <1>10 DEF Held
  <1>12. Outstanding' = Outstanding
    BY <1>8, <1>11 DEF Outstanding
  <1> QED
    BY <1>2, <1>5, <1>8, <1>9, <1>11, <1>12 DEF z

LEMMA TakeIInv ==
    ASSUME IInv, NEW w \in Workers, Take(w)
    PROVE  IInv'
  <1> USE DEF Take
  <1>1. task[w] = None
    BY DEF IInv, Holding
  <1>2. CASE queue = <<>> \/ shutDown
    <2>1. UNCHANGED <<queue, task, pending, todo>>
      BY <1>2
    <2> QED
      BY <1>1, <1>2, <2>1, NoRequestMoves
      DEF IInv, TypeOK, Distinct, Holding, Quiet, WorkerPCs
  <1>3. CASE ~(queue = <<>> \/ shutDown)
    <2> DEFINE z == Head(queue)
    <2>1. /\ queue' \in Seq(Zones) /\ z \in Zones
          /\ \A i, j \in 1..Len(queue') : queue'[i] = queue'[j] => i = j
          /\ task' = [task EXCEPT ![w] = z]
          /\ z # None /\ z \notin Held
          /\ Queued' = Queued \ {z} /\ Held' = Held \cup {z}
          /\ Outstanding' = Outstanding
      BY <1>3, TakeMoves
    <2> HIDE DEF z
    <2>2. task' \in [Workers -> Zones \cup {None}]
          /\ task'[w] = z /\ \A v \in Workers : v # w => task'[v] = task[v]
      BY <2>1 DEF IInv, TypeOK
    <2>3. TypeOK'
      BY <2>1, <2>2 DEF IInv, TypeOK, WorkerPCs
    <2>4. Counted'
      BY <2>1 DEF IInv, Counted
    <2>5. \A v, u \in Workers : task'[v] = task'[u] /\ task'[v] # None => v = u
      BY <2>1, <2>2 DEF IInv, Distinct, Held
    <2>6. Distinct'
      BY <2>1, <2>5 DEF IInv, Distinct
    <2>7. Holding'
      BY <2>2 DEF IInv, TypeOK, Holding
    <2>8. Quiet'
      BY <2>1 DEF IInv, Quiet
    <2> QED
      BY <2>3, <2>4, <2>6, <2>7, <2>8 DEF IInv
  <1> QED
    BY <1>2, <1>3

LEMMA FinishedIInv ==
    ASSUME IInv, NEW w \in Workers, Finished(w)
    PROVE  IInv'
  <1> USE DEF Finished
  <1> DEFINE z == task[w]
  <1>1. z \in Zones /\ z # None /\ z \in Held /\ z \notin Queued /\ z \in Outstanding
    BY DEF IInv, TypeOK, Holding, Held, Distinct, Outstanding
  <1>2. task' \in [Workers -> Zones \cup {None}]
        /\ task'[w] = None /\ \A v \in Workers : v # w => task'[v] = task[v]
    BY DEF IInv, TypeOK
  <1>3. Queued' = Queued
    BY DEF Queued
  <1>4. Held' = Held \ {z}
    BY <1>1, <1>2 DEF IInv, Distinct, Held
  <1>5. Outstanding' = Outstanding \ {z}
    BY <1>1, <1>3, <1>4 DEF Outstanding
  <1>6. /\ IsFiniteSet(Outstanding')
        /\ Cardinality(Outstanding') = pending - 1
        /\ pending - 1 \in Nat
    <2>1. IsFiniteSet(Outstanding) /\ Cardinality(Outstanding) = pending /\ pending \in Nat
      BY DEF IInv, Counted, TypeOK
    <2>2. /\ IsFiniteSet(Outstanding \ {z})
          /\ Cardinality(Outstanding \ {z}) = Cardinality(Outstanding) - 1
      BY <1>1, <2>1, FS_RemoveElement
    <2>3. Cardinality(Outstanding \ {z}) \in Nat
      BY <2>2, FS_CardinalityType
    <2> QED
      BY <1>5, <2>1, <2>2, <2>3
  <1>7. TypeOK'
    BY <1>2, <1>6 DEF IInv, TypeOK, WorldPCs, WorkerPCs
  <1>8. Counted'
    BY <1>6 DEF Counted
  <1>9. Distinct'
    BY <1>2, <1>3, <1>4, <1>5 DEF IInv, Distinct
  <1>10. Holding'
    BY <1>2 DEF IInv, TypeOK, Holding
  <1>11. Quiet'
    BY <1>5 DEF IInv, Quiet
  <1> QED
    BY <1>7, <1>8, <1>9, <1>10, <1>11 DEF IInv

LEMMA WorldIInv ==
    ASSUME IInv, WorldRuns \/ Update \/ Deactivate \/ Destroy
    PROVE  IInv'
  <1>1. CASE \E z \in Zones : ScheduleUpdate(z)
    BY <1>1, ScheduleUpdateIInv
  <1>2. CASE Update
    BY <1>2, NoRequestMoves
    DEF Update, IInv, TypeOK, Distinct, Holding, Quiet, WorldPCs
  <1>3. CASE AllScheduled
    BY <1>3, NoRequestMoves
    DEF AllScheduled, IInv, TypeOK, Distinct, Holding, Quiet, WorldPCs
  <1>4. CASE WaitBlocks
    BY <1>4, NoRequestMoves
    DEF WaitBlocks, IInv, TypeOK, Distinct, Holding, Quiet, WorldPCs
  <1>5. CASE WaitReturns
    <2>1. Outstanding = {}
      BY <1>5, FS_EmptySet DEF WaitReturns, IInv, Counted
    <2> QED
      BY <1>5, <2>1, NoRequestMoves
      DEF WaitReturns, IInv, TypeOK, Distinct, Holding, Quiet, WorldPCs
  <1>6. CASE Deactivate
    BY <1>6, NoRequestMoves
    DEF Deactivate, IInv, TypeOK, Distinct, Holding, Quiet, WorldPCs
  <1>7. CASE ShutDown
    <2>1. queue = <<>>
      <3>1. {queue[i] : i \in 1..Len(queue)} = {}
        BY <1>7 DEF ShutDown, IInv, Quiet, Outstanding, Queued
      <3>2. queue \in Seq(Zones)
        BY DEF IInv, TypeOK
      <3>3. Len(queue) = 0
        <4>1. 1 \in 1..Len(queue) => queue[1] \in {queue[i] : i \in 1..Len(queue)}
          OBVIOUS
        <4>2. Len(queue) \in Nat
          BY <3>2
        <4>3. 1 \notin 1..Len(queue)
          BY ONLY <3>1, <4>1
        <4> QED
          BY ONLY <4>2, <4>3
      <3> QED
        BY <3>2, <3>3
    <2>2. UNCHANGED <<queue, task, pending, todo, token>> /\ token
      BY <1>7, <2>1 DEF ShutDown, IInv, Quiet
    <2> QED
      BY <1>7, <2>2, NoRequestMoves
      DEF ShutDown, IInv, TypeOK, Distinct, Holding, Quiet, WorldPCs, WorkerPCs
  <1>8. CASE Destroy
    BY <1>8, NoRequestMoves
    DEF Destroy, IInv, TypeOK, Distinct, Holding, Quiet, WorldPCs
  <1>9. CASE Destroyed
    BY <1>9, NoRequestMoves
    DEF Destroyed, IInv, TypeOK, Distinct, Holding, Quiet, WorldPCs
  <1> QED
    BY <1>1, <1>2, <1>3, <1>4, <1>5, <1>6, <1>7, <1>8, <1>9 DEF WorldRuns

LEMMA WorkerIInv ==
    ASSUME IInv, NEW w \in Workers, WorkerStep(w)
    PROVE  IInv'
  <1>1. CASE Block(w)
    BY <1>1, NoRequestMoves
    DEF Block, IInv, TypeOK, Distinct, Holding, Quiet, WorkerPCs
  <1>2. CASE Take(w)
    BY <1>2, TakeIInv
  <1>3. CASE Cancelled(w)
    <2>1. Held = {}
      BY <1>3 DEF Cancelled, IInv, Quiet, Outstanding
    <2>2. task[w] = None
      BY <2>1 DEF Held
    <2> QED
      BY <1>3, <2>2, NoRequestMoves
      DEF Cancelled, IInv, TypeOK, Distinct, Holding, Quiet, WorkerPCs
  <1>4. CASE Call(w)
    BY <1>4, NoRequestMoves
    DEF Call, IInv, TypeOK, Distinct, Holding, Quiet, WorkerPCs
  <1>5. CASE Finished(w)
    BY <1>5, FinishedIInv
  <1> QED
    BY <1>1, <1>2, <1>3, <1>4, <1>5 DEF WorkerStep

LEMMA SpuriousIInv ==
    ASSUME IInv, Spurious
    PROVE  IInv'
  BY NoRequestMoves
  DEF Spurious, IInv, TypeOK, Distinct, Holding, Quiet, WorldPCs, WorkerPCs

LEMMA NextIInv == IInv /\ [Next]_vars => IInv'
  <1> SUFFICES ASSUME IInv, [Next]_vars PROVE IInv'
    OBVIOUS
  <1>1. CASE WorldStep
    BY <1>1, WorldIInv DEF WorldStep
  <1>2. CASE \E w \in Workers : WorkerStep(w)
    BY <1>2, WorkerIInv
  <1>3. CASE Spurious
    BY <1>3, SpuriousIInv
  <1>4. CASE UNCHANGED vars
    BY <1>4, NoRequestMoves DEF vars, IInv, TypeOK, Distinct, Holding, Quiet
  <1> QED
    BY <1>1, <1>2, <1>3, <1>4 DEF Next

\* The inductive invariant holds of the specification.
THEOREM Invariance == Spec => []IInv
  BY InitIInv, NextIInv, PTL DEF Spec

\* Every variable of the zone pool keeps its type.
THEOREM TypeCorrect == Spec => []TypeOK
  BY Invariance, PTL DEF IInv

\* Wait() is never misled: m_PendingRequests counts the outstanding requests.
THEOREM PendingCorrect == Spec => []PendingCountsRequests
  <1>1. IInv => PendingCountsRequests
    BY DEF IInv, Counted, PendingCountsRequests
  <1> QED
    BY <1>1, Invariance, PTL

\* Outside Manager::Update the world thread has the zones for itself.
THEOREM WorldAlone == Spec => []WorldRunsAlone
  <1>1. IInv => WorldRunsAlone
    <2> SUFFICES ASSUME IInv, world \in {"world", "drained", "down"}
                 PROVE  Outstanding = {} /\ \A w \in Workers : pc[w] # "updating"
      BY DEF WorldRunsAlone
    <2>1. Outstanding = {}
      BY DEF IInv, Quiet
    <2>2. \A w \in Workers : task[w] = None
      BY <2>1 DEF Outstanding, Held
    <2> QED
      BY <2>1, <2>2 DEF IInv, Holding
  <1> QED
    BY <1>1, Invariance, PTL

\* No two workers are ever inside the maps of one zone.
THEOREM ZonesExclusive == Spec => []OneWorkerPerZone
  <1>1. IInv => OneWorkerPerZone
    BY DEF IInv, Distinct, Holding, OneWorkerPerZone
  <1> QED
    BY <1>1, Invariance, PTL

\* World and zones alternate, and the workers never share a zone: what Manager::Update
\* relies on when it runs without locks around the maps.
THEOREM UpdatesExclusive == Spec => []UpdatesAreExclusive
  BY WorldAlone, ZonesExclusive, PTL DEF UpdatesAreExclusive

\* Deactivate and ~ZoneUpdater drop no request, although they cancel before they wait.
THEOREM CancelSafe == Spec => []CancelLosesNothing
  <1>1. IInv => CancelLosesNothing
    BY DEF IInv, Quiet, CancelLosesNothing
  <1> QED
    BY <1>1, Invariance, PTL

-----------------------------------------------------------------------------

\* The phase of the barrier that the refinement mapping computes.
Phase ==
    IF world = "schedule" \/ (world \in {"wait", "sleep"} /\ ~token)
    THEN "zones" ELSE "world"

\* The abstract state of a zone that no request stands for, or that is updated.
LEMMA DoneState ==
    ASSUME IInv, NEW z \in Zones
    PROVE  /\ ZoneState(z) = "done" <=> z \notin todo \cup Outstanding
           /\ \A w \in Workers : pc[w] = "updating" /\ task[w] = z => ZoneState(z) = "running"
  <1>1. \A w \in Workers : task[w] = z => z \in Held
    BY ZoneAssumption DEF Held
  <1>2. Due(z) => z \in todo \cup Outstanding
    BY <1>1 DEF Due, Outstanding
  <1>3. z \in Held => z \in Outstanding
    BY DEF Outstanding
  <1>4. z \in todo \cup Outstanding => Due(z) \/ z \in Held
    BY DEF Due, Outstanding
  <1>5. ASSUME NEW w \in Workers, pc[w] = "updating", task[w] = z
        PROVE  ZoneState(z) = "running"
    <2>1. z \in Held
      BY <1>1, <1>5
    <2>2. z \notin todo \cup Queued
      BY <2>1 DEF IInv, Distinct, Outstanding
    <2>3. \A v \in Workers : task[v] = z => v = w
      BY <1>5, ZoneAssumption DEF IInv, Distinct
    <2> QED
      BY <1>5, <2>1, <2>2, <2>3 DEF Due, ZoneState
  <1> QED
    BY <1>2, <1>3, <1>4, <1>5 DEF ZoneState

\* The state of a zone after a step that leaves a worker updating it.
LEMMA RunningNext ==
    ASSUME IInv', NEW w \in Workers, pc'[w] = "updating", NEW z \in Zones, task'[w] = z
    PROVE  ZoneState(z)' = "running"
  <1>1. z \in Held'
    BY ZoneAssumption DEF Held
  <1>2. z \notin (todo \cup Queued)'
    BY <1>1 DEF IInv, Distinct, Outstanding
  <1>3. \A v \in Workers : task'[v] = z => v = w
    BY ZoneAssumption DEF IInv, Distinct
  <1> QED
    BY <1>1, <1>2, <1>3 DEF Due, ZoneState

LEMMA TaskAlone ==
    ASSUME IInv, NEW w \in Workers, task[w] # None
    PROVE  \A v \in Workers : v # w => task[v] # task[w]
  BY DEF IInv, Distinct

LEMMA InitBarrier == Init => Barrier!Init
  <1> SUFFICES ASSUME Init PROVE Barrier!Init
    OBVIOUS
  <1>1. todo \cup Outstanding = {}
    BY DEF Init, Outstanding, Queued, Held
  <1>2. \A z \in Zones : ZoneState(z) = "done"
    BY <1>1, InitIInv, DoneState
  <1> QED
    BY <1>2 DEF Init, Barrier!Init

\* A step that changes neither the phase nor what is due or held is a stutter.
LEMMA Stutter ==
    ASSUME Phase' = Phase,
           \A z \in Zones : /\ Due(z)' <=> Due(z)
                            /\ z \in Held' <=> z \in Held
    PROVE  UNCHANGED Barrier!vars
  <1>1. \A z \in Zones : ZoneState(z)' = ZoneState(z)
    BY DEF ZoneState
  <1> QED
    BY <1>1 DEF Phase, Barrier!vars

LEMMA WorldBarrier ==
    ASSUME IInv, IInv', WorldRuns \/ Update \/ Deactivate \/ Destroy
    PROVE  [Barrier!Next]_Barrier!vars
  <1>1. CASE \E z \in Zones : ScheduleUpdate(z)
    <2>1. PICK y \in Zones : ScheduleUpdate(y)
      BY <1>1
    <2>2. Queued' = Queued \cup {y} /\ todo' \cup Queued' = todo \cup Queued
      BY <2>1, ElementsOfAppend DEF ScheduleUpdate, IInv, TypeOK, Queued
    <2>3. \A w \in Workers : pc'[w] = "updating" <=> pc[w] = "updating"
      BY <2>1 DEF ScheduleUpdate, NotifyOne, IInv, TypeOK
    <2>4. Phase' = Phase /\ Held' = Held /\ task' = task
      BY <2>1 DEF ScheduleUpdate, Phase, Held
    <2>5. \A z \in Zones : Due(z)' <=> Due(z)
      BY <2>2, <2>3, <2>4 DEF Due
    <2> QED
      BY <2>4, <2>5, Stutter
  <1>2. CASE Update
    <2>1. \A z \in Zones : ZoneState(z)' = "due"
      BY <1>2 DEF Update, ZoneState, Due
    <2> QED
      BY <1>2, <2>1 DEF Update, Barrier!Next, Barrier!Fork
  <1>3. CASE AllScheduled
    <2>1. ~token
      BY <1>3 DEF AllScheduled, IInv, Quiet
    <2> QED
      BY <1>3, <2>1, Stutter DEF AllScheduled, Phase, Due, Held, Queued
  <1>4. CASE WaitBlocks
    BY <1>4, Stutter DEF WaitBlocks, Phase, Due, Held, Queued
  <1>5. CASE WaitReturns
    <2>1. CASE token
      BY <1>5, <2>1, Stutter DEF WaitReturns, Phase, Due, Held, Queued
    <2>2. CASE ~token
      <3>1. todo \cup Outstanding = {}
        BY <1>5, FS_EmptySet DEF WaitReturns, IInv, Counted, Quiet
      <3>2. \A z \in Zones : ZoneState(z) = "done"
        BY <3>1, DoneState
      <3>3. \A z \in Zones : ZoneState(z)' = ZoneState(z)
        BY <1>5 DEF WaitReturns, ZoneState, Due, Held, Queued
      <3> QED
        BY <1>5, <2>2, <3>2, <3>3 DEF WaitReturns, Barrier!Next, Barrier!Join
    <2> QED
      BY <2>1, <2>2
  <1>6. CASE Deactivate
    BY <1>6, Stutter DEF Deactivate, Phase, Due, Held, Queued
  <1>7. CASE ShutDown
    <2>1. \A z \in Zones : ZoneState(z) = "done" /\ ZoneState(z)' = "done"
      <3>1. /\ todo \cup Outstanding = {}
            /\ (todo \cup Outstanding)' = {}
        BY <1>7 DEF ShutDown, IInv, Quiet
      <3>2. \A z \in Zones : (ZoneState(z) = "done")'
        <4>1. todo' = {} /\ Queued' = {} /\ Held' = {}
          BY <3>1 DEF Outstanding
        <4>2. \A w \in Workers : task'[w] = None
          BY <4>1 DEF Held
        <4> QED
          BY <4>1, <4>2, ZoneAssumption DEF ZoneState, Due
      <3> QED
        BY <3>1, <3>2, DoneState
    <2> QED
      BY <1>7, <2>1 DEF ShutDown, Barrier!vars
  <1>8. CASE Destroy
    BY <1>8, Stutter DEF Destroy, Phase, Due, Held, Queued
  <1>9. CASE Destroyed
    BY <1>9, Stutter DEF Destroyed, Phase, Due, Held, Queued
  <1> QED
    BY <1>1, <1>2, <1>3, <1>4, <1>5, <1>6, <1>7, <1>8, <1>9 DEF WorldRuns

LEMMA WorkerBarrier ==
    ASSUME IInv, IInv', NEW w \in Workers, WorkerStep(w)
    PROVE  [Barrier!Next]_Barrier!vars
  <1>1. CASE Block(w)
    BY <1>1, Stutter DEF Block, Phase, Due, Held, Queued, IInv, TypeOK
  <1>2. CASE Take(w)
    <2>1. UNCHANGED <<world, token, todo>> /\ pc' = [pc EXCEPT ![w] = "popped"]
          /\ pc[w] # "updating" /\ task[w] = None
      BY <1>2 DEF Take, IInv, Holding
    <2>2. Outstanding' = Outstanding
      <3>1. CASE queue = <<>> \/ shutDown
        BY <1>2, <3>1 DEF Take, Outstanding, Queued, Held
      <3>2. CASE ~(queue = <<>> \/ shutDown)
        BY <1>2, <3>2, TakeMoves
      <3> QED
        BY <3>1, <3>2
    <2>3. \A v \in Workers : v # w => task'[v] = task[v] /\ pc'[v] = pc[v]
      BY <1>2, <2>1 DEF Take, IInv, TypeOK
    <2>4. pc'[w] = "popped"
      BY <2>1 DEF IInv, TypeOK
    <2>5. \A z \in Zones : ZoneState(z)' = ZoneState(z)
      <3> SUFFICES ASSUME NEW z \in Zones PROVE ZoneState(z)' = ZoneState(z)
        OBVIOUS
      <3>1. CASE z \in todo
        BY <2>1, <3>1 DEF ZoneState, Due
      <3>2. CASE \E v \in Workers : pc[v] = "updating" /\ task[v] = z
        <4>1. PICK v \in Workers : pc[v] = "updating" /\ task[v] = z
          BY <3>2
        <4>2. v # w /\ task'[v] = z /\ pc'[v] = "updating"
          BY <2>1, <2>3, <4>1
        <4>3. ZoneState(z) = "running"
          BY <4>1, DoneState
        <4>4. (ZoneState(z) = "running")'
          BY <4>2, RunningNext
        <4> QED
          BY <4>3, <4>4
      <3>3. CASE z \notin todo /\ ~\E v \in Workers : pc[v] = "updating" /\ task[v] = z
        <4>1. Due(z) <=> z \in Outstanding
          BY <3>3, ZoneAssumption DEF Due, Outstanding, Held
        <4>2. ~\E v \in Workers : pc'[v] = "updating" /\ task'[v] = z
          BY <2>3, <2>4, <3>3
        <4>3. Due(z)' <=> z \in Outstanding'
          BY <2>1, <3>3, <4>2, ZoneAssumption DEF Due, Outstanding, Held
        <4>4. z \in Held => z \in Outstanding
          BY DEF Outstanding
        <4>5. z \in Held' => z \in Outstanding'
          BY DEF Outstanding
        <4> QED
          BY <2>2, <4>1, <4>3, <4>4, <4>5 DEF ZoneState
      <3> QED
        BY <3>1, <3>2, <3>3
    <2> QED
      BY <2>1, <2>5 DEF Barrier!vars
  <1>3. CASE Cancelled(w)
    <2>1. Held = {}
      BY <1>3 DEF Cancelled, IInv, Quiet, Outstanding
    <2>2. \A v \in Workers : task[v] = None
      BY <2>1 DEF Held
    <2> QED
      BY <1>3, <2>2, ZoneAssumption, Stutter DEF Cancelled, Phase, Due, Held, Queued
  <1>4. CASE Call(w)
    <2>1. CASE task[w] = None
      BY <1>4, <2>1, ZoneAssumption, Stutter
      DEF Call, Phase, Due, Held, Queued, IInv, TypeOK
    <2>2. CASE task[w] # None
      <3>0. PICK y \in Zones : y = task[w]
        BY <2>2 DEF IInv, TypeOK
      <3>1. y \in Held /\ y \in Outstanding /\ y \notin todo \cup Queued
        BY <2>2, <3>0 DEF IInv, TypeOK, Distinct, Held, Outstanding
      <3>2. Phase = "zones" /\ Phase' = "zones"
        BY <1>4, <3>1 DEF Call, Phase, IInv, TypeOK, WorldPCs, Quiet
      <3>3. pc'[w] = "updating" /\ \A v \in Workers : v # w => pc'[v] = pc[v]
        BY <1>4, <2>2 DEF Call, IInv, TypeOK
      <3>4. UNCHANGED <<todo, queue, task>> /\ Held' = Held /\ Queued' = Queued
        BY <1>4 DEF Call, Held, Queued
      <3>5. ZoneState(y) = "due"
        BY <1>4, <3>0 DEF Call, ZoneState, Due
      <3>6. (ZoneState(y) = "running")'
        BY <3>0, <3>3, <3>4, RunningNext
      <3>7. \A z \in Zones : z # y => ZoneState(z)' = ZoneState(z)
        BY <3>0, <3>3, <3>4 DEF ZoneState, Due
      <3>8. Barrier!Begin(y)
        BY <3>1, <3>2, <3>5, <3>6, <3>7 DEF Barrier!Begin, Phase
      <3> QED
        BY <3>8 DEF Barrier!Next
    <2> QED
      BY <2>1, <2>2
  <1>5. CASE Finished(w)
    <2>0. PICK y \in Zones : y = task[w]
      BY <1>5 DEF Finished, IInv, TypeOK, Holding
    <2>1. y \in Held /\ y \in Outstanding /\ y \notin todo \cup Queued
          /\ y # None
      BY <1>5, <2>0, ZoneAssumption DEF IInv, Distinct, Held, Outstanding
    <2>2. Phase' = Phase
      BY <1>5 DEF Finished, Phase
    <2>3. pc'[w] = "poll" /\ task'[w] = None
          /\ \A v \in Workers : v # w => pc'[v] = pc[v] /\ task'[v] = task[v]
      BY <1>5 DEF Finished, IInv, TypeOK
    <2>4. UNCHANGED <<todo, queue>> /\ Queued' = Queued
      BY <1>5 DEF Finished, Queued
    <2>5. Held' = Held \ {y}
      BY <2>0, <2>1, <2>3, TaskAlone DEF Held
    <2>6. ZoneState(y) = "running"
      BY <2>0, <1>5, <2>1, DoneState DEF Finished
    <2>7. \A v \in Workers : task'[v] # y
      BY <2>0, <2>1, <2>3, TaskAlone
    <2>8. (ZoneState(y) = "done")'
      BY <2>1, <2>4, <2>5, <2>7 DEF ZoneState, Due
    <2>9. \A z \in Zones : z # y => ZoneState(z)' = ZoneState(z)
      BY <2>0, <1>5, <2>3, <2>4, <2>5, ZoneAssumption DEF ZoneState, Due, Finished
    <2>10. Barrier!End(y)
      BY <2>1, <2>2, <2>6, <2>8, <2>9 DEF Barrier!End, Phase
    <2> QED
      BY <2>10 DEF Barrier!Next
  <1> QED
    BY <1>1, <1>2, <1>3, <1>4, <1>5 DEF WorkerStep

LEMMA NextBarrier == IInv /\ IInv' /\ [Next]_vars => [Barrier!Next]_Barrier!vars
  <1> SUFFICES ASSUME IInv, IInv', [Next]_vars PROVE [Barrier!Next]_Barrier!vars
    OBVIOUS
  <1>1. CASE WorldStep
    BY <1>1, WorldBarrier DEF WorldStep
  <1>2. CASE \E w \in Workers : WorkerStep(w)
    BY <1>2, WorkerBarrier
  <1>3. CASE Spurious
    BY <1>3, Stutter DEF Spurious, Phase, Due, Held, Queued, IInv, TypeOK
  <1>4. CASE UNCHANGED vars
    BY <1>4, Stutter DEF vars, Phase, Due, Held, Queued
  <1> QED
    BY <1>1, <1>2, <1>3, <1>4 DEF Next

\* The zone pool implements a fork and a join: in every tick each zone is updated
\* exactly once, and the world thread goes on when all of them are done.
THEOREM BarrierImplemented == Spec => ImplementsBarrier
  BY InitBarrier, NextBarrier, Invariance, PTL DEF Spec, ImplementsBarrier, Barrier!Spec

-----------------------------------------------------------------------------
\* No wake-up is lost.

\* A worker gives up when it is cancelled, and not before.
GivesUp == \A w \in Workers : pc[w] = "returned" => token

WakeInv == WaitsAreWoken /\ GivesUp

\* A queue without elements is the empty one.
LEMMA NothingQueued ==
    ASSUME IInv, Queued = {}
    PROVE  queue = <<>>
  <1>1. queue \in Seq(Zones)
    BY DEF IInv, TypeOK
  <1>2. Len(queue) = 0
    <2>1. 1 \in 1..Len(queue) => queue[1] \in Queued
      BY DEF Queued
    <2>2. 1 \notin 1..Len(queue)
      BY <2>1
    <2>3. Len(queue) \in Nat
      BY <1>1
    <2> QED
      BY ONLY <2>2, <2>3
  <1> QED
    BY <1>1, <1>2

\* A request is only pushed before the cancellation, when no worker has given up:
\* the notified one, or one that was not waiting at all, takes it.
LEMMA ScheduleUpdateWakes ==
    ASSUME IInv, WakeInv, NEW z \in Zones, ScheduleUpdate(z)
    PROVE  WakeInv'
  <1> USE DEF IInv, TypeOK
  <1>1. ~token /\ UNCHANGED token
    BY DEF ScheduleUpdate, Quiet
  <1>2. \A w \in Workers : pc[w] # "returned"
    BY <1>1 DEF WakeInv, GivesUp
  <1>3. CASE \A w \in Workers : pc[w] # "waiting"
    <2>1. UNCHANGED pc
      BY <1>3 DEF ScheduleUpdate, NotifyOne
    <2>2. PICK w \in Workers : pc[w] \notin {"waiting", "returned"}
      BY <1>2, <1>3, ZoneAssumption
    <2> QED
      BY <1>1, <1>2, <1>3, <2>1, <2>2
      DEF ScheduleUpdate, WakeInv, GivesUp, WaitsAreWoken
  <1>4. CASE \E w \in Workers : pc[w] = "waiting"
    <2>1. PICK w \in Workers : pc[w] = "waiting" /\ pc' = [pc EXCEPT ![w] = "woken"]
      BY <1>4 DEF ScheduleUpdate, NotifyOne
    <2>2. pc'[w] = "woken" /\ \A v \in Workers : v # w => pc'[v] = pc[v]
      BY <2>1
    <2> QED
      BY <1>1, <1>2, <2>1, <2>2
      DEF ScheduleUpdate, WakeInv, GivesUp, WaitsAreWoken
  <1> QED
    BY <1>3, <1>4

LEMMA WorldWakes ==
    ASSUME IInv, WakeInv, Alive, WorldRuns \/ Update \/ Deactivate \/ Destroy
    PROVE  WakeInv'
  <1> USE DEF WakeInv, GivesUp, WaitsAreWoken, Alive
  <1>1. CASE \E z \in Zones : ScheduleUpdate(z)
    BY <1>1, ScheduleUpdateWakes
  <1>2. CASE Update
    BY <1>2 DEF Update
  <1>3. CASE AllScheduled
    BY <1>3 DEF AllScheduled
  <1>4. CASE WaitBlocks
    BY <1>4 DEF WaitBlocks
  <1>5. CASE WaitReturns
    BY <1>5 DEF WaitReturns
  <1>6. CASE Deactivate
    BY <1>6 DEF Deactivate
  <1>7. CASE ShutDown
    BY <1>7 DEF ShutDown, IInv, TypeOK
  <1>8. CASE Destroy
    BY <1>8 DEF Destroy
  <1>9. CASE Destroyed
    BY <1>9 DEF Destroyed
  <1> QED
    BY <1>1, <1>2, <1>3, <1>4, <1>5, <1>6, <1>7, <1>8, <1>9 DEF WorldRuns

\* A worker goes to sleep on an empty queue only, and gives up over an empty one.
LEMMA WorkerWakes ==
    ASSUME IInv, WakeInv, NEW w \in Workers, WorkerStep(w)
    PROVE  WakeInv'
  <1> USE DEF WakeInv, GivesUp, WaitsAreWoken, IInv, TypeOK
  <1>0. Alive
    BY DEF WorkerStep
  <1>1. CASE Block(w)
    BY <1>1 DEF Block
  <1>2. CASE Take(w)
    BY <1>2 DEF Take
  <1>3. CASE Cancelled(w)
    <2>1. queue = <<>>
      BY <1>3, NothingQueued DEF Cancelled, Quiet, Outstanding
    <2> QED
      BY <1>3, <2>1 DEF Cancelled
  <1>4. CASE Call(w)
    BY <1>4 DEF Call, Alive
  <1>5. CASE Finished(w)
    BY <1>5 DEF Finished
  <1> QED
    BY <1>1, <1>2, <1>3, <1>4, <1>5 DEF WorkerStep

LEMMA NextWakes == IInv /\ WakeInv /\ [Next]_vars => WakeInv'
  <1> SUFFICES ASSUME IInv, WakeInv, [Next]_vars PROVE WakeInv'
    OBVIOUS
  <1>1. CASE WorldStep
    BY <1>1, WorldWakes DEF WorldStep
  <1>2. CASE \E w \in Workers : WorkerStep(w)
    BY <1>2, WorkerWakes
  <1>3. CASE Alive /\ Spurious
    BY <1>3 DEF Spurious, IInv, TypeOK, WakeInv, GivesUp, WaitsAreWoken, Alive
  <1>4. CASE UNCHANGED vars
    BY <1>4 DEF vars, WakeInv, GivesUp, WaitsAreWoken, Alive
  <1> QED
    BY <1>1, <1>2, <1>3, <1>4 DEF Next

\* Neither the world thread nor a worker sleeps while there is something to wake up
\* for and nobody to do it.
THEOREM NoLostWakeUp == Spec => []WaitsAreWoken
  <1>1. Init => WakeInv
    BY DEF Init, WakeInv, GivesUp, WaitsAreWoken
  <1>2. WakeInv => WaitsAreWoken
    BY DEF WakeInv
  <1> QED
    BY <1>1, <1>2, NextWakes, Invariance, PTL DEF Spec

\* Nobody waits in vain, be it for a number that is wrong or for a wake-up that is lost.
THEOREM NobodyWaitsInVain == Spec => []WaitsAreRight
  BY PendingCorrect, NoLostWakeUp, PTL DEF WaitsAreRight

-----------------------------------------------------------------------------
\* The maps.

\* A freed object is in no cell.
FreedAreOut == \A x \in freed : place[x] = Null

\* Out of the loop of a cell there is nothing left to update.
LoopsAreShut == \A m \in Maps : at[m] \notin {"loop", "down"} => loop[m] = {} /\ who[m] = Null

\* What a map has to update is on it, and the player whose turn it is comes once.
LoopsAreHere ==
    \A m \in Maps :
        /\ loop[m] \subseteq On(m)
        /\ who[m] # Null => who[m] \in On(m) \ loop[m]

\* A mine that is scheduled was taken from the loop.
MinesAreSet == \A m \in Maps : loop[m] \cap Mines \cap scheduled = {}

\* A player waits for its jump on the map it leaves, or died there.
JumpsAreHere ==
    \A p \in Players \ freed : jump[p] # Null =>
        \/ p \in On(jump[p][1])
        \/ place[p] = Null /\ death[p] = "DEAD"

\* A player that has not logged in sees nothing.
FreshSeeNothing ==
    \A p \in Players \ freed : place[p] = Null /\ death[p] = "ALIVE" => near[p] = {}

\* The inductive invariant.
MapIInv ==
    /\ MapTypeOK /\ FreedAreOut /\ LoopsAreShut /\ LoopsAreHere /\ MinesAreSet
    /\ JumpsAreHere /\ FreshSeeNothing /\ SurroundingsAreHere /\ PoolAgrees

-----------------------------------------------------------------------------

\* Where objects are.
LEMMA OnFacts ==
    ASSUME MapTypeOK
    PROVE  /\ \A x \in Objects : place[x] # Null => place[x] \in Maps \X Cells
           /\ \A x \in Objects, m \in Maps : x \in On(m) => place[x] # Null
           /\ \A x \in Objects, m, n \in Maps : x \in On(m) /\ x \in On(n) => m = n
           /\ \A m : On(m) \subseteq Objects
           /\ \A m \in Maps, c \in Cells : In(m, c) \subseteq On(m)
           /\ \A x \in Objects, m \in Maps, c \in Cells : place[x] = <<m, c>> => x \in On(m)
  <1>1. \A x \in Objects : place[x] # Null => place[x] \in Maps \X Cells
    BY DEF MapTypeOK
  <1>2. \A x \in Objects, m \in Maps : x \in On(m) => place[x] # Null /\ place[x][1] = m
    BY DEF On
  <1>3. \A m \in Maps, c \in Cells : <<m, c>> # Null /\ <<m, c>>[1] = m
    BY SurroundingsAssumption
  <1>4. \A m \in Maps, c \in Cells : In(m, c) \subseteq On(m)
    BY <1>3 DEF In, On
  <1>5. \A x \in Objects, m \in Maps, c \in Cells : place[x] = <<m, c>> => x \in On(m)
    BY <1>3 DEF On
  <1>6. \A m : On(m) \subseteq Objects
    BY DEF On
  <1> QED
    BY <1>1, <1>2, <1>4, <1>5, <1>6

\* The kinds of objects.
LEMMA ObjectKinds ==
    /\ Players \subseteq Objects /\ Boxes \subseteq Objects /\ Ores \subseteq Objects
    /\ Mines \subseteq Objects /\ Null \notin Objects
    /\ Players \cap (Boxes \cup Ores \cup Mines) = {}
    /\ Mines \cap (Players \cup Boxes \cup Ores) = {}
  BY SurroundingsAssumption DEF Objects

\* A step that moves nothing leaves everything on its map.
LEMMA OnRests == ASSUME UNCHANGED place PROVE \A m : On(m)' = On(m)
  BY DEF On

\* The next cell of a map, or the end of its tick.
LEMMA NextCellType ==
    ASSUME MapTypeOK, NEW m \in Maps, NextCell(m)
    PROVE  /\ at' \in [Maps -> {"done", "pools", "jumps", "head", "loop", "down"}]
           /\ cell' \in [Maps -> Cells]
           /\ \A n \in Maps : n # m => at'[n] = at[n]
  <1>1. CASE cell[m] = LastCell
    BY <1>1 DEF NextCell, MapTypeOK
  <1>2. CASE cell[m] # LastCell
    <2>1. cell[m] + 1 \in Cells
      <3>1. cell[m] \in 0..LastCell /\ LastCell \in Nat
        BY SurroundingsAssumption DEF MapTypeOK, Cells
      <3> QED
        BY <1>2, <3>1 DEF Cells
    <2> QED
      BY <1>2, <2>1 DEF NextCell, MapTypeOK
  <1> QED
    BY <1>1, <1>2

-----------------------------------------------------------------------------

\* What does not look at the clocks of the maps.
LEMMA BodiesRest ==
    ASSUME MapIInv, UNCHANGED <<bodies, jump>>
    PROVE  /\ FreedAreOut' /\ JumpsAreHere' /\ FreshSeeNothing' /\ SurroundingsAreHere'
           /\ UNCHANGED pool => PoolAgrees'
  <1> USE OnRests DEF bodies
  <1>1. FreedAreOut' /\ FreshSeeNothing'
    BY DEF MapIInv, FreedAreOut, FreshSeeNothing
  <1>2. JumpsAreHere'
    BY DEF MapIInv, JumpsAreHere
  <1>3. SurroundingsAreHere'
    BY DEF MapIInv, SurroundingsAreHere
  <1>4. UNCHANGED pool => PoolAgrees'
    BY DEF MapIInv, PoolAgrees
  <1> QED
    BY <1>1, <1>2, <1>3, <1>4

\* A step that adds nothing to the loops and moves nothing of them.
LEMMA LoopsShrink ==
    ASSUME MapIInv, \A m \in Maps : On(m) \subseteq On(m)',
           UNCHANGED scheduled,
           \A m \in Maps : loop'[m] \subseteq loop[m] /\ who'[m] \in {who[m], Null}
    PROVE  LoopsAreHere' /\ MinesAreSet'
  <1>1. LoopsAreHere'
    BY DEF MapIInv, LoopsAreHere
  <1>2. MinesAreSet'
    BY DEF MapIInv, MinesAreSet
  <1> QED
    BY <1>1, <1>2

LEMMA BeginTickIInv ==
    ASSUME MapIInv, BeginTick, UNCHANGED events
    PROVE  MapIInv'
  <1> USE DEF BeginTick, bodies
  <1>1. MapTypeOK'
    BY DEF MapIInv, MapTypeOK
  <1>2. LoopsAreShut'
    BY DEF MapIInv, LoopsAreShut, Between
  <1>3. LoopsAreHere' /\ MinesAreSet'
    BY LoopsShrink, OnRests
  <1> QED
    BY <1>1, <1>2, <1>3, BodiesRest DEF MapIInv

LEMMA UpdatePoolsIInv ==
    ASSUME MapIInv, NEW m \in Maps, UpdatePools(m), UNCHANGED events
    PROVE  MapIInv'
  <1> USE DEF UpdatePools, bodies
  <1>1. MapTypeOK'
    BY DEF MapIInv, MapTypeOK
  <1>2. LoopsAreShut'
    BY DEF MapIInv, MapTypeOK, LoopsAreShut
  <1>3. LoopsAreHere' /\ MinesAreSet'
    BY LoopsShrink, OnRests
  <1>4. PoolAgrees'
    <2>1. \A n \in Maps : pool'[n] = IF n = m THEN pool[n] \ scheduled ELSE pool[n]
      BY DEF MapIInv, MapTypeOK
    <2> QED
      BY <2>1, OnRests DEF MapIInv, PoolAgrees
  <1> QED
    BY <1>1, <1>2, <1>3, <1>4, BodiesRest DEF MapIInv

LEMMA JumpsDoneIInv ==
    ASSUME MapIInv, NEW m \in Maps, JumpsDone(m), UNCHANGED events
    PROVE  MapIInv'
  <1> USE DEF JumpsDone, bodies
  <1>1. MapTypeOK'
    <2>1. 0 \in Cells
      BY SurroundingsAssumption DEF Cells
    <2> QED
      BY <2>1 DEF MapIInv, MapTypeOK
  <1>2. LoopsAreShut'
    BY DEF MapIInv, MapTypeOK, LoopsAreShut
  <1>3. LoopsAreHere' /\ MinesAreSet'
    BY LoopsShrink, OnRests
  <1> QED
    BY <1>1, <1>2, <1>3, BodiesRest DEF MapIInv

LEMMA GridSkipsIInv ==
    ASSUME MapIInv, NEW m \in Maps, GridSkips(m), UNCHANGED events
    PROVE  MapIInv'
  <1> USE DEF GridSkips, bodies
  <1>1. MapTypeOK'
    BY NextCellType DEF MapIInv, MapTypeOK
  <1>2. LoopsAreShut'
    BY NextCellType DEF MapIInv, LoopsAreShut
  <1>3. LoopsAreHere' /\ MinesAreSet'
    BY LoopsShrink, OnRests
  <1> QED
    BY <1>1, <1>2, <1>3, BodiesRest DEF MapIInv

LEMMA EndOfLoopIInv ==
    ASSUME MapIInv, NEW m \in Maps, EndOfLoop(m), UNCHANGED events
    PROVE  MapIInv'
  <1> USE DEF EndOfLoop, bodies
  <1>1. \A n \in Maps : loop'[n] = IF n = m THEN {} ELSE loop[n]
    BY DEF MapIInv, MapTypeOK
  <1>2. MapTypeOK'
    BY NextCellType DEF MapIInv, MapTypeOK
  <1>3. LoopsAreShut'
    BY <1>1, NextCellType DEF MapIInv, LoopsAreShut
  <1>4. LoopsAreHere' /\ MinesAreSet'
    BY <1>1, LoopsShrink, OnRests
  <1> QED
    BY <1>2, <1>3, <1>4, BodiesRest DEF MapIInv

-----------------------------------------------------------------------------

\* The player whose packets a map handles is there, and on no other map's list.
LEMMA TurnFacts ==
    ASSUME MapIInv, NEW m \in Maps, NEW p \in Players, who[m] = p
    PROVE  /\ at[m] \in {"loop", "down"} /\ p \in On(m) \ loop[m] /\ p \in Objects
           /\ p # Null /\ p \notin freed /\ place[p] # Null
           /\ \A n \in Maps : n # m => p \notin On(n) /\ p \notin loop[n] /\ who[n] # p
  <1> USE ObjectKinds
  <1>1. p \in Objects /\ p # Null
    OBVIOUS
  <1>2. p \in On(m) \ loop[m]
    BY <1>1 DEF MapIInv, LoopsAreHere
  <1>3. place[p] # Null /\ \A n \in Maps : p \in On(n) => n = m
    BY <1>1, <1>2, OnFacts DEF MapIInv
  <1>4. p \notin freed
    BY <1>3 DEF MapIInv, FreedAreOut
  <1>5. at[m] \in {"loop", "down"}
    BY <1>1 DEF MapIInv, LoopsAreShut
  <1>6. ASSUME NEW n \in Maps, n # m
        PROVE  p \notin On(n) /\ p \notin loop[n] /\ who[n] # p
    BY <1>1, <1>3, <1>6 DEF MapIInv, LoopsAreHere
  <1> QED
    BY <1>1, <1>2, <1>3, <1>4, <1>5, <1>6

LEMMA BeginPlayerIInv ==
    ASSUME MapIInv, NEW m \in Maps, NEW p \in Players, BeginPlayer(m, p), UNCHANGED events
    PROVE  MapIInv'
  <1> USE ObjectKinds DEF BeginPlayer, Takes, bodies
  <1>1. /\ \A n \in Maps : loop'[n] = IF n = m THEN loop[n] \ {p} ELSE loop[n]
        /\ \A n \in Maps : who'[n] = IF n = m THEN p ELSE who[n]
    BY DEF MapIInv, MapTypeOK
  <1>2. MapTypeOK'
    BY DEF MapIInv, MapTypeOK
  <1>3. LoopsAreShut'
    BY <1>1 DEF MapIInv, LoopsAreShut
  <1>4. LoopsAreHere' /\ MinesAreSet'
    BY <1>1, OnRests DEF MapIInv, LoopsAreHere, MinesAreSet
  <1> QED
    BY <1>2, <1>3, <1>4, BodiesRest DEF MapIInv

LEMMA TickIInv ==
    ASSUME MapIInv, NEW m \in Maps, NEW x \in Mines, Tick(m, x), UNCHANGED events
    PROVE  MapIInv'
  <1> USE ObjectKinds DEF Tick, Takes, bodies
  <1>1. \A n \in Maps : loop'[n] = IF n = m THEN loop[n] \ {x} ELSE loop[n]
    BY DEF MapIInv, MapTypeOK
  <1>2. MapTypeOK'
    BY DEF MapIInv, MapTypeOK
  <1>3. LoopsAreShut'
    BY <1>1 DEF MapIInv, LoopsAreShut
  <1>4. LoopsAreHere' /\ MinesAreSet'
    BY <1>1, OnRests, LoopsShrink
  <1> QED
    BY <1>2, <1>3, <1>4, BodiesRest DEF MapIInv

-----------------------------------------------------------------------------

\* The packets.

LEMMA MoveIInv ==
    ASSUME MapIInv, NEW m \in Maps, NEW p \in Players, NEW c \in Cells,
           Move(m, p, c), events' \in 0..MaxEvents
    PROVE  MapIInv'
  <1> USE ObjectKinds DEF Move, clock
  <1>1. \A x \in Objects : place'[x] = IF x = p THEN <<m, c>> ELSE place[x]
    BY DEF MapIInv, MapTypeOK
  <1>2. MapTypeOK'
    BY DEF MapIInv, MapTypeOK
  <1>3. \A n \in Maps : On(n)' = On(n)
    <2> SUFFICES ASSUME NEW n \in Maps, NEW x \in Objects
                 PROVE  x \in On(n)' <=> x \in On(n)
      BY DEF On
    <2>1. CASE x = p
      <3>1. x \in On(n) <=> n = m
        BY <2>1, TurnFacts
      <3>2. x \in On(n)' <=> n = m
        BY <1>1, <2>1, SurroundingsAssumption DEF On
      <3> QED
        BY <3>1, <3>2
    <2>2. CASE x # p
      BY <1>1, <2>2 DEF On
    <2> QED
      BY <2>1, <2>2
  <1>4. \A x \in Objects : place'[x] = Null <=> place[x] = Null
    BY <1>1, TurnFacts, SurroundingsAssumption
  <1>5. FreedAreOut'
    BY <1>4 DEF MapIInv, MapTypeOK, FreedAreOut
  <1>6. LoopsAreShut' /\ LoopsAreHere' /\ MinesAreSet'
    BY <1>3 DEF MapIInv, LoopsAreShut, LoopsAreHere, MinesAreSet
  <1>7. JumpsAreHere'
    <2> SUFFICES ASSUME NEW q \in Players \ freed, jump[q] # Null
                 PROVE  q \in On(jump[q][1])' \/ (place'[q] = Null /\ death[q] = "DEAD")
      BY DEF JumpsAreHere
    <2>1. jump[q][1] \in Maps
      BY DEF MapIInv, MapTypeOK
    <2> QED
      BY <1>3, <1>4, <2>1 DEF MapIInv, JumpsAreHere
  <1>8. FreshSeeNothing' /\ SurroundingsAreHere' /\ PoolAgrees'
    BY <1>3, <1>4 DEF MapIInv, FreshSeeNothing, SurroundingsAreHere, PoolAgrees
  <1> QED
    BY <1>2, <1>5, <1>6, <1>7, <1>8 DEF MapIInv

\* A box or an ore that is looted.
LEMMA LootIInv ==
    ASSUME MapIInv, NEW x \in Boxes \cup Ores, scheduled' = scheduled \cup {x},
           UNCHANGED <<place, death, near, owner, freed, jump, pool, clock>>,
           events' \in 0..MaxEvents
    PROVE  MapIInv'
  <1> USE ObjectKinds, OnRests DEF clock
  <1>1. MapTypeOK'
    BY DEF MapIInv, MapTypeOK
  <1>2. FreedAreOut' /\ LoopsAreShut' /\ FreshSeeNothing'
    BY DEF MapIInv, FreedAreOut, LoopsAreShut, FreshSeeNothing
  <1>3. LoopsAreHere' /\ MinesAreSet'
    BY DEF MapIInv, LoopsAreHere, MinesAreSet
  <1>4. JumpsAreHere'
    BY DEF MapIInv, JumpsAreHere
  <1>5. SurroundingsAreHere' /\ PoolAgrees'
    BY DEF MapIInv, SurroundingsAreHere, PoolAgrees
  <1> QED
    BY <1>1, <1>2, <1>3, <1>4, <1>5 DEF MapIInv

LEMMA DropMineIInv ==
    ASSUME MapIInv, NEW m \in Maps, NEW p \in Players, NEW x \in Mines,
           DropMine(m, p, x), events' \in 0..MaxEvents
    PROVE  MapIInv'
  <1> USE ObjectKinds DEF DropMine, clock
  <1>1. x \in Objects /\ place[x] = Null /\ x \notin freed
    BY DEF Born, Things
  <1>2. place[p] \in Maps \X Cells /\ p \in Objects
    BY TurnFacts, OnFacts DEF MapIInv
  <1>3. \A y \in Objects : place'[y] = IF y = x THEN place[p] ELSE place[y]
    BY DEF MapIInv, MapTypeOK
  <1>4. MapTypeOK'
    BY <1>1, <1>2 DEF MapIInv, MapTypeOK
  <1>5. \A n \in Maps : On(n) \subseteq On(n)' /\ On(n)' \subseteq On(n) \cup {x}
    BY <1>1, <1>3 DEF On
  <1>6. FreedAreOut'
    BY <1>1, <1>3 DEF MapIInv, MapTypeOK, FreedAreOut
  <1>7. LoopsAreShut'
    BY DEF MapIInv, LoopsAreShut
  <1>8. LoopsAreHere' /\ MinesAreSet'
    BY <1>5, LoopsShrink
  <1>9. \A q \in Players : place'[q] = place[q]
    BY <1>3
  <1>10. JumpsAreHere'
    <2> SUFFICES ASSUME NEW q \in Players \ freed, jump[q] # Null
                 PROVE  q \in On(jump[q][1])' \/ (place'[q] = Null /\ death[q] = "DEAD")
      BY DEF JumpsAreHere
    <2>1. jump[q][1] \in Maps
      BY DEF MapIInv, MapTypeOK
    <2> QED
      BY <1>5, <1>9, <2>1 DEF MapIInv, JumpsAreHere
  <1>11. FreshSeeNothing'
    BY <1>9 DEF MapIInv, FreshSeeNothing
  <1>12. SurroundingsAreHere'
    BY <1>5 DEF MapIInv, SurroundingsAreHere
  <1>13. PoolAgrees'
    BY <1>5 DEF MapIInv, PoolAgrees
  <1> QED
    BY <1>4, <1>6, <1>7, <1>8, <1>10, <1>11, <1>12, <1>13 DEF MapIInv

LEMMA InitializeOpponentIInv ==
    ASSUME MapIInv, NEW m \in Maps, NEW p \in Players, NEW x \in Objects,
           InitializeOpponent(m, p, x), events' \in 0..MaxEvents
    PROVE  MapIInv'
  <1> USE OnRests DEF InitializeOpponent, clock
  <1>1. \A q \in Players : near'[q] = IF q = p THEN near[q] \cup {x} ELSE near[q]
    BY DEF MapIInv, MapTypeOK
  <1>2. MapTypeOK'
    BY DEF MapIInv, MapTypeOK
  <1>3. FreedAreOut' /\ LoopsAreShut' /\ PoolAgrees'
    BY DEF MapIInv, FreedAreOut, LoopsAreShut, PoolAgrees
  <1>4. LoopsAreHere' /\ MinesAreSet'
    BY LoopsShrink
  <1>5. JumpsAreHere'
    BY DEF MapIInv, JumpsAreHere
  <1>6. FreshSeeNothing'
    BY <1>1, TurnFacts DEF MapIInv, FreshSeeNothing
  <1>7. SurroundingsAreHere'
    BY <1>1, TurnFacts DEF MapIInv, SurroundingsAreHere
  <1> QED
    BY <1>2, <1>3, <1>4, <1>5, <1>6, <1>7 DEF MapIInv

LEMMA AddToJumpQueueIInv ==
    ASSUME MapIInv, NEW m \in Maps, NEW p \in Players, NEW to \in Maps,
           AddToJumpQueue(m, p, to), events' \in 0..MaxEvents
    PROVE  MapIInv'
  <1> USE OnRests DEF AddToJumpQueue, bodies, clock
  <1>1. \A q \in Players : jump'[q] = IF q = p THEN <<m, to>> ELSE jump[q]
    BY DEF MapIInv, MapTypeOK
  <1>2. MapTypeOK'
    BY DEF MapIInv, MapTypeOK
  <1>3. FreedAreOut' /\ LoopsAreShut' /\ PoolAgrees'
    BY DEF MapIInv, FreedAreOut, LoopsAreShut, PoolAgrees
  <1>4. LoopsAreHere' /\ MinesAreSet'
    BY LoopsShrink
  <1>5. JumpsAreHere'
    BY <1>1, TurnFacts DEF MapIInv, JumpsAreHere
  <1>6. FreshSeeNothing' /\ SurroundingsAreHere'
    BY DEF MapIInv, FreshSeeNothing, SurroundingsAreHere
  <1> QED
    BY <1>2, <1>3, <1>4, <1>5, <1>6 DEF MapIInv

LEMMA PacketIInv ==
    ASSUME MapIInv, NEW m \in Maps, NEW p \in Players, Packet(m, p),
           events' \in 0..MaxEvents
    PROVE  MapIInv'
  <1>1. ASSUME NEW b \in Boxes, LootCargo(m, p, b)
        PROVE  MapIInv'
    BY <1>1, LootIInv DEF LootCargo
  <1>2. ASSUME NEW o \in Ores, LootOre(m, p, o)
        PROVE  MapIInv'
    BY <1>2, LootIInv DEF LootOre
  <1> QED
    BY <1>1, <1>2, MoveIInv, DropMineIInv, InitializeOpponentIInv, AddToJumpQueueIInv DEF Packet

-----------------------------------------------------------------------------

\* The end of the turn of a player.

LEMMA UpdateAliveIInv ==
    ASSUME MapIInv, NEW m \in Maps, NEW p \in Players, UpdateAlive(m, p), UNCHANGED events
    PROVE  MapIInv'
  <1> USE OnRests DEF UpdateAlive
  <1>1. \A q \in Players : near'[q] \subseteq near[q]
    BY DEF MapIInv, MapTypeOK
  <1>2. MapTypeOK'
    BY DEF MapIInv, MapTypeOK
  <1>3. \A n \in Maps : who'[n] \in {who[n], Null}
    BY DEF MapIInv, MapTypeOK
  <1>4. FreedAreOut' /\ PoolAgrees'
    BY DEF MapIInv, FreedAreOut, PoolAgrees
  <1>5. LoopsAreShut'
    BY <1>3 DEF MapIInv, LoopsAreShut
  <1>6. LoopsAreHere' /\ MinesAreSet'
    BY <1>3, LoopsShrink
  <1>7. JumpsAreHere'
    BY DEF MapIInv, JumpsAreHere
  <1>8. FreshSeeNothing' /\ SurroundingsAreHere'
    BY <1>1 DEF MapIInv, FreshSeeNothing, SurroundingsAreHere
  <1> QED
    BY <1>2, <1>4, <1>5, <1>6, <1>7, <1>8 DEF MapIInv

LEMMA UpdateDeadIInv ==
    ASSUME MapIInv, NEW m \in Maps, NEW p \in Players, UpdateDead(m, p), UNCHANGED events
    PROVE  MapIInv'
  <1> USE OnRests DEF UpdateDead, bodies
  <1>1. MapTypeOK'
    BY DEF MapIInv, MapTypeOK
  <1>2. \A n \in Maps : who'[n] \in {who[n], Null}
    BY DEF MapIInv, MapTypeOK
  <1>3. LoopsAreShut'
    BY <1>2 DEF MapIInv, LoopsAreShut
  <1>4. LoopsAreHere' /\ MinesAreSet'
    BY <1>2, LoopsShrink
  <1> QED
    BY <1>1, <1>3, <1>4, BodiesRest DEF MapIInv

\* A player that is taken out of its map is out of the surroundings of all who
\* are on a map.
LEMMA LeaveMap ==
    ASSUME MapIInv, NEW m \in Maps, NEW p \in Players, p \in On(m),
           place' = [place EXCEPT ![p] = Null], near' = Forget(m, {p}),
           freed \subseteq freed', freed' \subseteq freed \cup {p}, UNCHANGED <<scheduled, pool>>
    PROVE  /\ place' \in [Objects -> (Maps \X Cells) \cup {Null}]
           /\ near' \in [Players -> SUBSET Objects]
           /\ \A x \in Objects : place'[x] = IF x = p THEN Null ELSE place[x]
           /\ \A n \in Maps : On(n)' = On(n) \ {p}
           /\ FreedAreOut' /\ SurroundingsAreHere' /\ PoolAgrees'
           /\ \A q \in Players : near'[q] \subseteq near[q]
  <1> USE ObjectKinds
  <1>1. \A x \in Objects : place'[x] = IF x = p THEN Null ELSE place[x]
    BY DEF MapIInv, MapTypeOK
  <1>2. place' \in [Objects -> (Maps \X Cells) \cup {Null}]
    BY DEF MapIInv, MapTypeOK
  <1>3. \A q \in Players : near'[q] = IF q \in On(m) THEN near[q] \ {p} ELSE near[q]
    BY DEF Forget
  <1>4. near' \in [Players -> SUBSET Objects]
    BY DEF MapIInv, MapTypeOK, Forget
  <1>5. \A n \in Maps : On(n)' = On(n) \ {p}
    BY <1>1 DEF On
  <1>6. FreedAreOut'
    BY <1>1 DEF MapIInv, MapTypeOK, FreedAreOut
  <1>7. SurroundingsAreHere'
    <2> SUFFICES ASSUME NEW n \in Maps, NEW q \in Players, q \in On(n)', NEW x \in near'[q]
                 PROVE  x \in On(n)'
      BY DEF SurroundingsAreHere
    <2>1. q \in On(n) /\ x \in near[q] /\ x \in On(n)
      BY <1>3, <1>5 DEF MapIInv, SurroundingsAreHere
    <2>2. x # p
      <3>1. CASE n = m
        BY <1>3, <2>1, <3>1
      <3>2. CASE n # m
        BY <2>1, <3>2, OnFacts DEF MapIInv
      <3> QED
        BY <3>1, <3>2
    <2> QED
      BY <1>5, <2>1, <2>2
  <1>8. PoolAgrees'
    BY <1>5 DEF MapIInv, PoolAgrees
  <1>9. \A q \in Players : near'[q] \subseteq near[q]
    BY <1>3
  <1> QED
    BY <1>1, <1>2, <1>4, <1>5, <1>6, <1>7, <1>8, <1>9

LEMMA UpdateJustDiedIInv ==
    ASSUME MapIInv, NEW m \in Maps, NEW p \in Players, UpdateJustDied(m, p), UNCHANGED events
    PROVE  MapIInv'
  <1> USE ObjectKinds DEF UpdateJustDied
  <1>1. /\ p \in On(m) \ loop[m] /\ p \in Objects /\ p # Null
        /\ \A n \in Maps : n # m => p \notin On(n) /\ p \notin loop[n] /\ who[n] # p
    BY TurnFacts
  <1>2. /\ place' \in [Objects -> (Maps \X Cells) \cup {Null}]
        /\ near' \in [Players -> SUBSET Objects]
        /\ \A x \in Objects : place'[x] = IF x = p THEN Null ELSE place[x]
        /\ \A n \in Maps : On(n)' = On(n) \ {p}
        /\ FreedAreOut' /\ SurroundingsAreHere' /\ PoolAgrees'
        /\ \A q \in Players : near'[q] \subseteq near[q]
    BY <1>1, LeaveMap
  <1>3. /\ \A q \in Players : death'[q] = IF q = p THEN "DEAD" ELSE death[q]
        /\ \A n \in Maps : who'[n] = IF n = m THEN Null ELSE who[n]
    BY DEF MapIInv, MapTypeOK
  <1>4. MapTypeOK'
    BY <1>2 DEF MapIInv, MapTypeOK
  <1>5. LoopsAreShut'
    BY <1>3 DEF MapIInv, LoopsAreShut
  <1>6. LoopsAreHere'
    BY <1>1, <1>2, <1>3 DEF MapIInv, LoopsAreHere
  <1>7. MinesAreSet'
    BY DEF MapIInv, MinesAreSet
  <1>8. JumpsAreHere'
    <2> SUFFICES ASSUME NEW q \in Players \ freed, jump[q] # Null, q # p
                 PROVE  q \in On(jump[q][1])' \/ (place'[q] = Null /\ death'[q] = "DEAD")
      BY <1>2, <1>3 DEF JumpsAreHere
    <2>1. jump[q][1] \in Maps
      BY DEF MapIInv, MapTypeOK
    <2> QED
      BY <1>2, <1>3, <2>1 DEF MapIInv, JumpsAreHere
  <1>9. FreshSeeNothing'
    <2> SUFFICES ASSUME NEW q \in Players \ freed, place'[q] = Null, death'[q] = "ALIVE"
                 PROVE  near'[q] = {}
      BY DEF FreshSeeNothing
    <2>1. q # p /\ q \in Objects /\ place[q] = Null /\ death[q] = "ALIVE"
      BY <1>2, <1>3
    <2>2. near[q] = {} /\ near'[q] \subseteq near[q]
      BY <1>2, <2>1 DEF MapIInv, FreshSeeNothing
    <2> QED
      BY <2>2
  <1> QED
    BY <1>2, <1>4, <1>5, <1>6, <1>7, <1>8, <1>9 DEF MapIInv

LEMMA DeleteIInv ==
    ASSUME MapIInv, NEW p \in Players, Delete(p), events' \in 0..MaxEvents
    PROVE  MapIInv'
  <1> USE ObjectKinds DEF Delete, clock
  <1>1. \A n \in Maps : loop[n] = {} /\ who[n] = Null
    BY DEF Between, MapIInv, LoopsAreShut
  <1>2. LoopsAreShut' /\ LoopsAreHere' /\ MinesAreSet'
    BY <1>1 DEF LoopsAreShut, LoopsAreHere, MinesAreSet
  <1>3. /\ place' \in [Objects -> (Maps \X Cells) \cup {Null}]
        /\ near' \in [Players -> SUBSET Objects]
        /\ \A x \in Objects : place'[x] = IF x = p THEN Null ELSE place[x]
        /\ \A n \in Maps : On(n)' = On(n) \ {p}
        /\ FreedAreOut' /\ SurroundingsAreHere' /\ PoolAgrees'
        /\ \A q \in Players : near'[q] \subseteq near[q]
    <2>1. CASE place[p] = Null
      <3>1. near' = near /\ place' = place
        BY <2>1 DEF MapIInv, MapTypeOK
      <3>2. \A n \in Maps : p \notin On(n) /\ On(n)' = On(n)
        BY <2>1, <3>1 DEF On
      <3>3. FreedAreOut' /\ SurroundingsAreHere' /\ PoolAgrees'
        BY <2>1, <3>1, <3>2 DEF MapIInv, FreedAreOut, SurroundingsAreHere, PoolAgrees
      <3>4. /\ place' \in [Objects -> (Maps \X Cells) \cup {Null}]
            /\ near' \in [Players -> SUBSET Objects]
        BY <3>1 DEF MapIInv, MapTypeOK
      <3>5. /\ \A x \in Objects : place'[x] = IF x = p THEN Null ELSE place[x]
            /\ \A n \in Maps : On(n)' = On(n) \ {p}
            /\ \A q \in Players : near'[q] \subseteq near[q]
        BY <2>1, <3>1, <3>2
      <3> QED
        BY <3>3, <3>4, <3>5
    <2>2. CASE place[p] # Null
      <3>1. place[p][1] \in Maps /\ p \in On(place[p][1])
        BY <2>2, OnFacts DEF MapIInv, MapTypeOK, On
      <3>2. near' = Forget(place[p][1], {p})
        BY <2>2
      <3> QED
        BY <3>1, <3>2, LeaveMap
    <2> QED
      BY <2>1, <2>2
  <1>4. MapTypeOK'
    <2>1. freed' = freed \cup {p} /\ UNCHANGED <<death, owner, scheduled, jump, pool, clock>>
      OBVIOUS
    <2> HIDE DEF Delete
    <2> QED
      BY <1>3, <2>1 DEF MapIInv, MapTypeOK
  <1>5. JumpsAreHere'
    <2> SUFFICES ASSUME NEW q \in Players \ freed, jump[q] # Null, q # p
                 PROVE  q \in On(jump[q][1])' \/ (place'[q] = Null /\ death[q] = "DEAD")
      BY DEF JumpsAreHere
    <2>1. jump[q][1] \in Maps
      BY DEF MapIInv, MapTypeOK
    <2> QED
      BY <1>3, <2>1 DEF MapIInv, JumpsAreHere
  <1>6. FreshSeeNothing'
    BY <1>3 DEF MapIInv, FreshSeeNothing
  <1> QED
    BY <1>2, <1>3, <1>4, <1>5, <1>6 DEF MapIInv

LEMMA LoginIInv ==
    ASSUME MapIInv, NEW p \in Players, NEW m \in Maps, NEW c \in Cells,
           Login(p, m, c), UNCHANGED events
    PROVE  MapIInv'
  <1> USE ObjectKinds DEF Login, clock
  <1>1. \A n \in Maps : loop[n] = {} /\ who[n] = Null
    BY DEF Between, MapIInv, LoopsAreShut
  <1>2. LoopsAreShut' /\ LoopsAreHere' /\ MinesAreSet'
    BY <1>1 DEF LoopsAreShut, LoopsAreHere, MinesAreSet
  <1>3. \A x \in Objects : place'[x] = IF x = p THEN <<m, c>> ELSE place[x]
    BY DEF MapIInv, MapTypeOK
  <1>4. MapTypeOK'
    BY DEF MapIInv, MapTypeOK
  <1>5. /\ near[p] = {} /\ jump[p] = Null
        /\ \A n \in Maps : p \notin On(n)
    <2>1. \A n : p \notin On(n)
      BY DEF On
    <2> QED
      BY <2>1 DEF MapIInv, FreshSeeNothing, JumpsAreHere
  <1>6. \A n \in Maps : On(n) \subseteq On(n)' /\ On(n)' \subseteq On(n) \cup {p}
    BY <1>3, <1>5 DEF On
  <1>7. FreedAreOut'
    BY <1>3 DEF MapIInv, MapTypeOK, FreedAreOut
  <1>8. JumpsAreHere'
    <2> SUFFICES ASSUME NEW q \in Players \ freed, jump[q] # Null
                 PROVE  q \in On(jump[q][1])' \/ (place'[q] = Null /\ death[q] = "DEAD")
      BY DEF JumpsAreHere
    <2>1. jump[q][1] \in Maps /\ q # p
      BY <1>5 DEF MapIInv, MapTypeOK
    <2> QED
      BY <1>3, <1>6, <2>1 DEF MapIInv, JumpsAreHere
  <1>9. FreshSeeNothing'
    BY <1>3, <1>5 DEF MapIInv, FreshSeeNothing
  <1>10. SurroundingsAreHere'
    BY <1>5, <1>6 DEF MapIInv, SurroundingsAreHere
  <1>11. PoolAgrees'
    BY <1>6 DEF MapIInv, PoolAgrees
  <1> QED
    BY <1>2, <1>4, <1>7, <1>8, <1>9, <1>10, <1>11 DEF MapIInv

LEMMA ProcessJumpIInv ==
    ASSUME MapIInv, NEW m \in Maps, NEW p \in Players, NEW c \in Cells,
           ProcessJump(m, p, c), UNCHANGED events
    PROVE  MapIInv'
  <1> USE ObjectKinds DEF ProcessJump, clock
  <1> DEFINE to == jump[p][2]
  <1>1. to \in Maps /\ <<to, c>> \in Maps \X Cells
    BY DEF MapIInv, MapTypeOK
  <1>2. /\ \A x \in Objects : place'[x] = IF x = p THEN <<to, c>> ELSE place[x]
        /\ \A q \in Players : jump'[q] = IF q = p THEN Null ELSE jump[q]
        /\ \A q \in Players :
              near'[q] = IF q = p THEN {}
                         ELSE IF q \in On(m) THEN near[q] \ {p} ELSE near[q]
    BY DEF MapIInv, MapTypeOK, Forget
  <1>3. MapTypeOK'
    <2>1. near' \in [Players -> SUBSET Objects]
      BY DEF MapIInv, MapTypeOK, Forget
    <2> QED
      BY <1>1, <2>1 DEF MapIInv, MapTypeOK
  \* The player is on this map or on none.
  <1>4. \A n \in Maps : n # m => p \notin On(n)
    <2>1. p \in On(m) \/ place[p] = Null
      BY DEF MapIInv, JumpsAreHere
    <2> QED
      BY <2>1, OnFacts DEF MapIInv
  <1>5. /\ \A n \in Maps : On(n) \ {p} \subseteq On(n)'
        /\ \A n \in Maps : On(n)' \subseteq On(n) \cup {p}
        /\ \A n \in Maps : n # m => On(n) \subseteq On(n)'
    BY <1>2, <1>4 DEF On
  <1>6. loop[m] = {} /\ who[m] = Null
    BY DEF MapIInv, LoopsAreShut
  <1>7. FreedAreOut'
    BY <1>2 DEF MapIInv, MapTypeOK, FreedAreOut
  <1>8. LoopsAreShut' /\ MinesAreSet'
    BY DEF MapIInv, LoopsAreShut, MinesAreSet
  <1>9. LoopsAreHere'
    BY <1>5, <1>6 DEF MapIInv, LoopsAreHere
  <1>10. JumpsAreHere'
    <2> SUFFICES ASSUME NEW q \in Players \ freed, jump[q] # Null, q # p
                 PROVE  q \in On(jump[q][1])' \/ (place'[q] = Null /\ death[q] = "DEAD")
      BY <1>2 DEF JumpsAreHere
    <2>1. jump[q][1] \in Maps
      BY DEF MapIInv, MapTypeOK
    <2> QED
      BY <1>2, <1>5, <2>1 DEF MapIInv, JumpsAreHere
  <1>11. FreshSeeNothing'
    <2> SUFFICES ASSUME NEW q \in Players \ freed, place'[q] = Null, death[q] = "ALIVE"
                 PROVE  near'[q] = {}
      BY DEF FreshSeeNothing
    <2>1. <<to, c>> # Null
      BY <1>1, SurroundingsAssumption
    <2>2. q # p /\ place[q] = Null
      BY <1>2, <2>1
    <2>3. near[q] = {} /\ near'[q] \subseteq near[q]
      <3>1. near'[q] = IF q \in On(m) THEN near[q] \ {p} ELSE near[q]
        BY <1>2, <2>2
      <3>2. near[q] = {}
        BY <2>2 DEF MapIInv, FreshSeeNothing
      <3> QED
        BY <3>1, <3>2
    <2> QED
      BY <2>3
  <1>12. SurroundingsAreHere'
    <2> SUFFICES ASSUME NEW n \in Maps, NEW q \in Players, q \in On(n)', NEW x \in near'[q]
                 PROVE  x \in On(n)'
      BY DEF SurroundingsAreHere
    <2>1. q # p /\ q \in On(n) /\ x \in near[q] /\ x \in On(n)
      <3>1. q # p
        BY <1>2
      <3>2. q \in On(n)
        BY <1>5, <3>1
      <3>3. near'[q] = IF q \in On(m) THEN near[q] \ {p} ELSE near[q]
        BY <1>2, <3>1
      <3>4. x \in near[q]
        BY <3>3
      <3> QED
        BY <3>1, <3>2, <3>4 DEF MapIInv, SurroundingsAreHere
    <2>2. x # p
      <3>1. CASE n = m
        <4>1. near'[q] = near[q] \ {p}
          BY <1>2, <2>1, <3>1
        <4> QED
          BY <4>1
      <3>2. CASE n # m
        BY <1>4, <2>1, <3>2
      <3> QED
        BY <3>1, <3>2
    <2> QED
      BY <1>5, <2>1, <2>2
  <1>13. PoolAgrees'
    BY <1>5 DEF MapIInv, PoolAgrees
  <1> QED
    BY <1>3, <1>7, <1>8, <1>9, <1>10, <1>11, <1>12, <1>13 DEF MapIInv

-----------------------------------------------------------------------------

\* The killed stay where they are, and boxes come to the map and to its pool.
LEMMA AfterKilling ==
    ASSUME MapIInv, NEW m \in Maps, NEW V \in SUBSET (Players \cap On(m)), Killing(m, V),
           UNCHANGED <<near, freed, jump>>, scheduled \subseteq scheduled'
    PROVE  /\ place' \in [Objects -> (Maps \X Cells) \cup {Null}]
           /\ death' \in [Players -> {"ALIVE", "JUST_DIED", "DEAD"}]
           /\ pool' \in [Maps -> SUBSET (Boxes \cup Ores)]
           /\ \A n \in Maps : On(n) \subseteq On(n)'
           /\ FreedAreOut' /\ JumpsAreHere' /\ FreshSeeNothing'
           /\ SurroundingsAreHere' /\ PoolAgrees'
  <1> USE ObjectKinds
  <1>1. PICK B \in SUBSET (Boxes \ Born) : \E drop \in [B -> V] : Kill(m, V, B, drop)
    BY DEF Killing
  <1>2. PICK drop \in [B -> V] : Kill(m, V, B, drop)
    BY <1>1
  <1>3. /\ place' = [x \in Objects |-> IF x \in B THEN place[drop[x]] ELSE place[x]]
        /\ death' = [p \in Players |-> IF p \in V THEN "JUST_DIED" ELSE death[p]]
        /\ pool' = [pool EXCEPT ![m] = @ \cup B]
    BY <1>2 DEF Kill
  <1>4. ASSUME NEW x \in B
        PROVE  /\ x \in Objects /\ x \in Boxes /\ place[x] = Null /\ x \notin freed
               /\ drop[x] \in Players /\ drop[x] \in On(m)
               /\ place[drop[x]] \in Maps \X Cells /\ place[drop[x]][1] = m
    <2>1. x \in Objects /\ x \in Boxes /\ place[x] = Null /\ x \notin freed
      BY <1>4 DEF Born, Things
    <2>2. drop[x] \in V
      BY <1>4
    <2>3. drop[x] \in Players /\ drop[x] \in On(m)
      BY <2>2
    <2>4. place[drop[x]] # Null /\ place[drop[x]][1] = m
      BY <2>3 DEF On
    <2>5. place[drop[x]] \in Maps \X Cells
      BY <2>3, <2>4, OnFacts DEF MapIInv
    <2> QED
      BY <2>1, <2>3, <2>4, <2>5
  <1>5. \A x \in Objects : place'[x] = IF x \in B THEN place[drop[x]] ELSE place[x]
    BY <1>3
  <1>6. place' \in [Objects -> (Maps \X Cells) \cup {Null}]
    <2>1. \A x \in Objects : place[x] \in (Maps \X Cells) \cup {Null}
      BY DEF MapIInv, MapTypeOK
    <2> QED
      BY <1>3, <1>4, <2>1
  <1>7. /\ death' \in [Players -> {"ALIVE", "JUST_DIED", "DEAD"}]
        /\ pool' \in [Maps -> SUBSET (Boxes \cup Ores)]
    BY <1>3 DEF MapIInv, MapTypeOK
  <1>8. \A n \in Maps : On(n)' = IF n = m THEN On(n) \cup B ELSE On(n)
    <2> SUFFICES ASSUME NEW n \in Maps, NEW x \in Objects
                 PROVE  x \in On(n)' <=> x \in On(n) \/ (n = m /\ x \in B)
      BY <1>4 DEF On
    <2>1. CASE x \in B
      <3>1. place'[x] = place[drop[x]] /\ place'[x][1] = m /\ place'[x] \in Maps \X Cells
        BY <1>4, <1>5, <2>1
      <3>2. x \in On(n)' <=> n = m
        BY <3>1, SurroundingsAssumption DEF On
      <3>3. x \notin On(n)
        BY <1>4, <2>1 DEF On
      <3> QED
        BY <2>1, <3>2, <3>3
    <2>2. CASE x \notin B
      BY <1>5, <2>2 DEF On
    <2> QED
      BY <2>1, <2>2
  <1>9. \A n \in Maps : On(n) \subseteq On(n)'
    BY <1>8
  <1>10. FreedAreOut'
    BY <1>4, <1>5 DEF MapIInv, MapTypeOK, FreedAreOut
  <1>11. \A q \in Players : place'[q] = place[q] /\ (place[q] = Null => death'[q] = death[q])
    <2> SUFFICES ASSUME NEW q \in Players
                 PROVE  place'[q] = place[q] /\ (place[q] = Null => death'[q] = death[q])
      OBVIOUS
    <2>1. q \in Objects /\ q \notin B
      BY <1>4
    <2>2. q \in V => place[q] # Null
      BY DEF On
    <2> QED
      BY <1>3, <1>5, <2>1, <2>2
  <1>12. JumpsAreHere'
    <2> SUFFICES ASSUME NEW q \in Players \ freed, jump[q] # Null
                 PROVE  q \in On(jump[q][1])' \/ (place'[q] = Null /\ death'[q] = "DEAD")
      BY DEF JumpsAreHere
    <2>1. jump[q][1] \in Maps
      BY DEF MapIInv, MapTypeOK
    <2> QED
      BY <1>9, <1>11, <2>1 DEF MapIInv, JumpsAreHere
  <1>13. FreshSeeNothing'
    BY <1>11 DEF MapIInv, FreshSeeNothing
  <1>14. SurroundingsAreHere'
    <2> SUFFICES ASSUME NEW n \in Maps, NEW q \in Players, q \in On(n)'
                 PROVE  near[q] \subseteq On(n)'
      BY DEF SurroundingsAreHere
    <2>1. q \in On(n)
      BY <1>4, <1>8
    <2> QED
      BY <1>9, <2>1 DEF MapIInv, SurroundingsAreHere
  <1>15. PoolAgrees'
    <2> SUFFICES ASSUME NEW n \in Maps
                 PROVE  pool'[n] \ scheduled' = (On(n)' \cap (Boxes \cup Ores)) \ scheduled'
      BY DEF PoolAgrees
    <2>1. pool[n] \ scheduled = (On(n) \cap (Boxes \cup Ores)) \ scheduled
      BY DEF MapIInv, PoolAgrees
    <2>2. pool'[n] = IF n = m THEN pool[n] \cup B ELSE pool[n]
      BY <1>3 DEF MapIInv, MapTypeOK
    <2>3. B \subseteq Boxes
      OBVIOUS
    <2> QED
      BY <1>8, <2>1, <2>2, <2>3
  <1> QED
    BY <1>6, <1>7, <1>9, <1>10, <1>12, <1>13, <1>14, <1>15

LEMMA UnitKillsIInv ==
    ASSUME MapIInv, NEW m \in Maps, NEW v \in Victims(m), UnitKills(m, v),
           events' \in 0..MaxEvents
    PROVE  MapIInv'
  <1>1. {v} \in SUBSET (Players \cap On(m))
    BY DEF Victims
  <1>2. Killing(m, {v}) /\ UNCHANGED <<near, owner, scheduled, freed, jump, clock>>
    BY DEF UnitKills
  <1>3. /\ place' \in [Objects -> (Maps \X Cells) \cup {Null}]
        /\ death' \in [Players -> {"ALIVE", "JUST_DIED", "DEAD"}]
        /\ pool' \in [Maps -> SUBSET (Boxes \cup Ores)]
        /\ \A n \in Maps : On(n) \subseteq On(n)'
        /\ FreedAreOut' /\ JumpsAreHere' /\ FreshSeeNothing'
        /\ SurroundingsAreHere' /\ PoolAgrees'
    BY <1>1, <1>2, AfterKilling
  <1>4. MapTypeOK'
    BY <1>2, <1>3 DEF MapIInv, MapTypeOK, clock
  <1>5. LoopsAreShut'
    BY <1>2 DEF MapIInv, LoopsAreShut, clock
  <1>6. LoopsAreHere' /\ MinesAreSet'
    BY <1>2, <1>3, LoopsShrink DEF clock
  <1> QED
    BY <1>3, <1>4, <1>5, <1>6 DEF MapIInv

LEMMA ExplodeIInv ==
    ASSUME MapIInv, NEW m \in Maps, NEW x \in Mines, Explode(m, x), UNCHANGED events
    PROVE  MapIInv'
  <1> USE ObjectKinds
  <1>1. /\ at[m] = "loop" /\ who[m] = Null /\ x \in loop[m]
        /\ loop' = [loop EXCEPT ![m] = @ \ {x}]
        /\ scheduled' = scheduled \cup {x}
        /\ UNCHANGED <<at, cell, near, owner, freed, jump, who>>
    BY DEF Explode, Takes
  <1>2. PICK V \in SUBSET ((Players \cap In(m, cell[m])) \ {owner[x]}) : Killing(m, V)
    BY DEF Explode
  <1>3. V \in SUBSET (Players \cap On(m))
    BY OnFacts DEF MapIInv, MapTypeOK
  <1>4. /\ place' \in [Objects -> (Maps \X Cells) \cup {Null}]
        /\ death' \in [Players -> {"ALIVE", "JUST_DIED", "DEAD"}]
        /\ pool' \in [Maps -> SUBSET (Boxes \cup Ores)]
        /\ \A n \in Maps : On(n) \subseteq On(n)'
        /\ FreedAreOut' /\ JumpsAreHere' /\ FreshSeeNothing'
        /\ SurroundingsAreHere' /\ PoolAgrees'
    BY <1>1, <1>2, <1>3, AfterKilling
  <1>5. \A n \in Maps : loop'[n] = IF n = m THEN loop[n] \ {x} ELSE loop[n]
    BY <1>1 DEF MapIInv, MapTypeOK
  <1>6. MapTypeOK'
    BY <1>1, <1>4 DEF MapIInv, MapTypeOK
  <1>7. LoopsAreShut'
    BY <1>1, <1>5 DEF MapIInv, LoopsAreShut
  <1>8. LoopsAreHere'
    BY <1>1, <1>4, <1>5 DEF MapIInv, LoopsAreHere
  <1>9. MinesAreSet'
    <2> SUFFICES ASSUME NEW n \in Maps, NEW y \in loop'[n] \cap Mines, y \in scheduled'
                 PROVE  FALSE
      BY DEF MinesAreSet
    <2>1. y \in loop[n] /\ y \notin scheduled
      BY <1>5 DEF MapIInv, MinesAreSet
    <2>2. y = x
      BY <1>1, <2>1
    <2>3. x \in On(m) /\ x \in On(n) /\ x \in Objects
      BY <1>1, <2>1, <2>2 DEF MapIInv, LoopsAreHere
    <2>4. n = m
      BY <2>3, OnFacts DEF MapIInv
    <2> QED
      BY <1>5, <2>2, <2>4
  <1> QED
    BY <1>4, <1>6, <1>7, <1>8, <1>9 DEF MapIInv

-----------------------------------------------------------------------------

LEMMA GridHeadIInv ==
    ASSUME MapIInv, NEW m \in Maps, GridHead(m), UNCHANGED events
    PROVE  MapIInv'
  <1> USE ObjectKinds
  <1> DEFINE here    == Players \cap In(m, cell[m])
             visible == UNION {In(m, d) : d \in Nearby(cell[m])}
                          \ {p \in Players : death[p] = "DEAD"}
             X       == Expired(m)
  <1>1. PICK seen \in SUBSET (here \X visible) :
          near' = [p \in Players |->
                     (near[p] \cup {x \in visible : <<p, x>> \in seen})
                        \ (IF p \in Players \cap On(m) THEN X ELSE {})]
    BY DEF GridHead
  <1>2. /\ at[m] = "head"
        /\ freed' = freed \cup X
        /\ place' = [x \in Objects |-> IF x \in X THEN Null ELSE place[x]]
        /\ loop' = [loop EXCEPT ![m] = In(m, cell[m]) \ X]
        /\ at' = [at EXCEPT ![m] = "loop"]
        /\ UNCHANGED <<death, owner, scheduled, jump, pool, cell, who>>
    BY DEF GridHead
  <1>3. cell[m] \in Cells /\ In(m, cell[m]) \subseteq On(m) /\ On(m) \subseteq Objects
    BY OnFacts DEF MapIInv, MapTypeOK
  <1>4. here \subseteq On(m) /\ visible \subseteq On(m)
    BY <1>3, OnFacts DEF Nearby, MapIInv
  <1>5. /\ X \subseteq On(m) /\ X \subseteq scheduled /\ X \cap Players = {}
        /\ X = scheduled \cap In(m, cell[m])
    BY <1>3 DEF Expired, MapIInv, MapTypeOK
  <1> HIDE DEF here, visible, X
  <1>6. /\ \A x \in Objects : place'[x] = IF x \in X THEN Null ELSE place[x]
        /\ \A n \in Maps : loop'[n] = IF n = m THEN In(m, cell[m]) \ X ELSE loop[n]
        /\ \A n \in Maps : at'[n] = IF n = m THEN "loop" ELSE at[n]
    BY <1>2 DEF MapIInv, MapTypeOK
  <1>7. /\ \A p \in Players : near'[p] \subseteq near[p] \cup visible
        /\ \A p \in Players : p \notin On(m) => near'[p] = near[p]
        /\ \A p \in Players : p \in On(m) => near'[p] \cap X = {}
    <2> SUFFICES ASSUME NEW p \in Players
                 PROVE  /\ near'[p] \subseteq near[p] \cup visible
                        /\ p \notin On(m) => near'[p] = near[p]
                        /\ p \in On(m) => near'[p] \cap X = {}
      OBVIOUS
    <2>1. near'[p] = (near[p] \cup {x \in visible : <<p, x>> \in seen})
                        \ (IF p \in Players \cap On(m) THEN X ELSE {})
      BY <1>1
    <2>2. CASE p \in On(m)
      BY <2>1, <2>2
    <2>3. CASE p \notin On(m)
      <3>1. {x \in visible : <<p, x>> \in seen} = {}
        BY <1>4, <2>3
      <3> QED
        BY <2>1, <2>3, <3>1
    <2> QED
      BY <2>2, <2>3
  <1>8. MapTypeOK'
    <2>1. place' \in [Objects -> (Maps \X Cells) \cup {Null}]
      BY <1>2 DEF MapIInv, MapTypeOK
    <2>2. near' \in [Players -> SUBSET Objects]
      <3>1. \A p \in Players : near'[p] \in SUBSET Objects
        BY <1>3, <1>4, <1>7 DEF MapIInv, MapTypeOK
      <3> QED
        BY <1>1, <3>1
    <2>3. /\ loop' \in [Maps -> SUBSET Objects]
          /\ at' \in [Maps -> {"done", "pools", "jumps", "head", "loop", "down"}]
          /\ freed' \subseteq Objects
      BY <1>2, <1>3, <1>5 DEF MapIInv, MapTypeOK
    <2> QED
      BY <1>2, <2>1, <2>2, <2>3 DEF MapIInv, MapTypeOK
  <1>9. \A n \in Maps : On(n)' = On(n) \ X
    BY <1>6 DEF On
  <1>10. \A n \in Maps : n # m => On(n) \cap X = {}
    BY <1>5, OnFacts DEF MapIInv
  <1>11. FreedAreOut'
    BY <1>2, <1>3, <1>5, <1>6 DEF MapIInv, MapTypeOK, FreedAreOut
  <1>12. LoopsAreShut'
    BY <1>2, <1>6 DEF MapIInv, LoopsAreShut
  <1>13. LoopsAreHere'
    <2> SUFFICES ASSUME NEW n \in Maps
                 PROVE  /\ loop'[n] \subseteq On(n)'
                        /\ who[n] # Null => who[n] \in On(n)' \ loop'[n]
      BY <1>2 DEF LoopsAreHere
    <2>1. CASE n = m
      <3>1. who[m] = Null
        BY <1>2 DEF MapIInv, LoopsAreShut
      <3> QED
        BY <1>3, <1>6, <1>9, <2>1, <3>1
    <2>2. CASE n # m
      BY <1>6, <1>9, <1>10, <2>2 DEF MapIInv, LoopsAreHere
    <2> QED
      BY <2>1, <2>2
  <1>14. MinesAreSet'
    BY <1>2, <1>5, <1>6 DEF MapIInv, MinesAreSet
  <1>15. \A p \in Players : place'[p] = place[p] /\ \A n \in Maps : p \in On(n)' <=> p \in On(n)
    BY <1>5, <1>6, <1>9
  <1>16. JumpsAreHere'
    <2> SUFFICES ASSUME NEW q \in Players \ freed, jump[q] # Null
                 PROVE  q \in On(jump[q][1])' \/ (place'[q] = Null /\ death[q] = "DEAD")
      BY <1>2 DEF JumpsAreHere
    <2>1. jump[q][1] \in Maps
      BY DEF MapIInv, MapTypeOK
    <2> QED
      BY <1>2, <1>15, <2>1 DEF MapIInv, JumpsAreHere
  <1>17. FreshSeeNothing'
    <2> SUFFICES ASSUME NEW q \in Players \ freed, place[q] = Null, death[q] = "ALIVE"
                 PROVE  near'[q] = {}
      BY <1>2, <1>15 DEF FreshSeeNothing
    <2>1. q \notin On(m)
      BY DEF On
    <2> QED
      BY <1>7, <2>1 DEF MapIInv, FreshSeeNothing
  <1>18. SurroundingsAreHere'
    <2> SUFFICES ASSUME NEW n \in Maps, NEW q \in Players, q \in On(n)
                 PROVE  near'[q] \subseteq On(n)'
      BY <1>15 DEF SurroundingsAreHere
    <2>1. near[q] \subseteq On(n)
      BY DEF MapIInv, SurroundingsAreHere
    <2>2. CASE n = m
      BY <1>4, <1>7, <1>9, <2>1, <2>2
    <2>3. CASE n # m
      <3>1. q \notin On(m)
        BY <2>3, OnFacts DEF MapIInv
      <3> QED
        BY <1>7, <1>9, <1>10, <2>1, <2>3, <3>1
    <2> QED
      BY <2>2, <2>3
  <1>19. PoolAgrees'
    BY <1>2, <1>5, <1>9 DEF MapIInv, PoolAgrees
  <1> QED
    BY <1>8, <1>11, <1>12, <1>13, <1>14, <1>16, <1>17, <1>18, <1>19 DEF MapIInv

LEMMA FollowsFreedIInv ==
    ASSUME MapIInv, NEW m \in Maps, FollowsFreed(m), UNCHANGED events
    PROVE  MapIInv'
  <1>1. /\ at' = [n \in Maps |-> "down"]
        /\ UNCHANGED <<bodies, jump, pool, cell, loop, who>>
    BY DEF FollowsFreed
  <1>2. MapTypeOK'
    BY <1>1 DEF MapIInv, MapTypeOK, bodies
  <1>3. LoopsAreShut'
    BY <1>1 DEF LoopsAreShut
  <1>4. LoopsAreHere' /\ MinesAreSet'
    BY <1>1, LoopsShrink, OnRests DEF bodies
  <1> QED
    BY <1>1, <1>2, <1>3, <1>4, BodiesRest DEF MapIInv

-----------------------------------------------------------------------------

LEMMA MapInitIInv == MapInit => MapIInv
  <1> SUFFICES ASSUME MapInit PROVE MapIInv
    OBVIOUS
  <1> USE ObjectKinds, SurroundingsAssumption DEF MapInit
  <1>1. MapTypeOK
    BY DEF MapTypeOK, Cells
  <1>2. FreedAreOut /\ LoopsAreShut /\ LoopsAreHere /\ MinesAreSet
    BY DEF FreedAreOut, LoopsAreShut, LoopsAreHere, MinesAreSet
  <1>3. JumpsAreHere /\ FreshSeeNothing
    BY DEF JumpsAreHere, FreshSeeNothing
  <1>4. SurroundingsAreHere /\ PoolAgrees
    BY DEF SurroundingsAreHere, PoolAgrees
  <1> QED
    BY <1>1, <1>2, <1>3, <1>4 DEF MapIInv

LEMMA StepIInv ==
    ASSUME MapIInv, NEW m \in Maps, Step(m)
    PROVE  MapIInv'
  <1> USE DEF Step
  <1>1. ASSUME NEW p \in Players, BeginPlayer(m, p) \/ UpdatePlayer(m, p)
        PROVE  MapIInv'
    BY <1>1, BeginPlayerIInv, UpdateAliveIInv, UpdateJustDiedIInv, UpdateDeadIInv
       DEF UpdatePlayer
  <1>2. ASSUME NEW x \in Mines, Explode(m, x) \/ Tick(m, x)
        PROVE  MapIInv'
    BY <1>2, ExplodeIInv, TickIInv
  <1> QED
    BY <1>1, <1>2, UpdatePoolsIInv, JumpsDoneIInv, GridSkipsIInv, GridHeadIInv, EndOfLoopIInv

LEMMA EventIInv ==
    ASSUME MapIInv, Event
    PROVE  MapIInv'
  <1>1. events' \in 0..MaxEvents
    BY SurroundingsAssumption DEF Event, MapIInv, MapTypeOK
  <1> QED
    BY <1>1, DeleteIInv, PacketIInv, UnitKillsIInv DEF Event

\* One lemma per action, and the steps that change nothing.
LEMMA MapNextIInv == MapIInv /\ [MapNext]_mapVars => MapIInv'
  <1> SUFFICES ASSUME MapIInv, [MapNext]_mapVars
               PROVE  MapIInv'
    OBVIOUS
  <1>1. CASE UNCHANGED mapVars
    <2>1. UNCHANGED <<place, death, near, owner, scheduled, freed, jump, pool,
                      at, cell, loop, who, events>>
      BY <1>1 DEF mapVars, bodies, clock
    <2>2. MapTypeOK'
      BY <2>1 DEF MapIInv, MapTypeOK
    <2>3. LoopsAreShut' /\ LoopsAreHere' /\ MinesAreSet'
      BY <2>1, OnRests DEF MapIInv, LoopsAreShut, LoopsAreHere, MinesAreSet
    <2> QED
      BY <2>1, <2>2, <2>3, BodiesRest DEF MapIInv, bodies
  <1>2. ASSUME NEW p \in Players, NEW m \in Maps, NEW c \in Cells,
               Login(p, m, c) \/ ProcessJump(m, p, c), UNCHANGED events
        PROVE  MapIInv'
    BY <1>2, LoginIInv, ProcessJumpIInv
  <1> QED
    BY <1>1, <1>2, StepIInv, EventIInv, BeginTickIInv, FollowsFreedIInv DEF MapNext, StartTick

\* MapIInv holds however the threads of the maps take their turns.
THEOREM MapInvariance == MapSpec => []MapIInv
  <1> QED
    BY MapInitIInv, MapNextIInv, PTL DEF MapSpec

\* The type of the variables of the tick.
THEOREM MapTypeCorrect == MapSpec => []MapTypeOK
  <1>1. MapIInv => MapTypeOK
    BY DEF MapIInv
  <1> QED
    BY <1>1, MapInvariance, PTL

\* The surroundings of a player on a map hold nothing but what is on that map.
THEOREM SurroundingsStayHere == MapSpec => []SurroundingsAreHere
  <1>1. MapIInv => SurroundingsAreHere
    BY DEF MapIInv
  <1> QED
    BY <1>1, MapInvariance, PTL

\* The pool of a map and its cells agree on what nobody has looted.
THEOREM PoolsAgree == MapSpec => []PoolAgrees
  <1>1. MapIInv => PoolAgrees
    BY DEF MapIInv
  <1> QED
    BY <1>1, MapInvariance, PTL

\* Nothing that the loop of a cell has still to update is freed, and no mine
\* that has exploded is updated again.
THEOREM LoopsStayLive == MapSpec => []LoopIsLive
  <1>1. MapIInv => LoopIsLive
    <2> SUFFICES ASSUME MapIInv, NEW m \in Maps
                 PROVE  /\ (loop[m] \cup {who[m]}) \cap freed = {}
                        /\ loop[m] \cap Mines \cap scheduled = {}
      BY DEF LoopIsLive
    <2>1. \A x \in On(m) : x \notin freed
      BY OnFacts DEF MapIInv, FreedAreOut
    <2>2. Null \notin freed
      BY ObjectKinds DEF MapIInv, MapTypeOK
    <2> QED
      BY <2>1, <2>2 DEF MapIInv, LoopsAreHere, MinesAreSet
  <1> QED
    BY <1>1, MapInvariance, PTL

==============================================================================
