---------------------------- MODULE ZoneUpdater ----------------------------
(***************************************************************************)
(* The zone thread pool of the game server: Map::Manager::Update on the    *)
(* world thread, Map::ZoneUpdater, its ZoneProducer queue, and the worker  *)
(* threads that run ZoneUpdater::WorkerThread.                             *)
(*                                                                         *)
(* One action is one critical section, or the code of one thread between   *)
(* two of them.  The two mutexes are not state: ScheduleUpdate holds       *)
(* ZoneUpdater::m_Lock around the whole of ZoneProducer::Push, and every   *)
(* other critical section takes one mutex and no other.                    *)
(***************************************************************************)
EXTENDS Naturals, Sequences, FiniteSets

CONSTANTS
    Workers,            \* the tasks ZONE_WORKER_THREAD_<i> that own a thread
    Zones,              \* the zones of Manager::m_Zones
    None,               \* a null ZoneUpdaterTask pointer
    SpuriousWakeups     \* whether condition_variable::wait may return unnotified

\* Manager::Update schedules only when Activate has pushed a worker.
ASSUME ZoneAssumption ==
    /\ IsFiniteSet(Zones)
    /\ Workers # {}
    /\ None \notin Zones
    /\ SpuriousWakeups \in BOOLEAN

VARIABLES
    world,      \* where the world thread is
    todo,       \* the zones Manager::Update has still to schedule in this tick
    queue,      \* ZoneProducer::m_Queue
    shutDown,   \* ZoneProducer::m_ShutDown
    pending,    \* ZoneUpdater::m_PendingRequests
    token,      \* ZoneUpdater::m_CancelationToken
    destroyed,  \* ~ZoneUpdater has begun
    pc,         \* where each worker is
    task        \* the l_ZoneUpdaterTask of each worker

vars == <<world, todo, queue, shutDown, pending, token, destroyed, pc, task>>

\* "world": outside Manager::Update; "wait": in Wait(), awake; "sleep": blocked
\* on m_Condition; "drained": Deactivate or ~ZoneUpdater past its Wait(); "down":
\* the same, done.
WorldPCs == {"world", "schedule", "wait", "sleep", "drained", "down"}

\* "poll": about to enter WaitAndPop; "waiting": blocked on the queue's condition;
\* "woken": its wait is over, the mutex not yet taken again; "popped": WaitAndPop
\* has returned; "crashed": it has called Call() on a null pointer.
WorkerPCs == {"poll", "waiting", "woken", "popped", "updating", "returned", "crashed"}

TypeOK ==
    /\ world \in WorldPCs
    /\ todo \in SUBSET Zones
    /\ queue \in Seq(Zones)
    /\ shutDown \in BOOLEAN
    /\ pending \in Nat
    /\ token \in BOOLEAN
    /\ destroyed \in BOOLEAN
    /\ pc \in [Workers -> WorkerPCs]
    /\ task \in [Workers -> Zones \cup {None}]

-----------------------------------------------------------------------------

Queued == {queue[i] : i \in 1..Len(queue)}
Held   == {task[w] : w \in Workers} \ {None}

\* The requests that are scheduled and not finished.
Outstanding == Queued \cup Held

\* A null call takes the whole process down.
Alive == \A w \in Workers : pc[w] # "crashed"

Init ==
    /\ world = "world"
    /\ todo = {}
    /\ queue = <<>>
    /\ shutDown = FALSE
    /\ pending = 0
    /\ token = FALSE
    /\ destroyed = FALSE
    /\ pc = [w \in Workers |-> "poll"]
    /\ task = [w \in Workers |-> None]

-----------------------------------------------------------------------------
(* The world thread.                                                       *)

\* Manager::Update, once its interval has passed.
Update ==
    /\ world = "world" /\ ~token
    /\ world' = "schedule"
    /\ todo' = Zones
    /\ UNCHANGED <<queue, shutDown, pending, token, destroyed, pc, task>>

\* Slip: Push notifies nobody.
NotifyNobody == UNCHANGED pc

NotifyOne ==
    LET waiting == {w \in Workers : pc[w] = "waiting"}
    IN  IF waiting = {}
        THEN UNCHANGED pc
        ELSE \E w \in waiting : pc' = [pc EXCEPT ![w] = "woken"]

\* Slip: the request is pushed and not counted.
ScheduleUpdateUncounted(z) ==
    /\ world = "schedule" /\ z \in todo
    /\ todo' = todo \ {z}
    /\ queue' = Append(queue, z)
    /\ NotifyOne
    /\ UNCHANGED <<world, shutDown, pending, token, destroyed, task>>

ScheduleUpdate(z) ==
    /\ world = "schedule" /\ z \in todo
    /\ todo' = todo \ {z}
    /\ pending' = pending + 1
    /\ queue' = Append(queue, z)
    /\ NotifyOne
    /\ UNCHANGED <<world, shutDown, token, destroyed, task>>

\* Slip: Manager::Update does not wait.
AllScheduledNoWait ==
    /\ world = "schedule" /\ todo = {}
    /\ world' = "world"
    /\ UNCHANGED <<todo, queue, shutDown, pending, token, destroyed, pc, task>>

AllScheduled ==
    /\ world = "schedule" /\ todo = {}
    /\ world' = "wait"
    /\ UNCHANGED <<todo, queue, shutDown, pending, token, destroyed, pc, task>>

\* Wait() blocks while a request is pending ...
WaitBlocks ==
    /\ world = "wait" /\ pending > 0
    /\ world' = "sleep"
    /\ UNCHANGED <<todo, queue, shutDown, pending, token, destroyed, pc, task>>

\* Slip: "if" instead of "while", pending is not looked at again after a wake-up.
WaitReturnsUnchecked ==
    /\ world = "wait"
    /\ world' = IF token THEN "drained" ELSE "world"
    /\ UNCHANGED <<todo, queue, shutDown, pending, token, destroyed, pc, task>>

\* ... and returns to Manager::Update, or to Deactivate, when none is.
WaitReturns ==
    /\ world = "wait" /\ pending = 0
    /\ world' = IF token THEN "drained" ELSE "world"
    /\ UNCHANGED <<todo, queue, shutDown, pending, token, destroyed, pc, task>>

\* Manager::UnloadAll, which the world may call between two ticks: Deactivate cancels
\* first and waits next.  (Nothing at this commit calls it, or ends the server.)
Deactivate ==
    /\ world = "world" /\ ~token
    /\ token' = TRUE
    /\ world' = "wait"
    /\ UNCHANGED <<todo, queue, shutDown, pending, destroyed, pc, task>>

\* ZoneProducer::ShutDown deletes what is queued and wakes every waiter.
ShutDown ==
    /\ world = "drained" /\ ~destroyed
    /\ queue' = <<>>
    /\ shutDown' = TRUE
    /\ pc' = [w \in Workers |-> IF pc[w] = "waiting" THEN "woken" ELSE pc[w]]
    /\ world' = "down"
    /\ UNCHANGED <<todo, pending, token, destroyed, task>>

\* ~ZoneUpdater, with or without Deactivate before it, cancels and waits too, and pops
\* its tasks without ShutDown: it wakes no worker that waits for a request ...
Destroy ==
    /\ world \in {"world", "down"} /\ ~destroyed
    /\ token' = TRUE
    /\ destroyed' = TRUE
    /\ world' = "wait"
    /\ UNCHANGED <<todo, queue, shutDown, pending, pc, task>>

\* ... and is done: the mutexes, the queue and the token are gone.
Destroyed ==
    /\ world = "drained" /\ destroyed
    /\ world' = "down"
    /\ UNCHANGED <<todo, queue, shutDown, pending, token, destroyed, pc, task>>

\* The object is still there.  Nothing is said of a worker that wakes up in it later.
Exists == ~(destroyed /\ world = "down")

-----------------------------------------------------------------------------
(* A worker.                                                               *)

\* WaitAndPop, empty queue: wait once ...
Block(w) ==
    /\ pc[w] = "poll"
    /\ queue = <<>> /\ ~shutDown
    /\ pc' = [pc EXCEPT ![w] = "waiting"]
    /\ UNCHANGED <<world, todo, queue, shutDown, pending, token, destroyed, task>>

\* Slip: the front is handed out and left in the queue.
TakeNoPop(w) ==
    /\ \/ pc[w] = "poll" /\ ~(queue = <<>> /\ ~shutDown)
       \/ pc[w] = "woken"
    /\ pc' = [pc EXCEPT ![w] = "popped"]
    /\ task' = IF queue = <<>> \/ shutDown THEN task ELSE [task EXCEPT ![w] = Head(queue)]
    /\ UNCHANGED <<world, todo, queue, shutDown, pending, token, destroyed>>

\* ... and, whatever the reason of the wake-up, hand out the front if there is one.
Take(w) ==
    /\ \/ pc[w] = "poll" /\ ~(queue = <<>> /\ ~shutDown)
       \/ pc[w] = "woken"
    /\ pc' = [pc EXCEPT ![w] = "popped"]
    /\ IF queue = <<>> \/ shutDown
       THEN UNCHANGED <<queue, task>>
       ELSE /\ task' = [task EXCEPT ![w] = Head(queue)]
            /\ queue' = Tail(queue)
    /\ UNCHANGED <<world, todo, shutDown, pending, token, destroyed>>

\* WorkerThread gives up when cancelled, whatever it holds; the caller drops it.
Cancelled(w) ==
    /\ pc[w] = "popped" /\ token
    /\ pc' = [pc EXCEPT ![w] = "returned"]
    /\ UNCHANGED <<world, todo, queue, shutDown, pending, token, destroyed, task>>

\* ZoneUpdateRequest::Call starts to update the maps of the zone.
Call(w) ==
    /\ pc[w] = "popped" /\ ~token
    /\ pc' = [pc EXCEPT ![w] = IF task[w] = None THEN "crashed" ELSE "updating"]
    /\ UNCHANGED <<world, todo, queue, shutDown, pending, token, destroyed, task>>

\* Slip: Finished notifies nobody.
FinishedSilent(w) ==
    /\ pc[w] = "updating"
    /\ pending' = pending - 1
    /\ pc' = [pc EXCEPT ![w] = "poll"]
    /\ task' = [task EXCEPT ![w] = None]
    /\ UNCHANGED <<world, todo, queue, shutDown, token, destroyed>>

\* The maps are updated: Finished(), then the request is deleted.
Finished(w) ==
    /\ pc[w] = "updating"
    /\ pending' = pending - 1
    /\ world' = IF world = "sleep" THEN "wait" ELSE world
    /\ pc' = [pc EXCEPT ![w] = "poll"]
    /\ task' = [task EXCEPT ![w] = None]
    /\ UNCHANGED <<todo, queue, shutDown, token, destroyed>>

\* condition_variable::wait may return without a notification.
Spurious ==
    /\ SpuriousWakeups
    /\ \/ /\ world = "sleep"
          /\ world' = "wait"
          /\ UNCHANGED pc
       \/ /\ \E w \in Workers :
                /\ pc[w] = "waiting"
                /\ pc' = [pc EXCEPT ![w] = "woken"]
          /\ UNCHANGED world
    /\ UNCHANGED <<todo, queue, shutDown, pending, token, destroyed, task>>

-----------------------------------------------------------------------------

WorldRuns ==
    \/ \E z \in Zones : ScheduleUpdate(z)
    \/ AllScheduled \/ WaitBlocks \/ WaitReturns \/ ShutDown \/ Destroyed

WorldStep == Alive /\ (WorldRuns \/ Update \/ Deactivate \/ Destroy)

WorkerStep(w) ==
    Alive /\ Exists /\ (Block(w) \/ Take(w) \/ Cancelled(w) \/ Call(w) \/ Finished(w))

Next ==
    \/ WorldStep
    \/ \E w \in Workers : WorkerStep(w)
    \/ Alive /\ Exists /\ Spurious

Spec == Init /\ [][Next]_vars

\* The threads are scheduled: a thread that can go on does.  Nothing obliges the
\* world to start a tick, to deactivate or to delete the updater.
Fairness ==
    /\ WF_vars(Alive /\ WorldRuns)
    /\ \A w \in Workers : WF_vars(WorkerStep(w))

FairSpec == Spec /\ Fairness

-----------------------------------------------------------------------------
(* Safety.                                                                 *)

\* m_PendingRequests, which Wait() alone looks at, counts exactly the requests
\* that are queued or in the hands of a worker: Wait() neither returns early nor
\* waits for a request that does not exist.
PendingCountsRequests == pending = Cardinality(Outstanding)

\* While the world thread is outside Manager::Update, where it changes players
\* and maps without a lock, no worker updates a zone or holds a request for one.
WorldRunsAlone ==
    world \in {"world", "drained", "down"} =>
        /\ Outstanding = {}
        /\ \A w \in Workers : pc[w] # "updating"

\* A zone is never updated by two workers at once: its maps have no lock.
OneWorkerPerZone ==
    \A v, w \in Workers :
        pc[v] = "updating" /\ pc[w] = "updating" /\ task[v] = task[w] => v = w

\* Maps and players need no lock: a zone has one worker, and the world thread the
\* server to itself.
UpdatesAreExclusive == WorldRunsAlone /\ OneWorkerPerZone

\* Cancelling, by Deactivate or ~ZoneUpdater, never loses a request: although
\* WorkerThread returns with whatever it popped, and ShutDown deletes what is queued,
\* neither has any request then.
CancelLosesNothing ==
    token => Outstanding = {}

\* No wake-up is lost: the world sleeps only while a request is pending, a request
\* is queued only while a worker is up that comes back to the queue, and no worker
\* sleeps on a queue that is shut down.
WaitsAreWoken ==
    /\ world = "sleep" => pending > 0
    /\ queue # <<>> /\ Alive => \E w \in Workers : pc[w] \notin {"waiting", "returned"}
    /\ shutDown => \A w \in Workers : pc[w] # "waiting"

\* Who waits, waits for something that comes: the counter by which Wait() decides is
\* right, and so is everybody's sleep.
WaitsAreRight == PendingCountsRequests /\ WaitsAreWoken

\* A tick of the zone pool is the fork and join of ZoneBarrier: every zone is
\* updated exactly once per tick, and the world goes on after the last of them.
Due(z) ==
    \/ z \in todo \cup Queued
    \/ \E w \in Workers : task[w] = z /\ pc[w] # "updating"

ZoneState(z) == IF Due(z) THEN "due" ELSE IF z \in Held THEN "running" ELSE "done"

Barrier == INSTANCE ZoneBarrier WITH
    phase <- IF world = "schedule" \/ (world \in {"wait", "sleep"} /\ ~token)
             THEN "zones" ELSE "world",
    zone  <- [z \in Zones |-> ZoneState(z)]

ImplementsBarrier == Barrier!Spec

-----------------------------------------------------------------------------
(* Liveness.                                                               *)

\* A tick that has begun ends: the world thread is not left in Wait() for ever,
\* unless a null request has crashed the server first.
TickCompletes == world = "schedule" ~> (world = "world" \/ ~Alive)

\* Once Deactivate has cancelled, every worker leaves WorkerThread.  (~ZoneUpdater
\* leaves those that wait for a request where they are.)
WorkersReturn ==
    token ~> (\A w \in Workers : pc[w] = "returned") \/ ~Alive \/ destroyed

\* Nobody is left in a wait: neither the world in a tick nor a worker after the end.
WaitsEnd == TickCompletes /\ WorkersReturn
=============================================================================
