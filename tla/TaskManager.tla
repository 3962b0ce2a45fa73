----------------------------- MODULE TaskManager -----------------------------
(***************************************************************************)
(* The threads all others are taken from: TaskManager with its inclusive,  *)
(* exclusive and critical TaskWorkers, and the optimizer.                  *)
(*                                                                         *)
(* Two sorts of tasks are pushed in the repository.  A Normal one is a     *)
(* zone worker (ZoneUpdater::WorkerThread): it runs until the updater is   *)
(* deactivated and then returns false.  A Moderate one is the io_service   *)
(* of a listener or a network thread: it runs until the service is         *)
(* stopped and then returns true at once, over and over.  (The database    *)
(* worker, pushed first, keeps an exclusive worker for good: it is left    *)
(* out with that worker.)                                                  *)
(*                                                                         *)
(* One thread owns them all: main pushes them in PushOrder.  The zones may *)
(* be deactivated while the server runs (Manager::UnloadAll); the          *)
(* destructors of the network stop and pop the services when main returns, *)
(* and ~ZoneUpdater, if anything deletes the map manager, comes last.      *)
(* Nothing at this commit starts any of these ends: each may happen here,  *)
(* and none must.                                                          *)
(*                                                                         *)
(* A worker goes through its copy of the tasks in any order.  The average  *)
(* times of workers, by which PushTask chooses one, are not modelled: it   *)
(* chooses any inclusive worker.                                           *)
(***************************************************************************)
EXTENDS Naturals, FiniteSets, Sequences, Functions

CONSTANTS
    Inclusive,      \* m_InclusiveTaskWorkers, in order
    Exclusive,      \* m_ExclusiveTaskWorkers, in order
    Zones,          \* the Normal tasks
    PushOrder,      \* all tasks, in the order main pushes them
    PopOrder,       \* the same tasks, in the order their owners pop them
    NoTask

InclusiveWorkers == Range(Inclusive)
ExclusiveWorkers == Range(Exclusive)
Tasks == Range(PushOrder)

\* The Moderate tasks; each names the Critical worker it may get.
Services == Tasks \ Zones

Workers == InclusiveWorkers \cup ExclusiveWorkers \cup Services

ASSUME WorkersAssumption ==
    /\ Inclusive \in Seq(InclusiveWorkers) /\ Inclusive # <<>>
    /\ Exclusive \in Seq(ExclusiveWorkers)
    /\ IsInjective(Inclusive)
    /\ InclusiveWorkers \cap (ExclusiveWorkers \cup Services) = {}
    /\ ExclusiveWorkers \cap Services = {}

ASSUME TasksAssumption ==
    /\ PushOrder \in Seq(Tasks) /\ IsInjective(PushOrder)
    /\ PopOrder \in Seq(Tasks) /\ IsInjective(PopOrder) /\ Range(PopOrder) = Tasks
    /\ Zones \subseteq Tasks /\ Zones # {}
    /\ NoTask \notin Tasks

VARIABLES
    tasks,      \* m_Tasks: the Normal tasks the manager knows
    critical,   \* the services whose type was set to Critical
    joining,    \* the critical task that PopTask waits for, holding m_Mutex
    list,       \* m_Tasks of each worker: how often each task is on it
    copy,       \* what is left of l_Copy
    now,        \* the task that a worker executes
    running,    \* m_IsRunning
    thread,     \* where the worker's thread is; "none" without one
    phase,      \* what the owner of a task has done with it
    stage,      \* where Optimize is
    next,       \* the worker Optimize comes to next
    raced       \* the tasks pushed to a worker between its PopAll and its refill

mgrVars == <<tasks, critical, joining>>
workVars == <<copy, now, thread>>
optVars == <<stage, next>>
tmVars == <<mgrVars, list, workVars, running, phase, optVars, raced>>

Nothing == [t \in Tasks |-> 0]

TMTypeOK ==
    /\ tasks \subseteq Zones
    /\ critical \subseteq Services
    /\ joining \in critical \cup {NoTask}
    /\ list \in [Workers -> [Tasks -> 0..2]]
    /\ copy \in [Workers -> [Tasks -> 0..2]]
    /\ now \in [Workers -> Tasks \cup {NoTask}]
    /\ running \in [Workers -> BOOLEAN]
    /\ thread \in [Workers -> {"loop", "tasks", "run", "pop", "gone", "none"}]
    /\ phase \in [Tasks -> {"new", "pushed", "stopped", "popping", "popped", "cancelled", "dropped"}]
    /\ stage \in {"sleep", "suspend", "join", "assign"}
    /\ next \in 1..Len(Inclusive)
    /\ raced \subseteq Zones

TMInit ==
    /\ tasks = {} /\ critical = {} /\ joining = NoTask
    /\ list = [w \in Workers |-> Nothing]
    /\ copy = [w \in Workers |-> Nothing]
    /\ now = [w \in Workers |-> NoTask]
    /\ running = [w \in Workers |-> w \notin Services]
    /\ thread = [w \in Workers |-> IF w \in Services THEN "none" ELSE "loop"]
    /\ phase = [t \in Tasks |-> "new"]
    /\ stage = "sleep" /\ next = 1
    /\ raced = {}

-----------------------------------------------------------------------------
\* The manager.  m_Mutex is held within each of these steps, and from PopCritical
\* to Joined.

LockIsFree == joining = NoTask

\* The tasks that come before t in an order.
Before(order, t) ==
    {order[i] : i \in {j \in DOMAIN order : \E k \in DOMAIN order : order[k] = t /\ j < k}}

\* It is the turn of main to push t: all tasks before it are pushed.
PushTurn(t) == phase[t] = "new" /\ \A u \in Before(PushOrder, t) : phase[u] # "new"

\* The tasks of the same owners that are popped before t.
Earlier(t) == {u \in Before(PopOrder, t) : u \in Zones <=> t \in Zones}

\* main has returned, not from within Deactivate, and it is the turn of service t.
PopTurn(t) ==
    /\ phase[t] = "pushed"
    /\ \A u \in Tasks : phase[u] # "new"
    /\ \A u \in Zones : phase[u] # "stopped"
    /\ \A u \in Earlier(t) : phase[u] = "popped"

\* A worker that Optimize has emptied and not yet filled again.
Emptied(w) ==
    \/ stage = "assign" /\ w \in InclusiveWorkers
    \/ stage = "join" /\ \E i \in 1..(next - 1) : Inclusive[i] = w

\* A Normal task: on a worker, and known to the manager.
PushNormal(t) ==
    /\ t \in Zones /\ PushTurn(t) /\ LockIsFree
    /\ \E w \in InclusiveWorkers :
          /\ list' = [list EXCEPT ![w][t] = @ + 1]
          /\ raced' = IF Emptied(w) THEN raced \cup {t} ELSE raced
    /\ tasks' = tasks \cup {t}
    /\ phase' = [phase EXCEPT ![t] = "pushed"]
    /\ UNCHANGED <<critical, joining, workVars, running, optVars>>

\* Slip: any exclusive worker will do.
PushModerateAnywhere(t) ==
    /\ t \in Services /\ PushTurn(t) /\ LockIsFree
    /\ \E w \in ExclusiveWorkers : list' = [list EXCEPT ![w][t] = @ + 1]
    /\ phase' = [phase EXCEPT ![t] = "pushed"]
    /\ UNCHANGED <<mgrVars, workVars, running, optVars, raced>>

\* The first exclusive worker without a task, else a worker of its own.
PushModerate(t) ==
    /\ t \in Services /\ PushTurn(t) /\ LockIsFree
    /\ LET idle == {i \in 1..Len(Exclusive) : list[Exclusive[i]] = Nothing}
       IN  IF idle # {}
           THEN /\ list' = [list EXCEPT
                        ![Exclusive[CHOOSE i \in idle : \A j \in idle : i <= j]][t] = @ + 1]
                /\ UNCHANGED <<critical, running, thread>>
           ELSE /\ list' = [list EXCEPT ![t][t] = 1]
                /\ critical' = critical \cup {t}
                /\ running' = [running EXCEPT ![t] = TRUE]
                /\ thread' = [thread EXCEPT ![t] = "loop"]
    /\ phase' = [phase EXCEPT ![t] = "pushed"]
    /\ UNCHANGED <<tasks, joining, copy, now, optVars, raced>>

\* Slip: only the worker that comes first is asked.
UnlistFirst(t, ws) ==
    [w \in Workers |-> IF w \in ws /\ w = Inclusive[1] /\ list[w][t] > 0
                       THEN [list[w] EXCEPT ![t] = @ - 1] ELSE list[w]]

\* TaskWorker::PopTask on some workers: the first occurrence goes.
Unlist(t, ws) ==
    [w \in Workers |-> IF w \in ws /\ list[w][t] > 0
                       THEN [list[w] EXCEPT ![t] = @ - 1] ELSE list[w]]

\* Slip: the manager forgets the task, its worker does not.
PopTaskListed(t) ==
    /\ LockIsFree
    /\ tasks' = tasks \ {t}
    /\ list' = list

\* PopTask for a Normal or a Moderate task.
PopTask(t) ==
    /\ LockIsFree
    /\ tasks' = tasks \ {t}
    /\ list' = IF t \in tasks THEN Unlist(t, InclusiveWorkers)
               ELSE IF t \in Services THEN Unlist(t, ExclusiveWorkers)
               ELSE list

-----------------------------------------------------------------------------
\* The owners.

\* ZoneUpdater::Deactivate sets the token of all its workers and wakes them.
Deactivate ==
    /\ \A t \in Tasks : phase[t] = "pushed"
    /\ phase' = [t \in Tasks |-> IF t \in Zones THEN "stopped" ELSE phase[t]]
    /\ UNCHANGED <<mgrVars, list, workVars, running, optVars, raced>>

\* ~ZoneUpdater sets the token and wakes nobody.
Destroy ==
    /\ \A t \in Tasks : phase[t] = IF t \in Zones THEN "pushed" ELSE "popped"
    /\ phase' = [t \in Tasks |-> IF t \in Zones THEN "cancelled" ELSE phase[t]]
    /\ UNCHANGED <<mgrVars, list, workVars, running, optVars, raced>>

\* io_service::stop, and the sockets closed.
StopService(t) ==
    /\ t \in Services /\ PopTurn(t)
    /\ phase' = [phase EXCEPT ![t] = "stopped"]
    /\ UNCHANGED <<mgrVars, list, workVars, running, optVars, raced>>

PopByOwner(t) ==
    /\ phase[t] \in {"stopped", "cancelled"} /\ t \notin critical
    /\ \A u \in Earlier(t) : phase[u] \in {"popped", "dropped"}
    /\ PopTask(t)
    /\ phase' = [phase EXCEPT ![t] = IF phase[t] = "stopped" THEN "popped" ELSE "dropped"]
    /\ UNCHANGED <<critical, joining, workVars, running, optVars, raced>>

\* PopTask for a Critical task: Suspend, under the lock of the manager.
PopCritical(t) ==
    /\ phase[t] = "stopped" /\ t \in critical /\ LockIsFree
    /\ joining' = t
    /\ running' = [running EXCEPT ![t] = FALSE]
    /\ phase' = [phase EXCEPT ![t] = "popping"]
    /\ UNCHANGED <<tasks, critical, list, workVars, optVars, raced>>

\* join returned: the worker is emptied and deleted.
Joined(t) ==
    /\ joining = t /\ thread[t] = "gone"
    /\ joining' = NoTask
    /\ list' = [list EXCEPT ![t] = Nothing]
    /\ thread' = [thread EXCEPT ![t] = "none"]
    /\ phase' = [phase EXCEPT ![t] = "popped"]
    /\ UNCHANGED <<tasks, critical, copy, now, running, optVars, raced>>

-----------------------------------------------------------------------------
\* TaskWorker::UpdateThread.

\* Without a task the cycle ends at once.
Copy(w) ==
    /\ thread[w] = "loop"
    /\ IF running[w]
       THEN /\ list[w] # Nothing
            /\ copy' = [copy EXCEPT ![w] = list[w]]
            /\ thread' = [thread EXCEPT ![w] = "tasks"]
       ELSE thread' = [thread EXCEPT ![w] = "gone"] /\ UNCHANGED copy
    /\ UNCHANGED <<mgrVars, list, now, running, phase, optVars, raced>>

\* A task is due until its first run.  The period -1 of a service becomes a time
\* beyond its timer: after the first run the service may be due, or never again.
MayBeLater(t) == t \in Services /\ phase[t] \notin {"new", "pushed"}

Execute(w) ==
    /\ thread[w] = "tasks" /\ running[w]
    /\ \E t \in Tasks :
          /\ copy[w][t] > 0
          /\ copy' = [copy EXCEPT ![w][t] = @ - 1]
          /\ \/ now' = [now EXCEPT ![w] = t] /\ thread' = [thread EXCEPT ![w] = "run"]
             \/ MayBeLater(t) /\ UNCHANGED <<now, thread>>
    /\ UNCHANGED <<mgrVars, list, running, phase, optVars, raced>>

\* The task returns once it is stopped: a zone worker false, a service true.  A zone
\* worker that ~ZoneUpdater has cancelled may, if it wakes up without being woken.
Returns(w) ==
    /\ thread[w] = "run"
    /\ phase[now[w]] \notin {"new", "pushed"}
    /\ IF now[w] \in Zones
       THEN thread' = [thread EXCEPT ![w] = "pop"] /\ UNCHANGED now
       ELSE thread' = [thread EXCEPT ![w] = "tasks"] /\ now' = [now EXCEPT ![w] = NoTask]
    /\ UNCHANGED <<mgrVars, list, copy, running, phase, optVars, raced>>

\* The worker pops a task that returned false.
PopByWorker(w) ==
    /\ thread[w] = "pop"
    /\ PopTask(now[w])
    /\ now' = [now EXCEPT ![w] = NoTask]
    /\ thread' = [thread EXCEPT ![w] = "tasks"]
    /\ UNCHANGED <<critical, joining, copy, running, phase, optVars, raced>>

\* The copy is done, or left because the worker is to stop.
EndOfCycle(w) ==
    /\ thread[w] = "tasks"
    /\ ~running[w] \/ copy[w] = Nothing
    /\ copy' = [copy EXCEPT ![w] = Nothing]
    /\ thread' = [thread EXCEPT ![w] = IF running[w] THEN "loop" ELSE "gone"]
    /\ UNCHANGED <<mgrVars, list, now, running, phase, optVars, raced>>

WorkerStep(w) == Copy(w) \/ Execute(w) \/ Returns(w) \/ PopByWorker(w) \/ EndOfCycle(w)

-----------------------------------------------------------------------------
\* Optimize, on the worker of the OptimizeTask.

\* m_Tasks is looked at under the lock, and the lock is given up.
Optimize ==
    /\ stage = "sleep" /\ LockIsFree /\ tasks # {}
    /\ stage' = "suspend" /\ next' = 1
    /\ UNCHANGED <<mgrVars, list, workVars, running, phase, raced>>

\* The next worker, or the next stage after the last.
Advance(then) ==
    IF next < Len(Inclusive) THEN next' = next + 1 /\ UNCHANGED stage
    ELSE next' = 1 /\ stage' = then

PreSuspend ==
    /\ stage = "suspend"
    /\ running' = [running EXCEPT ![Inclusive[next]] = FALSE]
    /\ Advance("join")
    /\ UNCHANGED <<mgrVars, list, workVars, phase, raced>>

\* Slip: the tasks of a worker are dropped without waiting for its thread.
SuspendNoJoin ==
    LET w == Inclusive[next]
    IN  /\ stage = "join"
        /\ list' = [list EXCEPT ![w] = Nothing]
        /\ Advance("assign")
        /\ UNCHANGED <<mgrVars, workVars, running, phase, raced>>

\* Slip: Optimize keeps the lock of the manager while it waits.
SuspendLocked ==
    LET w == Inclusive[next]
    IN  /\ stage = "join"
        /\ IF thread[w] = "gone"
           THEN /\ thread' = [thread EXCEPT ![w] = "none"]
                /\ list' = [list EXCEPT ![w] = Nothing]
                /\ joining' = NoTask
                /\ Advance("assign")
           ELSE /\ LockIsFree
                /\ \E t \in Services : joining' = t
                /\ UNCHANGED <<thread, list, optVars>>
        /\ UNCHANGED <<tasks, critical, copy, now, running, phase, raced>>

\* Suspend tells the worker to stop, which PreSuspend has done already ...
TellToStop ==
    /\ stage = "join"
    /\ running' = [running EXCEPT ![Inclusive[next]] = FALSE]
    /\ UNCHANGED <<mgrVars, list, workVars, phase, optVars, raced>>

\* ... and waits until the thread of the worker has ended; then PopAll.
Suspend ==
    LET w == Inclusive[next]
    IN  /\ stage = "join" /\ thread[w] = "gone"
        /\ thread' = [thread EXCEPT ![w] = "none"]
        /\ list' = [list EXCEPT ![w] = Nothing]
        /\ Advance("assign")
        /\ UNCHANGED <<mgrVars, copy, now, running, phase, raced>>

\* Every task to a worker, in turn: the worker in place i gets its share.
RoundRobin ==
    LET n == Len(Inclusive)
    IN  {f \in [tasks -> 1..n] :
            \A i \in 1..n :
                Cardinality({t \in tasks : f[t] = i}) = (Cardinality(tasks) + n - i) \div n}

\* Under the lock again: the tasks are handed out and the workers resumed.
Assign ==
    /\ stage = "assign" /\ LockIsFree
    /\ \E f \in RoundRobin :
          list' = [w \in Workers |-> [t \in Tasks |->
                      IF t \in tasks /\ w = Inclusive[f[t]] THEN list[w][t] + 1 ELSE list[w][t]]]
    /\ running' = [w \in Workers |-> running[w] \/ w \in InclusiveWorkers]
    /\ thread' = [w \in Workers |-> IF w \in InclusiveWorkers THEN "loop" ELSE thread[w]]
    /\ stage' = "sleep"
    /\ UNCHANGED <<mgrVars, copy, now, phase, next, raced>>

OptimizeStep == PreSuspend \/ TellToStop \/ Suspend \/ Assign

-----------------------------------------------------------------------------

TMNext ==
    \/ \E t \in Tasks :
          \/ PushNormal(t) \/ PushModerate(t)
          \/ StopService(t) \/ PopByOwner(t) \/ PopCritical(t) \/ Joined(t)
    \/ Deactivate \/ Destroy
    \/ \E w \in Workers : WorkerStep(w)
    \/ Optimize \/ OptimizeStep

TMSpec == TMInit /\ [][TMNext]_tmVars

\* A zone worker that nobody wakes.
Asleep(w) == thread[w] = "run" /\ phase[now[w]] \in {"cancelled", "dropped"}

\* The threads run, except those that nobody wakes, and an owner that has stopped its
\* task goes on to pop it.
TMFairness ==
    /\ \A w \in Workers : WF_tmVars(~Asleep(w) /\ WorkerStep(w))
    /\ WF_tmVars(OptimizeStep)
    /\ WF_tmVars(\E t \in Tasks : PopByOwner(t) \/ PopCritical(t) \/ Joined(t))

TMFairSpec == TMSpec /\ TMFairness

-----------------------------------------------------------------------------

\* "Moderate: execute one and only task" (ThrTask.hpp): an exclusive or critical
\* worker is never given a second task, whoever pushes and pops at the same time;
\* what it executes is its task, or one that was stopped.
ExclusiveRunsOne ==
    \A w \in ExclusiveWorkers \cup Services :
        /\ \A t, u \in Tasks : list[w][t] > 0 /\ list[w][u] > 0 => t = u
        /\ now[w] # NoTask /\ list[w][now[w]] = 0 => phase[now[w]] = "popped"

\* A Normal task is on a worker exactly as long as the manager keeps it, except
\* between PopAll and the next assignment; only a task that was pushed in that
\* window may be on two.
TasksAreOnWorkers ==
    \A t \in Zones :
        LET on == {w \in InclusiveWorkers : list[w][t] > 0}
        IN  /\ t \in tasks => on # {} \/ \E w \in InclusiveWorkers : Emptied(w)
            /\ t \notin raced => Cardinality(on) <= 1 /\ (on # {} => t \in tasks)

\* No two threads are inside the same task, although Optimize moves tasks between
\* workers that are executing, unless it was pushed while Optimize moved them.
OneThreadPerTask ==
    \A t \in Tasks \ raced : \A v, w \in Workers : now[v] = t /\ now[w] = t => v = w

\* Threads and tasks find each other: one task for a thread of its own, and one thread
\* for a task.
OneToOne == ExclusiveRunsOne /\ OneThreadPerTask

\* PopTask returns, although it may wait for a thread with the lock of the manager
\* in its hands, or a worker or the optimizer for that lock.
PopReturns ==
    LET popping == \E t \in Tasks : phase[t] \in {"stopped", "popping", "cancelled"}
    IN  popping ~> ~popping

\* Every worker lets go of a task that was popped, by Deactivate or with its service:
\* its list, the copy it goes through and the thread that may still execute it,
\* wherever Optimize has moved it.  (A task that ~ZoneUpdater has dropped may keep its
\* thread for ever.)
PoppedTasksEnd ==
    \A t \in Tasks :
        phase[t] = "popped" /\ t \notin raced
            ~> \A w \in Workers : list[w][t] = 0 /\ copy[w][t] = 0 /\ now[w] # t

\* Once Deactivate has stopped the zone workers, Optimize gets to its end.  (Before that,
\* and after ~ZoneUpdater, it waits for as long as a zone worker runs or sleeps.)
OptimizeEnds ==
    (stage # "sleep" /\ \A t \in Zones : phase[t] \in {"stopped", "popped"}) ~> stage = "sleep"

\* The locks and the waits for threads make no circle when tasks are popped.
CallsReturn == PopReturns /\ OptimizeEnds

=============================================================================
