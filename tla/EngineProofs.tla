---------------------------- MODULE EngineProofs -----------------------------
(***************************************************************************)
(* The safety of two parts of the engine that share no variable: the       *)
(* connection pool, for every pool size, every set of threads and every    *)
(* depth of nesting, and the task manager, for every set of workers and of *)
(* tasks, pushed and popped in any order.                                  *)
(***************************************************************************)
EXTENDS ConnectionPool, TaskManager, FiniteSetTheorems, FunctionTheorems,
    WellFoundedInduction, TLAPS

-----------------------------------------------------------------------------
\* The connection pool.

\* A thread that reads rows has a statement open; an idle one has none.
Holding ==
    \A t \in Threads :
        /\ pc[t] = "idle" => Open(t) = {}
        /\ pc[t] = "rows" => Open(t) # {}

\* The statement that is about to be given back is not prepared any more.
Cleared == \A t \in Threads : pc[t] = "free" => ~prepared[at[t]]

\* The inductive invariant.
IInv == TypeOK /\ StatementIsFree /\ OnlyOwnersWork /\ Holding /\ Cleared

LEMMA InitIInv == Init => IInv
  BY PoolAssumption
  DEF Init, IInv, TypeOK, StatementIsFree, OnlyOwnersWork, Holding, Cleared, Open, PCs, Pool

\* A step that moves no mutex and prepares nothing.
LEMMA OpenUnchanged ==
    ASSUME UNCHANGED owner
    PROVE  \A t \in Threads : Open(t)' = Open(t)
  BY DEF Open

LEMMA GetIInv ==
    ASSUME IInv, NEW t \in Threads, GetPrepareStatement(t)
    PROVE  IInv'
  BY OpenUnchanged, PoolAssumption
  DEF GetPrepareStatement, Goto, IInv, TypeOK, StatementIsFree, OnlyOwnersWork, Holding,
      Cleared, PCs, Pool

LEMMA TryLockIInv ==
    ASSUME IInv, NEW t \in Threads, TryLock(t)
    PROVE  IInv'
  <1> USE DEF TryLock, Goto
  <1>1. at[t] \in Pool /\ pc[t] = "try"
    BY DEF IInv, TypeOK
  <1>2. CASE owner[at[t]] = Nobody
    <2>1. TypeOK'
      BY <1>1, <1>2 DEF IInv, TypeOK, PCs
    <2>2. StatementIsFree' /\ Cleared'
      BY <1>1, <1>2 DEF IInv, TypeOK, StatementIsFree, Cleared, OnlyOwnersWork
    <2>3. OnlyOwnersWork'
      BY <1>1, <1>2, PoolAssumption DEF IInv, TypeOK, OnlyOwnersWork
    <2>4. \A u \in Threads : u # t => pc'[u] = pc[u] /\ Open(u)' = Open(u)
      BY <1>1, <1>2, PoolAssumption DEF IInv, TypeOK, Open
    <2>5. pc'[t] = "prepare"
      BY <1>1, <1>2 DEF IInv, TypeOK
    <2>6. Holding'
      BY <2>4, <2>5 DEF IInv, Holding
    <2> QED
      BY <2>1, <2>2, <2>3, <2>6 DEF IInv
  <1>3. CASE owner[at[t]] # Nobody
    <2>1. (at[t] % PoolSize) + 1 \in Pool
      BY <1>1, PoolAssumption DEF Pool
    <2> QED
      BY <1>1, <1>3, <2>1, OpenUnchanged
      DEF IInv, TypeOK, StatementIsFree, OnlyOwnersWork, Holding, Cleared
  <1> QED
    BY <1>2, <1>3

LEMMA PrepareIInv ==
    ASSUME IInv, NEW t \in Threads, PrepareStatement(t)
    PROVE  IInv'
  <1> USE DEF PrepareStatement, Goto
  <1>1. at[t] \in Pool /\ owner[at[t]] = t
    BY DEF IInv, TypeOK, OnlyOwnersWork
  <1>2. TypeOK'
    BY <1>1 DEF IInv, TypeOK, PCs
  <1>3. StatementIsFree' /\ Cleared'
    BY <1>1 DEF IInv, TypeOK, StatementIsFree, Cleared, OnlyOwnersWork
  <1>4. OnlyOwnersWork'
    BY <1>1, PoolAssumption DEF IInv, TypeOK, OnlyOwnersWork
  <1>5. Holding'
    BY OpenUnchanged DEF IInv, TypeOK, Holding
  <1> QED
    BY <1>2, <1>3, <1>4, <1>5 DEF IInv

LEMMA ExecuteIInv ==
    ASSUME IInv, NEW t \in Threads, ExecuteStatement(t)
    PROVE  IInv'
  <1> USE DEF ExecuteStatement, Goto
  <1>1. at[t] \in Open(t)
    BY DEF IInv, TypeOK, OnlyOwnersWork, Open
  <1>2. TypeOK' /\ StatementIsFree' /\ OnlyOwnersWork' /\ Cleared'
    BY DEF IInv, TypeOK, StatementIsFree, OnlyOwnersWork, Cleared, PCs
  <1>3. Holding'
    BY <1>1, OpenUnchanged DEF IInv, TypeOK, Holding
  <1> QED
    BY <1>2, <1>3 DEF IInv

LEMMA DestroyIInv ==
    ASSUME IInv, NEW t \in Threads, DestroyResult(t)
    PROVE  IInv'
  <1> USE DEF DestroyResult, Goto
  <1>1. PICK c \in Open(t) : at' = [at EXCEPT ![t] = c]
    OBVIOUS
  <1>2. c \in Pool /\ owner[c] = t
    BY DEF Open
  <1>3. TypeOK' /\ StatementIsFree' /\ OnlyOwnersWork' /\ Cleared'
    BY <1>1, <1>2 DEF IInv, TypeOK, StatementIsFree, OnlyOwnersWork, Cleared, PCs
  <1>4. Holding'
    BY OpenUnchanged DEF IInv, TypeOK, Holding
  <1> QED
    BY <1>3, <1>4 DEF IInv

LEMMA ClearIInv ==
    ASSUME IInv, NEW t \in Threads, Clear(t)
    PROVE  IInv'
  <1> USE DEF Clear, Goto
  <1>1. at[t] \in Pool
    BY DEF IInv, TypeOK
  <1>2. TypeOK'
    BY <1>1 DEF IInv, TypeOK, PCs
  <1>3. StatementIsFree' /\ OnlyOwnersWork' /\ Cleared'
    BY <1>1 DEF IInv, TypeOK, StatementIsFree, OnlyOwnersWork, Cleared
  <1>4. Holding'
    BY OpenUnchanged DEF IInv, TypeOK, Holding
  <1> QED
    BY <1>2, <1>3, <1>4 DEF IInv

LEMMA FreeIInv ==
    ASSUME IInv, NEW t \in Threads, Free(t)
    PROVE  IInv'
  <1> USE DEF Free, Goto
  <1>1. at[t] \in Pool /\ owner[at[t]] = t /\ ~prepared[at[t]]
    BY DEF IInv, TypeOK, OnlyOwnersWork, Cleared
  <1>2. TypeOK'
    BY <1>1, PoolAssumption DEF IInv, TypeOK, PCs
  <1>3. StatementIsFree' /\ Cleared'
    BY <1>1 DEF IInv, TypeOK, StatementIsFree, Cleared
  <1>4. OnlyOwnersWork'
    BY <1>1, PoolAssumption DEF IInv, TypeOK, OnlyOwnersWork
  <1>5. \A u \in Threads : u # t => pc'[u] = pc[u] /\ Open(u)' = Open(u)
    BY <1>1, PoolAssumption DEF IInv, TypeOK, Open
  <1>6. Open(t)' = Open(t) \ {at[t]}
    BY <1>1, PoolAssumption DEF IInv, TypeOK, Open
  <1>7. pc'[t] = IF Open(t) = {at[t]} THEN "idle" ELSE "rows"
    BY DEF IInv, TypeOK
  <1>8. at[t] \in Open(t)
    BY <1>1 DEF Open
  <1>9. Holding'
    BY <1>5, <1>6, <1>7, <1>8 DEF IInv, Holding
  <1> QED
    BY <1>2, <1>3, <1>4, <1>9 DEF IInv

LEMMA NextIInv == IInv /\ [Next]_vars => IInv'
  <1> SUFFICES ASSUME IInv, [Next]_vars PROVE IInv'
    OBVIOUS
  <1>1. ASSUME NEW t \in Threads, GetPrepareStatement(t) \/ Runs(t) \/ DestroyResult(t)
        PROVE  IInv'
    BY <1>1, GetIInv, TryLockIInv, PrepareIInv, ExecuteIInv, DestroyIInv, ClearIInv,
       FreeIInv DEF Runs
  <1>2. CASE UNCHANGED vars
    BY <1>2, OpenUnchanged
    DEF vars, IInv, TypeOK, StatementIsFree, OnlyOwnersWork, Holding, Cleared
  <1> QED
    BY <1>1, <1>2 DEF Next

\* The inductive invariant holds of the specification.
THEOREM Invariance == Spec => []IInv
  BY InitIInv, NextIInv, PTL DEF Spec

\* Every variable of the pool keeps its type: who asks goes round within the pool.
THEOREM TypeCorrect == Spec => []TypeOK
  BY Invariance, PTL DEF IInv

\* The assertion of PreparedStatement::Prepare never fails.
THEOREM NeverInUse == Spec => []StatementIsFree
  BY Invariance, PTL DEF IInv

\* The mutex of a statement protects it, from TryLockMutex to UnlockMutex.
THEOREM MutexProtects == Spec => []OnlyOwnersWork
  BY Invariance, PTL DEF IInv

\* A connection changes hands clean.
THEOREM UseStaysExclusive == Spec => []UseIsExclusive
  BY Invariance, PTL DEF IInv, UseIsExclusive

\* No thread goes idle with a connection in its hands.
THEOREM AllReturned == Spec => []IdleHoldsNothing
  <1>1. IInv => IdleHoldsNothing
    BY DEF IInv, Holding, IdleHoldsNothing
  <1> QED
    BY <1>1, Invariance, PTL

\* A thread asks for a connection only below its depth, and holds what it held then
\* until it has got it.
Asking == \A t \in Threads : pc[t] = "try" => Cardinality(Open(t)) < Depth[t]

LEMMA NextAsking == IInv /\ Asking /\ [Next]_vars => Asking'
  <1> SUFFICES ASSUME IInv, Asking, [Next]_vars PROVE Asking'
    OBVIOUS
  <1> USE DEF Goto, Asking, IInv, TypeOK
  <1>1. ASSUME NEW t \in Threads, GetPrepareStatement(t)
        PROVE  Asking'
    BY <1>1, OpenUnchanged DEF GetPrepareStatement
  <1>2. ASSUME NEW t \in Threads, TryLock(t)
        PROVE  Asking'
    <2>1. CASE owner[at[t]] = Nobody
      <3>1. \A u \in Threads : u # t => pc'[u] = pc[u] /\ Open(u)' = Open(u)
        BY <1>2, <2>1, PoolAssumption DEF TryLock, Open
      <3>2. pc'[t] = "prepare"
        BY <1>2, <2>1 DEF TryLock
      <3> QED
        BY <3>1, <3>2
    <2>2. CASE owner[at[t]] # Nobody
      BY <1>2, <2>2, OpenUnchanged DEF TryLock
    <2> QED
      BY <2>1, <2>2
  <1>3. ASSUME NEW t \in Threads, PrepareStatement(t) \/ ExecuteStatement(t) \/ Clear(t)
        PROVE  Asking'
    BY <1>3, OpenUnchanged DEF PrepareStatement, ExecuteStatement, Clear
  <1>4. ASSUME NEW t \in Threads, DestroyResult(t)
        PROVE  Asking'
    BY <1>4, OpenUnchanged DEF DestroyResult
  <1>5. ASSUME NEW t \in Threads, Free(t)
        PROVE  Asking'
    <2>1. owner[at[t]] = t
      BY <1>5 DEF Free, OnlyOwnersWork
    <2>2. \A u \in Threads : u # t => pc'[u] = pc[u] /\ Open(u)' = Open(u)
      BY <1>5, <2>1, PoolAssumption DEF Free, Open
    <2>3. pc'[t] # "try"
      BY <1>5 DEF Free
    <2> QED
      BY <2>2, <2>3
  <1>6. CASE UNCHANGED vars
    BY <1>6, OpenUnchanged DEF vars
  <1> QED
    BY <1>1, <1>2, <1>3, <1>4, <1>5, <1>6 DEF Next, Runs

\* A numbering of the connections a thread holds.
Numbers(t) == Bijection(Open(t), 1..Cardinality(Open(t)))

LEMMA OpenIsNumbered ==
    ASSUME IInv, NEW t \in Threads
    PROVE  Cardinality(Open(t)) \in Nat /\ \E f : f \in Numbers(t)
  <1>1. IsFiniteSet(Pool)
    BY FS_Interval, PoolAssumption DEF Pool
  <1>2. Open(t) \in SUBSET Pool
    BY DEF Open
  <1>3. IsFiniteSet(Open(t))
    BY <1>1, <1>2, FS_Subset
  <1>4. /\ Cardinality(Open(t)) \in Nat
        /\ ExistsBijection(1..Cardinality(Open(t)), Open(t))
    BY <1>3, FS_CardinalityType
  <1>5. ExistsBijection(Open(t), 1..Cardinality(Open(t)))
    BY <1>4, Fun_ExistsBijSymmetric
  <1> QED
    BY <1>4, <1>5 DEF ExistsBijection, Numbers

\* When every thread that is not idle asks for a connection and none is free, each
\* connection has a place of its own in what the threads may hold while they ask.
LEMMA CircleFillsPool ==
    ASSUME IInv, Asking, IsFiniteSet(Nested),
           \A c \in Pool : owner[c] # Nobody,
           \A t \in Threads : pc[t] \in {"idle", "try"}
    PROVE  PoolSize <= Cardinality(Nested)
  <1> DEFINE number == [t \in Threads |-> CHOOSE f : f \in Numbers(t)]
             place == [c \in Pool |-> <<owner[c], number[owner[c]][c]>>]
  <1>1. \A c \in Pool : owner[c] \in Threads /\ c \in Open(owner[c])
    BY DEF IInv, TypeOK, Open
  <1>2. ASSUME NEW t \in Threads
        PROVE  number[t] \in Numbers(t)
    <2>1. \E f : f \in Numbers(t)
      BY OpenIsNumbered
    <2>2. (CHOOSE f : f \in Numbers(t)) \in Numbers(t)
      BY <2>1
    <2> QED
      BY <2>2
  <1> HIDE DEF number
  <1>3. \A t \in Threads :
            /\ \A c \in Open(t) : number[t][c] \in 1..Cardinality(Open(t))
            /\ \A b, c \in Open(t) : number[t][b] = number[t][c] => b = c
    BY <1>2 DEF Numbers, Bijection, Injection, IsInjective
  <1>4. ASSUME NEW c \in Pool
        PROVE  number[owner[c]][c] \in 1..(Depth[owner[c]] - 1)
    <2>1. pc[owner[c]] = "try"
      BY <1>1 DEF IInv, Holding
    <2>2. Cardinality(Open(owner[c])) < Depth[owner[c]]
      BY <1>1, <2>1 DEF Asking
    <2>3. Cardinality(Open(owner[c])) \in Nat /\ Depth[owner[c]] \in Nat
      BY <1>1, OpenIsNumbered, PoolAssumption
    <2>4. number[owner[c]][c] \in 1..Cardinality(Open(owner[c]))
      BY <1>1, <1>3
    <2> QED
      BY <2>2, <2>3, <2>4
  <1>5. place \in [Pool -> Nested]
    BY <1>1, <1>4 DEF Nested
  <1>6. \A b, c \in Pool : place[b] = place[c] => b = c
    BY <1>1, <1>3
  <1>7. place \in Injection(Pool, Nested)
    BY <1>5, <1>6 DEF Injection, IsInjective
  <1>8. Cardinality(Pool) <= Cardinality(Nested)
    BY <1>7, FS_Injection
  <1>9. Cardinality(Pool) = PoolSize
    BY FS_Interval, PoolAssumption DEF Pool
  <1> QED
    BY <1>8, <1>9

\* In a pool that is larger than what its threads hold while they ask for another
\* connection, they do not wait for each other in a circle.
THEOREM NoCircleOfThreads == Spec => []NoCircle
  <1>1. Init => Asking
    BY DEF Init, Asking
  <1>2. IInv /\ Asking => NoCircle
    <2> SUFFICES ASSUME IInv, Asking, PoolSuffices,
                        \A c \in Pool : owner[c] # Nobody,
                        \A t \in Threads : pc[t] \in {"idle", "try"}
                 PROVE  FALSE
      BY DEF NoCircle
    <2>1. PoolSize <= Cardinality(Nested) /\ Cardinality(Nested) < PoolSize
      BY CircleFillsPool DEF PoolSuffices
    <2>2. Cardinality(Nested) \in Nat /\ PoolSize \in Nat
      BY FS_CardinalityType, PoolAssumption DEF PoolSuffices
    <2> QED
      BY <2>1, <2>2
  <1> QED
    BY <1>1, <1>2, NextAsking, Invariance, PTL DEF Spec

\* Every connection comes back: a thread that is done holds none, and the others go on.
THEOREM ConnectionsComeBack == Spec => []NoneHeldInVain
  BY AllReturned, NoCircleOfThreads, PTL DEF NoneHeldInVain

-----------------------------------------------------------------------------
\* The task manager.

\* A task that a worker has to do with.
Has(w, t) == list[w][t] > 0 \/ copy[w][t] > 0 \/ now[w] = t

\* Nobody knows a task before it is pushed.
NewIsNowhere ==
    \A t \in Tasks : phase[t] = "new" =>
        /\ t \notin tasks \cup raced \cup critical
        /\ \A w \in Workers : ~Has(w, t)

\* What a thread has in its hands, by where it is.
ThreadsRest ==
    \A w \in Workers :
        /\ thread[w] \in {"loop", "gone", "none"} => copy[w] = Nothing
        /\ thread[w] \in {"run", "pop"} <=> now[w] # NoTask
        /\ thread[w] = "pop" => now[w] \in Zones

\* A worker between its PopAll and its refill has no thread, and on its list
\* only what was pushed since.
EmptiedRest ==
    \A w \in Workers : Emptied(w) =>
        /\ thread[w] = "none"
        /\ \A t \in Tasks : list[w][t] > 0 => t \in raced /\ list[w][t] = 1

\* Which workers may have to do with a task.
Places ==
    \A w \in Workers, t \in Tasks : Has(w, t) =>
        \/ t \in Zones /\ w \in InclusiveWorkers
        \/ t \in Services \ critical /\ w \in ExclusiveWorkers
        \/ t \in critical /\ w = t

\* A worker of its own has one task, once, and otherwise only what was popped.
Private ==
    \A w \in ExclusiveWorkers \cup Services :
        /\ \A t \in Tasks : list[w][t] <= 1
        /\ \A t, u \in Tasks : list[w][t] > 0 /\ list[w][u] > 0 => t = u
        /\ \A t \in Tasks : Has(w, t) /\ list[w][t] = 0 => phase[t] = "popped"

\* A task that did not race with Optimize is with one worker.
OnOneWorker ==
    \A t \in Tasks \ raced : \A v, w \in Workers : Has(v, t) /\ Has(w, t) => v = w

\* What is on a worker is known to the manager, and there once.
Kept ==
    \A z \in Zones \ raced, w \in InclusiveWorkers :
        list[w][z] > 0 => z \in tasks /\ list[w][z] = 1

\* What the manager knows is on a worker, or about to be.
NoneDropped ==
    \A z \in tasks :
        \/ \E w \in InclusiveWorkers : list[w][z] > 0
        \/ \E w \in InclusiveWorkers : Emptied(w)

\* Only zone workers are cancelled and not woken.
ServicesStop == \A t \in Services : phase[t] \notin {"cancelled", "dropped"}

\* The inductive invariant.
TMIInv ==
    /\ TMTypeOK /\ NewIsNowhere /\ ThreadsRest /\ EmptiedRest /\ Places /\ Private
    /\ OnOneWorker /\ Kept /\ NoneDropped /\ ServicesStop

-----------------------------------------------------------------------------

\* The kinds of workers and of tasks.
LEMMA Kinds ==
    /\ InclusiveWorkers \subseteq Workers /\ ExclusiveWorkers \subseteq Workers
    /\ Services \subseteq Workers
    /\ InclusiveWorkers \cap ExclusiveWorkers = {}
    /\ InclusiveWorkers \cap Services = {} /\ ExclusiveWorkers \cap Services = {}
    /\ \A w \in Workers : w \notin InclusiveWorkers => w \in ExclusiveWorkers \cup Services
    /\ Zones \subseteq Tasks /\ Services \subseteq Tasks /\ Zones \cap Services = {}
    /\ \A t \in Tasks : t \in Zones \/ t \in Services
    /\ NoTask \notin Tasks
    /\ Len(Inclusive) \in Nat \ {0}
    /\ \A i \in 1..Len(Inclusive) : Inclusive[i] \in InclusiveWorkers
    /\ \A i \in 1..Len(Exclusive) : Exclusive[i] \in ExclusiveWorkers
  BY WorkersAssumption, TasksAssumption DEF Services, Workers

\* Only inclusive workers are emptied.
LEMMA EmptiedIsInclusive ==
    ASSUME TMTypeOK, NEW w, Emptied(w)
    PROVE  w \in InclusiveWorkers /\ w \in Workers
  BY Kinds DEF Emptied, TMTypeOK

LEMMA TMInitIInv == TMInit => TMIInv
  <1> SUFFICES ASSUME TMInit PROVE TMIInv
    OBVIOUS
  <1> USE Kinds DEF TMInit
  <1>1. TMTypeOK
    BY DEF TMTypeOK, Nothing
  <1>2. \A w \in Workers, t \in Tasks : list[w][t] = 0 /\ copy[w][t] = 0 /\ now[w] # t
    BY DEF Nothing
  <1>3. \A w \in Workers : ~Emptied(w)
    BY DEF Emptied
  <1>4. NewIsNowhere /\ Places /\ OnOneWorker
    BY <1>2 DEF NewIsNowhere, Places, OnOneWorker, Has
  <1>5. ThreadsRest
    BY DEF ThreadsRest
  <1>6. EmptiedRest /\ NoneDropped
    BY <1>3 DEF EmptiedRest, NoneDropped
  <1>7. Private /\ Kept
    BY <1>2 DEF Private, Kept, Has
  <1>20. ServicesStop
    BY DEF ServicesStop
  <1> QED
    BY <1>1, <1>4, <1>5, <1>6, <1>7, <1>20 DEF TMIInv

-----------------------------------------------------------------------------

\* A step in which no worker gets a task.
LEMMA NobodyGets ==
    ASSUME TMIInv, tasks' \subseteq tasks, UNCHANGED <<critical, raced>>,
           \A t \in Tasks : phase'[t] = "new" => phase[t] = "new",
           \A w \in Workers, t \in Tasks : Has(w, t)' => Has(w, t)
    PROVE  NewIsNowhere' /\ Places' /\ OnOneWorker'
  <1>1. NewIsNowhere'
    BY DEF TMIInv, NewIsNowhere
  <1>2. Places'
    BY DEF TMIInv, Places
  <1>3. OnOneWorker'
    BY DEF TMIInv, OnOneWorker
  <1> QED
    BY <1>1, <1>2, <1>3

\* A step that moves no task.
LEMMA NothingMoves ==
    ASSUME TMIInv, UNCHANGED <<list, tasks, raced, stage, next>>,
           \A w \in InclusiveWorkers : thread[w] = "none" => thread'[w] = "none"
    PROVE  EmptiedRest' /\ Kept' /\ NoneDropped'
  <1>1. \A w : Emptied(w)' = Emptied(w)
    BY DEF Emptied
  <1>2. EmptiedRest'
    BY <1>1, EmptiedIsInclusive DEF TMIInv, EmptiedRest
  <1>3. Kept'
    BY DEF TMIInv, Kept
  <1>4. NoneDropped'
    BY <1>1 DEF TMIInv, NoneDropped
  <1> QED
    BY <1>2, <1>3, <1>4

\* A worker of its own whose list stays as it is, and its popped tasks popped.
LEMMA NothingPrivateMoves ==
    ASSUME TMIInv,
           \A w \in ExclusiveWorkers \cup Services : list'[w] = list[w],
           \A t \in Services : phase[t] = "popped" => phase'[t] = "popped",
           \A w \in Workers, t \in Tasks : Has(w, t)' => Has(w, t)
    PROVE  Private'
  <1> SUFFICES ASSUME NEW w \in ExclusiveWorkers \cup Services, NEW t \in Tasks,
                      Has(w, t)', list'[w][t] = 0
               PROVE  phase'[t] = "popped"
    BY DEF TMIInv, Private
  <1>1. Has(w, t) /\ w \in Workers
    BY Kinds
  <1>2. t \in Services
    BY <1>1, Kinds DEF TMIInv, TMTypeOK, Places
  <1> QED
    BY <1>1, <1>2 DEF TMIInv, Private

LEMMA DeactivateIInv ==
    ASSUME TMIInv, Deactivate
    PROVE  TMIInv'
  <1> USE Kinds DEF Deactivate, mgrVars, workVars, optVars
  <1>1. TMTypeOK'
    BY DEF TMIInv, TMTypeOK
  <1>2. \A t \in Tasks : phase[t] # "new"
    OBVIOUS
  <1>3. \A w, t : Has(w, t)' = Has(w, t)
    BY DEF Has
  <1>4. NewIsNowhere' /\ Places' /\ OnOneWorker'
    BY <1>2, <1>3, NobodyGets
  <1>5. EmptiedRest' /\ Kept' /\ NoneDropped'
    BY NothingMoves
  <1>6. Private'
    BY <1>3, NothingPrivateMoves
  <1>7. ThreadsRest'
    BY DEF TMIInv, ThreadsRest
  <1>20. ServicesStop'
    BY DEF TMIInv, TMTypeOK, ServicesStop
  <1> QED
    BY <1>1, <1>4, <1>5, <1>6, <1>7, <1>20 DEF TMIInv

LEMMA DestroyZonesIInv ==
    ASSUME TMIInv, Destroy
    PROVE  TMIInv'
  <1> USE Kinds DEF Destroy, mgrVars, workVars, optVars
  <1>1. TMTypeOK'
    BY DEF TMIInv, TMTypeOK
  <1>2. \A t \in Tasks : phase[t] # "new"
    OBVIOUS
  <1>3. \A w, t : Has(w, t)' = Has(w, t)
    BY DEF Has
  <1>4. NewIsNowhere' /\ Places' /\ OnOneWorker'
    BY <1>2, <1>3, NobodyGets
  <1>5. EmptiedRest' /\ Kept' /\ NoneDropped'
    BY NothingMoves
  <1>6. Private'
    BY <1>3, NothingPrivateMoves
  <1>7. ThreadsRest'
    BY DEF TMIInv, ThreadsRest
  <1>20. ServicesStop'
    BY DEF TMIInv, TMTypeOK, ServicesStop
  <1> QED
    BY <1>1, <1>4, <1>5, <1>6, <1>7, <1>20 DEF TMIInv

LEMMA StopServiceIInv ==
    ASSUME TMIInv, NEW t \in Tasks, StopService(t)
    PROVE  TMIInv'
  <1> USE Kinds DEF StopService, mgrVars, workVars, optVars
  <1>1. TMTypeOK'
    BY DEF TMIInv, TMTypeOK
  <1>2. phase[t] = "pushed" /\ \A u \in Tasks : phase[u] # "new"
    BY DEF PopTurn
  <1>3. \A w, u : Has(w, u)' = Has(w, u)
    BY DEF Has
  <1>4. NewIsNowhere' /\ Places' /\ OnOneWorker'
    BY <1>2, <1>3, NobodyGets DEF TMIInv, TMTypeOK
  <1>5. EmptiedRest' /\ Kept' /\ NoneDropped'
    BY NothingMoves
  <1>6. Private'
    BY <1>2, <1>3, NothingPrivateMoves DEF TMIInv, TMTypeOK
  <1>7. ThreadsRest'
    BY DEF TMIInv, ThreadsRest
  <1>20. ServicesStop'
    BY DEF TMIInv, TMTypeOK, ServicesStop
  <1> QED
    BY <1>1, <1>4, <1>5, <1>6, <1>7, <1>20 DEF TMIInv

LEMMA PopCriticalIInv ==
    ASSUME TMIInv, NEW t \in Tasks, PopCritical(t)
    PROVE  TMIInv'
  <1> USE Kinds DEF PopCritical, mgrVars, workVars, optVars
  <1>1. TMTypeOK'
    BY DEF TMIInv, TMTypeOK
  <1>2. \A w, u : Has(w, u)' = Has(w, u)
    BY DEF Has
  <1>3. NewIsNowhere' /\ Places' /\ OnOneWorker'
    BY <1>2, NobodyGets DEF TMIInv, TMTypeOK
  <1>4. EmptiedRest' /\ Kept' /\ NoneDropped'
    BY NothingMoves
  <1>5. Private'
    BY <1>2, NothingPrivateMoves DEF TMIInv, TMTypeOK
  <1>6. ThreadsRest'
    BY DEF TMIInv, ThreadsRest
  <1>20. ServicesStop'
    BY DEF TMIInv, TMTypeOK, ServicesStop
  <1> QED
    BY <1>1, <1>3, <1>4, <1>5, <1>6, <1>20 DEF TMIInv

LEMMA JoinedIInv ==
    ASSUME TMIInv, NEW t \in Tasks, Joined(t)
    PROVE  TMIInv'
  <1> USE Kinds DEF Joined, optVars
  <1>1. t \in Services /\ t \in Workers /\ t \notin InclusiveWorkers
    BY DEF TMIInv, TMTypeOK
  <1>2. /\ \A w \in Workers : w # t => list'[w] = list[w]
        /\ \A u \in Tasks : list'[t][u] = 0
    BY <1>1 DEF TMIInv, TMTypeOK, Nothing
  <1>3. TMTypeOK'
    BY <1>1 DEF TMIInv, TMTypeOK, Nothing
  <1>4. \A w \in Workers, u \in Tasks : Has(w, u)' => Has(w, u)
    BY <1>2 DEF Has, TMIInv, TMTypeOK
  <1>5. NewIsNowhere' /\ Places' /\ OnOneWorker'
    BY <1>4, NobodyGets DEF TMIInv, TMTypeOK
  <1>6. \A w : Emptied(w)' = Emptied(w)
    BY DEF Emptied
  <1>7. EmptiedRest'
    BY <1>1, <1>2, <1>6, EmptiedIsInclusive DEF TMIInv, TMTypeOK, EmptiedRest
  <1>8. Kept' /\ NoneDropped'
    BY <1>1, <1>2, <1>6 DEF TMIInv, Kept, NoneDropped
  <1>9. Private'
    <2> SUFFICES ASSUME NEW w \in ExclusiveWorkers \cup Services, NEW u \in Tasks
                 PROVE  /\ list'[w][u] <= 1
                        /\ \A v \in Tasks : list'[w][u] > 0 /\ list'[w][v] > 0 => u = v
                        /\ Has(w, u)' /\ list'[w][u] = 0 => phase'[u] = "popped"
      BY DEF Private
    <2>1. \A v \in Tasks : phase[v] = "popped" => phase'[v] = "popped"
      BY DEF TMIInv, TMTypeOK
    <2>2. CASE w # t
      BY <1>2, <1>4, <2>1, <2>2 DEF TMIInv, Private
    <2>3. CASE w = t
      <3>1. Has(t, u) => u = t
        BY <1>1 DEF TMIInv, TMTypeOK, Places
      <3> QED
        BY <1>2, <1>4, <2>3, <3>1 DEF TMIInv, TMTypeOK
    <2> QED
      BY <2>2, <2>3
  <1>10. ThreadsRest'
    BY <1>1 DEF TMIInv, TMTypeOK, ThreadsRest
  <1>20. ServicesStop'
    BY DEF TMIInv, TMTypeOK, ServicesStop
  <1> QED
    BY <1>3, <1>5, <1>7, <1>8, <1>9, <1>10, <1>20 DEF TMIInv

-----------------------------------------------------------------------------

\* What the manager's PopTask leaves on the lists.
LEMMA PopTaskEffect ==
    ASSUME TMIInv, NEW t \in Tasks, PopTask(t)
    PROVE  /\ tasks' = tasks \ {t}
           /\ list' \in [Workers -> [Tasks -> 0..2]]
           /\ \A w \in Workers, u \in Tasks :
                 /\ u # t => list'[w][u] = list[w][u]
                 /\ list'[w][u] <= list[w][u]
           /\ t \in Zones => \A w \in ExclusiveWorkers \cup Services : list'[w] = list[w]
           /\ t \in Services \ critical => \A w \in Workers : list'[w][t] = 0
           /\ t \in Zones \ raced => \A w \in InclusiveWorkers : list'[w][t] = 0
  <1> USE Kinds
  <1>1. list \in [Workers -> [Tasks -> 0..2]] /\ tasks \subseteq Zones
    BY DEF TMIInv, TMTypeOK
  <1>2. ASSUME NEW ws, NEW w \in Workers
        PROVE  /\ Unlist(t, ws)[w] \in [Tasks -> 0..2]
               /\ \A u \in Tasks :
                     Unlist(t, ws)[w][u] = IF u = t /\ w \in ws /\ list[w][t] > 0
                                           THEN list[w][t] - 1 ELSE list[w][u]
               /\ w \notin ws => Unlist(t, ws)[w] = list[w]
    BY <1>1 DEF Unlist
  <1>3. \A ws : Unlist(t, ws) \in [Workers -> [Tasks -> 0..2]]
    BY <1>2 DEF Unlist
  <1>4. PICK ws \in {InclusiveWorkers, ExclusiveWorkers, {}} :
          /\ \/ list' = Unlist(t, ws)
             \/ list' = list /\ t \notin tasks /\ t \notin Services
          /\ t \in Zones => ws = InclusiveWorkers
          /\ t \in Services => ws = ExclusiveWorkers
    BY <1>1 DEF PopTask
  <1>5. tasks' = tasks \ {t}
    BY DEF PopTask
  <1>6. list' \in [Workers -> [Tasks -> 0..2]]
    BY <1>1, <1>3, <1>4
  <1>7. \A w \in Workers, u \in Tasks :
          (u # t => list'[w][u] = list[w][u]) /\ list'[w][u] <= list[w][u]
    <2> SUFFICES ASSUME NEW w \in Workers, NEW u \in Tasks
                 PROVE  (u # t => list'[w][u] = list[w][u]) /\ list'[w][u] <= list[w][u]
      OBVIOUS
    <2>1. list[w][u] \in 0..2 /\ list[w][t] \in 0..2
      BY <1>1
    <2> QED
      BY <1>2, <1>4, <2>1
  <1>8. t \in Zones => \A w \in ExclusiveWorkers \cup Services : list'[w] = list[w]
    BY <1>2, <1>4
  <1>9. t \in Services \ critical => \A w \in Workers : list'[w][t] = 0
    <2> SUFFICES ASSUME t \in Services \ critical, NEW w \in Workers
                 PROVE  list'[w][t] = 0
      OBVIOUS
    <2>1. list[w][t] \in 0..2 /\ list'[w][t] \in 0..2
      BY <1>1, <1>6
    <2>2. CASE w \in ExclusiveWorkers
      <3>1. list[w][t] <= 1
        BY <2>2 DEF TMIInv, Private
      <3> QED
        BY <1>2, <1>4, <2>1, <2>2, <3>1
    <2>3. CASE w \notin ExclusiveWorkers
      <3>1. list[w][t] = 0
        BY <2>1, <2>3 DEF TMIInv, TMTypeOK, Places, Has
      <3> QED
        BY <1>7, <2>1, <3>1
    <2> QED
      BY <2>2, <2>3
  <1>10. t \in Zones \ raced => \A w \in InclusiveWorkers : list'[w][t] = 0
    <2> SUFFICES ASSUME t \in Zones \ raced, NEW w \in InclusiveWorkers
                 PROVE  list'[w][t] = 0
      OBVIOUS
    <2>1. list[w][t] \in 0..2
      BY <1>1
    <2>2. list[w][t] > 0 => t \in tasks /\ list[w][t] = 1
      BY DEF TMIInv, Kept
    <2> QED
      BY <1>2, <1>4, <2>1, <2>2
  <1> QED
    BY <1>5, <1>6, <1>7, <1>8, <1>9, <1>10

\* What follows of the lists when Optimize and the threads of the inclusive
\* workers do not move.
LEMMA PopTaskLists ==
    ASSUME TMIInv, NEW t \in Tasks, PopTask(t), UNCHANGED <<raced, stage, next>>,
           \A w \in InclusiveWorkers : thread[w] = "none" => thread'[w] = "none"
    PROVE  EmptiedRest' /\ Kept' /\ NoneDropped'
  <1> USE Kinds
  <1>1. list \in [Workers -> [Tasks -> 0..2]] /\ tasks \subseteq Zones
    BY DEF TMIInv, TMTypeOK
  <1>2. \A w : Emptied(w)' = Emptied(w)
    BY DEF Emptied
  <1>3. \A w \in Workers, u \in Tasks :
          /\ list[w][u] \in 0..2 /\ list'[w][u] \in 0..2
          /\ list'[w][u] <= list[w][u] /\ (u # t => list'[w][u] = list[w][u])
    BY <1>1, PopTaskEffect
  <1>4. EmptiedRest'
    <2> SUFFICES ASSUME NEW w \in Workers, Emptied(w)
                 PROVE  /\ thread'[w] = "none"
                        /\ \A u \in Tasks : list'[w][u] > 0 => u \in raced /\ list'[w][u] = 1
      BY <1>2 DEF EmptiedRest
    <2>1. thread'[w] = "none"
      BY EmptiedIsInclusive DEF TMIInv, EmptiedRest
    <2>2. \A u \in Tasks : list'[w][u] > 0 => u \in raced /\ list'[w][u] = 1
      BY <1>3 DEF TMIInv, EmptiedRest
    <2> QED
      BY <2>1, <2>2
  <1>5. Kept'
    BY <1>3, PopTaskEffect DEF TMIInv, Kept
  <1>6. NoneDropped'
    <2> SUFFICES ASSUME NEW z \in tasks'
                 PROVE  \/ \E w \in InclusiveWorkers : list'[w][z] > 0
                        \/ \E w \in InclusiveWorkers : Emptied(w)
      BY <1>2 DEF NoneDropped
    <2>1. z \in tasks /\ z # t /\ z \in Tasks
      BY <1>1, PopTaskEffect
    <2> QED
      BY <1>3, <2>1 DEF TMIInv, NoneDropped
  <1> QED
    BY <1>4, <1>5, <1>6

LEMMA PopByOwnerIInv ==
    ASSUME TMIInv, NEW t \in Tasks, PopByOwner(t)
    PROVE  TMIInv'
  <1> USE Kinds DEF PopByOwner, workVars, optVars
  <1>1. TMTypeOK'
    BY PopTaskEffect DEF TMIInv, TMTypeOK
  <1>2. \A w \in Workers, u \in Tasks : list[w][u] \in 0..2 /\ list'[w][u] \in 0..2
    BY <1>1 DEF TMIInv, TMTypeOK
  <1>3. \A w \in Workers, u \in Tasks : Has(w, u)' => Has(w, u)
    BY <1>2, PopTaskEffect DEF Has
  <1>4. NewIsNowhere' /\ Places' /\ OnOneWorker'
    BY <1>3, NobodyGets, PopTaskEffect DEF TMIInv, TMTypeOK
  <1>5. EmptiedRest' /\ Kept' /\ NoneDropped'
    BY PopTaskLists
  <1>6. /\ \A u \in Tasks \ {t} : phase'[u] = phase[u]
        /\ t \in Services => phase'[t] = "popped"
    <2>1. phase \in [Tasks -> {"new", "pushed", "stopped", "popping", "popped",
                               "cancelled", "dropped"}]
      BY DEF TMIInv, TMTypeOK
    <2>2. t \in Services => phase[t] = "stopped"
      BY DEF TMIInv, ServicesStop
    <2> QED
      BY <2>1, <2>2
  <1>7. Private'
    <2>1. CASE t \in Zones
      BY <1>3, <1>6, <2>1, NothingPrivateMoves, PopTaskEffect
    <2>2. CASE t \in Services
      <3> SUFFICES ASSUME NEW w \in ExclusiveWorkers \cup Services, NEW u \in Tasks
                   PROVE  /\ list'[w][u] <= 1
                          /\ \A v \in Tasks : list'[w][u] > 0 /\ list'[w][v] > 0 => u = v
                          /\ Has(w, u)' /\ list'[w][u] = 0 => phase'[u] = "popped"
        BY DEF Private
      <3>1. w \in Workers /\ list[w][u] <= 1
        BY DEF TMIInv, Private
      <3>2. list'[w][u] <= 1
        BY <1>2, <3>1, PopTaskEffect
      <3>3. \A v \in Tasks : list'[w][u] > 0 /\ list'[w][v] > 0 => u = v
        BY <1>2, <3>1, PopTaskEffect DEF TMIInv, Private
      <3>4. Has(w, u)' /\ list'[w][u] = 0 => phase'[u] = "popped"
        BY <1>3, <1>6, <3>1, PopTaskEffect DEF TMIInv, Private
      <3> QED
        BY <3>2, <3>3, <3>4
    <2> QED
      BY <2>1, <2>2
  <1>8. ThreadsRest'
    BY DEF TMIInv, ThreadsRest
  <1>20. ServicesStop'
    BY <1>6 DEF TMIInv, TMTypeOK, ServicesStop
  <1> QED
    BY <1>1, <1>4, <1>5, <1>7, <1>8, <1>20 DEF TMIInv

-----------------------------------------------------------------------------

LEMMA CopyIInv ==
    ASSUME TMIInv, NEW w \in Workers, Copy(w)
    PROVE  TMIInv'
  <1> USE Kinds DEF Copy, mgrVars, optVars
  <1>1. TMTypeOK'
    <2>1. thread' \in [Workers -> {"loop", "tasks", "run", "pop", "gone", "none"}]
      <3>1. PICK s \in {"tasks", "gone"} : thread' = [thread EXCEPT ![w] = s]
        OBVIOUS
      <3> HIDE DEF Copy
      <3> QED
        BY <3>1 DEF TMIInv, TMTypeOK
    <2>2. copy' \in [Workers -> [Tasks -> 0..2]]
      BY DEF TMIInv, TMTypeOK
    <2> QED
      BY <2>1, <2>2 DEF TMIInv, TMTypeOK
  <1>2. \A v \in Workers : copy'[v] = copy[v] \/ copy'[v] = list[v]
    BY DEF TMIInv, TMTypeOK
  <1>3. \A v \in Workers, u \in Tasks : Has(v, u)' => Has(v, u)
    BY <1>2 DEF Has
  <1>4. NewIsNowhere' /\ Places' /\ OnOneWorker'
    BY <1>3, NobodyGets
  <1>5. \A v \in Workers : v # w => thread'[v] = thread[v] /\ copy'[v] = copy[v]
    <2> SUFFICES ASSUME NEW v \in Workers, v # w
                 PROVE  thread'[v] = thread[v] /\ copy'[v] = copy[v]
      OBVIOUS
    <2>1. CASE running[w]
      BY <2>1 DEF TMIInv, TMTypeOK
    <2>2. CASE ~running[w]
      BY <2>2 DEF TMIInv, TMTypeOK
    <2> QED
      BY <2>1, <2>2
  <1>6. EmptiedRest' /\ Kept' /\ NoneDropped'
    BY <1>5, NothingMoves
  <1>7. Private'
    BY <1>3, NothingPrivateMoves
  <1>8. ThreadsRest'
    <2>1. thread[w] = "loop" /\ copy[w] = Nothing /\ now[w] = NoTask
      BY DEF TMIInv, ThreadsRest
    <2>2. \/ thread'[w] = "tasks"
          \/ thread'[w] = "gone" /\ copy'[w] = Nothing
      BY <2>1 DEF TMIInv, TMTypeOK
    <2> QED
      BY <1>5, <2>1, <2>2 DEF TMIInv, ThreadsRest
  <1>20. ServicesStop'
    BY DEF TMIInv, TMTypeOK, ServicesStop
  <1> QED
    BY <1>1, <1>4, <1>6, <1>7, <1>8, <1>20 DEF TMIInv

LEMMA ExecuteTaskIInv ==
    ASSUME TMIInv, NEW w \in Workers, Execute(w)
    PROVE  TMIInv'
  <1> USE Kinds DEF Execute, mgrVars, optVars
  <1>1. PICK t \in Tasks :
          /\ copy[w][t] > 0
          /\ copy' = [copy EXCEPT ![w][t] = @ - 1]
          /\ \/ now' = [now EXCEPT ![w] = t] /\ thread' = [thread EXCEPT ![w] = "run"]
             \/ UNCHANGED <<now, thread>>
    OBVIOUS
  <1>2. \A v \in Workers, u \in Tasks :
          /\ copy[v][u] \in 0..2
          /\ copy'[v][u] = IF v = w /\ u = t THEN copy[v][u] - 1 ELSE copy[v][u]
    BY <1>1 DEF TMIInv, TMTypeOK
  <1>3. TMTypeOK'
    <2>1. copy' \in [Workers -> [Tasks -> 0..2]]
      BY <1>1, <1>2 DEF TMIInv, TMTypeOK
    <2>2. /\ now' \in [Workers -> Tasks \cup {NoTask}]
          /\ thread' \in [Workers -> {"loop", "tasks", "run", "pop", "gone", "none"}]
      <3>1. CASE now' = [now EXCEPT ![w] = t] /\ thread' = [thread EXCEPT ![w] = "run"]
        BY <3>1 DEF TMIInv, TMTypeOK
      <3>2. CASE UNCHANGED <<now, thread>>
        BY <3>2 DEF TMIInv, TMTypeOK
      <3> QED
        BY <1>1, <3>1, <3>2
    <2> QED
      BY <2>1, <2>2 DEF TMIInv, TMTypeOK
  <1>4. \A v \in Workers, u \in Tasks : Has(v, u)' => Has(v, u)
    <2> SUFFICES ASSUME NEW v \in Workers, NEW u \in Tasks, Has(v, u)'
                 PROVE  Has(v, u)
      OBVIOUS
    <2>1. now'[v] = now[v] \/ (v = w /\ now'[v] = t)
      <3>1. CASE now' = [now EXCEPT ![w] = t]
        BY <3>1 DEF TMIInv, TMTypeOK
      <3>2. CASE now' = now
        BY <3>2
      <3> QED
        BY <1>1, <3>1, <3>2
    <2> QED
      BY <1>1, <1>2, <2>1 DEF Has
  <1>5. NewIsNowhere' /\ Places' /\ OnOneWorker'
    BY <1>4, NobodyGets
  <1>6. \A v \in Workers : v # w => /\ thread'[v] = thread[v] /\ copy'[v] = copy[v]
                                    /\ now'[v] = now[v]
    <2> SUFFICES ASSUME NEW v \in Workers, v # w
                 PROVE  thread'[v] = thread[v] /\ copy'[v] = copy[v] /\ now'[v] = now[v]
      OBVIOUS
    <2>1. copy'[v] = copy[v]
      BY <1>1 DEF TMIInv, TMTypeOK
    <2>2. CASE now' = [now EXCEPT ![w] = t] /\ thread' = [thread EXCEPT ![w] = "run"]
      BY <2>1, <2>2 DEF TMIInv, TMTypeOK
    <2>3. CASE UNCHANGED <<now, thread>>
      BY <2>1, <2>3
    <2> QED
      BY <1>1, <2>2, <2>3
  <1>7. EmptiedRest' /\ Kept' /\ NoneDropped'
    BY <1>6, NothingMoves
  <1>8. Private'
    BY <1>4, NothingPrivateMoves
  <1>9. ThreadsRest'
    <2>1. thread[w] = "tasks" /\ now[w] = NoTask
      BY DEF TMIInv, ThreadsRest
    <2>2. \/ thread'[w] = "tasks" /\ now'[w] = NoTask
          \/ thread'[w] = "run" /\ now'[w] = t
      BY <1>1, <2>1 DEF TMIInv, TMTypeOK
    <2> QED
      BY <1>6, <2>1, <2>2 DEF TMIInv, ThreadsRest
  <1>20. ServicesStop'
    BY DEF TMIInv, TMTypeOK, ServicesStop
  <1> QED
    BY <1>3, <1>5, <1>7, <1>8, <1>9, <1>20 DEF TMIInv

LEMMA ReturnsIInv ==
    ASSUME TMIInv, NEW w \in Workers, Returns(w)
    PROVE  TMIInv'
  <1> USE Kinds DEF Returns, mgrVars, optVars
  <1>1. TMTypeOK'
    <2>1. PICK s \in {"pop", "tasks"} : thread' = [thread EXCEPT ![w] = s]
      OBVIOUS
    <2>2. now' = now \/ now' = [now EXCEPT ![w] = NoTask]
      OBVIOUS
    <2>3. UNCHANGED <<mgrVars, list, copy, running, phase, optVars, raced>>
      OBVIOUS
    <2> HIDE DEF Returns
    <2>4. now' \in [Workers -> Tasks \cup {NoTask}]
      BY <2>2 DEF TMIInv, TMTypeOK
    <2> QED
      BY <2>1, <2>3, <2>4 DEF TMIInv, TMTypeOK
  <1>2. \A v \in Workers : v # w => thread'[v] = thread[v] /\ now'[v] = now[v]
    <2> SUFFICES ASSUME NEW v \in Workers, v # w
                 PROVE  thread'[v] = thread[v] /\ now'[v] = now[v]
      OBVIOUS
    <2>1. CASE now[w] \in Zones
      BY <2>1 DEF TMIInv, TMTypeOK
    <2>2. CASE now[w] \notin Zones
      BY <2>2 DEF TMIInv, TMTypeOK
    <2> QED
      BY <2>1, <2>2
  <1>3. thread[w] = "run" /\ now[w] # NoTask
    BY DEF TMIInv, ThreadsRest
  <1>4. \/ thread'[w] = "pop" /\ now'[w] = now[w] /\ now[w] \in Zones
        \/ thread'[w] = "tasks" /\ now'[w] = NoTask
    BY DEF TMIInv, TMTypeOK
  <1>5. \A v \in Workers, u \in Tasks : Has(v, u)' => Has(v, u)
    BY <1>2, <1>4 DEF Has
  <1>6. NewIsNowhere' /\ Places' /\ OnOneWorker'
    BY <1>5, NobodyGets
  <1>7. EmptiedRest' /\ Kept' /\ NoneDropped'
    BY <1>2, <1>3, NothingMoves
  <1>8. Private'
    BY <1>5, NothingPrivateMoves
  <1>9. ThreadsRest'
    BY <1>2, <1>3, <1>4 DEF TMIInv, ThreadsRest
  <1>20. ServicesStop'
    BY DEF TMIInv, TMTypeOK, ServicesStop
  <1> QED
    BY <1>1, <1>6, <1>7, <1>8, <1>9, <1>20 DEF TMIInv

LEMMA PopByWorkerIInv ==
    ASSUME TMIInv, NEW w \in Workers, PopByWorker(w)
    PROVE  TMIInv'
  <1> USE Kinds DEF PopByWorker, optVars
  <1>1. thread[w] = "pop" /\ now[w] \in Zones /\ now[w] \in Tasks /\ now[w] # NoTask
    BY DEF TMIInv, ThreadsRest
  <1>2. TMTypeOK'
    BY <1>1, PopTaskEffect DEF TMIInv, TMTypeOK
  <1>3. \A v \in Workers : v # w => thread'[v] = thread[v] /\ now'[v] = now[v]
    BY DEF TMIInv, TMTypeOK
  <1>4. thread'[w] = "tasks" /\ now'[w] = NoTask
    BY DEF TMIInv, TMTypeOK
  <1>5. \A v \in Workers, u \in Tasks : list[v][u] \in 0..2 /\ list'[v][u] \in 0..2
    BY <1>2 DEF TMIInv, TMTypeOK
  <1>6. \A v \in Workers, u \in Tasks : Has(v, u)' => Has(v, u)
    BY <1>1, <1>3, <1>4, <1>5, PopTaskEffect DEF Has
  <1>7. NewIsNowhere' /\ Places' /\ OnOneWorker'
    BY <1>1, <1>6, NobodyGets, PopTaskEffect
  <1>8. EmptiedRest' /\ Kept' /\ NoneDropped'
    BY <1>1, <1>3, PopTaskLists
  <1>9. Private'
    BY <1>1, <1>6, NothingPrivateMoves, PopTaskEffect
  <1>10. ThreadsRest'
    BY <1>3, <1>4 DEF TMIInv, ThreadsRest
  <1>20. ServicesStop'
    BY DEF TMIInv, TMTypeOK, ServicesStop
  <1> QED
    BY <1>2, <1>7, <1>8, <1>9, <1>10, <1>20 DEF TMIInv

LEMMA EndOfCycleIInv ==
    ASSUME TMIInv, NEW w \in Workers, EndOfCycle(w)
    PROVE  TMIInv'
  <1> USE Kinds DEF EndOfCycle, mgrVars, optVars
  <1>1. TMTypeOK'
    BY DEF TMIInv, TMTypeOK, Nothing
  <1>2. \A v \in Workers : v # w => thread'[v] = thread[v] /\ copy'[v] = copy[v]
    BY DEF TMIInv, TMTypeOK
  <1>3. copy'[w] = Nothing /\ thread'[w] \in {"loop", "gone"} /\ now[w] = NoTask
    BY DEF TMIInv, TMTypeOK, ThreadsRest
  <1>4. \A v \in Workers, u \in Tasks : Has(v, u)' => Has(v, u)
    BY <1>2, <1>3 DEF Has, Nothing
  <1>5. NewIsNowhere' /\ Places' /\ OnOneWorker'
    BY <1>4, NobodyGets
  <1>6. EmptiedRest' /\ Kept' /\ NoneDropped'
    BY <1>2, NothingMoves
  <1>7. Private'
    BY <1>4, NothingPrivateMoves
  <1>8. ThreadsRest'
    BY <1>2, <1>3 DEF TMIInv, ThreadsRest
  <1>20. ServicesStop'
    BY DEF TMIInv, TMTypeOK, ServicesStop
  <1> QED
    BY <1>1, <1>5, <1>6, <1>7, <1>8, <1>20 DEF TMIInv

-----------------------------------------------------------------------------

LEMMA OptimizeIInv ==
    ASSUME TMIInv, Optimize
    PROVE  TMIInv'
  <1> USE Kinds DEF Optimize, mgrVars, workVars
  <1>1. TMTypeOK'
    BY DEF TMIInv, TMTypeOK
  <1>2. \A w, u : Has(w, u)' = Has(w, u)
    BY DEF Has
  <1>3. NewIsNowhere' /\ Places' /\ OnOneWorker'
    BY <1>2, NobodyGets
  <1>4. \A w : ~Emptied(w) /\ ~Emptied(w)'
    BY DEF Emptied
  <1>5. EmptiedRest' /\ Kept' /\ NoneDropped'
    BY <1>4 DEF TMIInv, EmptiedRest, Kept, NoneDropped
  <1>6. Private'
    BY <1>2, NothingPrivateMoves
  <1>7. ThreadsRest'
    BY DEF TMIInv, ThreadsRest
  <1>20. ServicesStop'
    BY DEF TMIInv, TMTypeOK, ServicesStop
  <1> QED
    BY <1>1, <1>3, <1>5, <1>6, <1>7, <1>20 DEF TMIInv

LEMMA PreSuspendIInv ==
    ASSUME TMIInv, PreSuspend
    PROVE  TMIInv'
  <1> USE Kinds DEF PreSuspend, Advance, mgrVars, workVars
  <1>1. TMTypeOK'
    BY DEF TMIInv, TMTypeOK
  <1>2. \A w, u : Has(w, u)' = Has(w, u)
    BY DEF Has
  <1>3. NewIsNowhere' /\ Places' /\ OnOneWorker'
    BY <1>2, NobodyGets
  <1>4. \A w : ~Emptied(w) /\ ~Emptied(w)'
    BY DEF Emptied
  <1>5. EmptiedRest' /\ Kept' /\ NoneDropped'
    BY <1>4 DEF TMIInv, EmptiedRest, Kept, NoneDropped
  <1>6. Private'
    BY <1>2, NothingPrivateMoves
  <1>7. ThreadsRest'
    BY DEF TMIInv, ThreadsRest
  <1>20. ServicesStop'
    BY DEF TMIInv, TMTypeOK, ServicesStop
  <1> QED
    BY <1>1, <1>3, <1>5, <1>6, <1>7, <1>20 DEF TMIInv

LEMMA TellToStopIInv ==
    ASSUME TMIInv, TellToStop
    PROVE  TMIInv'
  <1> USE Kinds DEF TellToStop, mgrVars, workVars, optVars
  <1>1. TMTypeOK'
    BY DEF TMIInv, TMTypeOK
  <1>2. \A w, u : Has(w, u)' = Has(w, u)
    BY DEF Has
  <1>3. NewIsNowhere' /\ Places' /\ OnOneWorker'
    BY <1>2, NobodyGets
  <1>4. EmptiedRest' /\ Kept' /\ NoneDropped'
    BY NothingMoves
  <1>5. Private'
    BY <1>2, NothingPrivateMoves
  <1>6. ThreadsRest'
    BY DEF TMIInv, ThreadsRest
  <1>20. ServicesStop'
    BY DEF TMIInv, TMTypeOK, ServicesStop
  <1> QED
    BY <1>1, <1>3, <1>4, <1>5, <1>6, <1>20 DEF TMIInv

\* Suspend empties one more worker; the last one ends the stage.
LEMMA SuspendEmpties ==
    ASSUME TMIInv, Suspend
    PROVE  /\ Inclusive[next] \in InclusiveWorkers
           /\ \A w : Emptied(w)' <=> Emptied(w) \/ w = Inclusive[next]
           /\ next' \in 1..Len(Inclusive) /\ stage' \in {"join", "assign"}
  <1> USE Kinds DEF Suspend, Advance, Emptied
  <1>1. next \in 1..Len(Inclusive) /\ stage = "join"
    BY DEF TMIInv, TMTypeOK
  <1>2. \A w \in InclusiveWorkers : \E i \in 1..Len(Inclusive) : Inclusive[i] = w
    BY WorkersAssumption DEF InclusiveWorkers, Range
  <1>3. CASE next < Len(Inclusive)
    BY <1>1, <1>3
  <1>4. CASE next = Len(Inclusive)
    <2>1. stage' = "assign" /\ next' = 1
      BY <1>4
    <2>2. \A w : Emptied(w) \/ w = Inclusive[next] => w \in InclusiveWorkers
      BY <1>1
    <2>3. \A w \in InclusiveWorkers : Emptied(w) \/ w = Inclusive[next]
      <3> SUFFICES ASSUME NEW w \in InclusiveWorkers
                   PROVE  Emptied(w) \/ w = Inclusive[next]
        OBVIOUS
      <3>1. PICK i \in 1..Len(Inclusive) : Inclusive[i] = w
        BY <1>2
      <3>2. CASE i = next
        BY <3>1, <3>2
      <3>3. CASE i # next
        BY <1>1, <1>4, <3>1, <3>3
      <3> QED
        BY <3>2, <3>3
    <2> QED
      BY <1>1, <2>1, <2>2, <2>3
  <1> QED
    BY <1>1, <1>3, <1>4

LEMMA SuspendIInv ==
    ASSUME TMIInv, Suspend
    PROVE  TMIInv'
  <1> DEFINE w == Inclusive[next]
  <1>1. w \in InclusiveWorkers /\ w \in Workers
    BY SuspendEmpties, Kinds
  <1>2. /\ thread[w] = "gone" /\ thread' = [thread EXCEPT ![w] = "none"]
        /\ list' = [list EXCEPT ![w] = Nothing]
        /\ UNCHANGED <<tasks, critical, joining, copy, now, running, phase, raced>>
    BY DEF Suspend, mgrVars
  <1>3. /\ \A v : Emptied(v)' <=> Emptied(v) \/ v = w
        /\ next' \in 1..Len(Inclusive) /\ stage' \in {"join", "assign"}
    BY SuspendEmpties
  <1> HIDE DEF w
  <1> USE Kinds
  <1>4. /\ \A v \in Workers : v # w => list'[v] = list[v] /\ thread'[v] = thread[v]
        /\ thread'[w] = "none"
        /\ \A t \in Tasks : list'[w][t] = 0
    BY <1>1, <1>2 DEF TMIInv, TMTypeOK, Nothing
  <1>5. TMTypeOK'
    BY <1>1, <1>2, <1>3 DEF TMIInv, TMTypeOK, Nothing
  <1>6. \A v \in Workers, t \in Tasks : Has(v, t)' => Has(v, t)
    BY <1>2, <1>4 DEF Has
  <1>7. NewIsNowhere' /\ Places' /\ OnOneWorker'
    BY <1>2, <1>6, NobodyGets
  <1>8. Private'
    BY <1>1, <1>2, <1>4, <1>6, NothingPrivateMoves
  <1>9. EmptiedRest'
    BY <1>2, <1>3, <1>4 DEF TMIInv, EmptiedRest
  <1>10. Kept' /\ NoneDropped'
    BY <1>1, <1>2, <1>3, <1>4 DEF TMIInv, TMTypeOK, Kept, NoneDropped
  <1>11. ThreadsRest'
    BY <1>1, <1>2, <1>4 DEF TMIInv, ThreadsRest
  <1>20. ServicesStop'
    BY <1>2 DEF TMIInv, TMTypeOK, ServicesStop
  <1> QED
    BY <1>5, <1>7, <1>8, <1>9, <1>10, <1>11, <1>20 DEF TMIInv

LEMMA AssignIInv ==
    ASSUME TMIInv, Assign
    PROVE  TMIInv'
  <1> USE Kinds
  <1>1. PICK f \in [tasks -> 1..Len(Inclusive)] :
          list' = [w \in Workers |-> [t \in Tasks |->
                     IF t \in tasks /\ w = Inclusive[f[t]] THEN list[w][t] + 1 ELSE list[w][t]]]
    BY DEF Assign, RoundRobin
  <1>2. /\ stage = "assign" /\ stage' = "sleep"
        /\ running' = [w \in Workers |-> running[w] \/ w \in InclusiveWorkers]
        /\ thread' = [w \in Workers |-> IF w \in InclusiveWorkers THEN "loop" ELSE thread[w]]
        /\ UNCHANGED <<tasks, critical, joining, copy, now, phase, next, raced>>
    BY DEF Assign, mgrVars
  <1>3. /\ list \in [Workers -> [Tasks -> 0..2]] /\ copy \in [Workers -> [Tasks -> 0..2]]
        /\ tasks \subseteq Zones
    BY DEF TMIInv, TMTypeOK
  <1>4. \A w \in InclusiveWorkers :
          /\ Emptied(w) /\ thread[w] = "none" /\ copy[w] = Nothing /\ now[w] = NoTask
          /\ \A t \in Tasks : list[w][t] > 0 => t \in raced /\ list[w][t] = 1
    BY <1>2 DEF Emptied, TMIInv, EmptiedRest, ThreadsRest
  <1>5. \A w \in Workers, t \in Tasks :
          /\ list[w][t] \in 0..2
          /\ list'[w][t] = IF t \in tasks /\ w = Inclusive[f[t]]
                           THEN list[w][t] + 1 ELSE list[w][t]
    BY <1>1, <1>3
  <1>6. \A t \in tasks : Inclusive[f[t]] \in InclusiveWorkers
    BY <1>1
  <1>7. \A w \in ExclusiveWorkers \cup Services : w \in Workers /\ list'[w] = list[w]
    BY <1>1, <1>3, <1>6
  <1>8. TMTypeOK'
    <2>1. \A w \in Workers, t \in Tasks : list'[w][t] \in 0..2
      <3> SUFFICES ASSUME NEW w \in Workers, NEW t \in Tasks
                   PROVE  list'[w][t] \in 0..2
        OBVIOUS
      <3>1. CASE w \in InclusiveWorkers
        <4>1. list[w][t] \in 0..1
          BY <1>4, <1>5, <3>1
        <4> QED
          BY <1>5, <4>1
      <3>2. CASE w \notin InclusiveWorkers
        BY <1>5, <1>6, <3>2
      <3> QED
        BY <3>1, <3>2
    <2>2. list' \in [Workers -> [Tasks -> 0..2]]
      BY <1>1, <2>1
    <2>3. /\ running' \in [Workers -> BOOLEAN]
          /\ thread' \in [Workers -> {"loop", "tasks", "run", "pop", "gone", "none"}]
      BY <1>2 DEF TMIInv, TMTypeOK
    <2> QED
      BY <1>2, <2>2, <2>3 DEF TMIInv, TMTypeOK
  \* Who has a task now had it, or got it from the round.
  <1>9. \A w \in Workers, t \in Tasks :
          Has(w, t)' => Has(w, t) \/ (t \in tasks /\ w = Inclusive[f[t]])
    BY <1>2, <1>5 DEF Has
  <1>10. NewIsNowhere'
    BY <1>2, <1>9 DEF TMIInv, NewIsNowhere
  <1>11. Places'
    BY <1>2, <1>3, <1>6, <1>9 DEF TMIInv, Places
  <1>12. OnOneWorker'
    <2> SUFFICES ASSUME NEW t \in Tasks \ raced, NEW v \in Workers, NEW w \in Workers,
                        Has(v, t)', Has(w, t)'
                 PROVE  v = w
      BY <1>2 DEF OnOneWorker
    <2>1. \A u \in InclusiveWorkers : ~Has(u, t)
      BY <1>4, <1>5 DEF Has, Nothing
    <2>2. t \in tasks => \A u \in Workers : ~Has(u, t)
      BY <1>3, <2>1 DEF TMIInv, TMTypeOK, Places
    <2> QED
      BY <1>9, <2>2 DEF TMIInv, OnOneWorker
  <1>13. Private'
    <2>1. \A w \in ExclusiveWorkers \cup Services, t \in Tasks : Has(w, t)' => Has(w, t)
      BY <1>2, <1>7 DEF Has
    <2> QED
      BY <1>2, <1>7, <2>1 DEF TMIInv, Private
  <1>14. ThreadsRest'
    <2>1. \A w \in Workers : thread'[w] = IF w \in InclusiveWorkers THEN "loop" ELSE thread[w]
      BY <1>2
    <2> QED
      BY <1>2, <1>4, <2>1 DEF TMIInv, ThreadsRest
  <1>15. EmptiedRest'
    BY <1>2 DEF EmptiedRest, Emptied
  <1>16. Kept'
    BY <1>2, <1>4, <1>5 DEF TMIInv, Kept
  <1>17. NoneDropped'
    <2> SUFFICES ASSUME NEW z \in tasks
                 PROVE  \E w \in InclusiveWorkers : list'[w][z] > 0
      BY <1>2 DEF NoneDropped
    <2>1. Inclusive[f[z]] \in InclusiveWorkers /\ z \in Tasks
      BY <1>3, <1>6
    <2>2. list'[Inclusive[f[z]]][z] > 0
      BY <1>5, <2>1
    <2> QED
      BY <2>1, <2>2
  <1>20. ServicesStop'
    BY <1>2 DEF TMIInv, TMTypeOK, ServicesStop
  <1> QED
    BY <1>8, <1>10, <1>11, <1>12, <1>13, <1>14, <1>15, <1>16, <1>17, <1>20 DEF TMIInv

-----------------------------------------------------------------------------

LEMMA PushNormalIInv ==
    ASSUME TMIInv, NEW t \in Tasks, PushNormal(t)
    PROVE  TMIInv'
  <1> USE Kinds
  <1>1. PICK w \in InclusiveWorkers :
          /\ list' = [list EXCEPT ![w][t] = @ + 1]
          /\ raced' = IF Emptied(w) THEN raced \cup {t} ELSE raced
    BY DEF PushNormal
  <1>2. /\ t \in Zones /\ phase[t] = "new"
        /\ tasks' = tasks \cup {t}
        /\ phase' = [phase EXCEPT ![t] = "pushed"]
        /\ UNCHANGED <<critical, joining, copy, now, thread, running, stage, next>>
    BY DEF PushNormal, PushTurn, workVars, optVars
  <1>3. /\ list \in [Workers -> [Tasks -> 0..2]] /\ tasks \subseteq Zones
        /\ phase' \in [Tasks -> {"new", "pushed", "stopped", "popping", "popped",
                               "cancelled", "dropped"}]
        /\ \A u \in Tasks : phase'[u] = IF u = t THEN "pushed" ELSE phase[u]
    BY <1>2 DEF TMIInv, TMTypeOK
  <1>4. /\ t \notin tasks \cup raced
        /\ \A v \in Workers : ~Has(v, t) /\ list[v][t] = 0
    BY <1>2, <1>3 DEF TMIInv, NewIsNowhere, Has
  <1>5. \A v \in Workers, u \in Tasks :
          /\ list[v][u] \in 0..2
          /\ list'[v][u] = IF v = w /\ u = t THEN 1 ELSE list[v][u]
    BY <1>1, <1>3, <1>4
  <1>6. \A v : Emptied(v)' = Emptied(v)
    BY <1>2 DEF Emptied
  <1>7. TMTypeOK'
    <2>1. list' \in [Workers -> [Tasks -> 0..2]]
      BY <1>1, <1>3, <1>4
    <2> QED
      BY <1>1, <1>2, <1>3, <2>1 DEF TMIInv, TMTypeOK
  <1>8. \A v \in Workers, u \in Tasks : Has(v, u)' => Has(v, u) \/ (v = w /\ u = t)
    BY <1>2, <1>5 DEF Has
  <1>9. NewIsNowhere'
    BY <1>1, <1>2, <1>3, <1>8 DEF TMIInv, NewIsNowhere
  <1>10. Places'
    BY <1>2, <1>8 DEF TMIInv, Places
  <1>11. OnOneWorker'
    BY <1>1, <1>4, <1>8 DEF TMIInv, OnOneWorker
  <1>12. Private'
    <2>1. \A v \in ExclusiveWorkers \cup Services, u \in Tasks :
            v \in Workers /\ list'[v][u] = list[v][u] /\ (Has(v, u)' => Has(v, u))
      BY <1>5, <1>8
    <2>2. \A u \in Tasks : phase[u] = "popped" => phase'[u] = "popped"
      BY <1>2, <1>3
    <2> QED
      BY <2>1, <2>2 DEF TMIInv, Private
  <1>13. EmptiedRest'
    <2> SUFFICES ASSUME NEW v \in Workers, Emptied(v), NEW u \in Tasks, list'[v][u] > 0
                 PROVE  thread'[v] = "none" /\ u \in raced' /\ list'[v][u] = 1
      BY <1>2, <1>6 DEF TMIInv, EmptiedRest
    <2> QED
      BY <1>1, <1>2, <1>5 DEF TMIInv, EmptiedRest
  <1>14. Kept'
    BY <1>1, <1>2, <1>4, <1>5 DEF TMIInv, Kept
  <1>15. NoneDropped'
    <2> SUFFICES ASSUME NEW z \in tasks'
                 PROVE  \/ \E v \in InclusiveWorkers : list'[v][z] > 0
                        \/ \E v \in InclusiveWorkers : Emptied(v)
      BY <1>6 DEF NoneDropped
    <2>1. CASE z = t
      BY <1>5, <2>1
    <2>2. CASE z \in tasks
      BY <1>3, <1>4, <1>5, <2>2 DEF TMIInv, NoneDropped
    <2> QED
      BY <1>2, <2>1, <2>2
  <1>16. ThreadsRest'
    BY <1>2 DEF TMIInv, ThreadsRest
  <1>20. ServicesStop'
    BY <1>2 DEF TMIInv, TMTypeOK, ServicesStop
  <1> QED
    BY <1>7, <1>9, <1>10, <1>11, <1>12, <1>13, <1>14, <1>15, <1>16, <1>20 DEF TMIInv

\* The first of some places exists.
LEMMA FirstOf ==
    ASSUME NEW S \in SUBSET Nat, S # {}
    PROVE  \E i \in S : \A j \in S : i <= j
  <1> DEFINE R == {ss \in Nat \X Nat : ss[1] < ss[2]}
  <1>1. IsWellFoundedOn(R, Nat)
    BY NatLessThanWellFounded, Zenon DEF OpToRel
  <1>2. PICK i \in S : \A j \in S : ~ (<<j, i>> \in R)
    <2> HIDE DEF R
    <2> QED
      BY <1>1, WFMin
  <1>3. ASSUME NEW j \in S
        PROVE  i <= j
    <2>1. <<j, i>> \in Nat \X Nat
      OBVIOUS
    <2>2. ~ (<<j, i>>[1] < <<j, i>>[2])
      BY <1>2, <2>1
    <2> QED
      BY <2>1, <2>2
  <1> QED
    BY <1>3

LEMMA PushModerateIInv ==
    ASSUME TMIInv, NEW t \in Tasks, PushModerate(t)
    PROVE  TMIInv'
  <1> USE Kinds
  <1> DEFINE idle == {i \in 1..Len(Exclusive) : list[Exclusive[i]] = Nothing}
             first == CHOOSE i \in idle : \A j \in idle : i <= j
  <1>1. /\ t \in Services /\ phase[t] = "new"
        /\ IF idle # {}
           THEN /\ list' = [list EXCEPT ![Exclusive[first]][t] = @ + 1]
                /\ UNCHANGED <<critical, running, thread>>
           ELSE /\ list' = [list EXCEPT ![t][t] = 1]
                /\ critical' = critical \cup {t}
                /\ running' = [running EXCEPT ![t] = TRUE]
                /\ thread' = [thread EXCEPT ![t] = "loop"]
        /\ phase' = [phase EXCEPT ![t] = "pushed"]
        /\ UNCHANGED <<tasks, joining, copy, now, stage, next, raced>>
    BY DEF PushModerate, PushTurn, optVars
  \* The worker that gets it, and that it had nothing to do.
  <1>2. PICK w \in ExclusiveWorkers \cup Services :
          /\ w \in Workers
          /\ list' = [list EXCEPT ![w][t] = 1]
          /\ \A u \in Tasks : list[w][u] = 0
          /\ \/ w \in ExclusiveWorkers /\ UNCHANGED <<critical, running, thread>>
             \/ /\ w = t
                /\ critical' = critical \cup {t}
                /\ running' = [running EXCEPT ![t] = TRUE]
                /\ thread' = [thread EXCEPT ![t] = "loop"]
    <2>1. list \in [Workers -> [Tasks -> 0..2]]
      BY DEF TMIInv, TMTypeOK
    <2>2. CASE idle # {}
      <3>1. first \in idle
        <4>1. idle \in SUBSET Nat
          OBVIOUS
        <4> HIDE DEF idle
        <4>2. \E i \in idle : \A j \in idle : i <= j
          BY <2>2, <4>1, FirstOf
        <4> QED
          BY <4>2
      <3> DEFINE x == Exclusive[first]
      <3>2. x \in ExclusiveWorkers /\ list[x] = Nothing
        BY <3>1
      <3>3. list' = [list EXCEPT ![x][t] = @ + 1] /\ UNCHANGED <<critical, running, thread>>
        BY <1>1, <2>2
      <3> HIDE DEF x
      <3>4. list[x][t] + 1 = 1 /\ \A u \in Tasks : list[x][u] = 0
        BY <3>2 DEF Nothing
      <3>5. list' = [list EXCEPT ![x][t] = 1]
        BY <2>1, <3>2, <3>3, <3>4
      <3> QED
        BY <3>2, <3>3, <3>4, <3>5
    <2>3. CASE idle = {}
      <3>1. \A u \in Tasks : Has(t, u) => u \in critical /\ t = u
        BY <1>1 DEF TMIInv, TMTypeOK, Places
      <3>2. \A u \in Tasks : list[t][u] = 0
        BY <1>1, <2>1, <3>1 DEF TMIInv, NewIsNowhere, Has
      <3> QED
        BY <1>1, <2>3, <3>2
    <2> QED
      BY <2>2, <2>3
  <1> HIDE DEF idle, first
  <1>3. /\ list \in [Workers -> [Tasks -> 0..2]] /\ tasks \subseteq Zones
        /\ phase' \in [Tasks -> {"new", "pushed", "stopped", "popping", "popped",
                               "cancelled", "dropped"}]
        /\ \A u \in Tasks : phase'[u] = IF u = t THEN "pushed" ELSE phase[u]
    BY <1>1 DEF TMIInv, TMTypeOK
  <1>4. /\ t \notin tasks \cup raced \cup critical
        /\ \A v \in Workers : ~Has(v, t)
    BY <1>1 DEF TMIInv, NewIsNowhere
  <1>5. \A v \in Workers, u \in Tasks :
          /\ list[v][u] \in 0..2
          /\ list'[v][u] = IF v = w /\ u = t THEN 1 ELSE list[v][u]
    BY <1>2, <1>3
  <1>6. \A v : Emptied(v)' = Emptied(v)
    BY <1>1 DEF Emptied
  <1>7. TMTypeOK'
    <2>1. list' \in [Workers -> [Tasks -> 0..2]]
      BY <1>2, <1>3
    <2>2. critical' \subseteq Services /\ joining' \in critical' \cup {NoTask}
      BY <1>1, <1>2 DEF TMIInv, TMTypeOK
    <2>3. /\ running' \in [Workers -> BOOLEAN]
          /\ thread' \in [Workers -> {"loop", "tasks", "run", "pop", "gone", "none"}]
      BY <1>2 DEF TMIInv, TMTypeOK
    <2> QED
      BY <1>1, <1>3, <2>1, <2>2, <2>3 DEF TMIInv, TMTypeOK
  <1>8. \A v \in Workers, u \in Tasks : Has(v, u)' => Has(v, u) \/ (v = w /\ u = t)
    BY <1>1, <1>5 DEF Has
  <1>9. NewIsNowhere'
    BY <1>1, <1>2, <1>3, <1>8 DEF TMIInv, NewIsNowhere
  <1>10. Places'
    <2> SUFFICES ASSUME NEW v \in Workers, NEW u \in Tasks, Has(v, u)'
                 PROVE  \/ u \in Zones /\ v \in InclusiveWorkers
                        \/ u \in Services \ critical' /\ v \in ExclusiveWorkers
                        \/ u \in critical' /\ v = u
      BY DEF Places
    <2>1. CASE v = w /\ u = t
      BY <1>1, <1>2, <1>4, <2>1
    <2>2. CASE Has(v, u)
      BY <1>2, <1>4, <2>2 DEF TMIInv, Places
    <2> QED
      BY <1>8, <2>1, <2>2
  <1>11. OnOneWorker'
    BY <1>1, <1>4, <1>8 DEF TMIInv, OnOneWorker
  <1>12. Private'
    <2> SUFFICES ASSUME NEW v \in ExclusiveWorkers \cup Services, NEW u \in Tasks
                 PROVE  /\ list'[v][u] <= 1
                        /\ \A x \in Tasks : list'[v][u] > 0 /\ list'[v][x] > 0 => u = x
                        /\ Has(v, u)' /\ list'[v][u] = 0 => phase'[u] = "popped"
      BY DEF Private
    <2>1. v \in Workers
      OBVIOUS
    <2>2. CASE v = w
      BY <1>1, <1>2, <1>3, <1>5, <1>8, <2>1, <2>2 DEF TMIInv, Private
    <2>3. CASE v # w
      BY <1>1, <1>3, <1>5, <1>8, <2>1, <2>3 DEF TMIInv, Private
    <2> QED
      BY <2>2, <2>3
  <1>13. EmptiedRest'
    <2>1. \A v \in InclusiveWorkers : v # w /\ v # t /\ v \in Workers
      BY <1>1
    <2>2. \A v \in InclusiveWorkers : thread'[v] = thread[v]
      BY <1>2, <2>1 DEF TMIInv, TMTypeOK
    <2> QED
      BY <1>1, <1>5, <1>6, <2>1, <2>2, EmptiedIsInclusive DEF TMIInv, EmptiedRest
  <1>14. Kept' /\ NoneDropped'
    <2>1. \A v \in InclusiveWorkers, u \in Tasks : list'[v][u] = list[v][u]
      BY <1>5
    <2>2. Kept'
      BY <1>1, <2>1 DEF TMIInv, Kept
    <2>3. NoneDropped'
      <3> SUFFICES ASSUME NEW z \in tasks
                   PROVE  \/ \E v \in InclusiveWorkers : list'[v][z] > 0
                          \/ \E v \in InclusiveWorkers : Emptied(v)
        BY <1>1, <1>6 DEF NoneDropped
      <3> QED
        BY <1>3, <2>1 DEF TMIInv, NoneDropped
    <2> QED
      BY <2>2, <2>3
  <1>15. ThreadsRest'
    <2>1. CASE UNCHANGED thread
      BY <1>1, <2>1 DEF TMIInv, ThreadsRest
    <2>2. CASE w = t /\ thread' = [thread EXCEPT ![t] = "loop"]
      <3>1. \A u \in Tasks : ~Has(t, u)
        BY <1>1, <1>4 DEF TMIInv, TMTypeOK, Places
      <3>2. now[t] = NoTask
        BY <1>1, <3>1 DEF TMIInv, TMTypeOK, Has
      <3>3. copy[t] \in [Tasks -> 0..2] /\ \A u \in Tasks : copy[t][u] = 0
        <4>1. copy[t] \in [Tasks -> 0..2]
          BY <1>1 DEF TMIInv, TMTypeOK
        <4>2. ASSUME NEW u \in Tasks
              PROVE  copy[t][u] = 0
          <5>1. copy[t][u] \in 0..2 /\ ~(copy[t][u] > 0)
            BY <3>1, <4>1 DEF Has
          <5> QED
            BY <5>1
        <4> QED
          BY <4>1, <4>2
      <3>4. copy[t] = Nothing
        BY <3>3 DEF Nothing
      <3>5. \A v \in Workers : thread'[v] = IF v = t THEN "loop" ELSE thread[v]
        BY <2>2 DEF TMIInv, TMTypeOK
      <3> QED
        BY <1>1, <3>2, <3>4, <3>5 DEF TMIInv, ThreadsRest
    <2> QED
      BY <1>2, <2>1, <2>2
  <1>20. ServicesStop'
    BY <1>1 DEF TMIInv, TMTypeOK, ServicesStop
  <1> QED
    BY <1>7, <1>9, <1>10, <1>11, <1>12, <1>13, <1>14, <1>15, <1>20 DEF TMIInv

-----------------------------------------------------------------------------

\* One lemma per action, and the steps that change nothing.
LEMMA TMNextIInv == TMIInv /\ [TMNext]_tmVars => TMIInv'
  <1> SUFFICES ASSUME TMIInv, [TMNext]_tmVars
               PROVE  TMIInv'
    OBVIOUS
  <1>1. CASE UNCHANGED tmVars
    BY <1>1 DEF tmVars, mgrVars, workVars, optVars, TMIInv, TMTypeOK, NewIsNowhere, Has,
                ThreadsRest, EmptiedRest, Emptied, Places, Private, OnOneWorker, Kept,
                NoneDropped, ServicesStop
  <1>2. ASSUME NEW t \in Tasks,
               \/ PushNormal(t) \/ PushModerate(t)
               \/ StopService(t) \/ PopByOwner(t) \/ PopCritical(t) \/ Joined(t)
        PROVE  TMIInv'
    BY <1>2, PushNormalIInv, PushModerateIInv, StopServiceIInv, PopByOwnerIInv,
       PopCriticalIInv, JoinedIInv
  <1>3. ASSUME NEW w \in Workers, WorkerStep(w)
        PROVE  TMIInv'
    BY <1>3, CopyIInv, ExecuteTaskIInv, ReturnsIInv, PopByWorkerIInv, EndOfCycleIInv
       DEF WorkerStep
  <1>4. CASE Deactivate \/ Destroy \/ Optimize \/ OptimizeStep
    BY <1>4, DeactivateIInv, DestroyZonesIInv, OptimizeIInv, PreSuspendIInv, TellToStopIInv,
       SuspendIInv, AssignIInv
       DEF OptimizeStep
  <1> QED
    BY <1>1, <1>2, <1>3, <1>4 DEF TMNext

\* TMIInv holds whenever the managed threads run.
THEOREM TMInvariance == TMSpec => []TMIInv
  <1>1. TMInit => TMIInv
    BY TMInitIInv
  <1>2. TMIInv /\ [TMNext]_tmVars => TMIInv'
    BY TMNextIInv
  <1> QED
    BY <1>1, <1>2, PTL DEF TMSpec

\* The type of the variables of the task manager.
THEOREM TMTypeCorrect == TMSpec => []TMTypeOK
  <1>1. TMIInv => TMTypeOK
    BY DEF TMIInv
  <1> QED
    BY <1>1, TMInvariance, PTL

\* An exclusive or critical worker is never given a second task, and executes its
\* own task or one that was popped.
THEOREM PrivateWorkers == TMSpec => []ExclusiveRunsOne
  <1>1. TMIInv => ExclusiveRunsOne
    BY Kinds DEF TMIInv, TMTypeOK, Private, Has, ExclusiveRunsOne
  <1> QED
    BY <1>1, TMInvariance, PTL

\* A Normal task that did not race with Optimize is on one worker exactly as long
\* as the manager keeps it, and none is lost while Optimize hands them out again.
THEOREM TasksStayOnWorkers == TMSpec => []TasksAreOnWorkers
  <1>1. TMIInv => TasksAreOnWorkers
    <2> SUFFICES ASSUME TMIInv, NEW t \in Zones
                 PROVE  LET on == {w \in InclusiveWorkers : list[w][t] > 0}
                        IN  /\ t \in tasks => on # {} \/ \E w \in InclusiveWorkers : Emptied(w)
                            /\ t \notin raced => Cardinality(on) <= 1 /\ (on # {} => t \in tasks)
      BY DEF TasksAreOnWorkers
    <2> DEFINE on == {w \in InclusiveWorkers : list[w][t] > 0}
    <2>1. t \in tasks => on # {} \/ \E w \in InclusiveWorkers : Emptied(w)
      BY DEF TMIInv, NoneDropped
    <2>2. ASSUME t \notin raced
          PROVE  on # {} => t \in tasks
      BY <2>2 DEF TMIInv, Kept
    <2>3. ASSUME t \notin raced
          PROVE  Cardinality(on) <= 1
      <3>1. CASE on = {}
        BY <3>1, FS_EmptySet
      <3>2. ASSUME NEW w \in on
            PROVE  on = {w}
        BY <2>3, Kinds DEF TMIInv, OnOneWorker, Has
      <3>3. CASE on # {}
        <4>1. PICK w : on = {w}
          BY <3>2, <3>3
        <4> HIDE DEF on
        <4>2. Cardinality({w}) = 1
          BY FS_Singleton
        <4> QED
          BY <4>1, <4>2
      <3> QED
        BY <3>1, <3>3
    <2> QED
      BY <2>1, <2>2, <2>3
  <1> QED
    BY <1>1, TMInvariance, PTL

\* Two threads are never inside the same task that did not race with Optimize.
THEOREM ThreadsAreApart == TMSpec => []OneThreadPerTask
  <1>1. TMIInv => OneThreadPerTask
    BY DEF TMIInv, OnOneWorker, Has, OneThreadPerTask
  <1> QED
    BY <1>1, TMInvariance, PTL

\* One task for an exclusive or critical worker, and one thread for a task.
THEOREM ThreadsAndTasksPair == TMSpec => []OneToOne
  BY PrivateWorkers, ThreadsAreApart, PTL DEF OneToOne

==============================================================================
