--------------------------- MODULE ConnectionPool ---------------------------
(***************************************************************************)
(* The pool of MySQL connections behind Database::Base: each connection    *)
(* has one PreparedStatement with a mutex of its own, which the thread     *)
(* that uses the statement holds from PreparedStatements::Prepare until    *)
(* the PreparedResultSet is destroyed.                                     *)
(*                                                                         *)
(* A thread that is still reading the rows of one statement may ask for    *)
(* another: Player::LoadFromDB reads the user, inside it LoadQuests reads  *)
(* the quests, inside it Quest::LoadProgress the progress and inside it    *)
(* the condition attributes.  Depth bounds that nesting for each thread.   *)
(***************************************************************************)
EXTENDS Naturals, FiniteSets

CONSTANTS
    Threads,        \* the threads that use the database
    PoolSize,       \* p_PoolSize: the number of connections
    Depth,          \* how many statements a thread ever has open at once
    Nobody          \* the owner of a free mutex

ASSUME PoolAssumption ==
    /\ PoolSize \in Nat \ {0}
    /\ Depth \in [Threads -> Nat \ {0}]
    /\ Nobody \notin Threads

Pool == 1..PoolSize     \* m_ConnectionPool, in the order Prepare goes through it

VARIABLES
    owner,      \* who holds the m_Mutex of each connection's statement
    prepared,   \* PreparedStatement::m_Prepared of each connection
    pc,         \* where each thread is
    at          \* the connection a thread tries, or works on

vars == <<owner, prepared, pc, at>>

PCs == {"idle", "try", "prepare", "execute", "rows", "clear", "free"}

TypeOK ==
    /\ owner \in [Pool -> Threads \cup {Nobody}]
    /\ prepared \in [Pool -> BOOLEAN]
    /\ pc \in [Threads -> PCs]
    /\ at \in [Threads -> Pool]

Open(t) == {c \in Pool : owner[c] = t}

Init ==
    /\ owner = [c \in Pool |-> Nobody]
    /\ prepared = [c \in Pool |-> FALSE]
    /\ pc = [t \in Threads |-> "idle"]
    /\ at = [t \in Threads |-> 1]

-----------------------------------------------------------------------------

Goto(t, l) == pc' = [pc EXCEPT ![t] = l]

\* Slip: a caller has one result more open than it needs.
GetPrepareStatementDeeper(t) ==
    /\ pc[t] \in {"idle", "rows"}
    /\ Cardinality(Open(t)) <= Depth[t]
    /\ Goto(t, "try")
    /\ at' = [at EXCEPT ![t] = 1]
    /\ UNCHANGED <<owner, prepared>>

\* GetPrepareStatement, from scratch or while the rows of another statement are read.
GetPrepareStatement(t) ==
    /\ pc[t] \in {"idle", "rows"}
    /\ Cardinality(Open(t)) < Depth[t]
    /\ Goto(t, "try")
    /\ at' = [at EXCEPT ![t] = 1]
    /\ UNCHANGED <<owner, prepared>>

\* Slip: the pool is gone through once.
TryLockOnce(t) ==
    /\ pc[t] = "try"
    /\ IF owner[at[t]] = Nobody
       THEN /\ owner' = [owner EXCEPT ![at[t]] = t]
            /\ Goto(t, "prepare")
            /\ UNCHANGED at
       ELSE /\ at[t] < PoolSize
            /\ at' = [at EXCEPT ![t] = @ + 1]
            /\ UNCHANGED <<owner, pc>>
    /\ UNCHANGED prepared

\* TryLockMutex on one connection; on failure the next, round and round.
TryLock(t) ==
    /\ pc[t] = "try"
    /\ IF owner[at[t]] = Nobody
       THEN /\ owner' = [owner EXCEPT ![at[t]] = t]
            /\ Goto(t, "prepare")
            /\ UNCHANGED at
       ELSE /\ at' = [at EXCEPT ![t] = (@ % PoolSize) + 1]
            /\ UNCHANGED <<owner, pc>>
    /\ UNCHANGED prepared

\* PrepareStatement.  A statement that is prepared already is an assertion
\* (StatementIsFree below); so is a query that the server rejects.
PrepareStatement(t) ==
    /\ pc[t] = "prepare"
    /\ prepared' = [prepared EXCEPT ![at[t]] = TRUE]
    /\ Goto(t, "execute")
    /\ UNCHANGED <<owner, at>>

\* Slip: an empty result is dropped and its statement is never cleared.
ExecuteStatementLeaks(t) ==
    /\ pc[t] = "execute"
    /\ Goto(t, "rows") \/ Goto(t, "idle")
    /\ UNCHANGED <<owner, prepared, at>>

\* ExecuteStatement.  The caller gets the rows, or the empty result is destroyed
\* inside (a result that is asked for and not kept comes to the same).
ExecuteStatement(t) ==
    /\ pc[t] = "execute"
    /\ Goto(t, "rows") \/ Goto(t, "clear")
    /\ UNCHANGED <<owner, prepared, at>>

\* A result set is destroyed, as a rule the innermost; ChatManager::BanPlayer
\* replaces an outer one first.  (That the client library cannot bind the columns of
\* a result, in which case the constructor gives the connection back already, is
\* left out.)
DestroyResult(t) ==
    /\ pc[t] = "rows"
    /\ \E c \in Open(t) : at' = [at EXCEPT ![t] = c]
    /\ Goto(t, "clear")
    /\ UNCHANGED <<owner, prepared>>

\* Slip: Clear leaves m_Prepared alone.
ClearNotReset(t) ==
    /\ pc[t] = "clear"
    /\ Goto(t, "free")
    /\ UNCHANGED <<owner, prepared, at>>

\* PreparedStatement::Clear, up to its call of FreePrepareStatement.
Clear(t) ==
    /\ pc[t] = "clear"
    /\ prepared' = [prepared EXCEPT ![at[t]] = FALSE]
    /\ Goto(t, "free")
    /\ UNCHANGED <<owner, at>>

\* UnlockMutex: the connection is for anybody to take.
Free(t) ==
    /\ pc[t] = "free"
    /\ owner' = [owner EXCEPT ![at[t]] = Nobody]
    /\ Goto(t, IF Open(t) = {at[t]} THEN "idle" ELSE "rows")
    /\ UNCHANGED <<prepared, at>>

-----------------------------------------------------------------------------

Runs(t) ==
    \/ TryLock(t) \/ PrepareStatement(t) \/ ExecuteStatement(t)
    \/ Clear(t) \/ Free(t)

Next == \E t \in Threads : GetPrepareStatement(t) \/ Runs(t) \/ DestroyResult(t)

Spec == Init /\ [][Next]_vars

\* Threads are scheduled, and a result has finitely many rows: a loop over rows,
\* however often it opens another statement, comes to its end.
Fairness ==
    \A t \in Threads : WF_vars(Runs(t)) /\ SF_vars(DestroyResult(t))

FairSpec == Spec /\ Fairness

-----------------------------------------------------------------------------

\* "Trying to prepare a statement but statement is already in use!" is never
\* reported: a thread that gets a connection finds its statement unprepared,
\* although m_Prepared is read and written by a different thread every time.
StatementIsFree ==
    \A t \in Threads : pc[t] = "prepare" => ~prepared[at[t]]

\* A connection nobody owns has no statement open on it, and a thread works only
\* on a connection it owns.
OnlyOwnersWork ==
    /\ \A c \in Pool : owner[c] = Nobody => ~prepared[c]
    /\ \A t \in Threads :
          pc[t] \in {"prepare", "execute", "clear", "free"} => owner[at[t]] = t

\* A connection changes hands clean: while it is in use it is its owner's alone, and
\* whoever takes it next finds nothing prepared on it.
UseIsExclusive == StatementIsFree /\ OnlyOwnersWork

\* When a thread goes idle it has given back every connection it ever took.
IdleHoldsNothing ==
    \A t \in Threads : pc[t] = "idle" => Open(t) = {}

\* What threads may hold while each of them asks for its innermost statement.
Nested == UNION {{t} \X (1..(Depth[t] - 1)) : t \in Threads}

\* The pool is big enough for the nesting of its threads.
PoolSuffices == IsFiniteSet(Nested) /\ Cardinality(Nested) < PoolSize

\* With a connection more than that the threads never wait in a circle: whoever
\* asks, a connection is free or a thread that holds one goes on without another.
NoCircle ==
    PoolSuffices /\ (\E t \in Threads : pc[t] = "try") =>
        \/ \E c \in Pool : owner[c] = Nobody
        \/ \E t \in Threads : pc[t] \notin {"idle", "try"}

\* No connection is held in vain: not by a thread that has finished, and not by all
\* the threads of a circle.
NoneHeldInVain == IdleHoldsNothing /\ NoCircle

\* The threads do not wait for each other's connections for ever: whoever asks,
\* somebody gets a connection.
PoolProgress ==
    (\E t \in Threads : pc[t] = "try") ~> (\E t \in Threads : pc[t] = "prepare")
=============================================================================
