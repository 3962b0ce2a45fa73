------------------------------- MODULE Socket -------------------------------
(***************************************************************************)
(* One connection: Core::Network::Socket, which the game, the chat and the *)
(* policy server share.  Io is the network thread that runs the handlers   *)
(* of the socket's io_service one at a time; Users are the other threads   *)
(* that send to the player of the connection or close it.                  *)
(*                                                                         *)
(* A message is one byte, numbered in the order Write takes them, so the   *)
(* buffers are sequences of numbers.  The operating system takes any part  *)
(* of a buffer (async_write_some) and a client may vanish at any time.     *)
(***************************************************************************)
EXTENDS Naturals, Sequences, FiniteSets

CONSTANTS
    Users,          \* threads that hold the Player of the connection
    Io,             \* the network thread of the socket
    Nobody,         \* the holder of a free lock
    MaxWrites,      \* bound: messages written to the connection
    MaxReads        \* bound: reads of the socket that are pending at once

Threads == Users \cup {Io}

ASSUME SocketAssumption ==
    /\ Io \notin Users
    /\ Nobody \notin Threads
    /\ MaxWrites \in Nat /\ MaxReads \in Nat \ {0}

VARIABLES
    open,       \* m_Socket.is_open()
    stored,     \* the NetworkThread's m_Sockets holds the socket
    player,     \* a Player holds the socket in m_Socket
    state,      \* m_WriteState
    out,        \* m_OutBuffer
    second,     \* m_SecondaryOutBuffer
    timer,      \* m_OutBufferFlushTimer waits
    writes,     \* the async_write_some that are not handled, oldest first
    reads,      \* how many async_read_some are not handled
    at,         \* where each thread is
    sent,       \* p_Length of the OnWriteComplete that Io is in
    lock,       \* who holds the lock of the socket
    written,    \* all messages given to Write
    wire,       \* all messages the client gets
    forced,     \* ForceSendAndClose was called
    spoiled     \* ... and Write was called again before the socket was closed

buffers == <<out, second, timer, writes, state>>
ghosts == <<written, wire, forced, spoiled>>
vars == <<open, stored, player, buffers, reads, at, sent, lock, ghosts>>

Labels == {"run", "process", "reread", "flush", "complete", "idle", "write", "close", "remove"}
Operations == [len : Nat, sent : Nat, failed : BOOLEAN, close : BOOLEAN]

TypeOK ==
    /\ {open, stored, player, timer, forced, spoiled} \subseteq BOOLEAN
    /\ state \in {"Idle", "Buffering", "Sending"}
    /\ {out, second, written, wire} \subseteq Seq(Nat)
    /\ writes \in Seq(Operations)
    /\ reads \in 0..MaxReads
    /\ at \in [Threads -> Labels]
    /\ sent \in Nat
    /\ lock \in Threads \cup {Nobody}

\* Socket::Open has started the first read; nobody has logged in.
Init ==
    /\ open = TRUE /\ stored = TRUE /\ player = FALSE /\ timer = FALSE
    /\ forced = FALSE /\ spoiled = FALSE
    /\ state = "Idle"
    /\ out = <<>> /\ second = <<>> /\ writes = <<>> /\ written = <<>> /\ wire = <<>>
    /\ reads = 1
    /\ at = [t \in Threads |-> IF t = Io THEN "run" ELSE "idle"]
    /\ sent = 0
    /\ lock = Nobody

Goto(t, l) == at' = [at EXCEPT ![t] = l]

\* Where a thread goes on when a call of the socket returns.
Home(t) == IF t = Io THEN "run" ELSE "idle"

-----------------------------------------------------------------------------
(* The operating system                                                    *)

Pending(i) == writes[i].sent = 0 /\ ~writes[i].failed

\* The writes of one socket are carried out in order.
Foremost(i) == i \in DOMAIN writes /\ Pending(i) /\ \A j \in 1..(i - 1) : ~Pending(j)

Transmit ==
    /\ open
    /\ \E i \in DOMAIN writes : \E n \in 1..writes[i].len :
        /\ Foremost(i)
        /\ writes' = [writes EXCEPT ![i].sent = n]
        /\ wire' = wire \o SubSeq(out, 1, n)
    /\ UNCHANGED <<open, stored, player, state, out, second, timer, reads, at, sent, lock,
                   written, forced, spoiled>>

\* The client is gone, or the socket was closed.
Fail ==
    /\ \E i \in DOMAIN writes : Foremost(i) /\ writes' = [writes EXCEPT ![i].failed = TRUE]
    /\ UNCHANGED <<open, stored, player, state, out, second, timer, reads, at, sent, lock, ghosts>>

AsyncWrite(len, close) ==
    writes' = Append(writes, [len |-> len, sent |-> 0, failed |-> FALSE, close |-> close])

-----------------------------------------------------------------------------
(* Writing                                                                 *)

ForceSendAndClose ==
    /\ AsyncWrite(Len(out'), TRUE)
    /\ forced' = TRUE
    /\ UNCHANGED <<state, timer>>

StartWriteFlushTimer ==
    /\ IF open THEN state' = "Buffering" /\ timer' = TRUE
               ELSE state' = "Idle" /\ UNCHANGED timer
    /\ UNCHANGED <<writes, forced>>

\* The buffer that is not being sent.
Buffer(m) ==
    IF state = "Sending" THEN second' = Append(second, m) /\ UNCHANGED out
                         ELSE out' = Append(out, m) /\ UNCHANGED second

\* Bound: another message may be written, besides those that threads are about to write.
Room == Len(written) + Cardinality({u \in Users : at[u] = "write"}) < MaxWrites

\* Slip: the timer is started for the secondary buffer too.
WriteWhileSending(force) ==
    /\ lock = Nobody
    /\ written' = Append(written, Len(written) + 1)
    /\ spoiled' = (spoiled \/ forced)
    /\ Buffer(Len(written) + 1)
    /\ \/ state = "Buffering" /\ UNCHANGED <<state, timer, writes, forced>>
       \/ state # "Buffering" /\ force /\ ForceSendAndClose
       \/ state # "Buffering" /\ ~force /\ StartWriteFlushTimer
    /\ UNCHANGED wire

Write(force) ==
    /\ lock = Nobody
    /\ written' = Append(written, Len(written) + 1)
    /\ spoiled' = (spoiled \/ forced)
    /\ Buffer(Len(written) + 1)
    /\ \/ state # "Idle" /\ UNCHANGED <<state, timer, writes, forced>>
       \/ state = "Idle" /\ force /\ ForceSendAndClose
       \/ state = "Idle" /\ ~force /\ StartWriteFlushTimer
    /\ UNCHANGED wire

\* The timer of the buffer has passed.
FlushOut ==
    /\ at[Io] = "run" /\ timer
    /\ timer' = FALSE
    /\ IF open THEN Goto(Io, "flush") /\ UNCHANGED state
               ELSE state' = "Idle" /\ UNCHANGED at
    /\ UNCHANGED <<open, stored, player, out, second, writes, reads, sent, lock, ghosts>>

\* ... past the test of IsClosed, with the lock.
FlushOutSends ==
    /\ at[Io] = "flush" /\ lock = Nobody
    /\ state' = "Sending"
    /\ AsyncWrite(Len(out), FALSE)
    /\ Goto(Io, "run")
    /\ UNCHANGED <<open, stored, player, out, second, timer, reads, sent, lock, ghosts>>

\* Slip: the handler of a forced write looks only for an error.
OnWriteCompleteOpen ==
    /\ at[Io] = "run" /\ writes # <<>> /\ ~Pending(1)
    /\ writes' = Tail(writes)
    /\ sent' = Head(writes).sent
    /\ CASE Head(writes).failed -> Goto(Io, "close") /\ UNCHANGED state
         [] ~Head(writes).failed /\ Head(writes).close -> UNCHANGED <<at, state>>
         [] OTHER -> IF open THEN Goto(Io, "complete") /\ UNCHANGED state
                             ELSE state' = "Idle" /\ UNCHANGED at
    /\ UNCHANGED <<open, stored, player, out, second, timer, reads, lock, ghosts>>

\* A write is done; a forced one, or one that failed, closes the socket.
OnWriteComplete ==
    /\ at[Io] = "run" /\ writes # <<>> /\ ~Pending(1)
    /\ writes' = Tail(writes)
    /\ sent' = Head(writes).sent
    /\ LET closes == Head(writes).close \/ Head(writes).failed IN
       CASE closes            -> Goto(Io, "close") /\ UNCHANGED state
         [] ~closes /\ open   -> Goto(Io, "complete") /\ UNCHANGED state
         [] ~closes /\ ~open  -> state' = "Idle" /\ UNCHANGED at
    /\ UNCHANGED <<open, stored, player, out, second, timer, reads, lock, ghosts>>

\* What is left to send: the rest of the buffer, then the secondary one.
Unsent == SubSeq(out, sent + 1, Len(out))

LeftSwapped == second \o Unsent     \* Slip: the secondary buffer goes first.
LeftOver == Unsent \o second

\* Slip: the state stays Sending when nothing is left.
SendRestStays ==
    /\ out' = LeftOver /\ second' = <<>>
    /\ IF LeftOver # <<>> THEN AsyncWrite(Len(LeftOver), FALSE) /\ UNCHANGED state
                          ELSE UNCHANGED <<writes, state>>

\* Slip: the secondary buffer is cleared and not sent when the first one is done.
SendRestForgets ==
    /\ out' = (IF Unsent = <<>> THEN <<>> ELSE LeftOver) /\ second' = <<>>
    /\ IF Unsent # <<>> THEN AsyncWrite(Len(LeftOver), FALSE) /\ UNCHANGED state
                        ELSE state' = "Idle" /\ UNCHANGED writes

SendRest ==
    /\ out' = LeftOver /\ second' = <<>>
    /\ IF LeftOver # <<>> THEN AsyncWrite(Len(LeftOver), FALSE) /\ UNCHANGED state
                          ELSE state' = "Idle" /\ UNCHANGED writes

\* ... past the test of IsClosed, with the lock.
OnWriteCompletes ==
    /\ at[Io] = "complete" /\ lock = Nobody
    /\ SendRest
    /\ Goto(Io, "run")
    /\ UNCHANGED <<open, stored, player, timer, reads, sent, lock, ghosts>>

-----------------------------------------------------------------------------
(* Closing                                                                 *)

\* The lock is kept while the close handler runs.
CloseSocket(t) ==
    /\ at[t] = "close" /\ lock = Nobody
    /\ IF open THEN open' = FALSE /\ lock' = t /\ Goto(t, "remove")
               ELSE Goto(t, Home(t)) /\ UNCHANGED <<open, lock>>
    /\ UNCHANGED <<stored, player, buffers, reads, sent, ghosts>>

RemoveSocket(t) ==
    /\ at[t] = "remove"
    /\ stored' = FALSE
    /\ lock' = Nobody
    /\ Goto(t, Home(t))
    /\ UNCHANGED <<open, player, buffers, reads, sent, ghosts>>

-----------------------------------------------------------------------------
(* Reading                                                                 *)

StartAsyncRead == reads' = (IF open THEN reads ELSE reads - 1)

\* A read ends: with an error, with a socket that was closed meanwhile, or with data.
OnRead ==
    /\ at[Io] = "run" /\ reads > 0
    /\ \/ reads' = reads - 1 /\ Goto(Io, "close")
       \/ ~open /\ reads' = reads - 1 /\ UNCHANGED at
       \/ open /\ Goto(Io, "process") /\ UNCHANGED reads
    /\ UNCHANGED <<open, stored, player, buffers, sent, lock, ghosts>>

\* ProcessIncomingData: nothing for this connection, a login or an answer.
Process ==
    /\ at[Io] = "process"
    /\ \/ UNCHANGED <<player, out, second, timer, writes, state, ghosts>>
       \/ ~player /\ player' = TRUE /\ UNCHANGED <<out, second, timer, writes, state, ghosts>>
       \/ \E force \in BOOLEAN : Room /\ Write(force) /\ UNCHANGED player
    /\ Goto(Io, "reread")
    /\ UNCHANGED <<open, stored, reads, sent, lock>>

\* The data is bad, or the handler calls CloseSocket itself.
ProcessCloses ==
    /\ at[Io] = "process"
    /\ reads' = reads - 1
    /\ Goto(Io, "close")
    /\ UNCHANGED <<open, stored, player, buffers, sent, lock, ghosts>>

\* A packet of a connection with a login is skipped: OnRead starts a read, falls
\* through and starts another one.
ProcessSkips ==
    /\ at[Io] = "process" /\ (player \/ ~open)
    /\ reads < MaxReads
    /\ reads' = (IF open THEN reads + 1 ELSE reads)
    /\ Goto(Io, "reread")
    /\ UNCHANGED <<open, stored, player, buffers, sent, lock, ghosts>>

Reread ==
    /\ at[Io] = "reread"
    /\ StartAsyncRead
    /\ Goto(Io, "run")
    /\ UNCHANGED <<open, stored, player, buffers, sent, lock, ghosts>>

-----------------------------------------------------------------------------
(* The other threads                                                       *)

\* GameSocket::SendPacket: past the test of IsClosed, then Write.  KickPlayer and
\* ~Player send a packet and close the socket: SendPacket, then KickPlayer.
SendPacket(u) ==
    /\ at[u] = "idle" /\ player /\ open
    /\ Room
    /\ Goto(u, "write")
    /\ UNCHANGED <<open, stored, player, buffers, reads, sent, lock, ghosts>>

SendPacketWrites(u) ==
    /\ at[u] = "write"
    /\ Write(FALSE)
    /\ Goto(u, "idle")
    /\ UNCHANGED <<open, stored, player, reads, sent, lock>>

KickPlayer(u) ==
    /\ at[u] = "idle" /\ player
    /\ Goto(u, "close")
    /\ UNCHANGED <<open, stored, player, buffers, reads, sent, lock, ghosts>>

\* ~Player gives the socket up; it closes it before (KickPlayer), and no other
\* thread uses the Player then.
DeletePlayer ==
    /\ player /\ ~open
    /\ \A u \in Users : at[u] = "idle"
    /\ player' = FALSE
    /\ UNCHANGED <<open, stored, buffers, reads, at, sent, lock, ghosts>>

\* The shared pointers: the storage, the Player and every handler that waits or runs.
Referenced == stored \/ player \/ timer \/ writes # <<>> \/ reads > 0 \/ at[Io] # "run"

Destroyed == ~Referenced /\ UNCHANGED vars

-----------------------------------------------------------------------------

Handlers == OnRead \/ FlushOut \/ OnWriteComplete
IoStep == Process \/ ProcessCloses \/ ProcessSkips \/ Reread \/ FlushOutSends \/ OnWriteCompletes
UserStep(u) == SendPacket(u) \/ SendPacketWrites(u) \/ KickPlayer(u)

Next ==
    \/ Transmit \/ Fail
    \/ Handlers \/ IoStep
    \/ \E u \in Users : UserStep(u)
    \/ \E t \in Threads : CloseSocket(t) \/ RemoveSocket(t)
    \/ DeletePlayer
    \/ Destroyed

Spec == Init /\ [][Next]_vars

\* The system carries out or fails a write, a thread goes on, and the io_service
\* runs its handlers in the order they get ready, so it passes none over for ever.  A
\* read need not end while the socket is open: the client may be silent.
Fairness ==
    /\ WF_vars(Transmit \/ Fail)
    /\ SF_vars(~open /\ OnRead) /\ SF_vars(FlushOut) /\ SF_vars(OnWriteComplete)
    /\ WF_vars(IoStep)
    /\ \A t \in Threads : WF_vars(CloseSocket(t)) /\ WF_vars(RemoveSocket(t))

FairSpec == Spec /\ Fairness

-----------------------------------------------------------------------------
(* Properties                                                              *)

\* Socket.cpp:116 keeps two buffers because writing into the one that is sent "will
\* cause corrupt data": as long as nothing is written after a forced write, the
\* client gets the messages of all threads in the order of Write, each once.
InOrder ==
    ~spoiled => Len(wire) <= Len(written) /\ wire = SubSeq(written, 1, Len(wire))

\* A connection is the stream of MessageStream: whatever the threads write and the
\* system sends of it, the client gets the next messages, and none once it is closed.
Stream == INSTANCE MessageStream WITH
    given <- written, got <- wire, up <- open, last <- forced, broken <- spoiled

ImplementsStream == Stream!Spec

\* An idle socket has sent everything: neither the switch between the two buffers
\* nor a write of only a part of them leaves a message behind.
NothingLost == open /\ state = "Idle" /\ ~forced => wire = written

\* The assertions of FlushOut and OnWriteComplete, which would stop the server: the
\* state was tested by another step than the one that set it.
AssertsHold ==
    /\ at[Io] = "flush" => state = "Buffering"
    /\ at[Io] = "complete" => state = "Sending" /\ sent <= Len(out)

\* A message is sent unless the connection is closed; no thread has to flush.
FlushesOut ==
    \A k \in 1..MaxWrites : (open /\ Len(written) >= k) ~> (~open \/ Len(wire) >= k)

\* "Send the Data instantly and close socket once sent data": once it is sent or lost.
ForcedWriteCloses == forced ~> ~open

\* A closed socket that no Player holds is destroyed: no handler keeps it for ever
\* (the login that its last read may have brought gives it to a Player once more).
ClosedIsFreed == (~open /\ ~player) ~> (player \/ ~Referenced)

\* Closing gets to its end, from the forced write to the destructor.
ClosingEnds == ForcedWriteCloses /\ ClosedIsFreed
=============================================================================
