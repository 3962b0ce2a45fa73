---------------------------- MODULE SocketProofs ----------------------------
(***************************************************************************)
(* The order and the completeness of what a connection sends, for any      *)
(* number of threads, messages and reads.                                  *)
(***************************************************************************)
EXTENDS Socket, SequenceTheorems, TLAPS

\* The network thread reads on where a read has brought it.
ReadsAreCounted == at[Io] \in {"process", "reread"} => reads > 0

\* A pending write does not go past the buffer, and what failed has sent nothing.
WritesAreParts ==
    \A i \in 1..Len(writes) :
        /\ writes[i].sent <= writes[i].len /\ writes[i].len <= Len(out)
        /\ writes[i].failed => writes[i].sent = 0

\* The write state tells which handler comes next: the timer, or one write that does
\* not close the socket.
StateIsNext ==
    /\ timer => state = "Buffering" /\ at[Io] # "flush"
    /\ at[Io] = "flush" => state = "Buffering"
    /\ at[Io] = "complete" => state = "Sending" /\ sent <= Len(out) /\ ~forced
    /\ \A i \in 1..Len(writes) :
          ~writes[i].close => state = "Sending" /\ at[Io] # "complete"
    /\ \A i, j \in 1..Len(writes) : ~writes[i].close /\ ~writes[j].close => i = j

\* A forced write is alone and the first one, until it closes the socket.
ForcedIsFirst ==
    /\ spoiled => forced
    /\ ~forced => \A i \in 1..Len(writes) : ~writes[i].close
    /\ open /\ forced => (writes # <<>> /\ writes[1].close) \/ at[Io] = "close"
    /\ open /\ forced /\ ~spoiled => state = "Idle" /\ Len(writes) <= 1

\* The second buffer is used while the first one is sent; an idle socket has none.
BuffersAreUsed ==
    /\ open /\ ~spoiled /\ state # "Sending" => second = <<>>
    /\ open /\ ~forced /\ state = "Idle" => out = <<>>

\* Messages are given to Write in the order of their numbers, and a client got the
\* first of them.
Numbered(s, base) == \A i \in 1..Len(s) : s[i] = base + i

\* The messages that have left the two buffers, and those of the first one that were
\* sent and have not left it.
Base == Len(written) - (Len(out) + Len(second))
Done == IF at[Io] = "complete" THEN sent ELSE IF writes = <<>> THEN 0 ELSE writes[1].sent

StreamIsWhole ==
    /\ Numbered(written, 0)
    /\ ~spoiled => Numbered(wire, 0) /\ Len(wire) <= Len(written)
    /\ open /\ ~spoiled =>
          /\ Base \in Nat
          /\ Numbered(out, Base) /\ Numbered(second, Base + Len(out))
          /\ ~forced \/ writes # <<>> => Len(wire) = Base + Done

\* The inductive invariant.
IInv ==
    /\ TypeOK /\ ReadsAreCounted /\ WritesAreParts /\ StateIsNext /\ ForcedIsFirst
    /\ BuffersAreUsed /\ StreamIsWhole

-----------------------------------------------------------------------------
(* Sequences                                                               *)

LEMMA AppendFacts ==
    ASSUME NEW S, NEW s \in Seq(S), NEW e \in S
    PROVE  /\ Append(s, e) \in Seq(S) /\ Len(Append(s, e)) = Len(s) + 1
           /\ \A i \in 1..Len(s) : Append(s, e)[i] = s[i]
           /\ Append(s, e)[Len(s) + 1] = e
BY AppendProperties

LEMMA NumberedAppend ==
    ASSUME NEW s \in Seq(Nat), NEW b \in Nat, Numbered(s, b)
    PROVE  Numbered(Append(s, b + Len(s) + 1), b)
<1>1. b + Len(s) + 1 \in Nat
  BY LenProperties
<1> QED  BY <1>1, AppendFacts, LenProperties DEF Numbered

LEMMA NumberedConcat ==
    ASSUME NEW s \in Seq(Nat), NEW t \in Seq(Nat), NEW b \in Nat,
           Numbered(s, b), Numbered(t, b + Len(s))
    PROVE  Numbered(s \o t, b)
<1>1. Len(s \o t) = Len(s) + Len(t)
  BY ConcatProperties
<1>2. Len(s) \in Nat /\ Len(t) \in Nat
  BY LenProperties
<1>3. SUFFICES ASSUME NEW i \in 1..Len(s \o t) PROVE (s \o t)[i] = b + i
  BY DEF Numbered
<1>4. (s \o t)[i] = IF i <= Len(s) THEN s[i] ELSE t[i - Len(s)]
  BY <1>1, <1>2, ConcatProperties
<1>5. CASE i <= Len(s)
  BY <1>2, <1>4, <1>5 DEF Numbered
<1>6. CASE i > Len(s)
  <2>1. i - Len(s) \in 1..Len(t)
    BY <1>1, <1>2, <1>6
  <2>2. t[i - Len(s)] = b + Len(s) + (i - Len(s))
    BY <2>1 DEF Numbered
  <2> QED  BY <1>2, <1>4, <1>6, <2>1, <2>2
<1> QED  BY <1>2, <1>5, <1>6

LEMMA NumberedHead ==
    ASSUME NEW s \in Seq(Nat), NEW b \in Nat, Numbered(s, b), NEW n \in 0..Len(s)
    PROVE  /\ SubSeq(s, 1, n) \in Seq(Nat) /\ Len(SubSeq(s, 1, n)) = n
           /\ Numbered(SubSeq(s, 1, n), b)
<1>1. Len(s) \in Nat /\ n \in Nat /\ \A i \in 1..Len(s) : s[i] \in Nat
  BY LenProperties, ElementOfSeq
<1>2. \A i \in 1..n : s[i] \in Nat
  BY <1>1
<1>3. /\ SubSeq(s, 1, n) \in Seq(Nat) /\ Len(SubSeq(s, 1, n)) = n
      /\ \A i \in 1..n : SubSeq(s, 1, n)[i] = s[i]
  BY <1>1, <1>2, SubSeqProperties
<1> QED  BY <1>1, <1>3 DEF Numbered

LEMMA NumberedRest ==
    ASSUME NEW s \in Seq(Nat), NEW b \in Nat, Numbered(s, b), NEW n \in 0..Len(s)
    PROVE  LET r == SubSeq(s, n + 1, Len(s))
           IN  r \in Seq(Nat) /\ Len(r) = Len(s) - n /\ Numbered(r, b + n)
<1> DEFINE r == SubSeq(s, n + 1, Len(s))
<1>1. Len(s) \in Nat /\ n \in Nat /\ \A i \in 1..Len(s) : s[i] \in Nat
  BY LenProperties, ElementOfSeq
<1>2. \A i \in (n + 1)..Len(s) : s[i] \in Nat
  BY <1>1
<1>3. /\ r \in Seq(Nat) /\ Len(r) = Len(s) - n
      /\ \A i \in 1..(Len(s) - n) : r[i] = s[n + i]
  BY <1>1, <1>2, SubSeqProperties
<1> QED  BY <1>1, <1>3 DEF Numbered

-----------------------------------------------------------------------------
(* Facts about a state                                                     *)

LEMMA Sizes ==
    ASSUME TypeOK
    PROVE  /\ out \in Seq(Nat) /\ second \in Seq(Nat) /\ written \in Seq(Nat) /\ wire \in Seq(Nat)
           /\ Len(out) \in Nat /\ Len(second) \in Nat /\ Len(written) \in Nat /\ Len(wire) \in Nat
           /\ writes \in Seq(Operations) /\ Len(writes) \in Nat /\ DOMAIN writes = 1..Len(writes)
           /\ \A i \in 1..Len(writes) : writes[i] \in Operations
           /\ writes = <<>> <=> Len(writes) = 0
<1>1. /\ out \in Seq(Nat) /\ second \in Seq(Nat) /\ written \in Seq(Nat) /\ wire \in Seq(Nat)
      /\ writes \in Seq(Operations)
  BY DEF TypeOK
<1> QED  BY <1>1, LenProperties, ElementOfSeq, EmptySeq

\* A connection that is open and was not written to after a forced write has at most
\* one write, and none while the network thread completes one.
LEMMA OneWrite ==
    ASSUME IInv, open, ~spoiled
    PROVE  /\ Len(writes) <= 1
           /\ at[Io] = "complete" => writes = <<>>
           /\ state # "Sending" /\ ~forced => writes = <<>>
<1>1. CASE forced
  BY <1>1 DEF IInv, ForcedIsFirst, StateIsNext
<1>2. CASE ~forced
  <2>1. \A i \in 1..Len(writes) : ~writes[i].close
    BY <1>2 DEF IInv, ForcedIsFirst
  <2>2. Len(writes) <= 1
    <3>1. SUFFICES ASSUME Len(writes) >= 2 PROVE FALSE
      BY Sizes DEF IInv
    <3>2. 1 \in 1..Len(writes) /\ 2 \in 1..Len(writes)
      BY <3>1, Sizes DEF IInv
    <3> QED  BY <2>1, <3>2 DEF IInv, StateIsNext
  <2>3. writes # <<>> => 1 \in 1..Len(writes)
    BY Sizes DEF IInv
  <2> QED  BY <2>1, <2>2, <2>3 DEF IInv, StateIsNext
<1> QED  BY <1>1, <1>2

-----------------------------------------------------------------------------
(* The steps                                                               *)

LEMMA InitIInv == Init => IInv
<1> SUFFICES ASSUME Init PROVE IInv
  OBVIOUS
<1> USE SocketAssumption
<1>1. <<>> \in Seq(Nat) /\ <<>> \in Seq(Operations) /\ Len(<<>>) = 0
  BY EmptySeq
<1>2. at[Io] = "run"
  BY DEF Init, Threads
<1>3. TypeOK
  <2>1. at \in [Threads -> Labels]
    BY DEF Init, Labels
  <2>2. {open, stored, player, timer, forced, spoiled} \subseteq BOOLEAN
    BY DEF Init
  <2>3. {out, second, written, wire} \subseteq Seq(Nat) /\ writes \in Seq(Operations)
    BY <1>1 DEF Init
  <2>4. reads \in 0..MaxReads /\ sent \in Nat /\ lock \in Threads \cup {Nobody}
    BY DEF Init
  <2>5. state \in {"Idle", "Buffering", "Sending"}
    BY DEF Init
  <2> QED  BY <2>1, <2>2, <2>3, <2>4, <2>5 DEF TypeOK
<1>4. ReadsAreCounted /\ WritesAreParts /\ StateIsNext /\ ForcedIsFirst /\ BuffersAreUsed
  BY <1>1, <1>2 DEF Init, ReadsAreCounted, WritesAreParts, StateIsNext, ForcedIsFirst, BuffersAreUsed
<1>5. StreamIsWhole
  <2>1. /\ Len(out) = 0 /\ Len(second) = 0 /\ Len(written) = 0 /\ Len(wire) = 0
        /\ Done = 0
    BY <1>1, <1>2 DEF Init, Done
  <2>2. Base = 0
    BY <2>1 DEF Base
  <2>3. Numbered(out, 0) /\ Numbered(second, 0) /\ Numbered(written, 0) /\ Numbered(wire, 0)
    BY <2>1 DEF Numbered
  <2> QED  BY <2>1, <2>2, <2>3 DEF StreamIsWhole
<1> QED  BY <1>3, <1>4, <1>5 DEF IInv

\* A step that leaves the buffers alone and does not start or end a send.
LEMMA Frame ==
    ASSUME IInv, TypeOK', ReadsAreCounted', UNCHANGED <<buffers, sent, ghosts>>,
           open' => open,
           \A l \in {"flush", "complete"} : at'[Io] = l <=> at[Io] = l,
           at[Io] = "close" => at'[Io] = "close" \/ ~open'
    PROVE  IInv'
<1> USE DEF IInv, buffers, ghosts
<1>1. WritesAreParts' /\ StateIsNext'
  BY DEF WritesAreParts, StateIsNext
<1>2. ForcedIsFirst' /\ BuffersAreUsed'
  BY DEF ForcedIsFirst, BuffersAreUsed
<1>3. StreamIsWhole'
  <2>1. Base' = Base /\ Done' = Done
    BY DEF Base, Done
  <2> QED  BY <2>1 DEF StreamIsWhole, Numbered
<1> QED  BY <1>1, <1>2, <1>3

\* Where the threads go.
LEMMA Going ==
    ASSUME TypeOK, NEW t \in Threads, NEW l \in Labels, Goto(t, l)
    PROVE  /\ at' \in [Threads -> Labels] /\ at'[t] = l
           /\ t # Io => at'[Io] = at[Io]
BY DEF TypeOK, Goto, Threads

\* The steps that leave the buffers alone.
LEMMA QuietIInv ==
    ASSUME IInv,
           \/ OnRead \/ ProcessCloses \/ ProcessSkips \/ Reread
           \/ \E u \in Users : SendPacket(u) \/ KickPlayer(u)
           \/ \E t \in Threads : CloseSocket(t) \/ RemoveSocket(t)
           \/ DeletePlayer \/ Destroyed
    PROVE  IInv'
<1> USE SocketAssumption DEF IInv
<1>1. UNCHANGED <<buffers, sent, ghosts>>
  BY DEF OnRead, ProcessCloses, ProcessSkips, Reread, SendPacket, KickPlayer, CloseSocket,
         RemoveSocket, DeletePlayer, Destroyed, vars, buffers, ghosts
<1>2. UNCHANGED <<out, second, timer, writes, state, written, wire, forced, spoiled>>
  BY <1>1 DEF buffers, ghosts
<1>3. ASSUME reads' \in 0..MaxReads, at' \in [Threads -> Labels],
             lock' \in Threads \cup {Nobody},
             open' \in BOOLEAN, stored' \in BOOLEAN, player' \in BOOLEAN
      PROVE  TypeOK'
  BY <1>1, <1>2, <1>3 DEF TypeOK
<1>4. /\ reads \in 0..MaxReads /\ at \in [Threads -> Labels] /\ lock \in Threads \cup {Nobody}
      /\ open \in BOOLEAN /\ stored \in BOOLEAN /\ player \in BOOLEAN
      /\ Io \in Threads /\ reads \in Nat /\ MaxReads \in Nat
  BY DEF TypeOK, Threads
<1>5. \A t \in Threads : Home(t) \in Labels /\ Home(Io) = "run"
  BY DEF Home, Labels
<1>6. {"run", "process", "reread", "idle", "write", "close", "remove"} \subseteq Labels
  BY DEF Labels
<1>7. CASE OnRead
  <2>1. /\ reads' \in 0..MaxReads /\ at' \in [Threads -> Labels]
        /\ at'[Io] \in {"close", "run", "process"}
        /\ at'[Io] \in {"process", "reread"} => reads' > 0
    BY <1>4, <1>6, <1>7, Going DEF OnRead, ReadsAreCounted
  <2> QED  BY <1>1, <1>3, <1>4, <1>7, <2>1, Frame DEF OnRead, ReadsAreCounted
<1>8. CASE ProcessCloses \/ ProcessSkips \/ Reread
  <2>1. at[Io] \in {"process", "reread"} /\ reads > 0
    BY <1>8 DEF ProcessCloses, ProcessSkips, Reread, ReadsAreCounted
  <2>2. /\ reads' \in 0..MaxReads
        /\ at' \in [Threads -> Labels] /\ at'[Io] \in {"close", "reread", "run"}
        /\ at'[Io] \in {"process", "reread"} => reads' > 0
    <3>1. CASE ProcessCloses
      BY <1>4, <1>6, <2>1, <3>1, Going DEF ProcessCloses
    <3>2. CASE ProcessSkips
      BY <1>4, <1>6, <2>1, <3>2, Going DEF ProcessSkips
    <3>3. CASE Reread
      BY <1>4, <1>6, <2>1, <3>3, Going DEF Reread, StartAsyncRead
    <3> QED  BY <1>8, <3>1, <3>2, <3>3
  <2>3. open' = open /\ stored' = stored /\ player' = player /\ lock' = lock
    BY <1>8 DEF ProcessCloses, ProcessSkips, Reread
  <2>4. TypeOK' /\ ReadsAreCounted'
    BY <1>3, <1>4, <2>2, <2>3 DEF ReadsAreCounted
  <2> QED  BY <1>1, <1>4, <2>1, <2>2, <2>3, <2>4, Frame
<1>9. CASE \E u \in Users : SendPacket(u) \/ KickPlayer(u)
  <2> PICK u \in Users : SendPacket(u) \/ KickPlayer(u)
    BY <1>9
  <2>1. u \in Threads /\ u # Io
    BY DEF Threads
  <2>2. at' \in [Threads -> Labels] /\ at'[Io] = at[Io]
    BY <1>6, <2>1, Going DEF SendPacket, KickPlayer
  <2>3. open' = open /\ stored' = stored /\ player' = player /\ lock' = lock /\ reads' = reads
    BY DEF SendPacket, KickPlayer
  <2>4. TypeOK' /\ ReadsAreCounted'
    BY <1>3, <1>4, <2>2, <2>3 DEF ReadsAreCounted
  <2> QED  BY <1>1, <1>4, <2>2, <2>3, <2>4, Frame
<1>10. CASE \E t \in Threads : CloseSocket(t) \/ RemoveSocket(t)
  <2> PICK t \in Threads : CloseSocket(t) \/ RemoveSocket(t)
    BY <1>10
  <2>1. /\ at' \in [Threads -> Labels] /\ at'[t] \in {"remove", Home(t)}
        /\ t # Io => at'[Io] = at[Io]
        /\ at[t] \in {"close", "remove"}
    BY <1>5, <1>6, Going DEF CloseSocket, RemoveSocket
  <2>2. /\ player' = player /\ reads' = reads /\ (open' => open)
        /\ open' \in BOOLEAN /\ stored' \in BOOLEAN /\ lock' \in Threads \cup {Nobody}
    <3>1. CASE CloseSocket(t) /\ open
      BY <1>4, <3>1 DEF CloseSocket
    <3>2. CASE CloseSocket(t) /\ ~open
      BY <1>4, <3>2 DEF CloseSocket
    <3>3. CASE RemoveSocket(t)
      BY <1>4, <3>3 DEF RemoveSocket
    <3> QED  BY <3>1, <3>2, <3>3
  <2>3. at[t] = "close" => ~open'
    <3>1. ASSUME at[t] = "close" PROVE CloseSocket(t)
      BY <3>1 DEF RemoveSocket
    <3>2. CASE open
      BY <3>1, <3>2 DEF CloseSocket
    <3>3. CASE ~open
      BY <2>2, <3>3
    <3> QED  BY <3>2, <3>3
  <2>4. t = Io => at'[Io] \in {"remove", "run"}
    BY <1>5, <2>1
  <2>5. TypeOK' /\ ReadsAreCounted'
    BY <1>3, <1>4, <2>1, <2>2, <2>4 DEF ReadsAreCounted
  <2> QED  BY <1>1, <1>4, <2>1, <2>2, <2>3, <2>4, <2>5, Frame
<1>11. CASE DeletePlayer \/ Destroyed
  <2>1. /\ open' = open /\ stored' = stored /\ at' = at /\ lock' = lock /\ reads' = reads
        /\ player' \in BOOLEAN
    BY <1>4, <1>11 DEF DeletePlayer, Destroyed, vars
  <2>2. TypeOK' /\ ReadsAreCounted'
    BY <1>3, <1>4, <2>1 DEF ReadsAreCounted
  <2> QED  BY <1>1, <1>4, <2>1, <2>2, Frame
<1> QED  BY <1>7, <1>8, <1>9, <1>10, <1>11

LEMMA TransmitIInv == ASSUME IInv, Transmit PROVE IInv'
<1> USE DEF IInv
<1> PICK i \in DOMAIN writes : \E n \in 1..writes[i].len :
        /\ Foremost(i)
        /\ writes' = [writes EXCEPT ![i].sent = n]
        /\ wire' = wire \o SubSeq(out, 1, n)
  BY DEF Transmit
<1> PICK n \in 1..writes[i].len :
        /\ Foremost(i)
        /\ writes' = [writes EXCEPT ![i].sent = n]
        /\ wire' = wire \o SubSeq(out, 1, n)
  OBVIOUS
<1>1. i \in 1..Len(writes) /\ writes[i] \in Operations /\ writes[i].len \in Nat /\ n \in Nat
      /\ n <= writes[i].len /\ writes[i].len <= Len(out) /\ ~writes[i].failed
      /\ writes[i].sent = 0
  BY Sizes DEF WritesAreParts, Foremost, Pending, Operations
<1>2. UNCHANGED <<open, stored, player, state, out, second, timer, reads, at, sent, lock,
                  written, forced, spoiled>> /\ open
  BY DEF Transmit
<1>3. /\ writes' \in Seq(Operations) /\ Len(writes') = Len(writes)
      /\ \A j \in 1..Len(writes) :
            /\ writes'[j].len = writes[j].len /\ writes'[j].failed = writes[j].failed
            /\ writes'[j].close = writes[j].close
            /\ writes'[j].sent = IF j = i THEN n ELSE writes[j].sent
  <2> DEFINE w == [writes[i] EXCEPT !.sent = n]
  <2>1. /\ w \in Operations /\ w.sent = n /\ w.len = writes[i].len
        /\ w.failed = writes[i].failed /\ w.close = writes[i].close
    BY <1>1 DEF Operations
  <2>2. writes' = [writes EXCEPT ![i] = w]
    OBVIOUS
  <2> HIDE DEF w
  <2>3. /\ writes' \in Seq(Operations) /\ Len(writes') = Len(writes)
        /\ \A j \in 1..Len(writes) : writes'[j] = IF j = i THEN w ELSE writes[j]
    <3>1. writes \in Seq(Operations) /\ i \in 1..Len(writes)
      BY <1>1, Sizes
    <3>2. w \in Operations
      BY <2>1
    <3>3. /\ [writes EXCEPT ![i] = w] \in Seq(Operations)
          /\ Len([writes EXCEPT ![i] = w]) = Len(writes)
          /\ \A j \in 1..Len(writes) : [writes EXCEPT ![i] = w][j] = IF j = i THEN w ELSE writes[j]
      BY <3>1, <3>2, ExceptSeq
    <3> QED  BY <2>2, <3>3, Zenon
  <2> QED  BY <2>1, <2>3
<1>4. /\ SubSeq(out, 1, n) \in Seq(Nat) /\ Len(SubSeq(out, 1, n)) = n /\ wire' \in Seq(Nat)
      /\ Len(wire') = Len(wire) + n
  <2>1. \A j \in 1..n : out[j] \in Nat
    <3>1. out \in Seq(Nat) /\ Len(out) \in Nat /\ n <= Len(out)
      BY <1>1, Sizes
    <3> QED  BY <1>1, <3>1, ElementOfSeq
  <2>2. SubSeq(out, 1, n) \in Seq(Nat) /\ Len(SubSeq(out, 1, n)) = n
    BY <1>1, <2>1, SubSeqProperties
  <2> QED  BY <2>2, Sizes, ConcatProperties
<1>5. TypeOK'
  BY <1>2, <1>3, <1>4 DEF TypeOK
<1>6. ReadsAreCounted' /\ BuffersAreUsed'
  BY <1>2 DEF ReadsAreCounted, BuffersAreUsed
<1>7. WritesAreParts'
  BY <1>1, <1>2, <1>3 DEF WritesAreParts
<1>8. StateIsNext'
  BY <1>2, <1>3 DEF StateIsNext
<1>9. ForcedIsFirst'
  BY <1>1, <1>2, <1>3, Sizes, EmptySeq DEF ForcedIsFirst
<1>10. StreamIsWhole'
  <2>1. Numbered(written, 0)' /\ Base' = Base
    BY <1>2 DEF StreamIsWhole, Numbered, Base
  <2>2. CASE spoiled
    BY <1>2, <2>1, <2>2 DEF StreamIsWhole
  <2>3. CASE ~spoiled
    <3>1. i = 1 /\ Len(writes) = 1 /\ writes # <<>> /\ at[Io] # "complete"
      BY <1>1, <1>2, <2>3, OneWrite, Sizes
    <3>2. Done = 0 /\ Done' = n
      <4>1. writes' # <<>> /\ writes'[1].sent = n /\ at'[Io] # "complete"
        <5>1. Len(writes') = 1 /\ 1 \in 1..Len(writes)
          BY <1>3, <3>1
        <5>2. writes'[1].sent = n
          BY <1>3, <3>1, <5>1
        <5> QED  BY <1>2, <3>1, <5>1, <5>2, EmptySeq
      <4> QED  BY <1>1, <3>1, <4>1 DEF Done
    <3>3. Base \in Nat /\ Numbered(out, Base) /\ Numbered(second, Base + Len(out))
          /\ Len(wire) = Base
      BY <1>2, <2>3, <3>1, <3>2 DEF StreamIsWhole
    <3>4. Numbered(wire', 0)
      <4>1. Numbered(SubSeq(out, 1, n), Len(wire))
        BY <1>1, <3>3, Sizes, NumberedHead
      <4>2. Numbered(wire, 0) /\ 0 + Len(wire) = Len(wire)
        BY <2>3, Sizes DEF StreamIsWhole
      <4> QED  BY <1>4, <4>1, <4>2, Sizes, NumberedConcat
    <3>5. Len(wire') <= Len(written) /\ Len(wire') = Base' + Done'
      <4>1. n <= Len(out) /\ Base = Len(written) - (Len(out) + Len(second))
        BY <1>1, Sizes DEF Base
      <4>2. Len(wire') = Base + n /\ Base + n <= Len(written)
        BY <1>1, <1>4, <3>3, <4>1, Sizes
      <4> QED  BY <2>1, <3>2, <4>2
    <3>6. Numbered(out, Base)' /\ Numbered(second, Base + Len(out))' /\ Numbered(wire, 0)'
      BY <1>2, <2>1, <3>3, <3>4 DEF Numbered
    <3> QED  BY <1>2, <2>1, <3>3, <3>5, <3>6 DEF StreamIsWhole
  <2> QED  BY <1>2, <2>2, <2>3 DEF TypeOK
<1> QED  BY <1>5, <1>6, <1>7, <1>8, <1>9, <1>10

LEMMA FailIInv == ASSUME IInv, Fail PROVE IInv'
<1> USE DEF IInv
<1> PICK i \in DOMAIN writes : Foremost(i) /\ writes' = [writes EXCEPT ![i].failed = TRUE]
  BY DEF Fail
<1>1. i \in 1..Len(writes) /\ writes[i] \in Operations /\ writes[i].sent = 0
  BY Sizes DEF Foremost, Pending
<1>2. UNCHANGED <<open, stored, player, state, out, second, timer, reads, at, sent, lock, ghosts>>
  BY DEF Fail
<1>3. UNCHANGED <<written, wire, forced, spoiled>>
  BY <1>2 DEF ghosts
<1>4. /\ writes' \in Seq(Operations) /\ Len(writes') = Len(writes)
      /\ \A j \in 1..Len(writes) :
            /\ writes'[j].len = writes[j].len /\ writes'[j].sent = writes[j].sent
            /\ writes'[j].close = writes[j].close
            /\ writes'[j].failed => writes'[j].sent = 0
  <2> DEFINE w == [writes[i] EXCEPT !.failed = TRUE]
  <2>1. /\ w \in Operations /\ w.sent = 0 /\ w.len = writes[i].len
        /\ w.close = writes[i].close
    BY <1>1 DEF Operations
  <2>2. writes' = [writes EXCEPT ![i] = w]
    OBVIOUS
  <2> HIDE DEF w
  <2>3. /\ writes' \in Seq(Operations) /\ Len(writes') = Len(writes)
        /\ \A j \in 1..Len(writes) : writes'[j] = IF j = i THEN w ELSE writes[j]
    <3>1. writes \in Seq(Operations) /\ i \in 1..Len(writes)
      BY <1>1, Sizes
    <3>2. w \in Operations
      BY <2>1
    <3>3. /\ [writes EXCEPT ![i] = w] \in Seq(Operations)
          /\ Len([writes EXCEPT ![i] = w]) = Len(writes)
          /\ \A j \in 1..Len(writes) : [writes EXCEPT ![i] = w][j] = IF j = i THEN w ELSE writes[j]
      BY <3>1, <3>2, ExceptSeq
    <3> QED  BY <2>2, <3>3, Zenon
  <2> QED  BY <1>1, <2>1, <2>3 DEF WritesAreParts
<1>5. TypeOK'
  BY <1>2, <1>3, <1>4 DEF TypeOK
<1>6. ReadsAreCounted' /\ BuffersAreUsed'
  BY <1>2, <1>3 DEF ReadsAreCounted, BuffersAreUsed
<1>7. WritesAreParts' /\ StateIsNext'
  BY <1>2, <1>3, <1>4 DEF WritesAreParts, StateIsNext
<1>8. ForcedIsFirst'
  BY <1>1, <1>2, <1>3, <1>4, Sizes, EmptySeq DEF ForcedIsFirst
<1>9. StreamIsWhole'
  <2>1. Done' = Done /\ Base' = Base /\ writes' # <<>> /\ writes # <<>>
    BY <1>1, <1>2, <1>3, <1>4, Sizes, EmptySeq DEF Done, Base
  <2> QED  BY <1>2, <1>3, <2>1 DEF StreamIsWhole, Numbered
<1> QED  BY <1>5, <1>6, <1>7, <1>8, <1>9

\* What starting a write adds.
LEMMA Started ==
    ASSUME TypeOK, NEW len \in Nat, NEW close \in BOOLEAN, AsyncWrite(len, close)
    PROVE  /\ writes' \in Seq(Operations) /\ writes' # <<>> /\ Len(writes') = Len(writes) + 1
           /\ \A i \in 1..Len(writes) : writes'[i] = writes[i]
           /\ LET last == writes'[Len(writes) + 1]
              IN  last.len = len /\ last.sent = 0 /\ ~last.failed /\ last.close = close
<1> DEFINE w == [len |-> len, sent |-> 0, failed |-> FALSE, close |-> close]
<1>1. /\ w \in Operations /\ w.len = len /\ w.sent = 0 /\ ~w.failed /\ w.close = close
  BY DEF Operations
<1>2. writes' = Append(writes, w) /\ writes \in Seq(Operations)
  BY DEF AsyncWrite, TypeOK
<1> HIDE DEF w
<1>3. /\ Append(writes, w) \in Seq(Operations) /\ Append(writes, w) # <<>>
      /\ Len(Append(writes, w)) = Len(writes) + 1
      /\ \A i \in 1..Len(writes) : Append(writes, w)[i] = writes[i]
      /\ Append(writes, w)[Len(writes) + 1] = w
  BY <1>1, <1>2, AppendProperties
<1> QED  BY <1>1, <1>2, <1>3

\* A message is added to the buffer that is not being sent, and the timer or a forced
\* write is started when the connection was idle.
LEMMA WriteIInv ==
    ASSUME IInv, NEW force \in BOOLEAN, Write(force),
           UNCHANGED <<open, stored, reads, sent, lock>>,
           player' \in BOOLEAN, at' \in [Threads -> Labels], ReadsAreCounted',
           \A l \in {"flush", "complete"} : at'[Io] = l <=> at[Io] = l,
           at[Io] = "close" => at'[Io] = "close"
    PROVE  IInv'
<1> USE DEF IInv
<1> DEFINE m == Len(written) + 1
<1>0. /\ Len(written) \in Nat /\ Len(out) \in Nat /\ Len(writes) \in Nat /\ Len(wire) \in Nat
      /\ writes \in Seq(Operations) /\ m \in Nat
  BY Sizes
<1>1. /\ written' = Append(written, m) /\ wire' = wire /\ spoiled' = (spoiled \/ forced)
      /\ Buffer(m) /\ m \in Nat
  BY Sizes DEF Write
<1>2. \/ /\ state # "Idle" /\ UNCHANGED <<state, timer, writes, forced>>
      \/ /\ state = "Idle" /\ open /\ ~force /\ UNCHANGED <<writes, forced>>
         /\ state' = "Buffering" /\ timer' = TRUE
      \/ /\ state = "Idle" /\ ~open /\ ~force /\ UNCHANGED <<state, timer, writes, forced>>
      \/ /\ state = "Idle" /\ force /\ UNCHANGED <<state, timer>> /\ forced' = TRUE
         /\ AsyncWrite(Len(out'), TRUE)
  BY DEF Write, ForceSendAndClose, StartWriteFlushTimer
<1>3. /\ written' \in Seq(Nat) /\ Len(written') = Len(written) + 1
      /\ \A i \in 1..Len(written) : written'[i] = written[i]
      /\ written'[Len(written) + 1] = m
  BY <1>1, Sizes, AppendFacts
<1>4. Numbered(written', 0)
  <2>1. Numbered(written, 0)
    BY DEF StreamIsWhole
  <2>2. SUFFICES ASSUME NEW i \in 1..(Len(written) + 1) PROVE written'[i] = 0 + i
    BY <1>3 DEF Numbered
  <2>3. i \in 1..Len(written) \/ i = m
    BY <1>0
  <2> QED  BY <1>0, <1>3, <2>1, <2>3 DEF Numbered
<1>5. ~spoiled' => Numbered(wire', 0) /\ Len(wire') <= Len(written')
  <2>1. ASSUME ~spoiled PROVE Numbered(wire, 0) /\ Len(wire) <= Len(written)
    BY <2>1 DEF StreamIsWhole
  <2>2. ~spoiled => Len(wire) <= Len(written')
    BY <1>0, <1>3, <2>1
  <2> QED  BY <1>1, <2>1, <2>2
<1>6. CASE state = "Sending"
  <2>1. out' = out /\ second' = Append(second, m)
    BY <1>1, <1>6 DEF Buffer
  <2>2. second' \in Seq(Nat) /\ Len(second') = Len(second) + 1
    BY <1>1, <2>1, Sizes, AppendFacts
  <2>3. UNCHANGED <<state, timer, writes, forced>>
    BY <1>2, <1>6
  <2>4. TypeOK'
    BY <1>1, <1>3, <2>1, <2>2, <2>3 DEF TypeOK
  <2>5. WritesAreParts' /\ StateIsNext' /\ ForcedIsFirst' /\ BuffersAreUsed'
    BY <1>1, <1>6, <2>1, <2>3
       DEF WritesAreParts, StateIsNext, ForcedIsFirst, BuffersAreUsed
  <2>6. Numbered(written', 0)
    BY <1>4
  <2>7. Base' = Base /\ Done' = Done
    BY <1>3, <2>1, <2>2, <2>3, Sizes DEF Base, Done
  <2>8. ~spoiled' => Numbered(wire', 0) /\ Len(wire') <= Len(written')
    BY <1>5
  <2>9. ASSUME open', ~spoiled'
        PROVE  /\ Base' \in Nat /\ Numbered(out', Base') /\ Numbered(second', Base' + Len(out'))
               /\ ~forced' \/ writes' # <<>> => Len(wire') = Base' + Done'
    <3>1. open /\ ~spoiled /\ ~forced
      BY <1>1, <2>9
    <3>2. /\ Base \in Nat /\ Numbered(out, Base) /\ Numbered(second, Base + Len(out))
          /\ Len(wire) = Base + Done
      BY <3>1 DEF StreamIsWhole
    <3>3. m = (Base + Len(out)) + Len(second) + 1 /\ Base + Len(out) \in Nat
      BY <3>2, Sizes DEF Base
    <3>4. Numbered(second', Base + Len(out))
      BY <2>1, <3>2, <3>3, Sizes, NumberedAppend
    <3> QED  BY <1>1, <2>1, <2>7, <3>2, <3>4
  <2>10. StreamIsWhole'
    BY <2>6, <2>8, <2>9 DEF StreamIsWhole
  <2> QED  BY <2>4, <2>5, <2>10
<1>7. CASE state # "Sending"
  <2>1. second' = second /\ out' = Append(out, m)
    BY <1>1, <1>7 DEF Buffer
  <2>2. out' \in Seq(Nat) /\ Len(out') = Len(out) + 1
    BY <1>1, <2>1, Sizes, AppendFacts
  <2>3. state' # "Sending" /\ state' \in {"Idle", "Buffering"} /\ timer' \in BOOLEAN
        /\ forced' \in BOOLEAN /\ (forced => forced')
    <3>1. state \in {"Idle", "Buffering", "Sending"} /\ timer \in BOOLEAN /\ forced \in BOOLEAN
      BY DEF TypeOK
    <3>2. CASE UNCHANGED <<state, timer, forced>>
      BY <1>7, <3>1, <3>2
    <3>3. CASE state' = "Buffering" /\ timer' = TRUE /\ forced' = forced
      BY <3>1, <3>3
    <3>4. CASE state = "Idle" /\ UNCHANGED <<state, timer>> /\ forced' = TRUE
      BY <3>1, <3>4
    <3> QED  BY <1>2, <3>2, <3>3, <3>4
  <2>4. \/ writes' = writes /\ forced' = forced
        \/ /\ state = "Idle" /\ state' = "Idle" /\ timer' = timer /\ forced' = TRUE
           /\ AsyncWrite(Len(out'), TRUE)
    BY <1>2
  <2>5. /\ writes' \in Seq(Operations) /\ Len(writes') \in {Len(writes), Len(writes) + 1}
        /\ \A i \in 1..Len(writes) : writes'[i] = writes[i]
        /\ Len(writes') = Len(writes) + 1 =>
              LET last == writes'[Len(writes) + 1]
              IN  last.len = Len(out') /\ last.sent = 0 /\ ~last.failed /\ last.close
    <3>1. CASE AsyncWrite(Len(out'), TRUE)
      <4>1. Len(out') \in Nat
        BY <1>0, <2>2
      <4> QED  BY <3>1, <4>1, Started
    <3>2. CASE writes' = writes
      BY <1>0, <3>2
    <3> QED  BY <2>4, <3>1, <3>2
  <2>6. TypeOK'
    BY <1>1, <1>3, <2>1, <2>2, <2>3, <2>5 DEF TypeOK
  <2>7. WritesAreParts'
    <3>1. SUFFICES ASSUME NEW i \in 1..Len(writes')
          PROVE  /\ writes'[i].sent <= writes'[i].len /\ writes'[i].len <= Len(out')
                 /\ writes'[i].failed => writes'[i].sent = 0
      BY DEF WritesAreParts
    <3>2. CASE i \in 1..Len(writes)
      <4>1. writes[i].len \in Nat /\ writes'[i] = writes[i]
        BY <2>5, <3>2, Sizes DEF Operations
      <4> QED  BY <1>0, <2>2, <3>2, <4>1 DEF WritesAreParts
    <3>3. CASE Len(writes') = Len(writes) + 1 /\ i = Len(writes) + 1
      BY <1>0, <2>2, <2>5, <3>3
    <3> QED  BY <1>0, <2>5, <3>2, <3>3
  <2>8. StateIsNext'
    <3>1. at[Io] # "complete" /\ at'[Io] # "complete" /\ \A i \in 1..Len(writes) : writes[i].close
      BY <1>7 DEF StateIsNext
    <3>2. \A i \in 1..Len(writes') : writes'[i].close
      <4>1. SUFFICES ASSUME NEW i \in 1..Len(writes') PROVE writes'[i].close
        OBVIOUS
      <4>2. i \in 1..Len(writes) \/ (Len(writes') = Len(writes) + 1 /\ i = Len(writes) + 1)
        BY <1>0, <2>5
      <4> QED  BY <2>5, <3>1, <4>2
    <3>3. timer' => state' = "Buffering" /\ at'[Io] # "flush"
      BY <1>2, <1>7 DEF StateIsNext
    <3>4. at'[Io] = "flush" => state' = "Buffering"
      BY <1>2, <1>7 DEF StateIsNext
    <3> QED  BY <3>1, <3>2, <3>3, <3>4 DEF StateIsNext
  <2>9. ForcedIsFirst'
    <3>1. \A i \in 1..Len(writes) : writes[i].close
      BY <1>7 DEF StateIsNext
    <3>2. spoiled' => forced'
      BY <1>1, <2>3 DEF ForcedIsFirst
    <3>3. CASE writes' = writes /\ forced' = forced
      <4>1. ~forced' => \A i \in 1..Len(writes') : ~writes'[i].close
        BY <3>3 DEF ForcedIsFirst
      <4>2. open' /\ forced' => (writes' # <<>> /\ writes'[1].close) \/ at'[Io] = "close"
        BY <3>3 DEF ForcedIsFirst
      <4>3. forced' => spoiled'
        BY <1>1, <3>3
      <4> QED  BY <3>2, <4>1, <4>2, <4>3 DEF ForcedIsFirst
    <3>4. CASE state' = "Idle" /\ forced' = TRUE /\ AsyncWrite(Len(out'), TRUE)
      <4>1. writes' # <<>> /\ Len(writes') = Len(writes) + 1
        <5>1. Len(out') \in Nat
          BY <1>0, <2>2
        <5> QED  BY <3>4, <5>1, Started
      <4>2. writes'[1].close
        <5>1. 1 \in 1..Len(writes) \/ Len(writes) + 1 = 1
          BY <1>0
        <5> QED  BY <2>5, <3>1, <4>1, <5>1
      <4>3. open' /\ ~spoiled' => Len(writes') <= 1
        <5>1. SUFFICES ASSUME open, ~spoiled, ~forced PROVE Len(writes') <= 1
          BY <1>1
        <5>2. writes = <<>>
          BY <1>7, <5>1, OneWrite
        <5> QED  BY <4>1, <5>2, Sizes
      <4> QED  BY <3>2, <3>4, <4>1, <4>2, <4>3 DEF ForcedIsFirst
    <3> QED  BY <2>4, <3>3, <3>4
  <2>10. BuffersAreUsed'
    <3>1. ASSUME open', ~spoiled' PROVE second' = <<>>
      BY <1>1, <1>7, <2>1, <3>1 DEF BuffersAreUsed
    <3>2. ASSUME open', ~forced' PROVE state' # "Idle"
      BY <1>2, <1>7, <3>2
    <3> QED  BY <3>1, <3>2 DEF BuffersAreUsed
  <2>11. StreamIsWhole'
    <3>1. Numbered(written', 0)
      BY <1>4
    <3>2. ~spoiled' => Numbered(wire', 0) /\ Len(wire') <= Len(written')
      BY <1>5
    <3>3. ASSUME open', ~spoiled'
          PROVE  /\ Base' \in Nat /\ Numbered(out', Base') /\ Numbered(second', Base' + Len(out'))
                 /\ ~forced' \/ writes' # <<>> => Len(wire') = Base' + Done'
      <4>1. open /\ ~spoiled /\ ~forced
        BY <1>1, <3>3
      <4>2. /\ Base \in Nat /\ Numbered(out, Base) /\ Len(wire) = Base + Done
        BY <4>1 DEF StreamIsWhole
      <4>3. second = <<>> /\ Len(second) = 0 /\ writes = <<>> /\ at[Io] # "complete"
        BY <1>7, <4>1, OneWrite, EmptySeq DEF BuffersAreUsed, StateIsNext
      <4>4. Base' = Base
        BY <1>3, <2>1, <2>2, <4>3, Sizes DEF Base
      <4>5. m = Base + Len(out) + 1
        BY <4>3, Sizes DEF Base
      <4>6. Numbered(out', Base)
        BY <2>1, <4>2, <4>5, Sizes, NumberedAppend
      <4>7. Numbered(second', Base' + Len(out'))
        BY <2>1, <4>3 DEF Numbered
      <4>8. Done = 0 /\ Done' = 0
        <5>1. Len(writes) = 0 /\ at'[Io] # "complete"
          BY <4>3, EmptySeq
        <5>2. writes' # <<>> => writes'[1].sent = 0
          BY <2>5, <5>1, EmptySeq
        <5> QED  BY <4>3, <5>1, <5>2 DEF Done
      <4> QED  BY <1>1, <4>2, <4>4, <4>6, <4>7, <4>8
    <3> QED  BY <3>1, <3>2, <3>3 DEF StreamIsWhole
  <2> QED  BY <2>6, <2>7, <2>8, <2>9, <2>10, <2>11
<1> QED  BY <1>6, <1>7

LEMMA WritingIInv ==
    ASSUME IInv, Process \/ \E u \in Users : SendPacketWrites(u)
    PROVE  IInv'
<1> USE SocketAssumption DEF IInv
<1>1. /\ Io \in Threads /\ reads \in Nat /\ player \in BOOLEAN
      /\ "reread" \in Labels /\ "idle" \in Labels /\ TypeOK
  BY DEF TypeOK, Threads, Labels
<1>2. CASE Process
  <2>1. /\ at[Io] = "process" /\ at'[Io] = "reread" /\ at' \in [Threads -> Labels] /\ reads > 0
        /\ UNCHANGED <<open, stored, reads, sent, lock>> /\ player' \in BOOLEAN
    BY <1>1, <1>2, Going DEF Process, ReadsAreCounted
  <2>2. ReadsAreCounted'
    BY <2>1 DEF ReadsAreCounted
  <2>3. CASE UNCHANGED <<out, second, timer, writes, state, ghosts>>
    <3>1. UNCHANGED <<buffers, ghosts>>
      BY <2>3 DEF buffers
    <3>2. TypeOK'
      BY <2>1, <2>3 DEF TypeOK, ghosts
    <3> QED  BY <2>1, <2>2, <3>1, <3>2, Frame
  <2>4. CASE \E force \in BOOLEAN : Write(force)
    BY <2>1, <2>2, <2>4, WriteIInv
  <2> QED  BY <1>2, <2>3, <2>4 DEF Process
<1>3. CASE \E u \in Users : SendPacketWrites(u)
  <2> PICK u \in Users : SendPacketWrites(u)
    BY <1>3
  <2>1. u \in Threads /\ u # Io
    BY DEF Threads
  <2>2. /\ at' \in [Threads -> Labels] /\ at'[Io] = at[Io] /\ Write(FALSE)
        /\ UNCHANGED <<open, stored, player, reads, sent, lock>>
    BY <1>1, <2>1, Going DEF SendPacketWrites
  <2>3. ReadsAreCounted'
    BY <2>2 DEF ReadsAreCounted
  <2> QED  BY <1>1, <2>2, <2>3, WriteIInv
<1> QED  BY <1>2, <1>3

LEMMA FlushOutIInv == ASSUME IInv, FlushOut PROVE IInv'
<1> USE SocketAssumption DEF IInv
<1>1. /\ timer /\ timer' = FALSE /\ at[Io] = "run" /\ state = "Buffering"
      /\ UNCHANGED <<open, stored, player, out, second, writes, reads, sent, lock>>
      /\ UNCHANGED <<written, wire, forced, spoiled>>
  BY DEF FlushOut, StateIsNext, ghosts
<1>2. /\ at' \in [Threads -> Labels] /\ at'[Io] \in {"run", "flush"}
      /\ state' \in {"Idle", "Buffering"}
      /\ at'[Io] = "flush" => state' = "Buffering"
      /\ open => state' = "Buffering"
  <2>1. Io \in Threads /\ "flush" \in Labels /\ at \in [Threads -> Labels]
    BY DEF Threads, Labels, TypeOK
  <2>2. CASE open
    BY <1>1, <2>1, <2>2, Going DEF FlushOut
  <2>3. CASE ~open
    BY <1>1, <2>1, <2>3 DEF FlushOut
  <2> QED  BY <2>2, <2>3
<1>3. TypeOK'
  BY <1>1, <1>2 DEF TypeOK
<1>4. ReadsAreCounted' /\ WritesAreParts'
  BY <1>1, <1>2 DEF ReadsAreCounted, WritesAreParts
<1>5. StateIsNext'
  BY <1>1, <1>2 DEF StateIsNext
<1>6. ForcedIsFirst' /\ BuffersAreUsed'
  BY <1>1, <1>2 DEF ForcedIsFirst, BuffersAreUsed
<1>7. StreamIsWhole'
  <2>1. Base' = Base /\ Done' = Done
    BY <1>1, <1>2 DEF Base, Done
  <2> QED  BY <1>1, <2>1 DEF StreamIsWhole, Numbered
<1> QED  BY <1>3, <1>4, <1>5, <1>6, <1>7

LEMMA FlushOutSendsIInv == ASSUME IInv, FlushOutSends PROVE IInv'
<1> USE SocketAssumption DEF IInv
<1>1. /\ at[Io] = "flush" /\ state = "Buffering" /\ state' = "Sending" /\ ~timer
      /\ UNCHANGED <<open, stored, player, out, second, timer, reads, sent, lock>>
      /\ UNCHANGED <<written, wire, forced, spoiled>>
  BY DEF FlushOutSends, StateIsNext, ghosts
<1>2. at' \in [Threads -> Labels] /\ at'[Io] = "run"
  <2>1. Io \in Threads /\ "run" \in Labels
    BY DEF Threads, Labels
  <2> QED  BY <2>1, Going DEF FlushOutSends
<1>3. /\ writes' \in Seq(Operations) /\ writes' # <<>> /\ Len(writes') = Len(writes) + 1
      /\ \A i \in 1..Len(writes) : writes'[i] = writes[i]
      /\ LET last == writes'[Len(writes) + 1]
         IN  last.len = Len(out) /\ last.sent = 0 /\ ~last.failed /\ ~last.close
  BY Started, Sizes DEF FlushOutSends
<1>4. Len(writes) \in Nat /\ Len(out) \in Nat
  BY Sizes
<1>5. \A i \in 1..Len(writes') :
        i \in 1..Len(writes) \/ i = Len(writes) + 1
  BY <1>3, <1>4
<1>6. \A i \in 1..Len(writes) : writes[i].close
  BY <1>1 DEF StateIsNext
<1>7. TypeOK'
  BY <1>1, <1>2, <1>3 DEF TypeOK
<1>8. ReadsAreCounted'
  BY <1>2 DEF ReadsAreCounted
<1>9. WritesAreParts'
  <2>1. SUFFICES ASSUME NEW i \in 1..Len(writes')
        PROVE  /\ writes'[i].sent <= writes'[i].len /\ writes'[i].len <= Len(out)
               /\ writes'[i].failed => writes'[i].sent = 0
    BY <1>1 DEF WritesAreParts
  <2>2. CASE i \in 1..Len(writes)
    BY <1>3, <2>2 DEF WritesAreParts
  <2>3. CASE i = Len(writes) + 1
    BY <1>3, <1>4, <2>3
  <2> QED  BY <1>5, <2>2, <2>3
<1>10. StateIsNext'
  <2>1. \A i \in 1..Len(writes') : ~writes'[i].close => i = Len(writes) + 1
    BY <1>3, <1>5, <1>6
  <2> QED  BY <1>1, <1>2, <2>1 DEF StateIsNext
<1>11. ForcedIsFirst'
  <2>1. ~forced => \A i \in 1..Len(writes') : ~writes'[i].close
    BY <1>3, <1>5 DEF ForcedIsFirst
  <2>2. open /\ forced => writes'[1].close
    <3>1. SUFFICES ASSUME open, forced PROVE writes'[1].close
      OBVIOUS
    <3>2. writes # <<>>
      BY <1>1, <3>1 DEF ForcedIsFirst
    <3>3. 1 \in 1..Len(writes)
      BY <3>2, Sizes
    <3> QED  BY <1>3, <1>6, <3>3
  <2>3. open /\ forced => spoiled
    BY <1>1 DEF ForcedIsFirst
  <2> QED  BY <1>1, <1>3, <2>1, <2>2, <2>3 DEF ForcedIsFirst
<1>12. BuffersAreUsed'
  BY <1>1 DEF BuffersAreUsed
<1>13. StreamIsWhole'
  <2>1. Base' = Base
    BY <1>1 DEF Base
  <2>2. ASSUME open, ~spoiled PROVE Done = 0 /\ Done' = 0 /\ ~forced
    <3>1. ~forced
      BY <1>1, <2>2 DEF ForcedIsFirst
    <3>2. writes = <<>> /\ Len(writes) = 0
      BY <1>1, <2>2, <3>1, OneWrite, EmptySeq
    <3>3. writes'[1].sent = 0
      BY <1>3, <3>2
    <3> QED  BY <1>1, <1>2, <1>3, <3>1, <3>2, <3>3 DEF Done
  <2>3. ASSUME open, ~spoiled
        PROVE  /\ Base \in Nat /\ Numbered(out, Base) /\ Numbered(second, Base + Len(out))
               /\ Len(wire) = Base + Done
    BY <2>2, <2>3 DEF StreamIsWhole
  <2> QED  BY <1>1, <2>1, <2>2, <2>3 DEF StreamIsWhole, Numbered
<1> QED  BY <1>7, <1>8, <1>9, <1>10, <1>11, <1>12, <1>13

LEMMA OnWriteCompleteIInv == ASSUME IInv, OnWriteComplete PROVE IInv'
<1> USE SocketAssumption DEF IInv
<1>1. /\ at[Io] = "run" /\ writes # <<>>
      /\ UNCHANGED <<open, stored, player, out, second, timer, reads, lock>>
      /\ UNCHANGED <<written, wire, forced, spoiled>>
  BY DEF OnWriteComplete, ghosts
<1>2. /\ Len(writes) \in Nat /\ 1 \in 1..Len(writes) /\ writes[1] \in Operations
      /\ Head(writes) = writes[1] /\ Len(out) \in Nat
  BY <1>1, Sizes
<1>3. /\ writes' \in Seq(Operations) /\ Len(writes') = Len(writes) - 1
      /\ \A i \in 1..Len(writes') : writes'[i] = writes[i + 1]
      /\ sent' = writes[1].sent /\ sent' \in Nat
  <2>1. writes \in Seq(Operations)
    BY Sizes
  <2> QED  BY <1>1, <1>2, <2>1, HeadTailProperties DEF OnWriteComplete, Operations
<1>4. \A i \in 1..Len(writes') : i + 1 \in 1..Len(writes) /\ i + 1 # 1
  BY <1>2, <1>3
<1>5. /\ at' \in [Threads -> Labels]
      /\ \/ /\ at'[Io] = "close" /\ state' = state /\ (writes[1].close \/ writes[1].failed)
         \/ /\ at'[Io] = "complete" /\ state' = state /\ open /\ ~writes[1].close
         \/ /\ at'[Io] = "run" /\ state' = "Idle" /\ ~open /\ ~writes[1].close
  <2>1. Io \in Threads /\ {"close", "complete"} \subseteq Labels /\ at \in [Threads -> Labels]
        /\ open \in BOOLEAN
    BY DEF Threads, Labels, TypeOK
  <2>2. CASE writes[1].close \/ writes[1].failed
    BY <1>2, <2>1, <2>2, Going DEF OnWriteComplete
  <2>3. CASE ~(writes[1].close \/ writes[1].failed) /\ open
    BY <1>2, <2>1, <2>3, Going DEF OnWriteComplete
  <2>4. CASE ~(writes[1].close \/ writes[1].failed) /\ ~open
    BY <1>1, <1>2, <2>1, <2>4 DEF OnWriteComplete
  <2> QED  BY <2>2, <2>3, <2>4
<1>6. ~writes[1].close => /\ state = "Sending" /\ \A i \in 1..Len(writes') : writes'[i].close
  BY <1>2, <1>3, <1>4 DEF StateIsNext
<1>7. TypeOK'
  BY <1>1, <1>3, <1>5 DEF TypeOK
<1>8. ReadsAreCounted' /\ WritesAreParts'
  BY <1>1, <1>3, <1>4, <1>5 DEF ReadsAreCounted, WritesAreParts
<1>9. StateIsNext'
  <2>1. timer => state' = "Buffering" /\ at'[Io] # "flush"
    BY <1>1, <1>5, <1>6 DEF StateIsNext
  <2>2. at'[Io] = "complete" => state' = "Sending" /\ sent' <= Len(out) /\ ~forced
    <3>1. SUFFICES ASSUME at'[Io] = "complete"
          PROVE  state' = "Sending" /\ sent' <= Len(out) /\ ~forced
      OBVIOUS
    <3>2. open /\ ~writes[1].close /\ state' = state
      BY <1>5, <3>1
    <3>3. state = "Sending" /\ ~forced
      BY <1>1, <1>6, <3>2 DEF ForcedIsFirst
    <3>4. writes[1].sent <= writes[1].len /\ writes[1].len <= Len(out)
      BY <1>2 DEF WritesAreParts
    <3>5. writes[1].sent \in Nat /\ writes[1].len \in Nat
      BY <1>2 DEF Operations
    <3> QED  BY <1>2, <1>3, <3>2, <3>3, <3>4, <3>5
  <2>3. \A i \in 1..Len(writes') : ~writes'[i].close => state' = "Sending" /\ at'[Io] # "complete"
    BY <1>3, <1>4, <1>5, <1>6 DEF StateIsNext
  <2>4. \A i, j \in 1..Len(writes') : ~writes'[i].close /\ ~writes'[j].close => i = j
    <3>1. SUFFICES ASSUME NEW i \in 1..Len(writes'), NEW j \in 1..Len(writes'),
                          ~writes'[i].close, ~writes'[j].close
          PROVE  i = j
      OBVIOUS
    <3>2. i + 1 = j + 1
      BY <1>3, <1>4, <3>1 DEF StateIsNext
    <3> QED  BY <3>2
  <2> QED  BY <1>1, <1>5, <2>1, <2>2, <2>3, <2>4 DEF StateIsNext
<1>10. ForcedIsFirst'
  <2>1. ~forced => \A i \in 1..Len(writes') : ~writes'[i].close
    BY <1>3, <1>4 DEF ForcedIsFirst
  <2>2. open /\ forced => at'[Io] = "close" /\ state' = state
    BY <1>1, <1>5 DEF ForcedIsFirst
  <2> QED  BY <1>1, <1>2, <1>3, <2>1, <2>2 DEF ForcedIsFirst
<1>11. BuffersAreUsed'
  BY <1>1, <1>5 DEF BuffersAreUsed
<1>12. StreamIsWhole'
  <2>1. Base' = Base
    BY <1>1 DEF Base
  <2>2. ASSUME open, ~spoiled PROVE (~forced => Done' = Done) /\ writes' = <<>>
    <3>1. Len(writes) = 1 /\ writes' = <<>>
      BY <1>1, <1>2, <1>3, <2>2, OneWrite, EmptySeq
    <3>2. Done = writes[1].sent
      BY <1>1 DEF Done
    <3>3. ASSUME ~forced PROVE Done' = writes[1].sent
      <4>1. CASE at'[Io] = "complete"
        BY <1>3, <4>1 DEF Done
      <4>2. CASE at'[Io] = "close"
        <5>1. writes[1].failed
          BY <1>2, <1>5, <3>3, <4>2 DEF ForcedIsFirst
        <5>2. writes[1].sent = 0
          BY <1>2, <5>1 DEF WritesAreParts
        <5> QED  BY <3>1, <4>2, <5>2 DEF Done
      <4> QED  BY <1>5, <2>2, <4>1, <4>2
    <3> QED  BY <3>1, <3>2, <3>3
  <2>3. ASSUME open, ~spoiled
        PROVE  /\ Base \in Nat /\ Numbered(out, Base) /\ Numbered(second, Base + Len(out))
               /\ Len(wire) = Base + Done
    BY <1>1, <2>3 DEF StreamIsWhole
  <2> QED  BY <1>1, <2>1, <2>2, <2>3 DEF StreamIsWhole, Numbered
<1> QED  BY <1>7, <1>8, <1>9, <1>10, <1>11, <1>12

LEMMA OnWriteCompletesIInv == ASSUME IInv, OnWriteCompletes PROVE IInv'
<1> USE SocketAssumption DEF IInv
<1>1. /\ at[Io] = "complete" /\ state = "Sending" /\ sent <= Len(out) /\ ~forced /\ ~timer
      /\ UNCHANGED <<open, stored, player, timer, reads, sent, lock>>
      /\ UNCHANGED <<written, wire, forced, spoiled>>
  BY DEF OnWriteCompletes, StateIsNext, ghosts
<1>2. at' \in [Threads -> Labels] /\ at'[Io] = "run"
  <2>1. Io \in Threads /\ "run" \in Labels
    BY DEF Threads, Labels
  <2> QED  BY <2>1, Going DEF OnWriteCompletes
<1>3. writes = <<>> /\ Len(writes) = 0 /\ ~spoiled
  <2>1. \A i \in 1..Len(writes) : FALSE
    BY <1>1 DEF ForcedIsFirst, StateIsNext
  <2>2. writes = <<>>
    <3>1. SUFFICES ASSUME writes # <<>> PROVE 1 \in 1..Len(writes)
      BY <2>1
    <3> QED  BY <3>1, Sizes
  <2> QED  BY <1>1, <2>2, EmptySeq DEF ForcedIsFirst
<1>4. /\ out \in Seq(Nat) /\ second \in Seq(Nat) /\ Len(out) \in Nat /\ Len(second) \in Nat
      /\ sent \in 0..Len(out) /\ Len(written) \in Nat
  BY <1>1, Sizes DEF TypeOK
<1>5. Unsent \in Seq(Nat) /\ Len(Unsent) = Len(out) - sent
  <2>1. \A j \in (sent + 1)..Len(out) : out[j] \in Nat
    <3>1. (sent + 1)..Len(out) \subseteq 1..Len(out)
      BY <1>4
    <3> QED  BY <1>4, <3>1, ElementOfSeq
  <2>2. sent + 1 \in Int /\ Len(out) \in Int
    BY <1>4
  <2>3. /\ SubSeq(out, sent + 1, Len(out)) \in Seq(Nat)
        /\ Len(SubSeq(out, sent + 1, Len(out))) =
              IF sent + 1 <= Len(out) THEN Len(out) - (sent + 1) + 1 ELSE 0
    BY <2>1, <2>2, SubSeqProperties
  <2> QED  BY <1>4, <2>3 DEF Unsent
<1>6. /\ LeftOver \in Seq(Nat) /\ Len(LeftOver) = (Len(out) - sent) + Len(second)
      /\ Len(LeftOver) \in Nat
  <2>1. LeftOver \in Seq(Nat) /\ Len(LeftOver) = Len(Unsent) + Len(second)
    BY <1>4, <1>5, ConcatProperties DEF LeftOver
  <2> QED  BY <1>4, <1>5, <2>1
<1>7. /\ out' = LeftOver /\ second' = <<>> /\ second' \in Seq(Nat) /\ Len(second') = 0
      /\ \/ LeftOver # <<>> /\ AsyncWrite(Len(LeftOver), FALSE) /\ state' = "Sending"
         \/ LeftOver = <<>> /\ writes' = <<>> /\ state' = "Idle"
  BY <1>1, <1>3, EmptySeq DEF OnWriteCompletes, SendRest
<1>8. \/ /\ LeftOver = <<>> /\ writes' = <<>> /\ Len(writes') = 0 /\ state' = "Idle"
      \/ /\ state' = "Sending" /\ writes' # <<>> /\ Len(writes') = 1
         /\ writes'[1].len = Len(LeftOver) /\ writes'[1].sent = 0
         /\ ~writes'[1].failed /\ ~writes'[1].close
  <2>1. CASE LeftOver # <<>>
    <3>1. AsyncWrite(Len(LeftOver), FALSE) /\ state' = "Sending"
      BY <1>7, <2>1
    <3>2. /\ writes' # <<>> /\ Len(writes') = 0 + 1
          /\ LET last == writes'[0 + 1]
             IN  last.len = Len(LeftOver) /\ last.sent = 0 /\ ~last.failed /\ ~last.close
      BY <1>3, <1>6, <3>1, Started
    <3> QED  BY <3>1, <3>2
  <2>2. CASE LeftOver = <<>>
    BY <1>7, <2>2, EmptySeq
  <2> QED  BY <2>1, <2>2
<1>9. writes' \in Seq(Operations)
  <2>1. CASE LeftOver # <<>>
    BY <1>6, <1>7, <2>1, Started
  <2>2. CASE LeftOver = <<>>
    BY <1>7, <2>2, EmptySeq
  <2> QED  BY <2>1, <2>2
<1>10. TypeOK'
  BY <1>1, <1>2, <1>6, <1>7, <1>9 DEF TypeOK
<1>11. ReadsAreCounted'
  BY <1>2 DEF ReadsAreCounted
<1>12. \A i \in 1..Len(writes') : i = 1 /\ writes' # <<>> /\ Len(writes') = 1
  <2>1. CASE Len(writes') = 0
    BY <2>1
  <2>2. CASE Len(writes') = 1 /\ writes' # <<>>
    BY <2>2
  <2> QED  BY <1>8, <2>1, <2>2
<1>13. WritesAreParts'
  <2>1. SUFFICES ASSUME NEW i \in 1..Len(writes')
        PROVE  /\ writes'[i].sent <= writes'[i].len /\ writes'[i].len <= Len(out')
               /\ writes'[i].failed => writes'[i].sent = 0
    BY DEF WritesAreParts
  <2>2. i = 1 /\ Len(writes') = 1
    BY <1>12
  <2> QED  BY <1>6, <1>7, <1>8, <2>2
<1>14. StateIsNext'
  BY <1>1, <1>2, <1>8, <1>12 DEF StateIsNext
<1>15. ForcedIsFirst'
  BY <1>1, <1>3, <1>8, <1>12 DEF ForcedIsFirst
<1>16. BuffersAreUsed'
  BY <1>7, <1>8 DEF BuffersAreUsed
<1>17. StreamIsWhole'
  <2>1. Numbered(written', 0) /\ Numbered(wire', 0) /\ Len(wire') <= Len(written')
    BY <1>1, <1>3 DEF StreamIsWhole
  <2>2. Done' = 0
    BY <1>2, <1>8 DEF Done
  <2>3. Base' = Base + sent
    <3>1. Base' = Len(written) - (((Len(out) - sent) + Len(second)) + 0)
      BY <1>1, <1>6, <1>7 DEF Base
    <3> QED  BY <1>4, <3>1 DEF Base
  <2>4. ASSUME open
        PROVE  /\ Base' \in Nat /\ Numbered(out', Base') /\ Numbered(second', Base' + Len(out'))
               /\ Len(wire') = Base' + Done'
    <3>1. /\ Base \in Nat /\ Numbered(out, Base) /\ Numbered(second, Base + Len(out))
          /\ Len(wire) = Base + sent
      BY <1>1, <1>3, <2>4 DEF StreamIsWhole, Done
    <3>2. Numbered(Unsent, Base + sent)
      BY <1>4, <3>1, NumberedRest DEF Unsent
    <3>3. (Base + sent) + Len(Unsent) = Base + Len(out) /\ Base + sent \in Nat
      BY <1>4, <1>5, <3>1
    <3>4. Numbered(out', Base + sent)
      BY <1>4, <1>5, <1>7, <3>1, <3>2, <3>3, NumberedConcat DEF LeftOver
    <3>5. Numbered(second', Base' + Len(out'))
      BY <1>7 DEF Numbered
    <3> QED  BY <1>1, <2>2, <2>3, <3>1, <3>3, <3>4, <3>5
  <2> QED  BY <1>1, <2>1, <2>4 DEF StreamIsWhole
<1> QED  BY <1>10, <1>11, <1>13, <1>14, <1>15, <1>16, <1>17

-----------------------------------------------------------------------------
(* The theorems                                                            *)

\* The invariant holds in every state of a connection.
THEOREM Invariance == Spec => []IInv
<1>1. ASSUME IInv, [Next]_vars PROVE IInv'
  <2>1. CASE Transmit \/ Fail
    BY <1>1, <2>1, TransmitIInv, FailIInv
  <2>2. CASE Handlers
    BY <1>1, <2>2, QuietIInv, FlushOutIInv, OnWriteCompleteIInv DEF Handlers
  <2>3. CASE IoStep
    BY <1>1, <2>3, WritingIInv, QuietIInv, FlushOutSendsIInv, OnWriteCompletesIInv DEF IoStep
  <2>4. CASE \E u \in Users : UserStep(u)
    BY <1>1, <2>4, WritingIInv, QuietIInv DEF UserStep
  <2>5. CASE \E t \in Threads : CloseSocket(t) \/ RemoveSocket(t)
    BY <1>1, <2>5, QuietIInv
  <2>6. CASE DeletePlayer \/ Destroyed
    BY <1>1, <2>6, QuietIInv
  <2>7. CASE UNCHANGED vars
    <3>1. UNCHANGED <<buffers, sent, ghosts>> /\ open' = open /\ at' = at
      BY <2>7 DEF vars
    <3>2. TypeOK' /\ ReadsAreCounted'
      BY <1>1, <2>7 DEF IInv, TypeOK, ReadsAreCounted, vars, buffers, ghosts
    <3> QED  BY <1>1, <3>1, <3>2, Frame
  <2> QED  BY <1>1, <2>1, <2>2, <2>3, <2>4, <2>5, <2>6, <2>7 DEF Next
<1> QED  BY <1>1, InitIInv, PTL DEF Spec

\* Every variable of the model keeps its type.
THEOREM TypeCorrect == Spec => []TypeOK
<1>1. IInv => TypeOK
  BY DEF IInv
<1> QED  BY <1>1, Invariance, PTL

\* The assertions of FlushOut and OnWriteComplete never fail, although the state they
\* test was set by another step and other threads wrote in between.
THEOREM AssertionsHold == Spec => []AssertsHold
<1>1. IInv => AssertsHold
  BY DEF IInv, StateIsNext, AssertsHold
<1> QED  BY <1>1, Invariance, PTL

\* The client gets the messages in the order in which Write took them, each once, whatever
\* part of a buffer the system takes: the two buffers never overtake one another.
THEOREM StreamInOrder == Spec => []InOrder
<1>1. IInv => InOrder
  <2>1. SUFFICES ASSUME IInv, ~spoiled
        PROVE  Len(wire) <= Len(written) /\ wire = SubSeq(written, 1, Len(wire))
    BY DEF InOrder
  <2>2. /\ Numbered(written, 0) /\ Numbered(wire, 0) /\ Len(wire) <= Len(written)
        /\ wire \in Seq(Nat) /\ written \in Seq(Nat) /\ Len(wire) \in Nat /\ Len(written) \in Nat
    BY <2>1, Sizes DEF IInv, StreamIsWhole
  <2> DEFINE head == SubSeq(written, 1, Len(wire))
  <2>3. head \in Seq(Nat) /\ Len(head) = Len(wire) /\ Numbered(head, 0)
    <3>1. Len(wire) \in 0..Len(written)
      BY <2>2
    <3> QED  BY <2>2, <3>1, NumberedHead
  <2>4. \A i \in 1..Len(wire) : wire[i] = head[i]
    BY <2>2, <2>3 DEF Numbered
  <2>5. wire = head
    BY <2>2, <2>3, <2>4, SeqEqual
  <2> QED  BY <2>2, <2>5
<1> QED  BY <1>1, Invariance, PTL

\* A connection that is open and idle has sent all that was written to it.
THEOREM StreamIsSent == Spec => []NothingLost
<1>1. IInv => NothingLost
  <2>1. SUFFICES ASSUME IInv, open, state = "Idle", ~forced PROVE wire = written
    BY DEF NothingLost
  <2>2. ~spoiled
    BY <2>1 DEF IInv, ForcedIsFirst
  <2>3. out = <<>> /\ second = <<>> /\ writes = <<>> /\ at[Io] # "complete"
    BY <2>1, <2>2, OneWrite DEF IInv, BuffersAreUsed, StateIsNext
  <2>4. /\ Numbered(written, 0) /\ Numbered(wire, 0) /\ Len(wire) = Base + Done
        /\ wire \in Seq(Nat) /\ written \in Seq(Nat) /\ Len(written) \in Nat
    BY <2>1, <2>2, Sizes DEF IInv, StreamIsWhole
  <2>5. Done = 0 /\ Base = Len(written)
    <3>1. Len(out) = 0 /\ Len(second) = 0
      BY <2>3, EmptySeq
    <3> QED  BY <2>3, <2>4, <3>1 DEF Done, Base
  <2>6. Len(wire) = Len(written) /\ \A i \in 1..Len(wire) : wire[i] = written[i]
    BY <2>4, <2>5 DEF Numbered
  <2> QED  BY <2>4, <2>6, SeqEqual
<1> QED  BY <1>1, Invariance, PTL

-----------------------------------------------------------------------------
(* The stream                                                              *)

LEMMA StartsWith ==
    ASSUME NEW s \in Seq(Nat), NEW t \in Seq(Nat), Len(s) <= Len(t),
           \A i \in 1..Len(s) : t[i] = s[i]
    PROVE  Stream!Extends(t, s)
<1> DEFINE head == SubSeq(t, 1, Len(s))
<1>1. Len(s) \in Nat /\ Len(t) \in Nat /\ \A i \in 1..Len(s) : t[i] \in Nat
  BY LenProperties, ElementOfSeq
<1>2. /\ head \in Seq(Nat) /\ Len(head) = Len(s)
      /\ \A i \in 1..Len(s) : head[i] = t[i]
  BY <1>1, SubSeqProperties
<1>3. head = s
  BY <1>2, SeqEqual
<1> QED  BY <1>3 DEF Stream!Extends

\* The system takes the next part of a buffer: the client gets more, and of what was
\* written as long as nothing was written after a forced write.
LEMMA TransmitStream ==
    ASSUME IInv, TypeOK', InOrder', Transmit
    PROVE  Stream!Deliver \/ Stream!Garble
<1>0. PICK i \in DOMAIN writes : \E n \in 1..writes[i].len : wire' = wire \o SubSeq(out, 1, n)
  BY DEF Transmit
<1>1. PICK n \in 1..writes[i].len : wire' = wire \o SubSeq(out, 1, n)
  BY <1>0
<1>2. open /\ UNCHANGED <<open, written, forced, spoiled>>
  BY DEF Transmit
<1>3. n \in Nat /\ n <= Len(out)
  <2>1. writes[i].len \in Nat /\ writes[i].len <= Len(out) /\ Len(out) \in Nat
    <3>1. i \in 1..Len(writes) /\ writes[i] \in Operations /\ Len(out) \in Nat
      BY Sizes DEF IInv
    <3> QED  BY <3>1 DEF IInv, WritesAreParts, Operations
  <2> QED  BY <2>1
<1>4. SubSeq(out, 1, n) \in Seq(Nat)
  <2>1. out \in Seq(Nat) /\ Len(out) \in Nat
    BY Sizes DEF IInv
  <2>2. \A j \in 1..n : out[j] \in Nat
    BY <1>3, <2>1, ElementOfSeq
  <2> QED  BY <1>3, <2>2, SubSeqProperties
<1>5. wire \in Seq(Nat) /\ wire' \in Seq(Nat) /\ Len(wire) \in Nat
  BY Sizes DEF IInv, TypeOK
<1>6. Len(wire) <= Len(wire') /\ \A j \in 1..Len(wire) : wire'[j] = wire[j]
  <2>1. Len(SubSeq(out, 1, n)) \in Nat
    BY <1>4, LenProperties
  <2> QED  BY <1>1, <1>4, <1>5, <2>1, ConcatProperties
<1>7. Stream!Extends(wire', wire)
  BY <1>5, <1>6, StartsWith
<1>8. CASE spoiled
  BY <1>2, <1>7, <1>8 DEF Stream!Garble
<1>9. CASE ~spoiled
  <2>1. Stream!Extends(written, wire')
    BY <1>2, <1>9 DEF InOrder, Stream!Extends
  <2> QED  BY <1>2, <1>7, <1>9, <2>1 DEF Stream!Deliver
<1> QED  BY <1>8, <1>9

LEMMA WriteStream ==
    ASSUME IInv, NEW force \in BOOLEAN, Write(force), UNCHANGED open
    PROVE  Stream!Give
<1>1. written' = Append(written, Len(written) + 1) /\ spoiled' = (spoiled \/ forced)
      /\ UNCHANGED wire
  BY DEF Write
<1>2. forced' \in {forced, TRUE}
  BY DEF Write, ForceSendAndClose, StartWriteFlushTimer
<1>3. written \in Seq(Nat) /\ Len(written) \in Nat /\ Len(written) + 1 \in Nat
  BY Sizes DEF IInv
<1>4. written' \in Seq(Nat) /\ Len(written') = Len(written) + 1
      /\ \A i \in 1..Len(written) : written'[i] = written[i]
  BY <1>1, <1>3, AppendFacts
<1>5. Len(written) <= Len(written')
  BY <1>3, <1>4
<1>6. Stream!Extends(written', written)
  BY <1>3, <1>4, <1>5, StartsWith
<1> QED  BY <1>1, <1>2, <1>4, <1>6 DEF Stream!Give

LEMMA NextStream == IInv /\ TypeOK' /\ InOrder' /\ [Next]_vars => [Stream!Next]_Stream!vars
<1> SUFFICES ASSUME IInv, TypeOK', InOrder', [Next]_vars
             PROVE  [Stream!Next]_Stream!vars
  OBVIOUS
<1> USE DEF Stream!Next, Stream!vars
<1>1. CASE Transmit
  BY <1>1, TransmitStream
<1>2. ASSUME UNCHANGED <<ghosts, open>>
      PROVE  UNCHANGED Stream!vars
  BY <1>2 DEF ghosts
<1>3. CASE Fail \/ Handlers \/ DeletePlayer \/ Destroyed \/ UNCHANGED vars
  BY <1>2, <1>3 DEF Fail, Handlers, OnRead, FlushOut, OnWriteComplete, DeletePlayer,
                    Destroyed, vars
<1>4. CASE Process
  <2>1. UNCHANGED open
    BY <1>4 DEF Process
  <2>2. CASE UNCHANGED ghosts
    BY <1>2, <2>1, <2>2
  <2>3. CASE \E force \in BOOLEAN : Write(force)
    BY <2>1, <2>3, WriteStream
  <2> QED  BY <1>4, <2>2, <2>3 DEF Process
<1>5. CASE ProcessCloses \/ ProcessSkips \/ Reread \/ FlushOutSends \/ OnWriteCompletes
  BY <1>2, <1>5 DEF ProcessCloses, ProcessSkips, Reread, FlushOutSends, OnWriteCompletes
<1>6. ASSUME NEW u \in Users, SendPacketWrites(u)
      PROVE  Stream!Give
  BY <1>6, WriteStream DEF SendPacketWrites
<1>7. ASSUME NEW u \in Users, SendPacket(u) \/ KickPlayer(u)
      PROVE  UNCHANGED Stream!vars
  BY <1>2, <1>7 DEF SendPacket, KickPlayer
<1>8. ASSUME NEW t \in Threads, CloseSocket(t) \/ RemoveSocket(t)
      PROVE  UNCHANGED Stream!vars \/ Stream!Close
  BY <1>2, <1>8 DEF CloseSocket, RemoveSocket, Stream!Close, ghosts
<1> QED  BY <1>1, <1>3, <1>4, <1>5, <1>6, <1>7, <1>8 DEF Next, IoStep, UserStep

\* A connection implements the message stream: whatever threads write and whatever part
\* of a buffer the system takes, each step gives, delivers the next messages, or closes.
THEOREM StreamImplemented == Spec => ImplementsStream
<1>1. Init => Stream!Init
  BY DEF Init, Stream!Init
<1> QED
  BY <1>1, NextStream, Invariance, TypeCorrect, StreamInOrder, PTL
  DEF Spec, ImplementsStream, Stream!Spec

=============================================================================
