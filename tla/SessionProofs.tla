--------------------------- MODULE SessionProofs ---------------------------
(***************************************************************************)
(* The safety of the sessions, for any connections, accounts and bounds on *)
(* the packets: one ship per user, removals that find their player, logins *)
(* that lose nothing, and logouts that start afresh.                       *)
(***************************************************************************)
EXTENDS Session, SequenceTheorems, TLAPS

\* A Player is there from Load on, and its connection takes it to the world once.
PlayersAreLoaded ==
    \A c \in Conns :
        /\ obj[c] = "none" <=> net[c] \in {"login", "kick", "load"}
        /\ obj[c] = "none" => ~loggingOut[c] /\ ~elapsed[c]
        /\ net[c] = "kick" => found[c] \in Conns /\ User[c] \in overlapped
        /\ net[c] = "add" => obj[c] = "live" /\ players[User[c]] # c /\ ~Queued(c)

\* m_PlayerQueue holds living Players, each once, which m_Players does not have yet.
QueueIsFresh ==
    /\ \A i \in 1..Len(queue) : obj[queue[i]] = "live" /\ players[User[queue[i]]] # queue[i]
    /\ \A i, j \in 1..Len(queue) : queue[i] = queue[j] => i = j

\* m_Players has the living Player of each user, or the freed one it is about to lose.
PlayersAreTheirs ==
    /\ \A u \in Users : players[u] # None =>
          /\ User[players[u]] = u
          /\ obj[players[u]] = "live" \/ erasing = players[u]
          /\ obj[players[u]] # "none"
    /\ erasing # None =>
          /\ obj[erasing] = "freed" /\ players[User[erasing]] = erasing
          /\ \/ phase = "queue" /\ queue # <<>> /\ User[Head(queue)] = User[erasing]
             \/ phase = "removal"

\* The loops of the world visit what is there.
LoopsAreSound ==
    /\ \A c \in removal : obj[c] # "none"
    /\ phase = "queue" => todo = {}
    /\ phase = "packets" => \A c \in todo : obj[c] = "live" /\ players[User[c]] = c
    /\ phase = "removal" => todo \subseteq removal
    /\ phase = "zones" => todo \subseteq onMap
    /\ busy # None =>
          /\ phase \in {"packets", "zones"} /\ busy \notin todo
          /\ obj[busy] = "live" /\ players[User[busy]] = busy

\* A timer that has counted belongs to a logout, or the next removal loop resets it.
TimersAreReset ==
    \A c \in Conns : obj[c] = "live" /\ elapsed[c] =>
        /\ c \in removal
        /\ ~loggingOut[c] => \/ phase = "packets" /\ c \notin todo
                             \/ phase = "removal" /\ c \in todo

\* The Players of a user on their way to the world, or in it.
Present(c) ==
    net[c] \in {"kick", "load", "add"} \/ Queued(c) \/ players[User[c]] = c

\* A user whose logins never overlapped has one of them.
AloneIfClean ==
    \A c, d \in Conns :
        User[c] = User[d] /\ User[c] \notin overlapped /\ Present(c) /\ Present(d) => c = d

\* The inductive invariant.
IInv ==
    /\ TypeOK /\ PlayersAreLoaded /\ QueueIsFresh /\ PlayersAreTheirs /\ LoopsAreSound
    /\ TimersAreReset /\ AloneIfClean
    /\ OneShipPerUser /\ RemovalFindsPlayer /\ CleanLoginsLoseNothing

\* What the queue is after a Player was appended, or taken from its head.
LEMMA QueueAppend ==
    ASSUME TypeOK, NEW c \in Conns, queue' = Append(queue, c)
    PROVE  /\ Len(queue) \in Nat /\ queue' \in Seq(Conns) /\ Len(queue') = Len(queue) + 1
           /\ \A i \in 1..Len(queue) : queue[i] \in Conns /\ queue'[i] = queue[i]
           /\ queue'[Len(queue')] = c
           /\ queue # <<>> => queue' # <<>> /\ Head(queue') = Head(queue)
           /\ \A d \in Conns : Queued(d)' <=> Queued(d) \/ d = c
  <1>1. queue \in Seq(Conns)
    BY DEF TypeOK
  <1>2. /\ Len(queue) \in Nat /\ queue' \in Seq(Conns) /\ Len(queue') = Len(queue) + 1
        /\ \A i \in 1..Len(queue) : queue[i] \in Conns /\ queue'[i] = queue[i]
        /\ queue'[Len(queue')] = c
    BY <1>1
  <1>3. queue # <<>> => queue' # <<>> /\ Head(queue') = Head(queue)
    BY <1>1, <1>2
  <1>4. \A d \in Conns : Queued(d)' <=> Queued(d) \/ d = c
    BY <1>2 DEF Queued
  <1> QED
    BY <1>2, <1>3, <1>4

LEMMA QueueTail ==
    ASSUME TypeOK, queue # <<>>, queue' = Tail(queue)
    PROVE  /\ Len(queue) \in Nat /\ queue' \in Seq(Conns) /\ Len(queue') = Len(queue) - 1
           /\ Head(queue) = queue[1] /\ queue[1] \in Conns /\ 1 \in 1..Len(queue)
           /\ \A i \in 1..Len(queue') : queue'[i] = queue[i + 1] /\ queue'[i] \in Conns
           /\ \A d \in Conns : Queued(d) <=> Queued(d)' \/ d = Head(queue)
  <1>1. queue \in Seq(Conns)
    BY DEF TypeOK
  <1>2. /\ Len(queue) \in Nat \ {0} /\ queue' \in Seq(Conns) /\ Len(queue') = Len(queue) - 1
        /\ Head(queue) = queue[1] /\ queue[1] \in Conns
        /\ \A i \in 1..Len(queue') : queue'[i] = queue[i + 1]
    BY <1>1, HeadTailProperties, EmptySeq, LenProperties
  <1>3. \A i \in 1..Len(queue') : queue'[i] \in Conns
    BY <1>2, ElementOfSeq
  <1>4. \A d \in Conns : Queued(d) <=> Queued(d)' \/ d = Head(queue)
    <2> SUFFICES ASSUME NEW d \in Conns
                 PROVE  Queued(d) <=> Queued(d)' \/ d = Head(queue)
      OBVIOUS
    <2>1. ASSUME NEW i \in 1..Len(queue), queue[i] = d PROVE Queued(d)' \/ d = Head(queue)
      <3>1. CASE i = 1
        BY <1>2, <2>1, <3>1
      <3>2. CASE i # 1
        <4>1. i - 1 \in 1..Len(queue') /\ queue'[i - 1] = d
          BY <1>2, <2>1, <3>2
        <4> QED
          BY <4>1 DEF Queued
      <3> QED
        BY <3>1, <3>2
    <2>2. ASSUME NEW i \in 1..Len(queue'), queue'[i] = d PROVE Queued(d)
      <3>1. i + 1 \in 1..Len(queue) /\ queue[i + 1] = d
        BY <1>2, <2>2
      <3> QED
        BY <3>1 DEF Queued
    <2>3. d = Head(queue) => Queued(d)
      BY <1>2 DEF Queued
    <2> QED
      BY <2>1, <2>2, <2>3 DEF Queued
  <1> QED
    BY <1>2, <1>3, <1>4

LEMMA InitIInv == Init => IInv
  <1> SUFFICES ASSUME Init PROVE IInv
    OBVIOUS
  <1> USE SessionAssumption DEF Init
  <1>1. TypeOK
    BY EmptySeq DEF TypeOK, NetStates, Phases
  <1>2. Len(queue) = 0
    OBVIOUS
  <1>3. PlayersAreLoaded /\ QueueIsFresh /\ PlayersAreTheirs
    BY <1>2 DEF PlayersAreLoaded, QueueIsFresh, PlayersAreTheirs
  <1>4. LoopsAreSound /\ TimersAreReset
    BY DEF LoopsAreSound, TimersAreReset
  <1>5. AloneIfClean
    BY <1>2 DEF AloneIfClean, Present, Queued
  <1>6. OneShipPerUser /\ RemovalFindsPlayer /\ CleanLoginsLoseNothing
    BY DEF OneShipPerUser, RemovalFindsPlayer, CleanLoginsLoseNothing
  <1> QED
    BY <1>1, <1>3, <1>4, <1>5, <1>6 DEF IInv

-----------------------------------------------------------------------------
\* The network thread.

\* A connection opens or is closed, or takes a packet.
LEMMA ConnIInv ==
    ASSUME IInv, NEW c \in Conns, Accept(c) \/ Disconnect(c) \/ CheckStatus(c)
    PROVE  IInv'
  <1>1. /\ UNCHANGED <<found, player, world, saved, crashed, overlapped>>
        /\ net' = net \/ (net[c] = "ready" /\ net' = [net EXCEPT ![c] = "receive"])
    BY DEF Accept, Disconnect, CheckStatus
  <1>2. TypeOK'
    <2>1. /\ conn' \in [Conns -> {"new", "open", "closed"}] /\ net' \in [Conns -> NetStates]
          /\ sent' \in [Conns -> Nat]
      <3>1. CASE Accept(c)
        BY <3>1 DEF Accept, IInv, TypeOK
      <3>2. CASE Disconnect(c)
        BY <3>2 DEF Disconnect, IInv, TypeOK
      <3>3. CASE CheckStatus(c)
        BY <3>3 DEF CheckStatus, IInv, TypeOK, NetStates
      <3> QED
        BY <3>1, <3>2, <3>3
    <2> QED
      BY <1>1, <2>1 DEF player, world, IInv, TypeOK
  <1>3. \A d \in Conns : Queued(d)' <=> Queued(d)
    BY <1>1 DEF world, Queued
  <1>4. PlayersAreLoaded'
    BY <1>1, <1>3 DEF player, world, IInv, TypeOK, NetStates, PlayersAreLoaded
  <1>5. QueueIsFresh' /\ PlayersAreTheirs' /\ LoopsAreSound' /\ TimersAreReset'
    BY <1>1 DEF player, world, IInv, QueueIsFresh, PlayersAreTheirs, LoopsAreSound, TimersAreReset
  <1>6. AloneIfClean'
    BY <1>1, <1>3 DEF player, world, IInv, TypeOK, AloneIfClean, Present
  <1>7. OneShipPerUser' /\ RemovalFindsPlayer'
    BY <1>1 DEF player, world, IInv, OneShipPerUser, RemovalFindsPlayer
  <1>8. CleanLoginsLoseNothing'
    BY <1>1, <1>3 DEF player, world, IInv, TypeOK, CleanLoginsLoseNothing
  <1> QED
    BY <1>2, <1>4, <1>5, <1>6, <1>7, <1>8 DEF IInv

LEMMA FindPlayerIInv ==
    ASSUME IInv, NEW c \in Conns, FindPlayer(c)
    PROVE  IInv'
  <1> DEFINE p == players[User[c]]
  <1>1. /\ net[c] = "login"
        /\ found' = [found EXCEPT ![c] = p]
        /\ net' = [net EXCEPT ![c] = IF p = None THEN "load" ELSE "kick"]
        /\ overlapped' = IF p # None \/ OtherLogin(c) THEN overlapped \cup {User[c]} ELSE overlapped
        /\ UNCHANGED <<conn, sent, player, world, saved, crashed>>
    BY DEF FindPlayer
  <1>2. p \in Conns \cup {None} /\ User[c] \in Users
    BY SessionAssumption DEF IInv, TypeOK
  <1>3. \A d \in Conns : Queued(d)' <=> Queued(d)
    BY <1>1 DEF world, Queued
  <1>4. overlapped \subseteq overlapped' /\ overlapped' \subseteq Users
        /\ (p # None => User[c] \in overlapped')
    BY <1>1, <1>2 DEF IInv, TypeOK
  <1>5. \A d \in Conns : net'[d] = IF d = c THEN IF p = None THEN "load" ELSE "kick" ELSE net[d]
    BY <1>1 DEF IInv, TypeOK
  <1>6. TypeOK'
    BY <1>1, <1>2, <1>4 DEF player, world, IInv, TypeOK, NetStates
  <1>7. PlayersAreLoaded'
    BY <1>1, <1>2, <1>3, <1>4, <1>5 DEF player, world, IInv, TypeOK, PlayersAreLoaded
  <1>8. QueueIsFresh' /\ PlayersAreTheirs' /\ LoopsAreSound' /\ TimersAreReset'
    BY <1>1 DEF player, world, IInv, QueueIsFresh, PlayersAreTheirs, LoopsAreSound, TimersAreReset
  <1>9. AloneIfClean'
    <2> SUFFICES ASSUME NEW d \in Conns, NEW e \in Conns, User[d] = User[e],
                        User[d] \notin overlapped', Present(d)', Present(e)', d # e
                 PROVE  FALSE
      BY <1>1 DEF AloneIfClean
    <2>1. \A x \in Conns : Present(x)' => Present(x) \/ x = c
      BY <1>1, <1>3, <1>5 DEF world, Present
    <2>2. CASE d # c /\ e # c
      BY <1>4, <2>1, <2>2 DEF IInv, AloneIfClean
    <2>3. ASSUME NEW x \in Conns, x # c, User[x] = User[c], Present(x)', User[c] \notin overlapped'
          PROVE  FALSE
      <3>1. p = None /\ ~OtherLogin(c)
        BY <1>1, <2>3
      <3>2. Present(x)
        BY <2>1, <2>3
      <3> QED
        BY <2>3, <3>1, <3>2, SessionAssumption DEF Present, OtherLogin
    <2> QED
      BY <2>2, <2>3
  <1>10. OneShipPerUser' /\ RemovalFindsPlayer'
    BY <1>1 DEF player, world, IInv, OneShipPerUser, RemovalFindsPlayer
  <1>11. CleanLoginsLoseNothing'
    BY <1>1, <1>3, <1>4, <1>5 DEF player, world, IInv, CleanLoginsLoseNothing
  <1> QED
    BY <1>6, <1>7, <1>8, <1>9, <1>10, <1>11 DEF IInv

LEMMA KickOldIInv ==
    ASSUME IInv, NEW c \in Conns, KickOld(c)
    PROVE  IInv'
  <1>1. /\ net[c] = "kick" /\ net' = [net EXCEPT ![c] = "load"]
        /\ UNCHANGED <<sent, found, player, world, overlapped>>
    BY DEF KickOld
  <1>2. found[c] \in Conns /\ User[c] \in overlapped
    BY <1>1 DEF IInv, PlayersAreLoaded
  <1>3. TypeOK'
    <2>1. User[c] \in Users
      BY SessionAssumption
    <2>2. /\ conn' \in [Conns -> {"new", "open", "closed"}] /\ saved' \in [Users -> SUBSET Conns]
          /\ crashed' \in BOOLEAN
      <3>1. CASE obj[found[c]] = "live"
        <4>1. /\ saved' = [saved EXCEPT ![User[c]] = data[found[c]]]
              /\ conn' = [conn EXCEPT ![found[c]] = "closed"] /\ crashed' = crashed
          BY <3>1 DEF KickOld
        <4> QED
          BY <1>2, <2>1, <4>1 DEF IInv, TypeOK
      <3>2. CASE obj[found[c]] # "live"
        <4>1. crashed' = TRUE /\ UNCHANGED <<saved, conn>>
          BY <3>2 DEF KickOld
        <4> QED
          BY <4>1 DEF IInv, TypeOK
      <3> QED
        BY <3>1, <3>2
    <2>3. net' \in [Conns -> NetStates]
      BY <1>1 DEF IInv, TypeOK, NetStates
    <2> QED
      BY <1>1, <2>2, <2>3 DEF player, world, IInv, TypeOK
  <1>4. \A u \in Users : u # User[c] => saved'[u] = saved[u]
    BY DEF KickOld, IInv, TypeOK
  <1>5. \A d \in Conns : Queued(d)' <=> Queued(d)
    BY <1>1 DEF world, Queued
  <1>6. \A d \in Conns : net'[d] = IF d = c THEN "load" ELSE net[d]
    BY <1>1 DEF IInv, TypeOK
  <1>7. PlayersAreLoaded'
    BY <1>1, <1>5, <1>6 DEF player, world, IInv, PlayersAreLoaded
  <1>8. QueueIsFresh' /\ PlayersAreTheirs' /\ LoopsAreSound' /\ TimersAreReset'
    BY <1>1 DEF player, world, IInv, QueueIsFresh, PlayersAreTheirs, LoopsAreSound, TimersAreReset
  <1>9. AloneIfClean'
    BY <1>1, <1>2, <1>5, <1>6 DEF player, world, IInv, AloneIfClean, Present
  <1>10. OneShipPerUser' /\ RemovalFindsPlayer'
    BY <1>1 DEF player, world, IInv, OneShipPerUser, RemovalFindsPlayer
  <1>11. CleanLoginsLoseNothing'
    <2>1. \A d \in Conns : User[d] \in Users
      BY SessionAssumption
    <2> QED
      BY <1>1, <1>2, <1>4, <1>5, <1>6, <2>1 DEF player, world, IInv, CleanLoginsLoseNothing
  <1> QED
    BY <1>3, <1>7, <1>8, <1>9, <1>10, <1>11 DEF IInv

LEMMA LoadIInv ==
    ASSUME IInv, NEW c \in Conns, Load(c)
    PROVE  IInv'
  <1>1. /\ net[c] = "load"
        /\ obj' = [obj EXCEPT ![c] = "live"]
        /\ data' = [data EXCEPT ![c] = saved[User[c]]]
        /\ UNCHANGED <<sent, found, inbox, loggedIn, loggingOut, elapsed, world, saved,
                       crashed, overlapped>>
    BY DEF Load
  <1>2. net'[c] \in {"add", "packet"} /\ \A d \in Conns \ {c} : net'[d] = net[d]
    BY DEF Load, IInv, TypeOK
  <1>3. User[c] \in Users
    BY SessionAssumption
  <1>4. TypeOK'
    <2>1. net' \in [Conns -> NetStates] /\ conn' \in [Conns -> {"new", "open", "closed"}]
      <3>1. \/ net' = [net EXCEPT ![c] = "add"] /\ UNCHANGED conn
            \/ net' = [net EXCEPT ![c] = "packet"] /\ conn' = [conn EXCEPT ![c] = "closed"]
        BY DEF Load
      <3> QED
        BY <3>1 DEF IInv, TypeOK, NetStates
    <2>2. obj' \in [Conns -> {"none", "live", "freed"}] /\ data' \in [Conns -> SUBSET Conns]
      BY <1>1, <1>3 DEF IInv, TypeOK
    <2> QED
      BY <1>1, <2>1, <2>2 DEF world, IInv, TypeOK
  <1>5. obj[c] = "none" /\ ~loggingOut[c] /\ ~elapsed[c]
    BY <1>1 DEF IInv, PlayersAreLoaded
  <1>6. \A d \in Conns : obj'[d] = IF d = c THEN "live" ELSE obj[d]
    BY <1>1 DEF IInv, TypeOK
  <1>7. players[User[c]] # c
    BY <1>3, <1>5, SessionAssumption DEF IInv, PlayersAreTheirs
  <1>8. ~Queued(c)
    BY <1>5 DEF IInv, QueueIsFresh, Queued
  <1>9. \A d \in Conns : Queued(d)' <=> Queued(d)
    BY <1>1 DEF world, Queued
  <1>10. PlayersAreLoaded'
    BY <1>1, <1>2, <1>5, <1>6, <1>7, <1>8, <1>9 DEF world, IInv, PlayersAreLoaded
  <1>11. QueueIsFresh'
    <2>1. \A i \in 1..Len(queue) : queue[i] \in Conns
      BY ElementOfSeq DEF IInv, TypeOK
    <2> QED
      BY <1>1, <1>6, <2>1 DEF world, IInv, QueueIsFresh
  <1>12. PlayersAreTheirs'
    BY <1>1, <1>5, <1>6 DEF world, IInv, TypeOK, PlayersAreTheirs
  <1>13. LoopsAreSound' /\ TimersAreReset'
    BY <1>1, <1>5, <1>6 DEF world, IInv, TypeOK, LoopsAreSound, TimersAreReset
  <1>14. AloneIfClean'
    BY <1>1, <1>2, <1>9 DEF world, IInv, AloneIfClean, Present
  <1>15. OneShipPerUser' /\ RemovalFindsPlayer'
    BY <1>1, <1>5, <1>6 DEF world, IInv, TypeOK, OneShipPerUser, LoopsAreSound, RemovalFindsPlayer
  <1>16. CleanLoginsLoseNothing'
    <2>1. \A d \in Conns : data'[d] = IF d = c THEN saved[User[c]] ELSE data[d]
      BY <1>1 DEF IInv, TypeOK
    <2> SUFFICES ASSUME NEW d \in Conns, obj'[d] = "freed", User[d] \notin overlapped
                 PROVE  /\ data'[d] \subseteq saved[User[d]]
                        /\ \A e \in Conns :
                              /\ User[e] = User[d] /\ obj'[e] = "live"
                              /\ net'[e] = "add" \/ Queued(e) \/ players[User[e]] = e
                              => data'[d] \subseteq data'[e]
      BY <1>1, <1>9 DEF world, CleanLoginsLoseNothing
    <2>2. d # c /\ obj[d] = "freed" /\ data'[d] = data[d]
      BY <1>6, <2>1
    <2> QED
      BY <1>2, <1>6, <2>1, <2>2 DEF IInv, CleanLoginsLoseNothing
  <1> QED
    BY <1>4, <1>10, <1>11, <1>12, <1>13, <1>14, <1>15, <1>16 DEF IInv

LEMMA AddPlayerIInv ==
    ASSUME IInv, NEW c \in Conns, AddPlayer(c)
    PROVE  IInv'
  <1>1. /\ net[c] = "add" /\ queue' = Append(queue, c) /\ net' = [net EXCEPT ![c] = "packet"]
        /\ UNCHANGED <<conn, sent, found, player, players, removal, onMap, phase, todo,
                       busy, erasing, saved, crashed, overlapped>>
    BY DEF AddPlayer
  <1>2. obj[c] = "live" /\ players[User[c]] # c /\ ~Queued(c)
    BY <1>1 DEF IInv, PlayersAreLoaded
  <1>3. /\ Len(queue) \in Nat /\ queue' \in Seq(Conns) /\ Len(queue') = Len(queue) + 1
        /\ \A i \in 1..Len(queue) : queue[i] \in Conns /\ queue'[i] = queue[i]
        /\ queue'[Len(queue')] = c
        /\ queue # <<>> => queue' # <<>> /\ Head(queue') = Head(queue)
        /\ \A d \in Conns : Queued(d)' <=> Queued(d) \/ d = c
    BY <1>1, QueueAppend DEF IInv
  <1>4. \A d \in Conns : net'[d] = IF d = c THEN "packet" ELSE net[d]
    BY <1>1 DEF IInv, TypeOK
  <1>5. TypeOK'
    BY <1>1, <1>3 DEF player, IInv, TypeOK, NetStates
  <1>6. PlayersAreLoaded'
    BY <1>1, <1>3, <1>4 DEF player, IInv, PlayersAreLoaded
  <1>7. QueueIsFresh'
    <2>1. \A i \in 1..Len(queue') : i \in 1..Len(queue) \/ (i = Len(queue') /\ queue'[i] = c)
      BY <1>3
    <2>2. \A i \in 1..Len(queue) : queue[i] # c
      BY <1>2 DEF Queued
    <2> QED
      BY <1>1, <1>2, <1>3, <2>1, <2>2 DEF player, IInv, QueueIsFresh
  <1>8. PlayersAreTheirs'
    BY <1>1, <1>3 DEF player, IInv, PlayersAreTheirs
  <1>9. LoopsAreSound' /\ TimersAreReset'
    BY <1>1 DEF player, IInv, LoopsAreSound, TimersAreReset
  <1>10. AloneIfClean'
    BY <1>1, <1>3, <1>4 DEF player, IInv, AloneIfClean, Present
  <1>11. OneShipPerUser' /\ RemovalFindsPlayer'
    BY <1>1 DEF player, IInv, OneShipPerUser, RemovalFindsPlayer
  <1>12. CleanLoginsLoseNothing'
    BY <1>1, <1>3, <1>4 DEF player, IInv, CleanLoginsLoseNothing
  <1> QED
    BY <1>5, <1>6, <1>7, <1>8, <1>9, <1>10, <1>11, <1>12 DEF IInv

LEMMA QueuePacketIInv ==
    ASSUME IInv, NEW c \in Conns, QueueLogin(c) \/ QueueReceived(c)
    PROVE  IInv'
  <1>1. PICK op \in Opcodes : QueuePacket(c, op)
    BY DEF QueueLogin, QueueReceived, Opcodes, WorldOpcodes, MapOpcodes
  <1>2. /\ net[c] \in {"packet", "receive"} /\ net' = [net EXCEPT ![c] = "ready"]
        /\ UNCHANGED <<conn, sent, found, obj, loggedIn, loggingOut, elapsed, data, world,
                       saved, overlapped>>
    BY <1>1 DEF QueueLogin, QueueReceived, QueuePacket
  <1>3. TypeOK'
    <2>1. inbox' \in [Conns -> Seq(Opcodes)]
      <3>1. inbox[c] \in Seq(Opcodes)
        BY DEF IInv, TypeOK
      <3>2. Append(inbox[c], op) \in Seq(Opcodes)
        BY <3>1
      <3> QED
        BY <1>1, <3>2 DEF QueuePacket, IInv, TypeOK
    <2> QED
      BY <1>1, <1>2, <2>1 DEF QueuePacket, world, IInv, TypeOK, NetStates
  <1>4. \A d \in Conns : Queued(d)' <=> Queued(d)
    BY <1>2 DEF world, Queued
  <1>5. \A d \in Conns : net'[d] = IF d = c THEN "ready" ELSE net[d]
    BY <1>2 DEF IInv, TypeOK
  <1>6. PlayersAreLoaded'
    BY <1>2, <1>4, <1>5 DEF world, IInv, PlayersAreLoaded
  <1>7. QueueIsFresh' /\ PlayersAreTheirs' /\ LoopsAreSound' /\ TimersAreReset'
    BY <1>2 DEF world, IInv, QueueIsFresh, PlayersAreTheirs, LoopsAreSound, TimersAreReset
  <1>8. AloneIfClean'
    BY <1>2, <1>4, <1>5 DEF world, IInv, AloneIfClean, Present
  <1>9. OneShipPerUser' /\ RemovalFindsPlayer'
    BY <1>2 DEF world, IInv, OneShipPerUser, RemovalFindsPlayer
  <1>10. CleanLoginsLoseNothing'
    BY <1>2, <1>4, <1>5 DEF world, IInv, CleanLoginsLoseNothing
  <1> QED
    BY <1>3, <1>6, <1>7, <1>8, <1>9, <1>10 DEF IInv

-----------------------------------------------------------------------------
\* The world thread.

\* A Player that m_Players holds is freed.
LEMMA DeleteIInv ==
    ASSUME IInv, NEW c \in Conns, Delete(c), obj[c] = "live", players[User[c]] = c,
           erasing = None,
           \/ phase = "queue" /\ queue # <<>> /\ User[Head(queue)] = User[c]
           \/ phase = "removal",
           UNCHANGED <<queue, players, removal, phase, todo, busy, crashed, overlapped>>
    PROVE  IInv'
  <1> USE DEF Delete
  <1>1. User[c] \in Users
    BY SessionAssumption
  <1>2. TypeOK'
    <2>1. inbox' \in [Conns -> Seq(Opcodes)]
      BY EmptySeq DEF IInv, TypeOK
    <2>2. /\ conn' \in [Conns -> {"new", "open", "closed"}] /\ onMap' \subseteq Conns
          /\ saved' \in [Users -> SUBSET Conns] /\ obj' \in [Conns -> {"none", "live", "freed"}]
      BY <1>1 DEF IInv, TypeOK
    <2> QED
      BY <2>1, <2>2 DEF IInv, TypeOK
  <1>3. /\ \A d \in Conns : obj'[d] = IF d = c THEN "freed" ELSE obj[d]
        /\ \A u \in Users : saved'[u] = IF u = User[c] THEN data[c] ELSE saved[u]
    BY DEF IInv, TypeOK
  <1>4. \A d \in Conns : Queued(d)' <=> Queued(d)
    BY DEF Queued
  <1>5. PlayersAreLoaded'
    BY <1>3, <1>4 DEF IInv, PlayersAreLoaded
  <1>6. QueueIsFresh'
    <2>1. \A i \in 1..Len(queue) : queue[i] \in Conns
      BY ElementOfSeq DEF IInv, TypeOK
    <2> QED
      BY <1>3, <2>1 DEF IInv, QueueIsFresh
  <1>7. PlayersAreTheirs'
    BY <1>3, SessionAssumption DEF IInv, TypeOK, PlayersAreTheirs
  <1>8. LoopsAreSound'
    BY <1>3 DEF IInv, TypeOK, LoopsAreSound
  <1>9. TimersAreReset' /\ AloneIfClean'
    BY <1>3, <1>4 DEF IInv, TimersAreReset, AloneIfClean, Present
  <1>10. OneShipPerUser' /\ RemovalFindsPlayer'
    BY <1>3, SessionAssumption DEF IInv, TypeOK, OneShipPerUser, RemovalFindsPlayer
  <1>11. CleanLoginsLoseNothing'
    <2> SUFFICES ASSUME NEW d \in Conns, obj'[d] = "freed", User[d] \notin overlapped
                 PROVE  /\ data[d] \subseteq saved'[User[d]]
                        /\ \A e \in Conns :
                              /\ User[e] = User[d] /\ obj'[e] = "live"
                              /\ net[e] = "add" \/ Queued(e) \/ players[User[e]] = e
                              => data[d] \subseteq data[e]
      BY <1>4 DEF CleanLoginsLoseNothing
    <2>1. User[d] \in Users
      BY SessionAssumption
    <2>2. CASE d = c
      <3>1. \A e \in Conns \ {c} : User[e] = User[c] => ~Present(e)
        BY <2>2 DEF IInv, AloneIfClean, Present
      <3> QED
        BY <1>3, <2>1, <2>2, <3>1 DEF Present
    <2>3. CASE d # c
      BY <1>3, <2>1, <2>3 DEF IInv, CleanLoginsLoseNothing
    <2> QED
      BY <2>2, <2>3
  <1> QED
    BY <1>2, <1>5, <1>6, <1>7, <1>8, <1>9, <1>10, <1>11 DEF IInv

LEMMA DeleteOldIInv ==
    ASSUME IInv, DeleteOld
    PROVE  IInv'
  <1>1. queue # <<>> /\ Head(queue) \in Conns
    BY HeadTailProperties DEF DeleteOld, IInv, TypeOK
  <1> DEFINE old == players[User[Head(queue)]]
  <1>2. /\ phase = "queue" /\ erasing = None /\ old # None /\ Delete(old)
        /\ UNCHANGED <<queue, players, removal, phase, todo, busy, crashed, overlapped>>
    BY DEF DeleteOld
  <1>3. User[Head(queue)] \in Users
    BY <1>1, SessionAssumption
  <1>4. old \in Conns /\ obj[old] = "live" /\ User[old] = User[Head(queue)]
    BY <1>2, <1>3 DEF IInv, TypeOK, PlayersAreTheirs
  <1> QED
    BY <1>1, <1>2, <1>4, DeleteIInv

LEMMA InsertNewIInv ==
    ASSUME IInv, InsertNew
    PROVE  IInv'
  <1> DEFINE c == Head(queue)
             u == User[c]
             old == players[u]
  <1>1. /\ phase = "queue" /\ queue # <<>> /\ erasing = old
        /\ players' = [players EXCEPT ![u] = c]
        /\ queue' = Tail(queue) /\ erasing' = None
        /\ UNCHANGED <<network, player, removal, onMap, phase, todo, busy, saved,
                       crashed, overlapped>>
    BY DEF InsertNew
  <1>2. /\ Len(queue) \in Nat /\ queue' \in Seq(Conns) /\ Len(queue') = Len(queue) - 1
        /\ c = queue[1] /\ c \in Conns /\ 1 \in 1..Len(queue)
        /\ \A i \in 1..Len(queue') : queue'[i] = queue[i + 1] /\ queue'[i] \in Conns
        /\ \A d \in Conns : Queued(d) <=> Queued(d)' \/ d = c
    BY <1>1, QueueTail DEF IInv
  <1> HIDE DEF c
  <1>3. u \in Users
    BY <1>2, SessionAssumption
  <1>4. \A v \in Users : players'[v] = IF v = u THEN c ELSE players[v]
    BY <1>1 DEF IInv, TypeOK
  <1>5. obj[c] = "live" /\ old # c /\ (old # None => obj[old] = "freed")
    BY <1>1, <1>2 DEF IInv, QueueIsFresh, PlayersAreTheirs
  <1>6. \A i \in 1..Len(queue') : queue'[i] # c
    BY <1>2 DEF IInv, QueueIsFresh
  <1>7. todo = {} /\ busy = None
    BY <1>1 DEF IInv, LoopsAreSound
  <1>8. TypeOK'
    BY <1>1, <1>2, <1>3 DEF network, player, IInv, TypeOK
  <1>9. \A d \in Conns : User[d] \in Users
    BY SessionAssumption
  <1>10. PlayersAreLoaded'
    <2>1. Queued(c)
      BY <1>2
    <2>2. net[c] # "add"
      BY <1>2, <2>1 DEF IInv, PlayersAreLoaded
    <2> QED
      BY <1>1, <1>2, <1>4, <1>9, <2>2 DEF network, player, IInv, PlayersAreLoaded
  <1>11. QueueIsFresh'
    <2>1. \A i \in 1..Len(queue') : i + 1 \in 1..Len(queue)
      BY <1>2
    <2>2. \A i \in 1..Len(queue') :
              obj'[queue'[i]] = "live" /\ players'[User[queue'[i]]] # queue'[i]
      BY <1>1, <1>2, <1>4, <1>6, <1>9, <2>1 DEF player, IInv, QueueIsFresh
    <2>3. \A i, j \in 1..Len(queue') : queue'[i] = queue'[j] => i = j
      <3> SUFFICES ASSUME NEW i \in 1..Len(queue'), NEW j \in 1..Len(queue'), queue'[i] = queue'[j]
                   PROVE  i = j
        OBVIOUS
      <3>1. queue[i + 1] = queue[j + 1] /\ i + 1 \in 1..Len(queue) /\ j + 1 \in 1..Len(queue)
        BY <1>2, <2>1
      <3>2. i + 1 = j + 1
        BY <3>1 DEF IInv, QueueIsFresh
      <3> QED
        BY <3>2
    <2> QED
      BY <2>2, <2>3 DEF QueueIsFresh
  <1>12. PlayersAreTheirs'
    <2>1. ASSUME NEW v \in Users, v # u, players[v] # None
          PROVE  User[players[v]] = v /\ obj[players[v]] = "live"
      <3>1. User[players[v]] = v /\ (obj[players[v]] = "live" \/ erasing = players[v])
        BY <2>1 DEF IInv, PlayersAreTheirs
      <3>2. erasing # players[v]
        BY <1>1, <1>3, <2>1, <3>1 DEF IInv, PlayersAreTheirs
      <3> QED
        BY <3>1, <3>2
    <2> QED
      BY <1>1, <1>4, <1>5, <2>1 DEF player, PlayersAreTheirs
  <1>13. LoopsAreSound' /\ TimersAreReset'
    BY <1>1, <1>7 DEF player, IInv, LoopsAreSound, TimersAreReset
  <1>14. AloneIfClean'
    <2>1. \A d \in Conns : Present(d)' => Present(d)
      BY <1>1, <1>2, <1>4, <1>9 DEF network, Present
    <2> QED
      BY <1>1, <2>1 DEF IInv, AloneIfClean
  <1>15. OneShipPerUser' /\ RemovalFindsPlayer'
    <2>1. \A d \in Conns : players[User[d]] = d => players'[User[d]] = d \/ obj[d] = "freed"
      BY <1>4, <1>5, <1>9, SessionAssumption
    <2> QED
      BY <1>1, <2>1 DEF player, IInv, TypeOK, OneShipPerUser, RemovalFindsPlayer
  <1>16. CleanLoginsLoseNothing'
    <2>1. \A d \in Conns : Queued(d)' \/ players'[User[d]] = d => Queued(d) \/ players[User[d]] = d
      BY <1>2, <1>4, <1>9
    <2> QED
      BY <1>1, <2>1 DEF network, player, IInv, CleanLoginsLoseNothing
  <1> QED
    BY <1>8, <1>10, <1>11, <1>12, <1>13, <1>14, <1>15, <1>16 DEF IInv

LEMMA NextPhaseIInv ==
    ASSUME IInv, NextPhase
    PROVE  IInv'
  <1>1. /\ todo = {} /\ busy = None /\ erasing = None
        /\ UNCHANGED <<network, player, queue, players, removal, onMap, busy, erasing,
                       saved, crashed, overlapped>>
    BY DEF NextPhase
  <1>2. /\ phase' \in Phases /\ todo' \subseteq Conns
        /\ phase' = "queue" => todo' = {}
        /\ phase' = "packets" => phase = "queue" /\ todo' = {players[u] : u \in Users} \ {None}
        /\ phase' = "removal" => phase = "packets" /\ todo' = removal
        /\ phase' = "zones" => phase = "removal" /\ todo' = onMap
    BY DEF NextPhase, Phases, IInv, TypeOK
  <1>3. TypeOK'
    BY <1>1, <1>2 DEF network, player, IInv, TypeOK
  <1>4. \A d \in Conns : Queued(d)' <=> Queued(d)
    BY <1>1 DEF Queued
  <1>5. PlayersAreLoaded' /\ QueueIsFresh' /\ PlayersAreTheirs'
    BY <1>1, <1>4 DEF network, player, IInv, PlayersAreLoaded, QueueIsFresh, PlayersAreTheirs
  <1>6. LoopsAreSound'
    <2>1. \A c \in {players[u] : u \in Users} \ {None} : obj[c] = "live" /\ players[User[c]] = c
      BY <1>1 DEF IInv, PlayersAreTheirs
    <2> QED
      BY <1>1, <1>2, <2>1 DEF player, IInv, LoopsAreSound
  <1>7. TimersAreReset'
    <2>1. ASSUME NEW c \in Conns, obj[c] = "live", elapsed[c]
          PROVE  c \in removal /\ (~loggingOut[c] => phase = "packets")
      BY <1>1, <2>1 DEF IInv, TimersAreReset
    <2> QED
      BY <1>1, <1>2, <2>1 DEF player, NextPhase, TimersAreReset
  <1>8. AloneIfClean' /\ CleanLoginsLoseNothing'
    BY <1>1, <1>4 DEF network, player, IInv, AloneIfClean, Present, CleanLoginsLoseNothing
  <1>9. OneShipPerUser' /\ RemovalFindsPlayer'
    BY <1>1, SessionAssumption DEF player, IInv, TypeOK, OneShipPerUser, RemovalFindsPlayer
  <1> QED
    BY <1>3, <1>5, <1>6, <1>7, <1>8, <1>9 DEF IInv

\* The steps that leave Players, connections and their data alone.
LEMMA LoopIInv ==
    ASSUME IInv,
           UNCHANGED <<network, obj, data, queue, players, phase, erasing, saved, overlapped>>,
           TypeOK', LoopsAreSound', TimersAreReset', OneShipPerUser', RemovalFindsPlayer',
           \A c \in Conns : obj[c] = "none" => ~loggingOut'[c] /\ ~elapsed'[c]
    PROVE  IInv'
  <1>1. \A d \in Conns : Queued(d)' <=> Queued(d)
    BY DEF Queued
  <1>2. PlayersAreLoaded' /\ QueueIsFresh' /\ PlayersAreTheirs'
    BY <1>1 DEF network, IInv, PlayersAreLoaded, QueueIsFresh, PlayersAreTheirs
  <1>3. AloneIfClean' /\ CleanLoginsLoseNothing'
    BY <1>1 DEF network, IInv, AloneIfClean, Present, CleanLoginsLoseNothing
  <1> QED
    BY <1>2, <1>3 DEF IInv

LEMMA DisconnectedIInv ==
    ASSUME IInv, NEW c \in Conns, Disconnected(c)
    PROVE  IInv'
  <1>1. /\ phase = "packets" /\ busy = None /\ c \in todo /\ todo' = todo \ {c}
        /\ loggingOut' = [loggingOut EXCEPT ![c] = TRUE]
        /\ removal' \in {removal, removal \cup {c}}
        /\ UNCHANGED <<network, obj, inbox, loggedIn, elapsed, data, queue, players,
                       onMap, phase, busy, erasing, saved, crashed, overlapped>>
    <2>1. loggingOut[c] => loggingOut = [loggingOut EXCEPT ![c] = TRUE]
      BY DEF IInv, TypeOK
    <2> QED
      BY <2>1 DEF Disconnected
  <1>2. obj[c] = "live" /\ players[User[c]] = c
    BY <1>1 DEF IInv, LoopsAreSound
  <1>3. \A d \in Conns : loggingOut'[d] = IF d = c THEN TRUE ELSE loggingOut[d]
    BY <1>1 DEF IInv, TypeOK
  <1>4. TypeOK'
    BY <1>1 DEF network, IInv, TypeOK
  <1>5. LoopsAreSound' /\ OneShipPerUser' /\ RemovalFindsPlayer'
    BY <1>1, <1>2 DEF IInv, LoopsAreSound, OneShipPerUser, RemovalFindsPlayer
  <1>6. TimersAreReset'
    BY <1>1, <1>3 DEF IInv, TimersAreReset
  <1>7. \A d \in Conns : obj[d] = "none" => ~loggingOut'[d] /\ ~elapsed'[d]
    BY <1>1, <1>2, <1>3 DEF IInv, PlayersAreLoaded
  <1> QED
    BY <1>1, <1>4, <1>5, <1>6, <1>7, LoopIInv

LEMMA ProcessPacketIInv ==
    ASSUME IInv, NEW c \in Conns, ProcessPacket(c) \/ NoPacketLeft(c)
    PROVE  IInv'
  <1>1. UNCHANGED <<network, player, queue, players, removal, onMap, phase, erasing,
                    saved, crashed, overlapped>>
    BY DEF ProcessPacket, NoPacketLeft
  <1>2. todo' \subseteq todo /\ busy' \in {None, c}
    BY DEF ProcessPacket, NoPacketLeft
  <1>3. busy' = c => /\ phase \in {"packets", "zones"} /\ c \in todo /\ todo' = todo \ {c}
    BY SessionAssumption DEF ProcessPacket, NoPacketLeft
  <1>4. phase = "removal" => todo' = todo
    BY SessionAssumption DEF ProcessPacket, NoPacketLeft, IInv, LoopsAreSound
  <1>5. TypeOK'
    BY <1>1, <1>2 DEF network, player, IInv, TypeOK
  <1>6. LoopsAreSound'
    BY <1>1, <1>2, <1>3, <1>4, SessionAssumption DEF player, IInv, LoopsAreSound, OneShipPerUser
  <1>7. TimersAreReset' /\ OneShipPerUser' /\ RemovalFindsPlayer'
    BY <1>1, <1>2, <1>4 DEF player, IInv, TimersAreReset, OneShipPerUser, RemovalFindsPlayer
  <1>8. \A d \in Conns : obj[d] = "none" => ~loggingOut'[d] /\ ~elapsed'[d]
    BY <1>1 DEF player, IInv, PlayersAreLoaded
  <1> QED
    BY <1>1, <1>5, <1>6, <1>7, <1>8, LoopIInv DEF player

LEMMA ExecutePacketIInv ==
    ASSUME IInv, NEW c \in Conns, ExecutePacket(c)
    PROVE  IInv'
  <1>1. /\ busy = c /\ HasPacket(c)
        /\ inbox' = [inbox EXCEPT ![c] = Tail(@)]
        /\ UNCHANGED <<network, obj, elapsed, data, queue, players, phase, todo, busy,
                       erasing, saved, crashed, overlapped>>
    BY DEF ExecutePacket
  <1>2. /\ phase \in {"packets", "zones"} /\ c \notin todo
        /\ obj[c] = "live" /\ players[User[c]] = c
    BY <1>1, SessionAssumption DEF IInv, LoopsAreSound
  <1>3. inbox' \in [Conns -> Seq(Opcodes)]
    <2>1. inbox[c] \in Seq(Opcodes) /\ inbox[c] # <<>>
      BY <1>1 DEF HasPacket, IInv, TypeOK
    <2>2. Tail(inbox[c]) \in Seq(Opcodes)
      BY <2>1, HeadTailProperties
    <2> QED
      BY <1>1, <2>2 DEF IInv, TypeOK
  <1>4. /\ loggedIn' \in [Conns -> BOOLEAN] /\ loggingOut' \in [Conns -> BOOLEAN]
        /\ onMap' \in {onMap, onMap \cup {c}} /\ removal' \in {removal, removal \cup {c}}
        /\ \A d \in Conns \ {c} : loggingOut'[d] = loggingOut[d]
        /\ loggingOut[c] /\ ~loggingOut'[c] => phase = "packets"
    <2>1. CASE HandleLogin(c)
      BY <2>1 DEF HandleLogin, IInv, TypeOK
    <2>2. CASE HandleLogout(c)
      BY <2>2 DEF HandleLogout, IInv, TypeOK
    <2>3. CASE HandleCancelLogout(c)
      <3>1. phase = "packets"
        BY <1>1, <2>3 DEF HandleCancelLogout, HasPacket, Process, WorldOpcodes
      <3> QED
        BY <2>3, <3>1 DEF HandleCancelLogout, IInv, TypeOK
    <2> QED
      BY <2>1, <2>2, <2>3 DEF ExecutePacket
  <1>5. TypeOK'
    BY <1>1, <1>3, <1>4 DEF network, IInv, TypeOK
  <1>6. LoopsAreSound' /\ OneShipPerUser' /\ RemovalFindsPlayer'
    BY <1>1, <1>2, <1>4 DEF IInv, LoopsAreSound, OneShipPerUser, RemovalFindsPlayer
  <1>7. TimersAreReset'
    BY <1>1, <1>2, <1>4 DEF IInv, TypeOK, TimersAreReset
  <1>8. \A d \in Conns : obj[d] = "none" => ~loggingOut'[d] /\ ~elapsed'[d]
    BY <1>1, <1>2, <1>4 DEF IInv, PlayersAreLoaded
  <1> QED
    BY <1>1, <1>5, <1>6, <1>7, <1>8, LoopIInv

\* The removal loop passes an entry that was freed, cancelled, or has still to wait.
LEMMA VisitIInv ==
    ASSUME IInv, NEW c \in Conns, VisitFreed(c) \/ LogoutCancelled(c) \/ LogoutWaits(c)
    PROVE  IInv'
  <1>1. /\ phase = "removal" /\ c \in todo /\ erasing = None
        /\ todo' = todo \ {c} /\ removal' \in {removal, removal \ {c}}
        /\ UNCHANGED <<network, obj, inbox, loggedIn, loggingOut, data, queue, players,
                       onMap, phase, busy, erasing, saved, overlapped>>
    BY DEF VisitFreed, LogoutCancelled, LogoutWaits, Visits, player
  <1>2. /\ elapsed' \in [Conns -> BOOLEAN] /\ crashed' \in BOOLEAN
        /\ \A d \in Conns \ {c} : elapsed'[d] = elapsed[d]
        /\ obj[c] = "live" /\ elapsed'[c] => loggingOut[c] /\ removal' = removal
        /\ obj[c] # "none" /\ c \in removal
    BY <1>1 DEF VisitFreed, LogoutCancelled, LogoutWaits, player, IInv, TypeOK, LoopsAreSound
  <1>3. TypeOK'
    BY <1>1, <1>2 DEF network, IInv, TypeOK
  <1>4. LoopsAreSound' /\ OneShipPerUser' /\ RemovalFindsPlayer'
    <2>1. busy = None /\ todo \subseteq removal /\ LoopsAreSound
      BY <1>1 DEF IInv, LoopsAreSound
    <2>2. todo' \subseteq removal'
      BY <1>1, <2>1
    <2>3. LoopsAreSound'
      BY <1>1, <2>1, <2>2 DEF LoopsAreSound
    <2> QED
      BY <1>1, <2>3 DEF IInv, OneShipPerUser, RemovalFindsPlayer
  <1>5. TimersAreReset'
    BY <1>1, <1>2 DEF IInv, TimersAreReset
  <1>6. \A d \in Conns : obj[d] = "none" => ~loggingOut'[d] /\ ~elapsed'[d]
    BY <1>1, <1>2 DEF IInv, PlayersAreLoaded
  <1> QED
    BY <1>1, <1>3, <1>4, <1>5, <1>6, LoopIInv

LEMMA RemovePlayerIInv ==
    ASSUME IInv, NEW c \in Conns, RemovePlayer(c)
    PROVE  IInv'
  <1>1. phase = "removal" /\ c \in todo /\ erasing = None /\ obj[c] = "live"
    BY DEF RemovePlayer, Visits
  <1>2. players[User[c]] = c
    BY <1>1 DEF IInv, LoopsAreSound, RemovalFindsPlayer
  <1>3. /\ Delete(c)
        /\ UNCHANGED <<crashed, queue, players, removal, phase, todo, busy, overlapped>>
    BY <1>2, SessionAssumption DEF RemovePlayer
  <1> QED
    BY <1>1, <1>2, <1>3, DeleteIInv

LEMMA EraseRemovedIInv ==
    ASSUME IInv, NEW c \in Conns, EraseRemoved(c)
    PROVE  IInv'
  <1>1. /\ phase = "removal" /\ erasing = c
        /\ players' = [players EXCEPT ![User[c]] = None]
        /\ removal' = removal \ {c} /\ todo' = todo \ {c} /\ erasing' = None
        /\ UNCHANGED <<network, player, queue, onMap, phase, busy, saved, crashed, overlapped>>
    BY DEF EraseRemoved
  <1>2. obj[c] = "freed" /\ players[User[c]] = c
    BY <1>1, SessionAssumption DEF IInv, PlayersAreTheirs
  <1>3. \A d \in Conns : User[d] \in Users
    BY SessionAssumption
  <1>4. \A v \in Users : players'[v] = IF v = User[c] THEN None ELSE players[v]
    BY <1>1, <1>3 DEF IInv, TypeOK
  <1>5. \A d \in Conns : players'[User[d]] = d <=> players[User[d]] = d /\ d # c
    BY <1>2, <1>3, <1>4, SessionAssumption
  <1>6. \A d \in Conns : Queued(d)' <=> Queued(d)
    BY <1>1 DEF Queued
  <1>7. TypeOK'
    BY <1>1, <1>3 DEF network, player, IInv, TypeOK
  <1>8. PlayersAreLoaded'
    BY <1>1, <1>5, <1>6 DEF network, player, IInv, PlayersAreLoaded
  <1>9. QueueIsFresh'
    <2>1. \A i \in 1..Len(queue) : queue[i] \in Conns
      BY ElementOfSeq DEF IInv, TypeOK
    <2> QED
      BY <1>1, <1>5, <2>1 DEF player, IInv, QueueIsFresh
  <1>10. PlayersAreTheirs'
    BY <1>1, <1>2, <1>4 DEF player, IInv, PlayersAreTheirs
  <1>11. LoopsAreSound'
    BY <1>1 DEF player, IInv, LoopsAreSound
  <1>12. TimersAreReset'
    BY <1>1, <1>2 DEF player, IInv, TimersAreReset
  <1>13. AloneIfClean' /\ CleanLoginsLoseNothing'
    BY <1>1, <1>5, <1>6 DEF network, player, IInv, AloneIfClean, Present, CleanLoginsLoseNothing
  <1>14. OneShipPerUser' /\ RemovalFindsPlayer'
    BY <1>1, <1>2, <1>5, SessionAssumption DEF player, IInv, TypeOK, OneShipPerUser, RemovalFindsPlayer
  <1> QED
    BY <1>7, <1>8, <1>9, <1>10, <1>11, <1>12, <1>13, <1>14 DEF IInv

-----------------------------------------------------------------------------
\* The zone threads.

LEMMA DieIInv ==
    ASSUME IInv, NEW c \in Conns, Die(c)
    PROVE  IInv'
  <1>1. /\ phase = "zones" /\ c \in onMap \ todo /\ onMap' = onMap \ {c}
        /\ UNCHANGED <<network, player, queue, players, removal, phase, todo, busy, erasing,
                       saved, crashed, overlapped>>
    BY DEF Die, Updates
  <1>2. TypeOK' /\ OneShipPerUser' /\ RemovalFindsPlayer'
    BY <1>1 DEF network, player, IInv, TypeOK, OneShipPerUser, RemovalFindsPlayer
  <1>3. LoopsAreSound' /\ TimersAreReset'
    BY <1>1 DEF player, IInv, LoopsAreSound, TimersAreReset
  <1>4. \A d \in Conns : obj[d] = "none" => ~loggingOut'[d] /\ ~elapsed'[d]
    BY <1>1 DEF player, IInv, PlayersAreLoaded
  <1> QED
    BY <1>1, <1>2, <1>3, <1>4, LoopIInv DEF player

\* A player earns, or is saved.
LEMMA EarnIInv ==
    ASSUME IInv, NEW c \in Conns, Earn(c) \/ SaveToDB(c)
    PROVE  IInv'
  <1>1. /\ c \in onMap
        /\ UNCHANGED <<network, obj, inbox, loggedIn, loggingOut, elapsed, world, crashed,
                       overlapped>>
    BY DEF Earn, SaveToDB, Updates, player
  <1>2. /\ \A d \in Conns : data'[d] = data[d] \/ (d = c /\ data[d] \subseteq data'[d])
        /\ \A u \in Users : saved'[u] = saved[u]
                            \/ (u = User[c] /\ saved'[u] = data[c] /\ data' = data)
        /\ data' \in [Conns -> SUBSET Conns] /\ saved' \in [Users -> SUBSET Conns]
    <2>1. User[c] \in Users
      BY SessionAssumption
    <2>2. CASE Earn(c)
      BY <2>1, <2>2 DEF Earn, IInv, TypeOK
    <2>3. CASE SaveToDB(c)
      BY <2>1, <2>3 DEF SaveToDB, player, IInv, TypeOK
    <2> QED
      BY <2>2, <2>3
  <1>3. obj[c] = "live" /\ players[User[c]] = c
    BY <1>1 DEF IInv, OneShipPerUser
  <1>4. \A d \in Conns : Queued(d)' <=> Queued(d)
    BY <1>1 DEF world, Queued
  <1>5. TypeOK'
    BY <1>1, <1>2 DEF network, world, IInv, TypeOK
  <1>6. PlayersAreLoaded' /\ QueueIsFresh' /\ PlayersAreTheirs'
    BY <1>1, <1>4 DEF network, world, IInv, PlayersAreLoaded, QueueIsFresh, PlayersAreTheirs
  <1>7. LoopsAreSound' /\ TimersAreReset' /\ OneShipPerUser' /\ RemovalFindsPlayer'
    BY <1>1 DEF world, IInv, LoopsAreSound, TimersAreReset, OneShipPerUser, RemovalFindsPlayer
  <1>8. AloneIfClean'
    BY <1>1, <1>4 DEF network, world, IInv, AloneIfClean, Present
  <1>9. CleanLoginsLoseNothing'
    <2> SUFFICES ASSUME NEW d \in Conns, obj[d] = "freed", User[d] \notin overlapped
                 PROVE  /\ data'[d] \subseteq saved'[User[d]]
                        /\ \A e \in Conns :
                              /\ User[e] = User[d] /\ obj[e] = "live"
                              /\ net[e] = "add" \/ Queued(e) \/ players[User[e]] = e
                              => data'[d] \subseteq data'[e]
      BY <1>1, <1>4 DEF network, world, CleanLoginsLoseNothing
    <2>1. User[d] \in Users
      BY SessionAssumption
    <2>2. data'[d] = data[d]
      BY <1>2, <1>3
    <2>3. /\ data[d] \subseteq saved[User[d]]
          /\ User[c] = User[d] => data[d] \subseteq data[c]
      BY <1>3 DEF IInv, CleanLoginsLoseNothing
    <2>4. data[d] \subseteq saved'[User[d]]
      BY <1>2, <2>1, <2>3
    <2> QED
      BY <1>2, <2>2, <2>4 DEF IInv, CleanLoginsLoseNothing
  <1> QED
    BY <1>5, <1>6, <1>7, <1>8, <1>9 DEF IInv

-----------------------------------------------------------------------------

LEMMA NextIInv == IInv /\ [Next]_vars => IInv'
  <1> SUFFICES ASSUME IInv, [Next]_vars PROVE IInv'
    OBVIOUS
  <1>1. ASSUME NEW c \in Conns,
               Accept(c) \/ Disconnect(c) \/ NetworkThread(c) \/ CheckStatus(c)
               \/ Earn(c) \/ SaveToDB(c) \/ Die(c)
        PROVE  IInv'
    BY <1>1, ConnIInv, FindPlayerIInv, KickOldIInv, LoadIInv, AddPlayerIInv, QueuePacketIInv,
       EarnIInv, DieIInv
    DEF NetworkThread
  <1>2. ASSUME NEW c \in Conns,
               Disconnected(c) \/ ProcessPacket(c) \/ ExecutePacket(c) \/ NoPacketLeft(c)
               \/ VisitFreed(c) \/ LogoutCancelled(c) \/ LogoutWaits(c) \/ RemovePlayer(c)
               \/ EraseRemoved(c)
        PROVE  IInv'
    BY <1>2, DisconnectedIInv, ProcessPacketIInv, ExecutePacketIInv, VisitIInv,
       RemovePlayerIInv, EraseRemovedIInv
  <1>3. CASE WorldThread
    BY <1>2, <1>3, DeleteOldIInv, InsertNewIInv, NextPhaseIInv DEF WorldThread
  <1>4. CASE UNCHANGED vars
    <2>1. \A d \in Conns : Queued(d)' <=> Queued(d)
      BY <1>4 DEF vars, world, Queued
    <2>2. PlayersAreLoaded' /\ QueueIsFresh' /\ PlayersAreTheirs'
      BY <1>4, <2>1 DEF vars, network, player, world, IInv, PlayersAreLoaded, QueueIsFresh,
          PlayersAreTheirs
    <2>3. AloneIfClean' /\ CleanLoginsLoseNothing'
      BY <1>4, <2>1 DEF vars, network, player, world, IInv, AloneIfClean, Present,
          CleanLoginsLoseNothing
    <2> QED
      BY <1>4, <2>2, <2>3 DEF vars, network, player, world, IInv, TypeOK, LoopsAreSound,
          TimersAreReset, OneShipPerUser, RemovalFindsPlayer
  <1> QED
    BY <1>1, <1>3, <1>4 DEF Next

\* The inductive invariant holds of the specification.
THEOREM Invariance == Spec => []IInv
  BY InitIInv, NextIInv, PTL DEF Spec

\* Every variable of the sessions keeps its type.
THEOREM TypeCorrect == Spec => []TypeOK
  BY Invariance, PTL DEF IInv

\* However the logins of a user overlap, one of its Players flies, and it is the one
\* m_Players holds.
THEOREM OneShip == Spec => []OneShipPerUser
  BY Invariance, PTL DEF IInv

\* The assertion of RemovePlayer cannot fail.
THEOREM RemovalsFind == Spec => []RemovalFindsPlayer
  BY Invariance, PTL DEF IInv

\* A user that logs in when its last Player is gone loses nothing.
THEOREM NothingIsLost == Spec => []CleanLoginsLoseNothing
  BY Invariance, PTL DEF IInv

\* No logout inherits the time that another one has waited.
THEOREM LogoutsAreWhole == Spec => LogoutStartsAfresh
  <1>1. IInv /\ [Next]_vars =>
          [\A c \in Conns : ~loggingOut[c] /\ loggingOut'[c] => ~elapsed[c]]_vars
    <2> SUFFICES ASSUME IInv, Next, NEW c \in Conns, ~loggingOut[c], loggingOut'[c]
                 PROVE  ~elapsed[c]
      OBVIOUS
    <2>1. \/ Disconnected(c)
          \/ ExecutePacket(c) /\ HandleLogout(c)
      <3>1. loggingOut' # loggingOut
        OBVIOUS
      <3>2. PICK d \in Conns : Disconnected(d) \/ ExecutePacket(d)
        BY <3>1 DEF Next, NetworkThread, WorldThread, Accept, Disconnect, FindPlayer, KickOld,
            Load, AddPlayer, QueueLogin, QueueReceived, QueuePacket, CheckStatus, Earn, SaveToDB,
            Die, DeleteOld, InsertNew, NextPhase, ProcessPacket, NoPacketLeft, VisitFreed,
            LogoutCancelled, LogoutWaits, RemovePlayer, EraseRemoved, Delete, player
      <3>3. d = c /\ (ExecutePacket(d) => HandleLogout(d))
        BY <3>2 DEF Disconnected, ExecutePacket, HandleLogin, HandleLogout, HandleCancelLogout,
            IInv, TypeOK
      <3> QED
        BY <3>2, <3>3
    <2>2. CASE Disconnected(c)
      <3>1. phase = "packets" /\ c \in todo /\ obj[c] = "live"
        BY <2>2 DEF Disconnected, IInv, LoopsAreSound
      <3> QED
        BY <3>1 DEF IInv, TimersAreReset
    <2>3. CASE ExecutePacket(c) /\ HandleLogout(c)
      <3>1. phase = "zones"
        BY <2>3 DEF ExecutePacket, HandleLogout, HasPacket, Process, WorldOpcodes, IInv,
            LoopsAreSound
      <3>2. obj[c] = "live"
        BY <2>3, SessionAssumption DEF ExecutePacket, IInv, LoopsAreSound
      <3> QED
        BY <3>1, <3>2 DEF IInv, TimersAreReset
    <2> QED
      BY <2>1, <2>2, <2>3
  <1> QED
    BY <1>1, Invariance, PTL DEF Spec, LogoutStartsAfresh

-----------------------------------------------------------------------------
(* The fleet: what the steps of the sessions are for Ships.                *)

LEMMA SameFleet ==
    ASSUME UNCHANGED <<obj, players, onMap>>
    PROVE  UNCHANGED Fleet!vars
  <1>1. \A c : Life(c)' = Life(c)
    BY DEF Life
  <1> QED
    BY <1>1 DEF Fleet!vars

\* The step of one ship.
LEMMA OneLife ==
    ASSUME NEW c \in Conns, NEW l, Life(c)' = l,
           \A d \in Conns \ {c} : Life(d)' = Life(d)
    PROVE  [d \in Conns |-> Life(d)]' = [[d \in Conns |-> Life(d)] EXCEPT ![c] = l]
  OBVIOUS

\* What m_Players tells of the Players in it.
LEMMA HereFacts ==
    ASSUME IInv, NEW c \in Conns
    PROVE  /\ User[c] \in Users
           /\ Life(c) = "none" <=> obj[c] = "none"
           /\ Life(c) = "here" <=> obj[c] = "live" /\ players[User[c]] = c
           /\ Life(c) = "coming" <=> obj[c] = "live" /\ players[User[c]] # c
  <1>1. obj[c] \in {"none", "live", "freed"} /\ User[c] \in Users
    BY SessionAssumption DEF IInv, TypeOK
  <1> QED
    BY <1>1 DEF Life

LEMMA LoadShips ==
    ASSUME IInv, NEW c \in Conns, Load(c)
    PROVE  Fleet!Come(c)
  <1>1. obj[c] = "none" /\ obj' = [obj EXCEPT ![c] = "live"] /\ UNCHANGED <<players, onMap>>
    BY DEF Load, world, IInv, PlayersAreLoaded
  <1>2. players[User[c]] # c
    BY <1>1, HereFacts, SessionAssumption DEF IInv, PlayersAreTheirs
  <1>3. /\ Life(c) = "none" /\ Life(c)' = "coming"
        /\ \A d \in Conns \ {c} : Life(d)' = Life(d)
    BY <1>1, <1>2 DEF Life, IInv, TypeOK
  <1> QED
    BY <1>1, <1>3, OneLife DEF Fleet!Come

LEMMA DeleteShips ==
    ASSUME IInv, NEW c \in Conns, Delete(c), UNCHANGED players, Life(c) = "here"
    PROVE  Fleet!Leave(c)
  <1>1. obj' = [obj EXCEPT ![c] = "freed"] /\ onMap' = onMap \ {c}
    BY DEF Delete
  <1>2. Life(c)' = "gone" /\ \A d \in Conns \ {c} : Life(d)' = Life(d)
    BY <1>1 DEF Life, IInv, TypeOK
  <1> QED
    BY <1>1, <1>2, OneLife DEF Fleet!Leave

LEMMA DeleteOldShips ==
    ASSUME IInv, DeleteOld
    PROVE  \E c \in Conns : Fleet!Leave(c)
  <1> DEFINE head == Head(queue)
             old == players[User[head]]
  <1>1. /\ queue # <<>> /\ erasing = None /\ old # None /\ Delete(old)
        /\ UNCHANGED players
    BY DEF DeleteOld
  <1>2. head \in Conns
    BY <1>1 DEF IInv, TypeOK
  <1>3. User[head] \in Users
    BY <1>2, SessionAssumption
  <1>4. old \in Conns /\ User[old] = User[head] /\ obj[old] = "live"
    BY <1>1, <1>3 DEF IInv, TypeOK, PlayersAreTheirs
  <1>5. Life(old) = "here"
    BY <1>4, HereFacts
  <1> QED
    BY <1>1, <1>4, <1>5, DeleteShips

LEMMA InsertNewShips ==
    ASSUME IInv, InsertNew
    PROVE  \E c \in Conns : Fleet!Enter(c)
  <1> DEFINE head == Head(queue)
  <1>a. head \in Conns /\ obj[head] = "live" /\ players[User[head]] # head
    <2>1. 1 \in 1..Len(queue) /\ head = queue[1] /\ head \in Conns
      BY DEF InsertNew, IInv, TypeOK
    <2> QED
      BY <2>1 DEF IInv, QueueIsFresh
  \* The head is another after the step: c stays.
  <1>b. PICK c \in Conns : c = head
    BY <1>a
  <1>1. /\ erasing = players[User[c]]
        /\ players' = [players EXCEPT ![User[c]] = c]
        /\ UNCHANGED <<obj, onMap>>
    BY <1>b DEF InsertNew, player
  <1>2. obj[c] = "live" /\ players[User[c]] # c
    BY <1>a, <1>b
  <1>3. User[c] \in Users /\ None \notin Conns
    BY SessionAssumption
  <1> HIDE DEF head
  \* The old Player is freed.
  <1>4. \A d \in Conns : players[User[c]] = d => obj[d] = "freed"
    BY <1>1, <1>3 DEF IInv, PlayersAreTheirs
  <1>5. \A d \in Conns : User[d] = User[c] => Life(d) # "here"
    BY <1>4, HereFacts
  <1>6. Life(c) = "coming" /\ Life(c)' = "here"
    <2>1. Life(c) = "coming"
      BY <1>2 DEF Life
    <2>2. obj'[c] = "live" /\ players'[User[c]] = c
      BY <1>1, <1>2, <1>3 DEF IInv, TypeOK
    <2>3. Life(c)' = "here"
      BY <2>2 DEF Life
    <2> QED
      BY <2>1, <2>3
  <1>7. ASSUME NEW d \in Conns \ {c}
        PROVE  Life(d)' = Life(d)
    <2>1. CASE User[d] = User[c]
      <3>1. players'[User[d]] # d
        BY <1>1, <1>3, <1>7, <2>1 DEF IInv, TypeOK
      <3>2. players[User[d]] = d => obj[d] = "freed"
        BY <1>4, <1>7, <2>1
      <3> QED
        BY <1>1, <3>1, <3>2 DEF Life
    <2>2. CASE User[d] # User[c]
      <3>1. players'[User[d]] = players[User[d]]
        BY <1>1, <1>7, <2>2, SessionAssumption DEF IInv, TypeOK
      <3> QED
        BY <1>1, <3>1 DEF Life
    <2> QED
      BY <2>1, <2>2
  <1>8. Fleet!Enter(c)
    <2>1. [d \in Conns |-> Life(d)]'
             = [[d \in Conns |-> Life(d)] EXCEPT ![c] = "here"]
      BY <1>2, <1>6, <1>7, OneLife
    <2>2. [d \in Conns |-> Life(d)][c] = "coming"
      BY <1>2, <1>6
    <2> QED
      BY <1>1, <1>2, <1>5, <2>1, <2>2 DEF Fleet!Enter
  <1> QED
    BY <1>2, <1>8

LEMMA RemoveShips ==
    ASSUME IInv, NEW c \in Conns, RemovePlayer(c)
    PROVE  Fleet!Leave(c) \/ UNCHANGED Fleet!vars
  <1>1. c \in removal /\ obj[c] = "live"
    BY DEF RemovePlayer, Visits, IInv, LoopsAreSound
  <1>2. Life(c) = "here"
    BY <1>1, HereFacts DEF IInv, RemovalFindsPlayer
  <1>3. UNCHANGED players
    BY DEF RemovePlayer
  <1>4. CASE Delete(c)
    BY <1>2, <1>3, <1>4, DeleteShips
  <1>5. CASE UNCHANGED <<player, onMap>>
    BY <1>3, <1>5, SameFleet DEF player
  <1> QED
    BY <1>4, <1>5 DEF RemovePlayer

\* Taking a freed Player out of m_Players changes nothing for the ships.
LEMMA EraseShips ==
    ASSUME IInv, NEW c \in Conns, EraseRemoved(c)
    PROVE  UNCHANGED Fleet!vars
  <1>1. /\ erasing = c /\ players' = [players EXCEPT ![User[c]] = None]
        /\ UNCHANGED <<obj, onMap>>
    BY DEF EraseRemoved, player
  <1>2. obj[c] = "freed" /\ players[User[c]] = c
    BY <1>1, SessionAssumption DEF IInv, PlayersAreTheirs
  <1>3. ASSUME NEW d \in Conns
        PROVE  Life(d)' = Life(d)
    <2>1. CASE d = c
      BY <1>1, <1>2, <2>1 DEF Life
    <2>2. CASE d # c
      <3>1. players'[User[d]] = d <=> players[User[d]] = d
        BY <1>1, <1>2, <2>2, SessionAssumption DEF IInv, TypeOK
      <3> QED
        BY <1>1, <3>1 DEF Life
    <2> QED
      BY <2>1, <2>2
  <1> QED
    BY <1>1, <1>3 DEF Fleet!vars

LEMMA ExecuteShips ==
    ASSUME IInv, NEW c \in Conns, ExecutePacket(c)
    PROVE  Fleet!TakeOff(c) \/ UNCHANGED Fleet!vars
  <1>1. busy = c /\ UNCHANGED <<obj, players>>
    BY DEF ExecutePacket
  <1>2. Life(c) = "here"
    BY <1>1, HereFacts, SessionAssumption DEF IInv, LoopsAreSound
  <1>3. CASE onMap' = onMap \cup {c}
    <2>1. \A d : Life(d)' = Life(d)
      BY <1>1 DEF Life
    <2> QED
      BY <1>2, <1>3, <2>1 DEF Fleet!TakeOff
  <1>4. CASE UNCHANGED onMap
    BY <1>1, <1>4, SameFleet
  <1> QED
    BY <1>3, <1>4 DEF ExecutePacket, HandleLogin, HandleLogout, HandleCancelLogout

LEMMA DieShips ==
    ASSUME NEW c \in Conns, Die(c)
    PROVE  Fleet!Crash(c)
  <1>1. UNCHANGED <<obj, players>> /\ onMap' = onMap \ {c}
    BY DEF Die, player
  <1>2. \A d : Life(d)' = Life(d)
    BY <1>1 DEF Life
  <1> QED
    BY <1>1, <1>2 DEF Fleet!Crash

LEMMA NextShips == IInv /\ [Next]_vars => [Fleet!Next]_Fleet!vars
  <1> SUFFICES ASSUME IInv, [Next]_vars PROVE [Fleet!Next]_Fleet!vars
    OBVIOUS
  <1> USE DEF Fleet!Next
  <1>1. CASE UNCHANGED vars
    BY <1>1, SameFleet DEF vars, player, world
  <1>2. ASSUME NEW c \in Conns, Load(c) \/ Die(c) \/ RemovePlayer(c) \/ EraseRemoved(c)
                                \/ ExecutePacket(c)
        PROVE  [Fleet!Next]_Fleet!vars
    BY <1>2, LoadShips, DieShips, RemoveShips, EraseShips, ExecuteShips
  <1>3. CASE DeleteOld \/ InsertNew
    BY <1>3, DeleteOldShips, InsertNewShips
  <1>4. ASSUME NEW c \in Conns,
               Accept(c) \/ Disconnect(c) \/ FindPlayer(c) \/ KickOld(c) \/ AddPlayer(c)
               \/ QueueLogin(c) \/ QueueReceived(c) \/ CheckStatus(c) \/ Earn(c) \/ SaveToDB(c)
        PROVE  UNCHANGED Fleet!vars
    BY <1>4, SameFleet
    DEF Accept, Disconnect, FindPlayer, KickOld, AddPlayer, QueueLogin, QueueReceived,
        QueuePacket, CheckStatus, Earn, SaveToDB, player, world
  <1>5. ASSUME NEW c \in Conns,
               NextPhase \/ Disconnected(c) \/ ProcessPacket(c) \/ NoPacketLeft(c)
               \/ VisitFreed(c) \/ LogoutCancelled(c) \/ LogoutWaits(c)
        PROVE  UNCHANGED Fleet!vars
    BY <1>5, SameFleet
    DEF NextPhase, Disconnected, ProcessPacket, NoPacketLeft, VisitFreed, LogoutCancelled,
        LogoutWaits, player, world
  <1>6. CASE NextPhase
    BY <1>6, SameFleet DEF NextPhase, player
  <1> QED
    BY <1>1, <1>2, <1>3, <1>4, <1>5, <1>6 DEF Next, NetworkThread, WorldThread

\* The sessions implement the ships: a user has one ship in the world, one that has left
\* never comes back, and only a ship in the world is on a map.
THEOREM ShipsImplemented == Spec => ImplementsShips
  <1>1. Init => Fleet!Init
    BY SessionAssumption DEF Init, Fleet!Init, Life
  <1> QED
    BY <1>1, NextShips, Invariance, PTL DEF Spec, ImplementsShips, Fleet!Spec

=============================================================================
