------------------------------ MODULE Session ------------------------------
(***************************************************************************)
(* The life of a Player object: a network thread creates it when a client  *)
(* logs in, the world thread takes it into m_Players, runs its packets,    *)
(* counts down its logout and frees it, a zone thread updates it while it  *)
(* is on a map.  A client that comes back gets a new Player, and the world *)
(* thread frees the old one when it finds both.                            *)
(*                                                                         *)
(* Every connection creates at most one Player, so a Player object has the *)
(* name of its connection.  What a player has earned is the set of the     *)
(* Players that earned something and whose earnings it includes.           *)
(*                                                                         *)
(* The zone threads are one here: what they do with different players is   *)
(* independent but for m_PlayerRemovalQueue.                               *)
(***************************************************************************)
EXTENDS Naturals, Sequences, FiniteSets

CONSTANTS Conns,      \* the connections of one run, and their Player objects
          Users,
          User,       \* the account each connection logs in to
          MaxPackets, \* bound on the packets each client sends after its login
          None

ASSUME SessionAssumption ==
    /\ User \in [Conns -> Users]
    /\ None \notin Conns
    /\ MaxPackets \in [Conns -> Nat]

VARIABLES
    conn,       \* the socket of each connection
    net,        \* what the network thread does with the connection
    sent,       \* how many packets the client has sent
    found,      \* HandleLoginPacket: the player that FindPlayer returned
    obj,        \* whether the Player is allocated, or freed
    inbox,      \* Player::m_RecievedQueue
    loggedIn,   \* Player::m_LoggedIn
    loggingOut, \* Player::m_LoggingOut
    elapsed,    \* IntervalLogout has counted some time
    data,       \* what the Player has earned
    saved,      \* the same of each user in the database
    queue,      \* World::m_PlayerQueue
    players,    \* World::m_Players
    removal,    \* World::m_PlayerRemovalQueue
    onMap,      \* the Players in a grid of a map
    phase,      \* where the tick of the world is
    todo,       \* the Players that the loop of this phase has still to visit
    busy,       \* the Player whose ProcessPacket runs
    erasing,    \* the freed Player that is still in m_Players
    crashed,    \* freed memory was used, or an assertion failed
    overlapped  \* auxiliary: users with a login before the last Player was gone

network == <<conn, net, sent, found>>
player  == <<obj, inbox, loggedIn, loggingOut, elapsed, data>>
world   == <<queue, players, removal, onMap, phase, todo, busy, erasing>>
vars    == <<network, player, world, saved, crashed, overlapped>>

WorldOpcodes == {"LOGIN", "CANCEL_LOG_OUT"}
MapOpcodes   == {"LOG_OUT"}
Opcodes      == WorldOpcodes \cup MapOpcodes
Phases       == {"queue", "packets", "removal", "zones"}
NetStates    == {"login", "kick", "load", "add", "packet", "ready", "receive"}

TypeOK ==
    /\ conn \in [Conns -> {"new", "open", "closed"}]
    /\ net \in [Conns -> NetStates]
    /\ sent \in [Conns -> Nat]
    /\ found \in [Conns -> Conns \cup {None}]
    /\ obj \in [Conns -> {"none", "live", "freed"}]
    /\ inbox \in [Conns -> Seq(Opcodes)]
    /\ loggedIn \in [Conns -> BOOLEAN]
    /\ loggingOut \in [Conns -> BOOLEAN]
    /\ elapsed \in [Conns -> BOOLEAN]
    /\ data \in [Conns -> SUBSET Conns]
    /\ saved \in [Users -> SUBSET Conns]
    /\ queue \in Seq(Conns)
    /\ players \in [Users -> Conns \cup {None}]
    /\ removal \subseteq Conns /\ onMap \subseteq Conns /\ todo \subseteq Conns
    /\ phase \in Phases
    /\ busy \in Conns \cup {None} /\ erasing \in Conns \cup {None}
    /\ crashed \in BOOLEAN
    /\ overlapped \subseteq Users

Init ==
    /\ conn = [c \in Conns |-> "new"]
    /\ net = [c \in Conns |-> "login"]
    /\ sent = [c \in Conns |-> 0]
    /\ found = [c \in Conns |-> None]
    /\ obj = [c \in Conns |-> "none"]
    /\ inbox = [c \in Conns |-> <<>>]
    /\ loggedIn = [c \in Conns |-> FALSE]
    /\ loggingOut = [c \in Conns |-> FALSE]
    /\ elapsed = [c \in Conns |-> FALSE]
    /\ data = [c \in Conns |-> {}]
    /\ saved = [u \in Users |-> {}]
    /\ queue = <<>>
    /\ players = [u \in Users |-> None]
    /\ removal = {} /\ onMap = {} /\ todo = {}
    /\ phase = "queue"
    /\ busy = None /\ erasing = None
    /\ crashed = FALSE
    /\ overlapped = {}

-----------------------------------------------------------------------------
(* The network thread of a connection.                                     *)

Accept(c) ==
    /\ conn[c] = "new"
    /\ conn' = [conn EXCEPT ![c] = "open"]
    /\ UNCHANGED <<net, sent, found, player, world, saved, crashed, overlapped>>

(* The client goes away; the read fails and CloseSocket is called.         *)
Disconnect(c) ==
    /\ conn[c] = "open" /\ net[c] \in {"login", "ready"}
    /\ conn' = [conn EXCEPT ![c] = "closed"]
    /\ UNCHANGED <<net, sent, found, player, world, saved, crashed, overlapped>>

Queued(d) == \E i \in 1..Len(queue) : queue[i] = d

(* Another login of the same user that has not reached m_Players yet.      *)
OtherLogin(c) ==
    \E d \in Conns \ {c} :
        /\ User[d] = User[c]
        /\ net[d] \in {"kick", "load", "add"} \/ Queued(d)

(* HandleLoginPacket: FindPlayer, without a lock.  A Player that is being  *)
(* freed is still found.                                                   *)
FindPlayer(c) ==
    /\ conn[c] = "open" /\ net[c] = "login"
    /\ LET p == players[User[c]] IN
       /\ found' = [found EXCEPT ![c] = p]
       /\ net' = [net EXCEPT ![c] = IF p = None THEN "load" ELSE "kick"]
       /\ overlapped' = IF p # None \/ OtherLogin(c)
                        THEN overlapped \cup {User[c]} ELSE overlapped
    /\ UNCHANGED <<conn, sent, player, world, saved, crashed>>

(* SaveToDB and CloseSocket of the old Player, if nobody has freed it.     *)
KickOld(c) ==
    /\ net[c] = "kick"
    /\ LET p == found[c] IN
       IF obj[p] = "live"
       THEN /\ saved' = [saved EXCEPT ![User[c]] = data[p]]
            /\ conn' = [conn EXCEPT ![p] = "closed"]
            /\ UNCHANGED crashed
       ELSE crashed' = TRUE /\ UNCHANGED <<saved, conn>>
    /\ net' = [net EXCEPT ![c] = "load"]
    /\ UNCHANGED <<sent, found, player, world, overlapped>>

(* new Player and LoadFromDB; a Player that cannot be loaded is never      *)
(* added to the world, but its connection takes the same way on.           *)
Load(c) ==
    /\ net[c] = "load"
    /\ obj' = [obj EXCEPT ![c] = "live"]
    /\ data' = [data EXCEPT ![c] = saved[User[c]]]
    /\ \/ net' = [net EXCEPT ![c] = "add"] /\ UNCHANGED conn
       \/ /\ net' = [net EXCEPT ![c] = "packet"]
          /\ conn' = [conn EXCEPT ![c] = "closed"]
    /\ UNCHANGED <<sent, found, inbox, loggedIn, loggingOut, elapsed, world, saved,
                   crashed, overlapped>>

AddPlayer(c) ==
    /\ net[c] = "add"
    /\ queue' = Append(queue, c)
    /\ net' = [net EXCEPT ![c] = "packet"]
    /\ UNCHANGED <<conn, sent, found, player, players, removal, onMap, phase, todo,
                   busy, erasing, saved, crashed, overlapped>>

(* The network thread puts a packet into the inbox of its Player.  If the  *)
(* world has freed it, the packet is lost or the server crashes.           *)
QueuePacket(c, op) ==
    /\ net' = [net EXCEPT ![c] = "ready"]
    /\ IF obj[c] = "freed"
       THEN crashed' \in BOOLEAN /\ UNCHANGED inbox
       ELSE inbox' = [inbox EXCEPT ![c] = Append(@, op)] /\ UNCHANGED crashed
    /\ UNCHANGED <<conn, sent, found, obj, loggedIn, loggingOut, elapsed, data, world,
                   saved, overlapped>>

(* ProcessIncomingData after HandleLoginPacket: the "!|" packet.           *)
QueueLogin(c) == net[c] = "packet" /\ QueuePacket(c, "LOGIN")

(* ProcessIncomingData of an authenticated connection: STATUS_LOGGED_IN.   *)
CheckStatus(c) ==
    /\ conn[c] = "open" /\ net[c] = "ready"
    /\ sent[c] < MaxPackets[c]
    /\ sent' = [sent EXCEPT ![c] = @ + 1]
    /\ loggedIn[c]
    /\ net' = [net EXCEPT ![c] = "receive"]
    /\ UNCHANGED <<conn, found, player, world, saved, crashed, overlapped>>

QueueReceived(c) ==
    /\ net[c] = "receive"
    /\ \E op \in {"LOG_OUT", "CANCEL_LOG_OUT"} : QueuePacket(c, op)

-----------------------------------------------------------------------------
(* The world thread.                                                       *)

\* Slip: the destructor leaves the player on its map.
DeleteOnMap(c) ==
    /\ conn' = [conn EXCEPT ![c] = "closed"]
    /\ saved' = [saved EXCEPT ![User[c]] = data[c]]
    /\ inbox' = [inbox EXCEPT ![c] = <<>>]
    /\ obj' = [obj EXCEPT ![c] = "freed"]
    /\ erasing' = c
    /\ UNCHANGED <<net, sent, found, loggedIn, loggingOut, elapsed, data, onMap>>

\* Slip: the destructor does not save the player.
DeleteUnsaved(c) ==
    /\ conn' = [conn EXCEPT ![c] = "closed"]
    /\ inbox' = [inbox EXCEPT ![c] = <<>>]
    /\ onMap' = onMap \ {c}
    /\ obj' = [obj EXCEPT ![c] = "freed"]
    /\ erasing' = c
    /\ UNCHANGED <<net, sent, found, loggedIn, loggingOut, elapsed, data, saved>>

(* The destructor of Player: the socket is closed, the player is saved and *)
(* taken off its map.                                                      *)
Delete(c) ==
    /\ conn' = [conn EXCEPT ![c] = "closed"]
    /\ saved' = [saved EXCEPT ![User[c]] = data[c]]
    /\ inbox' = [inbox EXCEPT ![c] = <<>>]
    /\ onMap' = onMap \ {c}
    /\ obj' = [obj EXCEPT ![c] = "freed"]
    /\ erasing' = c
    /\ UNCHANGED <<net, sent, found, loggedIn, loggingOut, elapsed, data>>

(* ProcessPlayer: the Player that the user still has in m_Players ...      *)
DeleteOld ==
    /\ phase = "queue" /\ queue # <<>> /\ erasing = None
    /\ LET old == players[User[Head(queue)]] IN old # None /\ Delete(old)
    /\ UNCHANGED <<queue, players, removal, phase, todo, busy, crashed, overlapped>>

\* Slip: the entry of m_Players is overwritten and the old Player not freed.
InsertNewOver ==
    /\ phase = "queue" /\ queue # <<>>
    /\ players' = [players EXCEPT ![User[Head(queue)]] = Head(queue)]
    /\ queue' = Tail(queue)
    /\ erasing' = None
    /\ UNCHANGED <<network, player, removal, onMap, phase, todo, busy, saved,
                   crashed, overlapped>>

(* ... is replaced by the new one.                                         *)
InsertNew ==
    /\ phase = "queue" /\ queue # <<>>
    /\ erasing = players[User[Head(queue)]]
    /\ players' = [players EXCEPT ![User[Head(queue)]] = Head(queue)]
    /\ queue' = Tail(queue)
    /\ erasing' = None
    /\ UNCHANGED <<network, player, removal, onMap, phase, todo, busy, saved,
                   crashed, overlapped>>

(* The loops of World::Update follow each other.                           *)
NextPhase ==
    /\ todo = {} /\ busy = None /\ erasing = None
    /\ \/ /\ phase = "queue" /\ queue = <<>>
          /\ phase' = "packets"
          /\ todo' = {players[u] : u \in Users} \ {None}
       \/ phase = "packets" /\ phase' = "removal" /\ todo' = removal
       \/ phase = "removal" /\ phase' = "zones" /\ todo' = onMap
       \/ phase = "zones" /\ phase' = "queue" /\ todo' = {}
    /\ UNCHANGED <<network, player, queue, players, removal, onMap, busy, erasing,
                   saved, crashed, overlapped>>

\* Slip: the logout is marked and nobody counts its time.
DisconnectedNotQueued(c) ==
    /\ phase = "packets" /\ busy = None /\ c \in todo
    /\ conn[c] = "closed"
    /\ todo' = todo \ {c}
    /\ loggingOut' = [loggingOut EXCEPT ![c] = TRUE]
    /\ UNCHANGED <<network, obj, inbox, loggedIn, elapsed, data, queue, players,
                   removal, onMap, phase, busy, erasing, saved, crashed, overlapped>>

(* ProcessPlayerPackets: a closed socket starts the logout.                *)
Disconnected(c) ==
    /\ phase = "packets" /\ busy = None /\ c \in todo
    /\ conn[c] = "closed"
    /\ todo' = todo \ {c}
    /\ IF loggingOut[c]
       THEN UNCHANGED <<loggingOut, removal>>
       ELSE /\ loggingOut' = [loggingOut EXCEPT ![c] = TRUE]
            /\ removal' = removal \cup {c}
    /\ UNCHANGED <<network, obj, inbox, loggedIn, elapsed, data, queue, players,
                   onMap, phase, busy, erasing, saved, crashed, overlapped>>

(* ProcessPacket, called by the world thread with the filter of the world  *)
(* and by Grid::Update with that of the map.                               *)
ProcessPacket(c) ==
    /\ phase \in {"packets", "zones"} /\ busy = None /\ c \in todo
    /\ phase = "packets" => conn[c] # "closed"
    /\ todo' = todo \ {c}
    /\ busy' = IF conn[c] = "closed" THEN None ELSE c
    /\ UNCHANGED <<network, player, queue, players, removal, onMap, phase, erasing,
                   saved, crashed, overlapped>>

\* Slip: the map thread cancels logouts, as it starts them.
ProcessCancelOnMap(op) == IF op = "LOGIN" THEN "packets" ELSE "zones"

\* Slip: the login packet is left to the map thread.
ProcessLoginOnMap(op) == IF op = "CANCEL_LOG_OUT" THEN "packets" ELSE "zones"

(* The opcode table: the thread that processes a packet.                   *)
Process(op) == IF op \in WorldOpcodes THEN "packets" ELSE "zones"

(* Next() hands out only the front packet, and only if the filter wants it.*)
HasPacket(c) == inbox[c] # <<>> /\ Process(Head(inbox[c])) = phase

HandleLogin(c) ==
    /\ Head(inbox[c]) = "LOGIN"
    /\ loggedIn' = [loggedIn EXCEPT ![c] = TRUE]
    /\ onMap' = onMap \cup {c}
    /\ UNCHANGED <<loggingOut, removal>>

HandleLogout(c) ==
    /\ Head(inbox[c]) = "LOG_OUT"
    /\ loggingOut' = [loggingOut EXCEPT ![c] = TRUE]
    /\ removal' = removal \cup {c}
    /\ UNCHANGED <<loggedIn, onMap>>

HandleCancelLogout(c) ==
    /\ Head(inbox[c]) = "CANCEL_LOG_OUT"
    /\ loggedIn' = [loggedIn EXCEPT ![c] = TRUE]
    /\ loggingOut' = [loggingOut EXCEPT ![c] = FALSE]
    /\ UNCHANGED <<onMap, removal>>

ExecutePacket(c) ==
    /\ busy = c /\ HasPacket(c)
    /\ inbox' = [inbox EXCEPT ![c] = Tail(@)]
    /\ HandleLogin(c) \/ HandleLogout(c) \/ HandleCancelLogout(c)
    /\ UNCHANGED <<network, obj, elapsed, data, queue, players, phase, todo, busy,
                   erasing, saved, crashed, overlapped>>

NoPacketLeft(c) ==
    /\ busy = c /\ ~HasPacket(c)
    /\ busy' = None
    /\ UNCHANGED <<network, player, queue, players, removal, onMap, phase, todo,
                   erasing, saved, crashed, overlapped>>

-----------------------------------------------------------------------------
(* ProcessRemovalPlayer.                                                   *)

Visits(c) == phase = "removal" /\ c \in todo /\ erasing = None

(* An entry that was freed by ProcessPlayer: what is read there may look   *)
(* like no player or like one that does not log out (erased), like one     *)
(* whose timer runs (kept), or bring the server down.                      *)
VisitFreed(c) ==
    /\ Visits(c) /\ obj[c] = "freed"
    /\ todo' = todo \ {c}
    /\ removal' \in {removal, removal \ {c}}
    /\ crashed' \in BOOLEAN
    /\ UNCHANGED <<network, player, queue, players, onMap, phase, busy, erasing,
                   saved, overlapped>>

LogoutCancelled(c) ==
    /\ Visits(c) /\ obj[c] = "live" /\ ~loggingOut[c]
    /\ elapsed' = [elapsed EXCEPT ![c] = FALSE]
    /\ removal' = removal \ {c}
    /\ todo' = todo \ {c}
    /\ UNCHANGED <<network, obj, inbox, loggedIn, loggingOut, data, queue, players,
                   onMap, phase, busy, erasing, saved, crashed, overlapped>>

LogoutWaits(c) ==
    /\ Visits(c) /\ obj[c] = "live" /\ loggingOut[c]
    /\ elapsed' = [elapsed EXCEPT ![c] = TRUE]
    /\ todo' = todo \ {c}
    /\ UNCHANGED <<network, obj, inbox, loggedIn, loggingOut, data, queue, players,
                   removal, onMap, phase, busy, erasing, saved, crashed, overlapped>>

(* RemovePlayer asserts that the id is in m_Players, frees the Player ...  *)
RemovePlayer(c) ==
    /\ Visits(c) /\ obj[c] = "live" /\ loggingOut[c]
    /\ IF players[User[c]] = None
       THEN crashed' = TRUE /\ UNCHANGED <<network, player, onMap, erasing, saved>>
       ELSE Delete(c) /\ UNCHANGED crashed
    /\ UNCHANGED <<queue, players, removal, phase, todo, busy, overlapped>>

(* ... and only then takes the id out of m_Players.                        *)
EraseRemoved(c) ==
    /\ phase = "removal" /\ erasing = c
    /\ players' = [players EXCEPT ![User[c]] = None]
    /\ removal' = removal \ {c}
    /\ todo' = todo \ {c}
    /\ erasing' = None
    /\ UNCHANGED <<network, player, queue, onMap, phase, busy, saved, crashed, overlapped>>

-----------------------------------------------------------------------------
(* The zone threads, after the packets of the player (Player::Update).     *)

Updates(c) == phase = "zones" /\ c \in onMap \ todo /\ busy # c

Earn(c) ==
    /\ Updates(c) /\ data' = [data EXCEPT ![c] = @ \cup {c}]
    /\ UNCHANGED <<network, obj, inbox, loggedIn, loggingOut, elapsed, world, saved,
                   crashed, overlapped>>

SaveToDB(c) ==
    /\ Updates(c) /\ saved' = [saved EXCEPT ![User[c]] = data[c]]
    /\ UNCHANGED <<network, player, world, crashed, overlapped>>

Die(c) ==
    /\ Updates(c) /\ onMap' = onMap \ {c}
    /\ UNCHANGED <<network, player, queue, players, removal, phase, todo, busy, erasing,
                   saved, crashed, overlapped>>

-----------------------------------------------------------------------------
NetworkThread(c) ==
    \/ FindPlayer(c) \/ KickOld(c) \/ Load(c) \/ AddPlayer(c) \/ QueueLogin(c)
    \/ QueueReceived(c)

WorldThread ==
    \/ DeleteOld \/ InsertNew \/ NextPhase
    \/ \E c \in Conns :
        \/ Disconnected(c) \/ ProcessPacket(c) \/ ExecutePacket(c) \/ NoPacketLeft(c)
        \/ VisitFreed(c) \/ LogoutCancelled(c) \/ LogoutWaits(c) \/ RemovePlayer(c)
        \/ EraseRemoved(c)

Next ==
    /\ ~crashed
    /\ \/ \E c \in Conns :
            \/ Accept(c) \/ Disconnect(c) \/ NetworkThread(c) \/ CheckStatus(c)
            \/ Earn(c) \/ SaveToDB(c) \/ Die(c)
       \/ WorldThread

Spec == Init /\ [][Next]_vars

(* The threads run, and a logout timer that is counted passes.  That no    *)
(* client keeps the world in ProcessPacket by sending for ever is bounded  *)
(* by MaxPackets.                                                          *)
Fairness ==
    /\ WF_vars(~crashed /\ WorldThread)
    /\ \A c \in Conns : WF_vars(~crashed /\ NetworkThread(c))
    /\ \A c \in Conns : SF_vars(~crashed /\ RemovePlayer(c))

FairSpec == Spec /\ Fairness

-----------------------------------------------------------------------------
(* A user has one ship: whoever is on a map is the Player that m_Players   *)
(* holds for its user and is not freed, however the logins overlapped.     *)
OneShipPerUser ==
    \A c \in onMap : obj[c] = "live" /\ players[User[c]] = c

(* The world keeps the promise of Ships, in every step: a Player comes into *)
(* m_Players once, after the last one of its user was freed, and neither a  *)
(* packet that comes late nor a removal that is pending brings it back.     *)
Life(c) ==
    CASE obj[c] = "none"  -> "none"
      [] obj[c] = "freed" -> "gone"
      [] obj[c] = "live" /\ players[User[c]] = c -> "here"
      [] obj[c] = "live" /\ players[User[c]] # c -> "coming"

Fleet == INSTANCE Ships WITH life <- [c \in Conns |-> Life(c)], flying <- onMap

ImplementsShips == Fleet!Spec

(* RemovePlayer finds what it removes ("Attempted to remove player but     *)
(* player is not in world!"): a Player waiting for its logout that was not *)
(* freed is the one in m_Players.                                          *)
RemovalFindsPlayer ==
    \A c \in removal :
        obj[c] = "live" \/ (erasing = c /\ phase = "removal") => players[User[c]] = c

(* A user that logged in only when the last Player was gone loses nothing: *)
(* what a freed Player had is in the database, and so is what every living *)
(* Player started from.                                                    *)
CleanLoginsLoseNothing ==
    \A c \in Conns :
        obj[c] = "freed" /\ User[c] \notin overlapped =>
            /\ data[c] \subseteq saved[User[c]]
            /\ \A d \in Conns :
                  /\ User[d] = User[c] /\ obj[d] = "live"
                  /\ net[d] = "add" \/ Queued(d) \/ players[User[d]] = d
                  => data[c] \subseteq data[d]

(* A logout starts with its whole time to wait, also when an earlier one   *)
(* was cancelled: the reset of the timer always comes in between.          *)
LogoutStartsAfresh ==
    [][\A c \in Conns : ~loggingOut[c] /\ loggingOut'[c] => ~elapsed[c]]_vars

(* Whoever lost its connection is taken out of m_Players.                  *)
DisconnectedLeaves ==
    \A c \in Conns :
        conn[c] = "closed" /\ players[User[c]] = c ~> players[User[c]] # c \/ crashed

(* A login that was accepted puts the ship on a map, unless the connection *)
(* is closed before.                                                       *)
LoginReachesMap ==
    \A c \in Conns : net[c] = "add" ~> c \in onMap \/ conn[c] = "closed" \/ crashed

(* "Can happen if player reconnects" (ProcessRemovalPlayer): an entry of   *)
(* the removal queue whose player is gone can be told by looking at it.    *)
RemovalQueueIsLive == \A c \in removal : obj[c] = "live" \/ erasing = c
=============================================================================
