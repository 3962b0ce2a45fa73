-------------------------------- MODULE Chat --------------------------------
(***************************************************************************)
(* The rooms of the chat server and the players in them.                   *)
(*                                                                         *)
(* The handlers of a connection run on its network thread; Base::Update,   *)
(* which deletes the players that left and the rooms that are empty or     *)
(* closed, runs on the main thread.  They share rooms and players without  *)
(* a lock.  A step writes one container or one field of one object; what   *)
(* is read on the way to a write, and the packets sent there, belong to    *)
(* its step, but a player or a room that was looked up by name or id is    *)
(* used in a later step than the search.  So joining a room (the player's  *)
(* m_Rooms, then the room's m_RoomPlayers), leaving it (the other way      *)
(* round), creating, closing and deleting it each take several steps.      *)
(*                                                                         *)
(* A deleted object that is used has no meaning: the model ends there, and *)
(* every property is about the behaviour up to that point; what a deleted  *)
(* object held is dropped from the state.  The containers themselves are   *)
(* taken as intact.                                                        *)
(*                                                                         *)
(* A connection logs in once, so it stands for its player too.  The rooms  *)
(* of the companies and Clan Search are like Global; the room of a clan is *)
(* an object of its own for each member, with nobody else in it, and is    *)
(* left out, like the lists of ignored users, which hold no pointers.      *)
(***************************************************************************)
EXTENDS Naturals, FiniteSets

CONSTANTS
    Conns,          \* the connections, each with the player that logs in on it
    Users,          \* the accounts
    User,           \* the account of each connection
    NetThreads,
    Thread,         \* the network thread of each connection
    Main,           \* the main thread
    PrivateIds,     \* the ids that GenerateRoomId draws from
    PrivateRooms,   \* the Room objects that /create allocates, each once
    Global,         \* the standard room, and its id
    None

ASSUME ChatAssumption ==
    /\ User \in [Conns -> Users]
    /\ Thread \in [Conns -> NetThreads]
    /\ Main \notin NetThreads
    /\ Global \notin PrivateIds \cup PrivateRooms \cup Conns
    /\ None \notin PrivateIds \cup PrivateRooms \cup Conns \cup {Global}
    /\ Conns \cap PrivateRooms = {}

Rooms == PrivateRooms \cup {Global}
Ids == PrivateIds \cup {Global}
Threads == NetThreads \cup {Main}

VARIABLES
    conn,       \* the socket: open or closed
    player,     \* the Player object: none, live or freed
    known,      \* m_Players of the manager
    roomsById,  \* m_Rooms of the manager
    state,      \* the Room object: unused, live or freed
    rid,        \* m_Id of a room
    owner,      \* m_Owner of a room
    scheduled,  \* m_ScheduledForDeletion
    members,    \* m_RoomPlayers: a player for each account
    mine,       \* m_Rooms of a player
    current,    \* m_CurrentRoom of a player, when it is a private room
    busy,       \* the call that is under way on a thread
    deleting,   \* the player or the room that Update is deleting
    todo,       \* the rooms that ~Player still leaves, the players a room is taken from
    crashed,    \* a deleted object was used
    torn,       \* history: <<player, room>>, invited while leaving a room of that id
    spoiled     \* history: rooms whose id was drawn twice, or that went before their owner came

roomVars == <<state, rid, owner, scheduled, members>>
playerVars == <<player, known, mine, current>>
histVars == <<torn, spoiled>>
objVars == <<playerVars, roomsById, roomVars>>
vars == <<conn, objVars, busy, deleting, todo, crashed, histVars>>

\* What a thread is at: for whom, in which room, and whom it concerns.
Job(op, c, r, d) == [op |-> op, conn |-> c, room |-> r, to |-> d]
Idle == Job("idle", None, None, None)
Ops == {"idle", "join", "login", "send", "tell", "publish", "enter", "close", "closing",
        "erase", "leave"}

TypeOK ==
    /\ conn \in [Conns -> {"open", "closed"}]
    /\ player \in [Conns -> {"none", "live", "freed"}]
    /\ known \subseteq Conns
    /\ roomsById \in [Ids -> Rooms \cup {None}]
    /\ state \in [Rooms -> {"unused", "live", "freed"}]
    /\ rid \in [Rooms -> Ids \cup {None}]
    /\ owner \in [Rooms -> Conns \cup {None}]
    /\ scheduled \in [Rooms -> BOOLEAN]
    /\ members \in [Rooms -> [Users -> Conns \cup {None}]]
    /\ mine \in [Conns -> [Ids -> Rooms \cup {None}]]
    /\ current \in [Conns -> PrivateRooms \cup {None}]
    /\ busy \in [Threads -> [op : Ops, conn : Conns \cup {None}, room : Rooms \cup {None},
                             to : Conns \cup {None}]]
    /\ deleting \in Conns \cup PrivateRooms \cup {None}
    /\ todo \subseteq Ids \cup Conns
    /\ crashed \in BOOLEAN
    /\ torn \subseteq Conns \X PrivateRooms
    /\ spoiled \subseteq PrivateRooms

\* Nobody is in a room.
Nobody == [u \in Users |-> None]

\* LoadRooms of the manager has made the standard room.
Init ==
    /\ conn = [c \in Conns |-> "open"]
    /\ player = [c \in Conns |-> "none"]
    /\ known = {}
    /\ roomsById = [i \in Ids |-> IF i = Global THEN Global ELSE None]
    /\ state = [r \in Rooms |-> IF r = Global THEN "live" ELSE "unused"]
    /\ rid = [r \in Rooms |-> IF r = Global THEN Global ELSE None]
    /\ owner = [r \in Rooms |-> None]
    /\ scheduled = [r \in Rooms |-> FALSE]
    /\ members = [r \in Rooms |-> Nobody]
    /\ mine = [c \in Conns |-> [i \in Ids |-> None]]
    /\ current = [c \in Conns |-> None]
    /\ busy = [t \in Threads |-> Idle]
    /\ deleting = None
    /\ todo = {}
    /\ crashed = FALSE
    /\ torn = {}
    /\ spoiled = {}

-----------------------------------------------------------------------------
\* Steps of a network thread.

\* The network thread of c is free to run a handler of c.
Free(c) == ~crashed /\ busy[Thread[c]] = Idle /\ conn[c] = "open"
Handles(c) == Free(c) /\ player[c] = "live"

\* The thread goes on to its next step, or is done.
Goes(t, op) == busy' = [busy EXCEPT ![t].op = op]
Done(t) == busy' = [busy EXCEPT ![t] = Idle]

Dead(r) == r # None /\ state[r] = "freed"
\* A packet to these members reaches a player that is deleted.
SentToDead(ms) == \E u \in Users : ms[u] # None /\ player[ms[u]] = "freed"

\* A deleted object is used.
Crash == crashed' = TRUE /\ UNCHANGED <<conn, objVars, busy, deleting, todo, histVars>>

\* The peer has gone, or an error: between two handlers of the thread.
Disconnect(c) ==
    /\ Free(c)
    /\ conn' = [conn EXCEPT ![c] = "closed"]
    /\ UNCHANGED <<objVars, busy, deleting, todo, crashed, histVars>>

\* HandleLogin: the account is found, and its rooms are loaded: Player::AddRoom ...
Login(c) ==
    /\ Free(c) /\ player[c] = "none"
    /\ player' = [player EXCEPT ![c] = "live"]
    /\ mine' = [mine EXCEPT ![c][Global] = Global]
    /\ busy' = [busy EXCEPT ![Thread[c]] = Job("join", c, Global, c)]
    /\ UNCHANGED <<conn, known, current, roomsById, roomVars, deleting, todo, crashed, histVars>>

\* The account is not found: the socket is closed, the Player never deleted.
LoginFails(c) ==
    /\ Free(c) /\ player[c] = "none"
    /\ conn' = [conn EXCEPT ![c] = "closed"]
    /\ UNCHANGED <<objVars, busy, deleting, todo, crashed, histVars>>

\* Slip: m_Rooms.insert, which keeps the room that the player has by that id.
EnterInserts(t) ==
    LET b == busy[t]
    IN  /\ ~crashed /\ b.op = "enter"
        /\ IF player[b.to] = "freed" \/ Dead(b.room) \/ SentToDead(members[b.room]) THEN Crash
           ELSE /\ mine' = IF mine[b.to][rid[b.room]] # None THEN mine
                           ELSE [mine EXCEPT ![b.to][rid[b.room]] = b.room]
                /\ Goes(t, "join")
                /\ UNCHANGED <<conn, player, known, current, roomsById, roomVars, deleting,
                               todo, crashed, histVars>>

\* Player::AddRoom: the player learns of the room, and is told ...
Enter(t) ==
    LET b == busy[t]
    IN  /\ ~crashed /\ b.op = "enter"
        /\ IF player[b.to] = "freed" \/ Dead(b.room) \/ SentToDead(members[b.room]) THEN Crash
           ELSE /\ mine' = [mine EXCEPT ![b.to][rid[b.room]] = b.room]
                /\ Goes(t, "join")
                /\ UNCHANGED <<conn, player, known, current, roomsById, roomVars, deleting,
                               todo, crashed, histVars>>

\* Slip: only the player learns of the room.
JoinOneSided(t) ==
    LET b == busy[t]
    IN  /\ ~crashed /\ b.op = "join"
        /\ IF b.room = Global THEN Goes(t, "login") ELSE Done(t)
        /\ UNCHANGED <<conn, objVars, deleting, todo, crashed, histVars>>

\* ... and the room of the player.
Join(t) ==
    LET b == busy[t]
    IN  /\ ~crashed /\ b.op = "join"
        /\ IF player[b.to] = "freed" \/ Dead(b.room) THEN Crash
           ELSE /\ members' = [members EXCEPT ![b.room][User[b.to]] = b.to]
                /\ IF b.room = Global THEN Goes(t, "login") ELSE Done(t)
                /\ UNCHANGED <<conn, playerVars, roomsById, state, rid, owner, scheduled,
                               deleting, todo, crashed, histVars>>

\* The manager learns of the player, who is sent the rooms.
AddPlayer(t) ==
    /\ ~crashed /\ busy[t].op = "login"
    /\ known' = known \cup {busy[t].conn}
    /\ Done(t)
    /\ UNCHANGED <<conn, player, mine, current, roomsById, roomVars, deleting, todo, crashed,
                   histVars>>

\* HandleChangeRoom: the manager has the id, and the player too.  (No command does more
\* in a standard room than in none, so that is taken for none.)
ChangeRoom(c) ==
    /\ Handles(c)
    /\ \E i \in Ids :
          /\ roomsById[i] # None /\ mine[c][i] # None
          /\ current' = [current EXCEPT ![c] = IF i = Global THEN None ELSE roomsById[i]]
    /\ UNCHANGED <<conn, player, known, mine, roomsById, roomVars, busy, deleting, todo,
                   crashed, histVars>>

\* HandleSendMessage: the room by its id, in the rooms of the player.  (A message to
\* Global, which is never deleted, changes nothing here.)
SendMessage(c) ==
    /\ Handles(c)
    /\ \E i \in PrivateIds :
          /\ mine[c][i] # None
          /\ busy' = [busy EXCEPT ![Thread[c]] = Job("send", None, mine[c][i], None)]
    /\ UNCHANGED <<conn, objVars, deleting, todo, crashed, histVars>>

\* SendRoomMessage to every player of the room.
SendRoomMessage(t) ==
    LET r == busy[t].room
    IN  /\ ~crashed /\ busy[t].op = "send"
        /\ IF Dead(r) \/ SentToDead(members[r]) THEN Crash
           ELSE Done(t) /\ UNCHANGED <<conn, objVars, deleting, todo, crashed, histVars>>

\* FindPlayerByUsername goes through the players until one has the name; d is found.
Find(d) == d \in known /\ player[d] = "live"

\* It comes to a player that is deleted already.  (/announce goes through all.)
SearchMeetsDead(c) ==
    /\ Handles(c) /\ \E d \in known : player[d] = "freed"
    /\ Crash

\* /w, /ignore and /allow: the player by name ...
Tell(c) ==
    /\ Handles(c)
    /\ \E d \in Conns :
          /\ Find(d)
          /\ busy' = [busy EXCEPT ![Thread[c]] = Job("tell", None, None, d)]
    /\ UNCHANGED <<conn, objVars, deleting, todo, crashed, histVars>>

\* ... and then a packet to it, or its id.
Told(t) ==
    /\ ~crashed /\ busy[t].op = "tell"
    /\ IF player[busy[t].to] = "freed" THEN Crash
       ELSE Done(t) /\ UNCHANGED <<conn, objVars, deleting, todo, crashed, histVars>>

-----------------------------------------------------------------------------
\* Private rooms.

\* Own rooms of a player, as /create counts them.
Own(c) == {r \in {mine[c][i] : i \in Ids} \ {None} : owner[r] = c}

\* The rooms that have id i although the manager does not know of it: another creator
\* has drawn it, too, and is about to publish its room, or has lost it that way.
Twins(i) == {x \in PrivateRooms : state[x] = "live" /\ rid[x] = i}

\* /create: a new room with a new id, unless the player owns three.  The rooms of the
\* player are looked at, and the names of all rooms ...
Create(c) ==
    /\ Handles(c)
    /\ IF \E i \in Ids : Dead(mine[c][i]) \/ Dead(roomsById[i]) THEN Crash
       ELSE /\ Cardinality(Own(c)) < 3
            /\ \E r \in PrivateRooms, i \in PrivateIds :
                  /\ state[r] = "unused" /\ roomsById[i] = None
                  /\ state' = [state EXCEPT ![r] = "live"]
                  /\ rid' = [rid EXCEPT ![r] = i]
                  /\ owner' = [owner EXCEPT ![r] = c]
                  /\ busy' = [busy EXCEPT ![Thread[c]] = Job("publish", c, r, c)]
                  /\ spoiled' = IF Twins(i) = {} THEN spoiled ELSE spoiled \cup Twins(i) \cup {r}
            /\ UNCHANGED <<conn, playerVars, roomsById, scheduled, members, deleting, todo,
                           crashed, torn>>

\* ... then the manager learns of it, and after it the owner, as if it were invited.
\* If another creator has drawn the id, too, the manager forgets the room it had.
Publish(t) ==
    LET r == busy[t].room
    IN  /\ ~crashed /\ busy[t].op = "publish"
        /\ roomsById' = [roomsById EXCEPT ![rid[r]] = r]
        /\ Goes(t, "enter")
        /\ UNCHANGED <<conn, playerVars, roomVars, deleting, todo, crashed, histVars>>

\* /close: the current room, when the player owns it, and the player has it by its id.
\* Room::CloseRoom: the players are told, and only the room forgets them ...
Close(c) ==
    LET r == current[c]
        own == mine[c][rid[r]]
    IN  /\ Handles(c) /\ r # None
        /\ IF Dead(r) \/ (owner[r] = c /\ Dead(own)) THEN Crash
           ELSE /\ owner[r] = c /\ own # None /\ owner[own] = c
                /\ IF SentToDead(members[own]) THEN Crash
                   ELSE /\ members' = [members EXCEPT ![own] = Nobody]
                        /\ busy' = [busy EXCEPT ![Thread[c]] = Job("close", c, own, None)]
                        /\ UNCHANGED <<conn, playerVars, roomsById, state, rid, owner,
                                       scheduled, deleting, todo, crashed, histVars>>

\* ... and is to be deleted.
Schedule(t) ==
    LET b == busy[t]
    IN  /\ ~crashed /\ b.op \in {"close", "closing"}
        /\ IF Dead(b.room) THEN Crash
           ELSE /\ scheduled' = [scheduled EXCEPT ![b.room] = TRUE]
                /\ IF b.op = "close" THEN Done(t) ELSE Goes(t, "erase")
                /\ UNCHANGED <<conn, playerVars, roomsById, state, rid, owner, members,
                               deleting, todo, crashed, histVars>>

\* LeaveRoom has a deleted room, or tells a deleted player: the owner tells all that are
\* in the room, anybody else those that stay.
LeaveCrashes(c, r) ==
    Dead(r) \/ SentToDead(IF owner[r] = c THEN members[r] ELSE [members[r] EXCEPT ![User[c]] = None])

\* Slip: an owner leaves like anybody else.
LeaveAsMember(t, c, r) ==
    /\ members' = [members EXCEPT ![r][User[c]] = None]
    /\ busy' = [busy EXCEPT ![t] = Job("leave", c, r, None)]
    /\ UNCHANGED <<conn, playerVars, roomsById, state, rid, owner, scheduled, crashed>>

\* Player::LeaveRoom: the owner closes the room; anybody else is taken out, by account ...
LeaveRoom(t, c, r) ==
    /\ IF owner[r] = c
       THEN /\ members' = [members EXCEPT ![r] = Nobody]
            /\ busy' = [busy EXCEPT ![t] = Job("closing", c, r, None)]
       ELSE /\ members' = [members EXCEPT ![r][User[c]] = None]
            /\ busy' = [busy EXCEPT ![t] = Job("leave", c, r, None)]
    /\ UNCHANGED <<conn, playerVars, roomsById, state, rid, owner, scheduled, crashed>>

\* ... and the player forgets the room.
ForgetRoom(t) ==
    LET b == busy[t]
    IN  /\ ~crashed /\ b.op \in {"leave", "erase"}
        /\ IF b.op = "leave" /\ Dead(b.room) THEN Crash
           ELSE /\ mine' = [mine EXCEPT ![b.conn][rid[b.room]] = None]
                /\ Done(t)
                /\ UNCHANGED <<conn, player, known, current, roomsById, roomVars, deleting,
                               todo, crashed, histVars>>

\* The rooms into which somebody is bringing player c, and whether c is leaving one by
\* the id of room r, which is how it forgets a room.
Invitations(c) ==
    {r \in PrivateRooms : \E t \in NetThreads :
        busy[t].op \in {"enter", "join"} /\ busy[t].to = c /\ busy[t].room = r}
Leaving(c, r) ==
    \/ deleting = c
    \/ \E t \in NetThreads :
          /\ busy[t].op \in {"leave", "closing", "erase"} /\ busy[t].conn = c
          /\ rid[busy[t].room] = rid[r]

\* /leave: the current room, a private one that the player does not own.
Leave(c) ==
    LET r == current[c]
        own == mine[c][rid[r]]
    IN  /\ Handles(c) /\ r # None
        /\ IF Dead(r) \/ (owner[r] # c /\ Dead(own)) THEN Crash
           ELSE /\ owner[r] # c /\ own # None
                /\ IF LeaveCrashes(c, own) THEN Crash
                   ELSE /\ LeaveRoom(Thread[c], c, own)
                        /\ torn' = torn \cup {<<c, x>> : x \in {y \in Invitations(c) : rid[y] = rid[own]}}
                        /\ UNCHANGED <<deleting, todo, spoiled>>

\* /invite: somebody else by name, to the current room of its owner, who is not in it.
\* InvitePlayer tells the players of the room, and then it is AddRoom of the one invited.
Invite(c) ==
    LET r == current[c]
    IN  /\ Handles(c) /\ r # None
        /\ IF Dead(r) THEN Crash
           ELSE \E d \in Conns :
                  /\ Find(d)
                  /\ owner[r] = c /\ d # c /\ members[r][User[d]] = None
                  /\ busy' = [busy EXCEPT ![Thread[c]] = Job("enter", c, r, d)]
                  /\ torn' = IF Leaving(d, r) THEN torn \cup {<<d, r>>} ELSE torn
                  /\ UNCHANGED <<conn, objVars, deleting, todo, crashed, spoiled>>

\* /users: the players of the current room.
ListUsers(c) ==
    LET r == current[c]
    IN  /\ Handles(c) /\ r # None /\ (Dead(r) \/ SentToDead(members[r]))
        /\ Crash

-----------------------------------------------------------------------------
\* Base::Update, on the main thread.

\* Slip: the player is deleted with its rooms still holding it.
DeletePlayerStays(c) ==
    /\ ~crashed /\ deleting = None
    /\ c \in known /\ conn[c] = "closed"
    /\ deleting' = c
    /\ todo' = {}
    /\ torn' = torn \cup {<<c, r>> : r \in Invitations(c)}
    /\ UNCHANGED <<conn, objVars, busy, crashed, spoiled>>

\* Slip: a player is kept as long as it is in a private room.
DeletePlayerKept(c) ==
    /\ ~crashed /\ deleting = None
    /\ c \in known /\ conn[c] = "closed"
    /\ \A i \in PrivateIds : mine[c][i] = None
    /\ deleting' = c
    /\ todo' = {i \in Ids : mine[c][i] # None}
    /\ torn' = torn \cup {<<c, r>> : r \in Invitations(c)}
    /\ UNCHANGED <<conn, objVars, busy, crashed, spoiled>>

\* A player without a connection is deleted: the ids of its rooms are noted ...
DeletePlayer(c) ==
    /\ ~crashed /\ deleting = None
    /\ c \in known /\ conn[c] = "closed"
    /\ deleting' = c
    /\ todo' = {i \in Ids : mine[c][i] # None}
    /\ torn' = torn \cup {<<c, r>> : r \in Invitations(c)}
    /\ UNCHANGED <<conn, objVars, busy, crashed, spoiled>>

\* ... it leaves one after the other ...
LeaveNext(c) ==
    /\ ~crashed /\ deleting = c /\ busy[Main] = Idle
    /\ \E i \in todo \cap Ids :
          /\ mine[c][i] # None
          /\ IF LeaveCrashes(c, mine[c][i]) THEN Crash
             ELSE /\ LeaveRoom(Main, c, mine[c][i])
                  /\ todo' = todo \ {i}
                  /\ UNCHANGED <<deleting, histVars>>

\* ... is deleted, with the rooms it has by now ...
FreePlayer(c) ==
    /\ ~crashed /\ deleting = c /\ player[c] = "live" /\ busy[Main] = Idle /\ todo = {}
    /\ player' = [player EXCEPT ![c] = "freed"]
    /\ mine' = [mine EXCEPT ![c] = [i \in Ids |-> None]]
    /\ current' = [current EXCEPT ![c] = None]
    /\ UNCHANGED <<conn, known, roomsById, roomVars, busy, deleting, todo, crashed, histVars>>

\* ... and taken out of m_Players.
ErasePlayer(c) ==
    /\ ~crashed /\ deleting = c /\ player[c] = "freed"
    /\ known' = known \ {c}
    /\ deleting' = None
    /\ UNCHANGED <<conn, player, mine, current, roomsById, roomVars, busy, todo, crashed,
                   histVars>>

\* Its creator is not in the room yet.
BeingCreated(r) ==
    \E t \in NetThreads :
        busy[t].op \in {"publish", "enter", "join"} /\ busy[t].room = r /\ busy[t].to = owner[r]

\* Slip: a room is kept as long as somebody is in it.
DeleteRoomEmpty(r) ==
    /\ ~crashed /\ deleting = None
    /\ state[r] = "live" /\ roomsById[rid[r]] = r
    /\ members[r] = Nobody
    /\ todo' = {}
    /\ spoiled' = IF BeingCreated(r) THEN spoiled \cup {r} ELSE spoiled
    /\ deleting' = r
    /\ UNCHANGED <<conn, objVars, busy, crashed, torn>>

\* UpdateRooms: a private room is found to be empty, or closed, in which case the
\* players are noted that it has meanwhile ...
DeleteRoom(r) ==
    /\ ~crashed /\ deleting = None
    /\ state[r] = "live" /\ roomsById[rid[r]] = r
    /\ members[r] = Nobody \/ scheduled[r]
    /\ todo' = {members[r][u] : u \in Users} \ {None}
    /\ spoiled' = IF BeingCreated(r) THEN spoiled \cup {r} ELSE spoiled
    /\ deleting' = r
    /\ UNCHANGED <<conn, objVars, busy, crashed, torn>>

\* ... one after the other forgets the room, which it must have ...
TakeFrom(r) ==
    /\ ~crashed /\ deleting = r
    /\ \E d \in todo \cap Conns :
          IF player[d] = "freed" \/ mine[d][rid[r]] = None THEN Crash
          ELSE /\ mine' = [mine EXCEPT ![d][rid[r]] = None]
               /\ todo' = todo \ {d}
               /\ UNCHANGED <<conn, player, known, current, roomsById, roomVars, busy,
                              deleting, crashed, histVars>>

\* ... it is deleted ...
FreeRoom(r) ==
    /\ ~crashed /\ deleting = r /\ state[r] = "live" /\ todo = {}
    /\ state' = [state EXCEPT ![r] = "freed"]
    /\ members' = [members EXCEPT ![r] = Nobody]
    /\ UNCHANGED <<conn, playerVars, roomsById, rid, owner, scheduled, busy, deleting, todo,
                   crashed, histVars>>

\* ... and taken out of m_Rooms, by its place there, whatever is there by now.
EraseRoom(r) ==
    /\ ~crashed /\ deleting = r /\ state[r] = "freed"
    /\ roomsById' = [roomsById EXCEPT ![rid[r]] = None]
    /\ owner' = [owner EXCEPT ![r] = None]
    /\ deleting' = None
    /\ UNCHANGED <<conn, playerVars, state, rid, scheduled, members, busy, todo, crashed,
                   histVars>>

-----------------------------------------------------------------------------

CallStep(t) == Schedule(t) \/ ForgetRoom(t)

HandlerStep(t) ==
    \/ Enter(t) \/ Join(t) \/ AddPlayer(t) \/ Publish(t)
    \/ SendRoomMessage(t) \/ Told(t) \/ CallStep(t)

MainStep ==
    \/ \E c \in Conns : DeletePlayer(c) \/ LeaveNext(c) \/ FreePlayer(c) \/ ErasePlayer(c)
    \/ \E r \in PrivateRooms : DeleteRoom(r) \/ TakeFrom(r) \/ FreeRoom(r) \/ EraseRoom(r)
    \/ CallStep(Main)

Next ==
    \/ \E c \in Conns :
          \/ Disconnect(c) \/ Login(c) \/ LoginFails(c)
          \/ ChangeRoom(c) \/ SendMessage(c) \/ Tell(c) \/ SearchMeetsDead(c)
          \/ Create(c) \/ Close(c) \/ Leave(c) \/ Invite(c) \/ ListUsers(c)
    \/ \E t \in NetThreads : HandlerStep(t)
    \/ MainStep

Spec == Init /\ [][Next]_vars

\* Update is called every 60 ms, and a handler is not interrupted for ever.
FairSpec == Spec /\ WF_vars(MainStep) /\ \A t \in NetThreads : WF_vars(HandlerStep(t))

-----------------------------------------------------------------------------

\* A player that a room may send to is not deleted, has the account it is listed
\* for, and has the room: ~Player finds every room that holds it, although rooms are
\* kept by id and players by account, and both are used again.  An invitation of a
\* player that is leaving just then is the only way to a member without the room.
MembersAreLive ==
    \A r \in Rooms, u \in Users :
        LET c == members[r][u]
        IN  state[r] = "live" /\ c # None /\ deleting # r /\ r \notin spoiled
                /\ <<c, r>> \notin torn
            => player[c] = "live" /\ User[c] = u /\ mine[c][rid[r]] = r

\* A handler is creating room r, or somebody is closing it.
Underway(r) ==
    BeingCreated(r) \/ \E t \in Threads : busy[t].op \in {"close", "closing"} /\ busy[t].room = r

\* Update deletes no room under its owner's feet, unless it came upon the room before
\* the owner was in it: a private room that is complete and that nobody closed has an
\* owner who is not deleted, who has it and is in it, and the manager has it.
OpenRoomsHaveOwners ==
    \A r \in PrivateRooms :
        state[r] # "unused" /\ ~scheduled[r] /\ r \notin spoiled /\ ~Underway(r) =>
            /\ state[r] = "live" /\ roomsById[rid[r]] = r
            /\ player[owner[r]] = "live"
            /\ mine[owner[r]][rid[r]] = r /\ members[r][User[owner[r]]] = owner[r]

\* Somebody is bringing player c into room r or taking it out.
Moving(c, r) ==
    \E t \in Threads : \/ busy[t].op = "join" /\ busy[t].to = c /\ busy[t].room = r
                       \/ busy[t].op \in {"leave", "erase"} /\ busy[t].conn = c /\ busy[t].room = r

\* A player whose account has no other connection hears every room it has, as long
\* as the room is not closed.  (Of two connections of an account a room sends to the
\* later one, and to neither when one of them has left.)
AloneIsHeard ==
    \A c \in Conns :
        player[c] = "live" /\ (\A d \in Conns \ {c} : User[d] = User[c] => player[d] = "none")
            => \A i \in Ids :
                  LET r == mine[c][i]
                  IN  r # None /\ ~scheduled[r] /\ r \notin spoiled
                          /\ ~Underway(r) /\ ~Moving(c, r)
                      => members[r][User[c]] = c

\* A player whose connection is closed is deleted and out of all rooms in the end,
\* but for those it was invited to while it was leaving.
DisconnectedLeave ==
    \A c \in Conns :
        c \in known /\ conn[c] = "closed"
            ~> crashed \/ /\ c \notin known
                          /\ \A r \in Rooms, u \in Users :
                                members[r][u] = c => <<c, r>> \in torn \/ r \in spoiled

\* A closed room is deleted in the end, and its id is free for another room, unless
\* two creators drew that id.
ClosedRoomsGo ==
    \A r \in PrivateRooms :
        scheduled[r] ~> \/ crashed \/ r \in spoiled
                        \/ state[r] = "freed" /\ \A i \in Ids : roomsById[i] # r

-----------------------------------------------------------------------------
\* What the comments say, and the code does not do.

Quiet == ~crashed /\ deleting = None /\ \A t \in Threads : busy[t] = Idle

\* "Check if player is in room" stands above Player::IsInRoom, which looks at the rooms
\* of the player, and above Room::IsInRoom, which looks at the players of the room.
\* When nothing is under way the two agree about an open room.
IsInRoomAgrees ==
    Quiet => \A c \in Conns, r \in PrivateRooms :
        player[c] = "live" /\ state[r] = "live" /\ ~scheduled[r] =>
            (mine[c][rid[r]] = r <=> members[r][User[c]] = c)

\* "This is to find out if the room is empty, if so, then remove the room": a room that
\* nobody closed is empty when it is deleted.
RemovedIsEmpty ==
    [][\A r \in PrivateRooms :
          state[r] = "live" /\ state'[r] = "freed" /\ ~scheduled[r] => members[r] = Nobody]_vars

=============================================================================
