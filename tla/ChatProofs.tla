----------------------------- MODULE ChatProofs -----------------------------
(***************************************************************************)
(* The rooms of the chat reach living players only, for any number of      *)
(* connections, accounts, network threads, rooms and ids, with ids and     *)
(* accounts used again.                                                    *)
(*                                                                         *)
(* The inductive invariant says first what the objects and the jobs of the *)
(* threads are (Objects), and then, for a player and a room of which no    *)
(* history is told (Sound), how joining, leaving and deleting go together: *)
(* who is brought into a room has it and is not leaving (JoinersStay,      *)
(* JoinersHave), who is leaving is out of it (LeaversAreOut), and ~Player  *)
(* still leaves every room that holds the player (TodoIsComplete).         *)
(***************************************************************************)
EXTENDS Chat, TLAPS

\* Every room in use has its id, and who has a room is live and has it under this id.
RoomsKeepIds ==
    /\ state[Global] = "live" /\ rid[Global] = Global
    /\ \A r \in PrivateRooms : state[r] = "unused" => \A u \in Users : members[r][u] = None
    /\ \A r \in PrivateRooms : state[r] # "unused" => rid[r] \in PrivateIds
    /\ \A c \in Conns, i \in Ids : mine[c][i] # None =>
          player[c] = "live" /\ state[mine[c][i]] # "unused" /\ rid[mine[c][i]] = i
    /\ \A i \in Ids : roomsById[i] # None =>
          state[roomsById[i]] # "unused" /\ rid[roomsById[i]] = i
    /\ \A c \in Conns : current[c] # None => state[current[c]] # "unused"

Joins == {"publish", "enter", "join"}
Leaves == {"leave", "closing", "erase"}

\* A thread that joins or leaves a room does so for somebody, in a room in use.
JobsAreSound ==
    /\ \A t \in Threads : busy[t].op \in Joins \cup Leaves \cup {"close"} =>
          /\ busy[t].room \in Rooms /\ state[busy[t].room] # "unused"
          /\ busy[t].op \in {"publish", "enter"} => busy[t].room \in PrivateRooms
    /\ \A t \in NetThreads : busy[t].op \in Joins \cup Leaves \cup {"login"} =>
          /\ busy[t].conn \in Conns /\ Thread[busy[t].conn] = t /\ conn[busy[t].conn] = "open"
          /\ busy[t].op \in Joins => busy[t].to \in Conns /\ player[busy[t].to] # "none"
          /\ busy[t].op = "publish" => busy[t].to = busy[t].conn
          /\ busy[t].op = "login" => player[busy[t].conn] # "none" /\ busy[t].conn \notin known
          /\ busy[t].op = "join" /\ busy[t].room = Global =>
                busy[t].to = busy[t].conn /\ busy[t].conn \notin known
    /\ busy[Main].op \in Leaves => /\ busy[Main].conn \in Conns /\ deleting = busy[Main].conn
                                   /\ player[deleting] # "freed"
    /\ busy[Main].op \in Leaves \cup {"idle"}

\* Update deletes players that it knows and rooms that the manager has.
DeletingIsKnown ==
    /\ \A c \in known : player[c] # "none"
    /\ deleting \in Conns => deleting \in known /\ conn[deleting] = "closed"
    /\ deleting \in PrivateRooms => state[deleting] # "unused" /\ roomsById[rid[deleting]] # None

\* Two rooms of one id come from two creators that drew it.
TwinsAreSpoiled ==
    \A r, x \in PrivateRooms :
        r # x /\ state[r] = "live" /\ (state[x] = "live" \/ deleting = x) /\ rid[r] = rid[x]
            => r \in spoiled

\* A room lists a player by its account.
ListedByAccount ==
    \A r \in Rooms, u \in Users : members[r][u] # None => User[members[r][u]] = u

Objects ==
    /\ TypeOK /\ RoomsKeepIds /\ JobsAreSound /\ DeletingIsKnown /\ TwinsAreSpoiled
    /\ ListedByAccount

\* Nothing keeps room r, or player c in it, from being complete.
Sound(c, r) == state[r] = "live" /\ deleting # r /\ r \notin spoiled /\ <<c, r>> \notin torn

In(c, r) == members[r][User[c]] = c
Has(c, r) == mine[c][rid[r]] = r

\* Thread t is bringing player c into room r, before and after the player has it.
Entering(t, c, r) == busy[t].op = "enter" /\ busy[t].to = c /\ busy[t].room = r
Joining(t, c, r) == busy[t].op = "join" /\ busy[t].to = c /\ busy[t].room = r

\* Thread t is taking player c out of a room of id i.
Parting(t, c, i) == busy[t].op \in Leaves /\ busy[t].conn = c /\ rid[busy[t].room] = i

LeaversAreOut ==
    \A t \in Threads, c \in Conns, r \in Rooms :
        Parting(t, c, rid[r]) /\ Sound(c, r) => ~In(c, r)

JoinersStay ==
    \A t \in NetThreads, c \in Conns, r \in Rooms :
        (Entering(t, c, r) \/ Joining(t, c, r)) /\ Sound(c, r) =>
            /\ deleting # c
            /\ \A x \in Threads : ~Parting(x, c, rid[r])

JoinersHave ==
    \A t \in NetThreads, c \in Conns, r \in Rooms :
        Joining(t, c, r) /\ Sound(c, r) => player[c] = "live" /\ Has(c, r)

TodoIsComplete ==
    \A c \in Conns, r \in Rooms :
        deleting = c /\ player[c] = "live" /\ Sound(c, r) /\ In(c, r) => rid[r] \in todo

MembersHave ==
    \A c \in Conns, r \in Rooms : In(c, r) /\ Sound(c, r) => player[c] = "live" /\ Has(c, r)

IInv ==
    /\ Objects
    /\ LeaversAreOut /\ JoinersStay /\ JoinersHave /\ TodoIsComplete /\ MembersHave

-----------------------------------------------------------------------------
\* What the steps do to the job of a thread.

JobSet == [op : Ops, conn : Conns \cup {None}, room : Rooms \cup {None}, to : Conns \cup {None}]

LEMMA StartEffect ==
    ASSUME TypeOK, NEW t \in Threads, NEW op \in Ops, NEW c \in Conns \cup {None},
           NEW r \in Rooms \cup {None}, NEW d \in Conns \cup {None},
           busy' = [busy EXCEPT ![t] = Job(op, c, r, d)]
    PROVE  /\ busy' \in [Threads -> JobSet]
           /\ busy'[t].op = op /\ busy'[t].conn = c /\ busy'[t].room = r /\ busy'[t].to = d
           /\ \A x \in Threads : x # t => busy'[x] = busy[x]
  <1>1. Job(op, c, r, d) \in JobSet
    BY DEF Job, JobSet
  <1>2. busy \in [Threads -> JobSet]
    BY DEF TypeOK, JobSet
  <1>3. /\ Job(op, c, r, d).op = op /\ Job(op, c, r, d).conn = c
        /\ Job(op, c, r, d).room = r /\ Job(op, c, r, d).to = d
    BY DEF Job
  <1> QED
    BY <1>1, <1>2, <1>3

LEMMA GoesEffect ==
    ASSUME TypeOK, NEW t \in Threads, NEW op \in Ops, Goes(t, op)
    PROVE  /\ busy' \in [Threads -> JobSet]
           /\ busy'[t].op = op /\ busy'[t].conn = busy[t].conn
           /\ busy'[t].room = busy[t].room /\ busy'[t].to = busy[t].to
           /\ \A x \in Threads : x # t => busy'[x] = busy[x]
  <1>1. busy \in [Threads -> JobSet] /\ busy[t] \in JobSet
    BY DEF TypeOK, JobSet
  <1>2. busy' = [busy EXCEPT ![t] = [busy[t] EXCEPT !.op = op]]
    BY <1>1 DEF Goes
  <1>3. /\ [busy[t] EXCEPT !.op = op] \in JobSet
        /\ [busy[t] EXCEPT !.op = op].op = op
        /\ [busy[t] EXCEPT !.op = op].conn = busy[t].conn
        /\ [busy[t] EXCEPT !.op = op].room = busy[t].room
        /\ [busy[t] EXCEPT !.op = op].to = busy[t].to
    BY <1>1 DEF JobSet
  <1> QED
    BY <1>1, <1>2, <1>3

LEMMA DoneEffect ==
    ASSUME TypeOK, NEW t \in Threads, Done(t)
    PROVE  /\ busy' \in [Threads -> JobSet]
           /\ busy'[t].op = "idle"
           /\ \A x \in Threads : x # t => busy'[x] = busy[x]
  <1>1. busy' = [busy EXCEPT ![t] = Job("idle", None, None, None)]
    BY DEF Done, Idle
  <1> QED
    BY <1>1, StartEffect DEF Ops

-----------------------------------------------------------------------------
\* What keeps each part of the invariant: nobody starts what it speaks of, and what
\* it says of the others stays.

Concerned(c, r) == In(c, r) \/ \E t \in NetThreads : Entering(t, c, r) \/ Joining(t, c, r)
Calms ==
    \A c \in Conns, r \in Rooms :
        Concerned(c, r)' /\ Sound(c, r)' => Sound(c, r) /\ rid'[r] = rid[r]
NobodyComes == \A c \in Conns, r \in Rooms : In(c, r)' => In(c, r)
NobodyEnters ==
    \A t \in NetThreads, c \in Conns, r \in Rooms : Entering(t, c, r)' => Entering(t, c, r)
NobodyJoins ==
    \A t \in NetThreads, c \in Conns, r \in Rooms : Joining(t, c, r)' => Joining(t, c, r)
NobodyParts == \A t \in Threads, c \in Conns, i \in Ids : Parting(t, c, i)' => Parting(t, c, i)
NobodyIsMissing ==
    /\ \A c \in Conns, r \in Rooms : Has(c, r) /\ Sound(c, r) /\ Sound(c, r)' => Has(c, r)'
    /\ \A c \in Conns : player[c] = "live" => player'[c] = "live"
NobodyDeleted == \A c \in Conns : deleting' = c => deleting = c

LEMMA KeepLeaversAreOut ==
    ASSUME Objects, rid' \in [Rooms -> Ids \cup {None}], RoomsKeepIds',
           LeaversAreOut, Calms, NobodyComes, NobodyParts
    PROVE  LeaversAreOut'
  <1> SUFFICES ASSUME NEW t \in Threads, NEW c \in Conns, NEW r \in Rooms,
                      Parting(t, c, rid[r])', Sound(c, r)', In(c, r)'
               PROVE  FALSE
    BY DEF LeaversAreOut
  <1>1. Sound(c, r) /\ rid'[r] = rid[r] /\ In(c, r)
    BY DEF Calms, Concerned, NobodyComes
  <1>2. rid[r] \in Ids
    BY <1>1 DEF Sound, Objects, RoomsKeepIds, Rooms, Ids
  <1>3. Parting(t, c, rid[r])
    BY <1>1, <1>2 DEF NobodyParts, Parting
  <1> QED
    BY <1>1, <1>3 DEF LeaversAreOut

LEMMA KeepJoinersStay ==
    ASSUME Objects, JoinersStay, Calms, NobodyEnters, NobodyJoins, NobodyParts, NobodyDeleted
    PROVE  JoinersStay'
  <1> SUFFICES ASSUME NEW t \in NetThreads, NEW c \in Conns, NEW r \in Rooms,
                      Entering(t, c, r)' \/ Joining(t, c, r)', Sound(c, r)'
               PROVE  deleting' # c /\ \A x \in Threads : ~Parting(x, c, rid[r])'
    BY DEF JoinersStay
  <1>1. Sound(c, r) /\ rid'[r] = rid[r] /\ (Entering(t, c, r) \/ Joining(t, c, r))
    BY DEF Calms, Concerned, NobodyEnters, NobodyJoins
  <1>2. rid[r] \in Ids
    BY <1>1 DEF Sound, Objects, RoomsKeepIds, Rooms, Ids
  <1>3. deleting # c /\ \A x \in Threads : ~Parting(x, c, rid[r])
    BY <1>1 DEF JoinersStay
  <1> QED
    BY <1>1, <1>2, <1>3 DEF NobodyParts, Parting, NobodyDeleted

LEMMA KeepJoinersHave ==
    ASSUME JoinersHave, Calms, NobodyJoins, NobodyIsMissing
    PROVE  JoinersHave'
  BY DEF JoinersHave, Calms, Concerned, NobodyJoins, NobodyIsMissing

LEMMA KeepTodoIsComplete ==
    ASSUME TodoIsComplete, Calms, NobodyComes, NobodyDeleted,
           \A c \in Conns : deleting = c /\ player'[c] = "live" => player[c] = "live",
           deleting' \in Conns => todo \subseteq todo'
    PROVE  TodoIsComplete'
  BY DEF TodoIsComplete, Calms, Concerned, NobodyComes, NobodyDeleted

LEMMA KeepMembersHave ==
    ASSUME MembersHave, Calms, NobodyComes, NobodyIsMissing
    PROVE  MembersHave'
  BY DEF MembersHave, Calms, Concerned, NobodyComes, NobodyIsMissing

LEMMA CalmIInv ==
    ASSUME IInv, Objects', Calms, NobodyComes, NobodyEnters, NobodyJoins, NobodyParts,
           NobodyIsMissing, NobodyDeleted, \A c \in Conns : player'[c] = "live" => player[c] = "live",
           deleting' \in Conns => todo \subseteq todo'
    PROVE  IInv'
  <1>1. rid' \in [Rooms -> Ids \cup {None}] /\ RoomsKeepIds'
    BY DEF Objects, TypeOK
  <1> QED
    BY <1>1, KeepLeaversAreOut, KeepJoinersStay, KeepJoinersHave, KeepTodoIsComplete,
       KeepMembersHave
    DEF IInv

\* The rooms and the players stay as they are, or a room only loses members.
LEMMA SameRooms ==
    ASSUME UNCHANGED <<state, rid, player, mine, deleting, histVars>>,
           \A c \in Conns, r \in Rooms : In(c, r)' => In(c, r)
    PROVE  Calms /\ NobodyComes /\ NobodyIsMissing /\ NobodyDeleted
  BY DEF histVars, Calms, Sound, NobodyComes, NobodyIsMissing, Has, NobodyDeleted

LEMMA SameMembers ==
    ASSUME UNCHANGED members
    PROVE  \A c \in Conns, r \in Rooms : In(c, r)' => In(c, r)
  BY DEF In

\* A thread goes on to something that is neither joining nor leaving.
LEMMA QuietThread ==
    ASSUME NEW t \in Threads, busy'[t].op \notin {"enter", "join"} \cup Leaves,
           \A x \in Threads : x # t => busy'[x] = busy[x], UNCHANGED rid
    PROVE  NobodyEnters /\ NobodyJoins /\ NobodyParts
  BY DEF NobodyEnters, NobodyJoins, NobodyParts, Entering, Joining, Parting, Threads

LEMMA SameJobs ==
    ASSUME UNCHANGED <<busy, rid>>
    PROVE  NobodyEnters /\ NobodyJoins /\ NobodyParts
  BY DEF NobodyEnters, NobodyJoins, NobodyParts, Entering, Joining, Parting

-----------------------------------------------------------------------------
\* The steps that change neither a room nor who has one.

LEMMA CrashIInv ==
    ASSUME IInv, Crash
    PROVE  IInv'
  <1>1. UNCHANGED <<conn, objVars, busy, deleting, todo, histVars>> /\ crashed' = TRUE
    BY DEF Crash
  <1>2. Objects'
    BY <1>1 DEF IInv, Objects, TypeOK, RoomsKeepIds, JobsAreSound, DeletingIsKnown, TwinsAreSpoiled,
       ListedByAccount, objVars, playerVars, roomVars, histVars
  <1>3. UNCHANGED <<state, rid, player, mine, members, busy, deleting, todo, histVars>>
    BY <1>1 DEF objVars, playerVars, roomVars
  <1> QED
    BY <1>2, <1>3, SameMembers, SameRooms, SameJobs, CalmIInv

LEMMA CloseConnIInv ==
    ASSUME IInv, NEW c \in Conns, Disconnect(c) \/ LoginFails(c)
    PROVE  IInv'
  <1>1. /\ conn' = [conn EXCEPT ![c] = "closed"] /\ busy[Thread[c]].op = "idle"
        /\ UNCHANGED <<objVars, busy, deleting, todo, crashed, histVars>>
    BY DEF Disconnect, LoginFails, Free, Idle, Job
  <1>2. UNCHANGED <<state, rid, owner, scheduled, roomsById, known, current, player, mine, members,
                    busy, deleting, todo, crashed, torn, spoiled>>
    BY <1>1 DEF objVars, playerVars, roomVars, histVars
  <1>3. TypeOK' /\ RoomsKeepIds' /\ DeletingIsKnown' /\ TwinsAreSpoiled' /\ ListedByAccount'
    BY <1>1, <1>2
    DEF IInv, Objects, TypeOK, RoomsKeepIds, DeletingIsKnown, TwinsAreSpoiled, ListedByAccount
  <1>4. JobsAreSound'
    <2>1. \A t \in NetThreads : busy[t].op \in Joins \cup Leaves \cup {"login"} => busy[t].conn # c
      BY <1>1 DEF IInv, Objects, JobsAreSound, Joins, Leaves
    <2>2. \A d \in Conns : d # c => conn'[d] = conn[d]
      BY <1>1 DEF IInv, Objects, TypeOK
    <2> QED
      BY <1>2, <2>1, <2>2 DEF IInv, Objects, JobsAreSound
  <1>5. Objects'
    BY <1>3, <1>4 DEF Objects
  <1> QED
    BY <1>1, <1>2, <1>5, SameMembers, SameRooms, SameJobs, CalmIInv

LEMMA ChangeRoomIInv ==
    ASSUME IInv, NEW c \in Conns, ChangeRoom(c)
    PROVE  IInv'
  <1>1. PICK i \in Ids : roomsById[i] # None
                         /\ current' = [current EXCEPT ![c] = IF i = Global THEN None ELSE roomsById[i]]
    BY DEF ChangeRoom
  <1>2. UNCHANGED <<conn, state, rid, owner, scheduled, roomsById, known, player, mine, members,
                    busy, deleting, todo, crashed, torn, spoiled>>
    BY DEF ChangeRoom, roomVars, histVars
  <1>3. i # Global => roomsById[i] \in PrivateRooms
    BY <1>1 DEF IInv, Objects, TypeOK, RoomsKeepIds, Rooms, Ids
  <1>4. /\ TypeOK' /\ RoomsKeepIds' /\ JobsAreSound' /\ DeletingIsKnown' /\ TwinsAreSpoiled'
        /\ ListedByAccount'
    <2>1. current' \in [Conns -> PrivateRooms \cup {None}]
      BY <1>1, <1>3 DEF IInv, Objects, TypeOK
    <2>2. TypeOK'
      BY <1>2, <2>1 DEF IInv, Objects, TypeOK
    <2>3. RoomsKeepIds'
      BY <1>1, <1>2 DEF IInv, Objects, TypeOK, RoomsKeepIds
    <2>4. JobsAreSound' /\ DeletingIsKnown' /\ TwinsAreSpoiled' /\ ListedByAccount'
      BY <1>2 DEF IInv, Objects, JobsAreSound, DeletingIsKnown, TwinsAreSpoiled, ListedByAccount
    <2> QED
      BY <2>2, <2>3, <2>4
  <1>5. Objects'
    BY <1>4 DEF Objects
  <1> QED
    BY <1>2, <1>5, SameMembers, SameRooms, SameJobs, CalmIInv DEF histVars

\* A thread starts, goes on with or ends what is neither joining nor leaving, and
\* nothing else changes but who is known.
LEMMA JobIInv ==
    ASSUME IInv, NEW t \in NetThreads, busy' \in [Threads -> JobSet],
           busy'[t].op \in {"idle", "send", "tell"},
           \A x \in Threads : x # t => busy'[x] = busy[x],
           known' = known \/ (busy[t].op = "login" /\ known' = known \cup {busy[t].conn}),
           UNCHANGED <<conn, player, mine, current, roomsById, roomVars, deleting, todo,
                       crashed, histVars>>
    PROVE  IInv'
  <1> USE DEF roomVars, histVars
  <1>1. t \in Threads /\ Main \in Threads /\ Main # t
    BY ChatAssumption DEF Threads
  <1>2. known' \subseteq Conns /\ known \subseteq known' /\ \A c \in known' : player[c] # "none"
    BY DEF IInv, Objects, TypeOK, JobsAreSound, DeletingIsKnown
  <1>3. TypeOK'
    BY <1>2 DEF IInv, Objects, TypeOK, JobSet
  <1>4. RoomsKeepIds' /\ DeletingIsKnown' /\ TwinsAreSpoiled' /\ ListedByAccount'
    BY <1>2 DEF IInv, Objects, RoomsKeepIds, DeletingIsKnown, TwinsAreSpoiled, ListedByAccount
  <1>5. \A x \in NetThreads : x # t /\ busy[x].op \in Joins \cup Leaves \cup {"login"}
                              /\ busy[x].conn \notin known => busy[x].conn \notin known'
    BY <1>1 DEF IInv, Objects, JobsAreSound
  <1>6. JobsAreSound'
    BY <1>1, <1>5 DEF IInv, Objects, JobsAreSound, Joins, Leaves, Threads
  <1>7. Objects'
    BY <1>3, <1>4, <1>6 DEF Objects
  <1>8. NobodyEnters /\ NobodyJoins /\ NobodyParts
    BY <1>1, QuietThread DEF Leaves
  <1> QED
    BY <1>7, <1>8, SameMembers, SameRooms, CalmIInv

LEMMA TalkIInv ==
    ASSUME IInv, NEW c \in Conns, SendMessage(c) \/ Tell(c)
    PROVE  IInv'
  <1>1. PICK op \in {"send", "tell"}, r \in Rooms \cup {None}, d \in Conns \cup {None} :
           busy' = [busy EXCEPT ![Thread[c]] = Job(op, None, r, d)]
    <2>1. CASE SendMessage(c)
      <3>1. PICK i \in PrivateIds : /\ mine[c][i] # None
                                    /\ busy' = [busy EXCEPT ![Thread[c]] = Job("send", None, mine[c][i], None)]
        BY <2>1 DEF SendMessage
      <3>2. mine[c][i] \in Rooms
        BY <3>1 DEF IInv, Objects, TypeOK, Ids
      <3> QED
        BY <3>1, <3>2
    <2>2. CASE Tell(c)
      BY <2>2 DEF Tell
    <2> QED
      BY <2>1, <2>2
  <1>2. Thread[c] \in NetThreads /\ Thread[c] \in Threads /\ op \in Ops
    BY ChatAssumption DEF Threads, Ops
  <1>3. UNCHANGED <<conn, player, known, mine, current, roomsById, roomVars, deleting, todo,
                    crashed, histVars>>
    BY DEF SendMessage, Tell, objVars, playerVars
  <1>4. /\ busy' \in [Threads -> JobSet] /\ busy'[Thread[c]].op = op
        /\ \A x \in Threads : x # Thread[c] => busy'[x] = busy[x]
    BY <1>1, <1>2, StartEffect DEF IInv, Objects
  <1> QED
    BY <1>2, <1>3, <1>4, JobIInv

LEMMA EndIInv ==
    ASSUME IInv, NEW t \in NetThreads, AddPlayer(t) \/ SendRoomMessage(t) \/ Told(t), ~crashed'
    PROVE  IInv'
  <1>1. /\ Done(t) /\ UNCHANGED <<conn, player, mine, current, roomsById, roomVars, deleting, todo,
                                  crashed, histVars>>
        /\ known' = known \/ (busy[t].op = "login" /\ known' = known \cup {busy[t].conn})
    BY DEF AddPlayer, SendRoomMessage, Told, Crash, objVars, playerVars
  <1>2. t \in Threads
    BY DEF Threads
  <1>3. /\ busy' \in [Threads -> JobSet] /\ busy'[t].op = "idle"
        /\ \A x \in Threads : x # t => busy'[x] = busy[x]
    BY <1>1, <1>2, DoneEffect DEF IInv, Objects
  <1> QED
    BY <1>1, <1>3, JobIInv

-----------------------------------------------------------------------------
\* Joining a room.

\* A living room of no history is the only one that lives or is being deleted by its id.
LEMMA SoundIsAlone ==
    ASSUME Objects, NEW c \in Conns, NEW r \in Rooms, Sound(c, r),
           NEW x \in Rooms, rid[x] = rid[r], state[x] = "live" \/ deleting = x
    PROVE  x = r
  <1>1. x \in PrivateRooms => state[x] # "unused" /\ rid[x] \in PrivateIds
    BY DEF Objects, DeletingIsKnown, RoomsKeepIds
  <1>2. r \in PrivateRooms => rid[r] \in PrivateIds
    BY DEF Objects, RoomsKeepIds, Sound
  <1>3. rid[Global] = Global /\ Global \notin PrivateIds
    BY ChatAssumption DEF Objects, RoomsKeepIds
  <1>4. CASE x \in PrivateRooms /\ r \in PrivateRooms
    BY <1>4 DEF Objects, TwinsAreSpoiled, Sound
  <1> QED
    BY <1>1, <1>2, <1>3, <1>4 DEF Rooms

LEMMA LoginIInv ==
    ASSUME IInv, NEW c \in Conns, Login(c)
    PROVE  IInv'
  <1> PICK t \in NetThreads : t = Thread[c]
    BY ChatAssumption
  <1>1. /\ conn[c] = "open" /\ busy[t].op = "idle" /\ player[c] = "none"
        /\ player' = [player EXCEPT ![c] = "live"]
        /\ mine' = [mine EXCEPT ![c][Global] = Global]
        /\ busy' = [busy EXCEPT ![t] = Job("join", c, Global, c)]
        /\ UNCHANGED <<conn, known, current, roomsById, state, rid, owner, scheduled, members,
                       deleting, todo, crashed, torn, spoiled>>
    BY DEF Login, Free, Idle, Job, roomVars, histVars
  <1>2. t \in NetThreads /\ t \in Threads /\ Main \notin NetThreads /\ Global \in Rooms /\ Global \in Ids
    BY ChatAssumption DEF Threads, Rooms, Ids
  <1>3. /\ busy' \in [Threads -> JobSet] /\ busy'[t].op = "join" /\ busy'[t].conn = c
        /\ busy'[t].room = Global /\ busy'[t].to = c
        /\ \A x \in Threads : x # t => busy'[x] = busy[x]
    <2>1. TypeOK /\ "join" \in Ops /\ c \in Conns \cup {None} /\ Global \in Rooms \cup {None}
      BY <1>2 DEF IInv, Objects, Ops
    <2>2. busy' = [busy EXCEPT ![t] = Job("join", c, Global, c)]
      BY <1>1
    <2> QED
      <3>1. Job("join", c, Global, c) \in JobSet
        BY <2>1 DEF Job, JobSet
      <3>2. busy \in [Threads -> JobSet]
        BY <2>1 DEF TypeOK, JobSet
      <3>3. /\ Job("join", c, Global, c).op = "join" /\ Job("join", c, Global, c).conn = c
            /\ Job("join", c, Global, c).room = Global /\ Job("join", c, Global, c).to = c
        BY DEF Job
      <3> QED
        BY <1>2, <2>2, <3>1, <3>2, <3>3
  <1>4. Objects
    BY DEF IInv
  <1>5. c \notin known /\ deleting # c /\ \A i \in Ids : mine[c][i] = None
    BY <1>1, <1>4 DEF Objects, DeletingIsKnown, RoomsKeepIds
  <1>6. /\ player' \in [Conns -> {"none", "live", "freed"}] /\ player'[c] = "live"
        /\ \A d \in Conns : d # c => player'[d] = player[d] /\ mine'[d] = mine[d]
        /\ mine' \in [Conns -> [Ids -> Rooms \cup {None}]]
        /\ \A i \in Ids : i # Global => mine'[c][i] = None
        /\ mine'[c][Global] = Global
    BY <1>1, <1>2, <1>4, <1>5 DEF Objects, TypeOK
  <1>7. TypeOK'
    BY <1>1, <1>3, <1>4, <1>6 DEF Objects, TypeOK, JobSet
  <1>8. RoomsKeepIds'
    BY <1>1, <1>4, <1>6 DEF Objects, RoomsKeepIds
  <1>9. JobsAreSound'
    BY <1>1, <1>2, <1>3, <1>4, <1>5, <1>6, ChatAssumption
    DEF Objects, JobsAreSound, RoomsKeepIds, Joins, Leaves, Threads
  <1>10. DeletingIsKnown' /\ TwinsAreSpoiled' /\ ListedByAccount'
    BY <1>1, <1>4, <1>6 DEF Objects, DeletingIsKnown, TwinsAreSpoiled, ListedByAccount
  <1>11. Objects'
    BY <1>7, <1>8, <1>9, <1>10 DEF Objects
  <1>12. /\ \A d \in Conns, r \in Rooms : (Sound(d, r)' <=> Sound(d, r)) /\ (In(d, r)' <=> In(d, r))
         /\ \A x \in Threads, d \in Conns, i \in Ids : Parting(x, d, i)' => Parting(x, d, i)
         /\ \A x \in NetThreads, d \in Conns, r \in Rooms :
               /\ Entering(x, d, r)' => Entering(x, d, r)
               /\ Joining(x, d, r)' => Joining(x, d, r) \/ (x = t /\ d = c /\ r = Global)
    BY <1>1, <1>2, <1>3, <1>4 DEF Sound, In, Parting, Entering, Joining, Leaves, Threads
  <1>13. \A x \in Threads, i \in Ids : ~Parting(x, c, i)
    BY <1>1, <1>2, <1>4, <1>5 DEF Objects, JobsAreSound, Parting, Threads, Leaves
  <1>14. LeaversAreOut'
    <2>1. Calms /\ NobodyComes /\ NobodyParts
      BY <1>1, <1>12 DEF Calms, NobodyComes, NobodyParts
    <2> QED
      BY <1>4, <1>7, <1>8, <2>1, KeepLeaversAreOut DEF IInv, TypeOK
  <1>15. JoinersStay'
    <2> SUFFICES ASSUME NEW x \in NetThreads, NEW d \in Conns, NEW r \in Rooms,
                        Entering(x, d, r)' \/ Joining(x, d, r)', Sound(d, r)'
                 PROVE  deleting # d /\ \A y \in Threads : ~Parting(y, d, rid[r])
      BY <1>1, <1>12, <1>3, <1>8, <1>4 DEF JoinersStay, Sound, Objects, RoomsKeepIds, Rooms, Ids
    <2> QED
      BY <1>1, <1>2, <1>4, <1>5, <1>12, <1>13 DEF IInv, JoinersStay, Objects, RoomsKeepIds
  <1>16. JoinersHave'
    <2>1. \A x \in NetThreads, d \in Conns, r \in Rooms : Joining(x, d, r) => player[d] # "none"
      BY <1>4 DEF Objects, JobsAreSound, Joining, Joins
    <2>2. \A d \in Conns, r \in Rooms : d # c => (Has(d, r)' <=> Has(d, r))
      BY <1>1, <1>6 DEF Has
    <2>3. Has(c, Global)'
      BY <1>1, <1>4, <1>6 DEF Has, Objects, RoomsKeepIds
    <2> QED
      BY <1>1, <1>6, <1>12, <2>1, <2>2, <2>3 DEF IInv, JoinersHave
  <1>17. TodoIsComplete'
    BY <1>1, <1>5, <1>6, <1>12 DEF IInv, TodoIsComplete
  <1>18. MembersHave'
    <2>1. \A d \in Conns, r \in Rooms : d # c => (Has(d, r)' <=> Has(d, r))
      BY <1>1, <1>6 DEF Has
    <2> QED
      BY <1>1, <1>6, <1>12, <2>1 DEF IInv, MembersHave
  <1> QED
    BY <1>11, <1>14, <1>15, <1>16, <1>17, <1>18 DEF IInv

LEMMA EnterIInv ==
    ASSUME IInv, NEW t \in NetThreads, Enter(t), ~crashed'
    PROVE  IInv'
  <1> PICK c, r : c = busy[t].to /\ r = busy[t].room
    OBVIOUS
  <1>1. /\ busy[t].op = "enter" /\ player[c] # "freed" /\ ~Dead(r)
        /\ mine' = [mine EXCEPT ![c][rid[r]] = r]
        /\ Goes(t, "join")
        /\ UNCHANGED <<conn, player, known, current, roomsById, state, rid, owner, scheduled,
                       members, deleting, todo, crashed, torn, spoiled>>
    BY DEF Enter, Crash, roomVars, histVars
  <1>2. t \in Threads /\ Main \in Threads /\ Main # t
    BY ChatAssumption DEF Threads
  <1>3. Objects
    BY DEF IInv
  <1>4. /\ c \in Conns /\ r \in PrivateRooms /\ r \in Rooms /\ r # None /\ state[r] = "live"
        /\ rid[r] \in PrivateIds /\ rid[r] \in Ids /\ player[c] = "live"
    BY <1>1, <1>2, <1>3, ChatAssumption
    DEF Objects, JobsAreSound, RoomsKeepIds, TypeOK, Joins, Dead, Rooms, Ids
  <1>5. /\ busy' \in [Threads -> JobSet] /\ busy'[t].op = "join" /\ busy'[t].conn = busy[t].conn
        /\ busy'[t].room = r /\ busy'[t].to = c
        /\ \A x \in Threads : x # t => busy'[x] = busy[x]
    BY <1>1, <1>2, <1>3, GoesEffect DEF Objects, Ops
  <1>6. /\ mine' \in [Conns -> [Ids -> Rooms \cup {None}]]
        /\ \A d \in Conns, i \in Ids :
              mine'[d][i] = IF d = c /\ i = rid[r] THEN r ELSE mine[d][i]
    BY <1>1, <1>3, <1>4 DEF Objects, TypeOK
  <1>7. TypeOK'
    BY <1>1, <1>3, <1>5, <1>6 DEF Objects, TypeOK, JobSet
  <1>8. RoomsKeepIds'
    BY <1>1, <1>3, <1>4, <1>6 DEF Objects, RoomsKeepIds
  <1>9. JobsAreSound'
    BY <1>1, <1>2, <1>3, <1>4, <1>5, ChatAssumption DEF Objects, JobsAreSound, Joins, Leaves, Threads
  <1>10. DeletingIsKnown' /\ TwinsAreSpoiled' /\ ListedByAccount'
    BY <1>1, <1>3 DEF Objects, DeletingIsKnown, TwinsAreSpoiled, ListedByAccount
  <1>11. Objects'
    BY <1>7, <1>8, <1>9, <1>10 DEF Objects
  <1>12. /\ \A d \in Conns, x \in Rooms : (Sound(d, x)' <=> Sound(d, x)) /\ (In(d, x)' <=> In(d, x))
         /\ \A y \in Threads, d \in Conns, i \in Ids : Parting(y, d, i)' => Parting(y, d, i)
         /\ \A y \in NetThreads, d \in Conns, x \in Rooms :
               /\ Entering(y, d, x)' => Entering(y, d, x)
               /\ Joining(y, d, x)' => Joining(y, d, x) \/ (Entering(y, d, x) /\ d = c /\ x = r)
    BY <1>1, <1>2, <1>3, <1>4, <1>5 DEF Sound, In, Parting, Entering, Joining, Leaves, Threads
  <1>13. \A d \in Conns, x \in Rooms : Has(d, x) /\ Sound(d, x) => Has(d, x)'
    <2> SUFFICES ASSUME NEW d \in Conns, NEW x \in Rooms, Has(d, x), Sound(d, x) PROVE Has(d, x)'
      OBVIOUS
    <2>1. rid[x] \in Ids
      BY <1>3 DEF Sound, Objects, RoomsKeepIds, Rooms, Ids
    <2>2. rid[x] = rid[r] => x = r
      BY <1>3, <1>4, SoundIsAlone
    <2> QED
      BY <1>1, <1>6, <2>1, <2>2 DEF Has
  <1>14. LeaversAreOut' /\ TodoIsComplete'
    <2>1. Calms /\ NobodyComes /\ NobodyParts /\ NobodyDeleted
      BY <1>1, <1>12 DEF Calms, NobodyComes, NobodyParts, NobodyDeleted
    <2> QED
      BY <1>1, <1>3, <1>7, <1>8, <2>1, KeepLeaversAreOut, KeepTodoIsComplete DEF IInv, TypeOK
  <1>15. JoinersStay'
    <2> SUFFICES ASSUME NEW x \in NetThreads, NEW d \in Conns, NEW y \in Rooms,
                        Entering(x, d, y)' \/ Joining(x, d, y)', Sound(d, y)'
                 PROVE  deleting' # d /\ \A z \in Threads : ~Parting(z, d, rid[y])'
      BY DEF JoinersStay
    <2>1. rid[y] \in Ids /\ rid'[y] = rid[y]
      BY <1>1, <1>3, <1>12 DEF Sound, Objects, RoomsKeepIds, Rooms, Ids
    <2>2. deleting # d /\ \A z \in Threads : ~Parting(z, d, rid[y])
      BY <1>12 DEF IInv, JoinersStay
    <2> QED
      BY <1>1, <1>12, <2>1, <2>2 DEF Parting
  <1>16. JoinersHave'
    <2>1. Has(c, r)'
      BY <1>1, <1>4, <1>6 DEF Has
    <2> QED
      BY <1>1, <1>4, <1>12, <1>13, <2>1 DEF IInv, JoinersHave
  <1>17. MembersHave'
    BY <1>1, <1>12, <1>13 DEF IInv, MembersHave
  <1> QED
    BY <1>11, <1>14, <1>15, <1>16, <1>17 DEF IInv

LEMMA JoinIInv ==
    ASSUME IInv, NEW t \in NetThreads, Join(t), ~crashed'
    PROVE  IInv'
  <1> PICK c, r : c = busy[t].to /\ r = busy[t].room
    OBVIOUS
  <1>1. /\ busy[t].op = "join"
        /\ members' = [members EXCEPT ![r][User[c]] = c]
        /\ IF r = Global THEN Goes(t, "login") ELSE Done(t)
        /\ player[c] # "freed" /\ ~Dead(r)
        /\ UNCHANGED <<conn, player, known, current, mine, roomsById, state, rid, owner, scheduled,
                       deleting, todo, crashed, torn, spoiled>>
    BY DEF Join, Crash, playerVars, histVars
  <1>2. t \in Threads /\ Main \in Threads /\ Main # t
    BY ChatAssumption DEF Threads
  <1>3. Objects
    BY DEF IInv
  <1>4. /\ c \in Conns /\ r \in Rooms /\ User[c] \in Users /\ state[r] # "unused"
        /\ r = Global => /\ busy[t].conn = c /\ c \notin known
    BY <1>1, <1>2, <1>3, ChatAssumption DEF Objects, JobsAreSound, Joins
  <1>5. /\ busy' \in [Threads -> JobSet] /\ busy'[t].op = IF r = Global THEN "login" ELSE "idle"
        /\ r = Global => busy'[t].conn = busy[t].conn
        /\ \A x \in Threads : x # t => busy'[x] = busy[x]
    BY <1>1, <1>2, <1>3, GoesEffect, DoneEffect DEF Objects, Ops
  <1>6. Joining(t, c, r)
    BY <1>1 DEF Joining
  <1>7. /\ members' \in [Rooms -> [Users -> Conns \cup {None}]]
        /\ \A x \in Rooms, u \in Users :
              members'[x][u] = IF x = r /\ u = User[c] THEN c ELSE members[x][u]
    BY <1>1, <1>3, <1>4 DEF Objects, TypeOK
  <1>8. TypeOK'
    BY <1>1, <1>3, <1>5, <1>7 DEF Objects, TypeOK, JobSet
  <1>9. RoomsKeepIds' /\ ListedByAccount'
    BY <1>1, <1>3, <1>4, <1>7, ChatAssumption DEF Objects, RoomsKeepIds, ListedByAccount, Rooms
  <1>10. DeletingIsKnown' /\ TwinsAreSpoiled'
    BY <1>1, <1>3 DEF Objects, DeletingIsKnown, TwinsAreSpoiled
  <1>11. JobsAreSound'
    <2>1. busy[t].conn \in Conns /\ Thread[busy[t].conn] = t /\ conn[busy[t].conn] = "open"
          /\ player[c] # "none"
      BY <1>1, <1>3 DEF Objects, JobsAreSound, Joins
    <2> QED
      BY <1>1, <1>2, <1>3, <1>4, <1>5, <2>1, ChatAssumption
      DEF Objects, JobsAreSound, Joins, Leaves, Threads
  <1>12. Objects'
    BY <1>8, <1>9, <1>10, <1>11 DEF Objects
  <1>13. /\ Calms /\ NobodyIsMissing /\ NobodyDeleted
    BY <1>1 DEF Calms, Sound, NobodyIsMissing, Has, NobodyDeleted
  <1>14. NobodyEnters /\ NobodyJoins /\ NobodyParts
    BY <1>1, <1>2, <1>5, QuietThread DEF Leaves
  <1>15. \A d \in Conns, x \in Rooms : In(d, x)' => In(d, x) \/ (d = c /\ x = r)
    BY <1>7, ChatAssumption DEF In
  <1>16. \A d \in Conns, x \in Rooms : Sound(d, x)' <=> Sound(d, x)
    BY <1>1 DEF Sound
  <1>17. JoinersStay' /\ JoinersHave'
    BY <1>3, <1>13, <1>14, KeepJoinersStay, KeepJoinersHave DEF IInv
  <1>18. LeaversAreOut'
    <2> SUFFICES ASSUME NEW y \in Threads, NEW d \in Conns, NEW x \in Rooms,
                        Parting(y, d, rid[x])', Sound(d, x)', In(d, x)'
                 PROVE  FALSE
      BY DEF LeaversAreOut
    <2>1. rid[x] \in Ids /\ rid'[x] = rid[x] /\ Sound(d, x)
      BY <1>1, <1>3, <1>16 DEF Sound, Objects, RoomsKeepIds, Rooms, Ids
    <2>2. Parting(y, d, rid[x])
      BY <1>14, <2>1 DEF NobodyParts, Parting
    <2> QED
      BY <1>6, <1>15, <2>1, <2>2 DEF IInv, LeaversAreOut, JoinersStay
  <1>19. TodoIsComplete'
    BY <1>1, <1>6, <1>15, <1>16 DEF IInv, TodoIsComplete, JoinersStay
  <1>20. MembersHave'
    <2>1. \A d \in Conns, x \in Rooms : Has(d, x)' <=> Has(d, x)
      BY <1>1 DEF Has
    <2> QED
      BY <1>1, <1>6, <1>15, <1>16, <2>1 DEF IInv, MembersHave, JoinersHave
  <1> QED
    BY <1>12, <1>17, <1>18, <1>19, <1>20 DEF IInv

-----------------------------------------------------------------------------
\* Private rooms.

LEMMA CreateIInv ==
    ASSUME IInv, NEW c \in Conns, Create(c), ~crashed'
    PROVE  IInv'
  <1> PICK t \in NetThreads : t = Thread[c]
    BY ChatAssumption
  <1>1. PICK r \in PrivateRooms, i \in PrivateIds :
           /\ conn[c] = "open" /\ busy[t].op = "idle" /\ player[c] = "live"
           /\ state[r] = "unused" /\ roomsById[i] = None
           /\ state' = [state EXCEPT ![r] = "live"]
           /\ rid' = [rid EXCEPT ![r] = i]
           /\ owner' = [owner EXCEPT ![r] = c]
           /\ busy' = [busy EXCEPT ![t] = Job("publish", c, r, c)]
           /\ spoiled' = IF Twins(i) = {} THEN spoiled ELSE spoiled \cup Twins(i) \cup {r}
    <2>1. conn[c] = "open" /\ busy[t] = Idle /\ player[c] = "live"
      BY DEF Create, Handles, Free
    <2>2. ~(\E k \in Ids : Dead(mine[c][k]) \/ Dead(roomsById[k]))
      BY DEF Create, Crash
    <2>3. \E r \in PrivateRooms, i \in PrivateIds :
             /\ state[r] = "unused" /\ roomsById[i] = None
             /\ state' = [state EXCEPT ![r] = "live"]
             /\ rid' = [rid EXCEPT ![r] = i]
             /\ owner' = [owner EXCEPT ![r] = c]
             /\ busy' = [busy EXCEPT ![t] = Job("publish", c, r, c)]
             /\ spoiled' = IF Twins(i) = {} THEN spoiled ELSE spoiled \cup Twins(i) \cup {r}
      BY <2>2 DEF Create
    <2>4. busy[t].op = "idle"
      BY <2>1 DEF Idle, Job
    <2> QED
      BY <2>1, <2>3, <2>4
  <1>2. UNCHANGED <<conn, player, known, mine, current, roomsById, scheduled, members, deleting,
                    todo, crashed, torn>>
    BY DEF Create, Crash, playerVars
  <1>3. /\ t \in Threads /\ Main \notin NetThreads /\ r \in Rooms /\ i \in Ids /\ r # Global
        /\ Objects
    BY ChatAssumption DEF Threads, Rooms, Ids, IInv
  <1>4. /\ busy' \in [Threads -> JobSet] /\ busy'[t].op = "publish" /\ busy'[t].conn = c
        /\ busy'[t].room = r /\ busy'[t].to = c
        /\ \A x \in Threads : x # t => busy'[x] = busy[x]
    <2>1. Job("publish", c, r, c) \in JobSet
      BY <1>3 DEF Job, JobSet, Ops
    <2>2. busy \in [Threads -> JobSet]
      BY <1>3 DEF Objects, TypeOK, JobSet
    <2>3. /\ Job("publish", c, r, c).op = "publish" /\ Job("publish", c, r, c).conn = c
          /\ Job("publish", c, r, c).room = r /\ Job("publish", c, r, c).to = c
      BY DEF Job
    <2> QED
      BY <1>1, <1>3, <2>1, <2>2, <2>3
  <1>5. /\ state' \in [Rooms -> {"unused", "live", "freed"}] /\ state'[r] = "live"
        /\ rid' \in [Rooms -> Ids \cup {None}] /\ rid'[r] = i
        /\ \A x \in Rooms : x # r => state'[x] = state[x] /\ rid'[x] = rid[x]
        /\ spoiled \subseteq spoiled' /\ spoiled' \subseteq PrivateRooms
    BY <1>1, <1>3 DEF Objects, TypeOK, Twins
  <1>6. TypeOK'
    BY <1>1, <1>2, <1>3, <1>4, <1>5 DEF Objects, TypeOK, JobSet
  <1>7. RoomsKeepIds'
    <2>1. /\ state'[Global] = "live" /\ rid'[Global] = Global
          /\ \A x \in PrivateRooms : state'[x] = "unused" => \A u \in Users : members'[x][u] = None
          /\ \A x \in PrivateRooms : state'[x] # "unused" => rid'[x] \in PrivateIds
      BY <1>1, <1>2, <1>3, <1>5 DEF Objects, RoomsKeepIds, Rooms
    <2>2. \A d \in Conns, k \in Ids : mine[d][k] # None => mine[d][k] \in Rooms /\ mine[d][k] # r
      BY <1>1, <1>3 DEF Objects, TypeOK, RoomsKeepIds
    <2>3. \A k \in Ids : roomsById[k] # None => roomsById[k] \in Rooms /\ roomsById[k] # r
      BY <1>1, <1>3 DEF Objects, TypeOK, RoomsKeepIds
    <2>4. \A d \in Conns : current[d] # None => current[d] \in Rooms /\ current[d] # r
      BY <1>1, <1>3 DEF Objects, TypeOK, RoomsKeepIds, Rooms
    <2>5. /\ \A d \in Conns, k \in Ids : mine'[d][k] # None =>
                player'[d] = "live" /\ state'[mine'[d][k]] # "unused" /\ rid'[mine'[d][k]] = k
          /\ \A k \in Ids : roomsById'[k] # None =>
                state'[roomsById'[k]] # "unused" /\ rid'[roomsById'[k]] = k
          /\ \A d \in Conns : current'[d] # None => state'[current'[d]] # "unused"
      BY <1>2, <1>3, <1>5, <2>2, <2>3, <2>4 DEF Objects, RoomsKeepIds
    <2> QED
      BY <2>1, <2>5 DEF RoomsKeepIds
  <1>8. JobsAreSound'
    BY <1>1, <1>2, <1>3, <1>4, <1>5, ChatAssumption DEF Objects, JobsAreSound, Joins, Leaves, Threads
  <1>9. DeletingIsKnown'
    BY <1>1, <1>2, <1>3, <1>5 DEF Objects, DeletingIsKnown, Rooms
  <1>10. TwinsAreSpoiled'
    <2> SUFFICES ASSUME NEW x \in PrivateRooms, NEW y \in PrivateRooms, x # y, state'[x] = "live",
                        state'[y] = "live" \/ deleting = y, rid'[x] = rid'[y]
                 PROVE  x \in spoiled'
      BY <1>2 DEF TwinsAreSpoiled
    <2>1. x \in Rooms /\ y \in Rooms
      BY DEF Rooms
    <2>2. deleting # r /\ \A z \in PrivateRooms : deleting = z => rid[z] # i
      BY <1>1, <1>3 DEF Objects, DeletingIsKnown
    <2>3. CASE x = r
      <3>1. y \in Twins(i)
        BY <1>5, <2>1, <2>2, <2>3 DEF Twins
      <3> QED
        BY <1>1, <2>3, <3>1
    <2>4. CASE x # r /\ y = r
      <3>1. x \in Twins(i)
        BY <1>5, <2>1, <2>4 DEF Twins
      <3> QED
        BY <1>1, <3>1
    <2>5. CASE x # r /\ y # r
      BY <1>3, <1>5, <2>1, <2>5 DEF Objects, TwinsAreSpoiled
    <2> QED
      BY <2>3, <2>4, <2>5
  <1>11. ListedByAccount'
    BY <1>2, <1>3 DEF Objects, ListedByAccount
  <1>12. Objects'
    BY <1>6, <1>7, <1>8, <1>9, <1>10, <1>11 DEF Objects
  <1>13. NobodyComes /\ NobodyEnters /\ NobodyJoins
    BY <1>2, <1>3, <1>4 DEF NobodyComes, NobodyEnters, NobodyJoins, In, Entering, Joining, Threads
  <1>14. NobodyParts
    BY <1>1, <1>2, <1>3, <1>4, <1>5 DEF NobodyParts, Parting, Leaves, Objects, JobsAreSound
  <1>15. \A d \in Conns : ~In(d, r)' /\ \A x \in NetThreads : ~Entering(x, d, r)' /\ ~Joining(x, d, r)'
    <2>1. \A d \in Conns : User[d] \in Users /\ d # None
      BY ChatAssumption
    <2> QED
      BY <1>1, <1>2, <1>3, <1>13, <2>1
      DEF Objects, RoomsKeepIds, JobsAreSound, NobodyEnters, NobodyJoins, In, Entering, Joining, Joins,
          Threads
  <1>16. Calms /\ NobodyIsMissing /\ NobodyDeleted
    <2>1. \A d \in Conns, x \in Rooms : x # r /\ Sound(d, x)' => Sound(d, x) /\ rid'[x] = rid[x]
      BY <1>2, <1>5 DEF Sound
    <2>2. \A d \in Conns : ~Sound(d, r)
      BY <1>1 DEF Sound
    <2> QED
      BY <1>2, <1>5, <1>15, <2>1, <2>2 DEF Calms, Concerned, NobodyIsMissing, Has, NobodyDeleted
  <1> QED
    BY <1>2, <1>12, <1>13, <1>14, <1>16, CalmIInv

\* The creator is brought into its room, or an owner brings somebody into one.
LEMMA StartEnteringIInv ==
    ASSUME IInv, Objects', NEW t \in NetThreads, NEW c \in Conns, NEW r \in PrivateRooms,
           Calms, NobodyComes, NobodyJoins, NobodyParts, NobodyIsMissing, NobodyDeleted,
           UNCHANGED <<player, todo, rid, deleting>>,
           \A x \in NetThreads, d \in Conns, y \in Rooms :
               Entering(x, d, y)' => Entering(x, d, y) \/ (d = c /\ y = r),
           \A d \in Conns, y \in Rooms : Sound(d, y)' => Sound(d, y),
           Sound(c, r)' => deleting # c /\ \A x \in Threads : ~Parting(x, c, rid[r])
    PROVE  IInv'
  <1>1. rid' \in [Rooms -> Ids \cup {None}] /\ RoomsKeepIds' /\ Objects
    BY DEF Objects, TypeOK, IInv
  <1>2. LeaversAreOut' /\ JoinersHave' /\ TodoIsComplete' /\ MembersHave'
    BY <1>1, KeepLeaversAreOut, KeepJoinersHave, KeepTodoIsComplete, KeepMembersHave DEF IInv
  <1>3. JoinersStay'
    <2> SUFFICES ASSUME NEW x \in NetThreads, NEW d \in Conns, NEW y \in Rooms,
                        Entering(x, d, y)' \/ Joining(x, d, y)', Sound(d, y)'
                 PROVE  deleting' # d /\ \A z \in Threads : ~Parting(z, d, rid[y])'
      BY DEF JoinersStay
    <2>1. rid[y] \in Ids /\ rid'[y] = rid[y] /\ Sound(d, y)
      BY <1>1 DEF Sound, Objects, RoomsKeepIds, Rooms, Ids
    <2>2. deleting # d /\ \A z \in Threads : ~Parting(z, d, rid[y])
      BY <2>1 DEF IInv, JoinersStay, NobodyJoins
    <2> QED
      BY <2>1, <2>2 DEF Parting, NobodyParts
  <1> QED
    BY <1>2, <1>3 DEF IInv

LEMMA PublishIInv ==
    ASSUME IInv, NEW t \in NetThreads, Publish(t)
    PROVE  IInv'
  <1> PICK c, r : c = busy[t].to /\ r = busy[t].room
    OBVIOUS
  <1>1. /\ busy[t].op = "publish" /\ Goes(t, "enter")
        /\ roomsById' = [roomsById EXCEPT ![rid[r]] = r]
        /\ UNCHANGED <<conn, player, known, mine, current, state, rid, owner, scheduled, members,
                       deleting, todo, crashed, torn, spoiled>>
    BY DEF Publish, playerVars, roomVars, histVars
  <1>2. t \in Threads /\ Main \in Threads /\ Main # t /\ Objects
    BY ChatAssumption DEF Threads, IInv
  <1>3. /\ c \in Conns /\ busy[t].conn = c /\ Thread[c] = t /\ conn[c] = "open" /\ player[c] # "none"
        /\ r \in PrivateRooms /\ r \in Rooms /\ state[r] # "unused" /\ r # None
        /\ rid[r] \in PrivateIds /\ rid[r] \in Ids
    BY <1>1, <1>2, ChatAssumption DEF Objects, JobsAreSound, RoomsKeepIds, Joins, Rooms, Ids
  <1>4. /\ busy' \in [Threads -> JobSet] /\ busy'[t].op = "enter" /\ busy'[t].conn = c
        /\ busy'[t].room = r /\ busy'[t].to = c
        /\ \A x \in Threads : x # t => busy'[x] = busy[x]
    BY <1>1, <1>2, <1>3, GoesEffect DEF Objects, Ops
  <1>5. /\ roomsById' \in [Ids -> Rooms \cup {None}] /\ roomsById'[rid[r]] = r
        /\ \A i \in Ids : i # rid[r] => roomsById'[i] = roomsById[i]
    BY <1>1, <1>2, <1>3 DEF Objects, TypeOK
  <1>6. TypeOK'
    BY <1>1, <1>2, <1>4, <1>5 DEF Objects, TypeOK, JobSet
  <1>7. RoomsKeepIds'
    BY <1>1, <1>2, <1>3, <1>5 DEF Objects, RoomsKeepIds
  <1>8. JobsAreSound'
    BY <1>1, <1>2, <1>3, <1>4 DEF Objects, JobsAreSound, Joins, Leaves, Threads
  <1>9. DeletingIsKnown'
    BY <1>1, <1>2, <1>3, <1>5 DEF Objects, DeletingIsKnown, RoomsKeepIds, Ids
  <1>10. TwinsAreSpoiled' /\ ListedByAccount'
    BY <1>1, <1>2 DEF Objects, TwinsAreSpoiled, ListedByAccount
  <1>11. Objects'
    BY <1>6, <1>7, <1>8, <1>9, <1>10 DEF Objects
  <1>12. /\ Calms /\ NobodyComes /\ NobodyIsMissing /\ NobodyDeleted
         /\ \A d \in Conns, y \in Rooms : Sound(d, y)' => Sound(d, y)
    BY <1>1 DEF Calms, Sound, NobodyComes, In, NobodyIsMissing, Has, NobodyDeleted
  <1>13. NobodyJoins /\ NobodyParts
    BY <1>1, <1>2, <1>4 DEF NobodyJoins, NobodyParts, Joining, Parting, Leaves, Threads
  <1>14. \A x \in NetThreads, d \in Conns, y \in Rooms :
            Entering(x, d, y)' => Entering(x, d, y) \/ (d = c /\ y = r)
    BY <1>2, <1>4 DEF Entering, Threads
  <1>15. deleting # c
    BY <1>2, <1>3 DEF Objects, DeletingIsKnown
  <1>16. \A x \in Threads : ~Parting(x, c, rid[r])
    BY <1>1, <1>2, <1>3, <1>15 DEF Objects, JobsAreSound, Parting, Leaves, Threads
  <1> QED
    BY <1>1, <1>3, <1>11, <1>12, <1>13, <1>14, <1>15, <1>16, StartEnteringIInv

LEMMA InviteIInv ==
    ASSUME IInv, NEW c \in Conns, Invite(c), ~crashed'
    PROVE  IInv'
  <1> PICK t \in NetThreads : t = Thread[c]
    BY ChatAssumption
  <1> PICK r : r = current[c]
    OBVIOUS
  <1>1. PICK d \in Conns :
           /\ conn[c] = "open" /\ busy[t].op = "idle" /\ player[c] = "live" /\ r # None
           /\ player[d] = "live"
           /\ busy' = [busy EXCEPT ![t] = Job("enter", c, r, d)]
           /\ torn' = IF Leaving(d, r) THEN torn \cup {<<d, r>>} ELSE torn
    <2>1. conn[c] = "open" /\ busy[t] = Idle /\ player[c] = "live" /\ r # None
      BY DEF Invite, Handles, Free
    <2>2. ~Dead(r)
      BY DEF Invite, Crash
    <2>3. \E d \in Conns :
             /\ player[d] = "live"
             /\ busy' = [busy EXCEPT ![t] = Job("enter", c, r, d)]
             /\ torn' = IF Leaving(d, r) THEN torn \cup {<<d, r>>} ELSE torn
      BY <2>2 DEF Invite, Find
    <2>4. busy[t].op = "idle"
      BY <2>1 DEF Idle, Job
    <2> QED
      BY <2>1, <2>3, <2>4
  <1>2. UNCHANGED <<conn, player, known, mine, current, roomsById, state, rid, owner, scheduled,
                    members, deleting, todo, crashed, spoiled>>
    BY DEF Invite, Crash, objVars, playerVars, roomVars
  <1>3. /\ t \in Threads /\ Main \notin NetThreads /\ Objects
        /\ r \in PrivateRooms /\ r \in Rooms /\ state[r] # "unused" /\ rid[r] \in Ids
    BY <1>1, ChatAssumption DEF Threads, Rooms, Ids, IInv, Objects, TypeOK, RoomsKeepIds
  <1>4. /\ busy' \in [Threads -> JobSet] /\ busy'[t].op = "enter" /\ busy'[t].conn = c
        /\ busy'[t].room = r /\ busy'[t].to = d
        /\ \A x \in Threads : x # t => busy'[x] = busy[x]
    <2>1. Job("enter", c, r, d) \in JobSet
      BY <1>3 DEF Job, JobSet, Ops
    <2>2. busy \in [Threads -> JobSet]
      BY <1>3 DEF Objects, TypeOK, JobSet
    <2>3. /\ Job("enter", c, r, d).op = "enter" /\ Job("enter", c, r, d).conn = c
          /\ Job("enter", c, r, d).room = r /\ Job("enter", c, r, d).to = d
      BY DEF Job
    <2> QED
      BY <1>1, <1>3, <2>1, <2>2, <2>3
  <1>5. torn \subseteq torn' /\ torn' \subseteq Conns \X PrivateRooms
    BY <1>1, <1>3 DEF Objects, TypeOK
  <1>6. TypeOK'
    BY <1>2, <1>3, <1>4, <1>5 DEF Objects, TypeOK, JobSet
  <1>7. RoomsKeepIds' /\ DeletingIsKnown' /\ TwinsAreSpoiled' /\ ListedByAccount'
    BY <1>2, <1>3 DEF Objects, RoomsKeepIds, DeletingIsKnown, TwinsAreSpoiled, ListedByAccount
  <1>8. JobsAreSound'
    BY <1>1, <1>2, <1>3, <1>4, ChatAssumption DEF Objects, JobsAreSound, Joins, Leaves, Threads
  <1>9. Objects'
    BY <1>6, <1>7, <1>8 DEF Objects
  <1>10. /\ Calms /\ NobodyComes /\ NobodyIsMissing /\ NobodyDeleted
         /\ \A e \in Conns, y \in Rooms : Sound(e, y)' => Sound(e, y)
    BY <1>2, <1>5 DEF Calms, Sound, NobodyComes, In, NobodyIsMissing, Has, NobodyDeleted
  <1>11. NobodyJoins /\ NobodyParts
    BY <1>1, <1>2, <1>3, <1>4 DEF NobodyJoins, NobodyParts, Joining, Parting, Leaves, Threads
  <1>12. \A x \in NetThreads, e \in Conns, y \in Rooms :
            Entering(x, e, y)' => Entering(x, e, y) \/ (e = d /\ y = r)
    BY <1>3, <1>4 DEF Entering, Threads
  <1>13. Sound(d, r)' => deleting # d /\ \A x \in Threads : ~Parting(x, d, rid[r])
    <2> SUFFICES ASSUME Sound(d, r)' PROVE deleting # d /\ \A x \in Threads : ~Parting(x, d, rid[r])
      OBVIOUS
    <2>1. ~Leaving(d, r)
      BY <1>1 DEF Sound
    <2>2. deleting # d /\ \A x \in NetThreads : ~Parting(x, d, rid[r])
      BY <2>1 DEF Leaving, Parting, Leaves
    <2>3. ~Parting(Main, d, rid[r])
      BY <1>3, <2>2 DEF Objects, JobsAreSound, Parting
    <2> QED
      BY <2>2, <2>3 DEF Threads
  <1> QED
    BY <1>2, <1>3, <1>9, <1>10, <1>11, <1>12, <1>13, StartEnteringIInv

-----------------------------------------------------------------------------
\* Leaving and closing a room.

LEMMA CloseIInv ==
    ASSUME IInv, NEW c \in Conns, Close(c), ~crashed'
    PROVE  IInv'
  <1> PICK t \in NetThreads : t = Thread[c]
    BY ChatAssumption
  <1> PICK r, own : r = current[c] /\ own = mine[c][rid[r]]
    OBVIOUS
  <1>1. /\ busy[t] = Idle /\ r # None /\ own # None
        /\ members' = [members EXCEPT ![own] = Nobody]
        /\ busy' = [busy EXCEPT ![t] = Job("close", c, own, None)]
        /\ UNCHANGED <<conn, player, known, mine, current, roomsById, state, rid, owner, scheduled,
                       deleting, todo, crashed, torn, spoiled>>
    <2>1. busy[t] = Idle /\ r # None
      BY DEF Close, Handles, Free
    <2>2. ~(Dead(r) \/ (owner[r] = c /\ Dead(own)))
      BY DEF Close, Crash
    <2>3. own # None /\ ~SentToDead(members[own])
      BY <2>2 DEF Close, Crash
    <2> QED
      BY <2>1, <2>2, <2>3 DEF Close, playerVars, histVars
  <1>2. busy[t].op = "idle"
    BY <1>1 DEF Idle, Job
  <1>3. /\ t \in Threads /\ t # Main /\ Main \in Threads /\ Objects
        /\ own \in Rooms /\ state[own] # "unused"
    <2>1. t \in Threads /\ t # Main /\ Main \in Threads /\ Objects
      BY ChatAssumption DEF Threads, IInv
    <2>2. r \in PrivateRooms /\ state[r] # "unused"
      BY <1>1, <2>1 DEF Objects, TypeOK, RoomsKeepIds
    <2>3. rid[r] \in Ids
      BY <2>1, <2>2 DEF Objects, RoomsKeepIds, Ids
    <2> QED
      BY <1>1, <2>1, <2>3 DEF Objects, TypeOK, RoomsKeepIds
  <1>4. /\ busy' \in [Threads -> JobSet] /\ busy'[t].op = "close" /\ busy'[t].room = own
        /\ \A x \in Threads : x # t => busy'[x] = busy[x]
    <2>1. Job("close", c, own, None) \in JobSet
      BY <1>3 DEF Job, JobSet, Ops
    <2>2. busy \in [Threads -> JobSet]
      BY <1>3 DEF Objects, TypeOK, JobSet
    <2>3. Job("close", c, own, None).op = "close" /\ Job("close", c, own, None).room = own
      BY DEF Job
    <2> QED
      BY <1>1, <1>3, <2>1, <2>2, <2>3
  <1>5. /\ members' \in [Rooms -> [Users -> Conns \cup {None}]]
        /\ \A x \in Rooms, u \in Users : members'[x][u] = IF x = own THEN None ELSE members[x][u]
    BY <1>1, <1>3 DEF Objects, TypeOK, Nobody
  <1>6. TypeOK'
    BY <1>1, <1>3, <1>4, <1>5 DEF Objects, TypeOK, JobSet
  <1>7. RoomsKeepIds' /\ ListedByAccount'
    BY <1>1, <1>3, <1>5, ChatAssumption DEF Objects, RoomsKeepIds, ListedByAccount, Rooms
  <1>8. JobsAreSound'
    <2>1. \A x \in Threads : busy'[x].op \in Joins \cup Leaves \cup {"login"} => busy'[x] = busy[x]
      BY <1>4 DEF Joins, Leaves
    <2>2. busy'[Main] = busy[Main]
      BY <1>3, <1>4
    <2>3. \A x \in Threads : busy'[x].op \in Joins \cup Leaves \cup {"close"} =>
             /\ busy'[x].room \in Rooms /\ state[busy'[x].room] # "unused"
             /\ busy'[x].op \in {"publish", "enter"} => busy'[x].room \in PrivateRooms
      BY <1>3, <1>4 DEF Objects, JobsAreSound
    <2>4. \A x \in NetThreads : busy'[x].op \in Joins \cup Leaves \cup {"login"} =>
             /\ busy'[x].conn \in Conns /\ Thread[busy'[x].conn] = x /\ conn[busy'[x].conn] = "open"
             /\ busy'[x].op \in Joins => busy'[x].to \in Conns /\ player[busy'[x].to] # "none"
             /\ busy'[x].op = "publish" => busy'[x].to = busy'[x].conn
             /\ busy'[x].op = "login" => player[busy'[x].conn] # "none" /\ busy'[x].conn \notin known
             /\ busy'[x].op = "join" /\ busy'[x].room = Global =>
                   busy'[x].to = busy'[x].conn /\ busy'[x].conn \notin known
      <3> SUFFICES ASSUME NEW x \in NetThreads, busy'[x].op \in Joins \cup Leaves \cup {"login"}
                   PROVE  busy'[x] = busy[x]
        BY <1>3 DEF Objects, JobsAreSound
      <3> QED
        BY <2>1 DEF Threads
    <2>5. /\ busy'[Main].op \in Leaves =>
                busy'[Main].conn \in Conns /\ deleting = busy'[Main].conn /\ player[deleting] # "freed"
          /\ busy'[Main].op \in Leaves \cup {"idle"}
      BY <1>3, <2>2 DEF Objects, JobsAreSound
    <2>6. UNCHANGED <<state, conn, player, known, deleting>>
      BY <1>1
    <2> QED
      BY <2>3, <2>4, <2>5, <2>6 DEF JobsAreSound
  <1>9. DeletingIsKnown' /\ TwinsAreSpoiled'
    BY <1>1, <1>3 DEF Objects, DeletingIsKnown, TwinsAreSpoiled
  <1>10. Objects'
    BY <1>6, <1>7, <1>8, <1>9 DEF Objects
  <1>11. \A d \in Conns, x \in Rooms : In(d, x)' => In(d, x)
    BY <1>5, ChatAssumption DEF In
  <1>12. NobodyEnters /\ NobodyJoins /\ NobodyParts
    BY <1>1, <1>3, <1>4, QuietThread DEF Leaves
  <1> QED
    BY <1>1, <1>10, <1>11, <1>12, SameRooms, CalmIInv DEF histVars

LEMMA ScheduleIInv ==
    ASSUME IInv, NEW t \in Threads, Schedule(t), ~crashed'
    PROVE  IInv'
  <1> PICK b : b = busy[t]
    OBVIOUS
  <1>1. /\ b.op \in {"close", "closing"}
        /\ scheduled' = [scheduled EXCEPT ![b.room] = TRUE]
        /\ IF b.op = "close" THEN Done(t) ELSE Goes(t, "erase")
        /\ UNCHANGED <<conn, player, known, mine, current, roomsById, state, rid, owner, members,
                       deleting, todo, crashed, torn, spoiled>>
    BY DEF Schedule, Crash, playerVars, histVars
  <1>2. Objects /\ scheduled' \in [Rooms -> BOOLEAN]
    BY <1>1 DEF IInv, Objects, TypeOK
  <1>3. /\ busy' \in [Threads -> JobSet]
        /\ \/ busy'[t].op = "idle"
           \/ /\ b.op = "closing" /\ busy'[t].op = "erase" /\ busy'[t].conn = b.conn
              /\ busy'[t].room = b.room
        /\ \A x \in Threads : x # t => busy'[x] = busy[x]
    <2>1. TypeOK
      BY <1>2 DEF Objects
    <2>2. CASE b.op = "close"
      BY <1>1, <2>1, <2>2, DoneEffect
    <2>3. CASE b.op = "closing"
      BY <1>1, <2>1, <2>3, GoesEffect DEF Ops
    <2> QED
      BY <1>1, <2>2, <2>3
  <1>4. TypeOK'
    BY <1>1, <1>2, <1>3 DEF Objects, TypeOK, JobSet
  <1>5. RoomsKeepIds' /\ DeletingIsKnown' /\ TwinsAreSpoiled' /\ ListedByAccount'
    BY <1>1, <1>2 DEF Objects, RoomsKeepIds, DeletingIsKnown, TwinsAreSpoiled, ListedByAccount
  <1>6. JobsAreSound'
    BY <1>1, <1>2, <1>3 DEF Objects, JobsAreSound, Joins, Leaves, Threads
  <1>7. Objects'
    BY <1>4, <1>5, <1>6 DEF Objects
  <1>8. NobodyEnters /\ NobodyJoins /\ NobodyParts
    BY <1>1, <1>3 DEF NobodyEnters, NobodyJoins, NobodyParts, Entering, Joining, Parting, Leaves, Threads
  <1> QED
    BY <1>1, <1>7, <1>8, SameMembers, SameRooms, CalmIInv DEF histVars

\* Player c is out of a room that it leaves, and nobody without history is bringing it in.
LEMMA LeaveRoomIInv ==
    ASSUME IInv, NEW t \in Threads, NEW c \in Conns, NEW own \in Rooms, busy[t].op = "idle",
           state[own] = "live", LeaveRoom(t, c, own), UNCHANGED <<deleting, spoiled>>,
           torn \subseteq torn', torn' \subseteq Conns \X PrivateRooms,
           todo' = todo \/ todo' = todo \ {rid[own]},
           IF t = Main THEN deleting = c /\ player[c] = "live"
                       ELSE Thread[c] = t /\ conn[c] = "open" /\ todo' = todo,
           \A x \in NetThreads, y \in Rooms :
              (Entering(x, c, y) \/ Joining(x, c, y)) /\ rid[y] = rid[own] => ~Sound(c, y)'
    PROVE  IInv'
  <1>1. UNCHANGED <<conn, player, known, mine, current, roomsById, state, rid, owner, scheduled,
                    crashed>>
    BY DEF LeaveRoom, playerVars
  <1>2. /\ Main \notin NetThreads /\ Main \in Threads /\ Objects /\ User[c] \in Users
        /\ t # Main => t \in NetThreads
    BY ChatAssumption DEF Threads, IInv
  <1>3. PICK op \in {"closing", "leave"} : busy' = [busy EXCEPT ![t] = Job(op, c, own, None)]
    BY DEF LeaveRoom
  <1>4. /\ busy' \in [Threads -> JobSet] /\ busy'[t].op = op /\ busy'[t].conn = c
        /\ busy'[t].room = own
        /\ \A x \in Threads : x # t => busy'[x] = busy[x]
    <2>1. Job(op, c, own, None) \in JobSet
      BY <1>2 DEF Job, JobSet, Ops
    <2>2. busy \in [Threads -> JobSet]
      BY <1>2 DEF Objects, TypeOK, JobSet
    <2>3. /\ Job(op, c, own, None).op = op /\ Job(op, c, own, None).conn = c
          /\ Job(op, c, own, None).room = own
      BY DEF Job
    <2> QED
      BY <1>3, <2>1, <2>2, <2>3
  <1>5. /\ members' \in [Rooms -> [Users -> Conns \cup {None}]]
        /\ \A x \in Rooms, u \in Users :
              members'[x][u] = members[x][u] \/ members'[x][u] = None
        /\ members'[own][User[c]] = None
    <2>1. CASE owner[own] = c
      <3>1. members' = [members EXCEPT ![own] = Nobody]
        BY <2>1 DEF LeaveRoom
      <3> QED
        BY <3>1, <1>2 DEF Objects, TypeOK, Nobody
    <2>2. CASE owner[own] # c
      <3>1. members' = [members EXCEPT ![own][User[c]] = None]
        BY <2>2 DEF LeaveRoom
      <3> QED
        BY <3>1, <1>2 DEF Objects, TypeOK
    <2> QED
      BY <2>1, <2>2
  <1>6. \A d \in Conns, x \in Rooms : (In(d, x)' => In(d, x)) /\ ~In(c, own)'
    BY <1>5, ChatAssumption DEF In
  <1>7. TypeOK'
    BY <1>1, <1>2, <1>4, <1>5 DEF Objects, TypeOK, JobSet
  <1>8. RoomsKeepIds' /\ ListedByAccount'
    <2>1. RoomsKeepIds'
      BY <1>1, <1>2, <1>5 DEF Objects, RoomsKeepIds, Rooms
    <2>2. ListedByAccount'
      BY <1>2, <1>5 DEF Objects, ListedByAccount
    <2> QED
      BY <2>1, <2>2
  <1>9. JobsAreSound'
    BY <1>1, <1>2, <1>4 DEF Objects, JobsAreSound, Joins, Leaves, Threads
  <1>10. DeletingIsKnown' /\ TwinsAreSpoiled'
    BY <1>1, <1>2 DEF Objects, DeletingIsKnown, TwinsAreSpoiled
  <1>11. Objects'
    BY <1>7, <1>8, <1>9, <1>10 DEF Objects
  <1>12. /\ \A d \in Conns, x \in Rooms : Sound(d, x)' => Sound(d, x)
         /\ Calms /\ NobodyComes /\ NobodyIsMissing /\ NobodyDeleted
    BY <1>1, <1>6 DEF Calms, Sound, NobodyComes, NobodyIsMissing, Has, NobodyDeleted
  <1>13. NobodyEnters /\ NobodyJoins
    BY <1>2, <1>4 DEF NobodyEnters, NobodyJoins, Entering, Joining, Threads
  <1>14. \A x \in Threads, d \in Conns, i \in Ids :
            Parting(x, d, i)' => Parting(x, d, i) \/ (d = c /\ i = rid[own])
    BY <1>1, <1>4 DEF Parting
  <1>15. \A d \in Conns, x \in Rooms : Sound(d, x)' => rid'[x] = rid[x] /\ rid[x] \in Ids
    BY <1>1, <1>2, <1>12 DEF Sound, Objects, RoomsKeepIds, Rooms, Ids
  <1>16. \A x \in Rooms : Sound(c, x)' /\ rid[x] = rid[own] => x = own
    BY <1>2, <1>12, SoundIsAlone
  <1>17. LeaversAreOut'
    <2> SUFFICES ASSUME NEW x \in Threads, NEW d \in Conns, NEW y \in Rooms,
                        Parting(x, d, rid[y])', Sound(d, y)', In(d, y)'
                 PROVE  FALSE
      BY DEF LeaversAreOut
    <2>1. rid[y] \in Ids /\ rid'[y] = rid[y]
      BY <1>15
    <2>2. Parting(x, d, rid[y]) \/ (d = c /\ rid[y] = rid[own])
      BY <1>14, <2>1 DEF Parting
    <2> QED
      BY <1>6, <1>12, <1>16, <2>2 DEF IInv, LeaversAreOut
  <1>18. JoinersStay'
    <2> SUFFICES ASSUME NEW x \in NetThreads, NEW d \in Conns, NEW y \in Rooms,
                        Entering(x, d, y)' \/ Joining(x, d, y)', Sound(d, y)'
                 PROVE  deleting' # d /\ \A z \in Threads : ~Parting(z, d, rid[y])'
      BY DEF JoinersStay
    <2>1. rid[y] \in Ids /\ rid'[y] = rid[y] /\ Sound(d, y) /\ (Entering(x, d, y) \/ Joining(x, d, y))
      BY <1>12, <1>13, <1>15 DEF NobodyEnters, NobodyJoins
    <2>2. deleting # d /\ \A z \in Threads : ~Parting(z, d, rid[y])
      BY <2>1 DEF IInv, JoinersStay
    <2>3. ~(d = c /\ rid[y] = rid[own])
      BY <2>1
    <2> QED
      BY <1>14, <2>1, <2>2, <2>3 DEF Parting
  <1>19. JoinersHave' /\ MembersHave'
    BY <1>12, <1>13, KeepJoinersHave, KeepMembersHave DEF IInv
  <1>20. TodoIsComplete'
    <2> SUFFICES ASSUME NEW d \in Conns, NEW x \in Rooms, deleting = d, player[d] = "live",
                        Sound(d, x)', In(d, x)'
                 PROVE  rid[x] \in todo'
      BY <1>1 DEF TodoIsComplete
    <2>1. rid[x] \in todo
      BY <1>6, <1>12 DEF IInv, TodoIsComplete
    <2>2. CASE todo' = todo
      BY <2>1, <2>2
    <2>3. CASE t = Main /\ todo' = todo \ {rid[own]}
      BY <1>6, <1>16, <2>1, <2>3
    <2> QED
      BY <2>2, <2>3
  <1> QED
    BY <1>11, <1>17, <1>18, <1>19, <1>20 DEF IInv

LEMMA LeaveIInv ==
    ASSUME IInv, NEW c \in Conns, Leave(c), ~crashed'
    PROVE  IInv'
  <1> PICK t \in NetThreads : t = Thread[c]
    BY ChatAssumption
  <1> PICK r, own : r = current[c] /\ own = mine[c][rid[r]]
    OBVIOUS
  <1>1. /\ busy[t] = Idle /\ conn[c] = "open" /\ r # None /\ own # None /\ ~Dead(own)
        /\ LeaveRoom(t, c, own)
        /\ torn' = torn \cup {<<c, x>> : x \in {y \in Invitations(c) : rid[y] = rid[own]}}
        /\ UNCHANGED <<deleting, todo, spoiled>>
    <2>1. busy[t] = Idle /\ conn[c] = "open" /\ r # None
      BY DEF Leave, Handles, Free
    <2>2. ~(Dead(r) \/ (owner[r] # c /\ Dead(own)))
      BY DEF Leave, Crash
    <2>3. own # None /\ owner[r] # c /\ ~LeaveCrashes(c, own)
      BY <2>2 DEF Leave, Crash
    <2> QED
      BY <2>1, <2>2, <2>3 DEF Leave
  <1>2. busy[t].op = "idle"
    BY <1>1 DEF Idle, Job
  <1>3. /\ t \in Threads /\ t # Main /\ r \in PrivateRooms /\ r \in Rooms /\ rid[r] \in PrivateIds
        /\ Objects
    BY <1>1, ChatAssumption DEF Threads, Rooms, Ids, IInv, Objects, TypeOK, RoomsKeepIds
  <1>4. own \in Rooms /\ state[own] = "live" /\ rid[own] = rid[r]
    BY <1>1, <1>3, ChatAssumption DEF Objects, TypeOK, RoomsKeepIds, Rooms, Ids, Dead
  <1>5. torn \subseteq torn' /\ torn' \subseteq Conns \X PrivateRooms
    BY <1>1, <1>3 DEF Objects, TypeOK, Invitations
  <1>6. \A x \in NetThreads, y \in Rooms :
           (Entering(x, c, y) \/ Joining(x, c, y)) /\ rid[y] = rid[own] => ~Sound(c, y)'
    <2> SUFFICES ASSUME NEW x \in NetThreads, NEW y \in Rooms,
                        Entering(x, c, y) \/ Joining(x, c, y), rid[y] = rid[own]
                 PROVE  <<c, y>> \in torn'
      BY DEF Sound
    <2>1. y \in PrivateRooms
      BY <1>3, <1>4, ChatAssumption DEF Objects, RoomsKeepIds, Rooms
    <2>2. y \in Invitations(c)
      BY <2>1 DEF Invitations, Entering, Joining
    <2> QED
      BY <1>1, <2>2
  <1> QED
    BY <1>1, <1>2, <1>3, <1>4, <1>5, <1>6, LeaveRoomIInv

LEMMA LeaveNextIInv ==
    ASSUME IInv, NEW c \in Conns, LeaveNext(c), ~crashed'
    PROVE  IInv'
  <1>1. PICK i \in todo \cap Ids :
           /\ mine[c][i] # None /\ ~Dead(mine[c][i])
           /\ LeaveRoom(Main, c, mine[c][i])
           /\ todo' = todo \ {i}
           /\ UNCHANGED <<deleting, torn, spoiled>>
    <2>1. PICK i \in todo \cap Ids :
             /\ mine[c][i] # None
             /\ IF LeaveCrashes(c, mine[c][i]) THEN Crash
                ELSE /\ LeaveRoom(Main, c, mine[c][i])
                     /\ todo' = todo \ {i}
                     /\ UNCHANGED <<deleting, histVars>>
      BY DEF LeaveNext
    <2>2. ~LeaveCrashes(c, mine[c][i])
      BY <2>1 DEF Crash
    <2> QED
      BY <2>1, <2>2 DEF LeaveCrashes, histVars
  <1> PICK own : own = mine[c][i]
    OBVIOUS
  <1>2. deleting = c /\ busy[Main].op = "idle" /\ Main \in Threads /\ Objects
    BY DEF LeaveNext, Idle, Job, Threads, IInv
  <1>3. own \in Rooms /\ state[own] = "live" /\ rid[own] = i /\ player[c] = "live"
    BY <1>1, <1>2 DEF Objects, TypeOK, RoomsKeepIds, Dead
  <1>4. \A d \in Conns, y \in Rooms : Sound(d, y)' => Sound(d, y)
    BY <1>1 DEF LeaveRoom, Sound
  <1>5. \A x \in NetThreads, y \in Rooms :
           (Entering(x, c, y) \/ Joining(x, c, y)) /\ rid[y] = rid[own] => ~Sound(c, y)'
    BY <1>2, <1>4 DEF IInv, JoinersStay
  <1>6. torn \subseteq torn' /\ torn' \subseteq Conns \X PrivateRooms
    BY <1>1, <1>2 DEF Objects, TypeOK
  <1> QED
    BY <1>1, <1>2, <1>3, <1>5, <1>6, LeaveRoomIInv

LEMMA ForgetRoomIInv ==
    ASSUME IInv, NEW t \in Threads, ForgetRoom(t), ~crashed'
    PROVE  IInv'
  <1> PICK c, r : c = busy[t].conn /\ r = busy[t].room
    OBVIOUS
  <1>1. /\ busy[t].op \in {"leave", "erase"}
        /\ mine' = [mine EXCEPT ![c][rid[r]] = None]
        /\ Done(t)
        /\ UNCHANGED <<conn, player, known, current, roomsById, state, rid, owner, scheduled, members,
                       deleting, todo, crashed, torn, spoiled>>
    BY DEF ForgetRoom, Crash, roomVars, histVars
  <1>2. Objects
    BY DEF IInv
  <1>3. c \in Conns /\ r \in Rooms /\ rid[r] \in Ids
    <2>1. r \in Rooms /\ state[r] # "unused"
      BY <1>1, <1>2 DEF Objects, JobsAreSound, Leaves
    <2>2. c \in Conns
      BY <1>1, <1>2 DEF Objects, JobsAreSound, Leaves, Threads
    <2> QED
      BY <1>2, <2>1, <2>2 DEF Objects, RoomsKeepIds, Rooms, Ids
  <1>4. /\ busy' \in [Threads -> JobSet] /\ busy'[t].op = "idle"
        /\ \A x \in Threads : x # t => busy'[x] = busy[x]
    BY <1>1, <1>2, DoneEffect DEF Objects
  <1>5. /\ mine' \in [Conns -> [Ids -> Rooms \cup {None}]]
        /\ \A d \in Conns, i \in Ids :
              mine'[d][i] = IF d = c /\ i = rid[r] THEN None ELSE mine[d][i]
    BY <1>1, <1>2, <1>3 DEF Objects, TypeOK
  <1>6. TypeOK'
    BY <1>1, <1>2, <1>4, <1>5 DEF Objects, TypeOK, JobSet
  <1>7. RoomsKeepIds'
    BY <1>1, <1>2, <1>5 DEF Objects, RoomsKeepIds
  <1>8. JobsAreSound'
    BY <1>1, <1>2, <1>4 DEF Objects, JobsAreSound, Joins, Leaves, Threads
  <1>9. DeletingIsKnown' /\ TwinsAreSpoiled' /\ ListedByAccount'
    BY <1>1, <1>2 DEF Objects, DeletingIsKnown, TwinsAreSpoiled, ListedByAccount
  <1>10. Objects'
    BY <1>6, <1>7, <1>8, <1>9 DEF Objects
  <1>11. /\ \A d \in Conns, x \in Rooms : (Sound(d, x)' <=> Sound(d, x)) /\ (In(d, x)' <=> In(d, x))
         /\ Calms /\ NobodyComes /\ NobodyDeleted
    BY <1>1 DEF Calms, Sound, In, NobodyComes, NobodyDeleted
  <1>12. NobodyEnters /\ NobodyJoins /\ NobodyParts
    BY <1>1, <1>4, QuietThread DEF Leaves
  <1>13. Parting(t, c, rid[r])
    BY <1>1 DEF Parting, Leaves
  <1>14. \A d \in Conns, x \in Rooms : Has(d, x) /\ Sound(d, x) => Has(d, x)' \/ (d = c /\ rid[x] = rid[r])
    <2>1. \A d \in Conns, x \in Rooms : Sound(d, x) => rid[x] \in Ids
      BY <1>2 DEF Sound, Objects, RoomsKeepIds, Rooms, Ids
    <2> QED
      BY <1>1, <1>5, <2>1 DEF Has
  <1>15. LeaversAreOut' /\ JoinersStay' /\ TodoIsComplete'
    BY <1>1, <1>2, <1>6, <1>7, <1>11, <1>12, KeepLeaversAreOut, KeepJoinersStay, KeepTodoIsComplete
    DEF IInv, TypeOK
  <1>16. JoinersHave'
    <2> SUFFICES ASSUME NEW x \in NetThreads, NEW d \in Conns, NEW y \in Rooms,
                        Joining(x, d, y)', Sound(d, y)'
                 PROVE  player[d] = "live" /\ Has(d, y)'
      BY <1>1 DEF JoinersHave
    <2>1. Joining(x, d, y) /\ Sound(d, y)
      BY <1>11, <1>12 DEF NobodyJoins
    <2>2. ~Parting(t, d, rid[y]) /\ player[d] = "live" /\ Has(d, y)
      BY <2>1 DEF IInv, JoinersStay, JoinersHave
    <2>3. ~(d = c /\ rid[y] = rid[r])
      BY <1>13, <2>2
    <2> QED
      BY <1>14, <2>1, <2>2, <2>3
  <1>17. MembersHave'
    <2> SUFFICES ASSUME NEW d \in Conns, NEW y \in Rooms, In(d, y), Sound(d, y)
                 PROVE  player[d] = "live" /\ Has(d, y)'
      BY <1>1, <1>11 DEF MembersHave
    <2>1. ~Parting(t, d, rid[y]) /\ player[d] = "live" /\ Has(d, y)
      BY DEF IInv, LeaversAreOut, MembersHave
    <2>2. ~(d = c /\ rid[y] = rid[r])
      BY <1>13, <2>1
    <2> QED
      BY <1>14, <2>1, <2>2
  <1> QED
    BY <1>10, <1>15, <1>16, <1>17 DEF IInv

-----------------------------------------------------------------------------
\* Update deletes a player ...

LEMMA DeletePlayerIInv ==
    ASSUME IInv, NEW c \in Conns, DeletePlayer(c)
    PROVE  IInv'
  <1>1. /\ deleting = None /\ c \in known /\ conn[c] = "closed"
        /\ deleting' = c /\ todo' = {i \in Ids : mine[c][i] # None}
        /\ torn' = torn \cup {<<c, r>> : r \in Invitations(c)}
        /\ UNCHANGED <<conn, player, known, mine, current, roomsById, state, rid, owner, scheduled,
                       members, busy, crashed, spoiled>>
    BY DEF DeletePlayer, objVars, playerVars, roomVars
  <1>2. /\ Objects /\ None \notin Rooms /\ None \notin Conns /\ c \notin Rooms
    BY ChatAssumption DEF IInv, Rooms
  <1>3. torn \subseteq torn' /\ torn' \subseteq Conns \X PrivateRooms
    BY <1>1, <1>2 DEF Objects, TypeOK, Invitations
  <1>4. TypeOK'
    BY <1>1, <1>2, <1>3 DEF Objects, TypeOK
  <1>5. RoomsKeepIds' /\ ListedByAccount' /\ TwinsAreSpoiled'
    BY <1>1, <1>2 DEF Objects, RoomsKeepIds, ListedByAccount, TwinsAreSpoiled, Rooms
  <1>6. JobsAreSound' /\ DeletingIsKnown'
    BY <1>1, <1>2 DEF Objects, JobsAreSound, DeletingIsKnown, Rooms
  <1>7. Objects'
    BY <1>4, <1>5, <1>6 DEF Objects
  <1>8. \A d \in Conns, x \in Rooms : Sound(d, x)' => Sound(d, x)
    BY <1>1, <1>2, <1>3 DEF Sound
  <1>9. Calms /\ NobodyComes /\ NobodyIsMissing
    BY <1>1, <1>8 DEF Calms, NobodyComes, In, NobodyIsMissing, Has
  <1>10. NobodyEnters /\ NobodyJoins /\ NobodyParts
    BY <1>1, SameJobs
  <1>11. LeaversAreOut' /\ JoinersHave' /\ MembersHave'
    BY <1>2, <1>4, <1>5, <1>9, <1>10, KeepLeaversAreOut, KeepJoinersHave, KeepMembersHave
    DEF IInv, TypeOK
  <1>12. JoinersStay'
    <2> SUFFICES ASSUME NEW x \in NetThreads, NEW d \in Conns, NEW y \in Rooms,
                        Entering(x, d, y) \/ Joining(x, d, y), Sound(d, y)'
                 PROVE  d # c /\ \A z \in Threads : ~Parting(z, d, rid[y])
      BY <1>1 DEF JoinersStay, Entering, Joining, Parting
    <2>1. ~(d = c /\ y \in PrivateRooms)
      BY <1>1 DEF Sound, Invitations, Entering, Joining
    <2>2. ~(d = c /\ y = Global)
      BY <1>1, <1>2, ChatAssumption DEF Objects, JobsAreSound, Entering, Joining, Joins, Threads
    <2> QED
      BY <1>8, <2>1, <2>2 DEF IInv, JoinersStay, Rooms
  <1>13. TodoIsComplete'
    <2> SUFFICES ASSUME NEW x \in Rooms, Sound(c, x), In(c, x)
                 PROVE  rid[x] \in todo'
      BY <1>1, <1>8 DEF TodoIsComplete, In
    <2>1. mine[c][rid[x]] = x
      BY DEF IInv, MembersHave, Has
    <2>2. rid[x] \in Ids
      BY <1>2 DEF Sound, Objects, RoomsKeepIds, Rooms, Ids
    <2> QED
      BY <1>1, <1>2, <2>1, <2>2
  <1> QED
    BY <1>7, <1>11, <1>12, <1>13 DEF IInv

LEMMA FreePlayerIInv ==
    ASSUME IInv, NEW c \in Conns, FreePlayer(c)
    PROVE  IInv'
  <1>1. /\ deleting = c /\ player[c] = "live" /\ busy[Main].op = "idle" /\ todo = {}
        /\ player' = [player EXCEPT ![c] = "freed"]
        /\ mine' = [mine EXCEPT ![c] = [i \in Ids |-> None]]
        /\ current' = [current EXCEPT ![c] = None]
        /\ UNCHANGED <<conn, known, roomsById, state, rid, owner, scheduled, members, busy, deleting,
                       todo, crashed, torn, spoiled>>
    BY DEF FreePlayer, Idle, Job, roomVars, histVars
  <1>2. Objects
    BY DEF IInv
  <1>3. /\ player' \in [Conns -> {"none", "live", "freed"}] /\ player'[c] = "freed"
        /\ mine' \in [Conns -> [Ids -> Rooms \cup {None}]] /\ \A i \in Ids : mine'[c][i] = None
        /\ current' \in [Conns -> PrivateRooms \cup {None}] /\ current'[c] = None
        /\ \A d \in Conns : d # c =>
              player'[d] = player[d] /\ mine'[d] = mine[d] /\ current'[d] = current[d]
    BY <1>1, <1>2 DEF Objects, TypeOK
  <1>4. TypeOK'
    BY <1>1, <1>2, <1>3 DEF Objects, TypeOK
  <1>5. RoomsKeepIds'
    BY <1>1, <1>2, <1>3 DEF Objects, RoomsKeepIds
  <1>6. ListedByAccount' /\ TwinsAreSpoiled' /\ DeletingIsKnown'
    BY <1>1, <1>2, <1>3 DEF Objects, ListedByAccount, TwinsAreSpoiled, DeletingIsKnown, TypeOK
  <1>7. JobsAreSound'
    <2>1. \A d \in Conns : player[d] # "none" => player'[d] # "none"
      BY <1>3
    <2> QED
      BY <1>1, <1>2, <2>1 DEF Objects, JobsAreSound, Leaves
  <1>8. Objects'
    BY <1>4, <1>5, <1>6, <1>7 DEF Objects
  <1>9. /\ \A d \in Conns, x \in Rooms : (Sound(d, x)' <=> Sound(d, x)) /\ (In(d, x)' <=> In(d, x))
        /\ Calms /\ NobodyComes /\ NobodyDeleted
    BY <1>1 DEF Calms, Sound, In, NobodyComes, NobodyDeleted
  <1>10. NobodyEnters /\ NobodyJoins /\ NobodyParts
    BY <1>1, SameJobs
  <1>11. LeaversAreOut' /\ JoinersStay' /\ TodoIsComplete'
    BY <1>1, <1>2, <1>3, <1>4, <1>5, <1>9, <1>10, KeepLeaversAreOut, KeepJoinersStay,
       KeepTodoIsComplete
    DEF IInv, TypeOK
  <1>12. \A d \in Conns, x \in Rooms : d # c => (Has(d, x)' <=> Has(d, x))
    BY <1>1, <1>3 DEF Has
  <1>13. JoinersHave'
    <2> SUFFICES ASSUME NEW x \in NetThreads, NEW d \in Conns, NEW y \in Rooms,
                        Joining(x, d, y)', Sound(d, y)'
                 PROVE  player'[d] = "live" /\ Has(d, y)'
      BY DEF JoinersHave
    <2>1. Joining(x, d, y) /\ Sound(d, y)
      BY <1>9, <1>10 DEF NobodyJoins
    <2>2. d # c /\ player[d] = "live" /\ Has(d, y)
      BY <1>1, <2>1 DEF IInv, JoinersStay, JoinersHave
    <2> QED
      BY <1>3, <1>12, <2>2
  <1>14. MembersHave'
    <2> SUFFICES ASSUME NEW d \in Conns, NEW y \in Rooms, In(d, y), Sound(d, y)
                 PROVE  player'[d] = "live" /\ Has(d, y)'
      BY <1>9 DEF MembersHave
    <2>1. player[d] = "live" /\ Has(d, y)
      BY DEF IInv, MembersHave
    <2>2. d # c
      BY <1>1 DEF IInv, TodoIsComplete
    <2> QED
      BY <1>3, <1>12, <2>1, <2>2
  <1> QED
    BY <1>8, <1>11, <1>13, <1>14 DEF IInv

LEMMA ErasePlayerIInv ==
    ASSUME IInv, NEW c \in Conns, ErasePlayer(c)
    PROVE  IInv'
  <1>1. /\ deleting = c /\ player[c] = "freed" /\ known' = known \ {c} /\ deleting' = None
        /\ UNCHANGED <<conn, player, mine, current, roomsById, state, rid, owner, scheduled, members,
                       busy, todo, crashed, torn, spoiled>>
    BY DEF ErasePlayer, roomVars, histVars
  <1>2. Objects /\ c \notin Rooms /\ None \notin Conns /\ None \notin PrivateRooms
    BY ChatAssumption DEF IInv, Rooms
  <1>3. TypeOK' /\ RoomsKeepIds' /\ ListedByAccount'
    BY <1>1, <1>2 DEF Objects, TypeOK, RoomsKeepIds, ListedByAccount
  <1>4. DeletingIsKnown' /\ TwinsAreSpoiled'
    BY <1>1, <1>2 DEF Objects, DeletingIsKnown, TwinsAreSpoiled
  <1>5. JobsAreSound'
    BY <1>1, <1>2 DEF Objects, JobsAreSound
  <1>6. Objects'
    BY <1>3, <1>4, <1>5 DEF Objects
  <1>7. /\ Calms /\ NobodyComes /\ NobodyIsMissing /\ NobodyDeleted
    BY <1>1, <1>2 DEF Calms, Sound, NobodyComes, In, NobodyIsMissing, Has, NobodyDeleted
  <1> QED
    BY <1>1, <1>2, <1>6, <1>7, SameJobs, CalmIInv

-----------------------------------------------------------------------------
\* ... or a room.

LEMMA DeleteRoomIInv ==
    ASSUME IInv, NEW r \in PrivateRooms, DeleteRoom(r)
    PROVE  IInv'
  <1>1. /\ deleting = None /\ state[r] = "live" /\ roomsById[rid[r]] = r
        /\ todo' = {members[r][u] : u \in Users} \ {None}
        /\ spoiled \subseteq spoiled' /\ spoiled' \subseteq spoiled \cup {r}
        /\ deleting' = r
        /\ UNCHANGED <<conn, player, known, mine, current, roomsById, state, rid, owner, scheduled,
                       members, busy, crashed, torn>>
    BY DEF DeleteRoom, objVars, playerVars, roomVars
  <1>2. Objects /\ r \in Rooms /\ r \notin Conns /\ r # None /\ None \notin Rooms /\ None \notin Conns
    BY ChatAssumption DEF IInv, Rooms
  <1>3. TypeOK'
    BY <1>1, <1>2 DEF Objects, TypeOK
  <1>4. RoomsKeepIds' /\ ListedByAccount' /\ DeletingIsKnown'
    BY <1>1, <1>2 DEF Objects, RoomsKeepIds, ListedByAccount, DeletingIsKnown
  <1>5. TwinsAreSpoiled'
    BY <1>1, <1>2 DEF Objects, TwinsAreSpoiled
  <1>6. JobsAreSound'
    BY <1>1, <1>2 DEF Objects, JobsAreSound
  <1>7. Objects'
    BY <1>3, <1>4, <1>5, <1>6 DEF Objects
  <1>8. \A d \in Conns, x \in Rooms : Sound(d, x)' => Sound(d, x)
    BY <1>1, <1>2 DEF Sound
  <1>9. /\ Calms /\ NobodyComes /\ NobodyIsMissing /\ NobodyDeleted
    BY <1>1, <1>2, <1>8 DEF Calms, NobodyComes, In, NobodyIsMissing, Has, NobodyDeleted
  <1> QED
    BY <1>1, <1>2, <1>7, <1>9, SameJobs, CalmIInv

LEMMA TakeFromIInv ==
    ASSUME IInv, NEW r \in PrivateRooms, TakeFrom(r), ~crashed'
    PROVE  IInv'
  <1>1. PICK d \in todo \cap Conns :
           mine' = [mine EXCEPT ![d][rid[r]] = None] /\ todo' = todo \ {d}
    BY DEF TakeFrom, Crash
  <1>2. /\ deleting = r
        /\ UNCHANGED <<conn, player, known, current, roomsById, state, rid, owner, scheduled, members,
                       busy, deleting, crashed, torn, spoiled>>
    BY DEF TakeFrom, Crash, roomVars, histVars
  <1>3. /\ Objects /\ r \in Rooms /\ r \notin Conns
    BY ChatAssumption DEF IInv, Rooms
  <1>4. rid[r] \in Ids
    BY <1>2, <1>3 DEF Objects, DeletingIsKnown, RoomsKeepIds, Ids
  <1>5. /\ mine' \in [Conns -> [Ids -> Rooms \cup {None}]]
        /\ \A e \in Conns, i \in Ids :
              mine'[e][i] = IF e = d /\ i = rid[r] THEN None ELSE mine[e][i]
    BY <1>1, <1>3, <1>4 DEF Objects, TypeOK
  <1>6. TypeOK'
    BY <1>1, <1>2, <1>3, <1>5 DEF Objects, TypeOK
  <1>7. RoomsKeepIds'
    BY <1>2, <1>3, <1>5 DEF Objects, RoomsKeepIds
  <1>8. ListedByAccount' /\ DeletingIsKnown' /\ TwinsAreSpoiled' /\ JobsAreSound'
    BY <1>2, <1>3 DEF Objects, ListedByAccount, DeletingIsKnown, TwinsAreSpoiled, JobsAreSound
  <1>9. Objects'
    BY <1>6, <1>7, <1>8 DEF Objects
  <1>10. \A e \in Conns, x \in Rooms : Sound(e, x) => rid[x] \in Ids /\ rid[x] # rid[r]
    <2> SUFFICES ASSUME NEW e \in Conns, NEW x \in Rooms, Sound(e, x)
                 PROVE  rid[x] \in Ids /\ rid[x] # rid[r]
      OBVIOUS
    <2>1. rid[x] \in Ids
      BY <1>3 DEF Sound, Objects, RoomsKeepIds, Rooms, Ids
    <2>2. rid[x] = rid[r] => x = r
      BY <1>2, <1>3, SoundIsAlone
    <2> QED
      BY <1>2, <2>1, <2>2 DEF Sound
  <1>11. Calms /\ NobodyComes /\ NobodyDeleted
    BY <1>2 DEF Calms, Sound, NobodyComes, In, NobodyDeleted
  <1>12. NobodyIsMissing
    BY <1>2, <1>5, <1>10 DEF NobodyIsMissing, Has
  <1> QED
    BY <1>2, <1>3, <1>9, <1>11, <1>12, SameJobs, CalmIInv

LEMMA FreeRoomIInv ==
    ASSUME IInv, NEW r \in PrivateRooms, FreeRoom(r)
    PROVE  IInv'
  <1>1. /\ deleting = r /\ state[r] = "live"
        /\ state' = [state EXCEPT ![r] = "freed"]
        /\ members' = [members EXCEPT ![r] = Nobody]
        /\ UNCHANGED <<conn, player, known, mine, current, roomsById, rid, owner, scheduled, busy,
                       deleting, todo, crashed, torn, spoiled>>
    BY DEF FreeRoom, playerVars, histVars
  <1>2. Objects /\ r \in Rooms /\ r # Global /\ r \notin Conns
    BY ChatAssumption DEF IInv, Rooms
  <1>3. /\ state' \in [Rooms -> {"unused", "live", "freed"}] /\ state'[r] = "freed"
        /\ \A x \in Rooms : x # r => state'[x] = state[x]
        /\ members' \in [Rooms -> [Users -> Conns \cup {None}]]
        /\ \A x \in Rooms, u \in Users : members'[x][u] = IF x = r THEN None ELSE members[x][u]
    BY <1>1, <1>2 DEF Objects, TypeOK, Nobody
  <1>4. TypeOK'
    BY <1>1, <1>2, <1>3 DEF Objects, TypeOK
  <1>5. \A x \in Rooms : (state'[x] = "unused" <=> state[x] = "unused")
                         /\ (state'[x] = "live" => state[x] = "live")
    BY <1>1, <1>3
  <1>6. RoomsKeepIds'
    <2>1. /\ state'[Global] = "live" /\ rid'[Global] = Global
          /\ \A x \in PrivateRooms : state'[x] = "unused" => \A u \in Users : members'[x][u] = None
          /\ \A x \in PrivateRooms : state'[x] # "unused" => rid'[x] \in PrivateIds
      BY <1>1, <1>2, <1>3, <1>5 DEF Objects, RoomsKeepIds, Rooms
    <2>2. \A d \in Conns, k \in Ids : mine[d][k] # None => mine[d][k] \in Rooms
      BY <1>2 DEF Objects, TypeOK
    <2>3. \A k \in Ids : roomsById[k] # None => roomsById[k] \in Rooms
      BY <1>2 DEF Objects, TypeOK
    <2>4. \A d \in Conns : current[d] # None => current[d] \in Rooms
      BY <1>2 DEF Objects, TypeOK, Rooms
    <2>5. /\ \A d \in Conns, k \in Ids : mine'[d][k] # None =>
                player'[d] = "live" /\ state'[mine'[d][k]] # "unused" /\ rid'[mine'[d][k]] = k
          /\ \A k \in Ids : roomsById'[k] # None =>
                state'[roomsById'[k]] # "unused" /\ rid'[roomsById'[k]] = k
          /\ \A d \in Conns : current'[d] # None => state'[current'[d]] # "unused"
      BY <1>1, <1>2, <1>5, <2>2, <2>3, <2>4 DEF Objects, RoomsKeepIds
    <2> QED
      BY <2>1, <2>5 DEF RoomsKeepIds
  <1>7. ListedByAccount'
    BY <1>2, <1>3 DEF Objects, ListedByAccount
  <1>8. DeletingIsKnown' /\ TwinsAreSpoiled'
    BY <1>1, <1>2, <1>5 DEF Objects, DeletingIsKnown, TwinsAreSpoiled, Rooms
  <1>9. JobsAreSound'
    BY <1>1, <1>2, <1>5 DEF Objects, JobsAreSound
  <1>10. Objects'
    BY <1>4, <1>6, <1>7, <1>8, <1>9 DEF Objects
  <1>11. \A d \in Conns, x \in Rooms : In(d, x)' => In(d, x)
    BY <1>3, ChatAssumption DEF In
  <1>12. Calms /\ NobodyComes /\ NobodyIsMissing /\ NobodyDeleted
    BY <1>1, <1>5, <1>11 DEF Calms, Sound, NobodyComes, NobodyIsMissing, Has, NobodyDeleted
  <1> QED
    BY <1>1, <1>2, <1>10, <1>12, SameJobs, CalmIInv

LEMMA EraseRoomIInv ==
    ASSUME IInv, NEW r \in PrivateRooms, EraseRoom(r)
    PROVE  IInv'
  <1>1. /\ deleting = r /\ state[r] = "freed"
        /\ roomsById' = [roomsById EXCEPT ![rid[r]] = None]
        /\ owner' = [owner EXCEPT ![r] = None]
        /\ deleting' = None
        /\ UNCHANGED <<conn, player, known, mine, current, state, rid, scheduled, members, busy, todo,
                       crashed, torn, spoiled>>
    BY DEF EraseRoom, playerVars, histVars
  <1>2. Objects /\ r \in Rooms /\ r \notin Conns /\ None \notin Rooms /\ None \notin Conns
    BY ChatAssumption DEF IInv, Rooms
  <1>3. /\ roomsById' \in [Ids -> Rooms \cup {None}]
        /\ \A i \in Ids : roomsById'[i] # None => roomsById'[i] = roomsById[i]
    BY <1>1, <1>2 DEF Objects, TypeOK
  <1>4. TypeOK'
    BY <1>1, <1>2, <1>3 DEF Objects, TypeOK
  <1>5. RoomsKeepIds' /\ ListedByAccount'
    BY <1>1, <1>2, <1>3 DEF Objects, RoomsKeepIds, ListedByAccount
  <1>6. DeletingIsKnown' /\ TwinsAreSpoiled'
    BY <1>1, <1>2 DEF Objects, DeletingIsKnown, TwinsAreSpoiled, Rooms
  <1>7. JobsAreSound'
    BY <1>1, <1>2 DEF Objects, JobsAreSound
  <1>8. Objects'
    BY <1>4, <1>5, <1>6, <1>7 DEF Objects
  <1>9. Calms /\ NobodyComes /\ NobodyIsMissing /\ NobodyDeleted
    BY <1>1, <1>2 DEF Calms, Sound, NobodyComes, In, NobodyIsMissing, Has, NobodyDeleted
  <1> QED
    BY <1>1, <1>2, <1>8, <1>9, SameJobs, CalmIInv

-----------------------------------------------------------------------------
\* Where a step may use a deleted object, it is either that or the step proper.

LEMMA NetCrashes ==
    ASSUME NEW t \in Threads, crashed',
           Enter(t) \/ Join(t) \/ SendRoomMessage(t) \/ Told(t) \/ CallStep(t)
    PROVE  Crash
  <1>1. CASE Enter(t)
    BY <1>1 DEF Enter
  <1>2. CASE Join(t)
    BY <1>2 DEF Join
  <1>3. CASE SendRoomMessage(t)
    BY <1>3 DEF SendRoomMessage
  <1>4. CASE Told(t)
    BY <1>4 DEF Told
  <1>5. CASE CallStep(t)
    BY <1>5 DEF CallStep, Schedule, ForgetRoom
  <1> QED
    BY <1>1, <1>2, <1>3, <1>4, <1>5

LEMMA CommandCrashes ==
    ASSUME NEW c \in Conns, crashed', Create(c) \/ Close(c) \/ Leave(c) \/ Invite(c)
    PROVE  Crash
  <1>1. CASE Create(c)
    BY <1>1 DEF Create, Handles, Free
  <1>2. CASE Close(c)
    BY <1>2 DEF Close, Handles, Free
  <1>3. CASE Leave(c)
    <2>1. ~crashed
      BY <1>3 DEF Leave, Handles, Free
    <2>2. Crash \/ LeaveRoom(Thread[c], c, mine[c][rid[current[c]]])
      BY <1>3 DEF Leave
    <2> QED
      BY <2>1, <2>2 DEF LeaveRoom
  <1>4. CASE Invite(c)
    BY <1>4 DEF Invite, Handles, Free
  <1> QED
    BY <1>1, <1>2, <1>3, <1>4

LEMMA UpdateCrashes ==
    ASSUME crashed'
    PROVE  /\ \A c \in Conns : LeaveNext(c) => Crash
           /\ \A r \in PrivateRooms : TakeFrom(r) => Crash
  BY DEF LeaveNext, LeaveRoom, TakeFrom

-----------------------------------------------------------------------------
\* The invariant is inductive.

LEMMA InitIInv ==
    Init => IInv
  <1> SUFFICES ASSUME Init PROVE IInv
    OBVIOUS
  <1>1. /\ state[Global] = "live" /\ rid[Global] = Global
        /\ \A r \in PrivateRooms : r # Global /\ state[r] = "unused" /\ rid[r] = None
        /\ \A r \in Rooms, u \in Users : members[r][u] = None
        /\ \A c \in Conns, i \in Ids : mine[c][i] = None
        /\ \A i \in Ids : roomsById[i] # None => i = Global /\ roomsById[i] = Global
        /\ \A c \in Conns : current[c] = None /\ player[c] = "none"
        /\ known = {} /\ deleting = None
    BY ChatAssumption DEF Init, Rooms, Nobody, Ids
  <1>2. \A t \in Threads : busy[t] = Job("idle", None, None, None) /\ busy[t].op = "idle"
    BY DEF Init, Idle, Job
  <1>3. None \notin Conns /\ None \notin PrivateRooms
    BY ChatAssumption
  <1>4. TypeOK
    <2>1. busy \in [Threads -> JobSet]
      BY DEF Init, Idle, Job, JobSet, Ops
    <2> QED
      BY <2>1 DEF Init, TypeOK, JobSet, Rooms, Ids, Nobody
  <1>5. RoomsKeepIds
    BY <1>1 DEF RoomsKeepIds, Rooms, Ids
  <1>6. JobsAreSound
    BY <1>2 DEF JobsAreSound, Joins, Leaves, Threads
  <1>7. DeletingIsKnown /\ TwinsAreSpoiled /\ ListedByAccount
    BY <1>1, <1>3 DEF DeletingIsKnown, TwinsAreSpoiled, ListedByAccount
  <1>8. LeaversAreOut /\ JoinersStay /\ JoinersHave
    BY <1>2 DEF LeaversAreOut, JoinersStay, JoinersHave, Parting, Entering, Joining, Leaves, Threads
  <1>9. TodoIsComplete /\ MembersHave
    BY <1>1, <1>3, ChatAssumption DEF TodoIsComplete, MembersHave, In
  <1> QED
    BY <1>4, <1>5, <1>6, <1>7, <1>8, <1>9 DEF IInv, Objects

LEMMA CommandIInv ==
    ASSUME IInv, NEW c \in Conns,
           \/ Disconnect(c) \/ Login(c) \/ LoginFails(c)
           \/ ChangeRoom(c) \/ SendMessage(c) \/ Tell(c) \/ SearchMeetsDead(c)
           \/ Create(c) \/ Close(c) \/ Leave(c) \/ Invite(c) \/ ListUsers(c)
    PROVE  IInv'
  <1>1. CASE Disconnect(c) \/ LoginFails(c)
    BY <1>1, CloseConnIInv
  <1>2. CASE Login(c)
    BY <1>2, LoginIInv
  <1>3. CASE ChangeRoom(c)
    BY <1>3, ChangeRoomIInv
  <1>4. CASE SendMessage(c) \/ Tell(c)
    BY <1>4, TalkIInv
  <1>5. CASE SearchMeetsDead(c) \/ ListUsers(c)
    BY <1>5, CrashIInv DEF SearchMeetsDead, ListUsers
  <1>6. CASE (Create(c) \/ Close(c) \/ Leave(c) \/ Invite(c)) /\ crashed'
    BY <1>6, CommandCrashes, CrashIInv
  <1>7. CASE (Create(c) \/ Close(c) \/ Leave(c) \/ Invite(c)) /\ ~crashed'
    BY <1>7, CreateIInv, CloseIInv, LeaveIInv, InviteIInv
  <1> QED
    BY <1>1, <1>2, <1>3, <1>4, <1>5, <1>6, <1>7

LEMMA CallIInv ==
    ASSUME IInv, NEW t \in Threads, CallStep(t)
    PROVE  IInv'
  <1>1. CASE crashed'
    BY <1>1, NetCrashes, CrashIInv
  <1>2. CASE ~crashed'
    BY <1>2, ScheduleIInv, ForgetRoomIInv DEF CallStep
  <1> QED
    BY <1>1, <1>2

LEMMA HandlerIInv ==
    ASSUME IInv, NEW t \in NetThreads, HandlerStep(t)
    PROVE  IInv'
  <1>1. t \in Threads
    BY DEF Threads
  <1>2. CASE CallStep(t)
    BY <1>1, <1>2, CallIInv
  <1>3. CASE Publish(t)
    BY <1>3, PublishIInv
  <1>4. CASE AddPlayer(t)
    BY <1>4, EndIInv DEF AddPlayer
  <1>5. CASE (Enter(t) \/ Join(t) \/ SendRoomMessage(t) \/ Told(t)) /\ crashed'
    BY <1>1, <1>5, NetCrashes, CrashIInv
  <1>6. CASE (Enter(t) \/ Join(t) \/ SendRoomMessage(t) \/ Told(t)) /\ ~crashed'
    BY <1>6, EnterIInv, JoinIInv, EndIInv
  <1> QED
    BY <1>2, <1>3, <1>4, <1>5, <1>6 DEF HandlerStep

LEMMA UpdateIInv ==
    ASSUME IInv, MainStep
    PROVE  IInv'
  <1>1. CASE \E c \in Conns : DeletePlayer(c) \/ FreePlayer(c) \/ ErasePlayer(c)
    BY <1>1, DeletePlayerIInv, FreePlayerIInv, ErasePlayerIInv
  <1>2. CASE \E r \in PrivateRooms : DeleteRoom(r) \/ FreeRoom(r) \/ EraseRoom(r)
    BY <1>2, DeleteRoomIInv, FreeRoomIInv, EraseRoomIInv
  <1>3. ASSUME NEW c \in Conns, LeaveNext(c)
        PROVE  IInv'
    BY <1>3, UpdateCrashes, CrashIInv, LeaveNextIInv
  <1>4. ASSUME NEW r \in PrivateRooms, TakeFrom(r)
        PROVE  IInv'
    BY <1>4, UpdateCrashes, CrashIInv, TakeFromIInv
  <1>5. CASE CallStep(Main)
    BY <1>5, CallIInv DEF Threads
  <1> QED
    BY <1>1, <1>2, <1>3, <1>4, <1>5 DEF MainStep

LEMMA StutterIInv ==
    IInv /\ UNCHANGED vars => IInv'
  <1> SUFFICES ASSUME IInv, UNCHANGED vars PROVE IInv'
    OBVIOUS
  <1>1. UNCHANGED <<conn, player, known, mine, current, roomsById, state, rid, owner, scheduled, members,
                    busy, deleting, todo, crashed, torn, spoiled>>
    BY DEF vars, objVars, playerVars, roomVars, histVars
  <1>2. Objects'
    BY <1>1 DEF IInv, Objects, TypeOK, RoomsKeepIds, JobsAreSound, DeletingIsKnown, TwinsAreSpoiled,
       ListedByAccount
  <1> QED
    BY <1>1, <1>2, SameMembers, SameRooms, SameJobs, CalmIInv DEF histVars

LEMMA Inductive ==
    IInv /\ [Next]_vars => IInv'
  <1> SUFFICES ASSUME IInv, [Next]_vars PROVE IInv'
    OBVIOUS
  <1>1. CASE UNCHANGED vars
    BY <1>1, StutterIInv
  <1>2. CASE Next
    BY <1>2, CommandIInv, HandlerIInv, UpdateIInv DEF Next
  <1> QED
    BY <1>1, <1>2

LEMMA Invariance == Spec => []IInv
  BY InitIInv, Inductive, PTL DEF Spec

\* Every variable of the chat keeps its type, whatever the threads do.
THEOREM TypeCorrect == Spec => []TypeOK
  <1>1. IInv => TypeOK
    BY DEF IInv, Objects
  <1> QED
    BY <1>1, Invariance, PTL

\* Until a deleted object is used, every player in a room that is not being deleted is
\* live, is listed under its account, and has the room under the id of the room, for any
\* number of connections, accounts, threads and rooms, and with ids drawn again: excepted
\* are the two cases in which the code loses it, a player that was brought into a room
\* while it was leaving one of that id or being deleted (torn), and a room whose id two
\* creators drew, or that Update came upon before its owner (spoiled).
THEOREM RoomsReachTheLiving == Spec => []MembersAreLive
  <1>1. IInv => MembersAreLive
    <2> SUFFICES ASSUME IInv, NEW r \in Rooms, NEW u \in Users, members[r][u] # None,
                        state[r] = "live", deleting # r, r \notin spoiled,
                        <<members[r][u], r>> \notin torn
                 PROVE  /\ player[members[r][u]] = "live" /\ User[members[r][u]] = u
                        /\ mine[members[r][u]][rid[r]] = r
      BY DEF MembersAreLive
    <2>1. members[r][u] \in Conns /\ User[members[r][u]] = u
      BY DEF IInv, Objects, TypeOK, ListedByAccount
    <2> QED
      BY <2>1 DEF IInv, MembersHave, In, Has, Sound
  <1> QED
    BY <1>1, Invariance, PTL
=============================================================================
