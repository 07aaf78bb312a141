---------------------------- MODULE RoomManager ----------------------------
(***************************************************************************)
(* Group rooms: the commands 'RC', 'RJ', 'RS', 'RL' read by the reactors,  *)
(* RoomManager's thread that handles them, the AI it waits for, and the    *)
(* way a broadcast takes back to the members through the registry and the  *)
(* reactors' queues.                                                       *)
(*                                                                         *)
(* Members are descriptor numbers, kept for good: LEAVE does nothing.      *)
(* Connections are as in Reactor, seen from here: the steps in which one   *)
(* is added or torn down are one step, because the registry and the map    *)
(* agree about every connection that is served (Reactor's RoutingSafe and  *)
(* MapIsCurrent).                                                          *)
(*                                                                         *)
(* A broadcast is not its text but its position in the log of its room;    *)
(* a text is the set of role names that occur in it.                       *)
(***************************************************************************)
EXTENDS Integers, Sequences, FiniteSets, Functions

CONSTANTS
    NReactors,    \* number of SubReactors
    Fds,          \* descriptor numbers
    NoFd,         \* not a descriptor
    Names,        \* names of roles
    Payloads,     \* what CREATE may carry: see Payload
    Texts,        \* what CHAT may carry: sets of role names
    SpeakGap,     \* Room::canSpeak (5 seconds in the code)
    AiGap,        \* Room::aiCooldownExpired (60 seconds in the code)
    HistoryCap,   \* Room::addHistory (50 in the code)
    MaxConns,     \* bound: connections
    MaxRooms,     \* bound: CREATE commands
    MaxCommands,  \* bound: commands of all clients together
    MaxQueued,    \* bound: tasks waiting for the room thread
    MaxLeaves,    \* bound: connections that leave
    MaxTime       \* bound: seconds

(* The JSON of CREATE: whether it parses, playerCount, roles, and the keys  *)
(* of aiRoles.  playerCount is any int, and 2 where it is missing.          *)
Payload == [ok : BOOLEAN, max : Int, roles : Seq(Names), ai : Seq(Names)]

ASSUME RoomAssumption ==
    /\ NReactors \in Nat \ {0}
    /\ NoFd \notin Fds
    /\ \A p \in Payloads :
          /\ p.ok \in BOOLEAN /\ p.max \in Int
          /\ p.roles \in Seq(Names) /\ p.ai \in Seq(Names)
    /\ Texts \subseteq SUBSET Names
    /\ SpeakGap \in Nat /\ AiGap \in Nat
    /\ HistoryCap \in Nat \ {0}
    /\ MaxConns \in Nat /\ MaxRooms \in Nat
    /\ MaxCommands \in Nat /\ MaxQueued \in Nat
    /\ MaxLeaves \in Nat /\ MaxTime \in Nat

None     == 0                       \* no connection
NoRoom   == 0                       \* no room
NoPayload == [ok |-> FALSE, max |-> 0, roles |-> <<>>, ai |-> <<>>]
Never    == -1                      \* an absent time
Conns    == 1 .. MaxConns
RoomIds  == 1 .. MaxRooms
Reactors == 0 .. NReactors - 1

Owner(c) == (c - 1) % NReactors     \* as in Reactor

VARIABLES
    \* connections
    accepted,     \* connections so far
    connFd,       \* connection -> its descriptor, NoFd before it connects
    holder,       \* descriptor -> connection served under it, or None
    matchQueue,   \* reactor -> SubReactor::matchQueue_, messages to send
    \* RoomManager
    tasks,        \* the queue of RoomManager::worker_
    nextRoomId,   \* nextRoomId_, counted from 1
    rooms,        \* rooms_: id -> the payload of its CREATE, or NoPayload
    outgoing,     \* messages the current task has still to post
    calling,      \* room whose AI the thread is waiting for, or NoRoom
    \* Room, by id
    members,      \* members_
    lastSpeak,    \* m_lastSpeakTime
    spoken,       \* m_spokenThisRound
    lastAi,       \* m_lastAiTriggerTime
    history,      \* m_chatHistory, as positions in the log
    \* the environment, and what is kept to state properties
    now,          \* steady_clock, in seconds
    commands,     \* commands read so far (for the bound)
    log,          \* room -> everything that happened in it
    heard,        \* connection -> room -> position of the last broadcast it
                  \* has received or of its own joining; 0 if it never joined
    waiting       \* connection -> requests it has no reply to

connVars == <<accepted, connFd, holder>>
setupVars == <<nextRoomId, rooms, members>>
speechVars == <<lastSpeak, spoken, lastAi, history, calling>>
vars == <<connVars, matchQueue, tasks, setupVars, outgoing, speechVars,
          now, commands, log, heard, waiting>>

Tasks == [type : {"create"}, fromFd : Fds, user : Conns, content : Payloads]
         \cup [type : {"join"}, fromFd : Fds, user : Conns, roomId : RoomIds]
         \cup [type : {"chat"}, fromFd : Fds, user : Conns, text : Texts]
         \cup [type : {"list"}, fromFd : Fds, user : Conns]

(* RC, RC_FAIL, RJ, RJ_ERR, RJ_FULL, RL, and RS from the system. *)
Answers == {"created", "failed", "joined", "error", "full", "list"}
Replies == [fd : Fds, what : Answers \cup {"tooFast"}]

(* "R+" and "RS": the n-th event of the room. *)
Broadcasts == [fd : Fds, what : {"event"}, room : RoomIds, n : Nat]

Members == [fd : Fds, role : Nat \ {0}]
Events  == [kind : {"created", "joined", "ai"}, fd : Fds \cup {NoFd}, at : Nat]
           \cup [kind : {"text"}, fd : Fds, at : Nat, mention : BOOLEAN]

RoomTypeOK ==
    /\ accepted \in 0 .. MaxConns
    /\ connFd \in [Conns -> Fds \cup {NoFd}]
    /\ holder \in [Fds -> Conns \cup {None}]
    /\ matchQueue \in [Reactors -> Seq(Replies \cup Broadcasts)]
    /\ tasks \in Seq(Tasks)
    /\ nextRoomId \in Nat \ {0}
    /\ rooms \in [RoomIds -> Payloads \cup {NoPayload}]
    /\ outgoing \in Seq(Replies \cup Broadcasts)
    /\ calling \in RoomIds \cup {NoRoom}
    /\ members \in [RoomIds -> Seq(Members)]
    /\ lastSpeak \in [RoomIds -> [Fds -> Nat \cup {Never}]]
    /\ spoken \in [RoomIds -> SUBSET Fds]
    /\ lastAi \in [RoomIds -> Nat]
    /\ history \in [RoomIds -> Seq(Nat)]
    /\ \A r \in RoomIds : Len(history[r]) <= HistoryCap
    /\ now \in 0 .. MaxTime
    /\ commands \in 0 .. MaxCommands
    /\ log \in [RoomIds -> Seq(Events)]
    /\ heard \in [Conns -> [RoomIds -> Nat]]
    /\ waiting \in [Conns -> Int]

Init ==
    /\ accepted = 0
    /\ connFd = [c \in Conns |-> NoFd]
    /\ holder = [fd \in Fds |-> None]
    /\ matchQueue = [k \in Reactors |-> <<>>]
    /\ tasks = <<>>
    /\ nextRoomId = 1
    /\ rooms = [r \in RoomIds |-> NoPayload]
    /\ outgoing = <<>>
    /\ calling = NoRoom
    /\ members = [r \in RoomIds |-> <<>>]
    /\ lastSpeak = [r \in RoomIds |-> [fd \in Fds |-> Never]]
    /\ spoken = [r \in RoomIds |-> {}]
    /\ lastAi = [r \in RoomIds |-> 0]
    /\ history = [r \in RoomIds |-> <<>>]
    /\ now = 0
    /\ commands = 0
    /\ log = [r \in RoomIds |-> <<>>]
    /\ heard = [c \in Conns |-> [r \in RoomIds |-> 0]]
    /\ waiting = [c \in Conns |-> 0]

-----------------------------------------------------------------------------
(* Connections. *)

Served == {holder[fd] : fd \in Fds} \ {None}

Connect(fd) ==
    /\ accepted < MaxConns
    /\ holder[fd] = None
    /\ accepted' = accepted + 1
    /\ connFd' = [connFd EXCEPT ![accepted'] = fd]
    /\ holder' = [holder EXCEPT ![fd] = accepted']
    /\ UNCHANGED <<matchQueue, tasks, setupVars, outgoing, speechVars,
                   now, commands, log, heard, waiting>>

(* The event loop tears a connection down; no room hears of it. *)
Leave(c) ==
    /\ c \in Served
    /\ accepted - Cardinality({fd \in Fds : holder[fd] # None}) < MaxLeaves
    /\ holder' = [holder EXCEPT ![connFd[c]] = None]
    /\ UNCHANGED <<accepted, connFd, matchQueue, tasks, setupVars, outgoing,
                   speechVars, now, commands, log, heard, waiting>>

-----------------------------------------------------------------------------
(* onreads: command 'R' of connection c, on the thread of its reactor.      *)
(* A command of fewer than three bytes, one with another second byte, and   *)
(* a JOIN whose room is not a number change nothing.                        *)

PostRoomTask(c, task) ==
    /\ commands < MaxCommands /\ Len(tasks) < MaxQueued
    /\ c \in Served
    /\ commands' = commands + 1
    /\ tasks' = Append(tasks, task)
    /\ waiting' = IF task.type = "chat" THEN waiting
                                        ELSE [waiting EXCEPT ![c] = @ + 1]
    /\ UNCHANGED <<connVars, matchQueue, setupVars, outgoing, speechVars,
                   now, log, heard>>

(* nextRoomId_ and the creates still queued are the CREATE commands so far. *)
ReadCreate(c) ==
    /\ nextRoomId + Len(SelectSeq(tasks, LAMBDA t : t.type = "create")) <= MaxRooms
    /\ \E p \in Payloads :
          PostRoomTask(c, [type |-> "create", fromFd |-> connFd[c], user |-> c,
                           content |-> p])

ReadJoin(c) ==
    \E r \in RoomIds :
        PostRoomTask(c, [type |-> "join", fromFd |-> connFd[c], user |-> c,
                         roomId |-> r])

ReadChat(c) ==
    \E text \in Texts :
        PostRoomTask(c, [type |-> "chat", fromFd |-> connFd[c], user |-> c,
                         text |-> text])

ReadList(c) ==
    PostRoomTask(c, [type |-> "list", fromFd |-> connFd[c], user |-> c])

-----------------------------------------------------------------------------
(* Room. *)

Exists(r) == rooms[r] # NoPayload

MemberFds(r) == {m.fd : m \in Range(members[r])}

(* members_.size() >= maxPlayers_ compares an unsigned with an int: a       *)
(* negative playerCount is a very large one.                                *)
Full(max, size) == max >= 0 /\ size >= max

(* The seat of an AI is the first role of its name. *)
AiSeat(p, i) ==
    /\ p.roles[i] \in Range(p.ai)
    /\ \A j \in 1 .. i - 1 : p.roles[j] # p.roles[i]

(* Mutant of Taken: the AI's seats are not looked at. *)
TakenByMember(r, i) == \E m \in Range(members[r]) : m.role = i

(* RoleStatus::taken *)
Taken(r, i) ==
    \/ \E m \in Range(members[r]) : m.role = i
    \/ AiSeat(rooms[r], i)

FreeSeats(r) == {i \in DOMAIN rooms[r].roles : ~Taken(r, i)}

CanSpeak(r, fd) ==
    lastSpeak[r][fd] = Never \/ now - lastSpeak[r][fd] >= SpeakGap

MentionsAI(r, text) == Range(rooms[r].ai) \cap text # {}

AiCooldownExpired(r) == now - lastAi[r] >= AiGap

(* Mutant of Remembered: one entry more is dropped. *)
RememberedLess(h, n) ==
    LET all == Append(h, n) IN
    IF Len(all) >= HistoryCap THEN SubSeq(all, 2, Len(all)) ELSE all

(* Mutant of Remembered: nothing is dropped. *)
RememberedAll(h, n) == Append(h, n)

(* addHistory: the newest HistoryCap entries. *)
Remembered(h, n) ==
    LET all == Append(h, n) IN
    IF Len(all) > HistoryCap THEN SubSeq(all, 2, Len(all)) ELSE all

-----------------------------------------------------------------------------
(* handleRoomTask, on RoomManager's thread.  A task is handled when what    *)
(* the one before it had to post has been posted.                           *)

TaskIs(t) ==
    /\ outgoing = <<>> /\ calling = NoRoom
    /\ tasks # <<>> /\ t = Head(tasks)
    /\ tasks' = Tail(tasks)

Reply(fd, what) == [fd |-> fd, what |-> what]

(* sendMsgToClient to each member, in the order of members_. *)
ToMembers(r, mems, n) ==
    [i \in DOMAIN mems |-> [fd |-> mems[i].fd, what |-> "event", room |-> r, n |-> n]]

(* A task that only replies. *)
JustReply(t, what) ==
    /\ outgoing' = <<Reply(t.fromFd, what)>>
    /\ UNCHANGED <<rooms, members, speechVars, log, heard>>

CreateFails(t) ==
    /\ t.type = "create" /\ (~t.content.ok \/ t.content.roles = <<>>)
    /\ nextRoomId' = nextRoomId + 1
    /\ JustReply(t, "failed")

(* The constructor seats the creator on the first role before the AI's      *)
(* roles are known, and not at all if playerCount is zero.                  *)
Create(t) ==
    LET r == nextRoomId
        p == t.content
        seated == ~Full(p.max, 0)
    IN
    /\ t.type = "create" /\ p.ok /\ p.roles # <<>>
    /\ nextRoomId' = r + 1
    /\ rooms' = [rooms EXCEPT ![r] = p]
    /\ members' = [members EXCEPT ![r] =
                      IF seated THEN <<[fd |-> t.fromFd, role |-> 1]>> ELSE <<>>]
    /\ lastAi' = [lastAi EXCEPT ![r] = now]
    /\ outgoing' = <<Reply(t.fromFd, "created")>>
    /\ log' = [log EXCEPT ![r] = <<[kind |-> "created", at |-> now,
                                    fd |-> IF seated THEN t.fromFd ELSE NoFd]>>]
    /\ heard' = IF seated THEN [heard EXCEPT ![t.user][r] = 1] ELSE heard
    /\ UNCHANGED <<lastSpeak, spoken, history, calling>>

JoinUnknown(t) ==
    /\ t.type = "join" /\ ~Exists(t.roomId)
    /\ JustReply(t, "error")
    /\ UNCHANGED nextRoomId

(* Mutant of Rejoin: nothing is sent to one who is a member already. *)
RejoinSilently(t) ==
    /\ t.type = "join" /\ Exists(t.roomId) /\ t.fromFd \in MemberFds(t.roomId)
    /\ UNCHANGED <<setupVars, outgoing, speechVars, log, heard>>

Rejoin(t) ==
    /\ t.type = "join" /\ Exists(t.roomId) /\ t.fromFd \in MemberFds(t.roomId)
    /\ JustReply(t, "joined")
    /\ UNCHANGED nextRoomId

JoinFull(t) ==
    LET r == t.roomId IN
    /\ t.type = "join" /\ Exists(r) /\ t.fromFd \notin MemberFds(r)
    /\ FreeSeats(r) = {} \/ Full(rooms[r].max, Len(members[r]))
    /\ JustReply(t, "full")
    /\ UNCHANGED nextRoomId

(* Mutant of Greeted: the members of before the join are told. *)
GreetedBefore(r, mems, n) == ToMembers(r, members[r], n)

(* "R+" goes to all members, the new one included. *)
Greeted(r, mems, n) == ToMembers(r, mems, n)

Join(t) ==
    LET r == t.roomId IN
    /\ t.type = "join" /\ Exists(r) /\ t.fromFd \notin MemberFds(r)
    /\ ~Full(rooms[r].max, Len(members[r]))
    /\ \E seat \in FreeSeats(r) :
          /\ \A i \in FreeSeats(r) : seat <= i
          /\ members' = [members EXCEPT ![r] =
                            Append(@, [fd |-> t.fromFd, role |-> seat])]
    /\ heard' = [heard EXCEPT ![t.user][r] = Len(log[r])]
    /\ log' = [log EXCEPT ![r] =
                  Append(@, [kind |-> "joined", fd |-> t.fromFd, at |-> now])]
    /\ outgoing' = Append(Greeted(r, members'[r], Len(log'[r])),
                          Reply(t.fromFd, "joined"))
    /\ UNCHANGED <<nextRoomId, rooms, speechVars>>

(* CHAT by somebody who is in no room is dropped. *)
ChatNowhere(t) ==
    /\ t.type = "chat" /\ \A r \in RoomIds : t.fromFd \notin MemberFds(r)
    /\ UNCHANGED <<setupVars, outgoing, speechVars, log, heard>>

ChatTooFast(t) ==
    /\ t.type = "chat"
    /\ \E r \in RoomIds : t.fromFd \in MemberFds(r) /\ ~CanSpeak(r, t.fromFd)
    /\ JustReply(t, "tooFast")
    /\ UNCHANGED nextRoomId

(* Mutant of AllRealPlayersSpoke: more than everybody. *)
MoreThanAllSpoke(r, fds) == Cardinality(fds) > Len(members[r])

(* allRealPlayersSpoke, if fds have spoken. *)
AllRealPlayersSpoke(r, fds) == Cardinality(fds) >= Len(members[r])

(* Mutant of RoundAfter: the round goes on when the AI has been called. *)
RoundAfterComplete(fds, complete, callAI) == IF complete THEN {} ELSE fds

(* resetSpokenRound, for a complete round and for a call of the AI. *)
RoundAfter(fds, complete, callAI) == IF complete \/ callAI THEN {} ELSE fds

(* The room is the first in the order of rooms_, which is not specified, of *)
(* those that have the sender for a member.  The text goes out before the   *)
(* AI is called.                                                            *)
Chat(t) ==
    \E r \in RoomIds :
        LET fd       == t.fromFd
            mention  == MentionsAI(r, t.text)
            round    == IF mention THEN spoken[r] ELSE spoken[r] \cup {fd}
            complete == ~mention /\ AllRealPlayersSpoke(r, round)
            callAI   == /\ mention \/ complete \/ AiCooldownExpired(r)
                        /\ rooms[r].ai # <<>>
            n        == Len(log[r]) + 1
        IN
        /\ t.type = "chat" /\ fd \in MemberFds(r) /\ CanSpeak(r, fd)
        /\ lastSpeak' = [lastSpeak EXCEPT ![r][fd] = now]
        /\ history' = [history EXCEPT ![r] = Remembered(@, n)]
        /\ log' = [log EXCEPT ![r] =
                      Append(@, [kind |-> "text", fd |-> fd, at |-> now,
                                 mention |-> mention])]
        /\ outgoing' = ToMembers(r, members[r], n)
        /\ spoken' = [spoken EXCEPT ![r] = RoundAfter(round, complete, callAI)]
        /\ lastAi' = IF callAI THEN [lastAi EXCEPT ![r] = now] ELSE lastAi
        /\ calling' = IF callAI THEN r ELSE NoRoom
        /\ UNCHANGED <<setupVars, heard>>

List(t) ==
    /\ t.type = "list"
    /\ JustReply(t, "list")
    /\ UNCHANGED nextRoomId

HandleRoomTask ==
    \E t \in Tasks :
        /\ TaskIs(t)
        /\ \/ CreateFails(t) \/ Create(t)
           \/ JoinUnknown(t) \/ Rejoin(t) \/ JoinFull(t) \/ Join(t)
           \/ ChatNowhere(t) \/ ChatTooFast(t) \/ Chat(t)
           \/ List(t)
        /\ UNCHANGED <<connVars, matchQueue, now, commands, waiting>>

(* Mutant of AiReply: the answer is kept in the history and sent to nobody. *)
AiReplyUnsent ==
    LET r == calling
        n == Len(log[r]) + 1
    IN
    /\ calling # NoRoom /\ outgoing = <<>>
    /\ calling' = NoRoom
    /\ history' = [history EXCEPT ![r] = Remembered(@, n)]
    /\ log' = [log EXCEPT ![r] = Append(@, [kind |-> "ai", fd |-> NoFd, at |-> now])]
    /\ outgoing' = <<>>
    /\ UNCHANGED <<connVars, matchQueue, tasks, setupVars, lastSpeak, spoken,
                   lastAi, now, commands, heard, waiting>>

(* callDeepSeek returns, with an answer or with a text about its failure:   *)
(* either is said in the room.                                              *)
AiReply ==
    LET r == calling
        n == Len(log[r]) + 1
    IN
    /\ calling # NoRoom /\ outgoing = <<>>
    /\ calling' = NoRoom
    /\ history' = [history EXCEPT ![r] = Remembered(@, n)]
    /\ log' = [log EXCEPT ![r] = Append(@, [kind |-> "ai", fd |-> NoFd, at |-> now])]
    /\ outgoing' = ToMembers(r, members[r], n)
    /\ UNCHANGED <<connVars, matchQueue, tasks, setupVars, lastSpeak, spoken,
                   lastAi, now, commands, heard, waiting>>

(* Mutant of PostNext: the message is put before those that wait. *)
PostInFront ==
    LET m == Head(outgoing)
        c == holder[m.fd]
    IN
    /\ outgoing # <<>>
    /\ outgoing' = Tail(outgoing)
    /\ matchQueue' = IF c = None THEN matchQueue
                     ELSE [matchQueue EXCEPT ![Owner(c)] = <<m>> \o @]
    /\ UNCHANGED <<connVars, tasks, setupVars, speechVars, now, commands, log,
                   heard, waiting>>

(* sendMsgToClient: to the queue of the reactor the descriptor is           *)
(* registered with, if it is registered.                                    *)
PostNext ==
    LET m == Head(outgoing)
        c == holder[m.fd]
    IN
    /\ outgoing # <<>>
    /\ outgoing' = Tail(outgoing)
    /\ matchQueue' = IF c = None THEN matchQueue
                     ELSE [matchQueue EXCEPT ![Owner(c)] = Append(@, m)]
    /\ UNCHANGED <<connVars, tasks, setupVars, speechVars, now, commands, log,
                   heard, waiting>>

-----------------------------------------------------------------------------
(* postRawMessage, as run by reactor k: whoever has the descriptor in the   *)
(* map of this reactor by now is sent the message.                          *)
Deliver(k) ==
    LET m == Head(matchQueue[k])
        c == holder[m.fd]
        arrives == c # None /\ Owner(c) = k
    IN
    /\ matchQueue[k] # <<>>
    /\ matchQueue' = [matchQueue EXCEPT ![k] = Tail(@)]
    /\ heard' = IF arrives /\ m.what = "event" /\ heard[c][m.room] # 0
                THEN [heard EXCEPT ![c][m.room] = m.n] ELSE heard
    /\ waiting' = IF arrives /\ m.what \in Answers
                  THEN [waiting EXCEPT ![c] = @ - 1] ELSE waiting
    /\ UNCHANGED <<connVars, tasks, setupVars, outgoing, speechVars, now,
                   commands, log>>

Tick ==
    /\ now < MaxTime
    /\ now' = now + 1
    /\ UNCHANGED <<connVars, matchQueue, tasks, setupVars, outgoing, speechVars,
                   commands, log, heard, waiting>>

Next ==
    \/ \E fd \in Fds : Connect(fd)
    \/ \E c \in Conns : \/ Leave(c) \/ ReadCreate(c) \/ ReadJoin(c)
                        \/ ReadChat(c) \/ ReadList(c)
    \/ HandleRoomTask \/ AiReply \/ PostNext
    \/ \E k \in Reactors : Deliver(k)
    \/ Tick

Spec == Init /\ [][Next]_vars

(* The room thread, but for what it waits for, and the reactors go on. *)
RoomThread == HandleRoomTask \/ PostNext

FairSpec ==
    /\ Spec
    /\ WF_vars(RoomThread)
    /\ \A k \in Reactors : WF_vars(Deliver(k))

-----------------------------------------------------------------------------
(* Properties. *)

SeatsOf(r) ==
    LET mems == members[r] IN
    /\ rooms[r].max >= 0 => Len(mems) <= rooms[r].max
    /\ \A i \in DOMAIN mems :
          /\ mems[i].role \in DOMAIN rooms[r].roles
          /\ i > 1 => ~AiSeat(rooms[r], mems[i].role)
          /\ \A j \in DOMAIN mems \ {i} :
                mems[i].fd # mems[j].fd /\ mems[i].role # mems[j].role

(* Seats: the members of a room are different descriptors on different      *)
(* seats that exist, no more of them than playerCount says, and nobody has  *)
(* the seat of an AI but the creator, who is seated first (addMember,       *)
(* getRoleStatuses).                                                        *)
SeatsAreConsistent == \A r \in RoomIds : SeatsOf(r)

RoundOf(r) ==
    /\ spoken[r] \subseteq MemberFds(r)
    /\ members[r] # <<>> => spoken[r] # MemberFds(r)

(* A round of speaking is never left complete, and only members count in    *)
(* it: comparing sizes, as allRealPlayersSpoke does, is then the same as    *)
(* asking whether every member has spoken.                                  *)
RoundIsOpen == \A r \in RoomIds : RoundOf(r)

(* A number not given out yet names no room and has no members.             *)
UnbornAreEmpty ==
    \A r \in RoomIds : r >= nextRoomId => rooms[r] = NoPayload /\ members[r] = <<>>

(* Who is served under a descriptor has connected, and with it.             *)
HoldersHaveConnected ==
    \A fd \in Fds : LET c == holder[fd] IN
        c # None => c <= accepted /\ connFd[c] = fd

(* The inductive invariant of the proofs. *)
RoomInv ==
    /\ RoomTypeOK /\ HoldersHaveConnected
    /\ SeatsAreConsistent /\ RoundIsOpen /\ UnbornAreEmpty

(* Of the messages of queue s, those that belong to the set M: how many      *)
(* there are, the numbers of the broadcasts among them, and that these      *)
(* come in the order of their numbers.                                      *)
Count(s, M) == Cardinality({i \in DOMAIN s : s[i] \in M})

Numbers(s, M) == {s[i].n : i \in {j \in DOMAIN s : s[j] \in M}}

Rising(s, M) ==
    \A i, j \in DOMAIN s : i < j /\ s[i] \in M /\ s[j] \in M => s[i].n < s[j].n

(* What is on its way to connection c, in the order in which it will arrive. *)
OnTheWay(c) == matchQueue[Owner(c)] \o outgoing

EventsTo(fd, r) == {m \in Broadcasts : m.fd = fd /\ m.room = r}

HearsAll(c, r) ==
    LET mine == EventsTo(connFd[c], r) IN
    /\ Numbers(OnTheWay(c), mine) = heard[c][r] + 1 .. Len(log[r])
    /\ Rising(OnTheWay(c), mine)

(* Broadcast: what a member who is connected has heard of its room and what *)
(* is on its way to it are everything that happened since it joined, each   *)
(* thing once and in order; even when descriptors are reused and members    *)
(* come and go around it (sendMsgToClient, postRawMessage).                 *)
MembersMissNothing ==
    \A c \in Served : \A r \in RoomIds : heard[c][r] # 0 => HearsAll(c, r)

(* c has a reply to come, or its rooms are ahead of what it has heard. *)
Behind(c) ==
    \/ waiting[c] > 0
    \/ \E r \in RoomIds : heard[c][r] # 0 /\ heard[c][r] < Len(log[r])

AiAnswers == []<>(calling = NoRoom)

(* When the clients have said what they had to say, everyone who has stayed  *)
(* gets its replies and everything that was said in its rooms, the AI's     *)
(* answers included, provided the AI service always answers in the end      *)
(* (handleRoomTask, sendMsgToClient, postRawMessage).                       *)
EveryoneCatchesUp ==
    AiAnswers => <>[](\A c \in Served : ~Behind(c))

(* Nobody else has ever had the descriptor of c. *)
SoleOwner(c) == \A d \in Conns \ {c} : connFd[d] # connFd[c]

RequestsOf(c) == {t \in Tasks : t.user = c /\ t.type # "chat"}

RepliesTo(fd) == {m \in Replies : m.fd = fd /\ m.what \in Answers}

Answered(c) ==
    waiting[c] = Count(tasks, RequestsOf(c)) + Count(OnTheWay(c), RepliesTo(connFd[c]))

(* Requests: a CREATE, JOIN or LIST has exactly one reply, whatever way     *)
(* handleRoomTask leaves, and it goes to the one who asked.                 *)
RequestsAreAnswered == \A c \in Served : SoleOwner(c) => Answered(c)

(* The AI's last answer before event i of the log of a room, the members    *)
(* who came before that event, and who has spoken after event a.            *)
LastAiBefore(events, i) ==
    LET ai == {j \in 1 .. i - 1 : events[j].kind = "ai"} IN
    IF ai = {} THEN 0 ELSE CHOOSE j \in ai : \A k \in ai : k <= j

MembersBefore(events, i) ==
    {events[j].fd : j \in {k \in 1 .. i - 1 : events[k].kind \in {"created", "joined"}}}

SpeakersBetween(events, a, i) ==
    {events[j].fd : j \in {k \in a + 1 .. i : events[k].kind = "text"}}

(* Whether the AI has to answer event i, a text. *)
Due(events, i) ==
    LET ai    == LastAiBefore(events, i)
        since == IF ai = 0 THEN events[1].at ELSE events[ai - 1].at
    IN
    \/ events[i].mention
    \/ events[i].at - since >= AiGap
    \/ MembersBefore(events, i) \subseteq SpeakersBetween(events, ai, i)

SpeaksWhenDue(r) ==
    LET events == log[r] IN
    \A i \in DOMAIN events :
        LET answered == IF i = Len(events) THEN calling = r
                                           ELSE events[i + 1].kind = "ai"
        IN answered <=> events[i].kind = "text" /\ Due(events, i)

(* AI: it answers a text, next in the log, exactly if the text mentions it, *)
(* or every member has spoken since its last answer, or the text it last    *)
(* answered (or the room) is AiGap old.                                     *)
AiSpeaksExactlyWhenDue ==
    \A r \in RoomIds : rooms[r].ai # <<>> => SpeaksWhenDue(r)

(* The texts of room r, the AI's among them. *)
TextsOf(r) == {i \in DOMAIN log[r] : log[r][i].kind \in {"text", "ai"}}

(* h is the newest of texts, as many as the cap allows, in their order. *)
Recent(h, texts) ==
    /\ Range(h) \subseteq texts
    /\ Len(h) = IF Cardinality(texts) < HistoryCap THEN Cardinality(texts)
                                                   ELSE HistoryCap
    /\ \A i, j \in DOMAIN h : i < j => h[i] < h[j]
    /\ h # <<>> => \A i \in texts \ Range(h) : i < h[1]

(* History: addHistory keeps the newest texts, the AI's among them, in the  *)
(* order in which they were said, as many as the cap allows.                *)
HistoryIsRecent == \A r \in RoomIds : Recent(history[r], TextsOf(r))

(* What is on its way to c of room r, if it is there to get it and follows  *)
(* the room.                                                                *)
MailOf(c, r) ==
    IF c \in Served /\ heard[c][r] # 0
    THEN Numbers(OnTheWay(c), EventsTo(connFd[c], r)) ELSE {}

Feed == INSTANCE RoomFeed
        WITH Readers <- Conns, Rooms <- RoomIds, present <- Served,
             said <- [r \in RoomIds |-> Len(log[r])],
             mail <- [c \in Conns |-> [r \in RoomIds |-> MailOf(c, r)]]

(* Feeds: to those who have joined, the server with all its queues and      *)
(* reused descriptors does what RoomFeed does.  A broadcast is on its way   *)
(* to all who follow the room, in one step with what it tells of; who gets  *)
(* it has got all before it, and gets it once; it is lost only to who has   *)
(* left (sendMsgToClient, postRawMessage).  What a newcomer under a         *)
(* member's old descriptor may hear of the room is not in RoomFeed.         *)
ImplementsFeed == Feed!FeedSpec

-----------------------------------------------------------------------------
(* The inductive invariants of the proofs, beside RoomInv. *)

(* Who has not connected yet has nothing, and nothing is known of it. *)
NewcomersAreNew ==
    \A c \in Conns : c > accepted =>
        connFd[c] = NoFd /\ waiting[c] = 0 /\ \A r \in RoomIds : heard[c][r] = 0

(* A task names the one who sent it by number and by descriptor. *)
TasksFit == \A t \in Range(tasks) : connFd[t.user] = t.fromFd

(* A broadcast goes to a member, a reply to somebody who has been there. *)
AddressFits(m) ==
    IF m.what = "event" THEN m.fd \in MemberFds(m.room)
                        ELSE \E d \in Conns : connFd[d] = m.fd

Mail == Range(outgoing) \cup UNION {Range(matchQueue[k]) : k \in Reactors}

MailFits == \A m \in Mail : AddressFits(m)

HearersAreMembers ==
    \A c \in Conns : \A r \in RoomIds : heard[c][r] # 0 => connFd[c] \in MemberFds(r)

AddressInv == NewcomersAreNew /\ TasksFit /\ MailFits /\ HearersAreMembers

(* Nobody has heard what has not happened. *)
NothingIsForeseen == \A c \in Conns : \A r \in RoomIds : heard[c][r] <= Len(log[r])

DeliveryInv ==
    /\ AddressInv /\ NothingIsForeseen
    /\ MembersMissNothing /\ RequestsAreAnswered

(* Nothing has been said in a room that is not there. *)
UnbornAreSilent ==
    \A r \in RoomIds : r >= nextRoomId => log[r] = <<>> /\ history[r] = <<>>

(* A room has a beginning. *)
RoomsHaveBegun == \A r \in RoomIds : Exists(r) => log[r] # <<>>

(* The AI is only called in rooms with members. *)
CallingIsBorn == calling # NoRoom => members[calling] # <<>>

SilenceInv == UnbornAreSilent /\ RoomsHaveBegun /\ CallingIsBorn

(* What the room remembers of its log between two turns of the AI.          *)
TurnOf(r) ==
    LET events == log[r]
        n      == Len(events)
        a      == LastAiBefore(events, n + 1)
        came   == MembersBefore(events, n + 1)
    IN
    /\ n > 0 /\ events[1].kind = "created"
    /\ MemberFds(r) = came \ {NoFd}
    /\ NoFd \in came => rooms[r].max = 0
    /\ IF calling = r
       THEN events[n].kind = "text" /\ events[n].at = lastAi[r] /\ spoken[r] = {}
       ELSE /\ spoken[r] = SpeakersBetween(events, a, n)
            /\ lastAi[r] = events[IF a = 0 THEN 1 ELSE a - 1].at

TurnInv == \A r \in RoomIds : rooms[r].ai # <<>> => TurnOf(r)

(* Whose turn it is and whose it was: with the AI's speaking, inductive.    *)
TurnsTaken == TurnInv /\ AiSpeaksExactlyWhenDue
=============================================================================
