---------------------------- MODULE RoomProofs ----------------------------
(***************************************************************************)
(* Proofs about RoomManager for every number of reactors, connections,     *)
(* rooms and commands, every kind of room and every time.                  *)
(*                                                                         *)
(*   RoomInv       seats are given out once and no round of speaking is    *)
(*                 left complete                                           *)
(*   SilenceInv    nothing is said where there is nobody; with it, a       *)
(*                 history is what was said last                           *)
(*   DeliveryInv   what members have heard and what is on its way to them  *)
(*                 is what was said; what a client is owed is in the queue *)
(*                 or on its way                                           *)
(*   TurnsTaken    what a room remembers of the turns is in its log, and   *)
(*                 the AI speaks when it is due                            *)
(*   RoomFeed      is what the rooms implement, by the first three         *)
(*                                                                         *)
(* Each invariant is inductive with those above it that its section names. *)
(***************************************************************************)
EXTENDS RoomManager, FiniteSetTheorems, SequenceTheorems,
        WellFoundedInduction, TLAPS

-----------------------------------------------------------------------------
(* addHistory keeps a sequence of numbers within the cap.                   *)
LEMMA RememberedType ==
  ASSUME NEW h \in Seq(Nat), Len(h) <= HistoryCap, NEW n \in Nat
  PROVE  Remembered(h, n) \in Seq(Nat) /\ Len(Remembered(h, n)) <= HistoryCap
<1>1. HistoryCap \in Nat \ {0}
  BY RoomAssumption
<1>2. Append(h, n) \in Seq(Nat) /\ Len(Append(h, n)) = Len(h) + 1 /\ Len(h) \in Nat
  OBVIOUS
<1>3. SubSeq(Append(h, n), 2, Len(Append(h, n))) \in Seq(Nat)
  BY <1>2
<1>4. Len(SubSeq(Append(h, n), 2, Len(Append(h, n)))) = Len(h)
  BY <1>2
<1> QED BY <1>1, <1>2, <1>3, <1>4 DEF Remembered

(* A broadcast to the members is a sequence of messages.                    *)
LEMMA ToMembersType ==
  ASSUME NEW r \in RoomIds, NEW mems \in Seq(Members), NEW n \in Nat
  PROVE  ToMembers(r, mems, n) \in Seq(Replies \cup Broadcasts)
<1>0. \A i \in DOMAIN mems : mems[i] \in Members
  OBVIOUS
<1>1. \A i \in DOMAIN mems :
         [fd |-> mems[i].fd, what |-> "event", room |-> r, n |-> n] \in Broadcasts
  BY <1>0 DEF Members, Broadcasts
<1>2. DOMAIN mems = 1 .. Len(mems) /\ Len(mems) \in Nat
  OBVIOUS
<1> QED BY <1>1, <1>2 DEF ToMembers

(* A reply is a message.                                                    *)
LEMMA ReplyType ==
  ASSUME NEW fd \in Fds, NEW what \in Answers \cup {"tooFast"}
  PROVE  <<Reply(fd, what)>> \in Seq(Replies \cup Broadcasts)
BY DEF Reply, Replies

-----------------------------------------------------------------------------
(* Types, action by action. *)
LEMMA ConnectType == ASSUME RoomTypeOK, NEW fd \in Fds, Connect(fd) PROVE RoomTypeOK'
<1>1. accepted + 1 \in Conns /\ accepted' \in 0 .. MaxConns /\ accepted' \in Conns
  BY RoomAssumption DEF RoomTypeOK, Connect, Conns
<1>2. connFd' \in [Conns -> Fds \cup {NoFd}] /\ holder' \in [Fds -> Conns \cup {None}]
  BY <1>1 DEF RoomTypeOK, Connect
<1> QED BY <1>1, <1>2 DEF RoomTypeOK, Connect, setupVars, speechVars

(* Leave changes who holds a descriptor.                                    *)
LEMMA LeaveType == ASSUME RoomTypeOK, NEW c \in Conns, Leave(c) PROVE RoomTypeOK'
<1>1. holder' \in [Fds -> Conns \cup {None}]
  BY DEF RoomTypeOK, Leave
<1> QED BY <1>1 DEF RoomTypeOK, Leave, setupVars, speechVars

(* A connection that is served has a descriptor; for the type it is enough  *)
(* that a task read from it belongs to Tasks.                               *)
LEMMA PostType ==
  ASSUME RoomTypeOK, NEW c \in Conns, NEW task \in Tasks, PostRoomTask(c, task)
  PROVE  RoomTypeOK'
<1>1. tasks' \in Seq(Tasks) /\ commands' \in 0 .. MaxCommands
  BY RoomAssumption DEF RoomTypeOK, PostRoomTask
<1>2. waiting' \in [Conns -> Int]
  BY DEF RoomTypeOK, PostRoomTask
<1> QED BY <1>1, <1>2 DEF RoomTypeOK, PostRoomTask, connVars, setupVars, speechVars

(* What onreads posts is a task.                                            *)
LEMMA ReadType ==
  ASSUME RoomTypeOK, HoldersHaveConnected, NEW c \in Conns,
         ReadCreate(c) \/ ReadJoin(c) \/ ReadChat(c) \/ ReadList(c)
  PROVE  RoomTypeOK'
<1>1. connFd[c] \in Fds
  <2>1. c \in Served
    BY DEF ReadCreate, ReadJoin, ReadChat, ReadList, PostRoomTask
  <2>2. PICK fd \in Fds : holder[fd] = c /\ c # None
    BY <2>1 DEF Served
  <2> QED BY <2>2 DEF HoldersHaveConnected
<1>2. CASE ReadCreate(c)
  <2>1. PICK p \in Payloads :
           PostRoomTask(c, [type |-> "create", fromFd |-> connFd[c], user |-> c,
                            content |-> p])
    BY <1>2 DEF ReadCreate
  <2>2. [type |-> "create", fromFd |-> connFd[c], user |-> c, content |-> p] \in Tasks
    BY <1>1 DEF Tasks
  <2> QED BY <2>1, <2>2, PostType
<1>3. CASE ReadJoin(c)
  <2>1. PICK r \in RoomIds :
           PostRoomTask(c, [type |-> "join", fromFd |-> connFd[c], user |-> c,
                            roomId |-> r])
    BY <1>3 DEF ReadJoin
  <2>2. [type |-> "join", fromFd |-> connFd[c], user |-> c, roomId |-> r] \in Tasks
    BY <1>1 DEF Tasks
  <2> QED BY <2>1, <2>2, PostType
<1>4. CASE ReadChat(c)
  <2>1. PICK text \in Texts :
           PostRoomTask(c, [type |-> "chat", fromFd |-> connFd[c], user |-> c,
                            text |-> text])
    BY <1>4 DEF ReadChat
  <2>2. [type |-> "chat", fromFd |-> connFd[c], user |-> c, text |-> text] \in Tasks
    BY <1>1 DEF Tasks
  <2> QED BY <2>1, <2>2, PostType
<1>5. CASE ReadList(c)
  <2>1. [type |-> "list", fromFd |-> connFd[c], user |-> c] \in Tasks
    BY <1>1 DEF Tasks
  <2> QED BY <1>5, <2>1, PostType DEF ReadList
<1> QED BY <1>2, <1>3, <1>4, <1>5

(* The variables that only the handlers of tasks change. *)
TasksTypeOK ==
    /\ nextRoomId \in Nat \ {0}
    /\ rooms \in [RoomIds -> Payloads \cup {NoPayload}]
    /\ outgoing \in Seq(Replies \cup Broadcasts)
    /\ calling \in RoomIds \cup {NoRoom}
    /\ members \in [RoomIds -> Seq(Members)]
    /\ lastSpeak \in [RoomIds -> [Fds -> Nat \cup {Never}]]
    /\ spoken \in [RoomIds -> SUBSET Fds]
    /\ lastAi \in [RoomIds -> Nat]
    /\ history \in [RoomIds -> Seq(Nat)]
    /\ \A r \in RoomIds : Len(history[r]) <= HistoryCap
    /\ log \in [RoomIds -> Seq(Events)]
    /\ heard \in [Conns -> [RoomIds -> Nat]]

(* A task that only replies.                                                *)
LEMMA JustReplyType ==
  ASSUME TasksTypeOK, NEW t \in Tasks, NEW what \in Answers \cup {"tooFast"},
         JustReply(t, what), nextRoomId' \in Nat \ {0}
  PROVE  TasksTypeOK'
<1>1. t.fromFd \in Fds
  BY DEF Tasks
<1>2. outgoing' \in Seq(Replies \cup Broadcasts)
  BY <1>1, ReplyType DEF JustReply
<1> QED BY <1>2 DEF JustReply, TasksTypeOK, speechVars

(* Create gives the new room its members, its clock and its log.            *)
LEMMA CreateType ==
  ASSUME TasksTypeOK, now \in Nat, NEW t \in Tasks, Create(t)
  PROVE  TasksTypeOK'
<1> DEFINE p == t.content
           seated == ~Full(p.max, 0)
           mems == IF seated THEN <<[fd |-> t.fromFd, role |-> 1]>> ELSE <<>>
           ev == [kind |-> "created", at |-> now,
                  fd |-> IF seated THEN t.fromFd ELSE NoFd]
<1>1. t.fromFd \in Fds /\ t.user \in Conns /\ p \in Payloads
  BY DEF Create, Tasks
<1>2. mems \in Seq(Members)
  <2>1. [fd |-> t.fromFd, role |-> 1] \in Members
    BY <1>1 DEF Members
  <2>2. <<[fd |-> t.fromFd, role |-> 1]>> \in Seq(Members) /\ <<>> \in Seq(Members)
    BY <2>1
  <2> QED BY <2>2
<1>3. ev \in Events /\ <<ev>> \in Seq(Events)
  BY <1>1 DEF Events
<1>4. nextRoomId' \in Nat \ {0} /\ rooms' \in [RoomIds -> Payloads \cup {NoPayload}]
  <2>1. nextRoomId' = nextRoomId + 1 /\ rooms' = [rooms EXCEPT ![nextRoomId] = p]
    BY DEF Create
  <2> HIDE DEF p
  <2>2. nextRoomId' \in Nat \ {0}
    BY <2>1 DEF TasksTypeOK
  <2> QED BY <1>1, <2>1, <2>2 DEF TasksTypeOK
<1>5. members' \in [RoomIds -> Seq(Members)]
  BY <1>2 DEF Create, TasksTypeOK
<1>6. log' \in [RoomIds -> Seq(Events)]
  BY <1>3 DEF Create, TasksTypeOK
<1>7. outgoing' \in Seq(Replies \cup Broadcasts)
  BY <1>1, ReplyType DEF Create, Answers
<1>8. heard' \in [Conns -> [RoomIds -> Nat]]
  BY <1>1 DEF Create, TasksTypeOK
<1>9. lastAi' \in [RoomIds -> Nat]
  BY DEF Create, TasksTypeOK
<1> QED BY <1>4, <1>5, <1>6, <1>7, <1>8, <1>9 DEF Create, TasksTypeOK

(* Join adds a member and an event.                                         *)
LEMMA JoinType ==
  ASSUME TasksTypeOK, now \in Nat, NEW t \in Tasks, Join(t)
  PROVE  TasksTypeOK'
<1> DEFINE r == t.roomId
           ev == [kind |-> "joined", fd |-> t.fromFd, at |-> now]
<1>1. t.fromFd \in Fds /\ t.user \in Conns /\ r \in RoomIds
  BY DEF Join, Tasks
<1>2. PICK seat \in FreeSeats(r) :
         members' = [members EXCEPT ![r] = Append(@, [fd |-> t.fromFd, role |-> seat])]
  BY DEF Join
<1>3. seat \in Nat \ {0}
  <2>1. rooms[r] \in Payloads \cup {NoPayload}
    BY <1>1 DEF TasksTypeOK
  <2>2. rooms[r].roles \in Seq(Names)
    <3>1. CASE rooms[r] \in Payloads
      BY <3>1, RoomAssumption
    <3>2. CASE rooms[r] = NoPayload
      BY <3>2 DEF NoPayload
    <3> QED BY <2>1, <3>1, <3>2
  <2> QED BY <2>2 DEF FreeSeats
<1>4. [fd |-> t.fromFd, role |-> seat] \in Members /\ ev \in Events
  BY <1>1, <1>3 DEF Members, Events
<1>5. members' \in [RoomIds -> Seq(Members)] /\ members'[r] \in Seq(Members)
  BY <1>1, <1>2, <1>4 DEF TasksTypeOK
<1>6. log' \in [RoomIds -> Seq(Events)] /\ Len(log'[r]) \in Nat /\ Len(log[r]) \in Nat
  <2>1. log' = [log EXCEPT ![r] = Append(log[r], ev)]
    BY DEF Join
  <2>2. log[r] \in Seq(Events) /\ Append(log[r], ev) \in Seq(Events)
    BY <1>1, <1>4 DEF TasksTypeOK
  <2>3. log' \in [RoomIds -> Seq(Events)] /\ log'[r] \in Seq(Events)
    <3> HIDE DEF ev
    <3> QED BY <1>1, <2>1, <2>2 DEF TasksTypeOK
  <2> QED BY <2>2, <2>3
<1>7. heard' \in [Conns -> [RoomIds -> Nat]]
  BY <1>1, <1>6 DEF Join, TasksTypeOK
<1>8. outgoing' \in Seq(Replies \cup Broadcasts)
  <2>1. Greeted(r, members'[r], Len(log'[r])) \in Seq(Replies \cup Broadcasts)
    BY <1>1, <1>5, <1>6, ToMembersType DEF Greeted
  <2>2. Reply(t.fromFd, "joined") \in Replies
    BY <1>1 DEF Reply, Replies, Answers
  <2> QED BY <2>1, <2>2 DEF Join
<1> QED BY <1>5, <1>6, <1>7, <1>8 DEF Join, TasksTypeOK, speechVars

(* Chat adds an event and changes what is kept of the speakers.             *)
LEMMA ChatType ==
  ASSUME TasksTypeOK, now \in Nat, NEW t \in Tasks, Chat(t)
  PROVE  TasksTypeOK'
<1>1. PICK r \in RoomIds :
        LET fd       == t.fromFd
            mention  == MentionsAI(r, t.text)
            round    == IF mention THEN spoken[r] ELSE spoken[r] \cup {fd}
            complete == ~mention /\ AllRealPlayersSpoke(r, round)
            callAI   == /\ mention \/ complete \/ AiCooldownExpired(r)
                        /\ rooms[r].ai # <<>>
            n        == Len(log[r]) + 1
        IN
        /\ lastSpeak' = [lastSpeak EXCEPT ![r][fd] = now]
        /\ history' = [history EXCEPT ![r] = Remembered(@, n)]
        /\ log' = [log EXCEPT ![r] =
                      Append(@, [kind |-> "text", fd |-> fd, at |-> now,
                                 mention |-> mention])]
        /\ outgoing' = ToMembers(r, members[r], n)
        /\ spoken' = [spoken EXCEPT ![r] = RoundAfter(round, complete, callAI)]
        /\ lastAi' = IF callAI THEN [lastAi EXCEPT ![r] = now] ELSE lastAi
        /\ calling' = IF callAI THEN r ELSE NoRoom
        /\ UNCHANGED <<setupVars, heard>>
  BY DEF Chat
<1>2. t.fromFd \in Fds
  BY DEF Tasks
<1>3. Len(log[r]) + 1 \in Nat
  BY DEF TasksTypeOK
<1>4. lastSpeak' \in [RoomIds -> [Fds -> Nat \cup {Never}]]
  BY <1>1, <1>2 DEF TasksTypeOK
<1>5. history' \in [RoomIds -> Seq(Nat)] /\ \A q \in RoomIds : Len(history'[q]) <= HistoryCap
  <2>1. /\ Remembered(history[r], Len(log[r]) + 1) \in Seq(Nat)
        /\ Len(Remembered(history[r], Len(log[r]) + 1)) <= HistoryCap
    BY <1>3, RememberedType DEF TasksTypeOK
  <2> QED BY <1>1, <2>1 DEF TasksTypeOK
<1>6. log' \in [RoomIds -> Seq(Events)]
  <2>1. MentionsAI(r, t.text) \in BOOLEAN
    BY DEF MentionsAI
  <2>2. [kind |-> "text", fd |-> t.fromFd, at |-> now,
         mention |-> MentionsAI(r, t.text)] \in Events
    BY <1>2, <2>1 DEF Events
  <2> QED BY <1>1, <2>2 DEF TasksTypeOK
<1>7. outgoing' \in Seq(Replies \cup Broadcasts)
  BY <1>1, <1>3, ToMembersType DEF TasksTypeOK
<1>8. spoken' \in [RoomIds -> SUBSET Fds]
  BY <1>1, <1>2 DEF TasksTypeOK, RoundAfter
<1>9. lastAi' \in [RoomIds -> Nat] /\ calling' \in RoomIds \cup {NoRoom}
  BY <1>1 DEF TasksTypeOK
<1> QED BY <1>1, <1>4, <1>5, <1>6, <1>7, <1>8, <1>9 DEF TasksTypeOK, setupVars

(* Whatever way handleRoomTask leaves.                                      *)
LEMMA HandleType == ASSUME RoomTypeOK, HandleRoomTask PROVE RoomTypeOK'
<1>1. PICK t \in Tasks :
         /\ TaskIs(t)
         /\ \/ CreateFails(t) \/ Create(t)
            \/ JoinUnknown(t) \/ Rejoin(t) \/ JoinFull(t) \/ Join(t)
            \/ ChatNowhere(t) \/ ChatTooFast(t) \/ Chat(t)
            \/ List(t)
         /\ UNCHANGED <<connVars, matchQueue, now, commands, waiting>>
  BY DEF HandleRoomTask
<1>2. TasksTypeOK /\ now \in Nat
  BY RoomAssumption DEF RoomTypeOK, TasksTypeOK
<1>3. tasks' \in Seq(Tasks)
  BY <1>1 DEF TaskIs, RoomTypeOK
<1>4. TasksTypeOK'
  <2>1. CASE CreateFails(t)
    <3>1. nextRoomId' \in Nat \ {0}
      BY <2>1, <1>2 DEF CreateFails, TasksTypeOK
    <3> QED BY <2>1, <1>2, <3>1, JustReplyType DEF CreateFails, Answers
  <2>2. CASE Create(t)
    BY <1>2, <2>2, CreateType
  <2>3. CASE JoinUnknown(t) \/ Rejoin(t) \/ JoinFull(t) \/ ChatTooFast(t) \/ List(t)
    <3>1. nextRoomId' \in Nat \ {0}
      BY <1>2, <2>3 DEF JoinUnknown, Rejoin, JoinFull, ChatTooFast, List, TasksTypeOK
    <3> QED BY <1>2, <2>3, <3>1, JustReplyType
            DEF JoinUnknown, Rejoin, JoinFull, ChatTooFast, List, Answers
  <2>4. CASE Join(t)
    BY <1>2, <2>4, JoinType
  <2>5. CASE ChatNowhere(t)
    BY <1>2, <2>5 DEF ChatNowhere, TasksTypeOK, setupVars, speechVars
  <2>6. CASE Chat(t)
    BY <1>2, <2>6, ChatType
  <2> QED BY <1>1, <2>1, <2>2, <2>3, <2>4, <2>5, <2>6
<1>5. UNCHANGED <<connVars, matchQueue, now, commands, waiting>>
  BY <1>1
<1> QED BY <1>3, <1>4, <1>5 DEF RoomTypeOK, TasksTypeOK, connVars

(* The answer of the AI is an event.                                        *)
LEMMA AiReplyType == ASSUME RoomTypeOK, AiReply PROVE RoomTypeOK'
<1> DEFINE r == calling
           ev == [kind |-> "ai", fd |-> NoFd, at |-> now]
<1>1. r \in RoomIds /\ now \in Nat
  BY RoomAssumption DEF AiReply, RoomTypeOK
<1>2. Len(log[r]) + 1 \in Nat /\ ev \in Events
  BY <1>1 DEF RoomTypeOK, Events
<1>3. /\ Remembered(history[r], Len(log[r]) + 1) \in Seq(Nat)
      /\ Len(Remembered(history[r], Len(log[r]) + 1)) <= HistoryCap
  BY <1>1, <1>2, RememberedType DEF RoomTypeOK
<1>4. history' = [history EXCEPT ![r] = Remembered(history[r], Len(log[r]) + 1)]
  BY DEF AiReply
<1>5. history' \in [RoomIds -> Seq(Nat)] /\ \A q \in RoomIds : Len(history'[q]) <= HistoryCap
  <2> HIDE DEF r
  <2> QED BY <1>1, <1>3, <1>4 DEF RoomTypeOK
<1>6. log' \in [RoomIds -> Seq(Events)]
  BY <1>1, <1>2 DEF AiReply, RoomTypeOK
<1>7. outgoing' \in Seq(Replies \cup Broadcasts)
  BY <1>1, <1>2, ToMembersType DEF AiReply, RoomTypeOK
<1> QED BY <1>5, <1>6, <1>7 DEF AiReply, RoomTypeOK, connVars, setupVars

(* A connection belongs to a reactor.                                       *)
LEMMA OwnerType == ASSUME NEW c \in Conns PROVE Owner(c) \in Reactors
BY RoomAssumption DEF Owner, Reactors, Conns

(* A message moves to the queue of a reactor.                               *)
LEMMA PostNextType == ASSUME RoomTypeOK, PostNext PROVE RoomTypeOK'
<1>1. outgoing' \in Seq(Replies \cup Broadcasts) /\ Head(outgoing) \in Replies \cup Broadcasts
  BY DEF PostNext, RoomTypeOK
<1>2. holder[Head(outgoing).fd] \in Conns \cup {None}
  BY <1>1 DEF Replies, Broadcasts, RoomTypeOK
<1>3. matchQueue' \in [Reactors -> Seq(Replies \cup Broadcasts)]
  <2> DEFINE m == Head(outgoing)
             k == Owner(holder[m.fd])
             Msgs == Replies \cup Broadcasts
  <2>1. CASE holder[m.fd] = None
    BY <2>1 DEF PostNext, RoomTypeOK
  <2>2. CASE holder[m.fd] # None
    <3>1. k \in Reactors
      BY <1>2, <2>2, OwnerType
    <3>2. matchQueue' = [matchQueue EXCEPT ![k] = Append(matchQueue[k], m)]
      BY <2>2 DEF PostNext
    <3>3. matchQueue \in [Reactors -> Seq(Msgs)] /\ m \in Msgs
      BY <1>1 DEF RoomTypeOK
    <3> HIDE DEF k, m, Msgs
    <3>4. Append(matchQueue[k], m) \in Seq(Msgs)
      BY <3>1, <3>3
    <3>5. matchQueue' \in [Reactors -> Seq(Msgs)]
      BY <3>1, <3>2, <3>3, <3>4
    <3> QED BY <3>5 DEF Msgs
  <2> QED BY <2>1, <2>2
<1> QED BY <1>1, <1>3 DEF PostNext, RoomTypeOK, connVars, setupVars, speechVars

(* A message leaves the queue of its reactor.                               *)
LEMMA DeliverType == ASSUME RoomTypeOK, NEW k \in Reactors, Deliver(k) PROVE RoomTypeOK'
<1> DEFINE m == Head(matchQueue[k])
           c == holder[m.fd]
<1>1. /\ matchQueue[k] \in Seq(Replies \cup Broadcasts)
      /\ matchQueue[k] # <<>>
  BY DEF Deliver, RoomTypeOK
<1>2. m \in Replies \cup Broadcasts /\ Tail(matchQueue[k]) \in Seq(Replies \cup Broadcasts)
  BY <1>1
<1>3. c \in Conns \cup {None}
  BY <1>2 DEF Replies, Broadcasts, RoomTypeOK
<1>4. matchQueue' \in [Reactors -> Seq(Replies \cup Broadcasts)]
  BY <1>2 DEF Deliver, RoomTypeOK
<1>5. heard' \in [Conns -> [RoomIds -> Nat]]
  <2>1. CASE c # None /\ m.what = "event"
    <3>1. m.room \in RoomIds /\ m.n \in Nat
      BY <1>2, <2>1 DEF Replies, Broadcasts, Answers
    <3>2. heard' \in {heard, [heard EXCEPT ![c][m.room] = m.n]}
      BY DEF Deliver
    <3>3. c \in Conns /\ heard \in [Conns -> [RoomIds -> Nat]]
      BY <1>3, <2>1 DEF RoomTypeOK
    <3> HIDE DEF c, m
    <3>4. [heard[c] EXCEPT ![m.room] = m.n] \in [RoomIds -> Nat]
      BY <3>1, <3>3
    <3>5. [heard EXCEPT ![c] = [heard[c] EXCEPT ![m.room] = m.n]]
             \in [Conns -> [RoomIds -> Nat]]
      BY <3>3, <3>4
    <3> QED BY <3>2, <3>3, <3>5
  <2>2. CASE ~(c # None /\ m.what = "event")
    BY <2>2 DEF Deliver, RoomTypeOK
  <2> QED BY <2>1, <2>2
<1>6. waiting' \in [Conns -> Int]
  <2>1. waiting' \in {waiting, [waiting EXCEPT ![c] = waiting[c] - 1]}
    BY DEF Deliver
  <2>2. waiting \in [Conns -> Int]
    BY DEF RoomTypeOK
  <2> HIDE DEF c, m
  <2> QED BY <2>1, <2>2
<1> QED BY <1>4, <1>5, <1>6 DEF Deliver, RoomTypeOK, connVars, setupVars, speechVars

(* Time passes.                                                             *)
LEMMA TickType == ASSUME RoomTypeOK, Tick PROVE RoomTypeOK'
<1>1. now' \in 0 .. MaxTime
  BY RoomAssumption DEF Tick, RoomTypeOK
<1> QED BY <1>1 DEF Tick, RoomTypeOK, connVars, setupVars, speechVars

(* Types are kept by every step.                                            *)
LEMMA TypeStep ==
  ASSUME RoomTypeOK, HoldersHaveConnected, [Next]_vars
  PROVE  RoomTypeOK'
<1>1. CASE UNCHANGED vars
  BY <1>1 DEF vars, connVars, setupVars, speechVars, RoomTypeOK
<1> QED BY <1>1, ConnectType, LeaveType, ReadType, HandleType, AiReplyType,
           PostNextType, DeliverType, TickType DEF Next

-----------------------------------------------------------------------------
(* Who is served has connected. *)
LEMMA HoldersStep ==
  ASSUME RoomTypeOK, HoldersHaveConnected, [Next]_vars
  PROVE  HoldersHaveConnected'
<1>1. CASE UNCHANGED connVars
  BY <1>1 DEF connVars, HoldersHaveConnected
<1>2. ASSUME NEW fd \in Fds, Connect(fd) PROVE HoldersHaveConnected'
  <2>1. accepted \in Nat /\ accepted + 1 \in Conns /\ None = 0
    BY <1>2, RoomAssumption DEF Connect, RoomTypeOK, Conns, None
  <2>2. SUFFICES ASSUME NEW f \in Fds, holder'[f] # None
                 PROVE  holder'[f] <= accepted' /\ connFd'[holder'[f]] = f
    BY DEF HoldersHaveConnected
  <2>3. CASE f = fd
    BY <1>2, <2>1, <2>3 DEF Connect, RoomTypeOK
  <2>4. CASE f # fd
    <3>1. holder'[f] = holder[f] /\ holder[f] \in Conns
      BY <1>2, <2>2, <2>4 DEF Connect, RoomTypeOK
    <3>2. holder[f] <= accepted /\ connFd[holder[f]] = f
      BY <2>2, <3>1 DEF HoldersHaveConnected
    <3>3. holder[f] # accepted + 1 /\ holder[f] <= accepted + 1
      BY <2>1, <3>1, <3>2 DEF Conns
    <3>4. accepted' = accepted + 1 /\ connFd' = [connFd EXCEPT ![accepted + 1] = fd]
      BY <1>2 DEF Connect
    <3> QED BY <3>1, <3>2, <3>3, <3>4 DEF RoomTypeOK
  <2> QED BY <2>3, <2>4
<1>3. ASSUME NEW c \in Conns, Leave(c) PROVE HoldersHaveConnected'
  BY <1>3 DEF Leave, RoomTypeOK, HoldersHaveConnected
<1>4. ASSUME Next, ~\E fd \in Fds : Connect(fd), ~\E c \in Conns : Leave(c)
      PROVE  UNCHANGED connVars
  <2>1. CASE \E c \in Conns : ReadCreate(c) \/ ReadJoin(c) \/ ReadChat(c) \/ ReadList(c)
    BY <2>1 DEF ReadCreate, ReadJoin, ReadChat, ReadList, PostRoomTask
  <2>2. CASE HandleRoomTask
    BY <2>2 DEF HandleRoomTask
  <2>3. CASE AiReply \/ PostNext \/ Tick \/ \E k \in Reactors : Deliver(k)
    BY <2>3 DEF AiReply, PostNext, Tick, Deliver
  <2> QED BY <1>4, <2>1, <2>2, <2>3 DEF Next
<1> QED BY <1>1, <1>2, <1>3, <1>4 DEF Next, vars

-----------------------------------------------------------------------------
(* Seats and rounds. *)

(* The members of a room are as many as their descriptors.                  *)
LEMMA MembersCount ==
  ASSUME NEW r \in RoomIds, members[r] \in Seq(Members), SeatsOf(r)
  PROVE  /\ IsFiniteSet(MemberFds(r))
         /\ Cardinality(MemberFds(r)) = Len(members[r])
<1> DEFINE n == Len(members[r])
           f == [i \in 1 .. n |-> members[r][i].fd]
<1>1. n \in Nat /\ DOMAIN members[r] = 1 .. n
  OBVIOUS
<1>2. MemberFds(r) = {members[r][i].fd : i \in 1 .. n}
  BY <1>1 DEF MemberFds, Range
<1>3. f \in Surjection(1 .. n, MemberFds(r))
  BY <1>2 DEF Surjection
<1>4. f \in Injection(1 .. n, MemberFds(r))
  BY <1>1, <1>2 DEF Injection, IsInjective, SeatsOf
<1>5. f \in Bijection(1 .. n, MemberFds(r))
  BY <1>3, <1>4 DEF Bijection
<1>6. IsFiniteSet(1 .. n) /\ Cardinality(1 .. n) = n
  BY <1>1, FS_Interval
<1>7. ExistsBijection(1 .. n, MemberFds(r))
  BY <1>5 DEF ExistsBijection
<1>8. IsFiniteSet(MemberFds(r)) /\ Cardinality(MemberFds(r)) = Cardinality(1 .. n)
  BY <1>6, <1>7, FS_Bijection
<1> QED BY <1>6, <1>8

(* The creator has the first seat, or none.                                 *)
LEMMA CreateSeats ==
  ASSUME RoomInv, NEW t \in Tasks, Create(t)
  PROVE  (SeatsAreConsistent /\ RoundIsOpen /\ UnbornAreEmpty)'
<1> DEFINE p == t.content
           mems == IF Full(p.max, 0) THEN <<>> ELSE <<[fd |-> t.fromFd, role |-> 1]>>
<1>0. PICK new \in Nat \ {0} : new = nextRoomId
  BY DEF RoomInv, RoomTypeOK
<1>1. nextRoomId' = new + 1
  BY <1>0 DEF Create
<1>2. /\ rooms' = [rooms EXCEPT ![new] = p]
      /\ members' = [members EXCEPT ![new] = mems]
      /\ spoken' = spoken
  BY <1>0 DEF Create
<1>3. p \in Payloads /\ p.roles # <<>> /\ p.max \in Int /\ p.roles \in Seq(Names)
  BY RoomAssumption DEF Create, Tasks
<1>4. 1 \in DOMAIN p.roles
  BY <1>3
<1>5. /\ rooms \in [RoomIds -> Payloads \cup {NoPayload}]
      /\ members \in [RoomIds -> Seq(Members)]
  BY DEF RoomInv, RoomTypeOK
<1>6. ASSUME NEW q \in RoomIds, q # new
      PROVE  SeatsOf(q)' /\ RoundOf(q)'
  <2>1. rooms'[q] = rooms[q] /\ members'[q] = members[q] /\ spoken'[q] = spoken[q]
    BY <1>2, <1>5, <1>6
  <2>2. SeatsOf(q) /\ RoundOf(q)
    BY DEF RoomInv, SeatsAreConsistent, RoundIsOpen
  <2> QED BY <2>1, <2>2 DEF SeatsOf, RoundOf, MemberFds, AiSeat
<1>7. ASSUME new \in RoomIds
      PROVE  SeatsOf(new)' /\ RoundOf(new)'
  <2>1. rooms'[new] = p /\ members'[new] = mems
    BY <1>2, <1>5, <1>7
  <2>2. spoken'[new] = {}
    <3>1. members[new] = <<>> /\ RoundOf(new)
      BY <1>0, <1>7 DEF RoomInv, UnbornAreEmpty, RoundIsOpen
    <3>2. MemberFds(new) = {}
      BY <3>1 DEF MemberFds, Range
    <3> QED BY <1>2, <3>1, <3>2 DEF RoundOf
  <2>3. CASE Full(p.max, 0)
    <3>1. mems = <<>>
      BY <2>3
    <3> HIDE DEF mems, p
    <3> QED BY <1>3, <2>1, <2>2, <3>1 DEF SeatsOf, RoundOf, MemberFds, Range
  <2>4. CASE ~Full(p.max, 0)
    <3>1. mems = <<[fd |-> t.fromFd, role |-> 1]>>
      BY <2>4
    <3>2. p.max >= 0 => 1 <= p.max
      BY <1>3, <2>4 DEF Full
    <3>3. DOMAIN mems = {1} /\ Len(mems) = 1 /\ mems[1] = [fd |-> t.fromFd, role |-> 1]
      BY <3>1
    <3> HIDE DEF mems, p
    <3>4. SeatsOf(new)'
      BY <1>4, <2>1, <3>2, <3>3 DEF SeatsOf
    <3>5. t.fromFd \in MemberFds(new)'
      BY <2>1, <3>3 DEF MemberFds, Range
    <3> QED BY <2>2, <3>4, <3>5 DEF RoundOf
  <2> QED BY <2>3, <2>4
<1>8. UnbornAreEmpty'
  <2>1. SUFFICES ASSUME NEW q \in RoomIds, q >= nextRoomId'
                 PROVE  rooms'[q] = NoPayload /\ members'[q] = <<>>
    BY DEF UnbornAreEmpty
  <2>2. q # new /\ q >= new
    BY <1>1, <2>1 DEF RoomIds
  <2>3. rooms[q] = NoPayload /\ members[q] = <<>>
    BY <1>0, <2>2 DEF RoomInv, UnbornAreEmpty
  <2> QED BY <1>2, <1>5, <2>2, <2>3
<1>9. \A q \in RoomIds : SeatsOf(q)' /\ RoundOf(q)'
  BY <1>6, <1>7
<1> QED BY <1>8, <1>9 DEF SeatsAreConsistent, RoundIsOpen

(* Who joins gets a seat that was free.                                     *)
LEMMA JoinSeats ==
  ASSUME RoomInv, NEW t \in Tasks, Join(t)
  PROVE  (SeatsAreConsistent /\ RoundIsOpen /\ UnbornAreEmpty)'
<1>1. PICK r \in RoomIds : r = t.roomId
  BY DEF Join, Tasks
<1>2. PICK seat \in FreeSeats(r) :
         members' = [members EXCEPT ![r] = Append(@, [fd |-> t.fromFd, role |-> seat])]
  BY <1>1 DEF Join
<1>3. /\ Exists(r) /\ t.fromFd \notin MemberFds(r)
      /\ ~Full(rooms[r].max, Len(members[r]))
      /\ rooms' = rooms /\ nextRoomId' = nextRoomId /\ spoken' = spoken
  BY <1>1 DEF Join, speechVars
<1>4. /\ rooms \in [RoomIds -> Payloads \cup {NoPayload}]
      /\ members \in [RoomIds -> Seq(Members)]
      /\ nextRoomId \in Nat
  BY DEF RoomInv, RoomTypeOK
<1>5. SeatsOf(r) /\ RoundOf(r)
  BY DEF RoomInv, SeatsAreConsistent, RoundIsOpen
<1> DEFINE n == Len(members[r])
           new == [fd |-> t.fromFd, role |-> seat]
<1>6. /\ n \in Nat /\ DOMAIN members[r] = 1 .. n
      /\ members'[r] = Append(members[r], new)
      /\ DOMAIN members'[r] = 1 .. n + 1 /\ Len(members'[r]) = n + 1
      /\ members'[r][n + 1] = new
      /\ \A i \in 1 .. n : members'[r][i] = members[r][i]
  BY <1>2, <1>4
<1>7. rooms[r].max \in Int
  <2>1. rooms[r] \in Payloads
    BY <1>3, <1>4 DEF Exists
  <2> QED BY <2>1, RoomAssumption
<1>8. rooms[r].max >= 0 => n + 1 <= rooms[r].max
  BY <1>3, <1>6, <1>7 DEF Full
<1>9. /\ seat \in DOMAIN rooms[r].roles /\ ~AiSeat(rooms[r], seat)
      /\ \A i \in 1 .. n : members[r][i].role # seat
  BY <1>6 DEF FreeSeats, Taken, Range
<1>10. \A i \in 1 .. n : members[r][i].fd # t.fromFd
  BY <1>3, <1>6 DEF MemberFds, Range
<1>11. SeatsOf(r)'
  <2>1. rooms'[r] = rooms[r]
    BY <1>3
  <2>2. SUFFICES ASSUME NEW i \in 1 .. n + 1
                 PROVE  /\ members'[r][i].role \in DOMAIN rooms[r].roles
                        /\ i > 1 => ~AiSeat(rooms[r], members'[r][i].role)
                        /\ \A j \in (1 .. n + 1) \ {i} :
                              /\ members'[r][i].fd # members'[r][j].fd
                              /\ members'[r][i].role # members'[r][j].role
    BY <1>6, <1>8, <2>1 DEF SeatsOf, AiSeat
  <2> HIDE DEF n
  <2>3. \A j \in 1 .. n + 1 : j = n + 1 \/ j \in 1 .. n
    BY <1>6
  <2>4. CASE i = n + 1
    BY <1>6, <1>9, <1>10, <2>3, <2>4
  <2>5. CASE i \in 1 .. n
    <3>1. /\ members[r][i].role \in DOMAIN rooms[r].roles
          /\ i > 1 => ~AiSeat(rooms[r], members[r][i].role)
          /\ \A j \in (1 .. n) \ {i} :
                /\ members[r][i].fd # members[r][j].fd
                /\ members[r][i].role # members[r][j].role
      BY <1>5, <1>6, <2>5 DEF SeatsOf
    <3>2. members'[r][i] = members[r][i]
      BY <1>6, <2>5
    <3>3. ASSUME NEW j \in (1 .. n + 1) \ {i}
          PROVE  /\ members'[r][i].fd # members'[r][j].fd
                 /\ members'[r][i].role # members'[r][j].role
      <4>1. CASE j = n + 1
        BY <1>6, <1>9, <1>10, <2>5, <3>2, <4>1
      <4>2. CASE j \in 1 .. n
        BY <1>6, <3>1, <3>2, <3>3, <4>2
      <4> QED BY <2>3, <3>3, <4>1, <4>2
    <3> QED BY <3>1, <3>2, <3>3
  <2> QED BY <2>3, <2>4, <2>5
<1>12. RoundOf(r)'
  <2>1. \A i \in 1 .. n : i \in 1 .. n + 1
    BY <1>6
  <2>2. MemberFds(r) \subseteq MemberFds(r)'
    BY <1>6, <2>1 DEF MemberFds, Range
  <2>3. t.fromFd \in MemberFds(r)'
    BY <1>6 DEF MemberFds, Range
  <2> QED BY <1>3, <1>5, <2>2, <2>3 DEF RoundOf
<1>13. ASSUME NEW q \in RoomIds, q # r
       PROVE  SeatsOf(q)' /\ RoundOf(q)'
  <2>1. rooms'[q] = rooms[q] /\ members'[q] = members[q] /\ spoken'[q] = spoken[q]
    BY <1>2, <1>3, <1>4, <1>13
  <2>2. SeatsOf(q) /\ RoundOf(q)
    BY DEF RoomInv, SeatsAreConsistent, RoundIsOpen
  <2> QED BY <2>1, <2>2 DEF SeatsOf, RoundOf, MemberFds, AiSeat
<1>14. UnbornAreEmpty'
  BY <1>2, <1>3, <1>4 DEF RoomInv, UnbornAreEmpty, Exists
<1> QED BY <1>11, <1>12, <1>13, <1>14 DEF SeatsAreConsistent, RoundIsOpen

(* A text keeps the round open: recordSpoken adds a member, and when that   *)
(* makes as many as there are members the round starts again.               *)
LEMMA ChatRound ==
  ASSUME RoomInv, NEW t \in Tasks, Chat(t)
  PROVE  (SeatsAreConsistent /\ RoundIsOpen /\ UnbornAreEmpty)'
<1>1. PICK r \in RoomIds :
        LET fd       == t.fromFd
            mention  == MentionsAI(r, t.text)
            round    == IF mention THEN spoken[r] ELSE spoken[r] \cup {fd}
            complete == ~mention /\ AllRealPlayersSpoke(r, round)
            callAI   == /\ mention \/ complete \/ AiCooldownExpired(r)
                        /\ rooms[r].ai # <<>>
        IN
        /\ fd \in MemberFds(r)
        /\ spoken' = [spoken EXCEPT ![r] = RoundAfter(round, complete, callAI)]
        /\ UNCHANGED setupVars
  BY DEF Chat
<1>2. rooms' = rooms /\ members' = members /\ nextRoomId' = nextRoomId
  BY <1>1 DEF setupVars
<1>3. \A q \in RoomIds : SeatsOf(q) /\ RoundOf(q)
  BY DEF RoomInv, SeatsAreConsistent, RoundIsOpen
<1>4. spoken \in [RoomIds -> SUBSET Fds] /\ members[r] \in Seq(Members)
  BY DEF RoomInv, RoomTypeOK
<1>5. members[r] # <<>>
  BY <1>1 DEF MemberFds, Range
<1>6. /\ IsFiniteSet(MemberFds(r))
      /\ Cardinality(MemberFds(r)) = Len(members[r])
  BY <1>3, <1>4, MembersCount
<1>7. MemberFds(r) # {}
  BY <1>1
<1>8. RoundOf(r)'
  <2> DEFINE round == spoken[r] \cup {t.fromFd}
  <2>1. spoken'[r] \in {{}, spoken[r], round}
    BY <1>1, <1>4 DEF RoundAfter
  <2>2. ASSUME spoken'[r] = round, round # spoken[r], round # {}
        PROVE  round # MemberFds(r)
    <3>1. ~AllRealPlayersSpoke(r, round)
      BY <1>1, <1>4, <2>2 DEF RoundAfter
    <3>2. Len(members[r]) \in Nat /\ ~(Cardinality(round) >= Len(members[r]))
      BY <1>4, <3>1 DEF AllRealPlayersSpoke
    <3> HIDE DEF round
    <3> QED BY <1>6, <3>2
  <2>3. round \subseteq MemberFds(r)
    BY <1>1, <1>3 DEF RoundOf
  <2>4. MemberFds(r)' = MemberFds(r)
    BY <1>2 DEF MemberFds
  <2> HIDE DEF round
  <2> QED BY <1>2, <1>3, <1>7, <2>1, <2>2, <2>3, <2>4 DEF RoundOf
<1>9. ASSUME NEW q \in RoomIds
      PROVE  SeatsOf(q)' /\ RoundOf(q)'
  <2>1. SeatsOf(q)'
    BY <1>2, <1>3 DEF SeatsOf, AiSeat
  <2>2. CASE q # r
    <3>1. spoken'[q] = spoken[q] /\ MemberFds(q)' = MemberFds(q)
      BY <1>1, <1>2, <1>4, <2>2 DEF MemberFds
    <3> QED BY <1>2, <1>3, <2>1, <3>1 DEF RoundOf
  <2> QED BY <1>8, <2>1, <2>2
<1> QED BY <1>2, <1>9 DEF RoomInv, SeatsAreConsistent, RoundIsOpen, UnbornAreEmpty

(* Seats and rounds are kept in order by every step.                        *)
LEMMA SeatsStep ==
  ASSUME RoomInv, [Next]_vars
  PROVE  (SeatsAreConsistent /\ RoundIsOpen /\ UnbornAreEmpty)'
<1>1. ASSUME UNCHANGED <<rooms, members, spoken>>,
             nextRoomId' \in Nat, nextRoomId' >= nextRoomId
      PROVE  (SeatsAreConsistent /\ RoundIsOpen /\ UnbornAreEmpty)'
  <2>1. SeatsAreConsistent' /\ RoundIsOpen'
    BY <1>1 DEF RoomInv, SeatsAreConsistent, SeatsOf, RoundIsOpen, RoundOf,
                MemberFds, AiSeat
  <2>2. \A q \in RoomIds : q >= nextRoomId' => q >= nextRoomId
    BY <1>1 DEF RoomInv, RoomTypeOK, RoomIds
  <2> QED BY <1>1, <2>1, <2>2 DEF RoomInv, UnbornAreEmpty
<1>2. nextRoomId \in Nat
  BY DEF RoomInv, RoomTypeOK
<1>3. CASE UNCHANGED vars
  BY <1>1, <1>2, <1>3 DEF vars, setupVars, speechVars
<1>4. CASE HandleRoomTask
  <2>1. PICK t \in Tasks :
           \/ CreateFails(t) \/ Create(t)
           \/ JoinUnknown(t) \/ Rejoin(t) \/ JoinFull(t) \/ Join(t)
           \/ ChatNowhere(t) \/ ChatTooFast(t) \/ Chat(t)
           \/ List(t)
    BY <1>4 DEF HandleRoomTask
  <2>2. CASE CreateFails(t)
    BY <1>1, <1>2, <2>2 DEF CreateFails, JustReply, speechVars
  <2>3. CASE JoinUnknown(t) \/ Rejoin(t) \/ JoinFull(t) \/ ChatTooFast(t) \/ List(t)
    BY <1>1, <1>2, <2>3 DEF JoinUnknown, Rejoin, JoinFull, ChatTooFast, List,
       JustReply, speechVars
  <2>4. CASE ChatNowhere(t)
    BY <1>1, <1>2, <2>4 DEF ChatNowhere, setupVars, speechVars
  <2> QED BY <2>1, <2>2, <2>3, <2>4, CreateSeats, JoinSeats, ChatRound
<1>5. CASE \E c \in Conns : ReadCreate(c) \/ ReadJoin(c) \/ ReadChat(c) \/ ReadList(c)
  <2>1. UNCHANGED <<nextRoomId, rooms, members, spoken>>
    BY <1>5 DEF ReadCreate, ReadJoin, ReadChat, ReadList, PostRoomTask,
       setupVars, speechVars
  <2> QED BY <1>1, <1>2, <2>1
<1>6. CASE (\E fd \in Fds : Connect(fd)) \/ (\E c \in Conns : Leave(c))
  <2>1. UNCHANGED <<nextRoomId, rooms, members, spoken>>
    BY <1>6 DEF Connect, Leave, setupVars, speechVars
  <2> QED BY <1>1, <1>2, <2>1
<1>7. CASE AiReply \/ PostNext \/ Tick \/ \E k \in Reactors : Deliver(k)
  <2>1. UNCHANGED <<nextRoomId, rooms, members, spoken>>
    BY <1>7 DEF AiReply, PostNext, Tick, Deliver, setupVars, speechVars
  <2> QED BY <1>1, <1>2, <2>1
<1> QED BY <1>3, <1>4, <1>5, <1>6, <1>7 DEF Next

-----------------------------------------------------------------------------
(* Nobody has a seat at first.                                              *)
LEMMA InitInv == Init => RoomInv
<1> SUFFICES ASSUME Init PROVE RoomInv
  OBVIOUS
<1>1. RoomTypeOK
  BY RoomAssumption DEF Init, RoomTypeOK, Never
<1>2. HoldersHaveConnected /\ UnbornAreEmpty
  BY DEF Init, HoldersHaveConnected, UnbornAreEmpty, None
<1>3. SeatsAreConsistent /\ RoundIsOpen
  BY DEF Init, SeatsAreConsistent, SeatsOf, RoundIsOpen, RoundOf, NoPayload
<1> QED BY <1>1, <1>2, <1>3 DEF RoomInv

(* The inductive invariant holds in every state of the room server.         *)
THEOREM RoomInvariantHolds == Spec => []RoomInv
<1>1. RoomInv /\ [Next]_vars => RoomInv'
  BY TypeStep, HoldersStep, SeatsStep DEF RoomInv
<1> QED BY <1>1, InitInv, PTL DEF Spec

(* Types: every variable of RoomManager keeps its type, and no history      *)
(* grows beyond its cap.                                                    *)
THEOREM RoomTypeCorrect == Spec => []RoomTypeOK
<1>1. RoomInv => RoomTypeOK
  BY DEF RoomInv
<1> QED BY <1>1, RoomInvariantHolds, PTL

(* Seats: no seat of a room is given out twice and no AI's seat to one who  *)
(* joins, for every payload of CREATE and every order of requests.          *)
THEOREM SeatsAlwaysConsistent == Spec => []SeatsAreConsistent
<1>1. RoomInv => SeatsAreConsistent
  BY DEF RoomInv
<1> QED BY <1>1, RoomInvariantHolds, PTL

(* Rounds: whoever joins, speaks or is answered by the AI, a round of       *)
(* speaking is never left with every member in it, nor with a stranger.     *)
THEOREM RoundsStayOpen == Spec => []RoundIsOpen
<1>1. RoomInv => RoundIsOpen
  BY DEF RoomInv
<1> QED BY <1>1, RoomInvariantHolds, PTL

-----------------------------------------------------------------------------
(* Silence. *)

(* A step that says nothing and calls nobody.                               *)
LEMMA QuietSilence ==
  ASSUME RoomTypeOK, SilenceInv, UNCHANGED <<log, history, calling, members, rooms>>,
         nextRoomId' \in Nat, nextRoomId' >= nextRoomId
  PROVE  SilenceInv'
<1>1. \A q \in RoomIds : q >= nextRoomId' => q >= nextRoomId
  BY DEF RoomTypeOK, RoomIds
<1> QED BY <1>1 DEF SilenceInv, UnbornAreSilent, RoomsHaveBegun, Exists, CallingIsBorn

(* Room r grows by event e; nothing happens in the other rooms.             *)
GrowsBy(r, e) == log' = [log EXCEPT ![r] = Append(@, e)]

(* The log of before, and e.                                                *)
LEMMA Grown ==
  ASSUME RoomTypeOK, NEW r \in RoomIds, NEW e, GrowsBy(r, e)
  PROVE  /\ Len(log[r]) \in Nat
         /\ Len(log'[r]) = Len(log[r]) + 1
         /\ DOMAIN log[r] = 1 .. Len(log[r])
         /\ DOMAIN log'[r] = 1 .. Len(log[r]) + 1
         /\ log'[r][Len(log[r]) + 1] = e
         /\ \A i \in 1 .. Len(log[r]) : log'[r][i] = log[r][i]
         /\ \A q \in RoomIds \ {r} : log'[q] = log[q]
<1>1. log \in [RoomIds -> Seq(Events)] /\ log[r] \in Seq(Events)
  BY DEF RoomTypeOK
<1>2. log'[r] = Append(log[r], e) /\ \A q \in RoomIds \ {r} : log'[q] = log[q]
  BY <1>1 DEF GrowsBy
<1> HIDE DEF GrowsBy
<1> QED BY <1>1, <1>2

(* What has begun goes on.                                                  *)
LEMMA GrownBegun ==
  ASSUME RoomTypeOK, RoomsHaveBegun, NEW r \in RoomIds, NEW e, GrowsBy(r, e),
         UNCHANGED rooms
  PROVE  RoomsHaveBegun'
<1>1. log'[r] # <<>> /\ \A q \in RoomIds \ {r} : log'[q] = log[q]
  <2>1. Len(log'[r]) = Len(log[r]) + 1 /\ Len(log[r]) \in Nat
    BY Grown
  <2>2. Len(<<>>) = 0
    OBVIOUS
  <2> QED BY <2>1, <2>2, Grown
<1> QED BY <1>1 DEF RoomsHaveBegun, Exists

(* What Chat does, as the proofs use it: its room is named once.            *)
LEMMA ChatDoes ==
  ASSUME NEW t \in Tasks, Chat(t)
  PROVE  \E r \in RoomIds :
            LET mention  == MentionsAI(r, t.text)
                round    == IF mention THEN spoken[r] ELSE spoken[r] \cup {t.fromFd}
                complete == ~mention /\ AllRealPlayersSpoke(r, round)
                callAI   == /\ mention \/ complete \/ AiCooldownExpired(r)
                            /\ rooms[r].ai # <<>>
                n        == Len(log[r]) + 1
            IN
            /\ t.fromFd \in MemberFds(r)
            /\ history' = [history EXCEPT ![r] = Remembered(@, n)]
            /\ GrowsBy(r, [kind |-> "text", fd |-> t.fromFd, at |-> now,
                           mention |-> mention])
            /\ outgoing' = ToMembers(r, members[r], n)
            /\ spoken' = [spoken EXCEPT ![r] = RoundAfter(round, complete, callAI)]
            /\ lastAi' = IF callAI THEN [lastAi EXCEPT ![r] = now] ELSE lastAi
            /\ calling' = IF callAI THEN r ELSE NoRoom
            /\ UNCHANGED <<setupVars, heard>>
BY DEF Chat, GrowsBy

(* What grows a log: a text, somebody's joining, the AI. *)
LEMMA SilenceStep ==
  ASSUME RoomInv, SilenceInv, [Next]_vars
  PROVE  SilenceInv'
<1>0. RoomTypeOK /\ nextRoomId \in Nat \ {0} /\ UnbornAreEmpty
  BY DEF RoomInv, RoomTypeOK
<1>1. ASSUME UNCHANGED <<log, history, calling, members, rooms, nextRoomId>>
      PROVE  SilenceInv'
  BY <1>0, <1>1, QuietSilence
<1>2. CASE UNCHANGED vars
  BY <1>1, <1>2 DEF vars, setupVars, speechVars
<1>3. CASE \E c \in Conns : ReadCreate(c) \/ ReadJoin(c) \/ ReadChat(c) \/ ReadList(c)
  BY <1>1, <1>3 DEF ReadCreate, ReadJoin, ReadChat, ReadList, PostRoomTask,
     setupVars, speechVars
<1>4. CASE (\E fd \in Fds : Connect(fd)) \/ (\E c \in Conns : Leave(c))
  BY <1>1, <1>4 DEF Connect, Leave, setupVars, speechVars
<1>5. CASE PostNext \/ Tick \/ \E k \in Reactors : Deliver(k)
  BY <1>1, <1>5 DEF PostNext, Tick, Deliver, setupVars, speechVars
<1>6. CASE AiReply
  <2>1. PICK r \in RoomIds : r = calling /\ members[r] # <<>>
    BY <1>0, <1>6 DEF AiReply, RoomTypeOK, SilenceInv, CallingIsBorn
  <2>2. r < nextRoomId
    BY <1>0, <2>1 DEF UnbornAreEmpty, RoomIds
  <2>3. \A q \in RoomIds : q >= nextRoomId => log'[q] = log[q] /\ history'[q] = history[q]
    BY <1>0, <1>6, <2>1, <2>2 DEF AiReply, RoomTypeOK, RoomIds
  <2>4. nextRoomId' = nextRoomId /\ calling' = NoRoom
    BY <1>6 DEF AiReply, setupVars
  <2>5. RoomsHaveBegun'
    <3>1. /\ GrowsBy(r, [kind |-> "ai", fd |-> NoFd, at |-> now]) /\ rooms' = rooms
          /\ RoomsHaveBegun
      BY <1>6, <2>1 DEF AiReply, GrowsBy, setupVars, SilenceInv
    <3> QED BY <1>0, <3>1, GrownBegun
  <2> QED BY <2>3, <2>4, <2>5 DEF SilenceInv, UnbornAreSilent, CallingIsBorn
<1>7. CASE HandleRoomTask
  <2>1. PICK t \in Tasks :
           /\ TaskIs(t)
           /\ \/ CreateFails(t) \/ Create(t)
              \/ JoinUnknown(t) \/ Rejoin(t) \/ JoinFull(t) \/ Join(t)
              \/ ChatNowhere(t) \/ ChatTooFast(t) \/ Chat(t)
              \/ List(t)
    BY <1>7 DEF HandleRoomTask
  <2>0. calling = NoRoom
    BY <2>1 DEF TaskIs
  <2>2. CASE CreateFails(t)
    BY <1>0, <2>2, QuietSilence DEF CreateFails, JustReply, speechVars
  <2>3. CASE JoinUnknown(t) \/ Rejoin(t) \/ JoinFull(t) \/ ChatTooFast(t) \/ List(t)
    BY <1>1, <2>3 DEF JoinUnknown, Rejoin, JoinFull, ChatTooFast, List,
       JustReply, speechVars
  <2>4. CASE ChatNowhere(t)
    BY <1>1, <2>4 DEF ChatNowhere, setupVars, speechVars
  <2>5. CASE Create(t)
    <3>1. nextRoomId' = nextRoomId + 1 /\ calling' = NoRoom /\ history' = history
      BY <2>0, <2>5 DEF Create
    <3>2. \A q \in RoomIds : q >= nextRoomId + 1 => log'[q] = log[q]
      BY <1>0, <2>5 DEF Create, RoomTypeOK, RoomIds
    <3>3. \A q \in RoomIds : q >= nextRoomId + 1 => q >= nextRoomId
      BY <1>0 DEF RoomIds
    <3>4. RoomsHaveBegun'
      <4>1. PICK e : log' = [log EXCEPT ![nextRoomId] = <<e>>]
        BY <2>5 DEF Create
      <4>2. \A q \in RoomIds : IF q = nextRoomId THEN log'[q] = <<e>>
                                ELSE log'[q] = log[q] /\ rooms'[q] = rooms[q]
        BY <1>0, <2>5, <4>1 DEF Create, RoomTypeOK
      <4>3. <<e>> # <<>>
        OBVIOUS
      <4> QED BY <4>2, <4>3 DEF RoomsHaveBegun, SilenceInv, Exists
    <3> QED BY <3>1, <3>2, <3>3, <3>4 DEF SilenceInv, UnbornAreSilent, CallingIsBorn
  <2>6. CASE Join(t)
    <3>1. PICK r \in RoomIds : r = t.roomId
      BY <2>6 DEF Join, Tasks
    <3>2. r < nextRoomId
      BY <1>0, <2>6, <3>1 DEF Join, Exists, UnbornAreEmpty, RoomIds
    <3>3. \A q \in RoomIds : q >= nextRoomId => log'[q] = log[q]
      BY <1>0, <2>6, <3>1, <3>2 DEF Join, RoomTypeOK, RoomIds
    <3>4. UNCHANGED <<nextRoomId, history, calling>>
      BY <2>6 DEF Join, speechVars
    <3>5. RoomsHaveBegun'
      <4>1. /\ GrowsBy(r, [kind |-> "joined", fd |-> t.fromFd, at |-> now])
            /\ rooms' = rooms /\ RoomsHaveBegun
        BY <2>6, <3>1 DEF Join, GrowsBy, SilenceInv
      <4> QED BY <1>0, <4>1, GrownBegun
    <3> QED BY <2>0, <3>3, <3>4, <3>5 DEF SilenceInv, UnbornAreSilent, CallingIsBorn
  <2>7. CASE Chat(t)
    <3>1. PICK r \in RoomIds :
             /\ t.fromFd \in MemberFds(r)
             /\ history' = [history EXCEPT ![r] = Remembered(@, Len(log[r]) + 1)]
             /\ \E e : GrowsBy(r, e)
             /\ calling' \in {r, NoRoom}
             /\ UNCHANGED setupVars
      BY <2>7, ChatDoes
    <3>2. members[r] # <<>>
      BY <3>1 DEF MemberFds, Range
    <3>3. r < nextRoomId
      BY <1>0, <3>2 DEF UnbornAreEmpty, RoomIds
    <3>4. \A q \in RoomIds : q >= nextRoomId => log'[q] = log[q] /\ history'[q] = history[q]
      BY <1>0, <3>1, <3>3 DEF GrowsBy, RoomTypeOK, RoomIds
    <3>5. RoomsHaveBegun'
      <4>1. rooms' = rooms /\ RoomsHaveBegun
        BY <3>1 DEF setupVars, SilenceInv
      <4> QED BY <1>0, <3>1, <4>1, GrownBegun
    <3> QED BY <3>1, <3>2, <3>4, <3>5 DEF SilenceInv, UnbornAreSilent, CallingIsBorn, setupVars
  <2> QED BY <2>1, <2>2, <2>3, <2>4, <2>5, <2>6, <2>7
<1> QED BY <1>2, <1>3, <1>4, <1>5, <1>6, <1>7 DEF Next

-----------------------------------------------------------------------------
(* History. *)

(* addHistory keeps what is recent, whether or not the cap is reached.      *)
LEMMA RecentRemembered ==
  ASSUME NEW n \in Nat, NEW texts \in SUBSET (1 .. n), NEW h \in Seq(Nat),
         Recent(h, texts)
  PROVE  Recent(Remembered(h, n + 1), texts \cup {n + 1})
<1> DEFINE all == Append(h, n + 1)
           more == texts \cup {n + 1}
<1>1. HistoryCap \in Nat \ {0}
  BY RoomAssumption
<1>2. /\ IsFiniteSet(texts) /\ Cardinality(texts) \in Nat
      /\ Cardinality(more) = Cardinality(texts) + 1
  <2>1. IsFiniteSet(1 .. n)
    BY FS_Interval
  <2>2. IsFiniteSet(texts)
    BY <2>1, FS_Subset
  <2>3. n + 1 \notin texts
    OBVIOUS
  <2> QED BY <2>2, <2>3, FS_AddElement, FS_CardinalityType
<1>3. /\ Len(h) \in Nat /\ DOMAIN h = 1 .. Len(h)
      /\ Len(all) = Len(h) + 1 /\ DOMAIN all = 1 .. Len(h) + 1
      /\ all[Len(h) + 1] = n + 1
      /\ \A i \in 1 .. Len(h) : all[i] = h[i]
  OBVIOUS
<1>4. \A i \in 1 .. Len(h) : h[i] \in texts /\ h[i] \in Nat /\ h[i] < n + 1
  BY <1>3 DEF Recent, Range
<1>5. Range(all) = Range(h) \cup {n + 1}
  BY <1>3 DEF Range
<1>6. \A i, j \in DOMAIN all : i < j => all[i] < all[j]
  BY <1>3, <1>4 DEF Recent
<1>7. Range(h) \subseteq texts /\ (h # <<>> => \A i \in texts \ Range(h) : i < h[1])
  BY DEF Recent
<1>8. CASE Len(all) <= HistoryCap
  <2>1. Remembered(h, n + 1) = all
    BY <1>1, <1>3, <1>8 DEF Remembered
  <2>2. Len(h) = Cardinality(texts)
    BY <1>1, <1>2, <1>3, <1>8 DEF Recent
  <2>3. Len(all) = IF Cardinality(more) < HistoryCap THEN Cardinality(more) ELSE HistoryCap
    BY <1>1, <1>2, <1>3, <1>8, <2>2
  <2>4. \A i \in more \ Range(all) : i < all[1]
    <3>1. CASE h = <<>>
      <4>1. Cardinality(texts) = 0
        BY <2>2, <3>1
      <4>2. texts = {}
        BY <1>2, <4>1, FS_EmptySet
      <4> QED BY <1>5, <4>2
    <3>2. CASE h # <<>>
      <4>1. all[1] = h[1]
        BY <1>3, <3>2
      <4> QED BY <1>5, <1>7, <3>2, <4>1
    <3> QED BY <3>1, <3>2
  <2> QED BY <1>5, <1>6, <1>7, <2>1, <2>3, <2>4 DEF Recent
<1>9. CASE Len(all) > HistoryCap
  <2> DEFINE s == SubSeq(all, 2, Len(all))
  <2>1. Remembered(h, n + 1) = s
    BY <1>9 DEF Remembered
  <2>2. Len(h) = HistoryCap /\ Cardinality(texts) >= HistoryCap
    BY <1>1, <1>2, <1>3, <1>9 DEF Recent
  <2>3. /\ Len(s) = Len(h) /\ DOMAIN s = 1 .. Len(h)
        /\ \A i \in 1 .. Len(h) : s[i] = all[i + 1]
    BY <1>3
  <2> HIDE DEF s, all
  <2>4. Range(s) \subseteq more
    <3>1. \A i \in 1 .. Len(h) : i + 1 \in DOMAIN all
      BY <1>3
    <3>2. Range(s) \subseteq Range(all)
      BY <2>3, <3>1 DEF Range
    <3> QED BY <1>5, <1>7, <3>2
  <2>5. Len(s) = IF Cardinality(more) < HistoryCap THEN Cardinality(more) ELSE HistoryCap
    BY <1>1, <1>2, <2>2, <2>3
  <2>6. \A i, j \in DOMAIN s : i < j => s[i] < s[j]
    <3> SUFFICES ASSUME NEW i \in 1 .. Len(h), NEW j \in 1 .. Len(h), i < j
                 PROVE  s[i] < s[j]
      BY <2>3
    <3>1. i + 1 \in DOMAIN all /\ j + 1 \in DOMAIN all /\ i + 1 < j + 1
      BY <1>3
    <3> QED BY <1>6, <2>3, <3>1
  <2>7. \A x \in more \ Range(s) : x < s[1]
    <3> SUFFICES ASSUME NEW x \in more, x \notin Range(s)
                 PROVE  x < s[1]
      OBVIOUS
    <3>1. 1 \in 1 .. Len(h) /\ Len(h) \in 1 .. Len(h) /\ h # <<>>
      BY <1>1, <1>3, <2>2
    <3>2. s[1] = all[2] /\ all[1] < all[2] /\ all[1] = h[1]
      <4>1. s[1] = all[1 + 1] /\ all[1] = h[1]
        BY <1>3, <2>3, <3>1
      <4>2. 1 \in DOMAIN all /\ 2 \in DOMAIN all /\ 1 + 1 = 2
        BY <1>3, <3>1
      <4> QED BY <1>6, <4>1, <4>2
    <3>3. n + 1 \in Range(s)
      BY <1>3, <2>3, <3>1 DEF Range
    <3>4. x \in texts
      BY <3>3
    <3>5. CASE x \in Range(h)
      <4>1. PICK i \in 1 .. Len(h) : x = h[i]
        BY <1>3, <3>5 DEF Range
      <4>2. i = 1
        <5>1. i # 1 => i - 1 \in 1 .. Len(h) /\ s[i - 1] = all[i]
          BY <1>3, <2>3
        <5> QED BY <1>3, <2>3, <4>1, <5>1 DEF Range
      <4> QED BY <1>3, <3>2, <4>1, <4>2
    <3>6. CASE x \notin Range(h)
      <4>1. x < h[1]
        BY <1>7, <3>1, <3>4, <3>6
      <4>2. h[1] \in Nat /\ s[1] \in Nat /\ x \in Nat
        <5>1. all[2] \in Nat
          BY <1>3, <1>4, <3>1
        <5> QED BY <1>4, <3>1, <3>2, <3>4, <5>1
      <4> QED BY <3>2, <4>1, <4>2
    <3> QED BY <3>5, <3>6
  <2> QED BY <2>1, <2>4, <2>5, <2>6, <2>7 DEF Recent
<1> QED BY <1>3, <1>1, <1>8, <1>9

(* What was said stays said, and what comes later is not yet. *)
LEMMA GrownTexts ==
  ASSUME RoomTypeOK, NEW r \in RoomIds, NEW e, GrowsBy(r, e)
  PROVE  /\ TextsOf(r) \in SUBSET (1 .. Len(log[r]))
         /\ TextsOf(r)' = IF e.kind \in {"text", "ai"}
                          THEN TextsOf(r) \cup {Len(log[r]) + 1} ELSE TextsOf(r)
         /\ \A q \in RoomIds \ {r} : TextsOf(q)' = TextsOf(q)
<1>1. TextsOf(r) \in SUBSET (1 .. Len(log[r]))
  BY Grown DEF TextsOf
<1>2. \A q \in RoomIds \ {r} : TextsOf(q)' = TextsOf(q)
  <2>1. \A q \in RoomIds \ {r} : log'[q] = log[q]
    BY Grown
  <2> QED BY <2>1 DEF TextsOf
<1> DEFINE n == Len(log[r])
           T == {"text", "ai"}
<1>3. TextsOf(r)' = {i \in 1 .. n + 1 : log'[r][i].kind \in T}
  BY Grown DEF TextsOf
<1>4. TextsOf(r) = {i \in 1 .. n : log[r][i].kind \in T}
  BY Grown DEF TextsOf
<1>5. /\ n \in Nat /\ log'[r][n + 1] = e
      /\ \A i \in 1 .. n : log'[r][i] = log[r][i]
  BY Grown
<1>6. TextsOf(r)' = IF e.kind \in T THEN TextsOf(r) \cup {n + 1} ELSE TextsOf(r)
  <2> HIDE DEF n, T
  <2>1. 1 .. n + 1 = (1 .. n) \cup {n + 1} /\ n + 1 \notin 1 .. n
    BY <1>5
  <2>2. \A i : i \in TextsOf(r)' <=> (i \in 1 .. n /\ log[r][i].kind \in T)
                                    \/ (i = n + 1 /\ e.kind \in T)
    BY <1>3, <1>5, <2>1
  <2>3. \A i : i \in TextsOf(r) <=> (i \in 1 .. n /\ log[r][i].kind \in T)
    BY <1>4
  <2>4. CASE e.kind \in T
    <3>1. \A i : i \in TextsOf(r)' <=> i \in TextsOf(r) \cup {n + 1}
      BY <2>2, <2>3, <2>4
    <3> QED BY <2>4, <3>1
  <2>5. CASE e.kind \notin T
    BY <2>2, <2>3, <2>5
  <2> QED BY <2>4, <2>5
<1> QED BY <1>1, <1>2, <1>6

(* A text or an answer of the AI is added to the log and to the history.    *)
LEMMA SaidIsRecent ==
  ASSUME RoomTypeOK, HistoryIsRecent, NEW r \in RoomIds, NEW e, GrowsBy(r, e),
         e.kind \in {"text", "ai"},
         history' = [history EXCEPT ![r] = Remembered(@, Len(log[r]) + 1)]
  PROVE  HistoryIsRecent'
<1>1. history \in [RoomIds -> Seq(Nat)] /\ Len(log[r]) \in Nat
  BY Grown DEF RoomTypeOK
<1>2. history'[r] = Remembered(history[r], Len(log[r]) + 1)
  BY <1>1
<1>3. \A q \in RoomIds \ {r} : history'[q] = history[q]
  BY <1>1
<1>4. Recent(history[r], TextsOf(r))
  BY DEF HistoryIsRecent
<1>5. Recent(Remembered(history[r], Len(log[r]) + 1), TextsOf(r) \cup {Len(log[r]) + 1})
  BY <1>1, <1>4, GrownTexts, RecentRemembered
<1>6. \A q \in RoomIds : Recent(history'[q], TextsOf(q)')
  BY <1>2, <1>3, <1>5, GrownTexts DEF HistoryIsRecent
<1> QED BY <1>6 DEF HistoryIsRecent

(* What is said goes into the history, and nothing else does.               *)
LEMMA HistoryStep ==
  ASSUME RoomInv, SilenceInv, HistoryIsRecent, [Next]_vars
  PROVE  HistoryIsRecent'
<1>0. RoomTypeOK /\ nextRoomId \in Nat \ {0}
  BY DEF RoomInv, RoomTypeOK
<1>1. ASSUME UNCHANGED <<log, history>>
      PROVE  HistoryIsRecent'
  BY <1>1 DEF HistoryIsRecent, TextsOf
<1>2. CASE UNCHANGED vars
  BY <1>1, <1>2 DEF vars, speechVars
<1>3. CASE \E c \in Conns : ReadCreate(c) \/ ReadJoin(c) \/ ReadChat(c) \/ ReadList(c)
  BY <1>1, <1>3 DEF ReadCreate, ReadJoin, ReadChat, ReadList, PostRoomTask, speechVars
<1>4. CASE (\E fd \in Fds : Connect(fd)) \/ (\E c \in Conns : Leave(c))
  BY <1>1, <1>4 DEF Connect, Leave, speechVars
<1>5. CASE PostNext \/ Tick \/ \E k \in Reactors : Deliver(k)
  BY <1>1, <1>5 DEF PostNext, Tick, Deliver, speechVars
<1>6. CASE AiReply
  <2>1. PICK r \in RoomIds : r = calling
    BY <1>0, <1>6 DEF AiReply, RoomTypeOK
  <2>2. /\ GrowsBy(r, [kind |-> "ai", fd |-> NoFd, at |-> now])
        /\ history' = [history EXCEPT ![r] = Remembered(@, Len(log[r]) + 1)]
    BY <1>6, <2>1 DEF AiReply, GrowsBy
  <2> QED BY <1>0, <2>2, SaidIsRecent
<1>7. CASE HandleRoomTask
  <2>1. PICK t \in Tasks :
           \/ CreateFails(t) \/ Create(t)
           \/ JoinUnknown(t) \/ Rejoin(t) \/ JoinFull(t) \/ Join(t)
           \/ ChatNowhere(t) \/ ChatTooFast(t) \/ Chat(t)
           \/ List(t)
    BY <1>7 DEF HandleRoomTask
  <2>2. CASE CreateFails(t) \/ JoinUnknown(t) \/ Rejoin(t) \/ JoinFull(t)
             \/ ChatTooFast(t) \/ List(t)
    BY <1>1, <2>2 DEF CreateFails, JoinUnknown, Rejoin, JoinFull, ChatTooFast, List,
       JustReply, speechVars
  <2>3. CASE ChatNowhere(t)
    BY <1>1, <2>3 DEF ChatNowhere, speechVars
  <2>4. CASE Create(t)
    <3>1. PICK new \in Nat \ {0} : new = nextRoomId
      BY <1>0
    <3> DEFINE e == [kind |-> "created", at |-> now,
                     fd |-> IF ~Full(t.content.max, 0) THEN t.fromFd ELSE NoFd]
    <3>2. log' = [log EXCEPT ![new] = <<e>>] /\ e.kind = "created"
      BY <2>4, <3>1 DEF Create
    <3> HIDE DEF e
    <3>3. history' = history /\ log \in [RoomIds -> Seq(Events)]
      BY <1>0, <2>4 DEF Create, RoomTypeOK
    <3>4. ASSUME new \in RoomIds PROVE Recent(history'[new], TextsOf(new)')
      <4>1. history'[new] = <<>> /\ log'[new] = <<e>>
        BY <3>1, <3>2, <3>3, <3>4 DEF SilenceInv, UnbornAreSilent
      <4>2. log'[new][1] = e /\ DOMAIN log'[new] = {1}
        BY <4>1
      <4>3. TextsOf(new)' = {}
        BY <3>2, <4>2 DEF TextsOf
      <4>4. Recent(<<>>, {})
        BY RoomAssumption, FS_EmptySet DEF Recent, Range
      <4> QED BY <4>1, <4>3, <4>4
    <3>5. ASSUME NEW q \in RoomIds, q # new PROVE Recent(history'[q], TextsOf(q)')
      <4>1. log'[q] = log[q]
        BY <3>2, <3>3, <3>5
      <4>2. TextsOf(q)' = TextsOf(q)
        BY <4>1 DEF TextsOf
      <4> QED BY <3>3, <4>2 DEF HistoryIsRecent
    <3>6. \A q \in RoomIds : Recent(history'[q], TextsOf(q)')
      BY <3>4, <3>5
    <3> QED BY <3>6 DEF HistoryIsRecent
  <2>5. CASE Join(t)
    <3>1. PICK r \in RoomIds : r = t.roomId
      BY <2>5 DEF Join, Tasks
    <3>2. GrowsBy(r, [kind |-> "joined", fd |-> t.fromFd, at |-> now])
      BY <2>5, <3>1 DEF Join, GrowsBy
    <3>3. \A q \in RoomIds : TextsOf(q)' = TextsOf(q)
      BY <1>0, <3>2, GrownTexts
    <3>4. history' = history
      BY <2>5 DEF Join, speechVars
    <3>5. \A q \in RoomIds : Recent(history'[q], TextsOf(q)')
      BY <3>3, <3>4 DEF HistoryIsRecent
    <3> QED BY <3>5 DEF HistoryIsRecent
  <2>6. CASE Chat(t)
    <3>1. PICK r \in RoomIds :
             /\ history' = [history EXCEPT ![r] = Remembered(@, Len(log[r]) + 1)]
             /\ GrowsBy(r, [kind |-> "text", fd |-> t.fromFd, at |-> now,
                            mention |-> MentionsAI(r, t.text)])
      BY <2>6, ChatDoes
    <3> QED BY <1>0, <3>1, SaidIsRecent
  <2> QED BY <2>1, <2>2, <2>3, <2>4, <2>5, <2>6
<1> QED BY <1>2, <1>3, <1>4, <1>5, <1>6, <1>7 DEF Next

(* Nothing is said at first.                                                *)
LEMMA InitSilence == Init => SilenceInv /\ HistoryIsRecent
<1> SUFFICES ASSUME Init PROVE SilenceInv /\ HistoryIsRecent
  OBVIOUS
<1>1. SilenceInv
  BY DEF Init, SilenceInv, UnbornAreSilent, RoomsHaveBegun, Exists, CallingIsBorn
<1>2. Recent(<<>>, {})
  BY RoomAssumption, FS_EmptySet DEF Recent, Range
<1>3. \A r \in RoomIds : history[r] = <<>> /\ TextsOf(r) = {}
  BY DEF Init, TextsOf
<1> QED BY <1>1, <1>2, <1>3 DEF HistoryIsRecent

(* Silence: nothing is said or remembered in a room that is not there, and  *)
(* the AI is called only where there are members.                           *)
THEOREM SilenceHolds == Spec => []SilenceInv
<1>1. RoomInv /\ SilenceInv /\ [Next]_vars => SilenceInv'
  BY SilenceStep
<1> QED BY <1>1, InitSilence, RoomInvariantHolds, PTL DEF Spec

(* History: for every cap, whatever is said and whenever the AI answers,    *)
(* the history of a room is the newest of its texts, in their order, as     *)
(* many as the cap allows (addHistory).                                     *)
THEOREM HistoriesAreRecent == Spec => []HistoryIsRecent
<1>1. RoomInv /\ SilenceInv /\ HistoryIsRecent /\ [Next]_vars => HistoryIsRecent'
  BY HistoryStep
<1> QED BY <1>1, InitSilence, RoomInvariantHolds, SilenceHolds, PTL DEF Spec

-----------------------------------------------------------------------------
(* Queues: what becomes of the messages of one kind when queues are joined. *)

(* The index of each element of t moves up by the length of s. *)
LEMMA ConcatIndices ==
  ASSUME NEW S, NEW s \in Seq(S), NEW t \in Seq(S), NEW M
  PROVE  {i \in DOMAIN (s \o t) : (s \o t)[i] \in M}
            = {i \in DOMAIN s : s[i] \in M}
              \cup {j + Len(s) : j \in {i \in DOMAIN t : t[i] \in M}}
<1> DEFINE u == s \o t
           I(x) == {i \in DOMAIN x : x[i] \in M}
           J == {j + Len(s) : j \in I(t)}
<1>1. /\ Len(s) \in Nat /\ Len(t) \in Nat
      /\ DOMAIN s = 1 .. Len(s) /\ DOMAIN t = 1 .. Len(t)
  BY LenProperties
<1>2. /\ DOMAIN u = 1 .. Len(s) + Len(t)
      /\ \A i \in 1 .. Len(s) + Len(t) : u[i] = IF i <= Len(s) THEN s[i] ELSE t[i - Len(s)]
  BY ConcatProperties, LenProperties
<1> HIDE DEF u
<1>3. ASSUME NEW i, i \in I(u) PROVE i \in I(s) \cup J
  <2>1. i \in 1 .. Len(s) + Len(t) /\ u[i] \in M
    BY <1>2, <1>3
  <2>2. CASE i <= Len(s)
    BY <1>1, <1>2, <2>1, <2>2
  <2>3. CASE ~(i <= Len(s))
    <3>1. i - Len(s) \in 1 .. Len(t) /\ t[i - Len(s)] \in M /\ i = (i - Len(s)) + Len(s)
      BY <1>1, <1>2, <2>1, <2>3
    <3> QED BY <1>1, <3>1
  <2> QED BY <2>2, <2>3
<1>4. ASSUME NEW i, i \in I(s) PROVE i \in I(u)
  <2>1. i \in 1 .. Len(s) /\ i <= Len(s) /\ i \in 1 .. Len(s) + Len(t)
    BY <1>1, <1>4
  <2> QED BY <1>2, <1>4, <2>1
<1>5. ASSUME NEW i, i \in J PROVE i \in I(u)
  <2>1. PICK j \in I(t) : i = j + Len(s)
    BY <1>5
  <2>2. j \in 1 .. Len(t) /\ t[j] \in M
    BY <1>1, <2>1
  <2>3. i \in 1 .. Len(s) + Len(t) /\ ~(i <= Len(s)) /\ i - Len(s) = j
    BY <1>1, <2>1, <2>2
  <2> QED BY <1>2, <2>2, <2>3
<1>6. I(u) = I(s) \cup J
  BY <1>3, <1>4, <1>5
<1> QED BY <1>6 DEF u

(* A queue has a number of messages of each kind.                           *)
LEMMA FiniteCount ==
  ASSUME NEW S, NEW s \in Seq(S), NEW M
  PROVE  IsFiniteSet({i \in DOMAIN s : s[i] \in M}) /\ Count(s, M) \in Nat
<1>1. DOMAIN s = 1 .. Len(s) /\ Len(s) \in Nat
  BY LenProperties
<1>2. IsFiniteSet(1 .. Len(s))
  BY <1>1, FS_Interval
<1>3. IsFiniteSet({i \in DOMAIN s : s[i] \in M})
  BY <1>1, <1>2, FS_Subset
<1> QED BY <1>3, FS_CardinalityType DEF Count

(* Two queues joined have as many messages as both.                         *)
LEMMA CountConcat ==
  ASSUME NEW S, NEW s \in Seq(S), NEW t \in Seq(S), NEW M
  PROVE  Count(s \o t, M) = Count(s, M) + Count(t, M)
<1> DEFINE A == {i \in DOMAIN s : s[i] \in M}
           B == {i \in DOMAIN t : t[i] \in M}
           J == {j + Len(s) : j \in B}
           f == [j \in B |-> j + Len(s)]
<1>1. /\ Len(s) \in Nat /\ Len(t) \in Nat
      /\ DOMAIN s = 1 .. Len(s) /\ DOMAIN t = 1 .. Len(t)
  BY LenProperties
<1>2. IsFiniteSet(A) /\ IsFiniteSet(B)
  BY FiniteCount
<1>3. f \in Bijection(B, J)
  <2>1. \A j \in B : j \in Nat
    BY <1>1
  <2> HIDE DEF B
  <2>2. f \in Surjection(B, J)
    BY DEF Surjection
  <2>3. f \in Injection(B, J)
    BY <1>1, <2>1 DEF Injection, IsInjective
  <2> QED BY <2>2, <2>3 DEF Bijection
<1>4. IsFiniteSet(J) /\ Cardinality(J) = Cardinality(B)
  <2>1. ExistsBijection(B, J)
    BY <1>3 DEF ExistsBijection
  <2> QED BY <1>2, <2>1, FS_Bijection
<1>5. A \cap J = {}
  BY <1>1
<1>6. Cardinality(A \cup J) = Cardinality(A) + Cardinality(B)
  <2>1. Cardinality(A \cap J) = 0
    BY <1>5, FS_EmptySet
  <2>2. Cardinality(A) \in Nat /\ Cardinality(J) \in Nat
    BY <1>2, <1>4, FS_CardinalityType
  <2> HIDE DEF A, B, J
  <2>3. Cardinality(A \cup J) = Cardinality(A) + Cardinality(J) - Cardinality(A \cap J)
    BY <1>2, <1>4, FS_Union
  <2> QED BY <1>4, <2>1, <2>2, <2>3
<1>7. {i \in DOMAIN (s \o t) : (s \o t)[i] \in M} = A \cup J
  BY ConcatIndices
<1> QED BY <1>6, <1>7 DEF Count

(* Two queues joined have the numbers of both.                              *)
LEMMA NumbersConcat ==
  ASSUME NEW S, NEW s \in Seq(S), NEW t \in Seq(S), NEW M
  PROVE  Numbers(s \o t, M) = Numbers(s, M) \cup Numbers(t, M)
<1> DEFINE u == s \o t
           I(x) == {i \in DOMAIN x : x[i] \in M}
<1>1. Range(u) = Range(s) \cup Range(t)
  BY RangeConcatenation
<1>2. ASSUME NEW x PROVE Numbers(x, M) = {m.n : m \in Range(x) \cap M}
  BY DEF Numbers, Range
<1> HIDE DEF u
<1> QED BY <1>1, <1>2 DEF u

(* They rise if both do, and the second goes on above the first.            *)
LEMMA RisingConcat ==
  ASSUME NEW S, NEW s \in Seq(S), NEW t \in Seq(S), NEW M
  PROVE  Rising(s \o t, M) <=> /\ Rising(s, M) /\ Rising(t, M)
                               /\ \A x \in Numbers(s, M) : \A y \in Numbers(t, M) : x < y
<1> DEFINE u == s \o t
<1>1. /\ Len(s) \in Nat /\ Len(t) \in Nat
      /\ DOMAIN s = 1 .. Len(s) /\ DOMAIN t = 1 .. Len(t)
  BY LenProperties
<1>2. /\ DOMAIN u = 1 .. Len(s) + Len(t)
      /\ \A i \in 1 .. Len(s) + Len(t) : u[i] = IF i <= Len(s) THEN s[i] ELSE t[i - Len(s)]
  BY ConcatProperties, LenProperties
<1> HIDE DEF u
<1>3. \A i \in DOMAIN s : i \in DOMAIN u /\ u[i] = s[i]
  BY <1>1, <1>2
<1>4. \A j \in DOMAIN t : j + Len(s) \in DOMAIN u /\ u[j + Len(s)] = t[j]
  BY <1>1, <1>2
<1>5. \A i \in DOMAIN u : i \in DOMAIN s \/ \E j \in DOMAIN t : i = j + Len(s)
  <2>1. \A i \in DOMAIN u : i <= Len(s) => i \in DOMAIN s
    BY <1>1, <1>2
  <2>2. \A i \in DOMAIN u : ~(i <= Len(s)) => i - Len(s) \in DOMAIN t /\ i = (i - Len(s)) + Len(s)
    BY <1>1, <1>2
  <2> QED BY <2>1, <2>2
<1>6. ASSUME Rising(u, M)
      PROVE  /\ Rising(s, M) /\ Rising(t, M)
             /\ \A x \in Numbers(s, M) : \A y \in Numbers(t, M) : x < y
  <2>1. Rising(s, M)
    BY <1>3, <1>6 DEF Rising
  <2>2. \A i, j \in DOMAIN t : i < j => i + Len(s) < j + Len(s)
    BY <1>1
  <2>3. Rising(t, M)
    BY <1>4, <1>6, <2>2 DEF Rising
  <2>4. \A i \in DOMAIN s : \A j \in DOMAIN t : i < j + Len(s)
    BY <1>1
  <2>5. \A i \in DOMAIN s : \A j \in DOMAIN t : s[i] \in M /\ t[j] \in M => s[i].n < t[j].n
    BY <1>3, <1>4, <1>6, <2>4 DEF Rising
  <2> QED BY <2>1, <2>3, <2>5 DEF Numbers
<1>7. ASSUME Rising(s, M), Rising(t, M),
             \A x \in Numbers(s, M) : \A y \in Numbers(t, M) : x < y
      PROVE  Rising(u, M)
  <2>1. SUFFICES ASSUME NEW i \in DOMAIN u, NEW j \in DOMAIN u, i < j, u[i] \in M, u[j] \in M
                 PROVE  u[i].n < u[j].n
    BY DEF Rising
  <2>2. CASE i \in DOMAIN s /\ j \in DOMAIN s
    BY <1>3, <1>7, <2>1, <2>2 DEF Rising
  <2>3. CASE i \in DOMAIN s /\ \E b \in DOMAIN t : j = b + Len(s)
    <3>1. PICK b \in DOMAIN t : j = b + Len(s)
      BY <2>3
    <3>2. u[i].n \in Numbers(s, M) /\ u[j].n \in Numbers(t, M)
      BY <1>3, <1>4, <2>1, <2>3, <3>1 DEF Numbers
    <3> QED BY <1>7, <3>2
  <2>4. CASE (\E a \in DOMAIN t : i = a + Len(s)) /\ j \in DOMAIN s
    <3>1. PICK a \in DOMAIN t : i = a + Len(s)
      BY <2>4
    <3> QED BY <1>1, <2>1, <2>4, <3>1
  <2>5. CASE (\E a \in DOMAIN t : i = a + Len(s)) /\ \E b \in DOMAIN t : j = b + Len(s)
    <3>1. PICK a \in DOMAIN t, b \in DOMAIN t : i = a + Len(s) /\ j = b + Len(s)
      BY <2>5
    <3>2. a < b
      BY <1>1, <2>1, <3>1
    <3>3. u[i] = t[a] /\ u[j] = t[b]
      BY <1>4, <3>1
    <3> QED BY <1>7, <2>1, <3>2, <3>3 DEF Rising
  <2> QED BY <1>5, <2>2, <2>3, <2>4, <2>5
<1> QED BY <1>6, <1>7 DEF u

(* A queue of one message, and a queue without messages of the kind.        *)
LEMMA OneMessage ==
  ASSUME NEW e, NEW M
  PROVE  /\ Count(<<e>>, M) = IF e \in M THEN 1 ELSE 0
         /\ Numbers(<<e>>, M) = IF e \in M THEN {e.n} ELSE {}
         /\ Rising(<<e>>, M)
<1> DEFINE s == <<e>>
<1>1. DOMAIN s = {1} /\ s[1] = e
  OBVIOUS
<1> HIDE DEF s
<1>2. {i \in DOMAIN s : s[i] \in M} = IF e \in M THEN {1} ELSE {}
  BY <1>1
<1>3. Count(s, M) = IF e \in M THEN 1 ELSE 0
  BY <1>2, FS_EmptySet, FS_Singleton DEF Count
<1>4. Numbers(s, M) = IF e \in M THEN {e.n} ELSE {}
  BY <1>1, <1>2 DEF Numbers
<1>5. Rising(s, M)
  BY <1>1 DEF Rising
<1> QED BY <1>3, <1>4, <1>5 DEF s

(* A queue without messages of the kind.                                    *)
LEMMA NoMessage ==
  ASSUME NEW s, NEW M, Range(s) \cap M = {}
  PROVE  Count(s, M) = 0 /\ Numbers(s, M) = {} /\ Rising(s, M)
<1>1. \A i \in DOMAIN s : s[i] \notin M
  BY DEF Range
<1>2. {i \in DOMAIN s : s[i] \in M} = {}
  BY <1>1
<1>3. Rising(s, M)
  BY <1>1 DEF Rising
<1> QED BY <1>2, <1>3, FS_EmptySet DEF Count, Numbers

(* The head comes before the tail.                                          *)
LEMMA HeadFirst ==
  ASSUME NEW S, NEW s \in Seq(S), s # <<>>
  PROVE  s = <<Head(s)>> \o Tail(s) /\ Head(s) \in S /\ Tail(s) \in Seq(S)
<1>1. Head(s) \in S /\ Tail(s) \in Seq(S) /\ Len(Tail(s)) = Len(s) - 1
  BY HeadTailProperties
<1>2. Len(s) \in Nat \ {0}
  BY EmptySeq
<1>3. SubSeq(s, 1, Len(s)) = <<s[1]>> \o SubSeq(s, 2, Len(s))
  BY <1>2, SubSeqRecursiveFirst
<1>4. SubSeq(s, 1, Len(s)) = s
  BY SubSeqFull
<1>5. Tail(s) = SubSeq(s, 2, Len(s))
  BY TailIsSubSeq
<1>6. Head(s) = s[1]
  OBVIOUS
<1> QED BY <1>1, <1>3, <1>4, <1>5, <1>6

(* What is appended comes last.                                             *)
LEMMA AppendLast ==
  ASSUME NEW S, NEW s \in Seq(S), NEW e \in S
  PROVE  Append(s, e) = s \o <<e>> /\ <<e>> \in Seq(S)
<1>1. <<e>> \in Seq(S)
  OBVIOUS
<1> QED BY <1>1, AppendIsConcat

-----------------------------------------------------------------------------
(* Addresses. *)

(* What goes to clients.                                                    *)
Msgs == Replies \cup Broadcasts

(* All mail is messages.                                                    *)
LEMMA MailType ==
  ASSUME RoomTypeOK
  PROVE  /\ Mail \subseteq Msgs
         /\ outgoing \in Seq(Msgs) /\ Range(outgoing) \subseteq Msgs
         /\ \A k \in Reactors : /\ matchQueue[k] \in Seq(Msgs)
                                /\ Range(matchQueue[k]) \subseteq Msgs
<1>1. outgoing \in Seq(Msgs) /\ \A k \in Reactors : matchQueue[k] \in Seq(Msgs)
  BY DEF RoomTypeOK, Msgs
<1>2. \A s \in Seq(Msgs) : Range(s) \subseteq Msgs
  BY RangeOfSeq
<1> QED BY <1>1, <1>2 DEF Mail

(* A connection that is served has connected and holds its descriptor.      *)
LEMMA ServedIs ==
  ASSUME RoomTypeOK, HoldersHaveConnected, NEW c \in Served
  PROVE  /\ c \in Conns /\ connFd[c] \in Fds /\ holder[connFd[c]] = c
         /\ c <= accepted /\ c # None
BY DEF RoomTypeOK, HoldersHaveConnected, Served

(* The elements of a queue that grows, and of one that shrinks.             *)
LEMMA RangeChanges ==
  ASSUME NEW S, NEW s \in Seq(S)
  PROVE  /\ \A e \in S : Range(Append(s, e)) = Range(s) \cup {e}
         /\ s # <<>> => Range(s) = {Head(s)} \cup Range(Tail(s))
<1>1. ASSUME NEW e PROVE Range(<<e>>) = {e}
  BY DEF Range
<1>2. ASSUME NEW e \in S PROVE Range(Append(s, e)) = Range(s) \cup {e}
  <2>1. Append(s, e) = s \o <<e>> /\ <<e>> \in Seq(S)
    BY AppendLast
  <2>2. Range(s \o <<e>>) = Range(s) \cup Range(<<e>>)
    BY <2>1, RangeConcatenation
  <2> QED BY <1>1, <2>1, <2>2
<1>3. ASSUME s # <<>> PROVE Range(s) = {Head(s)} \cup Range(Tail(s))
  <2>1. s = <<Head(s)>> \o Tail(s) /\ Head(s) \in S /\ Tail(s) \in Seq(S)
    BY <1>3, HeadFirst
  <2>2. <<Head(s)>> \in Seq(S)
    BY <2>1
  <2>3. Range(<<Head(s)>> \o Tail(s)) = Range(<<Head(s)>>) \cup Range(Tail(s))
    BY <2>1, <2>2, RangeConcatenation
  <2> QED BY <1>1, <2>1, <2>3
<1> QED BY <1>2, <1>3

(* What every step but the arrival of a connection does to the addresses.   *)
LEMMA AddressFrame ==
  ASSUME RoomTypeOK, RoomTypeOK', AddressInv, accepted' = accepted, connFd' = connFd,
         \A r \in RoomIds : MemberFds(r) \subseteq MemberFds(r)',
         \A t \in Range(tasks)' : t \in Range(tasks) \/ connFd[t.user] = t.fromFd,
         \A m \in Mail' : m \in Mail \/ AddressFits(m)',
         \A c \in Conns : \A r \in RoomIds :
            heard'[c][r] # 0 => heard[c][r] # 0 \/ connFd[c] \in MemberFds(r)',
         \A c \in Conns : c > accepted => waiting'[c] = waiting[c]
  PROVE  AddressInv'
<1>1. ASSUME NEW m \in Mail PROVE AddressFits(m)'
  <2>1. m \in Msgs /\ AddressFits(m)
    BY MailType DEF AddressInv, MailFits
  <2>2. m.what = "event" => m.room \in RoomIds
    BY <2>1 DEF Msgs, Replies, Broadcasts, Answers
  <2> QED BY <2>1, <2>2 DEF AddressFits
<1>2. MailFits'
  BY <1>1 DEF MailFits
<1>3. TasksFit'
  BY DEF AddressInv, TasksFit
<1>4. HearersAreMembers'
  BY DEF AddressInv, HearersAreMembers
<1>5. NewcomersAreNew'
  <2>1. \A r \in RoomIds : NoFd \notin MemberFds(r)'
    <3>1. \A r \in RoomIds : members'[r] \in Seq(Members)
      BY DEF RoomTypeOK
    <3>2. \A r \in RoomIds : Range(members'[r]) \subseteq Members
      BY <3>1, RangeOfSeq
    <3> QED BY <3>2, RoomAssumption DEF MemberFds, Members
  <2> QED BY <2>1 DEF AddressInv, NewcomersAreNew
<1> QED BY <1>2, <1>3, <1>4, <1>5 DEF AddressInv

(* Who connects owes nothing to those who had the descriptor before.        *)
LEMMA ConnectAddress ==
  ASSUME RoomTypeOK, AddressInv, NEW fd \in Fds, Connect(fd)
  PROVE  AddressInv'
<1>1. PICK new \in Conns : new = accepted + 1
  BY RoomAssumption DEF RoomTypeOK, Connect, Conns
<1>2. /\ accepted' = new /\ connFd' = [connFd EXCEPT ![new] = fd]
      /\ UNCHANGED <<members, tasks, Mail, heard, waiting>>
  BY <1>1 DEF Connect, setupVars, Mail
<1>3. accepted \in Nat /\ connFd \in [Conns -> Fds \cup {NoFd}]
  BY RoomAssumption DEF RoomTypeOK
<1>4. connFd[new] = NoFd /\ \A c \in Conns : c > new => c > accepted
  BY <1>1, <1>3 DEF AddressInv, NewcomersAreNew, Conns
<1>5. \A c \in Conns : connFd[c] # NoFd => c # new /\ connFd'[c] = connFd[c]
  BY <1>2, <1>3, <1>4
<1>6. NewcomersAreNew'
  BY <1>2, <1>3, <1>4 DEF AddressInv, NewcomersAreNew, Conns
<1>7. TasksFit'
  <2>1. \A t \in Range(tasks) : t.user \in Conns /\ t.fromFd \in Fds
    <3>1. Range(tasks) \subseteq Tasks
      BY RangeOfSeq DEF RoomTypeOK
    <3> QED BY <3>1 DEF Tasks
  <2> QED BY <1>2, <1>5, <2>1, RoomAssumption DEF AddressInv, TasksFit
<1>8. MailFits'
  <2>1. ASSUME NEW m \in Mail PROVE AddressFits(m)'
    <3>1. m \in Msgs /\ AddressFits(m)
      BY MailType DEF AddressInv, MailFits
    <3>2. m.fd \in Fds
      BY <3>1 DEF Msgs, Replies, Broadcasts
    <3>3. CASE m.what = "event"
      <4>1. MemberFds(m.room)' = MemberFds(m.room)
        BY <1>2 DEF MemberFds
      <4> QED BY <3>1, <3>3, <4>1 DEF AddressFits
    <3>4. CASE m.what # "event"
      <4>1. PICK d \in Conns : connFd[d] = m.fd
        BY <3>1, <3>4 DEF AddressFits
      <4>2. connFd'[d] = m.fd
        BY <1>5, <3>2, <4>1, RoomAssumption
      <4> QED BY <3>4, <4>2 DEF AddressFits
    <3> QED BY <3>3, <3>4
  <2> QED BY <1>2, <2>1 DEF MailFits
<1>9. HearersAreMembers'
  <2>1. ASSUME NEW c \in Conns, NEW r \in RoomIds, heard[c][r] # 0
        PROVE  connFd'[c] \in MemberFds(r)'
    <3>1. c # new
      BY <1>1, <1>3, <2>1 DEF AddressInv, NewcomersAreNew, Conns
    <3>2. connFd'[c] = connFd[c] /\ MemberFds(r)' = MemberFds(r)
      BY <1>2, <1>3, <3>1 DEF MemberFds
    <3> QED BY <2>1, <3>2 DEF AddressInv, HearersAreMembers
  <2> QED BY <1>2, <2>1 DEF HearersAreMembers
<1> QED BY <1>6, <1>7, <1>8, <1>9 DEF AddressInv

(* A handler takes a task and has something to post.                        *)
LEMMA HandlerAddress ==
  ASSUME RoomTypeOK, RoomTypeOK', AddressInv, NEW t, TaskIs(t),
         UNCHANGED <<connVars, matchQueue, waiting>>,
         \A r \in RoomIds : MemberFds(r) \subseteq MemberFds(r)',
         \A m \in Range(outgoing)' : AddressFits(m)',
         \A c \in Conns : \A r \in RoomIds :
            heard'[c][r] # 0 => heard[c][r] # 0 \/ connFd[c] \in MemberFds(r)'
  PROVE  AddressInv'
<1>1. Range(tasks)' \subseteq Range(tasks)
  <2>1. tasks \in Seq(Tasks) /\ tasks # <<>> /\ tasks' = Tail(tasks)
    BY DEF RoomTypeOK, TaskIs
  <2> QED BY <2>1, RangeChanges
<1>2. \A m \in Mail' : m \in Mail \/ AddressFits(m)'
  BY DEF Mail
<1> QED BY <1>1, <1>2, AddressFrame DEF connVars

(* The one who asked has the descriptor its task names.                     *)
LEMMA AskerIs ==
  ASSUME RoomTypeOK, AddressInv, NEW t, TaskIs(t)
  PROVE  /\ t \in Tasks /\ t.user \in Conns /\ t.fromFd \in Fds
         /\ connFd[t.user] = t.fromFd
<1>1. tasks \in Seq(Tasks) /\ tasks # <<>> /\ t = Head(tasks)
  BY DEF RoomTypeOK, TaskIs
<1>2. t \in Range(tasks) /\ t \in Tasks
  BY <1>1, RangeChanges, HeadTailProperties
<1>3. connFd[t.user] = t.fromFd
  BY <1>2 DEF AddressInv, TasksFit
<1> QED BY <1>2, <1>3 DEF Tasks

(* The one who asked has been there.                                        *)
LEMMA ReplyFits ==
  ASSUME RoomTypeOK, AddressInv, NEW t, TaskIs(t), connFd' = connFd, NEW what, what # "event"
  PROVE  AddressFits(Reply(t.fromFd, what))'
<1>1. PICK d \in Conns : connFd[d] = t.fromFd
  BY AskerIs
<1> QED BY <1>1 DEF AddressFits, Reply

(* A broadcast is for members.                                              *)
LEMMA BroadcastFits ==
  ASSUME NEW r \in RoomIds, NEW n, NEW mems
  PROVE  \A m \in Range(ToMembers(r, mems, n)) :
            /\ m.what = "event" /\ m.room = r
            /\ m.fd \in {x.fd : x \in Range(mems)}
BY DEF ToMembers, Range

(* Who created the room has heard of it only if it is seated.               *)
LEMMA CreateAddress ==
  ASSUME RoomInv, RoomTypeOK', AddressInv, NEW t, TaskIs(t), Create(t),
         UNCHANGED <<connVars, matchQueue, waiting>>
  PROVE  AddressInv'
<1>0. RoomTypeOK /\ nextRoomId \in Nat \ {0} /\ UnbornAreEmpty
  BY DEF RoomInv, RoomTypeOK
<1>1. PICK new \in Nat \ {0} : new = nextRoomId
  BY <1>0
<1>2. connFd' = connFd /\ members \in [RoomIds -> Seq(Members)]
  BY <1>0 DEF connVars, RoomTypeOK
<1>3. \A r \in RoomIds : MemberFds(r) \subseteq MemberFds(r)'
  <2>1. \A r \in RoomIds \ {new} : members'[r] = members[r]
    BY <1>1, <1>2 DEF Create
  <2>2. new \in RoomIds => members[new] = <<>>
    BY <1>0, <1>1 DEF UnbornAreEmpty, RoomIds
  <2>3. new \in RoomIds => MemberFds(new) = {}
    BY <2>2 DEF MemberFds, Range
  <2> QED BY <2>1, <2>3 DEF MemberFds
<1>4. \A m \in Range(outgoing)' : AddressFits(m)'
  <2>1. outgoing' = <<Reply(t.fromFd, "created")>>
    BY DEF Create
  <2>2. Range(outgoing)' = {Reply(t.fromFd, "created")}
    BY <2>1 DEF Range
  <2>3. AddressFits(Reply(t.fromFd, "created"))'
    BY <1>0, <1>2, ReplyFits
  <2> QED BY <2>2, <2>3
<1>5. ASSUME NEW c \in Conns, NEW r \in RoomIds, heard'[c][r] # 0, heard[c][r] = 0
      PROVE  connFd[c] \in MemberFds(r)'
  <2>1. c = t.user /\ r = new /\ ~Full(t.content.max, 0)
    <3>1. heard \in [Conns -> [RoomIds -> Nat]]
      BY <1>0 DEF RoomTypeOK
    <3>2. heard' = IF ~Full(t.content.max, 0) THEN [heard EXCEPT ![t.user][new] = 1] ELSE heard
      BY <1>1 DEF Create
    <3> QED BY <1>5, <3>1, <3>2
  <2>2. members'[r] = <<[fd |-> t.fromFd, role |-> 1]>>
    BY <1>1, <1>2, <2>1 DEF Create
  <2>3. t.fromFd \in MemberFds(r)'
    BY <2>2 DEF MemberFds, Range
  <2> QED BY <1>0, <2>1, <2>3, AskerIs
<1> QED BY <1>0, <1>3, <1>4, <1>5, HandlerAddress

(* Who joins: the members of before and the one who asked.                  *)
LEMMA Joined ==
  ASSUME RoomTypeOK, NEW t \in Tasks, Join(t)
  PROVE  /\ t.roomId \in RoomIds
         /\ MemberFds(t.roomId)' = MemberFds(t.roomId) \cup {t.fromFd}
         /\ \A r \in RoomIds \ {t.roomId} : MemberFds(r)' = MemberFds(r)
<1>1. t.roomId \in RoomIds /\ members \in [RoomIds -> Seq(Members)]
  BY DEF Join, Tasks, RoomTypeOK
<1>2. PICK r \in RoomIds : r = t.roomId
  BY <1>1
<1>3. PICK seat : members' = [members EXCEPT ![r] = Append(@, [fd |-> t.fromFd, role |-> seat])]
  BY <1>2 DEF Join
<1>4. members'[r] = Append(members[r], [fd |-> t.fromFd, role |-> seat])
  BY <1>1, <1>3
<1>5. \A q \in RoomIds \ {r} : members'[q] = members[q]
  BY <1>1, <1>3
<1>6. Range(members'[r]) = Range(members[r]) \cup {[fd |-> t.fromFd, role |-> seat]}
  <2> DEFINE x == [fd |-> t.fromFd, role |-> seat]
             n == Len(members[r])
  <2>1. /\ n \in Nat /\ DOMAIN members[r] = 1 .. n
        /\ DOMAIN members'[r] = 1 .. n + 1
        /\ members'[r][n + 1] = x
        /\ \A i \in 1 .. n : members'[r][i] = members[r][i]
    BY <1>1, <1>4
  <2> HIDE DEF x, n
  <2>2. 1 .. n + 1 = (1 .. n) \cup {n + 1}
    BY <2>1
  <2>3. Range(members'[r]) = Range(members[r]) \cup {x}
    BY <2>1, <2>2 DEF Range
  <2> QED BY <2>3 DEF x
<1>7. MemberFds(r)' = MemberFds(r) \cup {t.fromFd}
  <2> DEFINE x == [fd |-> t.fromFd, role |-> seat]
  <2>1. x.fd = t.fromFd /\ Range(members'[r]) = Range(members[r]) \cup {x}
    BY <1>6
  <2> HIDE DEF x
  <2> QED BY <2>1 DEF MemberFds
<1> QED BY <1>1, <1>2, <1>5, <1>7 DEF MemberFds

(* Who joins is told as a member.                                           *)
LEMMA JoinAddress ==
  ASSUME RoomInv, RoomTypeOK', AddressInv, NEW t, TaskIs(t), Join(t),
         UNCHANGED <<connVars, matchQueue, waiting>>
  PROVE  AddressInv'
<1>0. RoomTypeOK
  BY DEF RoomInv
<1>1. t \in Tasks /\ t.user \in Conns /\ connFd[t.user] = t.fromFd
  BY <1>0, AskerIs
<1>2. PICK r \in RoomIds : r = t.roomId
  BY <1>0, <1>1, Joined
<1>3. /\ MemberFds(r)' = MemberFds(r) \cup {t.fromFd}
      /\ \A q \in RoomIds \ {r} : MemberFds(q)' = MemberFds(q)
  BY <1>0, <1>1, <1>2, Joined
<1>4. \A m \in Range(outgoing)' : AddressFits(m)'
  <2> DEFINE s == ToMembers(r, members'[r], Len(log'[r]))
  <2>1. outgoing' = Append(s, Reply(t.fromFd, "joined"))
    BY <1>2 DEF Join, Greeted
  <2>2. s \in Seq(Msgs) /\ Reply(t.fromFd, "joined") \in Msgs
    <3>1. members'[r] \in Seq(Members) /\ Len(log'[r]) \in Nat
      BY DEF RoomTypeOK
    <3>2. s \in Seq(Msgs)
      BY <3>1, ToMembersType DEF Msgs
    <3>3. t.fromFd \in Fds
      BY <1>1 DEF Tasks
    <3> QED BY <3>2, <3>3 DEF Reply, Replies, Answers, Msgs
  <2>3. Range(outgoing)' = Range(s) \cup {Reply(t.fromFd, "joined")}
    BY <2>1, <2>2, RangeChanges
  <2>4. \A m \in Range(s) : AddressFits(m)'
    <3>1. \A m \in Range(s) : m.what = "event" /\ m.room = r /\ m.fd \in MemberFds(r)'
      BY BroadcastFits DEF MemberFds
    <3> HIDE DEF s
    <3> QED BY <3>1 DEF AddressFits
  <2>5. AddressFits(Reply(t.fromFd, "joined"))'
    BY <1>0, ReplyFits DEF connVars
  <2> QED BY <2>3, <2>4, <2>5
<1>5. ASSUME NEW c \in Conns, NEW q \in RoomIds, heard'[c][q] # 0, heard[c][q] = 0
      PROVE  connFd[c] \in MemberFds(q)'
  <2>1. c = t.user /\ q = r
    <3>1. heard \in [Conns -> [RoomIds -> Nat]]
      BY <1>0 DEF RoomTypeOK
    <3>2. heard' = [heard EXCEPT ![t.user][r] = Len(log[r])]
      BY <1>2 DEF Join
    <3> QED BY <1>5, <3>1, <3>2
  <2> QED BY <1>1, <1>3, <2>1
<1> QED BY <1>0, <1>3, <1>4, <1>5, HandlerAddress

(* A text goes to members.                                                  *)
LEMMA ChatAddress ==
  ASSUME RoomInv, RoomTypeOK', AddressInv, NEW t, TaskIs(t), Chat(t),
         UNCHANGED <<connVars, matchQueue, waiting>>
  PROVE  AddressInv'
<1>0. RoomTypeOK
  BY DEF RoomInv
<1>1. t \in Tasks
  BY <1>0, AskerIs
<1>2. PICK r \in RoomIds : /\ outgoing' = ToMembers(r, members[r], Len(log[r]) + 1)
                           /\ UNCHANGED <<setupVars, heard>>
  BY <1>1, ChatDoes
<1>3. members' = members /\ heard' = heard
  BY <1>2 DEF setupVars
<1>4. \A m \in Range(outgoing)' : AddressFits(m)'
  <2>1. \A m \in Range(outgoing)' : m.what = "event" /\ m.room = r /\ m.fd \in MemberFds(r)'
    BY <1>2, <1>3, BroadcastFits DEF MemberFds
  <2> QED BY <2>1 DEF AddressFits
<1>5. \A q \in RoomIds : MemberFds(q) \subseteq MemberFds(q)'
  BY <1>3 DEF MemberFds
<1> QED BY <1>0, <1>3, <1>4, <1>5, HandlerAddress

(* Addresses stay right in every step.                                      *)
LEMMA AddressStep ==
  ASSUME RoomInv, RoomTypeOK', AddressInv, [Next]_vars
  PROVE  AddressInv'
<1>0. RoomTypeOK /\ HoldersHaveConnected
  BY DEF RoomInv
<1>1. ASSUME UNCHANGED <<accepted, connFd, members, heard>>,
             \A t \in Range(tasks)' : t \in Range(tasks) \/ connFd[t.user] = t.fromFd,
             \A m \in Mail' : m \in Mail \/ AddressFits(m)',
             \A c \in Conns : c > accepted => waiting'[c] = waiting[c]
      PROVE  AddressInv'
  <2>1. \A r \in RoomIds : MemberFds(r)' = MemberFds(r)
    BY <1>1 DEF MemberFds
  <2> QED BY <1>0, <1>1, <2>1, AddressFrame
<1>2. ASSUME UNCHANGED <<accepted, connFd, members, heard, tasks, outgoing, matchQueue, waiting>>
      PROVE  AddressInv'
  BY <1>1, <1>2 DEF Mail
<1>3. CASE UNCHANGED vars
  BY <1>2, <1>3 DEF vars, connVars, setupVars
<1>4. CASE (\E c \in Conns : Leave(c)) \/ Tick
  BY <1>2, <1>4 DEF Leave, Tick, connVars, setupVars
<1>5. CASE \E fd \in Fds : Connect(fd)
  BY <1>0, <1>5, ConnectAddress
<1>6. ASSUME NEW c \in Conns, NEW task \in Tasks, PostRoomTask(c, task),
             task.user = c, task.fromFd = connFd[c]
      PROVE  AddressInv'
  <2>1. c <= accepted
    BY <1>0, <1>6, ServedIs DEF PostRoomTask
  <2>2. \A d \in Conns : d > accepted => waiting'[d] = waiting[d]
    <3>1. accepted \in Nat /\ waiting \in [Conns -> Int]
      BY <1>0 DEF RoomTypeOK
    <3> QED BY <1>6, <2>1, <3>1 DEF PostRoomTask, Conns
  <2>3. Range(tasks)' = Range(tasks) \cup {task}
    <3>1. tasks \in Seq(Tasks) /\ tasks' = Append(tasks, task)
      BY <1>0, <1>6 DEF RoomTypeOK, PostRoomTask
    <3> QED BY <3>1, RangeChanges
  <2> QED BY <1>1, <1>6, <2>2, <2>3 DEF PostRoomTask, connVars, setupVars, Mail
<1>7. CASE AiReply
  <2>1. PICK r \in RoomIds : r = calling
    BY <1>0, <1>7 DEF AiReply, RoomTypeOK
  <2>2. outgoing' = ToMembers(r, members[r], Len(log[r]) + 1) /\ members' = members
    BY <1>7, <2>1 DEF AiReply, setupVars
  <2>3. \A m \in Range(outgoing)' : m.what = "event" /\ m.room = r /\ m.fd \in MemberFds(r)'
    BY <2>2, BroadcastFits DEF MemberFds
  <2>4. \A m \in Mail' : m \in Mail \/ AddressFits(m)'
    BY <1>7, <2>3 DEF Mail, AddressFits, AiReply
  <2> QED BY <1>1, <1>7, <2>4 DEF AiReply, connVars, setupVars
<1>8. CASE PostNext
  <2> DEFINE m == Head(outgoing)
  <2>1. Range(outgoing) = {m} \cup Range(outgoing)' /\ m \in Msgs
    <3>1. outgoing \in Seq(Msgs) /\ outgoing # <<>> /\ outgoing' = Tail(outgoing)
      BY <1>0, <1>8, MailType DEF PostNext
    <3> QED BY <3>1, RangeChanges, HeadTailProperties
  <2>2. \A k \in Reactors : Range(matchQueue'[k]) \subseteq Range(matchQueue[k]) \cup {m}
    <3>1. ASSUME NEW k \in Reactors PROVE matchQueue'[k] \in {matchQueue[k], Append(matchQueue[k], m)}
      BY <1>0, <1>8 DEF PostNext, RoomTypeOK
    <3>2. ASSUME NEW k \in Reactors PROVE Range(Append(matchQueue[k], m)) = Range(matchQueue[k]) \cup {m}
      BY <1>0, <2>1, MailType, RangeChanges
    <3> QED BY <3>1, <3>2
  <2>3. Mail' \subseteq Mail
    BY <2>1, <2>2 DEF Mail
  <2> QED BY <1>1, <1>8, <2>3 DEF PostNext, connVars, setupVars
<1>9. ASSUME NEW k \in Reactors, Deliver(k)
      PROVE  AddressInv'
  <2> DEFINE m == Head(matchQueue[k])
  <2>1. \A j \in Reactors : Range(matchQueue'[j]) \subseteq Range(matchQueue[j])
    <3>1. matchQueue[k] \in Seq(Msgs) /\ matchQueue[k] # <<>>
      BY <1>0, <1>9, MailType DEF Deliver
    <3>2. Range(Tail(matchQueue[k])) \subseteq Range(matchQueue[k])
      BY <3>1, RangeChanges
    <3>3. \A j \in Reactors : matchQueue'[j] = IF j = k THEN Tail(matchQueue[k]) ELSE matchQueue[j]
      BY <1>0, <1>9 DEF Deliver, RoomTypeOK
    <3> QED BY <3>2, <3>3
  <2>2. Mail' \subseteq Mail
    BY <1>9, <2>1 DEF Mail, Deliver
  <2>3. m \in Msgs
    BY <1>0, <1>9, MailType, HeadTailProperties DEF Deliver
  <2>4. m.fd \in Fds
    BY <2>3 DEF Msgs, Replies, Broadcasts
  <2> HIDE DEF m
  <2>5. holder[m.fd] \in Conns => holder[m.fd] <= accepted
    BY <1>0, <2>4 DEF HoldersHaveConnected, Conns, None
  <2>6. \A c \in Conns : c > accepted => waiting'[c] = waiting[c]
    <3>1. accepted \in Nat /\ waiting \in [Conns -> Int]
      BY <1>0 DEF RoomTypeOK
    <3>2. waiting' = waiting \/ waiting' = [waiting EXCEPT ![holder[m.fd]] = @ - 1]
      BY <1>9 DEF Deliver, m
    <3>3. \A c \in Conns : c > accepted => c # holder[m.fd]
      BY <2>5, <3>1 DEF Conns
    <3> QED BY <3>1, <3>2, <3>3
  <2>7. \A c \in Conns : \A r \in RoomIds : heard'[c][r] # 0 => heard[c][r] # 0
    <3>1. heard \in [Conns -> [RoomIds -> Nat]]
      BY <1>0 DEF RoomTypeOK
    <3>2. \/ heard' = heard
          \/ /\ heard[holder[m.fd]][m.room] # 0
             /\ heard' = [heard EXCEPT ![holder[m.fd]][m.room] = m.n]
      BY <1>9 DEF Deliver, m
    <3> QED BY <3>1, <3>2
  <2>8. /\ UNCHANGED <<accepted, connFd, tasks, members>>
        /\ \A r \in RoomIds : MemberFds(r)' = MemberFds(r)
    BY <1>9 DEF Deliver, connVars, setupVars, MemberFds
  <2> QED BY <1>0, <2>2, <2>6, <2>7, <2>8, AddressFrame
<1>10. CASE HandleRoomTask
  <2>1. PICK t \in Tasks :
           /\ TaskIs(t)
           /\ \/ CreateFails(t) \/ Create(t)
              \/ JoinUnknown(t) \/ Rejoin(t) \/ JoinFull(t) \/ Join(t)
              \/ ChatNowhere(t) \/ ChatTooFast(t) \/ Chat(t)
              \/ List(t)
           /\ UNCHANGED <<connVars, matchQueue, waiting>>
    BY <1>10 DEF HandleRoomTask
  <2>2. ASSUME UNCHANGED <<members, heard>>, \A m \in Range(outgoing)' : AddressFits(m)'
        PROVE  AddressInv'
    <3>1. \A r \in RoomIds : MemberFds(r)' = MemberFds(r)
      BY <2>2 DEF MemberFds
    <3> QED BY <1>0, <2>1, <2>2, <3>1, HandlerAddress
  <2>3. ASSUME NEW what \in Answers \cup {"tooFast"}, JustReply(t, what) PROVE AddressInv'
    <3>1. Range(outgoing)' = {Reply(t.fromFd, what)}
      BY <2>3 DEF JustReply, Range
    <3>2. AddressFits(Reply(t.fromFd, what))'
      BY <1>0, <2>1, ReplyFits DEF Answers, connVars
    <3> QED BY <2>2, <2>3, <3>1, <3>2 DEF JustReply
  <2>4. CASE CreateFails(t) \/ JoinUnknown(t) \/ Rejoin(t) \/ JoinFull(t)
             \/ ChatTooFast(t) \/ List(t)
    BY <2>3, <2>4 DEF CreateFails, JoinUnknown, Rejoin, JoinFull, ChatTooFast, List, Answers
  <2>5. CASE ChatNowhere(t)
    <3>1. Range(outgoing)' = {}
      BY <2>1, <2>5 DEF ChatNowhere, TaskIs, Range
    <3> QED BY <2>2, <2>5, <3>1 DEF ChatNowhere, setupVars
  <2> QED BY <2>1, <2>4, <2>5, CreateAddress, JoinAddress, ChatAddress
<1>11. CASE \E c \in Conns : ReadCreate(c) \/ ReadJoin(c) \/ ReadChat(c) \/ ReadList(c)
  <2>1. PICK c \in Conns : ReadCreate(c) \/ ReadJoin(c) \/ ReadChat(c) \/ ReadList(c)
    BY <1>11
  <2>2. connFd[c] \in Fds
    <3>1. c \in Served
      BY <2>1 DEF ReadCreate, ReadJoin, ReadChat, ReadList, PostRoomTask
    <3> QED BY <1>0, <3>1, ServedIs
  <2>3. CASE ReadCreate(c)
    <3>1. PICK p \in Payloads :
             PostRoomTask(c, [type |-> "create", fromFd |-> connFd[c], user |-> c, content |-> p])
      BY <2>3 DEF ReadCreate
    <3>2. [type |-> "create", fromFd |-> connFd[c], user |-> c, content |-> p] \in Tasks
      BY <2>2 DEF Tasks
    <3> QED BY <1>6, <3>1, <3>2
  <2>4. CASE ReadJoin(c)
    <3>1. PICK r \in RoomIds :
             PostRoomTask(c, [type |-> "join", fromFd |-> connFd[c], user |-> c, roomId |-> r])
      BY <2>4 DEF ReadJoin
    <3>2. [type |-> "join", fromFd |-> connFd[c], user |-> c, roomId |-> r] \in Tasks
      BY <2>2 DEF Tasks
    <3> QED BY <1>6, <3>1, <3>2
  <2>5. CASE ReadChat(c)
    <3>1. PICK text \in Texts :
             PostRoomTask(c, [type |-> "chat", fromFd |-> connFd[c], user |-> c, text |-> text])
      BY <2>5 DEF ReadChat
    <3>2. [type |-> "chat", fromFd |-> connFd[c], user |-> c, text |-> text] \in Tasks
      BY <2>2 DEF Tasks
    <3> QED BY <1>6, <3>1, <3>2
  <2>6. CASE ReadList(c)
    <3>1. [type |-> "list", fromFd |-> connFd[c], user |-> c] \in Tasks
      BY <2>2 DEF Tasks
    <3> QED BY <1>6, <2>6, <3>1 DEF ReadList
  <2> QED BY <2>1, <2>3, <2>4, <2>5, <2>6
<1> QED BY <1>3, <1>4, <1>5, <1>7, <1>8, <1>9, <1>10, <1>11 DEF Next

-----------------------------------------------------------------------------
(* What is on its way. *)

(* What is on its way to a connection is mail.                              *)
LEMMA WayType ==
  ASSUME RoomTypeOK, NEW c \in Conns
  PROVE  /\ Owner(c) \in Reactors /\ matchQueue[Owner(c)] \in Seq(Msgs)
         /\ outgoing \in Seq(Msgs) /\ OnTheWay(c) \in Seq(Msgs)
         /\ Range(OnTheWay(c)) \subseteq Mail
<1>1. Owner(c) \in Reactors /\ matchQueue[Owner(c)] \in Seq(Msgs) /\ outgoing \in Seq(Msgs)
  BY OwnerType, MailType
<1>2. OnTheWay(c) \in Seq(Msgs)
  BY <1>1, ConcatProperties DEF OnTheWay
<1>3. Range(OnTheWay(c)) = Range(matchQueue[Owner(c)]) \cup Range(outgoing)
  BY <1>1, RangeConcatenation DEF OnTheWay
<1> QED BY <1>1, <1>2, <1>3 DEF Mail

(* A handler posts behind what is on its way.                               *)
LEMMA HandlerWay ==
  ASSUME RoomTypeOK, RoomTypeOK', NEW c \in Conns, NEW M,
         outgoing = <<>>, matchQueue' = matchQueue
  PROVE  /\ Numbers(OnTheWay(c)', M) = Numbers(OnTheWay(c), M) \cup Numbers(outgoing', M)
         /\ Count(OnTheWay(c)', M) = Count(OnTheWay(c), M) + Count(outgoing', M)
         /\ Rising(OnTheWay(c)', M) <=>
               /\ Rising(OnTheWay(c), M) /\ Rising(outgoing', M)
               /\ \A x \in Numbers(OnTheWay(c), M) : \A y \in Numbers(outgoing', M) : x < y
<1>1. PICK q \in Seq(Msgs) : q = matchQueue[Owner(c)]
  BY WayType
<1>2. PICK s \in Seq(Msgs) : s = outgoing'
  BY DEF RoomTypeOK, Msgs
<1>3. OnTheWay(c) = q
  <2>1. OnTheWay(c) = q \o <<>>
    BY <1>1 DEF OnTheWay
  <2> QED BY <2>1, ConcatEmptySeq
<1>4. OnTheWay(c)' = q \o s
  BY <1>1, <1>2 DEF OnTheWay
<1>5. /\ Numbers(q \o s, M) = Numbers(q, M) \cup Numbers(s, M)
      /\ Count(q \o s, M) = Count(q, M) + Count(s, M)
      /\ Rising(q \o s, M) <=> /\ Rising(q, M) /\ Rising(s, M)
                               /\ \A x \in Numbers(q, M) : \A y \in Numbers(s, M) : x < y
  BY NumbersConcat, CountConcat, RisingConcat
<1> QED BY <1>2, <1>3, <1>4, <1>5

(* A message in front of the others, or none of the kind.                   *)
LEMMA InFront ==
  ASSUME NEW S, NEW m \in S, NEW s \in Seq(S), NEW M
  PROVE  /\ Numbers(<<m>> \o s, M) = (IF m \in M THEN {m.n} ELSE {}) \cup Numbers(s, M)
         /\ Count(<<m>> \o s, M) = (IF m \in M THEN 1 ELSE 0) + Count(s, M)
         /\ Rising(<<m>> \o s, M) <=>
               Rising(s, M) /\ (m \in M => \A y \in Numbers(s, M) : m.n < y)
<1> DEFINE one == <<m>>
<1>1. one \in Seq(S)
  OBVIOUS
<1>2. /\ Numbers(one, M) = (IF m \in M THEN {m.n} ELSE {})
      /\ Count(one, M) = (IF m \in M THEN 1 ELSE 0)
      /\ Rising(one, M)
  BY OneMessage
<1> HIDE DEF one
<1>3. /\ Numbers(one \o s, M) = Numbers(one, M) \cup Numbers(s, M)
      /\ Count(one \o s, M) = Count(one, M) + Count(s, M)
      /\ Rising(one \o s, M) <=>
            /\ Rising(one, M) /\ Rising(s, M)
            /\ \A x \in Numbers(one, M) : \A y \in Numbers(s, M) : x < y
  BY <1>1, NumbersConcat, CountConcat, RisingConcat
<1>4. \A x : x \in Numbers(one, M) <=> m \in M /\ x = m.n
  BY <1>2
<1>5. Rising(one \o s, M) <=>
         Rising(s, M) /\ (m \in M => \A y \in Numbers(s, M) : m.n < y)
  BY <1>2, <1>3, <1>4
<1>6. Numbers(one \o s, M) = (IF m \in M THEN {m.n} ELSE {}) \cup Numbers(s, M)
  BY <1>2, <1>3
<1>7. Count(one \o s, M) = (IF m \in M THEN 1 ELSE 0) + Count(s, M)
  BY <1>2, <1>3
<1> QED BY <1>5, <1>6, <1>7 DEF one

(* What sendMsgToClient posts goes on being on its way to those it is for;  *)
(* nobody else is sent it.                                                  *)
LEMMA PostWay ==
  ASSUME RoomTypeOK, HoldersHaveConnected, NEW c \in Served, PostNext,
         NEW M, \A m \in M : m.fd = connFd[c]
  PROVE  /\ Numbers(OnTheWay(c)', M) = Numbers(OnTheWay(c), M)
         /\ Count(OnTheWay(c)', M) = Count(OnTheWay(c), M)
         /\ Rising(OnTheWay(c), M) => Rising(OnTheWay(c)', M)
<1>1. c \in Conns /\ holder[connFd[c]] = c /\ c # None
  BY ServedIs
<1>2. PICK q \in Seq(Msgs) : q = matchQueue[Owner(c)]
  BY <1>1, WayType
<1>3. PICK m \in Msgs, s \in Seq(Msgs) : /\ outgoing = <<m>> \o s
                                         /\ m = Head(outgoing) /\ s = outgoing'
  <2>1. outgoing \in Seq(Msgs) /\ outgoing # <<>> /\ outgoing' = Tail(outgoing)
    BY MailType DEF PostNext
  <2> QED BY <2>1, HeadFirst
<1>4. <<m>> \in Seq(Msgs) /\ q \o <<m>> \in Seq(Msgs)
  <2>1. <<m>> \in Seq(Msgs)
    OBVIOUS
  <2> QED BY <2>1, ConcatProperties
<1>5. OnTheWay(c) = q \o (<<m>> \o s)
  BY <1>2, <1>3 DEF OnTheWay
<1>6. Owner(c) \in Reactors /\ matchQueue \in [Reactors -> Seq(Msgs)]
  BY <1>1, WayType DEF RoomTypeOK, Msgs
<1>7. CASE matchQueue'[Owner(c)] = Append(q, m)
  <2>1. Append(q, m) = q \o <<m>>
    BY AppendLast
  <2>2. OnTheWay(c)' = (q \o <<m>>) \o s
    BY <1>3, <1>7, <2>1 DEF OnTheWay
  <2>3. (q \o <<m>>) \o s = q \o (<<m>> \o s)
    BY <1>4, ConcatAssociative
  <2> QED BY <1>5, <2>2, <2>3
<1>8. CASE matchQueue'[Owner(c)] = q /\ m \notin M
  <2>1. OnTheWay(c)' = q \o s
    BY <1>3, <1>8 DEF OnTheWay
  <2> DEFINE u == <<m>> \o s
  <2>2. u \in Seq(Msgs)
    BY <1>4, ConcatProperties
  <2>3. Numbers(u, M) = Numbers(s, M) /\ Count(u, M) = Count(s, M) /\ (Rising(u, M) <=> Rising(s, M))
    <3>1. Count(s, M) \in Nat
      BY FiniteCount
    <3>2. /\ Numbers(u, M) = (IF m \in M THEN {m.n} ELSE {}) \cup Numbers(s, M)
          /\ Count(u, M) = (IF m \in M THEN 1 ELSE 0) + Count(s, M)
          /\ Rising(u, M) <=> Rising(s, M) /\ (m \in M => \A y \in Numbers(s, M) : m.n < y)
      BY InFront
    <3> HIDE DEF u
    <3> QED BY <1>8, <3>1, <3>2
  <2> HIDE DEF u
  <2>4. /\ Numbers(q \o u, M) = Numbers(q, M) \cup Numbers(u, M)
        /\ Count(q \o u, M) = Count(q, M) + Count(u, M)
        /\ Rising(q \o u, M) <=> /\ Rising(q, M) /\ Rising(u, M)
                                 /\ \A x \in Numbers(q, M) : \A y \in Numbers(u, M) : x < y
    BY <2>2, NumbersConcat, CountConcat, RisingConcat
  <2>5. /\ Numbers(q \o s, M) = Numbers(q, M) \cup Numbers(s, M)
        /\ Count(q \o s, M) = Count(q, M) + Count(s, M)
        /\ Rising(q \o s, M) <=> /\ Rising(q, M) /\ Rising(s, M)
                                 /\ \A x \in Numbers(q, M) : \A y \in Numbers(s, M) : x < y
    BY NumbersConcat, CountConcat, RisingConcat
  <2>6. OnTheWay(c) = q \o u
    BY <1>5 DEF u
  <2> QED BY <2>1, <2>3, <2>4, <2>5, <2>6
<1>9. \/ matchQueue'[Owner(c)] = Append(q, m)
      \/ matchQueue'[Owner(c)] = q /\ m \notin M
  <2>1. CASE m \in M
    <3>1. holder[m.fd] = c
      BY <1>1, <2>1
    <3>2. matchQueue' = [matchQueue EXCEPT ![Owner(c)] = Append(@, m)]
      BY <1>1, <1>3, <3>1 DEF PostNext
    <3> QED BY <1>2, <1>6, <3>2
  <2>2. CASE m \notin M
    <3>1. \/ matchQueue' = matchQueue
          \/ matchQueue' = [matchQueue EXCEPT ![Owner(holder[m.fd])] = Append(@, m)]
      BY <1>3 DEF PostNext
    <3> QED BY <1>2, <1>6, <2>2, <3>1
  <2> QED BY <2>1, <2>2
<1> QED BY <1>7, <1>8, <1>9

(* What reactor k delivers was the first on its way.                        *)
LEMMA DeliverWay ==
  ASSUME RoomTypeOK, NEW k \in Reactors, Deliver(k), NEW c \in Conns, NEW M
  PROVE  LET m == Head(matchQueue[k]) IN
         IF Owner(c) = k
         THEN /\ Numbers(OnTheWay(c), M)
                    = (IF m \in M THEN {m.n} ELSE {}) \cup Numbers(OnTheWay(c)', M)
              /\ Count(OnTheWay(c), M)
                    = (IF m \in M THEN 1 ELSE 0) + Count(OnTheWay(c)', M)
              /\ Rising(OnTheWay(c), M) =>
                    /\ Rising(OnTheWay(c)', M)
                    /\ m \in M => \A y \in Numbers(OnTheWay(c)', M) : m.n < y
         ELSE OnTheWay(c)' = OnTheWay(c)
<1>1. matchQueue \in [Reactors -> Seq(Msgs)] /\ Owner(c) \in Reactors /\ outgoing \in Seq(Msgs)
  BY WayType DEF RoomTypeOK, Msgs
<1>2. /\ matchQueue[k] # <<>> /\ outgoing' = outgoing
      /\ matchQueue' = [matchQueue EXCEPT ![k] = Tail(@)]
  BY DEF Deliver
<1>3. CASE Owner(c) # k
  BY <1>1, <1>2, <1>3 DEF OnTheWay
<1>4. CASE Owner(c) = k
  <2>1. PICK m \in Msgs, q \in Seq(Msgs) :
           m = Head(matchQueue[k]) /\ q = Tail(matchQueue[k]) /\ matchQueue[k] = <<m>> \o q
    BY <1>1, <1>2, HeadFirst
  <2>2. PICK s \in Seq(Msgs) : s = outgoing
    BY <1>1
  <2>3. OnTheWay(c) = (<<m>> \o q) \o s /\ OnTheWay(c)' = q \o s
    BY <1>1, <1>2, <1>4, <2>1, <2>2 DEF OnTheWay
  <2>4. <<m>> \in Seq(Msgs) /\ q \o s \in Seq(Msgs)
    <3>1. <<m>> \in Seq(Msgs)
      OBVIOUS
    <3> QED BY <3>1, ConcatProperties
  <2>5. (<<m>> \o q) \o s = <<m>> \o (q \o s)
    BY <2>4, ConcatAssociative
  <2> DEFINE u == q \o s
  <2>6. /\ Numbers(<<m>> \o u, M) = (IF m \in M THEN {m.n} ELSE {}) \cup Numbers(u, M)
        /\ Count(<<m>> \o u, M) = (IF m \in M THEN 1 ELSE 0) + Count(u, M)
        /\ Rising(<<m>> \o u, M) <=>
               Rising(u, M) /\ (m \in M => \A y \in Numbers(u, M) : m.n < y)
    BY <2>4, InFront
  <2> QED BY <1>4, <2>1, <2>3, <2>5, <2>6
<1> QED BY <1>3, <1>4

(* A broadcast has one message for each member, and replies to nobody.      *)
LEMMA BroadcastWay ==
  ASSUME NEW r \in RoomIds, NEW mems \in Seq(Members), NEW n \in Nat,
         \A i, j \in DOMAIN mems : i # j => mems[i].fd # mems[j].fd,
         NEW fd, NEW q
  PROVE  LET s == ToMembers(r, mems, n)
             M == EventsTo(fd, q)
         IN
         /\ Numbers(s, M) = IF q = r /\ fd \in {m.fd : m \in Range(mems)} THEN {n} ELSE {}
         /\ Rising(s, M)
         /\ Count(s, RepliesTo(fd)) = 0
<1> DEFINE s == ToMembers(r, mems, n)
           M == EventsTo(fd, q)
           e(i) == [fd |-> mems[i].fd, what |-> "event", room |-> r, n |-> n]
<1>1. DOMAIN s = DOMAIN mems /\ \A i \in DOMAIN mems : s[i] = e(i)
  BY DEF ToMembers
<1>2. \A i \in DOMAIN mems : e(i) \in Broadcasts
  <2>1. \A i \in DOMAIN mems : mems[i] \in Members
    OBVIOUS
  <2> QED BY <2>1 DEF Broadcasts, Members
<1>3. \A i \in DOMAIN s : /\ s[i].n = n /\ s[i].what = "event"
                          /\ s[i] \in M <=> q = r /\ mems[i].fd = fd
  BY <1>1, <1>2 DEF EventsTo
<1> HIDE DEF s
<1>4. Rising(s, M)
  <2>1. SUFFICES ASSUME NEW i \in DOMAIN s, NEW j \in DOMAIN s, i < j, s[i] \in M, s[j] \in M
                 PROVE  FALSE
    BY DEF Rising
  <2>2. DOMAIN mems \subseteq Nat
    OBVIOUS
  <2>3. i # j /\ mems[i].fd = mems[j].fd
    BY <1>1, <1>3, <2>1, <2>2
  <2> QED BY <1>1, <2>3
<1>5. Numbers(s, M) = IF q = r /\ fd \in {m.fd : m \in Range(mems)} THEN {n} ELSE {}
  <2>1. \A x : x \in Numbers(s, M) <=> x = n /\ \E i \in DOMAIN mems : q = r /\ mems[i].fd = fd
    BY <1>1, <1>3 DEF Numbers
  <2>2. fd \in {m.fd : m \in Range(mems)} <=> \E i \in DOMAIN mems : mems[i].fd = fd
    BY DEF Range
  <2> HIDE DEF M
  <2>3. CASE q = r /\ \E i \in DOMAIN mems : mems[i].fd = fd
    <3>1. \A x : x \in Numbers(s, M) <=> x = n
      BY <2>1, <2>3
    <3> QED BY <2>2, <2>3, <3>1
  <2>4. CASE ~(q = r /\ \E i \in DOMAIN mems : mems[i].fd = fd)
    <3>1. \A x : x \notin Numbers(s, M)
      BY <2>1, <2>4
    <3> QED BY <2>2, <2>4, <3>1
  <2> QED BY <2>3, <2>4
<1>6. Range(s) \cap RepliesTo(fd) = {}
  BY <1>3 DEF Range, RepliesTo, Answers
<1>7. Count(s, RepliesTo(fd)) = 0
  BY <1>6, NoMessage
<1> QED BY <1>4, <1>5, <1>7 DEF s

(* Numbers in a row. *)
LEMMA RowGrows ==
  ASSUME NEW h \in Nat, NEW n \in Nat, h <= n
  PROVE  (h + 1 .. n) \cup {n + 1} = h + 1 .. n + 1
OBVIOUS

(* A row of numbers without its least.                                      *)
LEMMA RowShrinks ==
  ASSUME NEW h \in Nat, NEW n \in Nat, NEW x \in Nat, NEW N,
         {x} \cup N = h + 1 .. n, \A y \in N : x < y
  PROVE  x = h + 1 /\ N = x + 1 .. n /\ x <= n
<1>1. x \in h + 1 .. n /\ \A y \in N : y \in h + 1 .. n
  OBVIOUS
<1>2. x = h + 1
  <2>1. h + 1 \in h + 1 .. n
    BY <1>1
  <2>2. h + 1 = x \/ h + 1 \in N
    BY <2>1
  <2> QED BY <1>1, <2>2
<1>3. \A y : y \in N <=> y \in x + 1 .. n
  <2>1. ASSUME NEW y \in N PROVE y \in x + 1 .. n
    BY <1>1, <1>2
  <2>2. ASSUME NEW y \in x + 1 .. n PROVE y \in N
    <3>1. y \in h + 1 .. n /\ y # x
      BY <1>2
    <3> QED BY <3>1
  <2> QED BY <2>1, <2>2
<1>4. x <= n
  BY <1>1
<1> QED BY <1>2, <1>3, <1>4

-----------------------------------------------------------------------------
(* Broadcasts. *)

(* What members have heard and have still to hear, together.                *)
Hearing == NothingIsForeseen /\ MembersMissNothing

(* A step that says nothing and moves nothing; connections may go.          *)
LEMMA QuietHears ==
  ASSUME Hearing, UNCHANGED <<connFd, heard, log, outgoing, matchQueue>>,
         Served' \subseteq Served
  PROVE  Hearing'
<1>1. \A c : OnTheWay(c)' = OnTheWay(c)
  BY DEF OnTheWay
<1>2. \A c \in Served : \A r \in RoomIds : HearsAll(c, r) => HearsAll(c, r)'
  BY <1>1 DEF HearsAll
<1> QED BY <1>2 DEF Hearing, NothingIsForeseen, MembersMissNothing

(* Nothing changes for c in room r.                                         *)
LEMMA HearsSame ==
  ASSUME NEW c \in Conns, NEW r \in RoomIds, HearsAll(c, r),
         NEW M, M = EventsTo(connFd[c], r),
         connFd'[c] = connFd[c], heard'[c][r] = heard[c][r], log'[r] = log[r],
         Numbers(OnTheWay(c)', M) = Numbers(OnTheWay(c), M),
         Rising(OnTheWay(c), M) => Rising(OnTheWay(c)', M)
  PROVE  HearsAll(c, r)'
BY DEF HearsAll

(* Who connects is served; the others are who they were.                    *)
LEMMA ConnectIs ==
  ASSUME RoomTypeOK, HoldersHaveConnected, AddressInv, NEW fd \in Fds, Connect(fd)
  PROVE  \E new \in Conns :
            /\ Served' \subseteq Served \cup {new} /\ new \notin Served
            /\ connFd[new] = NoFd /\ connFd' = [connFd EXCEPT ![new] = fd]
            /\ waiting[new] = 0 /\ \A r \in RoomIds : heard[new][r] = 0
<1>1. PICK new \in Conns : new = accepted + 1
  BY RoomAssumption DEF RoomTypeOK, Connect, Conns
<1>2. accepted \in Nat /\ holder \in [Fds -> Conns \cup {None}]
  BY RoomAssumption DEF RoomTypeOK
<1>3. connFd' = [connFd EXCEPT ![new] = fd] /\ holder' = [holder EXCEPT ![fd] = new]
  BY <1>1 DEF Connect
<1>4. Served' \subseteq Served \cup {new}
  BY <1>2, <1>3 DEF Served
<1>5. new \notin Served
  BY <1>1, <1>2, ServedIs DEF Conns
<1>6. new > accepted
  BY <1>1, <1>2
<1> QED BY <1>3, <1>4, <1>5, <1>6 DEF AddressInv, NewcomersAreNew

(* Who connects is in no room yet, whatever the descriptor.                 *)
LEMMA ConnectHears ==
  ASSUME RoomTypeOK, HoldersHaveConnected, AddressInv, Hearing, NEW fd \in Fds, Connect(fd)
  PROVE  Hearing'
<1>1. PICK new \in Conns :
         /\ Served' \subseteq Served \cup {new} /\ new \notin Served
         /\ connFd' = [connFd EXCEPT ![new] = fd]
         /\ \A r \in RoomIds : heard[new][r] = 0
  BY ConnectIs
<1>2. UNCHANGED <<heard, log, outgoing, matchQueue>>
  BY DEF Connect
<1>3. ASSUME NEW c \in Served', NEW r \in RoomIds, heard'[c][r] # 0
      PROVE  HearsAll(c, r)'
  <2>1. c # new /\ c \in Served
    BY <1>1, <1>2, <1>3
  <2>2. c \in Conns /\ HearsAll(c, r)
    BY <1>2, <1>3, <2>1, ServedIs DEF Hearing, MembersMissNothing
  <2>3. connFd'[c] = connFd[c]
    BY <1>1, <2>1, <2>2 DEF RoomTypeOK
  <2>4. OnTheWay(c)' = OnTheWay(c)
    BY <1>2 DEF OnTheWay
  <2> QED BY <1>2, <2>2, <2>3, <2>4 DEF HearsAll
<1> QED BY <1>2, <1>3 DEF Hearing, NothingIsForeseen, MembersMissNothing

(* A broadcast posted is still on its way.                                  *)
LEMMA PostHears ==
  ASSUME RoomTypeOK, HoldersHaveConnected, Hearing, PostNext
  PROVE  Hearing'
<1>1. UNCHANGED <<heard, log, connFd, Served>>
  BY DEF PostNext, connVars, Served
<1>2. ASSUME NEW c \in Served, NEW r \in RoomIds, heard[c][r] # 0
      PROVE  HearsAll(c, r)'
  <2>1. PICK M : M = EventsTo(connFd[c], r)
    OBVIOUS
  <2>2. \A m \in M : m.fd = connFd[c]
    BY <2>1 DEF EventsTo
  <2>3. /\ Numbers(OnTheWay(c)', M) = Numbers(OnTheWay(c), M)
        /\ Rising(OnTheWay(c), M) => Rising(OnTheWay(c)', M)
    BY <2>2, PostWay
  <2>4. c \in Conns /\ HearsAll(c, r)
    BY <1>2, ServedIs DEF Hearing, MembersMissNothing
  <2> QED BY <1>1, <2>1, <2>3, <2>4, HearsSame
<1> QED BY <1>1, <1>2 DEF Hearing, NothingIsForeseen, MembersMissNothing

(* postRawMessage: the broadcast that arrives is the next one.              *)
LEMMA DeliverHears ==
  ASSUME RoomTypeOK, HoldersHaveConnected, Hearing, NEW k \in Reactors, Deliver(k)
  PROVE  Hearing'
<1>1. PICK m \in Msgs : m = Head(matchQueue[k])
  BY MailType, HeadTailProperties DEF Deliver
<1>2. PICK d \in Conns \cup {None} : d = holder[m.fd]
  BY <1>1 DEF RoomTypeOK, Msgs, Replies, Broadcasts
<1>3. /\ UNCHANGED <<log, connFd, Served>>
      /\ heard \in [Conns -> [RoomIds -> Nat]]
      /\ \A r \in RoomIds : Len(log[r]) \in Nat
  BY DEF Deliver, connVars, Served, RoomTypeOK
<1> DEFINE Arrives == d # None /\ Owner(d) = k /\ m.what = "event" /\ heard[d][m.room] # 0
<1>4. heard' = IF Arrives THEN [heard EXCEPT ![d][m.room] = m.n] ELSE heard
  BY <1>1, <1>2 DEF Deliver
<1>5. d # None => d \in Conns /\ d \in Served /\ connFd[d] = m.fd
  BY <1>1, <1>2 DEF HoldersHaveConnected, Served, Msgs, Replies, Broadcasts
<1>6. m.what = "event" => m \in Broadcasts /\ m.room \in RoomIds /\ m.n \in Nat
  BY <1>1 DEF Msgs, Replies, Broadcasts, Answers
<1>7. ASSUME NEW c \in Served, NEW r \in RoomIds, heard[c][r] # 0
      PROVE  HearsAll(c, r)' /\ heard'[c][r] <= Len(log[r])
  <2>1. PICK M : M = EventsTo(connFd[c], r)
    OBVIOUS
  <2>2. c \in Conns /\ HearsAll(c, r) /\ heard[c][r] \in Nat /\ heard[c][r] <= Len(log[r])
    BY <1>3, <1>7, ServedIs DEF Hearing, MembersMissNothing, NothingIsForeseen
  <2>3. Numbers(OnTheWay(c), M) = heard[c][r] + 1 .. Len(log[r]) /\ Rising(OnTheWay(c), M)
    BY <2>1, <2>2 DEF HearsAll
  <2>4. CASE Owner(c) = k /\ m \in M
    <3>1. d = c /\ m.room = r /\ m.what = "event"
      BY <1>2, <2>1, <2>4, ServedIs DEF EventsTo, Broadcasts
    <3>2. Arrives
      BY <1>7, <2>4, <3>1, ServedIs
    <3>3. heard'[c][r] = m.n /\ m.n \in Nat
      BY <1>3, <1>4, <1>6, <2>2, <3>1, <3>2
    <3>4. /\ Numbers(OnTheWay(c), M) = {m.n} \cup Numbers(OnTheWay(c)', M)
          /\ Rising(OnTheWay(c)', M)
          /\ \A y \in Numbers(OnTheWay(c)', M) : m.n < y
      BY <1>1, <2>2, <2>3, <2>4, DeliverWay
    <3>5. Numbers(OnTheWay(c)', M) = m.n + 1 .. Len(log[r]) /\ m.n <= Len(log[r])
      <4>1. PICK h, n, x, N : /\ h = heard[c][r] /\ n = Len(log[r])
                              /\ x = m.n /\ N = Numbers(OnTheWay(c)', M)
        OBVIOUS
      <4>2. h \in Nat /\ n \in Nat /\ x \in Nat /\ {x} \cup N = h + 1 .. n /\ \A y \in N : x < y
        BY <1>3, <2>2, <2>3, <3>3, <3>4, <4>1
      <4>3. N = x + 1 .. n /\ x <= n
        BY <4>2, RowShrinks
      <4> QED BY <4>1, <4>3
    <3> QED BY <1>3, <2>1, <3>3, <3>4, <3>5 DEF HearsAll
  <2>5. CASE ~(Owner(c) = k /\ m \in M)
    <3>1. Numbers(OnTheWay(c)', M) = Numbers(OnTheWay(c), M) /\ Rising(OnTheWay(c)', M)
      <4>1. CASE Owner(c) = k
        <5>1. m \notin M
          BY <2>5, <4>1
        <5>2. /\ Numbers(OnTheWay(c), M)
                    = (IF m \in M THEN {m.n} ELSE {}) \cup Numbers(OnTheWay(c)', M)
              /\ Rising(OnTheWay(c), M) => Rising(OnTheWay(c)', M)
          BY <1>1, <2>2, <4>1, DeliverWay
        <5> QED BY <2>3, <5>1, <5>2
      <4>2. CASE Owner(c) # k
        BY <2>2, <2>3, <4>2, DeliverWay
      <4> QED BY <4>1, <4>2
    <3>2. heard'[c][r] = heard[c][r]
      <4>1. ASSUME Arrives, d = c, m.room = r PROVE FALSE
        <5>1. m \in M
          BY <1>5, <1>6, <2>1, <4>1 DEF EventsTo
        <5> QED BY <2>5, <4>1, <5>1
      <4> HIDE DEF Arrives
      <4>2. CASE Arrives
        BY <1>3, <1>4, <2>2, <4>1, <4>2
      <4>3. CASE ~Arrives
        BY <1>4, <4>3
      <4> QED BY <4>2, <4>3
    <3> QED BY <1>3, <2>1, <2>2, <3>1, <3>2, HearsSame
  <2> QED BY <2>4, <2>5
<1>8. ASSUME NEW c \in Conns, NEW r \in RoomIds, c \notin Served \/ heard[c][r] = 0
      PROVE  heard'[c][r] = heard[c][r]
  <2>1. Arrives => ~(d = c /\ m.room = r)
    BY <1>5, <1>8
  <2> HIDE DEF Arrives
  <2>2. CASE Arrives
    BY <1>3, <1>4, <1>8, <2>1, <2>2
  <2>3. CASE ~Arrives
    BY <1>4, <2>3
  <2> QED BY <2>2, <2>3
<1>9. NothingIsForeseen'
  <2>1. \A c \in Conns : \A r \in RoomIds : heard'[c][r] <= Len(log[r])
    BY <1>7, <1>8 DEF Hearing, NothingIsForeseen
  <2> QED BY <1>3, <2>1 DEF NothingIsForeseen
<1>10. MembersMissNothing'
  <2>1. ASSUME NEW c \in Served, NEW r \in RoomIds, heard'[c][r] # 0
        PROVE  HearsAll(c, r)'
    <3>1. c \in Conns
      BY ServedIs
    <3> QED BY <1>7, <1>8, <2>1, <3>1
  <2> QED BY <1>3, <2>1 DEF MembersMissNothing
<1> QED BY <1>9, <1>10 DEF Hearing

-----------------------------------------------------------------------------
(* A handler: what it posts is behind what is on its way. *)

(* A handler that says nothing in room r to c.                              *)
LEMMA HandlerSame ==
  ASSUME RoomTypeOK, RoomTypeOK', NEW c \in Conns, NEW r \in RoomIds, HearsAll(c, r),
         outgoing = <<>>, UNCHANGED <<matchQueue, connFd>>,
         heard'[c][r] = heard[c][r], log'[r] = log[r],
         NEW M, M = EventsTo(connFd[c], r),
         Numbers(outgoing', M) = {}, Rising(outgoing', M)
  PROVE  HearsAll(c, r)'
<1>1. /\ Numbers(OnTheWay(c)', M) = Numbers(OnTheWay(c), M) \cup Numbers(outgoing', M)
      /\ Rising(OnTheWay(c)', M) <=>
            /\ Rising(OnTheWay(c), M) /\ Rising(outgoing', M)
            /\ \A x \in Numbers(OnTheWay(c), M) : \A y \in Numbers(outgoing', M) : x < y
  BY HandlerWay
<1> QED BY <1>1, HearsSame

(* A handler that says the next thing in room r to c.                       *)
LEMMA HandlerMore ==
  ASSUME RoomTypeOK, RoomTypeOK', NEW c \in Conns, NEW r \in RoomIds,
         outgoing = <<>>, UNCHANGED <<matchQueue, connFd>>,
         NEW M, M = EventsTo(connFd[c], r),
         Numbers(OnTheWay(c), M) = heard'[c][r] + 1 .. Len(log[r]),
         Rising(OnTheWay(c), M), heard'[c][r] <= Len(log[r]),
         Len(log'[r]) = Len(log[r]) + 1,
         Numbers(outgoing', M) = {Len(log[r]) + 1}, Rising(outgoing', M)
  PROVE  HearsAll(c, r)'
<1>1. PICK h, n : h = heard'[c][r] /\ n = Len(log[r])
  OBVIOUS
<1>2. h \in Nat /\ n \in Nat /\ h <= n
  BY <1>1 DEF RoomTypeOK
<1>3. /\ Numbers(OnTheWay(c)', M) = Numbers(OnTheWay(c), M) \cup Numbers(outgoing', M)
      /\ Rising(OnTheWay(c)', M) <=>
            /\ Rising(OnTheWay(c), M) /\ Rising(outgoing', M)
            /\ \A x \in Numbers(OnTheWay(c), M) : \A y \in Numbers(outgoing', M) : x < y
  BY HandlerWay
<1>4. Numbers(OnTheWay(c)', M) = h + 1 .. n + 1
  BY <1>1, <1>2, <1>3, RowGrows
<1>5. \A x \in h + 1 .. n : x < n + 1
  BY <1>2
<1>6. Rising(OnTheWay(c)', M)
  BY <1>1, <1>3, <1>5
<1> QED BY <1>1, <1>4, <1>6 DEF HearsAll

(* Only replies are posted. *)
LEMMA ReplyHears ==
  ASSUME RoomTypeOK, RoomTypeOK', HoldersHaveConnected, Hearing, outgoing = <<>>,
         UNCHANGED <<matchQueue, connVars, heard, log>>,
         Range(outgoing') \cap Broadcasts = {}
  PROVE  Hearing'
<1>1. ASSUME NEW c \in Served, NEW r \in RoomIds, heard[c][r] # 0
      PROVE  HearsAll(c, r)'
  <2>1. PICK M : M = EventsTo(connFd[c], r)
    OBVIOUS
  <2>2. PICK s : s = outgoing'
    OBVIOUS
  <2>3. Numbers(s, M) = {} /\ Rising(s, M)
    <3>1. Range(s) \cap M = {}
      BY <2>1, <2>2 DEF EventsTo
    <3> QED BY <3>1, NoMessage
  <2>4. c \in Conns /\ HearsAll(c, r)
    BY <1>1, ServedIs DEF Hearing, MembersMissNothing
  <2> QED BY <2>1, <2>2, <2>3, <2>4, HandlerSame DEF connVars
<1>2. Served' = Served
  BY DEF Served, connVars
<1> QED BY <1>1, <1>2 DEF Hearing, NothingIsForeseen, MembersMissNothing

(* Something is said in room r to its members. *)
LEMMA SaidHears ==
  ASSUME RoomTypeOK, RoomTypeOK', HoldersHaveConnected, AddressInv, SeatsAreConsistent,
         Hearing, outgoing = <<>>, UNCHANGED <<matchQueue, connVars, heard>>,
         NEW r \in RoomIds, NEW e, GrowsBy(r, e),
         outgoing' = ToMembers(r, members[r], Len(log[r]) + 1)
  PROVE  Hearing'
<1>1. PICK mems \in Seq(Members), n \in Nat :
         mems = members[r] /\ n = Len(log[r]) + 1
  BY DEF RoomTypeOK
<1>2. \A i, j \in DOMAIN mems : i # j => mems[i].fd # mems[j].fd
  BY <1>1 DEF SeatsAreConsistent, SeatsOf
<1>3. Len(log'[r]) = n /\ \A q \in RoomIds \ {r} : log'[q] = log[q]
  BY <1>1, Grown
<1>4. ASSUME NEW c \in Served, NEW q \in RoomIds, heard[c][q] # 0
      PROVE  HearsAll(c, q)'
  <2>1. PICK M, fd : fd = connFd[c] /\ M = EventsTo(fd, q)
    OBVIOUS
  <2>2. c \in Conns /\ HearsAll(c, q) /\ heard[c][q] <= Len(log[q]) /\ fd \in MemberFds(q)
    BY <1>4, <2>1, ServedIs
    DEF Hearing, MembersMissNothing, NothingIsForeseen, AddressInv, HearersAreMembers
  <2>3. /\ Numbers(outgoing', M)
              = IF q = r /\ fd \in {m.fd : m \in Range(mems)} THEN {n} ELSE {}
        /\ Rising(outgoing', M)
    BY <1>1, <1>2, <2>1, BroadcastWay
  <2>4. CASE q = r
    <3>1. Numbers(outgoing', M) = {n}
      BY <1>1, <2>2, <2>3, <2>4 DEF MemberFds
    <3>2. Numbers(OnTheWay(c), M) = heard[c][r] + 1 .. Len(log[r]) /\ Rising(OnTheWay(c), M)
      BY <2>1, <2>2, <2>4 DEF HearsAll
    <3> QED BY <1>1, <1>3, <2>1, <2>2, <2>3, <2>4, <3>1, <3>2, HandlerMore DEF connVars
  <2>5. CASE q # r
    BY <1>3, <2>1, <2>2, <2>3, <2>5, HandlerSame DEF connVars
  <2> QED BY <2>4, <2>5
<1>5. Served' = Served
  BY DEF Served, connVars
<1>6. NothingIsForeseen'
  <2>1. \A q \in RoomIds : Len(log[q]) <= Len(log'[q]) /\ Len(log[q]) \in Nat /\ Len(log'[q]) \in Nat
    <3>1. \A q \in RoomIds : Len(log[q]) \in Nat
      BY DEF RoomTypeOK
    <3>2. \A q \in RoomIds : Len(log'[q]) \in {Len(log[q]), Len(log[q]) + 1}
      BY <1>1, <1>3
    <3> QED BY <3>1, <3>2
  <2>2. heard \in [Conns -> [RoomIds -> Nat]]
    BY DEF RoomTypeOK
  <2> QED BY <2>1, <2>2 DEF Hearing, NothingIsForeseen
<1> QED BY <1>4, <1>5, <1>6 DEF Hearing, MembersMissNothing

(* Nothing of a room is on its way to one who is not in it.                 *)
LEMMA NothingForStrangers ==
  ASSUME RoomTypeOK, AddressInv, NEW c \in Conns, NEW r \in RoomIds, NEW fd,
         fd \notin MemberFds(r)
  PROVE  /\ Numbers(OnTheWay(c), EventsTo(fd, r)) = {}
         /\ Rising(OnTheWay(c), EventsTo(fd, r))
<1>1. ASSUME NEW m \in Range(OnTheWay(c)), m \in EventsTo(fd, r) PROVE FALSE
  <2>1. AddressFits(m) /\ m.what = "event" /\ m.fd = fd /\ m.room = r
    BY <1>1, WayType DEF AddressInv, MailFits, EventsTo, Broadcasts
  <2> QED BY <2>1 DEF AddressFits
<1>2. PICK s : s = OnTheWay(c)
  OBVIOUS
<1>3. Range(s) \cap EventsTo(fd, r) = {}
  BY <1>1, <1>2
<1>4. Numbers(s, EventsTo(fd, r)) = {} /\ Rising(s, EventsTo(fd, r))
  BY <1>3, NoMessage
<1> QED BY <1>2, <1>4

(* The creator has heard of the creation, and there is nothing else.        *)
LEMMA CreateHears ==
  ASSUME RoomInv, RoomTypeOK', AddressInv, Hearing, NEW t, TaskIs(t), Create(t),
         UNCHANGED <<connVars, matchQueue>>
  PROVE  Hearing'
<1>0. RoomTypeOK /\ HoldersHaveConnected /\ UnbornAreEmpty /\ outgoing = <<>>
  BY DEF RoomInv, TaskIs
<1>1. PICK new \in Nat \ {0} : new = nextRoomId
  BY <1>0 DEF RoomTypeOK
<1> DEFINE seated == ~Full(t.content.max, 0)
           ev == [kind |-> "created", at |-> now,
                  fd |-> IF seated THEN t.fromFd ELSE NoFd]
<1>2. /\ log' = [log EXCEPT ![new] = <<ev>>]
      /\ heard' = IF seated THEN [heard EXCEPT ![t.user][new] = 1] ELSE heard
      /\ outgoing' = <<Reply(t.fromFd, "created")>>
  BY <1>1 DEF Create
<1> HIDE DEF ev, seated
<1>3. /\ heard \in [Conns -> [RoomIds -> Nat]] /\ log \in [RoomIds -> Seq(Events)]
      /\ \A r \in RoomIds : Len(log[r]) \in Nat
  <2>1. heard \in [Conns -> [RoomIds -> Nat]] /\ log \in [RoomIds -> Seq(Events)]
    BY <1>0 DEF RoomTypeOK
  <2>2. \A r \in RoomIds : log[r] \in Seq(Events)
    BY <2>1
  <2> QED BY <2>1, <2>2, LenProperties
<1>4. \A r \in RoomIds \ {new} :
         log'[r] = log[r] /\ \A c \in Conns : heard'[c][r] = heard[c][r]
  BY <1>2, <1>3
<1>5. ASSUME new \in RoomIds
      PROVE  /\ MemberFds(new) = {} /\ Len(log'[new]) = 1
             /\ \A c \in Conns : heard[c][new] = 0 /\ heard'[c][new] \in {0, 1}
  <2>1. members[new] = <<>>
    BY <1>0, <1>1, <1>5 DEF UnbornAreEmpty, RoomIds
  <2>2. MemberFds(new) = {}
    BY <2>1 DEF MemberFds, Range
  <2>3. \A c \in Conns : heard[c][new] = 0
    BY <1>5, <2>2 DEF AddressInv, HearersAreMembers
  <2>4. log'[new] = <<ev>>
    BY <1>2, <1>3, <1>5
  <2>5. \A c \in Conns : heard'[c][new] \in {0, 1}
    BY <1>2, <1>3, <1>5, <2>3
  <2> QED BY <2>2, <2>3, <2>4, <2>5
<1>6. ASSUME NEW c \in Served, NEW r \in RoomIds, heard'[c][r] # 0
      PROVE  HearsAll(c, r)'
  <2>1. PICK fd, M : fd = connFd[c] /\ M = EventsTo(fd, r)
    OBVIOUS
  <2>2. PICK s : s = outgoing'
    OBVIOUS
  <2>3. Numbers(s, M) = {} /\ Rising(s, M)
    <3>1. Range(s) = {Reply(t.fromFd, "created")}
      BY <1>2, <2>2 DEF Range
    <3>2. Range(s) \cap M = {}
      BY <2>1, <3>1 DEF Reply, EventsTo, Broadcasts
    <3> QED BY <3>2, NoMessage
  <2>4. c \in Conns /\ connFd' = connFd
    BY <1>0, ServedIs DEF connVars
  <2>5. CASE r # new
    <3>1. HearsAll(c, r)
      BY <1>4, <1>6, <2>4, <2>5 DEF Hearing, MembersMissNothing
    <3> QED BY <1>0, <1>4, <2>1, <2>2, <2>3, <2>4, <2>5, <3>1, HandlerSame
  <2>6. CASE r = new
    <3>1. Numbers(OnTheWay(c), M) = {} /\ Rising(OnTheWay(c), M)
      BY <1>0, <1>5, <2>1, <2>4, <2>6, NothingForStrangers
    <3>2. Numbers(OnTheWay(c)', M) = {} /\ Rising(OnTheWay(c)', M)
      <4>1. /\ Numbers(OnTheWay(c)', M) = Numbers(OnTheWay(c), M) \cup Numbers(outgoing', M)
            /\ Rising(OnTheWay(c)', M) <=>
                  /\ Rising(OnTheWay(c), M) /\ Rising(outgoing', M)
                  /\ \A x \in Numbers(OnTheWay(c), M) : \A y \in Numbers(outgoing', M) : x < y
        BY <1>0, <2>4, HandlerWay
      <4> QED BY <2>2, <2>3, <3>1, <4>1
    <3>3. heard'[c][r] + 1 .. Len(log'[r]) = {}
      <4>1. heard'[c][r] = 1 /\ Len(log'[r]) = 1
        BY <1>5, <1>6, <2>4, <2>6
      <4> QED BY <4>1
    <3> QED BY <2>1, <2>4, <3>2, <3>3 DEF HearsAll
  <2> QED BY <2>5, <2>6
<1>7. NothingIsForeseen'
  <2>1. \A r \in RoomIds : \A c \in Conns : heard'[c][r] <= Len(log'[r])
    <3>1. \A r \in RoomIds : \A c \in Conns : heard[c][r] <= Len(log[r])
      BY DEF Hearing, NothingIsForeseen
    <3>2. \A r \in RoomIds \ {new} : \A c \in Conns : heard'[c][r] <= Len(log'[r])
      BY <1>4, <3>1
    <3>3. new \in RoomIds => \A c \in Conns : heard'[c][new] <= Len(log'[new])
      <4>1. ASSUME new \in RoomIds, NEW c \in Conns PROVE heard'[c][new] <= Len(log'[new])
        <5>1. heard'[c][new] \in {0, 1} /\ Len(log'[new]) = 1
          BY <1>5, <4>1
        <5> QED BY <5>1
      <4> QED BY <4>1
    <3> QED BY <3>2, <3>3
  <2> QED BY <2>1 DEF NothingIsForeseen
<1>8. Served' = Served
  BY DEF Served, connVars
<1> QED BY <1>6, <1>7, <1>8 DEF Hearing, MembersMissNothing

(* What Join posts: the broadcast to all members, and then the answer.      *)
LEMMA JoinPosts ==
  ASSUME RoomInv, RoomInv', NEW t, t \in Tasks, Join(t), NEW fd, NEW q
  PROVE  LET M == EventsTo(fd, q) IN
         /\ Numbers(outgoing', M) = IF q = t.roomId /\ fd \in MemberFds(t.roomId)'
                                    THEN {Len(log'[t.roomId])} ELSE {}
         /\ Rising(outgoing', M)
         /\ Count(outgoing', RepliesTo(fd)) = IF fd = t.fromFd THEN 1 ELSE 0
<1>1. PICK r \in RoomIds, mems \in Seq(Members), n \in Nat :
         r = t.roomId /\ mems = members'[r] /\ n = Len(log'[r])
  <2>1. t.roomId \in RoomIds
    BY Joined DEF RoomInv
  <2> QED BY <2>1 DEF RoomInv, RoomTypeOK
<1>2. \A i, j \in DOMAIN mems : i # j => mems[i].fd # mems[j].fd
  <2>1. SeatsOf(r)'
    BY DEF RoomInv, SeatsAreConsistent
  <2> QED BY <1>1, <2>1 DEF SeatsOf
<1> DEFINE s == ToMembers(r, mems, n)
           x == Reply(t.fromFd, "joined")
           M == EventsTo(fd, q)
<1>3. outgoing' = Append(s, x)
  BY <1>1 DEF Join, Greeted
<1>4. s \in Seq(Msgs) /\ x \in Msgs
  <2>1. t.fromFd \in Fds
    BY DEF Tasks
  <2> QED BY <2>1, ToMembersType DEF Msgs, Reply, Replies, Answers
<1>5. /\ Numbers(s, M) = IF q = r /\ fd \in {m.fd : m \in Range(mems)} THEN {n} ELSE {}
      /\ Rising(s, M) /\ Count(s, RepliesTo(fd)) = 0
  BY <1>2, BroadcastWay
<1>6. x \notin M /\ (x \in RepliesTo(fd) <=> fd = t.fromFd)
  <2>1. x \in Replies /\ x.fd = t.fromFd /\ x.what = "joined"
    <3>1. t.fromFd \in Fds
      BY DEF Tasks
    <3> QED BY <3>1 DEF Reply, Replies, Answers
  <2> HIDE DEF x
  <2> QED BY <2>1 DEF EventsTo, Broadcasts, RepliesTo, Answers
<1> HIDE DEF s, x, M
<1> DEFINE one == <<x>>
<1>7. Append(s, x) = s \o one /\ one \in Seq(Msgs)
  BY <1>4, AppendLast
<1>8. /\ Numbers(one, M) = {} /\ Rising(one, M)
      /\ Count(one, RepliesTo(fd)) = IF fd = t.fromFd THEN 1 ELSE 0
  BY <1>6, OneMessage
<1> HIDE DEF one
<1>9. /\ Numbers(s \o one, M) = Numbers(s, M) \cup Numbers(one, M)
      /\ Count(s \o one, RepliesTo(fd)) = Count(s, RepliesTo(fd)) + Count(one, RepliesTo(fd))
      /\ Rising(s \o one, M) <=>
            /\ Rising(s, M) /\ Rising(one, M)
            /\ \A a \in Numbers(s, M) : \A b \in Numbers(one, M) : a < b
  BY <1>4, <1>7, NumbersConcat, CountConcat, RisingConcat
<1>10. MemberFds(t.roomId)' = {m.fd : m \in Range(mems)}
  BY <1>1 DEF MemberFds
<1>11. Numbers(s \o one, M) = IF q = t.roomId /\ fd \in MemberFds(t.roomId)'
                              THEN {Len(log'[t.roomId])} ELSE {}
  BY <1>1, <1>5, <1>8, <1>9, <1>10
<1>12. Rising(s \o one, M) /\ Count(s \o one, RepliesTo(fd)) = IF fd = t.fromFd THEN 1 ELSE 0
  BY <1>5, <1>8, <1>9
<1> QED BY <1>3, <1>7, <1>11, <1>12 DEF M

(* Who joins starts to hear with its own joining. *)
LEMMA JoinHears ==
  ASSUME RoomInv, RoomInv', AddressInv, Hearing, NEW t, TaskIs(t), Join(t),
         UNCHANGED <<connVars, matchQueue>>
  PROVE  Hearing'
<1>0. /\ RoomTypeOK /\ HoldersHaveConnected /\ outgoing = <<>> /\ RoomTypeOK'
      /\ t \in Tasks /\ t.user \in Conns /\ connFd[t.user] = t.fromFd
  BY AskerIs DEF RoomInv, TaskIs
<1>1. PICK r \in RoomIds : r = t.roomId
  BY <1>0, Joined
<1>2. /\ t.fromFd \notin MemberFds(r)
      /\ MemberFds(r)' = MemberFds(r) \cup {t.fromFd}
  BY <1>0, <1>1, Joined DEF Join
<1>3. /\ heard \in [Conns -> [RoomIds -> Nat]]
      /\ \A q \in RoomIds : Len(log[q]) \in Nat
  <2>1. heard \in [Conns -> [RoomIds -> Nat]] /\ log \in [RoomIds -> Seq(Events)]
    BY <1>0 DEF RoomTypeOK
  <2>2. \A q \in RoomIds : log[q] \in Seq(Events)
    BY <2>1
  <2> QED BY <2>1, <2>2, LenProperties
<1>4. /\ Len(log'[r]) = Len(log[r]) + 1
      /\ \A q \in RoomIds \ {r} : log'[q] = log[q]
  <2>1. GrowsBy(r, [kind |-> "joined", fd |-> t.fromFd, at |-> now])
    BY <1>1 DEF Join, GrowsBy
  <2> QED BY <1>0, <2>1, Grown
<1>5. heard' = [heard EXCEPT ![t.user][r] = Len(log[r])]
  BY <1>1 DEF Join
<1>6. ASSUME NEW c \in Served, NEW q \in RoomIds, heard'[c][q] # 0
      PROVE  HearsAll(c, q)'
  <2>1. PICK fd, M : fd = connFd[c] /\ M = EventsTo(fd, q)
    OBVIOUS
  <2>2. /\ Numbers(outgoing', M) = IF q = r /\ fd \in MemberFds(r)'
                                   THEN {Len(log'[r])} ELSE {}
        /\ Rising(outgoing', M)
    BY <1>0, <1>1, <2>1, JoinPosts
  <2>3. c \in Conns /\ connFd' = connFd
    BY <1>0, ServedIs DEF connVars
  <2>4. CASE q = r /\ c = t.user
    <3>1. heard'[c][r] = Len(log[r])
      BY <1>3, <1>5, <2>3, <2>4
    <3>2. Numbers(OnTheWay(c), M) = {} /\ Rising(OnTheWay(c), M)
      BY <1>0, <1>2, <2>1, <2>3, <2>4, NothingForStrangers
    <3>3. Numbers(OnTheWay(c), M) = heard'[c][r] + 1 .. Len(log[r]) /\ heard'[c][r] <= Len(log[r])
      BY <1>3, <3>1, <3>2
    <3>4. Numbers(outgoing', M) = {Len(log[r]) + 1}
      BY <1>0, <1>2, <1>4, <2>1, <2>2, <2>4
    <3> QED BY <1>0, <1>4, <2>1, <2>2, <2>3, <2>4, <3>2, <3>3, <3>4, HandlerMore
  <2>5. CASE q = r /\ c # t.user
    <3>1. heard'[c][r] = heard[c][r]
      BY <1>3, <1>5, <2>3, <2>5
    <3>2. HearsAll(c, r) /\ heard'[c][r] <= Len(log[r]) /\ fd \in MemberFds(r)
      BY <1>6, <2>1, <2>3, <2>5, <3>1
      DEF Hearing, MembersMissNothing, NothingIsForeseen, AddressInv, HearersAreMembers
    <3>3. Numbers(OnTheWay(c), M) = heard'[c][r] + 1 .. Len(log[r]) /\ Rising(OnTheWay(c), M)
      BY <2>1, <2>5, <3>1, <3>2 DEF HearsAll
    <3>4. Numbers(outgoing', M) = {Len(log[r]) + 1}
      BY <1>2, <1>4, <2>2, <2>5, <3>2
    <3> QED BY <1>0, <1>4, <2>1, <2>2, <2>3, <2>5, <3>2, <3>3, <3>4, HandlerMore
  <2>6. CASE q # r
    <3>1. heard'[c][q] = heard[c][q]
      BY <1>3, <1>5, <2>3, <2>6
    <3>2. HearsAll(c, q)
      BY <1>6, <3>1 DEF Hearing, MembersMissNothing
    <3> QED BY <1>0, <1>4, <2>1, <2>2, <2>3, <2>6, <3>1, <3>2, HandlerSame
  <2> QED BY <2>4, <2>5, <2>6
<1>7. NothingIsForeseen'
  <2>1. ASSUME NEW c \in Conns, NEW q \in RoomIds PROVE heard'[c][q] <= Len(log'[q])
    <3>1. heard'[c][q] = IF c = t.user /\ q = r THEN Len(log[r]) ELSE heard[c][q]
      BY <1>0, <1>3, <1>5
    <3>2. Len(log[q]) <= Len(log'[q]) /\ Len(log'[q]) \in Nat
      <4>1. Len(log'[q]) \in {Len(log[q]), Len(log[q]) + 1} /\ Len(log[q]) \in Nat
        BY <1>3, <1>4
      <4> QED BY <4>1
    <3>3. heard[c][q] <= Len(log[q])
      BY DEF Hearing, NothingIsForeseen
    <3> QED BY <1>3, <3>1, <3>2, <3>3
  <2> QED BY <2>1 DEF NothingIsForeseen
<1>8. Served' = Served
  BY DEF Served, connVars
<1> QED BY <1>6, <1>7, <1>8 DEF Hearing, MembersMissNothing

-----------------------------------------------------------------------------
(* Requests. *)

(* A step that leaves tasks, replies on their way and debts alone.          *)
LEMMA QuietAnswers ==
  ASSUME RequestsAreAnswered, UNCHANGED <<connFd, waiting, tasks, outgoing, matchQueue>>,
         Served' \subseteq Served
  PROVE  RequestsAreAnswered'
<1>1. \A c : OnTheWay(c)' = OnTheWay(c) /\ (SoleOwner(c)' <=> SoleOwner(c))
  BY DEF OnTheWay, SoleOwner
<1>2. \A c : Answered(c) => Answered(c)'
  BY <1>1 DEF Answered
<1> QED BY <1>1, <1>2 DEF RequestsAreAnswered

(* Nobody has asked for one who has not connected, and nothing is on its    *)
(* way to a descriptor nobody has had.                                      *)
LEMMA ConnectAnswers ==
  ASSUME RoomTypeOK, HoldersHaveConnected, AddressInv, RequestsAreAnswered,
         NEW fd \in Fds, Connect(fd)
  PROVE  RequestsAreAnswered'
<1>1. PICK new \in Conns :
         /\ Served' \subseteq Served \cup {new} /\ new \notin Served
         /\ connFd[new] = NoFd /\ connFd' = [connFd EXCEPT ![new] = fd]
         /\ waiting[new] = 0
  BY ConnectIs
<1>2. UNCHANGED <<waiting, tasks, outgoing, matchQueue>>
  BY DEF Connect
<1>3. connFd \in [Conns -> Fds \cup {NoFd}] /\ connFd'[new] = fd
  BY <1>1 DEF RoomTypeOK
<1>4. \A c : OnTheWay(c)' = OnTheWay(c)
  BY <1>2 DEF OnTheWay
<1>5. ASSUME NEW c \in Served, c # new, SoleOwner(c)'
      PROVE  Answered(c)'
  <2>1. c \in Conns /\ connFd[c] \in Fds
    BY ServedIs
  <2>2. connFd'[c] = connFd[c]
    BY <1>1, <1>3, <1>5, <2>1
  <2>3. SoleOwner(c)
    <3>1. ASSUME NEW d \in Conns \ {c} PROVE connFd[d] # connFd[c]
      <4>1. CASE d = new
        BY <1>1, <2>1, <4>1, RoomAssumption
      <4>2. CASE d # new
        <5>1. connFd'[d] = connFd[d] /\ connFd'[d] # connFd'[c]
          BY <1>1, <1>3, <1>5, <4>2 DEF SoleOwner
        <5> QED BY <2>2, <5>1
      <4> QED BY <4>1, <4>2
    <3> QED BY <3>1 DEF SoleOwner
  <2> QED BY <1>2, <1>4, <2>2, <2>3 DEF RequestsAreAnswered, Answered
<1>6. ASSUME SoleOwner(new)'
      PROVE  Answered(new)'
  <2>1. PICK M, R, s, q :
           /\ M = RepliesTo(fd) /\ R = RequestsOf(new)
           /\ s = OnTheWay(new) /\ q = tasks
    OBVIOUS
  <2>2. Range(s) \cap M = {}
    <3>1. SUFFICES ASSUME NEW m \in Range(OnTheWay(new)), m \in RepliesTo(fd) PROVE FALSE
      BY <2>1
    <3>2. AddressFits(m) /\ m.what # "event" /\ m.fd = fd
      BY <3>1, WayType DEF AddressInv, MailFits, RepliesTo, Answers
    <3>3. PICK d \in Conns : connFd[d] = fd
      BY <3>2 DEF AddressFits
    <3>4. d # new
      BY <1>1, <3>3, RoomAssumption
    <3>5. connFd'[d] = connFd'[new]
      BY <1>1, <1>3, <3>3, <3>4
    <3> QED BY <1>6, <3>4, <3>5 DEF SoleOwner
  <2>3. Range(q) \cap R = {}
    <3>1. SUFFICES ASSUME NEW t \in Range(tasks), t \in RequestsOf(new) PROVE FALSE
      BY <2>1
    <3>2. connFd[new] = t.fromFd /\ t.fromFd \in Fds
      BY <3>1 DEF AddressInv, TasksFit, RequestsOf, Tasks
    <3> QED BY <1>1, <3>2, RoomAssumption
  <2>4. Count(s, M) = 0 /\ Count(q, R) = 0
    BY <2>2, <2>3, NoMessage
  <2> QED BY <1>1, <1>2, <1>3, <1>4, <2>1, <2>4 DEF Answered
<1>7. \A c \in Served' : SoleOwner(c)' => Answered(c)'
  BY <1>1, <1>5, <1>6
<1> QED BY <1>7 DEF RequestsAreAnswered

(* A request is read: it waits in the queue, and its connection for it.     *)
LEMMA ReadAnswers ==
  ASSUME RoomTypeOK, HoldersHaveConnected, RequestsAreAnswered,
         NEW c \in Conns, NEW task \in Tasks, PostRoomTask(c, task), task.user = c
  PROVE  RequestsAreAnswered'
<1>1. PICK q \in Seq(Tasks) : q = tasks
  BY DEF RoomTypeOK
<1>2. /\ tasks' = Append(q, task) /\ UNCHANGED <<connVars, outgoing, matchQueue>>
      /\ waiting' = IF task.type = "chat" THEN waiting ELSE [waiting EXCEPT ![c] = @ + 1]
      /\ waiting \in [Conns -> Int]
  BY <1>1 DEF PostRoomTask, RoomTypeOK
<1>3. ASSUME NEW d \in Served, Answered(d)
      PROVE  Answered(d)'
  <2>1. PICK R : R = RequestsOf(d)
    OBVIOUS
  <2>2. d \in Conns
    BY ServedIs
  <2>3. Count(tasks', R) = Count(tasks, R) + (IF task \in R THEN 1 ELSE 0)
    <3> DEFINE one == <<task>>
    <3>1. Append(q, task) = q \o one /\ one \in Seq(Tasks)
      BY AppendLast
    <3>2. Count(one, R) = IF task \in R THEN 1 ELSE 0
      BY OneMessage
    <3> HIDE DEF one
    <3>3. Count(q \o one, R) = Count(q, R) + Count(one, R)
      BY <3>1, CountConcat
    <3> QED BY <1>1, <1>2, <3>1, <3>2, <3>3
  <2>4. task \in R <=> c = d /\ task.type # "chat"
    BY <2>1 DEF RequestsOf
  <2>5. waiting'[d] = waiting[d] + (IF task \in R THEN 1 ELSE 0)
    BY <1>2, <2>2, <2>4
  <2>6. OnTheWay(d)' = OnTheWay(d) /\ connFd'[d] = connFd[d]
    BY <1>2 DEF OnTheWay, connVars
  <2>7. PICK a, b : a = Count(tasks, R) /\ b = Count(OnTheWay(d), RepliesTo(connFd[d]))
    OBVIOUS
  <2>8. a \in Nat /\ b \in Nat
    <3>1. OnTheWay(d) \in Seq(Msgs)
      BY <2>2, WayType
    <3> QED BY <1>1, <2>7, <3>1, FiniteCount
  <2>9. waiting[d] = a + b
    BY <1>3, <2>1, <2>7 DEF Answered
  <2>10. waiting'[d] = Count(tasks', R) + b
    BY <2>3, <2>5, <2>7, <2>8, <2>9
  <2> QED BY <2>1, <2>6, <2>7, <2>10 DEF Answered
<1>4. Served' = Served /\ \A d : SoleOwner(d)' <=> SoleOwner(d)
  BY <1>2 DEF Served, SoleOwner, connVars
<1> QED BY <1>3, <1>4 DEF RequestsAreAnswered

(* A reply posted is still on its way.                                      *)
LEMMA PostAnswers ==
  ASSUME RoomTypeOK, HoldersHaveConnected, RequestsAreAnswered, PostNext
  PROVE  RequestsAreAnswered'
<1>1. UNCHANGED <<waiting, tasks, connFd, Served>>
  BY DEF PostNext, connVars, Served
<1>2. ASSUME NEW c \in Served, Answered(c)
      PROVE  Answered(c)'
  <2>1. PICK M : M = RepliesTo(connFd[c])
    OBVIOUS
  <2>2. \A m \in M : m.fd = connFd[c]
    BY <2>1 DEF RepliesTo
  <2>3. Count(OnTheWay(c)', M) = Count(OnTheWay(c), M)
    BY <2>2, PostWay
  <2> QED BY <1>1, <1>2, <2>1, <2>3 DEF Answered
<1>3. \A d : SoleOwner(d)' <=> SoleOwner(d)
  BY <1>1 DEF SoleOwner
<1> QED BY <1>1, <1>2, <1>3 DEF RequestsAreAnswered

(* A reply that arrives was owed. *)
LEMMA DeliverAnswers ==
  ASSUME RoomTypeOK, HoldersHaveConnected, RequestsAreAnswered, NEW k \in Reactors, Deliver(k)
  PROVE  RequestsAreAnswered'
<1>1. PICK m \in Msgs : m = Head(matchQueue[k])
  BY MailType, HeadTailProperties DEF Deliver
<1>2. PICK d \in Conns \cup {None} : d = holder[m.fd]
  BY <1>1 DEF RoomTypeOK, Msgs, Replies, Broadcasts
<1>3. UNCHANGED <<tasks, connFd, Served>> /\ waiting \in [Conns -> Int]
  BY DEF Deliver, connVars, Served, RoomTypeOK
<1> DEFINE Arrives == d # None /\ Owner(d) = k /\ m.what \in Answers
<1>4. waiting' = IF Arrives THEN [waiting EXCEPT ![d] = @ - 1] ELSE waiting
  BY <1>1, <1>2 DEF Deliver
<1>5. d # None => d \in Conns /\ connFd[d] = m.fd
  BY <1>1, <1>2 DEF HoldersHaveConnected, Msgs, Replies, Broadcasts
<1>6. ASSUME NEW c \in Served, Answered(c)
      PROVE  Answered(c)'
  <2>1. PICK M : M = RepliesTo(connFd[c])
    OBVIOUS
  <2>2. c \in Conns /\ holder[connFd[c]] = c /\ c # None
    BY ServedIs
  <2>3. Arrives /\ d = c <=> Owner(c) = k /\ m \in M
    <3>1. m \in M <=> m.what \in Answers /\ m.fd = connFd[c]
      BY <1>1, <2>1 DEF RepliesTo, Msgs, Broadcasts, Answers
    <3> QED BY <1>2, <1>5, <2>2, <3>1
  <2>4. waiting'[c] = waiting[c] - (IF Owner(c) = k /\ m \in M THEN 1 ELSE 0)
    <3> HIDE DEF Arrives
    <3>1. CASE Arrives
      BY <1>3, <1>4, <2>2, <2>3, <3>1
    <3>2. CASE ~Arrives
      BY <1>3, <1>4, <2>2, <2>3, <3>2
    <3> QED BY <3>1, <3>2
  <2>5. Count(OnTheWay(c), M)
           = (IF Owner(c) = k /\ m \in M THEN 1 ELSE 0) + Count(OnTheWay(c)', M)
    <3>1. OnTheWay(c) \in Seq(Msgs)
      BY <2>2, WayType
    <3>2. Count(OnTheWay(c), M) \in Nat
      BY <3>1, FiniteCount
    <3>3. CASE Owner(c) = k
      BY <1>1, <2>2, <3>3, DeliverWay
    <3>4. CASE Owner(c) # k
      BY <2>2, <3>2, <3>4, DeliverWay
    <3> QED BY <3>3, <3>4
  <2>6. PICK a, b, b2, w, one :
           /\ a = Count(tasks, RequestsOf(c)) /\ b = Count(OnTheWay(c), M)
           /\ b2 = Count(OnTheWay(c)', M) /\ w = waiting[c]
           /\ one = IF Owner(c) = k /\ m \in M THEN 1 ELSE 0
    OBVIOUS
  <2>7. a \in Nat /\ b \in Nat /\ b2 \in Nat /\ w \in Int /\ one \in {0, 1}
    <3>1. OnTheWay(c) \in Seq(Msgs) /\ tasks \in Seq(Tasks)
      BY <2>2, WayType DEF RoomTypeOK
    <3>2. OnTheWay(c)' \in Seq(Msgs)
      <4>1. matchQueue'[Owner(c)] \in Seq(Msgs) /\ outgoing' \in Seq(Msgs)
        <5>1. \A j \in Reactors : matchQueue[j] \in Seq(Msgs)
          BY MailType
        <5>2. Tail(matchQueue[k]) \in Seq(Msgs)
          BY <5>1, HeadTailProperties DEF Deliver
        <5>3. matchQueue'[Owner(c)] = IF Owner(c) = k THEN Tail(matchQueue[k])
                                                      ELSE matchQueue[Owner(c)]
          BY <2>2, WayType DEF Deliver, RoomTypeOK
        <5> QED BY <2>2, <5>1, <5>2, <5>3, WayType DEF Deliver
      <4> QED BY <4>1, ConcatProperties DEF OnTheWay
    <3>3. PICK s \in Seq(Msgs) : s = OnTheWay(c)'
      BY <3>2
    <3> QED BY <1>3, <2>2, <2>6, <3>1, <3>3, FiniteCount
  <2>8. w = a + b
    BY <1>6, <2>1, <2>6 DEF Answered
  <2>9. w - one = a + b2
    BY <2>5, <2>6, <2>7, <2>8
  <2> QED BY <1>3, <2>1, <2>4, <2>6, <2>9 DEF Answered
<1>7. \A c : SoleOwner(c)' <=> SoleOwner(c)
  BY <1>3 DEF SoleOwner
<1> QED BY <1>3, <1>6, <1>7 DEF RequestsAreAnswered

(* A handler posts one reply to the one who asked, if it was a request.     *)
LEMMA HandlerAnswers ==
  ASSUME RoomTypeOK, RoomTypeOK', HoldersHaveConnected, AddressInv, RequestsAreAnswered,
         NEW t, TaskIs(t), UNCHANGED <<connVars, matchQueue, waiting>>,
         \A fd \in Fds : Count(outgoing', RepliesTo(fd))
                            = IF t.type # "chat" /\ t.fromFd = fd THEN 1 ELSE 0
  PROVE  RequestsAreAnswered'
<1>1. PICK q \in Seq(Tasks), rest \in Seq(Tasks) :
         /\ q = tasks /\ rest = tasks' /\ t \in Tasks /\ q = <<t>> \o rest
  <2>1. tasks \in Seq(Tasks) /\ tasks # <<>> /\ t = Head(tasks) /\ tasks' = Tail(tasks)
    BY DEF TaskIs, RoomTypeOK
  <2> QED BY <2>1, HeadFirst
<1>2. outgoing = <<>> /\ connFd' = connFd /\ Served' = Served
  BY DEF TaskIs, connVars, Served
<1>3. ASSUME NEW c \in Served, SoleOwner(c), Answered(c)
      PROVE  Answered(c)'
  <2>1. PICK fd, R, M : /\ fd \in Fds /\ fd = connFd[c]
                        /\ R = RequestsOf(c) /\ M = RepliesTo(fd)
    BY ServedIs
  <2>2. c \in Conns
    BY ServedIs
  <2>3. t \in R <=> t.type # "chat" /\ t.fromFd = fd
    <3>1. t.user \in Conns /\ connFd[t.user] = t.fromFd
      BY AskerIs
    <3>2. t.user = c <=> t.fromFd = fd
      BY <1>3, <2>1, <3>1 DEF SoleOwner
    <3> QED BY <1>1, <2>1, <3>2 DEF RequestsOf
  <2>4. Count(q, R) = (IF t \in R THEN 1 ELSE 0) + Count(rest, R)
    BY <1>1, InFront
  <2>5. Count(OnTheWay(c)', M) = Count(OnTheWay(c), M) + Count(outgoing', M)
    BY <1>2, <2>2, HandlerWay
  <2>6. Count(outgoing', M) = IF t \in R THEN 1 ELSE 0
    BY <2>1, <2>3
  <2>7. PICK a, b, one : /\ a = Count(rest, R) /\ b = Count(OnTheWay(c), M)
                         /\ one = IF t \in R THEN 1 ELSE 0
    OBVIOUS
  <2>8. a \in Nat /\ b \in Nat /\ one \in {0, 1}
    <3>1. OnTheWay(c) \in Seq(Msgs)
      BY <2>2, WayType
    <3> QED BY <1>1, <2>7, <3>1, FiniteCount
  <2>9. waiting[c] = one + a + b
    BY <1>1, <1>3, <2>1, <2>4, <2>7, <2>8 DEF Answered
  <2>10. waiting[c] = a + (b + one)
    BY <2>8, <2>9
  <2> QED BY <1>1, <1>2, <2>1, <2>5, <2>6, <2>7, <2>10 DEF Answered
<1>4. \A c : SoleOwner(c)' <=> SoleOwner(c)
  BY <1>2 DEF SoleOwner
<1> QED BY <1>2, <1>3, <1>4 DEF RequestsAreAnswered

(* One reply is one reply, to the one who asked.                            *)
LEMMA JustReplyCounts ==
  ASSUME NEW t \in Tasks, NEW what, NEW fd, outgoing' = <<Reply(t.fromFd, what)>>
  PROVE  Count(outgoing', RepliesTo(fd)) = IF what \in Answers /\ t.fromFd = fd THEN 1 ELSE 0
<1> DEFINE x == Reply(t.fromFd, what)
<1>1. x \in RepliesTo(fd) <=> what \in Answers /\ t.fromFd = fd
  <2>1. x.fd = t.fromFd /\ x.what = what /\ t.fromFd \in Fds
    BY DEF Reply, Tasks
  <2>2. what \in Answers => x \in Replies
    BY <2>1 DEF Reply, Replies
  <2> HIDE DEF x
  <2> QED BY <2>1, <2>2 DEF RepliesTo
<1>2. Count(<<x>>, RepliesTo(fd)) = IF x \in RepliesTo(fd) THEN 1 ELSE 0
  BY OneMessage
<1> HIDE DEF x
<1>3. outgoing' = <<x>>
  BY DEF x
<1> QED BY <1>1, <1>2, <1>3

-----------------------------------------------------------------------------
(* Deliveries stay right in every step.                                     *)
LEMMA DeliveryStep ==
  ASSUME RoomInv, RoomInv', DeliveryInv, [Next]_vars
  PROVE  DeliveryInv'
<1>0. /\ RoomTypeOK /\ RoomTypeOK' /\ HoldersHaveConnected /\ SeatsAreConsistent
      /\ AddressInv /\ Hearing /\ RequestsAreAnswered
  BY DEF RoomInv, DeliveryInv, Hearing
<1>1. AddressInv'
  BY <1>0, AddressStep
<1>2. ASSUME Hearing', RequestsAreAnswered' PROVE DeliveryInv'
  BY <1>1, <1>2 DEF DeliveryInv, Hearing
<1>3. ASSUME UNCHANGED <<connFd, heard, log, waiting, tasks, outgoing, matchQueue>>,
             Served' \subseteq Served
      PROVE  DeliveryInv'
  BY <1>0, <1>2, <1>3, QuietHears, QuietAnswers
<1>4. CASE UNCHANGED vars \/ Tick
  BY <1>3, <1>4 DEF vars, Tick, connVars, Served
<1>5. ASSUME NEW c \in Conns, Leave(c) PROVE DeliveryInv'
  <2>1. Served' \subseteq Served
    BY <1>0, <1>5 DEF Served, Leave, RoomTypeOK
  <2> QED BY <1>3, <1>5, <2>1 DEF Leave
<1>6. ASSUME NEW fd \in Fds, Connect(fd) PROVE DeliveryInv'
  BY <1>0, <1>2, <1>6, ConnectHears, ConnectAnswers
<1>7. CASE PostNext
  BY <1>0, <1>2, <1>7, PostHears, PostAnswers
<1>8. ASSUME NEW k \in Reactors, Deliver(k) PROVE DeliveryInv'
  BY <1>0, <1>2, <1>8, DeliverHears, DeliverAnswers
<1>9. ASSUME NEW c \in Conns, NEW task \in Tasks, PostRoomTask(c, task), task.user = c
      PROVE  DeliveryInv'
  <2>1. RequestsAreAnswered'
    BY <1>0, <1>9, ReadAnswers
  <2>2. Hearing'
    BY <1>0, <1>9, QuietHears DEF PostRoomTask, connVars, Served
  <2> QED BY <1>2, <2>1, <2>2
<1>10. CASE \E c \in Conns : ReadCreate(c) \/ ReadJoin(c) \/ ReadChat(c) \/ ReadList(c)
  <2>1. PICK c \in Conns : ReadCreate(c) \/ ReadJoin(c) \/ ReadChat(c) \/ ReadList(c)
    BY <1>10
  <2>2. connFd[c] \in Fds
    <3>1. c \in Served
      BY <2>1 DEF ReadCreate, ReadJoin, ReadChat, ReadList, PostRoomTask
    <3> QED BY <1>0, <3>1, ServedIs
  <2>3. CASE ReadCreate(c)
    <3>1. PICK p \in Payloads :
             PostRoomTask(c, [type |-> "create", fromFd |-> connFd[c], user |-> c, content |-> p])
      BY <2>3 DEF ReadCreate
    <3>2. [type |-> "create", fromFd |-> connFd[c], user |-> c, content |-> p] \in Tasks
      BY <2>2 DEF Tasks
    <3> QED BY <1>9, <3>1, <3>2
  <2>4. CASE ReadJoin(c)
    <3>1. PICK r \in RoomIds :
             PostRoomTask(c, [type |-> "join", fromFd |-> connFd[c], user |-> c, roomId |-> r])
      BY <2>4 DEF ReadJoin
    <3>2. [type |-> "join", fromFd |-> connFd[c], user |-> c, roomId |-> r] \in Tasks
      BY <2>2 DEF Tasks
    <3> QED BY <1>9, <3>1, <3>2
  <2>5. CASE ReadChat(c)
    <3>1. PICK text \in Texts :
             PostRoomTask(c, [type |-> "chat", fromFd |-> connFd[c], user |-> c, text |-> text])
      BY <2>5 DEF ReadChat
    <3>2. [type |-> "chat", fromFd |-> connFd[c], user |-> c, text |-> text] \in Tasks
      BY <2>2 DEF Tasks
    <3> QED BY <1>9, <3>1, <3>2
  <2>6. CASE ReadList(c)
    <3>1. [type |-> "list", fromFd |-> connFd[c], user |-> c] \in Tasks
      BY <2>2 DEF Tasks
    <3> QED BY <1>9, <2>6, <3>1 DEF ReadList
  <2> QED BY <2>1, <2>3, <2>4, <2>5, <2>6
<1>11. CASE AiReply
  <2>1. PICK r \in RoomIds, mems \in Seq(Members), n \in Nat :
           r = calling /\ mems = members[r] /\ n = Len(log[r]) + 1
    BY <1>0, <1>11 DEF AiReply, RoomTypeOK
  <2>2. /\ GrowsBy(r, [kind |-> "ai", fd |-> NoFd, at |-> now])
        /\ outgoing' = ToMembers(r, mems, n) /\ outgoing = <<>>
        /\ UNCHANGED <<matchQueue, connVars, heard, tasks, waiting>>
    BY <1>11, <2>1 DEF AiReply, GrowsBy
  <2>3. Hearing'
    BY <1>0, <2>1, <2>2, SaidHears
  <2>4. \A i, j \in DOMAIN mems : i # j => mems[i].fd # mems[j].fd
    BY <1>0, <2>1 DEF SeatsAreConsistent, SeatsOf
  <2>5. ASSUME NEW c \in Served, Answered(c) PROVE Answered(c)'
    <3>1. PICK M : M = RepliesTo(connFd[c])
      OBVIOUS
    <3>2. Count(outgoing', M) = 0
      BY <2>2, <2>4, <3>1, BroadcastWay
    <3>3. c \in Conns
      BY <1>0, ServedIs
    <3>4. Count(OnTheWay(c)', M) = Count(OnTheWay(c), M) + Count(outgoing', M)
      BY <1>0, <2>2, <3>3, HandlerWay
    <3>5. Count(OnTheWay(c), M) \in Nat
      <4>1. OnTheWay(c) \in Seq(Msgs)
        BY <1>0, <3>3, WayType
      <4> QED BY <4>1, FiniteCount
    <3>6. Count(OnTheWay(c)', M) = Count(OnTheWay(c), M)
      BY <3>2, <3>4, <3>5
    <3> QED BY <2>2, <2>5, <3>1, <3>6 DEF Answered, connVars
  <2>6. Served' = Served /\ \A c : SoleOwner(c)' <=> SoleOwner(c)
    BY <2>2 DEF Served, SoleOwner, connVars
  <2>7. RequestsAreAnswered'
    BY <1>0, <2>5, <2>6 DEF RequestsAreAnswered
  <2> QED BY <1>2, <2>3, <2>7
<1>12. CASE HandleRoomTask
  <2>1. PICK t \in Tasks :
           /\ TaskIs(t)
           /\ \/ CreateFails(t) \/ Create(t)
              \/ JoinUnknown(t) \/ Rejoin(t) \/ JoinFull(t) \/ Join(t)
              \/ ChatNowhere(t) \/ ChatTooFast(t) \/ Chat(t)
              \/ List(t)
           /\ UNCHANGED <<connVars, matchQueue, waiting>>
    BY <1>12 DEF HandleRoomTask
  <2>2. outgoing = <<>>
    BY <2>1 DEF TaskIs
  <2>3. ASSUME NEW what, outgoing' = <<Reply(t.fromFd, what)>>,
               what \in Answers <=> t.type # "chat"
        PROVE  RequestsAreAnswered'
    <3>1. \A fd \in Fds : Count(outgoing', RepliesTo(fd))
                             = IF t.type # "chat" /\ t.fromFd = fd THEN 1 ELSE 0
      BY <2>3, JustReplyCounts
    <3> QED BY <1>0, <2>1, <3>1, HandlerAnswers
  <2>4. ASSUME NEW what, JustReply(t, what), what \in Answers <=> t.type # "chat"
        PROVE  DeliveryInv'
    <3>1. outgoing' = <<Reply(t.fromFd, what)>> /\ UNCHANGED <<heard, log>>
      BY <2>4 DEF JustReply
    <3>2. Range(outgoing') \cap Broadcasts = {}
      <4>1. Range(outgoing') = {Reply(t.fromFd, what)}
        BY <3>1 DEF Range
      <4> QED BY <4>1 DEF Reply, Broadcasts
    <3>3. Hearing'
      BY <1>0, <2>1, <2>2, <3>1, <3>2, ReplyHears
    <3> QED BY <1>2, <2>3, <2>4, <3>1, <3>3
  <2>5. CASE CreateFails(t) \/ JoinUnknown(t) \/ Rejoin(t) \/ JoinFull(t) \/ List(t)
    BY <2>4, <2>5 DEF CreateFails, JoinUnknown, Rejoin, JoinFull, List, Answers
  <2>6. CASE ChatTooFast(t)
    BY <2>4, <2>6 DEF ChatTooFast, Answers
  <2>7. CASE ChatNowhere(t)
    <3>1. t.type = "chat" /\ outgoing' = <<>> /\ UNCHANGED <<heard, log>>
      BY <2>2, <2>7 DEF ChatNowhere
    <3>2. Range(outgoing') = {}
      BY <3>1 DEF Range
    <3>3. Hearing'
      BY <1>0, <2>1, <2>2, <3>1, <3>2, ReplyHears
    <3>4. PICK s : s = outgoing'
      OBVIOUS
    <3>5. \A fd \in Fds : Count(s, RepliesTo(fd)) = 0
      BY <3>2, <3>4, NoMessage
    <3>6. RequestsAreAnswered'
      BY <1>0, <2>1, <3>1, <3>4, <3>5, HandlerAnswers
    <3> QED BY <1>2, <3>3, <3>6
  <2>8. CASE Create(t)
    <3>1. Hearing'
      BY <1>0, <2>1, <2>8, CreateHears
    <3>2. outgoing' = <<Reply(t.fromFd, "created")>> /\ t.type = "create"
      BY <2>8 DEF Create
    <3> QED BY <1>2, <2>3, <3>1, <3>2 DEF Answers
  <2>9. CASE Join(t)
    <3>1. Hearing'
      BY <1>0, <2>1, <2>9, JoinHears
    <3>2. t.type = "join" /\ \A fd \in Fds :
             Count(outgoing', RepliesTo(fd)) = IF fd = t.fromFd THEN 1 ELSE 0
      BY <2>9, JoinPosts DEF Join
    <3>3. RequestsAreAnswered'
      BY <1>0, <2>1, <3>2, HandlerAnswers
    <3> QED BY <1>2, <3>1, <3>3
  <2>10. CASE Chat(t)
    <3>1. PICK r \in RoomIds :
             /\ GrowsBy(r, [kind |-> "text", fd |-> t.fromFd, at |-> now,
                            mention |-> MentionsAI(r, t.text)])
             /\ outgoing' = ToMembers(r, members[r], Len(log[r]) + 1)
             /\ UNCHANGED heard
      BY <2>10, ChatDoes
    <3>2. Hearing'
      BY <1>0, <2>1, <2>2, <3>1, SaidHears
    <3>3. PICK mems \in Seq(Members), n \in Nat : mems = members[r] /\ n = Len(log[r]) + 1
      <4>1. members[r] \in Seq(Members) /\ log[r] \in Seq(Events)
        BY <1>0 DEF RoomTypeOK
      <4>2. Len(log[r]) + 1 \in Nat
        BY <4>1
      <4> QED BY <4>1, <4>2
    <3>4. \A i, j \in DOMAIN mems : i # j => mems[i].fd # mems[j].fd
      BY <1>0, <3>3 DEF SeatsAreConsistent, SeatsOf
    <3>5. t.type = "chat" /\ \A fd \in Fds : Count(outgoing', RepliesTo(fd)) = 0
      <4>1. t.type = "chat"
        BY <2>10 DEF Chat
      <4>2. ASSUME NEW fd \in Fds PROVE Count(outgoing', RepliesTo(fd)) = 0
        BY <3>1, <3>3, <3>4, BroadcastWay
      <4> QED BY <4>1, <4>2
    <3>6. RequestsAreAnswered'
      BY <1>0, <2>1, <3>5, HandlerAnswers
    <3> QED BY <1>2, <3>2, <3>6
  <2> QED BY <2>1, <2>5, <2>6, <2>7, <2>8, <2>9, <2>10
<1> QED BY <1>4, <1>5, <1>6, <1>7, <1>8, <1>10, <1>11, <1>12 DEF Next

(* Nothing is owed at first.                                                *)
LEMMA InitDelivery == Init => DeliveryInv
<1> SUFFICES ASSUME Init PROVE DeliveryInv
  OBVIOUS
<1>1. Mail = {} /\ Range(tasks) = {} /\ Served = {}
  BY DEF Init, Mail, Range, Served
<1>2. AddressInv
  BY <1>1 DEF Init, AddressInv, NewcomersAreNew, TasksFit, MailFits, HearersAreMembers
<1>3. NothingIsForeseen
  BY DEF Init, NothingIsForeseen
<1> QED BY <1>1, <1>2, <1>3 DEF DeliveryInv, MembersMissNothing, RequestsAreAnswered

(* Delivery: every message on its way and every task in the queue names     *)
(* whom it is for, and with what the members have heard and are owed it     *)
(* makes up what has been said and asked: this is inductive.                *)
THEOREM DeliveryHolds == Spec => []DeliveryInv
<1>1. RoomInv /\ RoomInv' /\ DeliveryInv /\ [Next]_vars => DeliveryInv'
  BY DeliveryStep
<1> QED BY <1>1, InitDelivery, RoomInvariantHolds, PTL DEF Spec

(* Broadcast: for every number of reactors, connections, rooms and members, *)
(* whoever leaves, comes under an old descriptor or joins in between, a     *)
(* member who is connected hears everything that is said in its rooms since *)
(* it joined, once and in order (sendMsgToClient, postRawMessage).          *)
THEOREM MembersHearAll == Spec => []MembersMissNothing
<1>1. DeliveryInv => MembersMissNothing
  BY DEF DeliveryInv
<1> QED BY <1>1, DeliveryHolds, PTL

(* Requests: whatever way handleRoomTask leaves, each request that was read *)
(* from one who is connected is in the queue, or its reply is on its way,   *)
(* or it has been delivered: one reply for each.                            *)
THEOREM RequestsAlwaysAnswered == Spec => []RequestsAreAnswered
<1>1. DeliveryInv => RequestsAreAnswered
  BY DEF DeliveryInv
<1> QED BY <1>1, DeliveryHolds, PTL

-----------------------------------------------------------------------------
(* Logs. *)

(* A set of numbers up to m has a largest.                                  *)
LEMMA HasLargest ==
  ASSUME NEW m \in Nat, NEW S \in SUBSET (1 .. m), S # {}
  PROVE  \E j \in S : \A k \in S : k <= j
<1> DEFINE T == {m - j : j \in S}
           R == OpToRel(<, Nat)
<1>1. T \subseteq Nat /\ T # {}
  <2>1. \A j \in S : m - j \in Nat
    OBVIOUS
  <2>2. PICK j : j \in S
    OBVIOUS
  <2>3. m - j \in T
    BY <2>2
  <2> QED BY <2>1, <2>3
<1>2. IsWellFoundedOn(R, Nat)
  BY NatLessThanWellFounded
<1>3. \A x, y \in Nat : <<y, x>> \in R <=> y < x
  BY DEF OpToRel
<1> HIDE DEF R, T
<1>4. PICK x \in T : \A y \in T : ~(<<y, x>> \in R)
  BY <1>1, <1>2, WFMin
<1>5. PICK j \in S : x = m - j
  BY <1>4 DEF T
<1>6. \A k \in S : ~(m - k < m - j)
  BY <1>1, <1>3, <1>4, <1>5 DEF T
<1> QED BY <1>6

(* LastAiBefore is an answer of the AI, and there is none after it.         *)
LEMMA LastAi ==
  ASSUME NEW events, NEW i \in Nat \ {0}
  PROVE  /\ LastAiBefore(events, i) \in 0 .. i - 1
         /\ LastAiBefore(events, i) # 0 => events[LastAiBefore(events, i)].kind = "ai"
         /\ \A k \in LastAiBefore(events, i) + 1 .. i - 1 : events[k].kind # "ai"
<1> DEFINE ai == {j \in 1 .. i - 1 : events[j].kind = "ai"}
           a == CHOOSE j \in ai : \A k \in ai : k <= j
<1>1. CASE ai = {}
  <2>1. LastAiBefore(events, i) = 0
    BY <1>1 DEF LastAiBefore
  <2> QED BY <1>1, <2>1
<1>2. CASE ai # {}
  <2>1. LastAiBefore(events, i) = a
    BY <1>2 DEF LastAiBefore
  <2>2. i - 1 \in Nat /\ ai \in SUBSET (1 .. i - 1)
    OBVIOUS
  <2> HIDE DEF ai
  <2>3. \E j \in ai : \A k \in ai : k <= j
    BY <1>2, <2>2, HasLargest
  <2>4. a \in ai /\ \A k \in ai : k <= a
    BY <2>3
  <2> HIDE DEF a
  <2>5. a \in 1 .. i - 1 /\ events[a].kind = "ai"
    BY <2>4 DEF ai
  <2>6. \A k \in a + 1 .. i - 1 : events[k].kind # "ai"
    BY <2>4, <2>5 DEF ai
  <2> QED BY <2>1, <2>5, <2>6
<1> QED BY <1>1, <1>2

(* There is only one such place.                                            *)
LEMMA LastAiIs ==
  ASSUME NEW events, NEW i \in Nat \ {0}, NEW a \in 0 .. i - 1,
         a # 0 => events[a].kind = "ai",
         \A k \in a + 1 .. i - 1 : events[k].kind # "ai"
  PROVE  LastAiBefore(events, i) = a
<1>1. PICK b : b = LastAiBefore(events, i)
  OBVIOUS
<1>2. /\ b \in 0 .. i - 1 /\ (b # 0 => events[b].kind = "ai")
      /\ \A k \in b + 1 .. i - 1 : events[k].kind # "ai"
  BY <1>1, LastAi
<1>3. ~(a < b)
  BY <1>2
<1>4. ~(b < a)
  BY <1>2
<1> QED BY <1>1, <1>2, <1>3, <1>4

(* more has the events of events, and perhaps others after them.            *)
Extends(more, events) ==
    /\ Len(events) \in Nat /\ Len(more) \in Nat /\ Len(events) <= Len(more)
    /\ \A i \in 1 .. Len(events) : more[i] = events[i]

(* What happens later changes nothing of what was due. *)
LEMMA PastIsFixed ==
  ASSUME NEW events, NEW more, Extends(more, events), NEW i \in 1 .. Len(events) + 1
  PROVE  /\ LastAiBefore(more, i) = LastAiBefore(events, i)
         /\ MembersBefore(more, i) = MembersBefore(events, i)
         /\ \A a \in Nat : SpeakersBetween(more, a, i - 1) = SpeakersBetween(events, a, i - 1)
<1>1. \A j \in 1 .. i - 1 : more[j] = events[j]
  BY DEF Extends
<1>2. i \in Nat \ {0}
  BY DEF Extends
<1>3. LastAiBefore(more, i) = LastAiBefore(events, i)
  <2> DEFINE A == {j \in 1 .. i - 1 : events[j].kind = "ai"}
             B == {j \in 1 .. i - 1 : more[j].kind = "ai"}
  <2>1. A = B
    BY <1>1
  <2>2. LastAiBefore(events, i) = IF A = {} THEN 0 ELSE CHOOSE j \in A : \A k \in A : k <= j
    BY DEF LastAiBefore
  <2>3. LastAiBefore(more, i) = IF B = {} THEN 0 ELSE CHOOSE j \in B : \A k \in B : k <= j
    BY DEF LastAiBefore
  <2> HIDE DEF A, B
  <2> QED BY <2>1, <2>2, <2>3
<1>4. MembersBefore(more, i) = MembersBefore(events, i)
  <2> DEFINE J == {k \in 1 .. i - 1 : events[k].kind \in {"created", "joined"}}
  <2>1. {k \in 1 .. i - 1 : more[k].kind \in {"created", "joined"}} = J
    BY <1>1
  <2>2. \A j \in J : more[j].fd = events[j].fd
    BY <1>1
  <2> HIDE DEF J
  <2>3. {more[j].fd : j \in J} = {events[j].fd : j \in J}
    BY <2>2
  <2> QED BY <2>1, <2>3 DEF MembersBefore, J
<1>5. ASSUME NEW a \in Nat
      PROVE  SpeakersBetween(more, a, i - 1) = SpeakersBetween(events, a, i - 1)
  <2> DEFINE J == {k \in a + 1 .. i - 1 : events[k].kind = "text"}
  <2>0. \A k \in a + 1 .. i - 1 : k \in 1 .. i - 1
    BY <1>2
  <2>1. {k \in a + 1 .. i - 1 : more[k].kind = "text"} = J
    BY <1>1, <2>0
  <2>2. \A j \in J : more[j].fd = events[j].fd
    BY <1>1, <2>0
  <2> HIDE DEF J
  <2>3. {more[j].fd : j \in J} = {events[j].fd : j \in J}
    BY <2>2
  <2> QED BY <2>1, <2>3 DEF SpeakersBetween, J
<1> QED BY <1>3, <1>4, <1>5

(* What was due stays due, and nothing becomes due afterwards.              *)
LEMMA DueIsFixed ==
  ASSUME NEW events, NEW more, Extends(more, events), NEW i \in 1 .. Len(events),
         events[1].kind = "created"
  PROVE  Due(more, i) <=> Due(events, i)
<1>1. PICK a : a = LastAiBefore(events, i)
  OBVIOUS
<1>2. i \in Nat \ {0} /\ i \in 1 .. Len(events) + 1 /\ i + 1 \in 1 .. Len(events) + 1
      /\ 1 \in 1 .. Len(events)
  BY DEF Extends
<1>3. a \in 0 .. i - 1 /\ (a # 0 => events[a].kind = "ai")
  BY <1>1, <1>2, LastAi
<1>4. a # 0 => a - 1 \in 1 .. Len(events)
  <2>1. a # 1
    BY <1>3
  <2> QED BY <1>3, <2>1 DEF Extends
<1>5. LastAiBefore(more, i) = a /\ MembersBefore(more, i) = MembersBefore(events, i)
  BY <1>1, <1>2, PastIsFixed
<1>6. SpeakersBetween(more, a, i) = SpeakersBetween(events, a, i)
  <2>1. (i + 1) - 1 = i /\ a \in Nat
    BY <1>2, <1>3
  <2> QED BY <1>2, <2>1, PastIsFixed
<1>7. more[i] = events[i] /\ more[1] = events[1] /\ (a # 0 => more[a - 1] = events[a - 1])
  BY <1>2, <1>4 DEF Extends
<1> QED BY <1>1, <1>5, <1>6, <1>7 DEF Due

(* more is the n events of events, and then e.                              *)
Longer(more, events, n, e) ==
    /\ n \in Nat /\ Extends(more, events)
    /\ Len(events) = n /\ Len(more) = n + 1 /\ more[n + 1] = e

(* One event more. *)
LEMMA OneMore ==
  ASSUME NEW events, NEW more, NEW n, NEW e, Longer(more, events, n, e)
  PROVE  /\ LastAiBefore(more, n + 2)
               = IF e.kind = "ai" THEN n + 1 ELSE LastAiBefore(events, n + 1)
         /\ MembersBefore(more, n + 2)
               = MembersBefore(events, n + 1)
                 \cup (IF e.kind \in {"created", "joined"} THEN {e.fd} ELSE {})
<1>0. n \in Nat /\ more[n + 1] = e
  BY DEF Longer
<1>1. \A j \in 1 .. n : more[j] = events[j]
  BY DEF Longer, Extends
<1>2. (n + 2) - 1 = n + 1 /\ (n + 1) - 1 = n /\ n + 1 \in Nat \ {0} /\ n + 2 \in Nat \ {0}
      /\ 1 .. n + 1 = (1 .. n) \cup {n + 1} /\ n + 1 \notin 1 .. n
  BY <1>0
<1>3. LastAiBefore(more, n + 2)
         = IF e.kind = "ai" THEN n + 1 ELSE LastAiBefore(events, n + 1)
  <2>1. CASE e.kind = "ai"
    <3>1. n + 1 \in 0 .. (n + 2) - 1 /\ (n + 1) + 1 .. (n + 2) - 1 = {}
      BY <1>0
    <3> QED BY <1>0, <1>2, <2>1, <3>1, LastAiIs
  <2>2. CASE e.kind # "ai"
    <3>1. PICK a : a = LastAiBefore(events, n + 1)
      OBVIOUS
    <3>2. /\ a \in 0 .. n /\ (a # 0 => events[a].kind = "ai")
          /\ \A k \in a + 1 .. n : events[k].kind # "ai"
      BY <1>2, <3>1, LastAi
    <3>3. a \in 0 .. (n + 2) - 1 /\ (a # 0 => more[a].kind = "ai")
      BY <1>0, <1>1, <3>2
    <3>4. \A k \in a + 1 .. (n + 2) - 1 : more[k].kind # "ai"
      <4>1. \A k \in a + 1 .. (n + 2) - 1 : k = n + 1 \/ (k \in a + 1 .. n /\ k \in 1 .. n)
        BY <1>0, <3>2
      <4> QED BY <1>0, <1>1, <2>2, <3>2, <4>1
    <3>5. LastAiBefore(more, n + 2) = a
      BY <1>2, <3>3, <3>4, LastAiIs
    <3> QED BY <2>2, <3>1, <3>5
  <2> QED BY <2>1, <2>2
<1>4. MembersBefore(more, n + 2)
         = MembersBefore(events, n + 1)
           \cup (IF e.kind \in {"created", "joined"} THEN {e.fd} ELSE {})
  <2> DEFINE K == {"created", "joined"}
  <2>1. MembersBefore(more, n + 2) = {more[j].fd : j \in {k \in 1 .. n + 1 : more[k].kind \in K}}
    BY <1>2 DEF MembersBefore
  <2>2. MembersBefore(events, n + 1) = {events[j].fd : j \in {k \in 1 .. n : events[k].kind \in K}}
    BY <1>2 DEF MembersBefore
  <2> HIDE DEF K
  <2>3. \A x : x \in MembersBefore(more, n + 2)
                  <=> x \in MembersBefore(events, n + 1) \/ (e.kind \in K /\ x = e.fd)
    BY <1>0, <1>1, <1>2, <2>1, <2>2
  <2>4. MembersBefore(more, n + 2)
           = MembersBefore(events, n + 1) \cup (IF e.kind \in K THEN {e.fd} ELSE {})
    BY <2>3
  <2> QED BY <2>4 DEF K
<1> QED BY <1>3, <1>4

(* Who has spoken, with one event more. *)
LEMMA OneSpeaker ==
  ASSUME NEW events, NEW more, NEW n, NEW e, Longer(more, events, n, e), NEW a \in 0 .. n
  PROVE  /\ e.kind = "text" =>
               SpeakersBetween(more, a, n + 1) = SpeakersBetween(events, a, n) \cup {e.fd}
         /\ e.kind # "text" =>
               SpeakersBetween(more, a, n + 1) = SpeakersBetween(events, a, n)
<1>0. n \in Nat /\ more[n + 1] = e
  BY DEF Longer
<1>1. \A j \in 1 .. n : more[j] = events[j]
  BY DEF Longer, Extends
<1>2. a + 1 .. n + 1 = (a + 1 .. n) \cup {n + 1} /\ \A k \in a + 1 .. n : k \in 1 .. n
  BY <1>0
<1>3. \A x : x \in SpeakersBetween(more, a, n + 1)
                <=> x \in SpeakersBetween(events, a, n) \/ (e.kind = "text" /\ x = e.fd)
  BY <1>0, <1>1, <1>2 DEF SpeakersBetween
<1> QED BY <1>3

(* The event is that somebody joins.                                        *)
LEMMA OneJoined ==
  ASSUME NEW events, NEW more, NEW n, NEW e, Longer(more, events, n, e), e.kind = "joined",
         NEW a \in 0 .. n
  PROVE  /\ LastAiBefore(more, n + 2) = LastAiBefore(events, n + 1)
         /\ MembersBefore(more, n + 2) = MembersBefore(events, n + 1) \cup {e.fd}
         /\ SpeakersBetween(more, a, n + 1) = SpeakersBetween(events, a, n)
<1>1. LastAiBefore(more, n + 2)
         = IF e.kind = "ai" THEN n + 1 ELSE LastAiBefore(events, n + 1)
  BY OneMore
<1>2. MembersBefore(more, n + 2)
         = MembersBefore(events, n + 1)
           \cup (IF e.kind \in {"created", "joined"} THEN {e.fd} ELSE {})
  BY OneMore
<1>3. /\ e.kind = "text" =>
            SpeakersBetween(more, a, n + 1) = SpeakersBetween(events, a, n) \cup {e.fd}
      /\ e.kind # "text" =>
            SpeakersBetween(more, a, n + 1) = SpeakersBetween(events, a, n)
  BY OneSpeaker
<1>4. e.kind # "ai" /\ e.kind # "text" /\ e.kind \in {"created", "joined"}
  OBVIOUS
<1> QED BY <1>1, <1>2, <1>3, <1>4

(* The event is a text.                                                     *)
LEMMA OneText ==
  ASSUME NEW events, NEW more, NEW n, NEW e, Longer(more, events, n, e), e.kind = "text",
         NEW a \in 0 .. n
  PROVE  /\ LastAiBefore(more, n + 2) = LastAiBefore(events, n + 1)
         /\ MembersBefore(more, n + 2) = MembersBefore(events, n + 1)
         /\ SpeakersBetween(more, a, n + 1) = SpeakersBetween(events, a, n) \cup {e.fd}
<1>1. LastAiBefore(more, n + 2)
         = IF e.kind = "ai" THEN n + 1 ELSE LastAiBefore(events, n + 1)
  BY OneMore
<1>2. MembersBefore(more, n + 2)
         = MembersBefore(events, n + 1)
           \cup (IF e.kind \in {"created", "joined"} THEN {e.fd} ELSE {})
  BY OneMore
<1>3. /\ e.kind = "text" =>
            SpeakersBetween(more, a, n + 1) = SpeakersBetween(events, a, n) \cup {e.fd}
      /\ e.kind # "text" =>
            SpeakersBetween(more, a, n + 1) = SpeakersBetween(events, a, n)
  BY OneSpeaker
<1>4. e.kind # "ai" /\ e.kind = "text" /\ e.kind \notin {"created", "joined"}
  OBVIOUS
<1> QED BY <1>1, <1>2, <1>3, <1>4

-----------------------------------------------------------------------------
(* Turns. *)

(* A log that grows by an event.                                            *)
LEMMA GrownExtends ==
  ASSUME RoomTypeOK, NEW r \in RoomIds, NEW e, GrowsBy(r, e)
  PROVE  /\ Extends(log'[r], log[r]) /\ Len(log[r]) \in Nat
         /\ Len(log'[r]) = Len(log[r]) + 1 /\ log'[r][Len(log[r]) + 1] = e
         /\ Longer(log'[r], log[r], Len(log[r]), e)
<1>1. /\ Len(log[r]) \in Nat /\ Len(log'[r]) = Len(log[r]) + 1
      /\ log'[r][Len(log[r]) + 1] = e
      /\ \A i \in 1 .. Len(log[r]) : log'[r][i] = log[r][i]
  BY Grown
<1>2. Len(log'[r]) \in Nat /\ Len(log[r]) <= Len(log'[r])
  BY <1>1
<1> QED BY <1>1, <1>2 DEF Extends, Longer

(* Where the AI's turn is counted from is in the log.                       *)
LEMMA TurnStarts ==
  ASSUME RoomTypeOK, NEW r \in RoomIds, TurnOf(r)
  PROVE  LET n == Len(log[r])
             a == LastAiBefore(log[r], n + 1)
         IN /\ n \in Nat \ {0} /\ a \in 0 .. n
            /\ (IF a = 0 THEN 1 ELSE a - 1) \in 1 .. n
<1>1. PICK n, events : n = Len(log[r]) /\ events = log[r]
  OBVIOUS
<1>2. n \in Nat \ {0} /\ events[1].kind = "created"
  BY <1>1 DEF RoomTypeOK, TurnOf
<1>3. PICK a : a = LastAiBefore(events, n + 1)
  OBVIOUS
<1>4. a \in 0 .. n /\ (a # 0 => events[a].kind = "ai")
  <2>1. n + 1 \in Nat \ {0} /\ (n + 1) - 1 = n
    BY <1>2
  <2> QED BY <1>3, <2>1, LastAi
<1>5. a # 1
  BY <1>2, <1>4
<1> QED BY <1>1, <1>2, <1>3, <1>4, <1>5

(* Everybody who is to be counted has come: the creator was seated if there *)
(* is anybody.                                                              *)
LEMMA EverybodyCame ==
  ASSUME RoomInv, NEW r \in RoomIds, TurnOf(r), MemberFds(r) # {}
  PROVE  MemberFds(r) = MembersBefore(log[r], Len(log[r]) + 1)
<1>1. members[r] # <<>> /\ members[r] \in Seq(Members) /\ SeatsOf(r)
  BY DEF MemberFds, Range, RoomInv, RoomTypeOK, SeatsAreConsistent
<1>2. Len(members[r]) > 0
  BY <1>1
<1>3. rooms[r].max # 0
  BY <1>1, <1>2 DEF SeatsOf
<1> QED BY <1>3 DEF TurnOf

(* Comparing the sizes, as allRealPlayersSpoke does, is asking whether      *)
(* every member is among those who have spoken.                             *)
LEMMA AllSpokeIs ==
  ASSUME RoomInv, NEW r \in RoomIds, NEW fds \in SUBSET MemberFds(r)
  PROVE  AllRealPlayersSpoke(r, fds) <=> MemberFds(r) \subseteq fds
<1>1. PICK M : M = MemberFds(r)
  OBVIOUS
<1>2. /\ IsFiniteSet(M) /\ Cardinality(M) = Len(members[r]) /\ fds \subseteq M
  BY <1>1, MembersCount DEF RoomInv, RoomTypeOK, SeatsAreConsistent
<1>3. /\ IsFiniteSet(fds) /\ Cardinality(fds) <= Cardinality(M)
      /\ (Cardinality(fds) = Cardinality(M) => fds = M)
      /\ Cardinality(fds) \in Nat /\ Cardinality(M) \in Nat
  BY <1>2, FS_Subset, FS_CardinalityType
<1>4. Cardinality(fds) >= Cardinality(M) <=> Cardinality(fds) = Cardinality(M)
  BY <1>3
<1>5. M \subseteq fds <=> fds = M
  BY <1>2
<1> QED BY <1>1, <1>2, <1>3, <1>4, <1>5 DEF AllRealPlayersSpoke

(* handleChat calls the AI exactly for a text it has to answer.             *)
LEMMA CalledWhenDue ==
  ASSUME RoomInv, NEW r \in RoomIds, TurnOf(r), calling # r,
         NEW fd \in MemberFds(r), NEW mention \in BOOLEAN,
         GrowsBy(r, [kind |-> "text", fd |-> fd, at |-> now, mention |-> mention])
  PROVE  Due(log'[r], Len(log[r]) + 1) <=>
            \/ mention
            \/ ~mention /\ AllRealPlayersSpoke(r, spoken[r] \cup {fd})
            \/ AiCooldownExpired(r)
<1> DEFINE e == [kind |-> "text", fd |-> fd, at |-> now, mention |-> mention]
<1>0. RoomTypeOK
  BY DEF RoomInv
<1>1. PICK events, more, n, a :
         /\ events = log[r] /\ more = log'[r] /\ n = Len(log[r])
         /\ a = LastAiBefore(events, n + 1)
  OBVIOUS
<1>2. /\ Extends(more, events) /\ n \in Nat \ {0} /\ a \in 0 .. n
      /\ (IF a = 0 THEN 1 ELSE a - 1) \in 1 .. n
      /\ Len(events) = n /\ Len(more) = n + 1 /\ more[n + 1] = e
  BY <1>0, <1>1, GrownExtends, TurnStarts
<1>3. LastAiBefore(more, n + 1) = a /\ MembersBefore(more, n + 1) = MemberFds(r)
  <2>1. n + 1 \in 1 .. Len(events) + 1
    BY <1>2
  <2>2. /\ LastAiBefore(more, n + 1) = LastAiBefore(events, n + 1)
        /\ MembersBefore(more, n + 1) = MembersBefore(events, n + 1)
    BY <1>2, <2>1, PastIsFixed
  <2> QED BY <1>1, <2>2, EverybodyCame
<1>4. SpeakersBetween(more, a, n + 1) = spoken[r] \cup {fd}
  <2>1. spoken[r] = SpeakersBetween(events, a, n)
    BY <1>1 DEF TurnOf
  <2>2. e.kind = "text" /\ e.fd = fd
    OBVIOUS
  <2> HIDE DEF e
  <2>3. Longer(more, events, n, e)
    BY <1>2 DEF Longer
  <2> QED BY <1>2, <2>1, <2>2, <2>3, OneSpeaker
<1>5. (IF a = 0 THEN more[1].at ELSE more[a - 1].at) = lastAi[r]
  <2>1. lastAi[r] = events[IF a = 0 THEN 1 ELSE a - 1].at
    BY <1>1 DEF TurnOf
  <2>2. \A i \in 1 .. n : more[i] = events[i]
    BY <1>2 DEF Extends
  <2>3. CASE a = 0
    BY <1>2, <2>1, <2>2, <2>3
  <2>4. CASE a # 0
    BY <1>2, <2>1, <2>2, <2>4
  <2> QED BY <2>3, <2>4
<1>6. more[n + 1].mention = mention /\ more[n + 1].at = now
  BY <1>2
<1>7. Due(more, n + 1) <=>
         \/ mention \/ now - lastAi[r] >= AiGap
         \/ MemberFds(r) \subseteq spoken[r] \cup {fd}
  BY <1>3, <1>4, <1>5, <1>6 DEF Due
<1>8. AllRealPlayersSpoke(r, spoken[r] \cup {fd}) <=> MemberFds(r) \subseteq spoken[r] \cup {fd}
  <2>1. spoken[r] \subseteq MemberFds(r)
    BY DEF RoomInv, RoundIsOpen, RoundOf
  <2> QED BY <2>1, AllSpokeIs
<1> QED BY <1>1, <1>7, <1>8 DEF AiCooldownExpired

(* What has been settled stays settled when the log grows: for the events   *)
(* before the last nothing changes, and the last has been answered if it is *)
(* the AI that speaks.                                                      *)
LEMMA GrownSpeaks ==
  ASSUME RoomTypeOK, NEW r \in RoomIds, SpeaksWhenDue(r), log[r][1].kind = "created",
         NEW e, GrowsBy(r, e), e.kind = "ai" <=> calling = r,
         calling' = r <=> e.kind = "text" /\ Due(log'[r], Len(log[r]) + 1)
  PROVE  SpeaksWhenDue(r)'
<1>1. PICK events, more, n : events = log[r] /\ more = log'[r] /\ n = Len(log[r])
  OBVIOUS
<1>2. /\ Extends(more, events) /\ n \in Nat /\ Len(events) = n
      /\ Len(more) = n + 1 /\ more[n + 1] = e
  BY <1>1, GrownExtends
<1>3. DOMAIN events = 1 .. n /\ DOMAIN more = 1 .. n + 1
  BY <1>1, Grown
<1>4. ASSUME NEW i \in 1 .. n + 1
      PROVE  (IF i = n + 1 THEN calling' = r ELSE more[i + 1].kind = "ai")
                <=> more[i].kind = "text" /\ Due(more, i)
  <2>1. CASE i = n + 1
    BY <1>1, <1>2, <2>1
  <2>2. CASE i # n + 1
    <3>1. i \in 1 .. n /\ more[i] = events[i]
      BY <1>2, <1>4, <2>2 DEF Extends
    <3>2. Due(more, i) <=> Due(events, i)
      BY <1>1, <1>2, <3>1, DueIsFixed
    <3>3. (IF i = n THEN calling = r ELSE events[i + 1].kind = "ai")
             <=> events[i].kind = "text" /\ Due(events, i)
      BY <1>1, <1>3, <3>1 DEF SpeaksWhenDue
    <3>4. more[i + 1].kind = "ai" <=> IF i = n THEN calling = r ELSE events[i + 1].kind = "ai"
      <4>1. CASE i = n
        BY <1>2, <4>1
      <4>2. CASE i # n
        <5>1. i + 1 \in 1 .. Len(events)
          BY <1>2, <3>1, <4>2
        <5>2. more[i + 1] = events[i + 1]
          BY <1>2, <5>1 DEF Extends
        <5> QED BY <4>2, <5>2
      <4> QED BY <4>1, <4>2
    <3> QED BY <2>2, <3>1, <3>2, <3>3, <3>4
  <2> QED BY <2>1, <2>2
<1> QED BY <1>1, <1>2, <1>3, <1>4 DEF SpeaksWhenDue

(* A room in which nothing happens. *)
LEMMA TurnSame ==
  ASSUME NEW r, log'[r] = log[r], members'[r] = members[r], rooms'[r] = rooms[r],
         spoken'[r] = spoken[r], lastAi'[r] = lastAi[r], calling' = r <=> calling = r
  PROVE  (TurnOf(r) => TurnOf(r)') /\ (SpeaksWhenDue(r) => SpeaksWhenDue(r)')
<1>1. MemberFds(r)' = MemberFds(r)
  BY DEF MemberFds
<1>2. TurnOf(r) => TurnOf(r)'
  BY <1>1 DEF TurnOf
<1>3. SpeaksWhenDue(r) => SpeaksWhenDue(r)'
  BY DEF SpeaksWhenDue
<1> QED BY <1>2, <1>3

(* A step in which nobody speaks, joins or creates a room.                  *)
LEMMA QuietTurns ==
  ASSUME TurnsTaken, UNCHANGED <<log, members, rooms, spoken, lastAi, calling>>
  PROVE  TurnsTaken'
<1>1. \A r \in RoomIds : (TurnOf(r) => TurnOf(r)') /\ (SpeaksWhenDue(r) => SpeaksWhenDue(r)')
  BY TurnSame
<1> QED BY <1>1 DEF TurnsTaken, TurnInv, AiSpeaksExactlyWhenDue

(* One room changes. *)
LEMMA OtherTurns ==
  ASSUME TurnsTaken, NEW r,
         \A q \in RoomIds \ {r} :
            /\ log'[q] = log[q] /\ members'[q] = members[q] /\ rooms'[q] = rooms[q]
            /\ spoken'[q] = spoken[q] /\ lastAi'[q] = lastAi[q]
            /\ calling' = q <=> calling = q,
         r \in RoomIds /\ rooms'[r].ai # <<>> => TurnOf(r)' /\ SpeaksWhenDue(r)'
  PROVE  TurnsTaken'
<1>1. \A q \in RoomIds \ {r} :
         (TurnOf(q) => TurnOf(q)') /\ (SpeaksWhenDue(q) => SpeaksWhenDue(q)')
  BY TurnSame
<1>2. \A q \in RoomIds : rooms'[q].ai # <<>> => TurnOf(q)' /\ SpeaksWhenDue(q)'
  BY <1>1 DEF TurnsTaken, TurnInv, AiSpeaksExactlyWhenDue
<1> QED BY <1>2 DEF TurnsTaken, TurnInv, AiSpeaksExactlyWhenDue

(* handleChat: the text counts for the round, or ends it.                   *)
LEMMA ChatTurns ==
  ASSUME RoomInv, TurnsTaken, calling = NoRoom, NEW t \in Tasks, Chat(t)
  PROVE  TurnsTaken'
<1>0. RoomTypeOK /\ NoRoom \notin RoomIds /\ NoFd \notin Fds
  BY RoomAssumption DEF RoomInv, NoRoom, RoomIds
<1>1. PICK r \in RoomIds :
            LET mention  == MentionsAI(r, t.text)
                round    == IF mention THEN spoken[r] ELSE spoken[r] \cup {t.fromFd}
                complete == ~mention /\ AllRealPlayersSpoke(r, round)
                callAI   == /\ mention \/ complete \/ AiCooldownExpired(r)
                            /\ rooms[r].ai # <<>>
            IN
            /\ t.fromFd \in MemberFds(r)
            /\ GrowsBy(r, [kind |-> "text", fd |-> t.fromFd, at |-> now,
                           mention |-> mention])
            /\ spoken' = [spoken EXCEPT ![r] = RoundAfter(round, complete, callAI)]
            /\ lastAi' = IF callAI THEN [lastAi EXCEPT ![r] = now] ELSE lastAi
            /\ calling' = IF callAI THEN r ELSE NoRoom
            /\ UNCHANGED setupVars
  BY ChatDoes
<1>2. PICK fd \in MemberFds(r), mention \in BOOLEAN :
         fd = t.fromFd /\ mention = MentionsAI(r, t.text)
  BY <1>1 DEF MentionsAI
<1>3. PICK complete \in BOOLEAN :
         complete = (~mention /\ AllRealPlayersSpoke(r, spoken[r] \cup {fd}))
  OBVIOUS
<1>4. PICK callAI \in BOOLEAN :
         callAI = ((mention \/ complete \/ AiCooldownExpired(r)) /\ rooms[r].ai # <<>>)
  OBVIOUS
<1>5. PICK e : e = [kind |-> "text", fd |-> fd, at |-> now, mention |-> mention]
  OBVIOUS
<1>6. /\ GrowsBy(r, e)
      /\ lastAi' = IF callAI THEN [lastAi EXCEPT ![r] = now] ELSE lastAi
      /\ calling' = IF callAI THEN r ELSE NoRoom
      /\ rooms' = rooms /\ members' = members
  BY <1>1, <1>2, <1>3, <1>4, <1>5 DEF setupVars
<1>7. spoken' = [spoken EXCEPT ![r] =
                    IF complete \/ callAI THEN {}
                    ELSE IF mention THEN spoken[r] ELSE spoken[r] \cup {fd}]
  BY <1>1, <1>2, <1>3, <1>4 DEF RoundAfter
<1>8. /\ spoken \in [RoomIds -> SUBSET Fds] /\ lastAi \in [RoomIds -> Nat]
      /\ now \in Nat /\ fd \in Fds
  BY <1>0, <1>1, <1>2 DEF RoomTypeOK, Tasks
<1>9. \A q \in RoomIds \ {r} :
         /\ log'[q] = log[q] /\ members'[q] = members[q] /\ rooms'[q] = rooms[q]
         /\ spoken'[q] = spoken[q] /\ lastAi'[q] = lastAi[q]
         /\ calling' = q <=> calling = q
  <2>1. \A q \in RoomIds \ {r} : log'[q] = log[q]
    BY <1>0, <1>6, Grown
  <2>2. \A q \in RoomIds \ {r} : spoken'[q] = spoken[q]
    BY <1>7, <1>8
  <2>3. \A q \in RoomIds \ {r} : lastAi'[q] = lastAi[q]
    BY <1>6, <1>8
  <2>4. \A q \in RoomIds \ {r} : calling' = q <=> calling = q
    BY <1>0, <1>6
  <2> QED BY <1>6, <2>1, <2>2, <2>3, <2>4
<1>10. ASSUME rooms[r].ai # <<>>
       PROVE  TurnOf(r)' /\ SpeaksWhenDue(r)'
  <2>1. TurnOf(r) /\ SpeaksWhenDue(r) /\ calling # r
    BY <1>0, <1>10 DEF TurnsTaken, TurnInv, AiSpeaksExactlyWhenDue
  <2>2. PICK events, more, n, a :
           /\ events = log[r] /\ more = log'[r] /\ n = Len(log[r])
           /\ a = LastAiBefore(events, n + 1)
    OBVIOUS
  <2>3. /\ Extends(more, events) /\ n \in Nat \ {0} /\ a \in 0 .. n
        /\ (IF a = 0 THEN 1 ELSE a - 1) \in 1 .. n
        /\ Len(events) = n /\ Len(more) = n + 1 /\ more[n + 1] = e
    BY <1>0, <1>6, <2>1, <2>2, GrownExtends, TurnStarts
  <2>4. Due(more, n + 1) <=> callAI
    BY <1>3, <1>4, <1>5, <1>6, <1>10, <2>1, <2>2, CalledWhenDue
  <2>5. calling' = r <=> callAI
    BY <1>0, <1>6
  <2>6. e.kind = "text" /\ e.fd = fd /\ e.at = now
    BY <1>5
  <2>7. events[1].kind = "created"
    BY <2>1, <2>2 DEF TurnOf
  <2>8. SpeaksWhenDue(r)'
    <3>1. log[r][1].kind = "created"
      BY <2>2, <2>7
    <3>2. calling' = r <=> e.kind = "text" /\ Due(log'[r], Len(log[r]) + 1)
      BY <2>2, <2>4, <2>5, <2>6
    <3>3. e.kind = "ai" <=> calling = r
      BY <2>1, <2>6
    <3> QED BY <1>0, <1>6, <2>1, <3>1, <3>2, <3>3, GrownSpeaks
  <2>9. /\ LastAiBefore(more, n + 2) = a
        /\ MembersBefore(more, n + 2) = MembersBefore(events, n + 1)
        /\ SpeakersBetween(more, a, n + 1) = SpeakersBetween(events, a, n) \cup {fd}
    <3>1. a \in 0 .. n /\ Longer(more, events, n, e)
      BY <2>3 DEF Longer
    <3>2. e.kind = "text" /\ a = LastAiBefore(events, n + 1) /\ e.fd = fd
      BY <2>2, <2>3, <2>6
    <3>3. /\ LastAiBefore(more, n + 2) = LastAiBefore(events, n + 1)
          /\ MembersBefore(more, n + 2) = MembersBefore(events, n + 1)
          /\ SpeakersBetween(more, a, n + 1) = SpeakersBetween(events, a, n) \cup {e.fd}
      BY <3>1, <3>2, OneText
    <3> QED BY <3>2, <3>3
  <2>10. \A i \in 1 .. n : more[i] = events[i]
    BY <2>3 DEF Extends
  <2>11. n + 1 > 0 /\ more[1].kind = "created"
    BY <2>3, <2>7, <2>10
  <2>12. /\ MemberFds(r)' = MembersBefore(more, n + 2) \ {NoFd}
         /\ NoFd \in MembersBefore(more, n + 2) => rooms'[r].max = 0
    <3>1. MemberFds(r)' = MemberFds(r)
      BY <1>6 DEF MemberFds
    <3> QED BY <1>6, <2>1, <2>2, <2>9, <3>1 DEF TurnOf
  <2>13. CASE callAI
    <3>1. lastAi'[r] = now /\ spoken'[r] = {}
      BY <1>6, <1>7, <1>8, <2>13
    <3>2. more[n + 1].kind = "text" /\ more[n + 1].at = lastAi'[r]
      BY <2>3, <2>6, <3>1
    <3>3. (n + 1) + 1 = n + 2
      BY <2>3
    <3>4. TurnOf(r)'
      BY <2>2, <2>3, <2>5, <2>11, <2>12, <2>13, <3>1, <3>2, <3>3 DEF TurnOf
    <3> QED BY <2>8, <3>4
  <2>14. CASE ~callAI
    <3>1. ~mention /\ ~complete
      BY <1>4, <1>10, <2>14
    <3>2. lastAi'[r] = lastAi[r] /\ spoken'[r] = spoken[r] \cup {fd}
      BY <1>6, <1>7, <1>8, <2>14, <3>1
    <3>3. /\ spoken[r] = SpeakersBetween(events, a, n)
          /\ lastAi[r] = events[IF a = 0 THEN 1 ELSE a - 1].at
      BY <2>1, <2>2 DEF TurnOf
    <3>4. spoken'[r] = SpeakersBetween(more, a, n + 1)
      BY <2>9, <3>2, <3>3
    <3>5. lastAi'[r] = more[IF a = 0 THEN 1 ELSE a - 1].at
      BY <2>3, <2>10, <3>2, <3>3
    <3>6. (n + 1) + 1 = n + 2
      BY <2>3
    <3>7. TurnOf(r)'
      BY <2>2, <2>3, <2>5, <2>9, <2>11, <2>12, <2>14, <3>4, <3>5, <3>6 DEF TurnOf
    <3> QED BY <2>8, <3>7
  <2> QED BY <2>13, <2>14
<1> QED BY <1>6, <1>9, <1>10, OtherTurns

(* callDeepSeek has returned: a new round begins with what it said.         *)
LEMMA AiTurns ==
  ASSUME RoomInv, TurnsTaken, AiReply
  PROVE  TurnsTaken'
<1>0. RoomTypeOK /\ NoRoom \notin RoomIds
  BY DEF RoomInv, NoRoom, RoomIds
<1>1. PICK r \in RoomIds : r = calling
  BY <1>0 DEF AiReply, RoomTypeOK
<1>2. PICK e : e = [kind |-> "ai", fd |-> NoFd, at |-> now]
  OBVIOUS
<1>3. /\ GrowsBy(r, e) /\ calling' = NoRoom
      /\ UNCHANGED <<rooms, members, spoken, lastAi>>
  BY <1>1, <1>2 DEF AiReply, GrowsBy, setupVars
<1>4. \A q \in RoomIds \ {r} :
         /\ log'[q] = log[q] /\ members'[q] = members[q] /\ rooms'[q] = rooms[q]
         /\ spoken'[q] = spoken[q] /\ lastAi'[q] = lastAi[q]
         /\ calling' = q <=> calling = q
  <2>1. \A q \in RoomIds \ {r} : log'[q] = log[q]
    BY <1>0, <1>3, Grown
  <2> QED BY <1>0, <1>1, <1>3, <2>1
<1>5. ASSUME rooms[r].ai # <<>>
      PROVE  TurnOf(r)' /\ SpeaksWhenDue(r)'
  <2>1. TurnOf(r) /\ SpeaksWhenDue(r)
    BY <1>5 DEF TurnsTaken, TurnInv, AiSpeaksExactlyWhenDue
  <2>2. PICK events, more, n :
           events = log[r] /\ more = log'[r] /\ n = Len(log[r])
    OBVIOUS
  <2>3. /\ Extends(more, events) /\ n \in Nat \ {0}
        /\ Len(events) = n /\ Len(more) = n + 1 /\ more[n + 1] = e
    BY <1>0, <1>3, <2>1, <2>2, GrownExtends, TurnStarts
  <2>4. e.kind = "ai" /\ calling' # r
    BY <1>0, <1>2, <1>3
  <2>5. /\ events[1].kind = "created" /\ events[n].kind = "text"
        /\ events[n].at = lastAi[r] /\ spoken[r] = {}
    BY <1>1, <2>1, <2>2 DEF TurnOf
  <2>6. SpeaksWhenDue(r)'
    <3>1. log[r][1].kind = "created" /\ (e.kind = "ai" <=> calling = r)
      BY <1>1, <2>2, <2>4, <2>5
    <3>2. calling' = r <=> e.kind = "text" /\ Due(log'[r], Len(log[r]) + 1)
      BY <2>4
    <3> QED BY <1>0, <1>3, <2>1, <3>1, <3>2, GrownSpeaks
  <2>7. /\ LastAiBefore(more, n + 2) = n + 1
        /\ MembersBefore(more, n + 2) = MembersBefore(events, n + 1)
    <3>0. Longer(more, events, n, e)
      BY <2>3 DEF Longer
    <3>1. LastAiBefore(more, n + 2)
             = IF e.kind = "ai" THEN n + 1 ELSE LastAiBefore(events, n + 1)
      BY <3>0, OneMore
    <3>3. MembersBefore(more, n + 2)
             = MembersBefore(events, n + 1)
               \cup (IF e.kind \in {"created", "joined"} THEN {e.fd} ELSE {})
      BY <3>0, OneMore
    <3>2. e.kind \notin {"created", "joined"}
      BY <2>4
    <3> QED BY <2>4, <3>1, <3>2, <3>3
  <2>8. SpeakersBetween(more, n + 1, n + 1) = {}
    <3>1. (n + 1) + 1 .. n + 1 = {}
      BY <2>3
    <3> QED BY <3>1 DEF SpeakersBetween
  <2>9. \A i \in 1 .. n : more[i] = events[i]
    BY <2>3 DEF Extends
  <2>10. /\ n + 1 > 0 /\ n + 1 # 0 /\ (n + 1) - 1 = n /\ (n + 1) + 1 = n + 2
         /\ more[1].kind = "created" /\ more[n].at = lastAi[r]
    BY <2>3, <2>5, <2>9
  <2>11. /\ MemberFds(r)' = MembersBefore(more, n + 2) \ {NoFd}
         /\ NoFd \in MembersBefore(more, n + 2) => rooms'[r].max = 0
    <3>1. MemberFds(r)' = MemberFds(r)
      BY <1>3 DEF MemberFds
    <3> QED BY <1>3, <2>1, <2>2, <2>7, <3>1 DEF TurnOf
  <2>12. spoken'[r] = {} /\ lastAi'[r] = lastAi[r]
    BY <1>3, <2>5
  <2>13. TurnOf(r)'
    BY <2>2, <2>3, <2>4, <2>7, <2>8, <2>10, <2>11, <2>12 DEF TurnOf
  <2> QED BY <2>6, <2>13
<1> QED BY <1>3, <1>4, <1>5, OtherTurns

(* A room begins with its creator, who is seated unless there is no seat.   *)
LEMMA CreateTurns ==
  ASSUME RoomInv, SilenceInv, TurnsTaken, calling = NoRoom, NEW t \in Tasks, Create(t)
  PROVE  TurnsTaken'
<1>0. RoomTypeOK /\ NoRoom \notin RoomIds /\ UnbornAreEmpty /\ UnbornAreSilent /\ NoFd \notin Fds
  BY RoomAssumption DEF RoomInv, SilenceInv, NoRoom, RoomIds
<1>1. PICK new \in Nat \ {0} : new = nextRoomId
  BY <1>0 DEF RoomTypeOK
<1>2. PICK p \in Payloads, fd \in Fds : p = t.content /\ fd = t.fromFd
  BY DEF Create, Tasks
<1>3. PICK seated \in BOOLEAN : seated = ~Full(p.max, 0)
  BY DEF Full
<1>4. PICK e, mems :
         /\ e = [kind |-> "created", at |-> now, fd |-> IF seated THEN fd ELSE NoFd]
         /\ mems = IF seated THEN <<[fd |-> fd, role |-> 1]>> ELSE <<>>
  OBVIOUS
<1>5. /\ rooms' = [rooms EXCEPT ![new] = p]
      /\ members' = [members EXCEPT ![new] = mems]
      /\ lastAi' = [lastAi EXCEPT ![new] = now]
      /\ log' = [log EXCEPT ![new] = <<e>>]
      /\ spoken' = spoken /\ calling' = calling
  BY <1>1, <1>2, <1>3, <1>4 DEF Create
<1>6. /\ rooms \in [RoomIds -> Payloads \cup {NoPayload}]
      /\ members \in [RoomIds -> Seq(Members)]
      /\ lastAi \in [RoomIds -> Nat] /\ log \in [RoomIds -> Seq(Events)]
  BY <1>0 DEF RoomTypeOK
<1>7. \A q \in RoomIds \ {new} :
         /\ log'[q] = log[q] /\ members'[q] = members[q] /\ rooms'[q] = rooms[q]
         /\ spoken'[q] = spoken[q] /\ lastAi'[q] = lastAi[q]
         /\ calling' = q <=> calling = q
  BY <1>5, <1>6
<1>8. ASSUME new \in RoomIds
      PROVE  TurnOf(new)' /\ SpeaksWhenDue(new)'
  <2>1. PICK more : more = <<e>>
    OBVIOUS
  <2>2. Len(more) = 1 /\ more[1] = e /\ DOMAIN more = {1}
    BY <2>1
  <2>3. /\ log'[new] = more /\ members'[new] = mems /\ rooms'[new] = p
        /\ lastAi'[new] = now /\ calling' # new /\ spoken'[new] = spoken[new]
    BY <1>0, <1>5, <1>6, <1>8, <2>1
  <2>4. spoken[new] = {}
    <3>1. members[new] = <<>> /\ RoundOf(new)
      BY <1>1, <1>8 DEF RoomInv, UnbornAreEmpty, RoundIsOpen
    <3>2. MemberFds(new) = {}
      BY <3>1 DEF MemberFds, Range
    <3> QED BY <3>1, <3>2 DEF RoundOf
  <2>5. e.kind = "created" /\ e.at = now /\ e.fd = IF seated THEN fd ELSE NoFd
    BY <1>4
  <2>6. LastAiBefore(more, 2) = 0
    <3>1. 2 \in Nat \ {0} /\ 0 \in 0 .. 2 - 1
          /\ \A k \in 0 + 1 .. 2 - 1 : more[k].kind # "ai"
      BY <2>2, <2>5
    <3> QED BY <3>1, LastAiIs
  <2>7. MembersBefore(more, 2) = {e.fd}
    <3>1. 1 .. 2 - 1 = {1}
      OBVIOUS
    <3>2. {k \in 1 .. 2 - 1 : more[k].kind \in {"created", "joined"}} = {1}
      BY <2>2, <2>5, <3>1
    <3> QED BY <2>2, <3>2 DEF MembersBefore
  <2>8. SpeakersBetween(more, 0, 1) = {}
    <3>1. 0 + 1 .. 1 = {1}
      OBVIOUS
    <3>2. {k \in 0 + 1 .. 1 : more[k].kind = "text"} = {}
      BY <2>2, <2>5, <3>1
    <3> QED BY <3>2 DEF SpeakersBetween
  <2>9. MemberFds(new)' = {e.fd} \ {NoFd} /\ (NoFd \in {e.fd} => p.max = 0)
    <3>1. CASE seated
      <4>1. Range(mems) = {[fd |-> fd, role |-> 1]}
        BY <1>4, <3>1 DEF Range
      <4>2. MemberFds(new)' = {fd}
        BY <2>3, <4>1 DEF MemberFds
      <4> QED BY <1>0, <2>5, <3>1, <4>2
    <3>2. CASE ~seated
      <4>1. MemberFds(new)' = {}
        BY <1>4, <2>3, <3>2 DEF MemberFds, Range
      <4>2. p.max \in Int
        BY RoomAssumption
      <4>3. Full(p.max, 0)
        BY <1>3, <3>2
      <4>4. p.max = 0
        BY <4>2, <4>3 DEF Full
      <4> QED BY <2>5, <3>2, <4>1, <4>4
    <3> QED BY <3>1, <3>2
  <2>10. TurnOf(new)'
    <3>1. /\ Len(more) > 0 /\ more[1].kind = "created" /\ Len(more) + 1 = 2
          /\ lastAi'[new] = more[1].at
      BY <2>2, <2>3, <2>5
    <3> QED BY <2>2, <2>3, <2>4, <2>6, <2>7, <2>8, <2>9, <3>1 DEF TurnOf
  <2>11. SpeaksWhenDue(new)'
    <3>1. more[1].kind # "text" /\ calling' # new
      BY <2>2, <2>3, <2>5
    <3> QED BY <2>2, <2>3, <3>1 DEF SpeaksWhenDue
  <2> QED BY <2>10, <2>11
<1> QED BY <1>7, <1>8, OtherTurns

(* Who joins is one more to wait for. *)
LEMMA JoinTurns ==
  ASSUME RoomInv, TurnsTaken, calling = NoRoom, NEW t \in Tasks, Join(t)
  PROVE  TurnsTaken'
<1>0. RoomTypeOK /\ NoRoom \notin RoomIds /\ NoFd \notin Fds
  BY RoomAssumption DEF RoomInv, NoRoom, RoomIds
<1>1. PICK r \in RoomIds : r = t.roomId
  BY <1>0, Joined
<1>2. PICK fd, e :
         fd \in Fds /\ fd = t.fromFd /\ e = [kind |-> "joined", fd |-> fd, at |-> now]
  BY DEF Tasks
<1>3. /\ GrowsBy(r, e) /\ MemberFds(r)' = MemberFds(r) \cup {fd}
      /\ UNCHANGED <<rooms, spoken, lastAi, calling>>
  BY <1>0, <1>1, <1>2, Joined DEF Join, GrowsBy, speechVars
<1>4. \A q \in RoomIds \ {r} :
         /\ log'[q] = log[q] /\ members'[q] = members[q] /\ rooms'[q] = rooms[q]
         /\ spoken'[q] = spoken[q] /\ lastAi'[q] = lastAi[q]
         /\ calling' = q <=> calling = q
  <2>1. \A q \in RoomIds \ {r} : log'[q] = log[q]
    BY <1>0, <1>3, Grown
  <2>2. \A q \in RoomIds \ {r} : members'[q] = members[q]
    BY <1>0, <1>1 DEF Join, RoomTypeOK
  <2> QED BY <1>3, <2>1, <2>2
<1>5. ASSUME rooms[r].ai # <<>>
      PROVE  TurnOf(r)' /\ SpeaksWhenDue(r)'
  <2>1. TurnOf(r) /\ SpeaksWhenDue(r) /\ calling # r /\ calling' # r
    BY <1>0, <1>3, <1>5 DEF TurnsTaken, TurnInv, AiSpeaksExactlyWhenDue
  <2>2. PICK events, more, n, a :
           /\ events = log[r] /\ more = log'[r] /\ n = Len(log[r])
           /\ a = LastAiBefore(events, n + 1)
    OBVIOUS
  <2>3. /\ Extends(more, events) /\ n \in Nat \ {0} /\ a \in 0 .. n
        /\ (IF a = 0 THEN 1 ELSE a - 1) \in 1 .. n
        /\ Len(events) = n /\ Len(more) = n + 1 /\ more[n + 1] = e
    BY <1>0, <1>3, <2>1, <2>2, GrownExtends, TurnStarts
  <2>4. e.kind = "joined" /\ e.fd = fd
    BY <1>2
  <2>5. /\ events[1].kind = "created"
        /\ spoken[r] = SpeakersBetween(events, a, n)
        /\ lastAi[r] = events[IF a = 0 THEN 1 ELSE a - 1].at
    BY <2>1, <2>2 DEF TurnOf
  <2>6. SpeaksWhenDue(r)'
    <3>1. log[r][1].kind = "created" /\ (e.kind = "ai" <=> calling = r)
      BY <2>1, <2>2, <2>4, <2>5
    <3>2. calling' = r <=> e.kind = "text" /\ Due(log'[r], Len(log[r]) + 1)
      BY <2>1, <2>4
    <3> QED BY <1>0, <1>3, <2>1, <3>1, <3>2, GrownSpeaks
  <2>7. /\ LastAiBefore(more, n + 2) = a
        /\ MembersBefore(more, n + 2) = MembersBefore(events, n + 1) \cup {fd}
        /\ SpeakersBetween(more, a, n + 1) = SpeakersBetween(events, a, n)
    <3>1. a \in 0 .. n /\ Longer(more, events, n, e)
      BY <2>3 DEF Longer
    <3>2. e.kind = "joined" /\ a = LastAiBefore(events, n + 1) /\ e.fd = fd
      BY <2>2, <2>3, <2>4
    <3>3. /\ LastAiBefore(more, n + 2) = LastAiBefore(events, n + 1)
          /\ MembersBefore(more, n + 2) = MembersBefore(events, n + 1) \cup {e.fd}
          /\ SpeakersBetween(more, a, n + 1) = SpeakersBetween(events, a, n)
      BY <3>1, <3>2, OneJoined
    <3> QED BY <3>2, <3>3
  <2>8. \A i \in 1 .. n : more[i] = events[i]
    BY <2>3 DEF Extends
  <2>9. /\ MemberFds(r)' = MembersBefore(more, n + 2) \ {NoFd}
        /\ NoFd \in MembersBefore(more, n + 2) => rooms'[r].max = 0
    <3>1. /\ MemberFds(r) = MembersBefore(events, n + 1) \ {NoFd}
          /\ NoFd \in MembersBefore(events, n + 1) => rooms[r].max = 0
      BY <2>1, <2>2 DEF TurnOf
    <3>2. fd # NoFd
      BY <1>0, <1>2
    <3> QED BY <1>3, <2>7, <3>1, <3>2
  <2>10. /\ n + 1 > 0 /\ (n + 1) + 1 = n + 2 /\ more[1].kind = "created"
         /\ lastAi'[r] = more[IF a = 0 THEN 1 ELSE a - 1].at
    BY <1>3, <2>3, <2>5, <2>8
  <2>11. spoken'[r] = SpeakersBetween(more, a, n + 1)
    BY <1>3, <2>5, <2>7
  <2>12. TurnOf(r)'
    BY <2>1, <2>2, <2>3, <2>7, <2>9, <2>10, <2>11 DEF TurnOf
  <2> QED BY <2>6, <2>12
<1> QED BY <1>3, <1>4, <1>5, OtherTurns

(* The turns are kept by every step.                                        *)
LEMMA TurnsStep ==
  ASSUME RoomInv, SilenceInv, TurnsTaken, [Next]_vars
  PROVE  TurnsTaken'
<1>1. ASSUME UNCHANGED <<log, members, rooms, spoken, lastAi, calling>>
      PROVE  TurnsTaken'
  BY <1>1, QuietTurns
<1>2. CASE UNCHANGED vars
  BY <1>1, <1>2 DEF vars, setupVars, speechVars
<1>3. CASE \E c \in Conns : ReadCreate(c) \/ ReadJoin(c) \/ ReadChat(c) \/ ReadList(c)
  BY <1>1, <1>3 DEF ReadCreate, ReadJoin, ReadChat, ReadList, PostRoomTask,
     setupVars, speechVars
<1>4. CASE (\E fd \in Fds : Connect(fd)) \/ (\E c \in Conns : Leave(c))
  BY <1>1, <1>4 DEF Connect, Leave, setupVars, speechVars
<1>5. CASE PostNext \/ Tick \/ \E k \in Reactors : Deliver(k)
  BY <1>1, <1>5 DEF PostNext, Tick, Deliver, setupVars, speechVars
<1>6. CASE AiReply
  BY <1>6, AiTurns
<1>7. CASE HandleRoomTask
  <2>1. PICK t \in Tasks :
           /\ TaskIs(t)
           /\ \/ CreateFails(t) \/ Create(t)
              \/ JoinUnknown(t) \/ Rejoin(t) \/ JoinFull(t) \/ Join(t)
              \/ ChatNowhere(t) \/ ChatTooFast(t) \/ Chat(t)
              \/ List(t)
    BY <1>7 DEF HandleRoomTask
  <2>2. calling = NoRoom
    BY <2>1 DEF TaskIs
  <2>3. CASE CreateFails(t)
    BY <1>1, <2>3 DEF CreateFails, JustReply, speechVars
  <2>4. CASE JoinUnknown(t) \/ Rejoin(t) \/ JoinFull(t) \/ ChatTooFast(t) \/ List(t)
    BY <1>1, <2>4 DEF JoinUnknown, Rejoin, JoinFull, ChatTooFast, List,
       JustReply, speechVars
  <2>5. CASE ChatNowhere(t)
    BY <1>1, <2>5 DEF ChatNowhere, setupVars, speechVars
  <2>6. CASE Create(t)
    BY <2>2, <2>6, CreateTurns
  <2>7. CASE Join(t)
    BY <2>2, <2>7, JoinTurns
  <2>8. CASE Chat(t)
    BY <2>2, <2>8, ChatTurns
  <2> QED BY <2>1, <2>3, <2>4, <2>5, <2>6, <2>7, <2>8
<1> QED BY <1>2, <1>3, <1>4, <1>5, <1>6, <1>7 DEF Next

(* There is no room with an AI at first.                                    *)
LEMMA InitTurns == Init => TurnsTaken
<1> SUFFICES ASSUME Init PROVE TurnsTaken
  OBVIOUS
<1>1. \A r \in RoomIds : rooms[r].ai = <<>>
  BY DEF Init, NoPayload
<1> QED BY <1>1 DEF TurnsTaken, TurnInv, AiSpeaksExactlyWhenDue

(* Turns: who a room still waits for and since when, as Room keeps them,    *)
(* are what its log says about the time since the AI last spoke; with that  *)
(* the AI's speaking when it is due is inductive.                           *)
THEOREM TurnsAlwaysTaken == Spec => []TurnsTaken
<1>1. RoomInv /\ SilenceInv /\ TurnsTaken /\ [Next]_vars => TurnsTaken'
  BY TurnsStep
<1> QED BY <1>1, InitTurns, RoomInvariantHolds, SilenceHolds, PTL DEF Spec

(* AI: in every room with an AI, for every number of members, pace of       *)
(* speaking and order of joining, it answers each text that is due and says *)
(* nothing else (handleChat, allRealPlayersSpoke, aiCooldownExpired).       *)
THEOREM AiAlwaysSpeaksWhenDue == Spec => []AiSpeaksExactlyWhenDue
<1>1. TurnsTaken => AiSpeaksExactlyWhenDue
  BY DEF TurnsTaken
<1> QED BY <1>1, TurnsAlwaysTaken, PTL

-----------------------------------------------------------------------------
(* Feeds: RoomManager implements RoomFeed. *)

(* What the proofs call the mail and the entries of RoomFeed.               *)
FeedMail == [c \in Conns |-> [r \in RoomIds |-> MailOf(c, r)]]
Entries == [r \in RoomIds |-> Len(log[r])]

(* What is on its way is what has not been heard yet.                       *)
LEMMA MailIs ==
  ASSUME MembersMissNothing, NEW c \in Conns, NEW r \in RoomIds
  PROVE  MailOf(c, r) = IF c \in Served /\ heard[c][r] # 0
                        THEN heard[c][r] + 1 .. Len(log[r]) ELSE {}
BY DEF MembersMissNothing, HearsAll, MailOf

(* The same of the state after a step.                                      *)
LEMMA MailWillBe ==
  ASSUME MembersMissNothing', NEW c \in Conns, NEW r \in RoomIds
  PROVE  MailOf(c, r)' = IF c \in Served' /\ heard'[c][r] # 0
                         THEN heard'[c][r] + 1 .. Len(log'[r]) ELSE {}
BY DEF MembersMissNothing, HearsAll, MailOf

(* A step that says nothing, and by which nobody comes, goes or hears.      *)
LEMMA FeedSame ==
  ASSUME MembersMissNothing, MembersMissNothing',
         UNCHANGED <<heard, log, Served>>
  PROVE  UNCHANGED Feed!feedVars
<1>1. \A c \in Conns : \A r \in RoomIds : MailOf(c, r)' = MailOf(c, r)
  BY MailIs, MailWillBe
<1>2. FeedMail' = FeedMail
  BY <1>1 DEF FeedMail
<1>3. Entries' = Entries
  BY DEF Entries
<1> QED BY <1>2, <1>3 DEF Feed!feedVars, FeedMail, Entries


(* The entries of a room that gets one more.                                *)
LEMMA EntriesGrow ==
  ASSUME RoomTypeOK, NEW r \in RoomIds, NEW e, GrowsBy(r, e)
  PROVE  Entries' = [Entries EXCEPT ![r] = @ + 1]
<1>1. Entries'[r] = Entries[r] + 1 /\ \A q \in RoomIds \ {r} : Entries'[q] = Entries[q]
  BY Grown DEF Entries
<1>2. /\ Entries = [q \in RoomIds |-> Entries[q]]
      /\ Entries' = [q \in RoomIds |-> Entries'[q]]
  BY DEF Entries
<1> HIDE DEF Entries
<1> QED BY <1>1, <1>2

(* Nothing gets on its way but the new entry, to those who follow the room. *)
LEMMA EntryMailed ==
  ASSUME RoomTypeOK, Hearing, Hearing', UNCHANGED holder,
         NEW r \in RoomIds, NEW e, GrowsBy(r, e), log[r] # <<>>,
         \A c \in Conns : \A q \in RoomIds :
            \/ heard'[c][q] = heard[c][q]
            \/ q = r /\ heard[c][q] = 0 /\ heard'[c][q] = Len(log[r])
  PROVE  Feed!Enter(r)
<1>1. /\ log \in [RoomIds -> Seq(Events)] /\ heard \in [Conns -> [RoomIds -> Nat]]
      /\ Served' = Served /\ MembersMissNothing /\ MembersMissNothing' /\ NothingIsForeseen
  BY DEF RoomTypeOK, Served, Hearing
<1>2. PICK n \in Nat \ {0} : n = Len(log[r])
  <2>1. log[r] \in Seq(Events)
    BY <1>1
  <2> QED BY <2>1
<1>3. Len(log'[r]) = n + 1 /\ \A q \in RoomIds \ {r} : log'[q] = log[q]
  BY <1>2, Grown
<1>4. ASSUME NEW c \in Conns, NEW q \in RoomIds \ {r} PROVE MailOf(c, q)' = MailOf(c, q)
  <2>1. heard'[c][q] = heard[c][q] /\ log'[q] = log[q]
    BY <1>3
  <2>2. /\ MailOf(c, q) = IF c \in Served /\ heard[c][q] # 0
                         THEN heard[c][q] + 1 .. Len(log[q]) ELSE {}
        /\ MailOf(c, q)' = IF c \in Served' /\ heard'[c][q] # 0
                          THEN heard'[c][q] + 1 .. Len(log'[q]) ELSE {}
    <3>1. q \in RoomIds
      OBVIOUS
    <3> QED BY <1>1, <3>1, MailIs, MailWillBe
  <2> QED BY <1>1, <2>1, <2>2
<1>5. ASSUME NEW c \in Conns
      PROVE  MailOf(c, r)' = IF c \in Served /\ heard'[c][r] # 0
                             THEN MailOf(c, r) \cup {n + 1} ELSE MailOf(c, r)
  <2>1. /\ MailOf(c, r) = IF c \in Served /\ heard[c][r] # 0 THEN heard[c][r] + 1 .. n ELSE {}
        /\ MailOf(c, r)' = IF c \in Served /\ heard'[c][r] # 0
                           THEN heard'[c][r] + 1 .. n + 1 ELSE {}
    BY <1>1, <1>2, <1>3, MailIs, MailWillBe
  <2>2. CASE heard'[c][r] = heard[c][r]
    <3>1. heard[c][r] \in Nat /\ heard[c][r] <= n
      BY <1>1, <1>2 DEF NothingIsForeseen
    <3>2. (heard[c][r] + 1 .. n) \cup {n + 1} = heard[c][r] + 1 .. n + 1
      BY <3>1, RowGrows
    <3> QED BY <2>1, <2>2, <3>2
  <2>3. CASE heard[c][r] = 0 /\ heard'[c][r] = n
    <3>1. n + 1 .. n + 1 = {n + 1}
      OBVIOUS
    <3> QED BY <2>1, <2>3, <3>1
  <2> QED BY <1>2, <2>2, <2>3
<1>6. FeedMail' = [c \in Conns |->
                     [FeedMail[c] EXCEPT ![r] = IF c \in Served /\ heard'[c][r] # 0
                                                THEN @ \cup {n + 1} ELSE @]]
  BY <1>4, <1>5 DEF FeedMail
<1>7. Entries' = [Entries EXCEPT ![r] = @ + 1] /\ Entries[r] = n
  BY <1>2, EntriesGrow DEF Entries
<1>8. Served' = Served /\ Entries[r] # 0
  BY <1>1, <1>7
<1> QED BY <1>6, <1>7, <1>8 DEF Feed!Enter, FeedMail, Entries

(* A text, or the AI's. *)
LEMMA FeedSays ==
  ASSUME RoomTypeOK, Hearing, Hearing', UNCHANGED <<holder, heard>>,
         NEW r \in RoomIds, NEW e, GrowsBy(r, e), log[r] # <<>>
  PROVE  Feed!Say(r)
<1>1. Feed!Enter(r)
  BY EntryMailed
<1> QED BY <1>1 DEF Feed!Say

(* A room with members has begun. *)
LEMMA MembersBegin ==
  ASSUME RoomInv, SilenceInv, NEW r \in RoomIds, members[r] # <<>>
  PROVE  log[r] # <<>>
<1>1. SeatsOf(r) /\ RoomsHaveBegun /\ members[r] \in Seq(Members)
  BY DEF RoomInv, RoomTypeOK, SeatsAreConsistent, SilenceInv
<1>2. 1 \in DOMAIN members[r]
  BY <1>1
<1>3. rooms[r].roles # <<>>
  BY <1>1, <1>2 DEF SeatsOf
<1> QED BY <1>1, <1>3 DEF RoomsHaveBegun, Exists, NoPayload

(* Join. *)
LEMMA FeedJoins ==
  ASSUME RoomInv, SilenceInv, AddressInv, Hearing, Hearing', UNCHANGED holder,
         NEW t, TaskIs(t), Join(t)
  PROVE  Feed!Join(t.user, t.roomId) /\ t.user \in Conns /\ t.roomId \in RoomIds
<1>0. RoomTypeOK /\ RoomsHaveBegun
  BY DEF RoomInv, SilenceInv
<1>1. t \in Tasks /\ t.user \in Conns /\ connFd[t.user] = t.fromFd
  BY <1>0, AskerIs
<1>2. PICK r \in RoomIds : r = t.roomId
  BY <1>0, <1>1, Joined
<1>3. PICK u \in Conns : u = t.user
  BY <1>1
<1>4. /\ heard' = [heard EXCEPT ![u][r] = Len(log[r])]
      /\ GrowsBy(r, [kind |-> "joined", fd |-> t.fromFd, at |-> now])
      /\ Exists(r) /\ t.fromFd \notin MemberFds(r)
  BY <1>2, <1>3 DEF Join, GrowsBy
<1>5. log[r] # <<>> /\ heard[u][r] = 0
  BY <1>0, <1>1, <1>3, <1>4 DEF RoomsHaveBegun, AddressInv, HearersAreMembers
<1>6. heard \in [Conns -> [RoomIds -> Nat]]
  BY <1>0 DEF RoomTypeOK
<1>7. \A c \in Conns : \A q \in RoomIds :
         \/ heard'[c][q] = heard[c][q]
         \/ q = r /\ heard[c][q] = 0 /\ heard'[c][q] = Len(log[r])
  BY <1>4, <1>5, <1>6
<1>8. Feed!Enter(r)
  BY <1>0, <1>4, <1>5, <1>7, EntryMailed
<1>9. heard' = [heard EXCEPT ![u][r] = Entries[r]]
  BY <1>4 DEF Entries
<1>10. Feed!Join(u, r)
  BY <1>5, <1>8, <1>9 DEF Feed!Join, Feed!Follows, Entries
<1> QED BY <1>2, <1>3, <1>10

-----------------------------------------------------------------------------
(* Create: the number is new, and only its creator hears of it. *)
LEMMA FeedOpens ==
  ASSUME RoomInv, SilenceInv, AddressInv, Hearing, Hearing', UNCHANGED holder,
         NEW t, TaskIs(t), Create(t)
  PROVE  UNCHANGED Feed!feedVars \/ \E r \in RoomIds : Feed!Open(r)
<1>0. RoomTypeOK /\ UnbornAreEmpty /\ UnbornAreSilent /\ t.user \in Conns
  BY AskerIs DEF RoomInv, SilenceInv
<1>1. PICK new \in Nat \ {0} : new = nextRoomId
  BY <1>0 DEF RoomTypeOK
<1> DEFINE seated == ~Full(t.content.max, 0)
           ev == [kind |-> "created", at |-> now,
                  fd |-> IF seated THEN t.fromFd ELSE NoFd]
<1>2. /\ log' = [log EXCEPT ![new] = <<ev>>]
      /\ heard' = IF seated THEN [heard EXCEPT ![t.user][new] = 1] ELSE heard
  BY <1>1 DEF Create
<1> HIDE DEF ev, seated
<1>3. /\ log \in [RoomIds -> Seq(Events)] /\ heard \in [Conns -> [RoomIds -> Nat]]
      /\ Served' = Served /\ MembersMissNothing /\ MembersMissNothing'
  BY <1>0 DEF RoomTypeOK, Served, Hearing
<1>4. CASE new \notin RoomIds
  <2>1. log' = log
    <3>1. log' = [r \in RoomIds |-> log'[r]] /\ \A r \in RoomIds : log'[r] = log[r]
      BY <1>2, <1>3, <1>4
    <3> QED BY <1>3, <3>1
  <2>2. heard' = heard
    <3>1. PICK h : h = heard[t.user]
      OBVIOUS
    <3>2. h \in [RoomIds -> Nat]
      BY <1>0, <1>3, <3>1
    <3>3. [h EXCEPT ![new] = 1] = h
      BY <1>4, <3>2
    <3>4. [heard EXCEPT ![t.user][new] = 1] = [heard EXCEPT ![t.user] = h]
      BY <1>0, <1>3, <3>1, <3>3
    <3>5. [heard EXCEPT ![t.user] = h] = heard
      BY <1>0, <1>3, <3>1
    <3> QED BY <1>2, <3>4, <3>5
  <2> QED BY <1>3, <2>1, <2>2, FeedSame
<1>5. CASE new \in RoomIds
  <2>1. log[new] = <<>> /\ members[new] = <<>>
    BY <1>0, <1>1, <1>5 DEF UnbornAreEmpty, UnbornAreSilent, RoomIds
  <2>2. \A c \in Conns : heard[c][new] = 0
    <3>1. MemberFds(new) = {}
      BY <2>1 DEF MemberFds, Range
    <3> QED BY <1>5, <3>1 DEF AddressInv, HearersAreMembers
  <2>3. log'[new] = <<ev>> /\ \A q \in RoomIds \ {new} : log'[q] = log[q]
    BY <1>2, <1>3, <1>5
  <2>4. Len(log'[new]) = 1 /\ Len(log[new]) = 0
    BY <2>1, <2>3
  <2>5. Entries' = [Entries EXCEPT ![new] = 1] /\ Entries[new] = 0
    <3>1. Entries'[new] = 1 /\ \A q \in RoomIds \ {new} : Entries'[q] = Entries[q]
      BY <1>5, <2>3, <2>4 DEF Entries
    <3>2. /\ Entries = [q \in RoomIds |-> Entries[q]]
          /\ Entries' = [q \in RoomIds |-> Entries'[q]]
      BY DEF Entries
    <3>3. Entries[new] = 0
      BY <1>5, <2>4 DEF Entries
    <3> HIDE DEF Entries
    <3> QED BY <1>5, <3>1, <3>2, <3>3
  <2>6. ASSUME NEW c \in Conns, NEW q \in RoomIds PROVE MailOf(c, q)' = MailOf(c, q)
    <3>1. /\ MailOf(c, q) = IF c \in Served /\ heard[c][q] # 0
                            THEN heard[c][q] + 1 .. Len(log[q]) ELSE {}
          /\ MailOf(c, q)' = IF c \in Served /\ heard'[c][q] # 0
                             THEN heard'[c][q] + 1 .. Len(log'[q]) ELSE {}
      BY <1>3, MailIs, MailWillBe
    <3>2. CASE q # new
      <4>1. heard'[c][q] = heard[c][q] /\ log'[q] = log[q]
        BY <1>2, <1>3, <2>3, <3>2
      <4> QED BY <3>1, <4>1
    <3>3. CASE q = new
      <4>1. heard[c][q] = 0 /\ heard'[c][q] \in {0, 1}
        BY <1>2, <1>3, <2>2, <3>3
      <4>2. 1 + 1 .. 1 = {}
        OBVIOUS
      <4> QED BY <2>4, <3>1, <3>3, <4>1, <4>2
    <3> QED BY <3>2, <3>3
  <2>7. FeedMail' = FeedMail
    BY <2>6 DEF FeedMail
  <2>8. heard' = heard \/ \E c \in Conns : heard' = [heard EXCEPT ![c][new] = 1]
    BY <1>0, <1>2
  <2>9. Feed!Open(new)
    BY <1>3, <2>5, <2>7, <2>8 DEF Feed!Open, FeedMail, Entries
  <2> QED BY <1>5, <2>9
<1> QED BY <1>4, <1>5

(* Connect. *)
LEMMA FeedComes ==
  ASSUME RoomTypeOK, HoldersHaveConnected, AddressInv, Hearing, Hearing',
         NEW fd \in Fds, Connect(fd)
  PROVE  \E c \in Conns : Feed!Come(c)
<1>1. PICK new \in Conns :
         /\ new \notin Served /\ holder' = [holder EXCEPT ![fd] = new]
         /\ \A r \in RoomIds : heard[new][r] = 0
  <2>1. PICK new \in Conns : new = accepted + 1
    BY RoomAssumption DEF RoomTypeOK, Connect, Conns
  <2>2. accepted \in Nat
    BY RoomAssumption DEF RoomTypeOK
  <2>3. new \notin Served
    BY <2>1, <2>2, ServedIs DEF Conns
  <2>4. holder' = [holder EXCEPT ![fd] = new]
    BY <2>1 DEF Connect
  <2>5. \A r \in RoomIds : heard[new][r] = 0
    BY <2>1, <2>2 DEF AddressInv, NewcomersAreNew
  <2> QED BY <2>3, <2>4, <2>5
<1>2. /\ holder \in [Fds -> Conns \cup {None}] /\ holder[fd] = None
      /\ UNCHANGED <<log, heard>> /\ MembersMissNothing /\ MembersMissNothing'
      /\ None \notin Conns
  BY DEF RoomTypeOK, Connect, Hearing, None, Conns
<1>3. Served' = Served \cup {new}
  <2>1. holder'[fd] = new /\ \A f \in Fds \ {fd} : holder'[f] = holder[f]
    BY <1>1, <1>2
  <2>2. new # None
    BY <1>2
  <2> QED BY <1>2, <2>1, <2>2 DEF Served
<1>4. ASSUME NEW c \in Conns, NEW r \in RoomIds PROVE MailOf(c, r)' = MailOf(c, r)
  <2>1. /\ MailOf(c, r) = IF c \in Served /\ heard[c][r] # 0
                          THEN heard[c][r] + 1 .. Len(log[r]) ELSE {}
        /\ MailOf(c, r)' = IF c \in Served' /\ heard'[c][r] # 0
                           THEN heard'[c][r] + 1 .. Len(log'[r]) ELSE {}
    BY <1>2, MailIs, MailWillBe
  <2> QED BY <1>1, <1>2, <1>3, <2>1
<1>5. FeedMail' = FeedMail /\ Entries' = Entries
  BY <1>2, <1>4 DEF FeedMail, Entries
<1>6. Feed!Come(new)
  BY <1>1, <1>2, <1>3, <1>5 DEF Feed!Come, Feed!Follows, FeedMail, Entries
<1> QED BY <1>6

(* Leave. *)
LEMMA FeedGoes ==
  ASSUME RoomTypeOK, HoldersHaveConnected, Hearing, Hearing', NEW c \in Conns, Leave(c)
  PROVE  Feed!Go(c)
<1>1. /\ c \in Served /\ connFd[c] \in Fds /\ holder[connFd[c]] = c
      /\ holder \in [Fds -> Conns \cup {None}]
      /\ holder' = [holder EXCEPT ![connFd[c]] = None]
      /\ UNCHANGED <<log, heard>> /\ MembersMissNothing /\ MembersMissNothing'
  BY ServedIs DEF RoomTypeOK, Leave, Hearing
<1>2. \A fd \in Fds : holder[fd] = c => fd = connFd[c]
  BY <1>1, ServedIs DEF HoldersHaveConnected
<1>3. Served' = Served \ {c}
  <2>1. \A fd \in Fds : holder'[fd] = IF fd = connFd[c] THEN None ELSE holder[fd]
    BY <1>1
  <2> QED BY <1>1, <1>2, <2>1 DEF Served
<1>4. ASSUME NEW d \in Conns, NEW r \in RoomIds
      PROVE  MailOf(d, r)' = IF d = c THEN {} ELSE MailOf(d, r)
  <2>1. /\ MailOf(d, r) = IF d \in Served /\ heard[d][r] # 0
                          THEN heard[d][r] + 1 .. Len(log[r]) ELSE {}
        /\ MailOf(d, r)' = IF d \in Served' /\ heard'[d][r] # 0
                           THEN heard'[d][r] + 1 .. Len(log'[r]) ELSE {}
    BY <1>1, MailIs, MailWillBe
  <2> QED BY <1>1, <1>3, <2>1
<1>5. FeedMail' = [FeedMail EXCEPT ![c] = [r \in RoomIds |-> {}]]
  BY <1>4 DEF FeedMail
<1>6. Entries' = Entries
  BY <1>1 DEF Entries
<1> QED BY <1>1, <1>3, <1>5, <1>6 DEF Feed!Go, FeedMail, Entries

(* postRawMessage: what arrives is the first of what is on its way.         *)
LEMMA FeedHears ==
  ASSUME RoomTypeOK, HoldersHaveConnected, Hearing, Hearing', NEW k \in Reactors, Deliver(k)
  PROVE  UNCHANGED Feed!feedVars \/ \E c \in Conns, r \in RoomIds : Feed!Hear(c, r)
<1>1. PICK m \in Msgs : m = Head(matchQueue[k])
  BY MailType, HeadTailProperties DEF Deliver
<1>2. PICK d \in Conns \cup {None} : d = holder[m.fd]
  BY <1>1 DEF RoomTypeOK, Msgs, Replies, Broadcasts
<1>3. /\ UNCHANGED <<log, Served>>
      /\ heard \in [Conns -> [RoomIds -> Nat]]
      /\ \A r \in RoomIds : Len(log[r]) \in Nat
      /\ MembersMissNothing /\ MembersMissNothing' /\ NothingIsForeseen
  BY DEF Deliver, connVars, Served, RoomTypeOK, Hearing
<1> DEFINE Arrives == d # None /\ Owner(d) = k /\ m.what = "event" /\ heard[d][m.room] # 0
<1>4. heard' = IF Arrives THEN [heard EXCEPT ![d][m.room] = m.n] ELSE heard
  BY <1>1, <1>2 DEF Deliver
<1>5. CASE ~Arrives
  BY <1>3, <1>4, <1>5, FeedSame
<1>6. CASE Arrives
  <2>1. /\ d \in Conns /\ d \in Served /\ connFd[d] = m.fd /\ Owner(d) = k
        /\ m.what = "event" /\ m \in Msgs
    BY <1>2, <1>1, <1>6 DEF HoldersHaveConnected, Served, Msgs, Replies, Broadcasts
  <2>2. m \in Broadcasts
    BY <2>1 DEF Msgs, Replies, Answers
  <2>3. PICK r \in RoomIds : r = m.room
    BY <2>2 DEF Broadcasts
  <2>4. PICK n \in Nat : n = m.n
    BY <2>2 DEF Broadcasts
  <2>5. PICK M : M = EventsTo(connFd[d], r)
    OBVIOUS
  <2>6. m \in M
    BY <2>1, <2>2, <2>3, <2>5 DEF EventsTo
  <2>7. heard' = [heard EXCEPT ![d][r] = n] /\ heard[d][r] # 0
    BY <1>4, <1>6, <2>3, <2>4
  <2>8. PICK h \in Nat, last \in Nat : h = heard[d][r] /\ last = Len(log[r])
    BY <1>3, <2>1
  <2>9. Numbers(OnTheWay(d), M) = h + 1 .. last /\ Rising(OnTheWay(d), M)
    BY <1>3, <2>1, <2>5, <2>7, <2>8 DEF MembersMissNothing, HearsAll
  <2>10. /\ Numbers(OnTheWay(d), M) = {n} \cup Numbers(OnTheWay(d)', M)
         /\ \A y \in Numbers(OnTheWay(d)', M) : n < y
    BY <1>1, <2>1, <2>4, <2>6, <2>9, DeliverWay
  <2>11. n = h + 1 /\ n <= last
    <3>1. PICK N : N = Numbers(OnTheWay(d)', M)
      OBVIOUS
    <3>2. {n} \cup N = h + 1 .. last /\ \A y \in N : n < y
      BY <2>9, <2>10, <3>1
    <3> QED BY <3>2, RowShrinks
  <2>12. heard'[d][r] = n /\ \A c \in Conns : \A q \in RoomIds :
            c # d \/ q # r => heard'[c][q] = heard[c][q]
    BY <1>3, <2>1, <2>7
  <2>13. MailOf(d, r) = n .. last /\ MailOf(d, r)' = (n .. last) \ {n}
    <3>1. MailOf(d, r) = h + 1 .. last
      BY <1>3, <2>1, <2>7, <2>8, MailIs
    <3>2. MailOf(d, r)' = n + 1 .. last
      <4>1. n # 0
        BY <2>11
      <4> QED BY <1>3, <2>1, <2>8, <2>12, <4>1, MailWillBe
    <3>3. n + 1 .. last = (n .. last) \ {n}
      OBVIOUS
    <3> QED BY <2>11, <3>1, <3>2, <3>3
  <2>14. ASSUME NEW c \in Conns, NEW q \in RoomIds, c # d \/ q # r
         PROVE  MailOf(c, q)' = MailOf(c, q)
    <3>1. /\ MailOf(c, q) = IF c \in Served /\ heard[c][q] # 0
                            THEN heard[c][q] + 1 .. Len(log[q]) ELSE {}
          /\ MailOf(c, q)' = IF c \in Served' /\ heard'[c][q] # 0
                             THEN heard'[c][q] + 1 .. Len(log'[q]) ELSE {}
      BY <1>3, MailIs, MailWillBe
    <3>2. heard'[c][q] = heard[c][q]
      BY <2>12, <2>14
    <3> QED BY <1>3, <3>1, <3>2
  <2>15. /\ FeedMail' = [FeedMail EXCEPT ![d][r] = @ \ {n}]
         /\ FeedMail[d][r] = n .. last
    <3>1. \A c \in Conns : \A q \in RoomIds :
             FeedMail'[c][q] = IF c = d /\ q = r THEN FeedMail[c][q] \ {n} ELSE FeedMail[c][q]
      <4>1. FeedMail'[d][r] = FeedMail[d][r] \ {n}
        BY <2>1, <2>13 DEF FeedMail
      <4>2. ASSUME NEW c \in Conns, NEW q \in RoomIds, c # d \/ q # r
            PROVE  FeedMail'[c][q] = FeedMail[c][q]
        BY <2>14, <4>2 DEF FeedMail
      <4> QED BY <4>1, <4>2
    <3>2. PICK m0, m1 : m0 = FeedMail /\ m1 = FeedMail'
      OBVIOUS
    <3>3. /\ DOMAIN m0 = Conns /\ m0 = [c \in Conns |-> m0[c]] /\ m1 = [c \in Conns |-> m1[c]]
          /\ \A c \in Conns : /\ m0[c] = [q \in RoomIds |-> m0[c][q]]
                             /\ m1[c] = [q \in RoomIds |-> m1[c][q]]
      BY <3>2 DEF FeedMail
    <3>4. \A c \in Conns : \A q \in RoomIds :
             m1[c][q] = IF c = d /\ q = r THEN m0[c][q] \ {n} ELSE m0[c][q]
      BY <3>1, <3>2
    <3>5. \A c \in Conns \ {d} : m1[c] = m0[c]
      <4>1. ASSUME NEW c \in Conns, c # d PROVE m1[c] = m0[c]
        <5>1. \A q \in RoomIds : m1[c][q] = m0[c][q]
          BY <3>4, <4>1
        <5>2. m0[c] = [q \in RoomIds |-> m0[c][q]] /\ m1[c] = [q \in RoomIds |-> m1[c][q]]
          BY <3>3
        <5>3. [q \in RoomIds |-> m1[c][q]] = [q \in RoomIds |-> m0[c][q]]
          BY <5>1
        <5> QED BY <5>2, <5>3
      <4> QED BY <4>1
    <3>6. m1[d] = [m0[d] EXCEPT ![r] = @ \ {n}]
      <4>1. m1[d][r] = m0[d][r] \ {n} /\ \A q \in RoomIds \ {r} : m1[d][q] = m0[d][q]
        BY <2>1, <3>4
      <4>2. m0[d] = [q \in RoomIds |-> m0[d][q]] /\ m1[d] = [q \in RoomIds |-> m1[d][q]]
        BY <2>1, <3>3
      <4> QED BY <4>1, <4>2
    <3>7. m1 = [m0 EXCEPT ![d] = [m0[d] EXCEPT ![r] = @ \ {n}]]
      BY <2>1, <3>3, <3>5, <3>6
    <3>8. FeedMail[d][r] = n .. last
      BY <2>1, <2>13 DEF FeedMail
    <3> QED BY <3>2, <3>7, <3>8
  <2>16. Entries' = Entries
    BY <1>3 DEF Entries
  <2>17. n \in n .. last /\ \A x \in n .. last : n <= x
    BY <2>11
  <2>18. Feed!Hear(d, r)
    <3>1. n \in FeedMail[d][r] /\ \A x \in FeedMail[d][r] : n <= x
      BY <2>15, <2>17
    <3>2. \E y \in FeedMail[d][r] :
             /\ \A x \in FeedMail[d][r] : y <= x
             /\ heard' = [heard EXCEPT ![d][r] = y]
             /\ FeedMail' = [FeedMail EXCEPT ![d][r] = @ \ {y}]
             /\ UNCHANGED <<Served, Entries>>
      BY <1>3, <2>7, <2>15, <2>16, <3>1
    <3> QED BY <3>2 DEF Feed!Hear, FeedMail, Entries
  <2> QED BY <2>1, <2>18
<1> QED BY <1>5, <1>6

-----------------------------------------------------------------------------
(* Every step of the server is a step of the feeds, or none.                *)
LEMMA FeedStep ==
  ASSUME RoomInv, SilenceInv, DeliveryInv, DeliveryInv', [Next]_vars
  PROVE  [Feed!FeedNext]_(Feed!feedVars)
<1>0. /\ RoomTypeOK /\ HoldersHaveConnected /\ SilenceInv /\ AddressInv
      /\ Hearing /\ Hearing' /\ MembersMissNothing /\ MembersMissNothing'
  BY DEF RoomInv, DeliveryInv, Hearing
<1>1. ASSUME UNCHANGED <<heard, log, holder>> PROVE [Feed!FeedNext]_(Feed!feedVars)
  <2>1. Served' = Served
    BY <1>1 DEF Served
  <2> QED BY <1>0, <1>1, <2>1, FeedSame
<1>2. ASSUME NEW r \in RoomIds, NEW e, GrowsBy(r, e), UNCHANGED <<holder, heard>>,
             log[r] # <<>>
      PROVE  [Feed!FeedNext]_(Feed!feedVars)
  BY <1>0, <1>2, FeedSays DEF Feed!FeedNext
<1>3. CASE UNCHANGED vars \/ Tick \/ PostNext
  BY <1>1, <1>3 DEF vars, Tick, PostNext, connVars
<1>4. CASE \E c \in Conns : ReadCreate(c) \/ ReadJoin(c) \/ ReadChat(c) \/ ReadList(c)
  BY <1>1, <1>4 DEF ReadCreate, ReadJoin, ReadChat, ReadList, PostRoomTask, connVars
<1>5. ASSUME NEW fd \in Fds, Connect(fd) PROVE [Feed!FeedNext]_(Feed!feedVars)
  BY <1>0, <1>5, FeedComes DEF Feed!FeedNext
<1>6. ASSUME NEW c \in Conns, Leave(c) PROVE [Feed!FeedNext]_(Feed!feedVars)
  BY <1>0, <1>6, FeedGoes DEF Feed!FeedNext
<1>7. ASSUME NEW k \in Reactors, Deliver(k) PROVE [Feed!FeedNext]_(Feed!feedVars)
  BY <1>0, <1>7, FeedHears DEF Feed!FeedNext
<1>8. CASE AiReply
  <2>1. PICK r \in RoomIds : r = calling /\ members[r] # <<>>
    BY <1>0, <1>8 DEF AiReply, RoomTypeOK, SilenceInv, CallingIsBorn
  <2>2. /\ GrowsBy(r, [kind |-> "ai", fd |-> NoFd, at |-> now])
        /\ UNCHANGED <<holder, heard>>
    BY <1>8, <2>1 DEF AiReply, GrowsBy, connVars
  <2> QED BY <1>2, <2>1, <2>2, MembersBegin
<1>9. CASE HandleRoomTask
  <2>1. PICK t \in Tasks :
           /\ TaskIs(t)
           /\ \/ CreateFails(t) \/ Create(t)
              \/ JoinUnknown(t) \/ Rejoin(t) \/ JoinFull(t) \/ Join(t)
              \/ ChatNowhere(t) \/ ChatTooFast(t) \/ Chat(t)
              \/ List(t)
           /\ UNCHANGED holder
    BY <1>9 DEF HandleRoomTask, connVars
  <2>2. CASE CreateFails(t) \/ JoinUnknown(t) \/ Rejoin(t) \/ JoinFull(t) \/ ChatNowhere(t)
             \/ ChatTooFast(t) \/ List(t)
    BY <1>1, <2>1, <2>2 DEF CreateFails, JoinUnknown, Rejoin, JoinFull, ChatNowhere,
       ChatTooFast, List, JustReply
  <2>3. CASE Create(t)
    BY <1>0, <2>1, <2>3, FeedOpens DEF Feed!FeedNext
  <2>4. CASE Join(t)
    BY <1>0, <2>1, <2>4, FeedJoins DEF Feed!FeedNext
  <2>5. CASE Chat(t)
    <3>1. PICK r \in RoomIds :
             /\ GrowsBy(r, [kind |-> "text", fd |-> t.fromFd, at |-> now,
                            mention |-> MentionsAI(r, t.text)])
             /\ t.fromFd \in MemberFds(r) /\ UNCHANGED heard
      BY <2>1, <2>5, ChatDoes
    <3>2. members[r] # <<>>
      <4>1. Range(members[r]) # {}
        BY <3>1 DEF MemberFds
      <4> QED BY <4>1 DEF Range
    <3> QED BY <1>2, <2>1, <3>1, <3>2, MembersBegin
  <2> QED BY <2>1, <2>2, <2>3, <2>4, <2>5
<1> QED BY <1>3, <1>4, <1>5, <1>6, <1>7, <1>8, <1>9 DEF Next

(* There are no rooms and no readers at first. *)
LEMMA FeedBegins == Init => Feed!FeedInit
<1> SUFFICES ASSUME Init PROVE Feed!FeedInit
  OBVIOUS
<1>1. Served = {} /\ heard = [c \in Conns |-> [r \in RoomIds |-> 0]]
  BY DEF Init, Served
<1>2. Entries = [r \in RoomIds |-> 0]
  BY DEF Init, Entries
<1>3. FeedMail = [c \in Conns |-> [r \in RoomIds |-> {}]]
  BY <1>1 DEF FeedMail, MailOf
<1> QED BY <1>1, <1>2, <1>3 DEF Feed!FeedInit, FeedMail, Entries

(* Feeds: for every number of reactors, connections and rooms, whatever is  *)
(* said and whoever comes, goes or gets an old descriptor, the server does  *)
(* for those who have joined what RoomFeed promises: each broadcast is put  *)
(* on its way to all who follow the room and reaches them in order          *)
(* (sendMsgToClient, postRawMessage).                                       *)
THEOREM RoomsAreFeeds == Spec => ImplementsFeed
<1>1. Init => Feed!FeedInit
  BY FeedBegins
<1>2. RoomInv /\ SilenceInv /\ DeliveryInv /\ DeliveryInv' /\ [Next]_vars
         => [Feed!FeedNext]_(Feed!feedVars)
  BY FeedStep
<1> QED BY <1>1, <1>2, RoomInvariantHolds, SilenceHolds, DeliveryHolds, PTL
        DEF Spec, ImplementsFeed, Feed!FeedSpec
=============================================================================
