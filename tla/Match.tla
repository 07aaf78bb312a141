------------------------------- MODULE Match -------------------------------
(***************************************************************************)
(* Matching two users and relaying their chat: MatchManager's thread, the  *)
(* per-reactor task queues, and what onreads and handleMatchTask do for    *)
(* the commands '5' and 'Y'.                                               *)
(*                                                                         *)
(* Users are known to the match thread by descriptor number only.  The     *)
(* connections themselves live and die as in Reactor, whose actions this   *)
(* module extends: every step here is a step of Reactor or leaves its      *)
(* variables alone.                                                        *)
(*                                                                         *)
(* Each client logs in under a name of its own, so a user name is the      *)
(* number of its connection.                                               *)
(***************************************************************************)
EXTENDS Reactor

ASSUME MatchAssumption == Fds \subseteq Nat

VARIABLES
    waitingQueue,   \* MatchManager::waitingQueue_
    pendingAsks,    \* MatchManager::pendingAsks_, NoAsk where absent
    mq,             \* the queue of MatchManager::worker_
    visit,          \* where the match thread is in foreach_socket, or Idle
    notice,         \* notifyB, while USER_ACCEPT has only posted notifyA
    matchQueue,     \* reactor -> SubReactor::matchQueue_
    chatMode,       \* Socket::m_chatMode
    peerFd,         \* Socket::m_peerFd, NoFd for -1
    \* what the clients have been sent, and what they have asked for
    asked,          \* connection -> users it was asked about ("A" + name)
    partners,       \* connection -> users it was matched with ("M" + name)
    heardFrom,      \* connection -> users whose text it received ("5" + text)
    said,           \* connection -> commands the server has read from it
    touchedFreed    \* the match thread has used a Socket after its delete

managerVars == <<waitingQueue, pendingAsks, mq, visit, notice>>
sessionVars == <<chatMode, peerFd>>
clientVars  == <<asked, partners, heardFrom, said>>
matchVars   == <<managerVars, matchQueue, sessionVars, clientVars, touchedFreed>>
vars        == <<reactorVars, matchVars>>

Ask(fd, u) == [fromFd |-> fd, user |-> u]
Asks       == [fromFd : Fds, user : Conns]
NoAsk      == [fromFd |-> NoFd, user |-> None]

ManagerTasks == [type : {"join", "accept"}, fromFd : Fds, user : Conns]
ReactorTasks == [type : {"ask", "success", "peerMsg"},
                 fromFd : Fds, targetFd : Fds, user : Conns]

(* foreach_socket: the task it runs for, the reactor whose map is walked,   *)
(* the last key seen (-1 before the first), and the Socket* just read.      *)
Visits == [task : ManagerTasks, r : Reactors, last : Fds \cup {-1},
           s : Conns \cup {None}]
Idle   == [r |-> NoReactor]

NoNotice == [targetFd |-> NoFd]

MatchTypeOK ==
    /\ TypeOK
    /\ waitingQueue \in Seq(Fds)
    /\ pendingAsks \in [Fds -> Asks \cup {NoAsk}]
    /\ mq \in Seq(ManagerTasks)
    /\ visit \in Visits \cup {Idle}
    /\ notice \in ReactorTasks \cup {NoNotice}
    /\ matchQueue \in [Reactors -> Seq(ReactorTasks)]
    /\ chatMode \in [Conns -> {0, 2}]
    /\ peerFd \in [Conns -> Fds \cup {NoFd}]
    /\ asked \in [Conns -> SUBSET Conns]
    /\ partners \in [Conns -> SUBSET Conns]
    /\ heardFrom \in [Conns -> SUBSET Conns]
    /\ said \in [Conns -> SUBSET (Inputs \cup {"nothing"})]
    /\ touchedFreed \in BOOLEAN

Init ==
    /\ ReactorInit
    /\ waitingQueue = <<>>
    /\ pendingAsks = [fd \in Fds |-> NoAsk]
    /\ mq = <<>>
    /\ visit = Idle
    /\ notice = NoNotice
    /\ matchQueue = [r \in Reactors |-> <<>>]
    /\ chatMode = [c \in Conns |-> 0]
    /\ peerFd = [c \in Conns |-> NoFd]
    /\ asked = [c \in Conns |-> {}]
    /\ partners = [c \in Conns |-> {}]
    /\ heardFrom = [c \in Conns |-> {}]
    /\ said = [c \in Conns |-> {}]
    /\ touchedFreed = FALSE

-----------------------------------------------------------------------------
(* Posting to another thread's queue. *)

(* The queues once findReactorByFd(task.targetFd) has been asked for the    *)
(* reactor and the task posted to it; a descriptor that is not registered   *)
(* gets nothing.                                                            *)
Posted(task) ==
    LET r == fdToReactor[task.targetFd] IN
    IF r = NoReactor THEN matchQueue
                     ELSE [matchQueue EXCEPT ![r] = Append(@, task)]

-----------------------------------------------------------------------------
(* onreads, on the reactor's thread, for Socket s. *)

(* '5' alone: JOIN_QUEUE.  The test is n == 1, so the command is a join only *)
(* when nothing else has arrived behind it.                                  *)
ReadJoin(s) ==
    /\ Command(s) = "join" /\ Len(inbox[s]) = 1
    /\ mq' = Append(mq, [type |-> "join", fromFd |-> connFd[s], user |-> s])
    /\ UNCHANGED <<waitingQueue, pendingAsks, visit, notice, matchQueue>>

(* '5' and anything more: PEER_MSG to the reactor of m_peerFd. *)
ReadPeerText(s) ==
    /\ Command(s) = "say" \/ (Command(s) = "join" /\ Len(inbox[s]) > 1)
    /\ matchQueue' =
          IF chatMode[s] = 2 /\ peerFd[s] # NoFd
          THEN Posted([type |-> "peerMsg", fromFd |-> connFd[s],
                       targetFd |-> peerFd[s], user |-> s])
          ELSE matchQueue
    /\ UNCHANGED managerVars

(* 'Y': USER_ACCEPT. *)
ReadAccept(s) ==
    /\ Command(s) = "yes"
    /\ mq' = Append(mq, [type |-> "accept", fromFd |-> connFd[s], user |-> s])
    /\ UNCHANGED <<waitingQueue, pendingAsks, visit, notice, matchQueue>>

ReadMatchCommand(s) ==
    /\ said' = [said EXCEPT ![s] = @ \cup {Command(s)}]
    /\ \/ ReadJoin(s) \/ ReadPeerText(s) \/ ReadAccept(s)
       \/ /\ Command(s) \notin {"join", "say", "yes"}
          /\ UNCHANGED <<managerVars, matchQueue>>

(* An event of run_loop: as in Reactor, with what a command read by it means *)
(* here.                                                                    *)
MatchHandleEvent(r, ev) ==
    /\ HandleEvent(r, ev)
    /\ LET s == socketMap[r][ev.fd] IN
       IF s # None /\ ~deleted[s] /\ ~ev.hup
       THEN ReadMatchCommand(s)
       ELSE UNCHANGED <<managerVars, matchQueue, said>>
    /\ UNCHANGED <<sessionVars, asked, partners, heardFrom, touchedFreed>>

-----------------------------------------------------------------------------
(* drainMatchTasks and handleMatchTask, on the thread of reactor r. *)

SendAsk(c, task) ==
    /\ task.type = "ask"
    /\ asked' = [asked EXCEPT ![c] = @ \cup {task.user}]
    /\ UNCHANGED <<sessionVars, partners, heardFrom>>

(* Mutant of StartChat: the two descriptors of the task are swapped. *)
StartChatSwapped(c, task) ==
    /\ task.type = "success"
    /\ chatMode' = [chatMode EXCEPT ![c] = 2]
    /\ peerFd' = [peerFd EXCEPT ![c] = task.targetFd]
    /\ partners' = [partners EXCEPT ![c] = @ \cup {task.user}]
    /\ UNCHANGED <<asked, heardFrom>>

StartChat(c, task) ==
    /\ task.type = "success"
    /\ chatMode' = [chatMode EXCEPT ![c] = 2]
    /\ peerFd' = [peerFd EXCEPT ![c] = task.fromFd]
    /\ partners' = [partners EXCEPT ![c] = @ \cup {task.user}]
    /\ UNCHANGED <<asked, heardFrom>>

ForwardText(c, task) ==
    /\ task.type = "peerMsg"
    /\ heardFrom' = [heardFrom EXCEPT ![c] = @ \cup {task.user}]
    /\ UNCHANGED <<sessionVars, asked, partners>>

(* One task of the queue.  PEER_DISCONNECT has a handler but no sender, so  *)
(* no task of that type is ever queued.                                     *)
HandleTask(r) ==
    /\ rpc[r] = "drain"
    /\ matchQueue[r] # <<>>
    /\ matchQueue' = [matchQueue EXCEPT ![r] = Tail(@)]
    /\ LET task == Head(matchQueue[r])
           c    == socketMap[r][task.targetFd]
       IN  IF c # None /\ connected[c]
           THEN SendAsk(c, task) \/ StartChat(c, task) \/ ForwardText(c, task)
           ELSE UNCHANGED <<sessionVars, asked, partners, heardFrom>>
    /\ UNCHANGED <<reactorVars, managerVars, said, touchedFreed>>

QueueIsEmpty(r) ==
    /\ EndDrain(r)
    /\ matchQueue[r] = <<>>
    /\ UNCHANGED matchVars

-----------------------------------------------------------------------------
(* handleMatchTask, on the match thread. *)

(* The worker takes its next task when the last one is done. *)
NextTaskIs(type) ==
    /\ visit = Idle /\ notice = NoNotice
    /\ mq # <<>> /\ Head(mq).type = type

(* JOIN_QUEUE: the user is queued and the walk over all reactors starts. *)
BeginJoin ==
    /\ NextTaskIs("join")
    /\ mq' = Tail(mq)
    /\ waitingQueue' = Append(waitingQueue, Head(mq).fromFd)
    /\ visit' = [task |-> Head(mq), r |-> 0, last |-> -1, s |-> None]
    /\ UNCHANGED <<reactorVars, pendingAsks, notice, matchQueue, sessionVars,
                   clientVars, touchedFreed>>

(* The keys of the map of the reactor being walked that are still ahead. *)
Ahead == {fd \in Fds : fd > visit.last /\ socketMap[visit.r][fd] # None}

(* The walk for the task in hand, gone on to another place. *)
At(r, last, s) == [task |-> visit.task, r |-> r, last |-> last, s |-> s]

(* foreach_socket, next entry in the order of the keys: its Socket* is read *)
(* from a map that belongs to another thread.                               *)
ReadEntry ==
    /\ visit # Idle /\ visit.s = None
    /\ \E fd \in Ahead :
          /\ \A other \in Ahead : fd <= other
          /\ visit' = At(visit.r, fd, socketMap[visit.r][fd])
    /\ UNCHANGED <<reactorVars, waitingQueue, pendingAsks, mq, notice,
                   matchQueue, sessionVars, clientVars, touchedFreed>>

(* The Socket whose fields are read through pointer s.  A freed object still *)
(* holds what it held, or its memory is by now that of another Socket.       *)
Aliases(s) == {s} \cup {c \in Conns : heap[s] = "freed" /\ heap[c] = "live"}

(* Mutant of AskEntry: the user who joined is asked too. *)
AskEveryEntry ==
    /\ visit # Idle /\ visit.s # None
    /\ \E o \in Aliases(visit.s) :
          LET fd   == connFd[o]
              task == visit.task
          IN  IF connected[o]
              THEN /\ pendingAsks' = [pendingAsks EXCEPT
                                         ![fd] = Ask(task.fromFd, task.user)]
                   /\ matchQueue' = [matchQueue EXCEPT ![visit.r] =
                         Append(@, [type |-> "ask", fromFd |-> task.fromFd,
                                    targetFd |-> fd, user |-> task.user])]
              ELSE UNCHANGED <<pendingAsks, matchQueue>>
    /\ touchedFreed' = (touchedFreed \/ heap[visit.s] = "freed")
    /\ visit' = At(visit.r, visit.last, None)
    /\ UNCHANGED <<reactorVars, waitingQueue, mq, notice, sessionVars,
                   clientVars>>

(* The body of the walk: ask everyone but the user who joined. *)
AskEntry ==
    /\ visit # Idle /\ visit.s # None
    /\ \E o \in Aliases(visit.s) :
          LET fd   == connFd[o]
              task == visit.task
          IN  IF fd # task.fromFd /\ connected[o]
              THEN /\ pendingAsks' = [pendingAsks EXCEPT
                                         ![fd] = Ask(task.fromFd, task.user)]
                   /\ matchQueue' = [matchQueue EXCEPT ![visit.r] =
                         Append(@, [type |-> "ask", fromFd |-> task.fromFd,
                                    targetFd |-> fd, user |-> task.user])]
              ELSE UNCHANGED <<pendingAsks, matchQueue>>
    /\ touchedFreed' = (touchedFreed \/ heap[visit.s] = "freed")
    /\ visit' = At(visit.r, visit.last, None)
    /\ UNCHANGED <<reactorVars, waitingQueue, mq, notice, sessionVars,
                   clientVars>>

(* Mutants of NextReactor: the walk goes one reactor too far, or stops       *)
(* after the first.                                                         *)
NextReactorTooFar ==
    /\ visit # Idle /\ visit.s = None
    /\ Ahead = {}
    /\ visit' = IF visit.r = NReactors
                THEN Idle
                ELSE At(visit.r + 1, -1, None)
    /\ UNCHANGED <<reactorVars, waitingQueue, pendingAsks, mq, notice,
                   matchQueue, sessionVars, clientVars, touchedFreed>>

FirstReactorOnly ==
    /\ visit # Idle /\ visit.s = None
    /\ Ahead = {}
    /\ visit' = Idle
    /\ UNCHANGED <<reactorVars, waitingQueue, pendingAsks, mq, notice,
                   matchQueue, sessionVars, clientVars, touchedFreed>>

(* End of a reactor's map: the next reactor, or the task is done. *)
NextReactor ==
    /\ visit # Idle /\ visit.s = None
    /\ Ahead = {}
    /\ visit' = IF visit.r = NReactors - 1
                THEN Idle
                ELSE At(visit.r + 1, -1, None)
    /\ UNCHANGED <<reactorVars, waitingQueue, pendingAsks, mq, notice,
                   matchQueue, sessionVars, clientVars, touchedFreed>>

(* USER_ACCEPT: the pending question is taken and both sides are notified,  *)
(* the asker first, each through the registry as it is at that moment.      *)
Success(from, target, u) ==
    [type |-> "success", fromFd |-> from, targetFd |-> target, user |-> u]

NotifyAsker ==
    /\ NextTaskIs("accept")
    /\ mq' = Tail(mq)
    /\ LET bFd == Head(mq).fromFd
           ask == pendingAsks[bFd]
       IN  IF ask = NoAsk
           THEN UNCHANGED <<pendingAsks, notice, matchQueue>>
           ELSE /\ pendingAsks' = [pendingAsks EXCEPT ![bFd] = NoAsk]
                /\ matchQueue' = Posted(Success(bFd, ask.fromFd, Head(mq).user))
                /\ notice' = Success(ask.fromFd, bFd, ask.user)
    /\ UNCHANGED <<reactorVars, waitingQueue, visit, sessionVars, clientVars,
                   touchedFreed>>

(* Mutant of NotifyAccepter: the second notice is built and never posted. *)
NoticeNotPosted ==
    /\ notice # NoNotice
    /\ notice' = NoNotice
    /\ UNCHANGED <<reactorVars, waitingQueue, pendingAsks, mq, visit,
                   matchQueue, sessionVars, clientVars, touchedFreed>>

NotifyAccepter ==
    /\ notice # NoNotice
    /\ matchQueue' = Posted(notice)
    /\ notice' = NoNotice
    /\ UNCHANGED <<reactorVars, waitingQueue, pendingAsks, mq, visit,
                   sessionVars, clientVars, touchedFreed>>

MatchThread ==
    \/ BeginJoin \/ ReadEntry \/ AskEntry \/ NextReactor
    \/ NotifyAsker \/ NotifyAccepter

-----------------------------------------------------------------------------
(* Steps of Reactor that matching takes no part in. *)
AcceptConnection(fd) == Accept(fd) /\ UNCHANGED matchVars
AddConnection        == AddClient /\ UNCHANGED matchVars
WaitForEvents(r)     == EpollWait(r) /\ UNCHANGED matchVars

(* Mutant of TearDown: unregisterFd is forgotten between remove and delete. *)
TearDownRegistered(r) ==
    /\ \/ RemoveThenDelete(r) \/ DeleteSocket(r) \/ CloseFd(r)
    /\ UNCHANGED matchVars

TearDown(r)          == Cleanup(r) /\ UNCHANGED matchVars
AiAnswer(r)          == AiReply(r) /\ UNCHANGED matchVars
ClientStep(c)        == (ClientSend(c) \/ ClientClose(c)) /\ UNCHANGED matchVars

MatchLoop(r) ==
    \/ HandleTask(r) \/ QueueIsEmpty(r) \/ WaitForEvents(r) \/ TearDown(r)
    \/ \E ev \in batch[r] : MatchHandleEvent(r, ev)

Next ==
    \/ \E fd \in Fds : AcceptConnection(fd)
    \/ AddConnection
    \/ \E r \in Reactors : MatchLoop(r) \/ AiAnswer(r)
    \/ \E c \in Conns : ClientStep(c)
    \/ MatchThread

Spec == Init /\ [][Next]_vars

FairSpec ==
    /\ Spec
    /\ WF_vars(AddConnection)
    /\ WF_vars(MatchThread)
    /\ \A r \in Reactors : WF_vars(MatchLoop(r))

-----------------------------------------------------------------------------
(* Every step of the match-making server is a step of Reactor or leaves its *)
(* variables alone.                                                         *)
RefinesReactor == ReactorSpec

(* No descriptor number has been used twice so far. *)
NeverReused ==
    \A c, d \in Conns : c # d /\ connFd[c] = connFd[d] => connFd[c] = NoFd

(* What the messages promise holds as long as no descriptor number has been *)
(* reused and the match thread has not used a freed Socket; both do happen. *)
Undisturbed == NeverReused /\ ~touchedFreed

(* A user is matched only with somebody it had to do with: it asked for a   *)
(* match and the other agreed, or it agreed after it was asked about that   *)
(* very user who had asked for a match.                                     *)
Asked(a, b) == "join" \in said[a] /\ "yes" \in said[b]

MatchesAreAgreed ==
    Undisturbed =>
        \A c \in Conns : \A u \in partners[c] :
            u # c /\ (Asked(c, u) \/ (Asked(u, c) /\ u \in asked[c]))

(* A chat text reaches only a user the sender has been matched with, as long *)
(* as no descriptor number has been reused.                                 *)
TextStaysBetweenPartners ==
    NeverReused => \A c \in Conns : \A u \in heardFrom[c] : c \in partners[u]

(* Nobody in chat mode has himself for a peer, even when descriptors are     *)
(* reused between a question and its answer.                                *)
PeerIsAnother ==
    \A c \in Conns : chatMode[c] = 2 => peerFd[c] \in Fds \ {connFd[c]}

(* MatchManager.cpp:13 says the tasks of the match thread are naturally     *)
(* thread safe: it never uses a Socket another thread has freed.            *)
MatchThreadIsSafe == ~touchedFreed

(* MatchManager.cpp:105 says MATCH_SUCCESS tells the initiator: the first   *)
(* name a user is matched with belongs to somebody it had to do with.       *)
InitiatorIsTold ==
    ~touchedFreed =>
        \A c \in Conns : partners[c] # {} => {"join", "yes"} \cap said[c] # {}

(* SubReactor.cpp:44 says a user is told when the peer has left: a chat     *)
(* with a peer that is gone comes to an end.                                *)
PeerIsToldOfLeaving ==
    \A c, d \in Conns :
        (chatMode[c] = 2 /\ d \in partners[c] /\ heap[d] = "freed")
            ~> (chatMode[c] = 0 \/ heap[c] = "freed")

(* Connection c is up and stays up. *)
Staying(c) == c \in epoll[Owner(c)] /\ ~deleted[c] /\ peer[c] = "open"

Queued(type, c) ==
    \E i \in 1 .. Len(mq) : mq[i].type = type /\ mq[i].user = c

(* Once a join is queued, every user who is up and stays up is asked about  *)
(* it, provided the AI service answers and nothing upsets the descriptors.  *)
EveryoneIsAsked ==
    \A a, b \in Conns :
        a # b /\ AiAnswers(b) =>
            ((Queued("join", a) /\ Staying(b))
                ~> (a \in asked[b] \/ ~Staying(b) \/ ~Undisturbed))

(* A user who agrees while a question is pending is matched with the user   *)
(* the question is about, and each of the two is told, provided both stay.  *)
Agreeing(a, b) ==
    Queued("accept", b) /\ pendingAsks[connFd[b]].user = a

BothAreTold ==
    \A a, b \in Conns :
        a # b /\ AiAnswers(a) /\ AiAnswers(b) =>
            ((Agreeing(a, b) /\ Staying(a) /\ Staying(b))
                ~> \/ a \in partners[b] /\ b \in partners[a]
                   \/ ~Staying(a) \/ ~Staying(b) \/ ~Undisturbed)

-----------------------------------------------------------------------------
(* The inductive invariant behind PeerIsAnother: wherever two descriptors    *)
(* of a match are kept, queued or on their way, they differ, and they are   *)
(* descriptors of connections that were accepted.                           *)

(* The Socket the match thread has in hand was accepted at some time. *)
VisitInv == visit # Idle => visit.s <= idx

AskInv ==
    \A fd \in Fds : pendingAsks[fd] # NoAsk => pendingAsks[fd].fromFd # fd

DistinctEnds(task) == task.type = "success" => task.fromFd # task.targetFd

TaskInv ==
    /\ notice # NoNotice => DistinctEnds(notice)
    /\ \A r \in Reactors : \A i \in 1 .. Len(matchQueue[r]) :
           DistinctEnds(matchQueue[r][i])

PeerInv ==
    \A c \in Conns : chatMode[c] = 2 =>
        c <= idx /\ peerFd[c] \in Fds \ {connFd[c]}

MatchInv == IInv /\ MatchTypeOK /\ VisitInv /\ AskInv /\ TaskInv /\ PeerInv

-----------------------------------------------------------------------------
(* The inductive invariants behind TextStaysBetweenPartners and              *)
(* MatchesAreAgreed: what messages say of descriptors is true, and what     *)
(* they promise has happened.                                               *)

(* A message names a user by name and by descriptor, and they fit. *)
NamesFit(m) == m.user <= idx /\ connFd[m.user] = m.fromFd

CommandOf(task) == IF task.type = "join" THEN "join" ELSE "yes"

MailInv ==
    \A i \in 1 .. Len(mq) :
        NamesFit(mq[i]) /\ CommandOf(mq[i]) \in said[mq[i].user]

JoinInv ==
    visit # Idle => NamesFit(visit.task) /\ "join" \in said[visit.task.user]

QuestionInv ==
    \A fd \in Fds : pendingAsks[fd] # NoAsk =>
        NamesFit(pendingAsks[fd]) /\ "join" \in said[pendingAsks[fd].user]

NoticeInv == notice # NoNotice => NamesFit(notice) /\ notice.type = "success"

SenderInv ==
    \A r \in Reactors : \A i \in 1 .. Len(matchQueue[r]) :
        NamesFit(matchQueue[r][i])

NameInv == MailInv /\ JoinInv /\ QuestionInv /\ NoticeInv /\ SenderInv

(* u has been matched with somebody whose descriptor was fd. *)
Knows(u, fd) == \E d \in partners[u] : d <= idx /\ connFd[d] = fd

PartnerInv == \A c \in Conns : chatMode[c] = 2 => Knows(c, peerFd[c])

TextInv ==
    \A r \in Reactors : \A i \in 1 .. Len(matchQueue[r]) :
        LET task == matchQueue[r][i] IN
        task.type = "peerMsg" => Knows(task.user, task.targetFd)

HeardInv ==
    \A c \in Conns : \A u \in heardFrom[c] : c <= idx /\ Knows(u, connFd[c])

TalkInv == PartnerInv /\ TextInv /\ HeardInv

(* c has been entered in its reactor's map and connected. *)
Entered(c) == c <= idx /\ ~(InHand(c) /\ mainPc \in {"add", "connect"})

(* The Socket in the match thread's hand is one of the reactor it walks. *)
WalkInv ==
    /\ visit # Idle /\ visit.s # None => Owner(visit.s) = visit.r
    /\ \A c \in Conns : connected[c] => Entered(c)

(* c is gone, and its reactor will find it no more. *)
Gone(c) == socketMap[Owner(c)][connFd[c]] # c \/ ~connected[c]

(* The question to c about u is among the first n tasks of c's reactor. *)
Coming(c, u, n) ==
    \E i \in 1 .. n :
        LET task == matchQueue[Owner(c)][i] IN
        task.type = "ask" /\ task.targetFd = connFd[c] /\ task.user = u

(* c has been asked about u, or will have been when n tasks are done, or is *)
(* gone.                                                                    *)
Reached(c, u, n) ==
    Entered(c) /\ (u \in asked[c] \/ Gone(c) \/ Coming(c, u, n))

Waiting(c) == Len(matchQueue[Owner(c)])

(* The match with task.user that the task tells its target of was agreed,   *)
(* as far as the target will know when the task, at place i, is handled.    *)
AgreedBy(task, r, i) ==
    \E c \in Conns :
        /\ c <= idx /\ connFd[c] = task.targetFd
        /\ \/ Asked(c, task.user)
           \/ Asked(task.user, c) /\ r = Owner(c) /\ Reached(c, task.user, i - 1)

QuestionReached ==
    \A fd \in Fds : pendingAsks[fd] # NoAsk =>
        \E c \in Conns :
            connFd[c] = fd /\ Reached(c, pendingAsks[fd].user, Waiting(c))

NoticeAgreed ==
    notice # NoNotice =>
        \E c \in Conns :
            /\ connFd[c] = notice.targetFd
            /\ Asked(notice.user, c) /\ Reached(c, notice.user, Waiting(c))

SuccessAgreed ==
    \A r \in Reactors : \A i \in 1 .. Len(matchQueue[r]) :
        matchQueue[r][i].type = "success" => AgreedBy(matchQueue[r][i], r, i)

AgreeInv == QuestionReached /\ NoticeAgreed /\ SuccessAgreed

AgreementInv ==
    /\ MatchInv /\ NameInv /\ TalkInv /\ WalkInv
    /\ MatchesAreAgreed
    /\ Undisturbed => AgreeInv
=============================================================================
