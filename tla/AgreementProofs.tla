-------------------------- MODULE AgreementProofs --------------------------
(***************************************************************************)
(* Proofs that matches are agreed and that texts stay between partners,    *)
(* for every number of users, event loops and descriptors: what messages   *)
(* say of descriptors stays true while they wait, and the question to a    *)
(* user is always ahead of the news of the match.                          *)
(***************************************************************************)
EXTENDS MatchProofs

-----------------------------------------------------------------------------
(* What every step keeps. *)

(* Connections accepted keep their descriptor, and what has been read or    *)
(* sent stays read and sent.                                                *)
LEMMA NothingUnsaid ==
  ASSUME MatchTypeOK, [Next]_vars
  PROVE  \A c \in Conns :
            /\ said[c] \subseteq said'[c]
            /\ asked[c] \subseteq asked'[c]
            /\ partners[c] \subseteq partners'[c]
<1> USE DEF clientVars
<1>0. /\ said \in [Conns -> SUBSET (Inputs \cup {"nothing"})]
      /\ asked \in [Conns -> SUBSET Conns]
      /\ partners \in [Conns -> SUBSET Conns]
  BY DEF MatchTypeOK
<1>1. CASE UNCHANGED clientVars
  BY <1>1
<1>2. CASE \E r \in Reactors : HandleTask(r)
  <2>1. PICK r \in Reactors : HandleTask(r)
    BY <1>2
  <2> DEFINE task == Head(matchQueue[r])
             c    == socketMap[r][task.targetFd]
  <2>2. \/ SendAsk(c, task) \/ StartChat(c, task) \/ ForwardText(c, task)
        \/ UNCHANGED <<sessionVars, asked, partners, heardFrom>>
    BY <2>1 DEF HandleTask
  <2>3. UNCHANGED said
    BY <2>1 DEF HandleTask
  <2> HIDE DEF task, c
  <2> QED BY <1>0, <2>2, <2>3 DEF SendAsk, StartChat, ForwardText
<1>3. CASE \E r \in Reactors : \E ev \in batch[r] : MatchHandleEvent(r, ev)
  <2>0. PICK r \in Reactors : \E ev \in batch[r] : MatchHandleEvent(r, ev)
    BY <1>3
  <2>1. PICK ev \in batch[r] : MatchHandleEvent(r, ev)
    BY <2>0
  <2>2. /\ UNCHANGED <<asked, partners>>
        /\ UNCHANGED said \/ ReadMatchCommand(socketMap[r][ev.fd])
    BY <2>1 DEF MatchHandleEvent
  <2>3. \/ UNCHANGED said
        \/ \E s : said' = [said EXCEPT ![s] = @ \cup {Command(s)}]
    BY <2>2 DEF ReadMatchCommand
  <2> QED BY <1>0, <2>2, <2>3
<1> QED
  <2>1. CASE UNCHANGED vars
    BY <1>1, <2>1 DEF vars, matchVars
  <2>2. CASE \E fd \in Fds : AcceptConnection(fd)
    BY <1>1, <2>2 DEF AcceptConnection, matchVars
  <2>3. CASE AddConnection
    BY <1>1, <2>3 DEF AddConnection, matchVars
  <2>4. CASE \E r \in Reactors : MatchLoop(r)
    BY <1>1, <1>2, <1>3, <2>4
       DEF MatchLoop, QueueIsEmpty, WaitForEvents, TearDown, matchVars
  <2>5. CASE \E r \in Reactors : AiAnswer(r)
    BY <1>1, <2>5 DEF AiAnswer, matchVars
  <2>6. CASE \E c \in Conns : ClientStep(c)
    BY <1>1, <2>6 DEF ClientStep, matchVars
  <2>7. CASE MatchThread
    BY <1>1, <2>7 DEF MatchThread, BeginJoin, ReadEntry, AskEntry, NextReactor,
       NotifyAsker, NotifyAccepter
  <2> QED BY <2>1, <2>2, <2>3, <2>4, <2>5, <2>6, <2>7 DEF Next

(* A name that fits its descriptor goes on fitting. *)
LEMMA NamesGoOnFitting ==
  ASSUME MatchInv, [Next]_vars, NEW m, m.user \in Conns, NamesFit(m)
  PROVE  m.user <= idx' /\ connFd'[m.user] = m.fromFd
<1>1. IInv /\ [ReactorNext]_reactorVars
  BY StepIsReactorStep DEF MatchInv
<1>2. /\ idx \in Nat /\ idx' \in Nat /\ idx <= idx'
      /\ \A c \in Conns : c <= idx => connFd'[c] = connFd[c]
  BY <1>1, AcceptedStaysPut
<1> QED BY <1>2 DEF NamesFit, Conns

(* A connection entered stays so; one that is gone stays gone. *)
LEMMA GoneForGood ==
  ASSUME IInv, [ReactorNext]_reactorVars, WalkInv
  PROVE  /\ \A c \in Conns : Entered(c) => Entered(c)'
         /\ \A c \in Conns : Entered(c) /\ Gone(c) => Gone(c)'
         /\ \A c \in Conns : connected'[c] => Entered(c)'
<1> USE DEF mainVars, kernelVars, objectVars, tableVars, loopVars, Entered, InHand
<1>0. /\ idx \in 0 .. MaxConns /\ idx \in Nat
      /\ connected \in [Conns -> BOOLEAN]
      /\ socketMap \in [Reactors -> [Fds -> Conns \cup {None}]]
      /\ connFd \in [Conns -> Fds \cup {NoFd}]
      /\ \A c \in Conns : connected[c] => Entered(c)
  BY ReactorAssumption DEF IInv, TypeOK, WalkInv
<1>1. CASE \E fd \in Fds : Accept(fd)
  <2>1. /\ idx' = idx + 1 /\ mainPc = "accept" /\ mainPc' = "add"
        /\ UNCHANGED <<connected, socketMap>>
        /\ \E fd \in Fds : connFd' = [connFd EXCEPT ![idx + 1] = fd]
    BY <1>1 DEF Accept
  <2>2. \A c \in Conns : c <= idx => c # idx + 1 /\ c <= idx + 1
    BY <1>0 DEF Conns
  <2>3. \A c \in Conns : Entered(c) => Entered(c)'
    BY <1>0, <2>1, <2>2
  <2>4. \A c \in Conns : c <= idx => connFd'[c] = connFd[c]
    BY <1>0, <2>1, <2>2
  <2> QED BY <1>0, <2>1, <2>3, <2>4 DEF Gone
<1>2. CASE AddToMap
  <2>1. /\ mainPc = "add" /\ mainPc' = "connect"
        /\ UNCHANGED <<idx, connected, connFd>>
        /\ socketMap' = [socketMap EXCEPT ![MainOwner][MainFd] = idx]
    BY <1>2 DEF AddToMap
  <2>2. \A c \in Conns : Entered(c) <=> Entered(c)'
    BY <2>1
  <2>3. ASSUME NEW c \in Conns, Entered(c), socketMap[Owner(c)][connFd[c]] # c
        PROVE  socketMap'[Owner(c)][connFd[c]] # c
    <3>1. c # idx
      BY <2>1, <2>3
    <3>2. Owner(c) \in Reactors /\ connFd[c] \in Fds
      BY <2>3, OwnerIsReactor DEF IInv, AcceptedInv
    <3> QED BY <1>0, <2>1, <2>3, <3>1, <3>2
  <2> QED BY <1>0, <2>1, <2>2, <2>3 DEF Gone
<1>3. CASE OnConnect
  <2>1. /\ mainPc = "connect" /\ mainPc' = "register"
        /\ UNCHANGED <<idx, socketMap, connFd>>
        /\ connected' = [connected EXCEPT ![idx] = TRUE]
    BY <1>3 DEF OnConnect
  <2>2. \A c \in Conns : c # idx => connected'[c] = connected[c]
    BY <1>0, <2>1
  <2> QED BY <1>0, <2>1, <2>2 DEF Gone
<1>4. CASE /\ UNCHANGED <<idx, connFd>>
           /\ mainPc' \notin {"add", "connect"} \/ mainPc' = mainPc
           /\ \A c \in Conns : connected'[c] => connected[c]
           /\ \A r \in Reactors, fd \in Fds :
                  socketMap'[r][fd] \in {socketMap[r][fd], None}
  <2>1. \A c \in Conns : Entered(c) => Entered(c)'
    BY <1>4
  <2>2. ASSUME NEW c \in Conns, Entered(c), socketMap[Owner(c)][connFd[c]] # c
        PROVE  socketMap'[Owner(c)][connFd[c]] # c
    <3>1. Owner(c) \in Reactors /\ connFd[c] \in Fds
      BY <2>2, OwnerIsReactor DEF IInv, AcceptedInv
    <3> QED BY <1>4, <2>2, <3>1, NoneIsNoConn
  <2> QED BY <1>0, <1>4, <2>1, <2>2 DEF Gone
<1> QED
  <2>1. CASE UNCHANGED reactorVars
    BY <1>4, <2>1 DEF reactorVars
  <2>2. CASE RegisterFd \/ EpollAdd \/ EpollAddFails \/ FailUnregister
               \/ FailDelete \/ FailClose
    BY <1>4, <2>2 DEF RegisterFd, EpollAdd, EpollAddFails, FailUnregister,
       FailDelete, FailClose
  <2>3. CASE FailRemove
    BY <1>0, <1>4, <2>3 DEF FailRemove
  <2>4. ASSUME NEW r \in Reactors, EndDrain(r) \/ EpollWait(r) \/ AiReply(r)
                  \/ UnregisterFd(r) \/ DeleteSocket(r) \/ CloseFd(r)
        PROVE  UNCHANGED <<idx, connFd, mainPc, connected, socketMap>>
    BY <2>4 DEF EndDrain, EpollWait, AiReply, UnregisterFd, DeleteSocket, CloseFd
  <2>5. ASSUME NEW r \in Reactors, RemoveFromMap(r)
        PROVE  /\ UNCHANGED <<idx, connFd, mainPc, connected>>
               /\ socketMap' = [socketMap EXCEPT ![r][cur[r].fd] = None]
    BY <2>5 DEF RemoveFromMap
  <2>6. ASSUME NEW r \in Reactors, NEW ev \in batch[r], HandleEvent(r, ev)
        PROVE  /\ UNCHANGED <<idx, connFd, mainPc, socketMap>>
               /\ \/ UNCHANGED connected
                  \/ \E s : connected' = [connected EXCEPT ![s] = FALSE]
    BY <2>6 DEF HandleEvent, CloseUnknown, BeginCleanup, OnReads, OnRead
  <2>7. CASE \E c \in Conns : ClientSend(c) \/ ClientClose(c)
    BY <1>4, <2>7 DEF ClientSend, ClientClose
  <2>8. CASE \E r \in Reactors : Loop(r) \/ AiReply(r)
    <3>1. PICK r \in Reactors : Loop(r) \/ AiReply(r)
      BY <2>8
    <3>2. CASE EndDrain(r) \/ EpollWait(r) \/ AiReply(r)
                  \/ UnregisterFd(r) \/ DeleteSocket(r) \/ CloseFd(r)
      BY <1>4, <2>4, <3>2
    <3>3. CASE RemoveFromMap(r)
      BY <1>0, <1>4, <2>5, <3>3
    <3>4. CASE \E ev \in batch[r] : HandleEvent(r, ev)
      BY <1>0, <1>4, <2>6, <3>4
    <3> QED BY <3>1, <3>2, <3>3, <3>4 DEF Loop, Cleanup
  <2> QED BY <1>1, <1>2, <1>3, <2>1, <2>2, <2>3, <2>7, <2>8
          DEF ReactorNext, AddClient

-----------------------------------------------------------------------------
(* What posting and asking do to the queues: reactor q has task at the end  *)
(* of its queue, or, if q is no reactor, nothing has been added.            *)
GrowsBy(q, task) ==
    \A r \in Reactors :
        /\ Len(matchQueue[r]) <= Len(matchQueue'[r])
        /\ \A i \in 1 .. Len(matchQueue'[r]) :
              \/ i <= Len(matchQueue[r]) /\ matchQueue'[r][i] = matchQueue[r][i]
              \/ r = q /\ i = Len(matchQueue[r]) + 1 /\ matchQueue'[r][i] = task

LEMMA NothingAdded ==
  ASSUME MatchTypeOK, UNCHANGED matchQueue, NEW task
  PROVE  GrowsBy(NoReactor, task)
<1>1. \A r \in Reactors : Len(matchQueue[r]) \in Nat
  BY DEF MatchTypeOK
<1> QED BY <1>1 DEF GrowsBy

LEMMA TaskAppended ==
  ASSUME MatchTypeOK, NEW q \in Reactors, NEW task,
         matchQueue' = [matchQueue EXCEPT ![q] = Append(@, task)]
  PROVE  GrowsBy(q, task)
<1>1. \A r \in Reactors : matchQueue[r] \in Seq(ReactorTasks)
  BY DEF MatchTypeOK
<1>2. \A r \in Reactors :
          matchQueue'[r] = IF r = q THEN Append(matchQueue[q], task) ELSE matchQueue[r]
  BY DEF MatchTypeOK
<1>3. SUFFICES ASSUME NEW r \in Reactors
               PROVE  /\ Len(matchQueue[r]) <= Len(matchQueue'[r])
                      /\ \A i \in 1 .. Len(matchQueue'[r]) :
                            \/ /\ i <= Len(matchQueue[r])
                               /\ matchQueue'[r][i] = matchQueue[r][i]
                            \/ /\ r = q /\ i = Len(matchQueue[r]) + 1
                               /\ matchQueue'[r][i] = task
  BY DEF GrowsBy
<1>4. CASE r = q
  <2> DEFINE s == matchQueue[q]
  <2>1. s \in Seq(ReactorTasks) /\ matchQueue'[r] = Append(s, task)
    BY <1>1, <1>2, <1>4
  <2> HIDE DEF s
  <2>2. /\ Len(Append(s, task)) = Len(s) + 1 /\ Len(s) \in Nat
        /\ \A i \in 1 .. Len(s) : Append(s, task)[i] = s[i]
        /\ Append(s, task)[Len(s) + 1] = task
    BY <2>1
  <2> QED BY <1>4, <2>1, <2>2 DEF s
<1>5. CASE r # q
  BY <1>1, <1>2, <1>5
<1> QED BY <1>4, <1>5

LEMMA TaskPosted ==
  ASSUME IInv, MatchTypeOK, NEW task, task.targetFd \in Fds,
         matchQueue' = Posted(task)
  PROVE  GrowsBy(fdToReactor[task.targetFd], task)
<1> DEFINE q == fdToReactor[task.targetFd]
<1>1. q \in Reactors \cup {NoReactor}
  BY DEF IInv, TypeOK
<1>2. CASE q = NoReactor
  BY <1>2, NothingAdded DEF Posted
<1>3. CASE q \in Reactors
  <2>1. matchQueue' = [matchQueue EXCEPT ![q] = Append(@, task)]
    BY <1>3, NoneIsNoConn DEF Posted
  <2> HIDE DEF q
  <2> QED BY <1>3, <2>1, TaskAppended DEF q
<1> QED BY <1>1, <1>2, <1>3

-----------------------------------------------------------------------------
(* Names: what a step leaves alone goes on being right. *)

LEMMA TaskTypes ==
  ASSUME MatchTypeOK
  PROVE  /\ \A i \in 1 .. Len(mq) : mq[i] \in ManagerTasks /\ mq[i].user \in Conns
         /\ \A fd \in Fds : pendingAsks[fd] # NoAsk => pendingAsks[fd].user \in Conns
         /\ visit # Idle => visit.task \in ManagerTasks /\ visit.task.user \in Conns
         /\ notice # NoNotice => notice \in ReactorTasks /\ notice.user \in Conns
         /\ \A r \in Reactors : \A i \in 1 .. Len(matchQueue[r]) :
               /\ matchQueue[r][i] \in ReactorTasks
               /\ matchQueue[r][i].user \in Conns
<1>1. /\ mq \in Seq(ManagerTasks)
      /\ pendingAsks \in [Fds -> Asks \cup {NoAsk}]
      /\ visit \in Visits \cup {Idle}
      /\ notice \in ReactorTasks \cup {NoNotice}
      /\ matchQueue \in [Reactors -> Seq(ReactorTasks)]
  BY DEF MatchTypeOK
<1>2. /\ \A m \in ManagerTasks : m.user \in Conns
      /\ \A m \in Asks : m.user \in Conns
      /\ \A m \in ReactorTasks : m.user \in Conns
      /\ \A v \in Visits : v.task \in ManagerTasks
  BY DEF ManagerTasks, Asks, ReactorTasks, Visits
<1>3. \A i \in 1 .. Len(mq) : mq[i] \in ManagerTasks
  BY <1>1
<1>4. \A r \in Reactors : \A i \in 1 .. Len(matchQueue[r]) :
          matchQueue[r][i] \in ReactorTasks
  BY <1>1
<1> QED BY <1>1, <1>2, <1>3, <1>4

LEMMA MailKept ==
  ASSUME MatchInv, MailInv, [Next]_vars, UNCHANGED mq
  PROVE  MailInv'
<1>1. MatchTypeOK
  BY DEF MatchInv
<1> SUFFICES ASSUME NEW i \in 1 .. Len(mq)
             PROVE  NamesFit(mq[i])' /\ CommandOf(mq[i]) \in said'[mq[i].user]
  BY DEF MailInv, CommandOf
<1>2. mq[i].user \in Conns /\ NamesFit(mq[i]) /\ CommandOf(mq[i]) \in said[mq[i].user]
  BY <1>1, TaskTypes DEF MailInv
<1>3. CommandOf(mq[i]) \in said'[mq[i].user]
  BY <1>1, <1>2, NothingUnsaid
<1>4. mq[i].user <= idx' /\ connFd'[mq[i].user] = mq[i].fromFd
  BY <1>2, NamesGoOnFitting
<1> QED BY <1>3, <1>4 DEF NamesFit

LEMMA MailTaken ==
  ASSUME MatchInv, MailInv, [Next]_vars, mq # <<>>, mq' = Tail(mq)
  PROVE  MailInv'
<1>1. MatchTypeOK /\ mq \in Seq(ManagerTasks)
  BY DEF MatchInv, MatchTypeOK
<1> SUFFICES ASSUME NEW i \in 1 .. Len(mq')
             PROVE  NamesFit(mq[i])' /\ CommandOf(mq[i])' \in said'[mq'[i].user]
  BY DEF MailInv
<1>2. i + 1 \in 1 .. Len(mq) /\ mq'[i] = mq[i + 1]
  BY <1>1
<1> DEFINE m == mq[i + 1]
<1>3. m.user \in Conns /\ NamesFit(m) /\ CommandOf(m) \in said[m.user]
  BY <1>1, <1>2, TaskTypes DEF MailInv
<1> HIDE DEF m
<1>4. CommandOf(m) \in said'[m.user]
  BY <1>1, <1>3, NothingUnsaid
<1>5. m.user <= idx' /\ connFd'[m.user] = m.fromFd
  BY <1>3, NamesGoOnFitting
<1>6. mq'[i] = m
  BY <1>2 DEF m
<1> QED BY <1>4, <1>5, <1>6 DEF NamesFit, CommandOf

LEMMA JoinKept ==
  ASSUME MatchInv, JoinInv, [Next]_vars,
         visit' # Idle => visit # Idle /\ visit'.task = visit.task
  PROVE  JoinInv'
<1> SUFFICES ASSUME visit' # Idle
             PROVE  NamesFit(visit.task)' /\ "join" \in said'[visit'.task.user]
  BY DEF JoinInv
<1> DEFINE m == visit.task
<1>1. MatchTypeOK /\ visit # Idle /\ visit'.task = m
  BY DEF MatchInv
<1>2. m.user \in Conns /\ NamesFit(m) /\ "join" \in said[m.user]
  BY <1>1, TaskTypes DEF JoinInv
<1> HIDE DEF m
<1>3. m.user <= idx' /\ connFd'[m.user] = m.fromFd /\ "join" \in said'[m.user]
  BY <1>1, <1>2, NamesGoOnFitting, NothingUnsaid
<1> QED BY <1>1, <1>3 DEF NamesFit

LEMMA QuestionsKept ==
  ASSUME MatchInv, QuestionInv, [Next]_vars,
         \A fd \in Fds : pendingAsks'[fd] \in {pendingAsks[fd], NoAsk}
  PROVE  QuestionInv'
<1> SUFFICES ASSUME NEW fd \in Fds, pendingAsks'[fd] # NoAsk
             PROVE  NamesFit(pendingAsks[fd])' /\ "join" \in said'[pendingAsks'[fd].user]
  BY DEF QuestionInv
<1> DEFINE m == pendingAsks[fd]
<1>1. MatchTypeOK /\ m # NoAsk /\ pendingAsks'[fd] = m
  BY DEF MatchInv
<1>2. m.user \in Conns /\ NamesFit(m) /\ "join" \in said[m.user]
  BY <1>1, TaskTypes DEF QuestionInv
<1> HIDE DEF m
<1>3. m.user <= idx' /\ connFd'[m.user] = m.fromFd /\ "join" \in said'[m.user]
  BY <1>1, <1>2, NamesGoOnFitting, NothingUnsaid
<1> QED BY <1>1, <1>3 DEF NamesFit

LEMMA NoticeKept ==
  ASSUME MatchInv, NoticeInv, [Next]_vars, notice' \in {notice, NoNotice}
  PROVE  NoticeInv'
<1> SUFFICES ASSUME notice' # NoNotice, notice' = notice
             PROVE  NamesFit(notice)' /\ notice'.type = "success"
  BY DEF NoticeInv
<1>1. notice.user \in Conns /\ NamesFit(notice) /\ notice.type = "success"
  BY TaskTypes DEF MatchInv, NoticeInv
<1>2. notice.user <= idx' /\ connFd'[notice.user] = notice.fromFd
  BY <1>1, NamesGoOnFitting
<1> QED BY <1>1, <1>2 DEF NamesFit

LEMMA SendersKept ==
  ASSUME MatchInv, SenderInv, [Next]_vars, NEW q, NEW task, GrowsBy(q, task),
         q \in Reactors => task.user \in Conns /\ NamesFit(task)
  PROVE  SenderInv'
<1> SUFFICES ASSUME NEW r \in Reactors, NEW i \in 1 .. Len(matchQueue'[r])
             PROVE  NamesFit(matchQueue[r][i])'
  BY DEF SenderInv
<1>1. PICK m : m = matchQueue'[r][i]
  OBVIOUS
<1>2. m.user \in Conns /\ NamesFit(m)
  <2>1. CASE i <= Len(matchQueue[r]) /\ m = matchQueue[r][i]
    <3>1. i \in 1 .. Len(matchQueue[r])
      BY <2>1 DEF MatchInv, MatchTypeOK
    <3> QED BY <2>1, <3>1, TaskTypes DEF MatchInv, SenderInv
  <2>2. CASE r = q /\ m = task
    BY <2>2
  <2> QED BY <1>1, <2>1, <2>2 DEF GrowsBy
<1>3. m.user <= idx' /\ connFd'[m.user] = m.fromFd
  BY <1>2, NamesGoOnFitting
<1> QED BY <1>1, <1>3 DEF NamesFit

-----------------------------------------------------------------------------
(* Texts: a partner once known stays known. *)

LEMMA Accepted ==
  ASSUME MatchInv, [Next]_vars
  PROVE  /\ idx \in Nat /\ idx' \in Nat /\ idx <= idx'
         /\ \A c \in Conns : c <= idx => c <= idx' /\ connFd'[c] = connFd[c]
<1>1. /\ idx \in Nat /\ idx' \in Nat /\ idx <= idx'
      /\ \A c \in Conns : c <= idx => connFd'[c] = connFd[c]
  BY StepIsReactorStep, AcceptedStaysPut DEF MatchInv
<1> QED BY <1>1 DEF Conns

LEMMA KnownForGood ==
  ASSUME MatchInv, [Next]_vars, NEW u \in Conns, NEW fd, Knows(u, fd)
  PROVE  \E d \in partners'[u] : d <= idx' /\ connFd'[d] = fd
<1>1. PICK d \in partners[u] : d <= idx /\ connFd[d] = fd
  BY DEF Knows
<1>2. d \in Conns /\ d \in partners'[u]
  BY <1>1, NothingUnsaid DEF MatchInv, MatchTypeOK
<1> QED BY <1>1, <1>2, Accepted

LEMMA PartnersKept ==
  ASSUME MatchInv, PartnerInv, [Next]_vars, UNCHANGED sessionVars
  PROVE  PartnerInv'
<1> SUFFICES ASSUME NEW c \in Conns, chatMode'[c] = 2
             PROVE  \E d \in partners'[c] : d <= idx' /\ connFd'[d] = peerFd'[c]
  BY DEF PartnerInv, Knows
<1>1. Knows(c, peerFd[c])
  BY DEF PartnerInv, sessionVars
<1>2. PICK fd : fd = peerFd[c]
  OBVIOUS
<1>3. \E d \in partners'[c] : d <= idx' /\ connFd'[d] = fd
  BY <1>1, <1>2, KnownForGood
<1> QED BY <1>2, <1>3 DEF sessionVars

LEMMA TextsKept ==
  ASSUME MatchInv, TextInv, [Next]_vars, NEW q, NEW task, GrowsBy(q, task),
         q \in Reactors /\ task.type = "peerMsg" =>
             task.user \in Conns /\ Knows(task.user, task.targetFd)
  PROVE  TextInv'
<1> SUFFICES ASSUME NEW r \in Reactors, NEW i \in 1 .. Len(matchQueue'[r]),
                    matchQueue'[r][i].type = "peerMsg"
             PROVE  \E d \in partners'[matchQueue'[r][i].user] :
                        /\ d <= idx'
                        /\ connFd'[d] = matchQueue'[r][i].targetFd
  BY DEF TextInv, Knows
<1>1. PICK m : m = matchQueue'[r][i]
  OBVIOUS
<1>2. m.user \in Conns /\ Knows(m.user, m.targetFd)
  <2>1. CASE i <= Len(matchQueue[r]) /\ m = matchQueue[r][i]
    <3>1. i \in 1 .. Len(matchQueue[r])
      BY <2>1 DEF MatchInv, MatchTypeOK
    <3> QED BY <1>1, <2>1, <3>1, TaskTypes DEF MatchInv, TextInv
  <2>2. CASE r = q /\ m = task
    BY <1>1, <2>2
  <2> QED BY <1>1, <2>1, <2>2 DEF GrowsBy
<1> QED BY <1>1, <1>2, KnownForGood

LEMMA HeardKept ==
  ASSUME MatchInv, HeardInv, [Next]_vars, UNCHANGED heardFrom
  PROVE  HeardInv'
<1> SUFFICES ASSUME NEW c \in Conns, NEW u \in heardFrom[c]
             PROVE  /\ c <= idx'
                    /\ \E d \in partners'[u] : d <= idx' /\ connFd'[d] = connFd'[c]
  BY DEF HeardInv, Knows
<1>1. u \in Conns
  BY DEF MatchInv, MatchTypeOK
<1>2. c <= idx /\ Knows(u, connFd[c])
  BY DEF HeardInv
<1>3. c <= idx' /\ connFd'[c] = connFd[c]
  BY <1>2, Accepted
<1> QED BY <1>1, <1>2, <1>3, KnownForGood

-----------------------------------------------------------------------------
(* Agreement: who has been reached stays reached. *)

LEMMA WalkKept ==
  ASSUME MatchInv, WalkInv, [Next]_vars,
         visit' # Idle /\ visit'.s # None =>
             Owner(visit'.s) = visit'.r
  PROVE  WalkInv'
<1>1. \A c \in Conns : connected'[c] => Entered(c)'
  BY StepIsReactorStep, GoneForGood DEF MatchInv
<1> QED BY <1>1 DEF WalkInv, Owner

LEMMA ReachedForGood ==
  ASSUME MatchInv, WalkInv, [Next]_vars, NEW q, NEW task, GrowsBy(q, task),
         NEW c \in Conns, NEW u, NEW n \in Nat, n <= Waiting(c), Reached(c, u, n)
  PROVE  Reached(c, u, n)'
<1>0. Owner(c) \in Reactors
  BY OwnerIsReactor
<1>1. IInv /\ MatchTypeOK /\ [ReactorNext]_reactorVars
  BY StepIsReactorStep DEF MatchInv
<1>2. Entered(c) /\ Entered(c)' /\ (Gone(c) => Gone(c)')
  BY <1>1, GoneForGood DEF Reached
<1>3. u \in asked[c] => u \in asked'[c]
  BY <1>1, NothingUnsaid
<1>4. Coming(c, u, n) => Coming(c, u, n)'
  <2> SUFFICES ASSUME Coming(c, u, n) PROVE Coming(c, u, n)'
    OBVIOUS
  <2>1. connFd'[c] = connFd[c]
    BY <1>2, Accepted DEF Entered
  <2>2. PICK i \in 1 .. n :
            /\ matchQueue[Owner(c)][i].type = "ask"
            /\ matchQueue[Owner(c)][i].targetFd = connFd[c]
            /\ matchQueue[Owner(c)][i].user = u
    BY DEF Coming
  <2> DEFINE r == Owner(c)
  <2>3. Len(matchQueue[r]) \in Nat /\ n <= Len(matchQueue[r])
    BY <1>0, <1>1 DEF MatchTypeOK, Waiting
  <2>4. /\ Len(matchQueue[r]) <= Len(matchQueue'[r])
        /\ \A j \in 1 .. Len(matchQueue'[r]) :
              \/ j <= Len(matchQueue[r]) /\ matchQueue'[r][j] = matchQueue[r][j]
              \/ j = Len(matchQueue[r]) + 1
    BY <1>0 DEF GrowsBy
  <2>5. Len(matchQueue'[r]) \in Nat
    <3>1. MatchTypeOK'
      BY NextKeepsMatchInv DEF MatchInv
    <3> QED BY <1>0, <3>1 DEF MatchTypeOK, Owner
  <2>6. matchQueue'[r][i] = matchQueue[r][i]
    <3> HIDE DEF r
    <3>1. i \in 1 .. Len(matchQueue'[r]) /\ i # Len(matchQueue[r]) + 1
      BY <2>3, <2>4, <2>5
    <3> QED BY <2>4, <3>1
  <2> QED BY <2>1, <2>2, <2>6 DEF Coming, Owner
<1> QED BY <1>2, <1>3, <1>4 DEF Reached

(* Reached with all that was waiting, so with all that is. *)
LEMMA ReachedMore ==
  ASSUME NEW c \in Conns, NEW u, NEW m \in Nat, NEW n \in Nat, m <= n,
         Reached(c, u, m)
  PROVE  Reached(c, u, n)
BY DEF Reached, Coming

-----------------------------------------------------------------------------
(* Step by step: what messages say of descriptors is true.                  *)
Talking == MatchInv /\ NameInv /\ TalkInv /\ WalkInv

(* A step after which the users know what they knew, and which adds at most *)
(* one task, of which all of this holds.                                    *)
LEMMA TalkKept ==
  ASSUME MatchInv, SenderInv, TalkInv, [Next]_vars,
         UNCHANGED <<sessionVars, heardFrom>>,
         NEW q, NEW task, GrowsBy(q, task),
         q \in Reactors =>
             /\ task.user \in Conns /\ NamesFit(task)
             /\ task.type = "peerMsg" => Knows(task.user, task.targetFd)
  PROVE  SenderInv' /\ TalkInv'
<1>1. SenderInv'
  BY SendersKept
<1>2. PartnerInv' /\ HeardInv'
  BY PartnersKept, HeardKept DEF TalkInv
<1>3. TextInv'
  BY TextsKept DEF TalkInv
<1> QED BY <1>1, <1>2, <1>3 DEF TalkInv

LEMMA TalkInQuietStep ==
  ASSUME Talking, [Next]_vars, UNCHANGED matchVars
  PROVE  Talking'
<1> USE DEF matchVars, managerVars, clientVars
<1>1. MatchInv /\ MatchInv' /\ MatchTypeOK
  BY NextKeepsMatchInv DEF Talking, MatchInv
<1>2. MailInv' /\ JoinInv'
  BY <1>1, MailKept, JoinKept DEF Talking, NameInv
<1>3. QuestionInv' /\ NoticeInv'
  BY <1>1, QuestionsKept, NoticeKept DEF Talking, NameInv
<1>4. GrowsBy(NoReactor, NoNotice)
  BY <1>1, NothingAdded
<1>5. SenderInv' /\ TalkInv'
  BY <1>1, <1>4, NoneIsNoConn, TalkKept DEF Talking, NameInv
<1>6. WalkInv'
  BY <1>1, WalkKept DEF Talking, WalkInv
<1> QED BY <1>1, <1>2, <1>3, <1>5, <1>6 DEF Talking, NameInv

LEMMA MailAppended ==
  ASSUME MatchInv, MailInv, [Next]_vars,
         NEW m, m.user \in Conns, NamesFit(m), CommandOf(m) \in said'[m.user],
         mq' = Append(mq, m)
  PROVE  MailInv'
<1>1. MatchTypeOK /\ mq \in Seq(ManagerTasks)
  BY DEF MatchInv, MatchTypeOK
<1> SUFFICES ASSUME NEW i \in 1 .. Len(mq')
             PROVE  NamesFit(mq[i])' /\ CommandOf(mq[i])' \in said'[mq'[i].user]
  BY DEF MailInv
<1>2. PICK k : k = mq'[i]
  OBVIOUS
<1>3. k.user \in Conns /\ NamesFit(k) /\ CommandOf(k) \in said'[k.user]
  <2>1. CASE i = Len(mq) + 1
    <3>1. k = m
      BY <1>1, <1>2, <2>1
    <3> QED BY <3>1
  <2>2. CASE i # Len(mq) + 1
    <3>1. i \in 1 .. Len(mq) /\ k = mq[i]
      BY <1>1, <1>2, <2>2
    <3>2. k.user \in Conns /\ NamesFit(k) /\ CommandOf(k) \in said[k.user]
      BY <1>1, <3>1, TaskTypes DEF MailInv
    <3> QED BY <1>1, <3>2, NothingUnsaid
  <2> QED BY <2>1, <2>2
<1>4. k.user <= idx' /\ connFd'[k.user] = k.fromFd
  BY <1>3, NamesGoOnFitting
<1> QED BY <1>2, <1>3, <1>4 DEF NamesFit, CommandOf

(* A command names the connection it was read from, and a text goes to the  *)
(* partner its sender knows.                                                *)
LEMMA TalkInMatchHandleEvent ==
  ASSUME Talking, NEW r \in Reactors, NEW ev \in batch[r],
         MatchHandleEvent(r, ev)
  PROVE  Talking'
<1>0. [Next]_vars
  BY DEF Next, MatchLoop
<1>1. MatchInv /\ MatchInv' /\ MatchTypeOK /\ IInv
  BY <1>0, NextKeepsMatchInv DEF Talking, MatchInv
<1>2. UNCHANGED <<waitingQueue, pendingAsks, visit, notice, sessionVars, heardFrom>>
  BY DEF MatchHandleEvent, ReadMatchCommand, ReadJoin, ReadPeerText, ReadAccept,
     managerVars
<1>3. JoinInv' /\ QuestionInv' /\ NoticeInv'
  BY <1>0, <1>1, <1>2, JoinKept, QuestionsKept, NoticeKept DEF Talking, NameInv
<1>4. WalkInv'
  BY <1>0, <1>1, <1>2, WalkKept DEF Talking, WalkInv
<1> DEFINE s == socketMap[r][ev.fd]
<1>5. MailInv' /\ SenderInv' /\ TalkInv'
  <2>0. ASSUME UNCHANGED matchQueue
        PROVE  SenderInv' /\ TalkInv'
    <3>1. GrowsBy(NoReactor, NoNotice)
      BY <1>1, <2>0, NothingAdded
    <3> QED BY <1>0, <1>1, <1>2, <3>1, NoneIsNoConn, TalkKept DEF Talking, NameInv
  <2>1. CASE UNCHANGED <<mq, matchQueue>>
    BY <1>0, <1>1, <2>0, <2>1, MailKept DEF Talking, NameInv
  <2>2. CASE s # None /\ ~deleted[s] /\ ~ev.hup
    <3>1. s \in Conns /\ s <= idx /\ connFd[s] \in Fds
      <4>1. ev.fd \in Fds
        BY <1>1, EventFacts
      <4> QED BY <1>1, <2>2, <4>1, MapEntry
    <3>2. ReadMatchCommand(s)
      BY <2>2 DEF MatchHandleEvent
    <3> HIDE DEF s
    <3>3. CASE ReadJoin(s) \/ ReadAccept(s)
      <4>1. PICK m : m = [type   |-> IF ReadJoin(s) THEN "join" ELSE "accept",
                          fromFd |-> connFd[s], user |-> s]
        OBVIOUS
      <4>2. mq' = Append(mq, m) /\ UNCHANGED matchQueue /\ CommandOf(m) = Command(s)
        BY <3>3, <4>1 DEF ReadJoin, ReadAccept, CommandOf
      <4>3. m.user = s /\ m.fromFd = connFd[s]
        BY <4>1
      <4>4. Command(s) \in said'[s]
        BY <1>1, <3>1, <3>2 DEF ReadMatchCommand, MatchTypeOK
      <4>5. m.user \in Conns /\ NamesFit(m) /\ CommandOf(m) \in said'[m.user]
        BY <3>1, <4>2, <4>3, <4>4 DEF NamesFit
      <4> QED BY <1>0, <1>1, <2>0, <4>2, <4>5, MailAppended DEF Talking, NameInv
    <3>4. CASE ReadPeerText(s)
      <4>1. MailInv'
        BY <1>0, <1>1, <3>4, MailKept DEF ReadPeerText, managerVars, Talking, NameInv
      <4>2. CASE chatMode[s] = 2 /\ peerFd[s] # NoFd
        <5> DEFINE task == [type |-> "peerMsg", fromFd |-> connFd[s],
                            targetFd |-> peerFd[s], user |-> s]
        <5>1. task.user = s /\ task.fromFd = connFd[s] /\ task.targetFd = peerFd[s]
          OBVIOUS
        <5>2. peerFd[s] \in Fds
          BY <1>1, <3>1, <4>2 DEF MatchTypeOK
        <5>3. matchQueue' = Posted(task)
          BY <3>4, <4>2 DEF ReadPeerText
        <5> HIDE DEF task
        <5>4. GrowsBy(fdToReactor[task.targetFd], task)
          BY <1>1, <5>1, <5>2, <5>3, TaskPosted
        <5>5. /\ task.user \in Conns /\ NamesFit(task)
              /\ Knows(task.user, task.targetFd)
          BY <3>1, <4>2, <5>1 DEF NamesFit, Talking, TalkInv, PartnerInv
        <5>6. SenderInv' /\ TalkInv'
          BY <1>0, <1>1, <1>2, <5>4, <5>5, TalkKept DEF Talking, NameInv
        <5> QED BY <4>1, <5>6
      <4>3. CASE ~(chatMode[s] = 2 /\ peerFd[s] # NoFd)
        BY <2>0, <3>4, <4>1, <4>3 DEF ReadPeerText
      <4> QED BY <4>2, <4>3
    <3> QED BY <2>1, <3>2, <3>3, <3>4 DEF ReadMatchCommand, managerVars
  <2> QED BY <2>1, <2>2 DEF MatchHandleEvent, managerVars
<1> QED BY <1>1, <1>3, <1>4, <1>5 DEF Talking, NameInv

(* A task taken from the queue of reactor r: the others move up. *)
LEMMA TaskTaken ==
  ASSUME MatchTypeOK, NEW r \in Reactors, matchQueue[r] # <<>>,
         matchQueue' = [matchQueue EXCEPT ![r] = Tail(@)]
  PROVE  /\ 1 \in 1 .. Len(matchQueue[r])
         /\ Head(matchQueue[r]) = matchQueue[r][1]
         /\ Len(matchQueue'[r]) = Len(matchQueue[r]) - 1
         /\ \A q \in Reactors : \A i \in 1 .. Len(matchQueue'[q]) :
               \E j \in 1 .. Len(matchQueue[q]) :
                  /\ matchQueue'[q][i] = matchQueue[q][j]
                  /\ j = IF q = r THEN i + 1 ELSE i
         /\ \A q \in Reactors : q # r => matchQueue'[q] = matchQueue[q]
<1>1. matchQueue[r] \in Seq(ReactorTasks)
  BY DEF MatchTypeOK
<1>2. \A q \in Reactors : matchQueue'[q] =
          IF q = r THEN Tail(matchQueue[r]) ELSE matchQueue[q]
  BY DEF MatchTypeOK
<1> DEFINE s == matchQueue[r]
<1>3. s \in Seq(ReactorTasks) /\ s # <<>>
  BY <1>1
<1> HIDE DEF s
<1>4. /\ 1 \in 1 .. Len(s) /\ Head(s) = s[1] /\ Len(Tail(s)) = Len(s) - 1
      /\ \A i \in 1 .. Len(Tail(s)) : i + 1 \in 1 .. Len(s) /\ Tail(s)[i] = s[i + 1]
  BY <1>3
<1>5. \A q \in Reactors : \A i \in 1 .. Len(matchQueue'[q]) :
          \E j \in 1 .. Len(matchQueue[q]) :
             /\ matchQueue'[q][i] = matchQueue[q][j]
             /\ j = IF q = r THEN i + 1 ELSE i
  <2> SUFFICES ASSUME NEW q \in Reactors, NEW i \in 1 .. Len(matchQueue'[q])
               PROVE  \E j \in 1 .. Len(matchQueue[q]) :
                         /\ matchQueue'[q][i] = matchQueue[q][j]
                         /\ j = IF q = r THEN i + 1 ELSE i
    OBVIOUS
  <2>1. CASE q = r
    <3>1. matchQueue'[q] = Tail(s) /\ matchQueue[q] = s
      BY <1>2, <2>1 DEF s
    <3>2. i + 1 \in 1 .. Len(s) /\ Tail(s)[i] = s[i + 1]
      BY <1>4, <3>1
    <3> QED BY <2>1, <3>1, <3>2
  <2>2. CASE q # r
    BY <1>2, <2>2
  <2> QED BY <2>1, <2>2
<1> QED BY <1>2, <1>4, <1>5 DEF s

(* The news of a match names a partner with its descriptor, and a text was  *)
(* sent by somebody who knows the descriptor it is for.                     *)
LEMMA TalkInHandleTask ==
  ASSUME Talking, NEW r \in Reactors, HandleTask(r)
  PROVE  Talking'
<1>0. [Next]_vars
  BY DEF Next, MatchLoop
<1>1. MatchInv /\ MatchInv' /\ MatchTypeOK /\ IInv
  BY <1>0, NextKeepsMatchInv DEF Talking, MatchInv
<1>2. UNCHANGED <<idx, connFd, mq, visit, pendingAsks, notice>>
  BY DEF HandleTask, reactorVars, mainVars, objectVars, managerVars
<1>3. MailInv' /\ JoinInv'
  BY <1>0, <1>1, <1>2, MailKept, JoinKept DEF Talking, NameInv
<1>4. QuestionInv' /\ NoticeInv' /\ WalkInv'
  BY <1>0, <1>1, <1>2, QuestionsKept, NoticeKept, WalkKept
     DEF Talking, NameInv, WalkInv
<1> DEFINE task == Head(matchQueue[r])
           c    == socketMap[r][task.targetFd]
<1>5. /\ 1 \in 1 .. Len(matchQueue[r])
      /\ task = matchQueue[r][1]
      /\ \A q \in Reactors : \A i \in 1 .. Len(matchQueue'[q]) :
            \E j \in 1 .. Len(matchQueue[q]) : matchQueue'[q][i] = matchQueue[q][j]
  <2>1. matchQueue[r] # <<>> /\ matchQueue' = [matchQueue EXCEPT ![r] = Tail(@)]
    BY DEF HandleTask
  <2> QED BY <1>1, <2>1, TaskTaken
<1>6. /\ task \in ReactorTasks /\ task.user \in Conns /\ task.targetFd \in Fds
      /\ NamesFit(task)
      /\ task.type = "peerMsg" => Knows(task.user, task.targetFd)
  BY <1>1, <1>5, TaskTypes DEF Talking, NameInv, SenderInv, TalkInv, TextInv, ReactorTasks
<1>7. SenderInv'
  <2> SUFFICES ASSUME NEW q \in Reactors, NEW i \in 1 .. Len(matchQueue'[q])
               PROVE  NamesFit(matchQueue[q][i])'
    BY DEF SenderInv
  <2>1. PICK m : m = matchQueue'[q][i]
    OBVIOUS
  <2>2. NamesFit(m)
    BY <1>5, <2>1 DEF Talking, NameInv, SenderInv
  <2> QED BY <1>2, <2>1, <2>2 DEF NamesFit
<1>8. TextInv'
  <2> SUFFICES ASSUME NEW q \in Reactors, NEW i \in 1 .. Len(matchQueue'[q]),
                      matchQueue'[q][i].type = "peerMsg"
               PROVE  \E d \in partners'[matchQueue'[q][i].user] :
                          /\ d <= idx'
                          /\ connFd'[d] = matchQueue'[q][i].targetFd
    BY DEF TextInv, Knows
  <2>1. PICK m : m = matchQueue'[q][i]
    OBVIOUS
  <2>2. PICK j \in 1 .. Len(matchQueue[q]) : m = matchQueue[q][j]
    BY <1>5, <2>1
  <2>3. m.user \in Conns
    BY <1>1, <2>2, TaskTypes
  <2>4. Knows(m.user, m.targetFd)
    BY <2>1, <2>2 DEF Talking, TalkInv, TextInv
  <2> QED BY <1>0, <1>1, <2>1, <2>3, <2>4, KnownForGood
<1>9. PartnerInv /\ HeardInv
  BY DEF Talking, TalkInv
<1>10. c # None => c \in Conns /\ c <= idx /\ connFd[c] = task.targetFd
  BY <1>1, <1>6, MapEntry
<1>11. \/ /\ c # None
          /\ SendAsk(c, task) \/ StartChat(c, task) \/ ForwardText(c, task)
       \/ UNCHANGED <<sessionVars, heardFrom>>
  BY DEF HandleTask
<1> HIDE DEF task, c
<1>12. PartnerInv' /\ HeardInv'
  <2>1. CASE c # None /\ StartChat(c, task)
    <3>1. HeardInv'
      BY <1>0, <1>1, <1>9, <2>1, HeardKept DEF StartChat
    <3>2. SUFFICES ASSUME NEW d \in Conns, chatMode'[d] = 2
                   PROVE  \E p \in partners'[d] : p <= idx' /\ connFd'[p] = peerFd'[d]
      BY <3>1 DEF PartnerInv, Knows
    <3>3. CASE d = c
      <4>1. task.user \in partners'[c] /\ peerFd'[c] = task.fromFd
        BY <1>1, <1>10, <2>1 DEF StartChat, MatchTypeOK
      <4> QED BY <1>2, <1>6, <3>3, <4>1 DEF NamesFit
    <3>4. CASE d # c
      <4>1. chatMode[d] = 2 /\ peerFd'[d] = peerFd[d]
        <5>1. chatMode \in [Conns -> {0, 2}] /\ peerFd \in [Conns -> Fds \cup {NoFd}]
          BY <1>1 DEF MatchTypeOK
        <5>2. /\ chatMode' = [chatMode EXCEPT ![c] = 2]
              /\ peerFd' = [peerFd EXCEPT ![c] = task.fromFd]
          BY <2>1 DEF StartChat
        <5> QED BY <3>2, <3>4, <5>1, <5>2
      <4>2. Knows(d, peerFd[d])
        BY <1>9, <4>1 DEF PartnerInv
      <4>3. PICK fd : fd = peerFd[d]
        OBVIOUS
      <4>4. \E p \in partners'[d] : p <= idx' /\ connFd'[p] = fd
        BY <1>0, <1>1, <4>2, <4>3, KnownForGood
      <4> QED BY <4>1, <4>3, <4>4
    <3> QED BY <3>3, <3>4
  <2>2. CASE c # None /\ ForwardText(c, task)
    <3>1. PartnerInv'
      BY <1>0, <1>1, <1>9, <2>2, PartnersKept DEF ForwardText
    <3>2. SUFFICES ASSUME NEW d \in Conns, NEW u \in heardFrom'[d]
                   PROVE  /\ d <= idx'
                          /\ \E p \in partners'[u] : p <= idx' /\ connFd'[p] = connFd'[d]
      BY <3>1 DEF HeardInv, Knows
    <3>3. u \in heardFrom[d] \/ (d = c /\ u = task.user)
      BY <1>1, <2>2 DEF ForwardText, MatchTypeOK
    <3>4. d <= idx /\ u \in Conns /\ Knows(u, connFd[d])
      <4>1. CASE u \in heardFrom[d]
        BY <1>1, <1>9, <4>1 DEF HeardInv, MatchTypeOK
      <4>2. CASE d = c /\ u = task.user
        BY <1>6, <1>10, <2>2, <4>2 DEF ForwardText
      <4> QED BY <3>3, <4>1, <4>2
    <3> QED BY <1>0, <1>1, <1>2, <3>4, KnownForGood
  <2>3. CASE c # None /\ SendAsk(c, task)
    BY <1>0, <1>1, <1>9, <2>3, PartnersKept, HeardKept DEF SendAsk
  <2>4. CASE UNCHANGED <<sessionVars, heardFrom>>
    BY <1>0, <1>1, <1>9, <2>4, PartnersKept, HeardKept
  <2> QED BY <1>11, <2>1, <2>2, <2>3, <2>4
<1> QED BY <1>1, <1>3, <1>4, <1>7, <1>8, <1>12 DEF Talking, NameInv, TalkInv

(* A step of the match thread that sends no task and asks no question. *)
LEMMA TalkInOwnStep ==
  ASSUME Talking, MatchThread, UNCHANGED <<pendingAsks, notice, matchQueue,
                                           sessionVars, clientVars>>,
         MailInv', JoinInv',
         visit' # Idle /\ visit'.s # None => Owner(visit'.s) = visit'.r
  PROVE  Talking'
<1>0. [Next]_vars
  BY DEF Next
<1>1. MatchInv /\ MatchInv' /\ MatchTypeOK
  BY <1>0, NextKeepsMatchInv DEF Talking, MatchInv
<1>2. QuestionInv' /\ NoticeInv'
  BY <1>0, <1>1, QuestionsKept, NoticeKept DEF Talking, NameInv
<1>3. GrowsBy(NoReactor, NoNotice)
  BY <1>1, NothingAdded
<1>4. SenderInv' /\ TalkInv'
  BY <1>0, <1>1, <1>3, NoneIsNoConn, TalkKept DEF Talking, NameInv, clientVars
<1>5. WalkInv'
  BY <1>0, <1>1, WalkKept DEF Talking
<1> QED BY <1>1, <1>2, <1>4, <1>5 DEF Talking, NameInv

LEMMA TalkInBeginJoin ==
  ASSUME Talking, BeginJoin
  PROVE  Talking'
<1>0. [Next]_vars /\ MatchThread
  BY DEF Next, MatchThread
<1>1. MatchInv /\ MatchTypeOK
  BY DEF Talking, MatchInv
<1>2. mq # <<>> /\ mq' = Tail(mq) /\ mq \in Seq(ManagerTasks)
  BY <1>1 DEF BeginJoin, NextTaskIs, MatchTypeOK
<1>3. MailInv'
  BY <1>0, <1>1, <1>2, MailTaken DEF Talking, NameInv
<1>4. /\ visit'.task = Head(mq) /\ visit'.s = None
      /\ Head(mq).type = "join"
      /\ UNCHANGED <<reactorVars, pendingAsks, notice, matchQueue, sessionVars,
                     clientVars>>
  BY DEF BeginJoin, NextTaskIs
<1>5. JoinInv'
  <2>1. 1 \in 1 .. Len(mq) /\ Head(mq) = mq[1]
    BY <1>2
  <2>2. NamesFit(Head(mq)) /\ "join" \in said[Head(mq).user]
    BY <1>4, <2>1 DEF Talking, NameInv, MailInv, CommandOf
  <2> QED BY <1>4, <2>2
          DEF JoinInv, NamesFit, clientVars, reactorVars, mainVars, objectVars
<1> QED BY <1>0, <1>3, <1>4, <1>5, TalkInOwnStep

(* The Socket found in the map of a reactor is one of that reactor. *)
LEMMA TalkInReadEntry ==
  ASSUME Talking, ReadEntry
  PROVE  Talking'
<1>0. [Next]_vars /\ MatchThread
  BY DEF Next, MatchThread
<1>1. MatchInv /\ MatchTypeOK /\ IInv
  BY DEF Talking, MatchInv
<1>2. UNCHANGED <<mq, pendingAsks, notice, matchQueue, sessionVars, clientVars>>
  BY DEF ReadEntry
<1>3. visit \in Visits /\ visit # Idle
  BY <1>1 DEF ReadEntry, MatchTypeOK
<1>4. PICK fd \in Ahead : visit' = At(visit.r, fd, socketMap[visit.r][fd])
  BY DEF ReadEntry
<1>5. visit'.task = visit.task
  BY <1>4 DEF At
<1>6. MailInv' /\ JoinInv'
  BY <1>0, <1>1, <1>2, <1>3, <1>5, MailKept, JoinKept DEF Talking, NameInv
<1>7. Owner(visit'.s) = visit'.r
  <2>1. visit.r \in Reactors /\ fd \in Fds /\ socketMap[visit.r][fd] # None
    BY <1>3, <1>4 DEF Visits, Ahead
  <2>2. Owner(socketMap[visit.r][fd]) = visit.r
    BY <1>1, <2>1 DEF IInv, MapInv
  <2> QED BY <1>4, <2>2 DEF At
<1> QED BY <1>0, <1>2, <1>6, <1>7, TalkInOwnStep

LEMMA TalkInNextReactor ==
  ASSUME Talking, NextReactor
  PROVE  Talking'
<1>0. [Next]_vars /\ MatchThread
  BY DEF Next, MatchThread
<1>1. MatchInv /\ visit # Idle
  BY DEF Talking, NextReactor
<1>2. UNCHANGED <<mq, pendingAsks, notice, matchQueue, sessionVars, clientVars>>
  BY DEF NextReactor
<1>3. visit' # Idle => visit'.task = visit.task /\ visit'.s = None
  BY DEF NextReactor, At
<1>4. MailInv' /\ JoinInv'
  BY <1>0, <1>1, <1>2, <1>3, MailKept, JoinKept DEF Talking, NameInv
<1> QED BY <1>0, <1>2, <1>3, <1>4, TalkInOwnStep

(* The question names the user who joined. *)
LEMMA TalkInAskEntry ==
  ASSUME Talking, AskEntry
  PROVE  Talking'
<1>0. [Next]_vars
  BY DEF Next, MatchThread
<1>1. MatchInv /\ MatchInv' /\ MatchTypeOK /\ IInv
  BY <1>0, NextKeepsMatchInv DEF Talking, MatchInv
<1>2. /\ UNCHANGED <<reactorVars, mq, notice, sessionVars, clientVars>>
      /\ visit # Idle /\ visit'.task = visit.task /\ visit'.s = None
  BY DEF AskEntry, At
<1>3. MailInv' /\ JoinInv' /\ NoticeInv' /\ WalkInv'
  BY <1>0, <1>1, <1>2, MailKept, JoinKept, NoticeKept, WalkKept
     DEF Talking, NameInv
<1>4. /\ visit.task.user \in Conns /\ visit.r \in Reactors
      /\ NamesFit(visit.task) /\ "join" \in said[visit.task.user]
  BY <1>1, <1>2, TaskTypes DEF Talking, NameInv, JoinInv, MatchTypeOK, Visits
<1>5. PICK o \in Aliases(visit.s) :
          LET fd   == connFd[o]
              task == visit.task
          IN  IF fd # task.fromFd /\ connected[o]
              THEN /\ pendingAsks' = [pendingAsks EXCEPT
                                         ![fd] = Ask(task.fromFd, task.user)]
                   /\ matchQueue' = [matchQueue EXCEPT ![visit.r] =
                         Append(@, [type |-> "ask", fromFd |-> task.fromFd,
                                    targetFd |-> fd, user |-> task.user])]
              ELSE UNCHANGED <<pendingAsks, matchQueue>>
  BY DEF AskEntry
<1>6. CASE UNCHANGED <<pendingAsks, matchQueue>>
  <2>1. GrowsBy(NoReactor, NoNotice)
    BY <1>1, <1>6, NothingAdded
  <2>2. SenderInv' /\ TalkInv'
    BY <1>0, <1>1, <1>2, <2>1, NoneIsNoConn, TalkKept
       DEF Talking, NameInv, clientVars
  <2>3. QuestionInv'
    BY <1>0, <1>1, <1>6, QuestionsKept DEF Talking, NameInv
  <2> QED BY <1>1, <1>3, <2>2, <2>3 DEF Talking, NameInv
<1>7. CASE connFd[o] # visit.task.fromFd /\ connected[o]
  <2> DEFINE ask  == Ask(visit.task.fromFd, visit.task.user)
             task == [type |-> "ask", fromFd |-> visit.task.fromFd,
                      targetFd |-> connFd[o], user |-> visit.task.user]
  <2>1. /\ pendingAsks' = [pendingAsks EXCEPT ![connFd[o]] = ask]
        /\ matchQueue' = [matchQueue EXCEPT ![visit.r] = Append(@, task)]
    BY <1>5, <1>7
  <2>2. /\ ask.user = visit.task.user /\ ask.fromFd = visit.task.fromFd
        /\ task.user = visit.task.user /\ task.fromFd = visit.task.fromFd
        /\ task.type = "ask"
    BY DEF Ask
  <2> HIDE DEF ask, task
  <2>3. GrowsBy(visit.r, task)
    BY <1>1, <1>4, <2>1, TaskAppended
  <2>4. NamesFit(ask) /\ NamesFit(task)
    BY <1>4, <2>2 DEF NamesFit
  <2>5. SenderInv' /\ TalkInv'
    BY <1>0, <1>1, <1>2, <1>4, <2>2, <2>3, <2>4, TalkKept
       DEF Talking, NameInv, clientVars
  <2>6. QuestionInv'
    <3> SUFFICES ASSUME NEW fd \in Fds, pendingAsks'[fd] # NoAsk
                 PROVE  /\ NamesFit(pendingAsks[fd])'
                        /\ "join" \in said'[pendingAsks'[fd].user]
      BY DEF QuestionInv
    <3>1. PICK m : m = pendingAsks'[fd]
      OBVIOUS
    <3>2. UNCHANGED <<idx, connFd, said>>
      BY <1>2 DEF reactorVars, mainVars, objectVars, clientVars
    <3>3. NamesFit(m) /\ "join" \in said[m.user]
      <4>1. pendingAsks \in [Fds -> Asks \cup {NoAsk}]
        BY <1>1 DEF MatchTypeOK
      <4>2. m = ask \/ m = pendingAsks[fd]
        BY <2>1, <3>1, <4>1
      <4> QED BY <1>4, <2>2, <2>4, <3>1, <4>2 DEF Talking, NameInv, QuestionInv
    <3> QED BY <3>1, <3>2, <3>3 DEF NamesFit
  <2> QED BY <1>1, <1>3, <2>5, <2>6 DEF Talking, NameInv
<1> QED BY <1>5, <1>6, <1>7

(* The notices of a match name the accepter and the asker, each with the    *)
(* descriptor its command or the question came with.                        *)
LEMMA TalkInNotifyAsker ==
  ASSUME Talking, NotifyAsker
  PROVE  Talking'
<1>0. [Next]_vars
  BY DEF Next, MatchThread
<1>1. MatchInv /\ MatchInv' /\ MatchTypeOK /\ IInv
  BY <1>0, NextKeepsMatchInv DEF Talking, MatchInv
<1>2. /\ UNCHANGED <<reactorVars, visit, sessionVars, clientVars>>
      /\ mq # <<>> /\ mq' = Tail(mq) /\ mq \in Seq(ManagerTasks)
  BY <1>1 DEF NotifyAsker, NextTaskIs, MatchTypeOK
<1>3. MailInv' /\ JoinInv' /\ WalkInv'
  BY <1>0, <1>1, <1>2, MailTaken, JoinKept, WalkKept DEF Talking, NameInv, WalkInv
<1> DEFINE bFd == Head(mq).fromFd
           b   == Head(mq).user
           ask == pendingAsks[bFd]
           toA == Success(bFd, ask.fromFd, b)
           toB == Success(ask.fromFd, bFd, ask.user)
<1>4. bFd \in Fds /\ b \in Conns /\ NamesFit(Head(mq))
  <2>1. 1 \in 1 .. Len(mq) /\ Head(mq) = mq[1]
    BY <1>2
  <2> QED BY <1>1, <2>1, TaskTypes DEF Talking, NameInv, MailInv, ManagerTasks
<1>5. CASE ask = NoAsk
  <2>1. UNCHANGED <<pendingAsks, notice, matchQueue>>
    BY <1>5 DEF NotifyAsker
  <2>2. QuestionInv' /\ NoticeInv'
    BY <1>0, <1>1, <2>1, QuestionsKept, NoticeKept DEF Talking, NameInv
  <2>3. GrowsBy(NoReactor, NoNotice)
    BY <1>1, <2>1, NothingAdded
  <2>4. SenderInv' /\ TalkInv'
    BY <1>0, <1>1, <1>2, <2>3, NoneIsNoConn, TalkKept DEF Talking, NameInv, clientVars
  <2> QED BY <1>1, <1>3, <2>2, <2>4 DEF Talking, NameInv
<1>6. CASE ask # NoAsk
  <2>1. /\ pendingAsks' = [pendingAsks EXCEPT ![bFd] = NoAsk]
        /\ matchQueue' = Posted(toA)
        /\ notice' = toB
    BY <1>6 DEF NotifyAsker
  <2>2. /\ ask.user \in Conns /\ ask.fromFd \in Fds /\ NamesFit(ask)
    BY <1>1, <1>4, <1>6 DEF MatchTypeOK, Asks, Talking, NameInv, QuestionInv
  <2>3. /\ toA.user = b /\ toA.fromFd = bFd /\ toA.targetFd = ask.fromFd
        /\ toB.user = ask.user /\ toB.fromFd = ask.fromFd
        /\ toA.type = "success" /\ toB.type = "success"
    BY DEF Success
  <2> HIDE DEF toA, toB, ask
  <2>4. NamesFit(toA) /\ NamesFit(toB)
    BY <1>4, <2>2, <2>3 DEF NamesFit
  <2>5. GrowsBy(fdToReactor[toA.targetFd], toA)
    BY <1>1, <2>1, <2>2, <2>3, TaskPosted
  <2>6. SenderInv' /\ TalkInv'
    BY <1>0, <1>1, <1>2, <1>4, <2>3, <2>4, <2>5, TalkKept
       DEF Talking, NameInv, clientVars
  <2>7. QuestionInv'
    <3>1. \A fd \in Fds : pendingAsks'[fd] \in {pendingAsks[fd], NoAsk}
      <4>1. pendingAsks \in [Fds -> Asks \cup {NoAsk}]
        BY <1>1 DEF MatchTypeOK
      <4> QED BY <1>4, <2>1, <4>1
    <3> QED BY <1>0, <1>1, <3>1, QuestionsKept DEF Talking, NameInv
  <2>8. NoticeInv'
    BY <1>2, <2>1, <2>3, <2>4
       DEF NoticeInv, NamesFit, reactorVars, mainVars, objectVars
  <2> QED BY <1>1, <1>3, <2>6, <2>7, <2>8 DEF Talking, NameInv
<1> QED BY <1>5, <1>6

LEMMA TalkInNotifyAccepter ==
  ASSUME Talking, NotifyAccepter
  PROVE  Talking'
<1>0. [Next]_vars
  BY DEF Next, MatchThread
<1>1. MatchInv /\ MatchInv' /\ MatchTypeOK /\ IInv
  BY <1>0, NextKeepsMatchInv DEF Talking, MatchInv
<1>2. /\ UNCHANGED <<mq, visit, pendingAsks, sessionVars, clientVars>>
      /\ notice # NoNotice /\ notice' = NoNotice /\ matchQueue' = Posted(notice)
  BY DEF NotifyAccepter
<1>3. MailInv' /\ JoinInv' /\ WalkInv'
  BY <1>0, <1>1, <1>2, MailKept, JoinKept, WalkKept DEF Talking, NameInv, WalkInv
<1>4. QuestionInv' /\ NoticeInv'
  BY <1>0, <1>1, <1>2, QuestionsKept, NoticeKept DEF Talking, NameInv
<1>5. /\ notice.user \in Conns /\ notice.targetFd \in Fds
      /\ NamesFit(notice) /\ notice.type = "success"
  BY <1>1, <1>2, TaskTypes DEF Talking, NameInv, NoticeInv, ReactorTasks
<1>6. GrowsBy(fdToReactor[notice.targetFd], notice)
  BY <1>1, <1>2, <1>5, TaskPosted
<1>7. SenderInv' /\ TalkInv'
  BY <1>0, <1>1, <1>2, <1>5, <1>6, TalkKept DEF Talking, NameInv, clientVars
<1> QED BY <1>1, <1>3, <1>4, <1>7 DEF Talking, NameInv

LEMMA InitIsTalking == Init => Talking
<1> SUFFICES ASSUME Init PROVE Talking
  OBVIOUS
<1>1. MatchInv
  BY InitIsMatchInv
<1>2. NameInv /\ TalkInv
  BY DEF Init, NameInv, MailInv, JoinInv, QuestionInv, NoticeInv, SenderInv,
     TalkInv, PartnerInv, TextInv, HeardInv
<1>3. WalkInv
  BY DEF Init, ReactorInit, WalkInv
<1> QED BY <1>1, <1>2, <1>3 DEF Talking

LEMMA NextKeepsTalking ==
  ASSUME Talking, [Next]_vars
  PROVE  Talking'
<1>1. CASE UNCHANGED vars
  BY <1>1, TalkInQuietStep DEF vars
<1>2. CASE \/ \E fd \in Fds : AcceptConnection(fd)
           \/ AddConnection
           \/ \E r \in Reactors : AiAnswer(r)
           \/ \E c \in Conns : ClientStep(c)
  BY <1>2, TalkInQuietStep DEF AcceptConnection, AddConnection, AiAnswer, ClientStep
<1>3. ASSUME NEW r \in Reactors, MatchLoop(r)
      PROVE  Talking'
  <2>1. CASE HandleTask(r)
    BY <2>1, TalkInHandleTask
  <2>2. CASE QueueIsEmpty(r) \/ WaitForEvents(r) \/ TearDown(r)
    BY <2>2, TalkInQuietStep DEF QueueIsEmpty, WaitForEvents, TearDown
  <2>3. CASE \E ev \in batch[r] : MatchHandleEvent(r, ev)
    BY <2>3, TalkInMatchHandleEvent
  <2> QED BY <1>3, <2>1, <2>2, <2>3 DEF MatchLoop
<1>4. CASE MatchThread
  BY <1>4, TalkInBeginJoin, TalkInReadEntry, TalkInAskEntry, TalkInNextReactor,
     TalkInNotifyAsker, TalkInNotifyAccepter DEF MatchThread
<1> QED BY <1>1, <1>2, <1>3, <1>4 DEF Next

LEMMA TalkingHolds == Spec => []Talking
<1>1. Init => Talking
  BY InitIsTalking
<1>2. Talking /\ [Next]_vars => Talking'
  BY NextKeepsTalking
<1> QED BY <1>1, <1>2, PTL DEF Spec

(* While no descriptor has been reused, a chat text reaches only users its  *)
(* sender was matched with, however messages and departures interleave:     *)
(* the text was addressed to the descriptor of a partner, and only the      *)
(* partner has ever had it.                                                 *)
THEOREM TextsAlwaysStay == Spec => []TextStaysBetweenPartners
<1>1. Talking => TextStaysBetweenPartners
  <2> SUFFICES ASSUME Talking, NeverReused, NEW c \in Conns, NEW u \in heardFrom[c]
               PROVE  c \in partners[u]
    BY DEF TextStaysBetweenPartners
  <2>1. c <= idx /\ u \in Conns
    BY DEF Talking, MatchInv, MatchTypeOK, TalkInv, HeardInv
  <2>2. PICK d \in partners[u] : d <= idx /\ connFd[d] = connFd[c]
    BY DEF Talking, TalkInv, HeardInv, Knows
  <2>3. d \in Conns
    BY <2>1, <2>2 DEF Talking, MatchInv, MatchTypeOK
  <2>4. connFd[c] \in Fds
    BY <2>1 DEF Talking, MatchInv, IInv, AcceptedInv
  <2>5. connFd[c] # NoFd
    BY <2>4, ReactorAssumption
  <2> QED BY <2>2, <2>3, <2>5 DEF NeverReused
<1> QED BY <1>1, TalkingHolds, PTL

-----------------------------------------------------------------------------
(* Agreement: what a step keeps of it. *)

(* What has been reused or touched was so before the step, or in it. *)
LEMMA UndisturbedBefore ==
  ASSUME MatchInv, [Next]_vars, Undisturbed'
  PROVE  Undisturbed
<1>1. ~touchedFreed
  <2>1. touchedFreed => touchedFreed'
    <3>1. CASE UNCHANGED touchedFreed
      BY <3>1
    <3>2. CASE AskEntry
      BY <3>2 DEF AskEntry
    <3> QED BY <3>1, <3>2
            DEF Next, vars, matchVars, AcceptConnection, AddConnection, MatchLoop,
                HandleTask, QueueIsEmpty, WaitForEvents, TearDown,
                MatchHandleEvent, AiAnswer, ClientStep, MatchThread, BeginJoin,
                ReadEntry, NextReactor, NotifyAsker, NotifyAccepter
  <2> QED BY <2>1 DEF Undisturbed
<1>2. NeverReused
  <2> SUFFICES ASSUME NEW c \in Conns, NEW d \in Conns, c # d, connFd[c] = connFd[d],
                      connFd[c] # NoFd
               PROVE  FALSE
    BY DEF NeverReused
  <2>1. c <= idx /\ d <= idx
    BY DEF MatchInv, IInv, AcceptedInv
  <2>2. connFd'[c] = connFd[c] /\ connFd'[d] = connFd[d]
    BY <2>1, Accepted
  <2> QED BY <2>2 DEF Undisturbed, NeverReused
<1> QED BY <1>1, <1>2 DEF Undisturbed

(* Under one descriptor there is one connection. *)
LEMMA OnlyOne ==
  ASSUME NeverReused, NEW c \in Conns, NEW d \in Conns, connFd[c] = connFd[d],
         connFd[c] \in Fds
  PROVE  c = d
BY ReactorAssumption DEF NeverReused

LEMMA AskedForGood ==
  ASSUME MatchTypeOK, [Next]_vars, NEW a \in Conns, NEW b \in Conns, Asked(a, b)
  PROVE  Asked(a, b)'
BY NothingUnsaid DEF Asked

Agreed(c, u) == u # c /\ (Asked(c, u) \/ (Asked(u, c) /\ u \in asked[c]))

LEMMA AgreedForGood ==
  ASSUME MatchTypeOK, [Next]_vars, NEW c \in Conns, NEW u \in Conns, Agreed(c, u)
  PROVE  Agreed(c, u)'
<1>1. Asked(c, u) => Asked(c, u)'
  BY AskedForGood
<1>2. Asked(u, c) => Asked(u, c)'
  BY AskedForGood
<1>3. u \in asked[c] => u \in asked'[c]
  BY NothingUnsaid
<1> QED BY <1>1, <1>2, <1>3 DEF Agreed

LEMMA QueueLengths ==
  ASSUME MatchTypeOK
  PROVE  /\ \A r \in Reactors : Len(matchQueue[r]) \in Nat
         /\ \A c \in Conns : Waiting(c) \in Nat
BY OwnerIsReactor DEF MatchTypeOK, Waiting

LEMMA ReachedLater ==
  ASSUME MatchInv, WalkInv, [Next]_vars, NEW q, NEW task, GrowsBy(q, task),
         NEW c \in Conns, NEW u, Reached(c, u, Waiting(c))
  PROVE  Reached(c, u, Waiting(c))'
<1>1. PICK n : n = Waiting(c)
  OBVIOUS
<1>2. n \in Nat
  BY <1>1, QueueLengths DEF MatchInv
<1>3. Reached(c, u, n)'
  BY <1>1, <1>2, ReachedForGood
<1>4. n <= Waiting(c)' /\ Waiting(c)' \in Nat
  <2>1. MatchTypeOK'
    BY NextKeepsMatchInv DEF MatchInv
  <2>2. Owner(c) \in Reactors
    BY OwnerIsReactor
  <2>3. Len(matchQueue'[Owner(c)]) \in Nat
    BY <2>1, <2>2 DEF MatchTypeOK
  <2> QED BY <1>1, <2>2, <2>3 DEF GrowsBy, Waiting, Owner
<1>5. Coming(c, u, n)' => Coming(c, u, Waiting(c))'
  BY <1>2, <1>4 DEF Coming
<1> QED BY <1>3, <1>5 DEF Reached

LEMMA AgreedByKept ==
  ASSUME MatchInv, WalkInv, [Next]_vars, NEW q, NEW task, GrowsBy(q, task),
         NEW m, m.user \in Conns, NEW r \in Reactors,
         NEW i \in 1 .. Len(matchQueue[r]) + 1, AgreedBy(m, r, i)
  PROVE  AgreedBy(m, r, i)'
<1>1. PICK c \in Conns :
          /\ c <= idx /\ connFd[c] = m.targetFd
          /\ \/ Asked(c, m.user)
             \/ Asked(m.user, c) /\ r = Owner(c) /\ Reached(c, m.user, i - 1)
  BY DEF AgreedBy
<1>2. c <= idx' /\ connFd'[c] = m.targetFd
  BY <1>1, Accepted
<1>3. CASE Asked(c, m.user)
  <2>1. Asked(c, m.user)'
    BY <1>3, AskedForGood DEF MatchInv
  <2> QED BY <1>2, <2>1 DEF AgreedBy
<1>4. CASE Asked(m.user, c) /\ r = Owner(c) /\ Reached(c, m.user, i - 1)
  <2>1. Asked(m.user, c)'
    BY <1>4, AskedForGood DEF MatchInv
  <2>2. i - 1 \in Nat /\ i - 1 <= Waiting(c)
    BY <1>4, QueueLengths DEF MatchInv, Waiting
  <2>3. Reached(c, m.user, i - 1)'
    <3>1. PICK n \in Nat : n = i - 1
      BY <2>2
    <3>2. Reached(c, m.user, n)'
      BY <1>4, <2>2, <3>1, ReachedForGood
    <3> QED BY <3>1, <3>2
  <2> QED BY <1>2, <1>4, <2>1, <2>3 DEF AgreedBy, Owner
<1> QED BY <1>1, <1>3, <1>4

(* A step that adds at most one task, and that an agreed one. *)
LEMMA AgreementKept ==
  ASSUME MatchInv, WalkInv, AgreeInv, [Next]_vars,
         NEW q, NEW task, GrowsBy(q, task),
         q \in Reactors /\ task.type = "success" =>
             /\ task.user \in Conns
             /\ AgreedBy(task, q, Len(matchQueue[q]) + 1)
  PROVE  /\ SuccessAgreed'
         /\ (\A fd \in Fds : pendingAsks'[fd] \in {pendingAsks[fd], NoAsk})
               => QuestionReached'
         /\ notice' \in {notice, NoNotice} => NoticeAgreed'
<1>1. SuccessAgreed'
  <2> SUFFICES ASSUME NEW r \in Reactors, NEW i \in 1 .. Len(matchQueue'[r]),
                      matchQueue'[r][i].type = "success"
               PROVE  AgreedBy(matchQueue[r][i], r, i)'
    BY DEF SuccessAgreed
  <2>1. PICK m : m = matchQueue'[r][i]
    OBVIOUS
  <2>2. Len(matchQueue[r]) \in Nat
    BY QueueLengths DEF MatchInv
  <2>3. /\ m.user \in Conns /\ i \in 1 .. Len(matchQueue[r]) + 1
        /\ AgreedBy(m, r, i)
    <3>1. CASE i <= Len(matchQueue[r]) /\ m = matchQueue[r][i]
      <4>1. i \in 1 .. Len(matchQueue[r]) /\ i \in 1 .. Len(matchQueue[r]) + 1
        BY <2>2, <3>1
      <4> QED BY <2>1, <3>1, <4>1, TaskTypes DEF MatchInv, AgreeInv, SuccessAgreed
    <3>2. CASE r = q /\ i = Len(matchQueue[r]) + 1 /\ m = task
      BY <2>1, <2>2, <3>2
    <3> QED BY <2>1, <3>1, <3>2 DEF GrowsBy
  <2>4. AgreedBy(m, r, i)'
    BY <2>3, AgreedByKept
  <2> QED BY <2>1, <2>4 DEF AgreedBy
<1>2. ASSUME \A fd \in Fds : pendingAsks'[fd] \in {pendingAsks[fd], NoAsk}
      PROVE  QuestionReached'
  <2> SUFFICES ASSUME NEW fd \in Fds, pendingAsks'[fd] # NoAsk
               PROVE  \E c \in Conns :
                          /\ connFd'[c] = fd
                          /\ Reached(c, pendingAsks[fd].user, Waiting(c))'
    BY DEF QuestionReached
  <2>1. PICK u : u = pendingAsks'[fd].user
    OBVIOUS
  <2>2. PICK c \in Conns : connFd[c] = fd /\ Reached(c, u, Waiting(c))
    BY <1>2, <2>1 DEF AgreeInv, QuestionReached
  <2>3. Reached(c, u, Waiting(c))'
    BY <2>2, ReachedLater
  <2>4. connFd'[c] = fd
    BY <2>2, Accepted DEF Reached, Entered
  <2> QED BY <2>1, <2>3, <2>4
<1>3. ASSUME notice' \in {notice, NoNotice}
      PROVE  NoticeAgreed'
  <2> SUFFICES ASSUME notice' # NoNotice
               PROVE  \E c \in Conns :
                          /\ connFd'[c] = notice'.targetFd
                          /\ Asked(notice.user, c)'
                          /\ Reached(c, notice.user, Waiting(c))'
    BY DEF NoticeAgreed
  <2>1. PICK m : m = notice'
    OBVIOUS
  <2>2. m = notice /\ m # NoNotice /\ m.user \in Conns
    BY <1>3, <2>1, TaskTypes DEF MatchInv
  <2>3. PICK c \in Conns : /\ connFd[c] = m.targetFd
                           /\ Asked(m.user, c) /\ Reached(c, m.user, Waiting(c))
    BY <2>2 DEF AgreeInv, NoticeAgreed
  <2>4. Reached(c, m.user, Waiting(c))'
    BY <2>3, ReachedLater
  <2>5. Asked(m.user, c)'
    BY <2>2, <2>3, AskedForGood DEF MatchInv
  <2>6. connFd'[c] = m.targetFd
    BY <2>3, Accepted DEF Reached, Entered
  <2> QED BY <2>1, <2>4, <2>5, <2>6 DEF Asked
<1> QED BY <1>1, <1>2, <1>3

(* What has been agreed of the matches known. *)
AllAgreed == \A c \in Conns : \A u \in partners[c] : Agreed(c, u)

LEMMA MatchesKept ==
  ASSUME MatchTypeOK, AllAgreed, [Next]_vars, UNCHANGED partners
  PROVE  AllAgreed'
<1> SUFFICES ASSUME NEW c \in Conns, NEW u \in partners[c]
             PROVE  Agreed(c, u)'
  BY DEF AllAgreed
<1> QED BY AgreedForGood DEF AllAgreed, MatchTypeOK

-----------------------------------------------------------------------------
(* Agreement, step by step, in a run that has not been disturbed. *)
AgreedSoFar == Talking /\ AllAgreed /\ AgreeInv

(* A step that sends at most a text, and asks and tells nothing. *)
LEMMA AgreeInStillStep ==
  ASSUME AgreedSoFar, [Next]_vars, UNCHANGED <<pendingAsks, notice, partners>>,
         NEW q, NEW task, GrowsBy(q, task), q \in Reactors => task.type # "success"
  PROVE  AllAgreed' /\ AgreeInv'
<1>1. MatchInv /\ WalkInv /\ MatchTypeOK
  BY DEF AgreedSoFar, Talking, MatchInv
<1>2. SuccessAgreed' /\ QuestionReached' /\ NoticeAgreed'
  BY <1>1, AgreementKept DEF AgreedSoFar
<1>3. AllAgreed'
  BY <1>1, MatchesKept DEF AgreedSoFar
<1> QED BY <1>2, <1>3 DEF AgreeInv

LEMMA AgreeInQuietStep ==
  ASSUME AgreedSoFar, [Next]_vars,
         UNCHANGED <<pendingAsks, notice, matchQueue, partners>>
  PROVE  AllAgreed' /\ AgreeInv'
<1>1. GrowsBy(NoReactor, NoNotice)
  BY NothingAdded DEF AgreedSoFar, Talking, MatchInv
<1> QED BY <1>1, NoneIsNoConn, AgreeInStillStep

LEMMA AgreeInMatchHandleEvent ==
  ASSUME AgreedSoFar, NEW r \in Reactors, NEW ev \in batch[r],
         MatchHandleEvent(r, ev)
  PROVE  AllAgreed' /\ AgreeInv'
<1>0. [Next]_vars
  BY DEF Next, MatchLoop
<1>1. MatchTypeOK /\ IInv
  BY DEF AgreedSoFar, Talking, MatchInv
<1>2. UNCHANGED <<pendingAsks, notice, partners>>
  BY DEF MatchHandleEvent, ReadMatchCommand, ReadJoin, ReadPeerText, ReadAccept,
     managerVars
<1> DEFINE s == socketMap[r][ev.fd]
<1>3. CASE UNCHANGED matchQueue
  BY <1>0, <1>2, <1>3, AgreeInQuietStep
<1>4. CASE s # None /\ ReadPeerText(s) /\ chatMode[s] = 2 /\ peerFd[s] # NoFd
  <2>1. s \in Conns
    <3>1. ev.fd \in Fds
      BY <1>1, EventFacts
    <3> QED BY <1>1, <1>4, <3>1, MapEntry
  <2> HIDE DEF s
  <2> DEFINE task == [type |-> "peerMsg", fromFd |-> connFd[s],
                      targetFd |-> peerFd[s], user |-> s]
  <2>2. task.type = "peerMsg" /\ task.targetFd = peerFd[s]
    OBVIOUS
  <2>3. peerFd[s] \in Fds
    BY <1>1, <1>4, <2>1 DEF MatchTypeOK
  <2>4. matchQueue' = Posted(task)
    BY <1>4 DEF ReadPeerText
  <2> HIDE DEF task
  <2>5. GrowsBy(fdToReactor[task.targetFd], task)
    BY <1>1, <2>2, <2>3, <2>4, TaskPosted
  <2> QED BY <1>0, <1>2, <2>2, <2>5, AgreeInStillStep
<1>5. \/ UNCHANGED matchQueue
      \/ s # None /\ ReadPeerText(s) /\ chatMode[s] = 2 /\ peerFd[s] # NoFd
  BY DEF MatchHandleEvent, ReadMatchCommand, ReadJoin, ReadPeerText, ReadAccept
<1> QED BY <1>3, <1>4, <1>5

(* The question to a Socket that has not been freed goes to the queue of    *)
(* the Socket's own reactor.                                                *)
LEMMA AgreeInAskEntry ==
  ASSUME AgreedSoFar, AskEntry, ~touchedFreed'
  PROVE  AllAgreed' /\ AgreeInv'
<1>0. [Next]_vars
  BY DEF Next, MatchThread
<1>1. MatchInv /\ WalkInv /\ MatchTypeOK /\ IInv
  BY DEF AgreedSoFar, Talking, MatchInv
<1>2. /\ UNCHANGED <<reactorVars, notice, clientVars>>
      /\ visit # Idle /\ visit.s # None
  BY DEF AskEntry
<1>o. PICK o : o = visit.s
  OBVIOUS
<1>3. heap[o] # "freed"
  BY <1>o DEF AskEntry
<1>4. o \in Conns /\ Owner(o) = visit.r /\ visit.r \in Reactors
  BY <1>1, <1>2, <1>o DEF MatchTypeOK, Visits, WalkInv
<1>5. Aliases(o) = {o}
  BY <1>3, <1>4 DEF Aliases
<1> DEFINE u    == visit.task.user
           ask  == Ask(visit.task.fromFd, u)
           task == [type |-> "ask", fromFd |-> visit.task.fromFd,
                    targetFd |-> connFd[o], user |-> u]
<1>6. \/ UNCHANGED <<pendingAsks, matchQueue>>
      \/ /\ connected[o]
         /\ pendingAsks' = [pendingAsks EXCEPT ![connFd[o]] = ask]
         /\ matchQueue' = [matchQueue EXCEPT ![visit.r] = Append(@, task)]
  BY <1>5, <1>o DEF AskEntry
<1>7. UNCHANGED partners
  BY <1>2 DEF clientVars
<1>8. CASE UNCHANGED <<pendingAsks, matchQueue>>
  BY <1>0, <1>2, <1>7, <1>8, AgreeInQuietStep
<1>9. CASE /\ connected[o]
           /\ pendingAsks' = [pendingAsks EXCEPT ![connFd[o]] = ask]
           /\ matchQueue' = [matchQueue EXCEPT ![visit.r] = Append(@, task)]
  <2>1. /\ task.type = "ask" /\ task.targetFd = connFd[o] /\ task.user = u
        /\ ask.user = u
    BY DEF Ask
  <2> HIDE DEF task, ask, u
  <2>2. GrowsBy(visit.r, task)
    BY <1>1, <1>4, <1>9, TaskAppended
  <2>3. SuccessAgreed' /\ NoticeAgreed'
    BY <1>0, <1>1, <1>2, <2>1, <2>2, AgreementKept DEF AgreedSoFar
  <2>4. AllAgreed'
    BY <1>0, <1>1, <1>7, MatchesKept DEF AgreedSoFar
  <2>5. ASSUME NEW fd \in Fds, pendingAsks'[fd] # NoAsk
        PROVE  \E c \in Conns : /\ connFd'[c] = fd
                                /\ Reached(c, pendingAsks[fd].user, Waiting(c))'
    <3>1. PICK v : v = pendingAsks'[fd].user
      OBVIOUS
    <3>2. pendingAsks \in [Fds -> Asks \cup {NoAsk}]
      BY <1>1 DEF MatchTypeOK
    <3>3. CASE fd = connFd[o]
      <4>1. v = u
        BY <1>9, <2>1, <3>1, <3>2, <3>3
      <4>2. Entered(o)'
        BY <1>1, <1>2, <1>4, <1>9
           DEF WalkInv, Entered, InHand, reactorVars, mainVars, objectVars
      <4>3. Coming(o, v, Waiting(o))'
        <5>1. matchQueue[Owner(o)] \in Seq(ReactorTasks)
          BY <1>1, <1>4 DEF MatchTypeOK
        <5>2. matchQueue'[Owner(o)] = Append(matchQueue[Owner(o)], task)
          BY <1>1, <1>4, <1>9 DEF MatchTypeOK
        <5>3. PICK k : k = matchQueue[Owner(o)]
          OBVIOUS
        <5>4. /\ Len(Append(k, task)) \in 1 .. Len(Append(k, task))
              /\ Append(k, task)[Len(Append(k, task))] = task
          BY <5>1, <5>3
        <5>5. connFd'[o] = connFd[o]
          BY <1>2 DEF reactorVars, objectVars
        <5> QED BY <2>1, <4>1, <5>2, <5>3, <5>4, <5>5 DEF Coming, Waiting, Owner
      <4>4. connFd'[o] = fd
        BY <1>2, <3>3 DEF reactorVars, objectVars
      <4> QED BY <1>4, <3>1, <4>2, <4>3, <4>4 DEF Reached
    <3>4. CASE fd # connFd[o]
      <4>1. pendingAsks'[fd] = pendingAsks[fd]
        BY <1>9, <3>2, <3>4
      <4>2. PICK c \in Conns : connFd[c] = fd /\ Reached(c, v, Waiting(c))
        BY <2>5, <3>1, <4>1 DEF AgreedSoFar, AgreeInv, QuestionReached
      <4>3. Reached(c, v, Waiting(c))'
        BY <1>0, <1>1, <2>2, <4>2, ReachedLater
      <4>4. connFd'[c] = fd
        BY <1>2, <4>2 DEF reactorVars, objectVars
      <4> QED BY <3>1, <4>3, <4>4
    <3> QED BY <3>3, <3>4
  <2>6. QuestionReached'
    BY <2>5 DEF QuestionReached
  <2> QED BY <2>3, <2>4, <2>6 DEF AgreeInv
<1> QED BY <1>6, <1>8, <1>9

(* The asker learns of the match, and the accepter is the user who was      *)
(* asked, because nobody else has ever had the descriptor.                  *)
LEMMA AgreeInNotifyAsker ==
  ASSUME AgreedSoFar, NotifyAsker, NeverReused
  PROVE  AllAgreed' /\ AgreeInv'
<1>0. [Next]_vars
  BY DEF Next, MatchThread
<1>1. MatchInv /\ WalkInv /\ MatchTypeOK /\ IInv
  BY DEF AgreedSoFar, Talking, MatchInv
<1>2. UNCHANGED partners
  BY DEF NotifyAsker, clientVars
<1>m. PICK m : m = Head(mq)
  OBVIOUS
<1>3. /\ m.fromFd \in Fds /\ m.user \in Conns /\ NamesFit(m)
      /\ "yes" \in said[m.user]
  <2>1. mq \in Seq(ManagerTasks) /\ mq # <<>> /\ m.type = "accept"
    BY <1>1, <1>m DEF NotifyAsker, NextTaskIs, MatchTypeOK
  <2>2. 1 \in 1 .. Len(mq) /\ m = mq[1]
    BY <1>m, <2>1
  <2> QED BY <1>1, <2>1, <2>2, TaskTypes
          DEF AgreedSoFar, Talking, NameInv, MailInv, ManagerTasks, CommandOf
<1>a. PICK ask : ask = pendingAsks[m.fromFd]
  OBVIOUS
<1> DEFINE toA == Success(m.fromFd, ask.fromFd, m.user)
           toB == Success(ask.fromFd, m.fromFd, ask.user)
<1>4. CASE ask = NoAsk
  <2>1. UNCHANGED <<pendingAsks, notice, matchQueue>>
    BY <1>4, <1>a, <1>m DEF NotifyAsker
  <2> QED BY <1>0, <1>2, <2>1, AgreeInQuietStep
<1>5. CASE ask # NoAsk
  <2>1. /\ pendingAsks' = [pendingAsks EXCEPT ![m.fromFd] = NoAsk]
        /\ matchQueue' = Posted(toA)
        /\ notice' = toB
    BY <1>5, <1>a, <1>m DEF NotifyAsker
  <2>2. /\ ask.user \in Conns /\ ask.fromFd \in Fds /\ NamesFit(ask)
        /\ "join" \in said[ask.user]
    BY <1>1, <1>3, <1>5, <1>a
       DEF MatchTypeOK, Asks, AgreedSoFar, Talking, NameInv, QuestionInv
  <2>3. /\ toA.user = m.user /\ toA.targetFd = ask.fromFd
        /\ toB.user = ask.user /\ toB.targetFd = m.fromFd
    BY DEF Success
  <2> HIDE DEF toA, toB
  <2>4. PICK b : b = m.user
    OBVIOUS
  <2>5. Asked(ask.user, b)
    BY <1>3, <2>2, <2>4 DEF Asked
  <2>6. GrowsBy(fdToReactor[toA.targetFd], toA)
    BY <1>1, <2>1, <2>2, <2>3, TaskPosted
  <2>7. AgreedBy(toA, fdToReactor[toA.targetFd],
                 Len(matchQueue[fdToReactor[toA.targetFd]]) + 1)
    BY <2>2, <2>3, <2>4, <2>5 DEF AgreedBy, NamesFit
  <2>8. \A fd \in Fds : pendingAsks'[fd] \in {pendingAsks[fd], NoAsk}
    <3>1. pendingAsks \in [Fds -> Asks \cup {NoAsk}]
      BY <1>1 DEF MatchTypeOK
    <3> QED BY <1>3, <2>1, <3>1
  <2>9. SuccessAgreed' /\ QuestionReached'
    BY <1>0, <1>1, <1>3, <2>3, <2>6, <2>7, <2>8, AgreementKept DEF AgreedSoFar
  <2>10. b \in Conns /\ connFd[b] = m.fromFd /\ Reached(b, ask.user, Waiting(b))
    <3>1. PICK c \in Conns :
              connFd[c] = m.fromFd /\ Reached(c, ask.user, Waiting(c))
      BY <1>3, <1>5, <1>a DEF AgreedSoFar, AgreeInv, QuestionReached
    <3>2. b \in Conns /\ connFd[b] = m.fromFd
      BY <1>3, <2>4 DEF NamesFit
    <3>3. c = b
      BY <1>3, <3>1, <3>2, OnlyOne
    <3> QED BY <3>1, <3>2, <3>3
  <2>11. NoticeAgreed'
    <3>1. Reached(b, ask.user, Waiting(b))'
      BY <1>0, <1>1, <2>6, <2>10, ReachedLater
    <3>2. Asked(ask.user, b)'
      BY <1>0, <1>1, <2>2, <2>5, <2>10, AskedForGood
    <3>3. connFd'[b] = m.fromFd
      BY <1>0, <1>1, <2>10, Accepted DEF Reached, Entered
    <3>4. PICK n : n = notice'
      OBVIOUS
    <3>5. n.user = ask.user /\ n.targetFd = m.fromFd
      BY <2>1, <2>3, <3>4
    <3>6. Asked(n.user, b)' /\ Reached(b, n.user, Waiting(b))'
      BY <3>1, <3>2, <3>5
    <3> QED BY <2>10, <3>3, <3>4, <3>5, <3>6 DEF NoticeAgreed, Asked
  <2>12. AllAgreed'
    BY <1>0, <1>1, <1>2, MatchesKept DEF AgreedSoFar
  <2> QED BY <2>9, <2>11, <2>12 DEF AgreeInv
<1> QED BY <1>4, <1>5

(* The accepter learns of the match from the queue the question went to. *)
LEMMA AgreeInNotifyAccepter ==
  ASSUME AgreedSoFar, NotifyAccepter, NeverReused
  PROVE  AllAgreed' /\ AgreeInv'
<1>0. [Next]_vars
  BY DEF Next, MatchThread
<1>1. MatchInv /\ WalkInv /\ MatchTypeOK /\ IInv
  BY DEF AgreedSoFar, Talking, MatchInv
<1>2. /\ UNCHANGED <<pendingAsks, partners>>
      /\ notice # NoNotice /\ notice' = NoNotice /\ matchQueue' = Posted(notice)
  BY DEF NotifyAccepter, clientVars
<1>3. notice.user \in Conns /\ notice.targetFd \in Fds
  BY <1>1, <1>2, TaskTypes DEF ReactorTasks
<1> DEFINE q == fdToReactor[notice.targetFd]
<1>4. GrowsBy(q, notice)
  BY <1>1, <1>2, <1>3, TaskPosted
<1>5. q \in Reactors => AgreedBy(notice, q, Len(matchQueue[q]) + 1)
  <2> SUFFICES ASSUME q \in Reactors
               PROVE  AgreedBy(notice, q, Len(matchQueue[q]) + 1)
    OBVIOUS
  <2>1. PICK c \in Conns :
            /\ connFd[c] = notice.targetFd
            /\ Asked(notice.user, c) /\ Reached(c, notice.user, Waiting(c))
    BY <1>2 DEF AgreedSoFar, AgreeInv, NoticeAgreed
  <2>2. q = Owner(c)
    <3> DEFINE d == fdOpen[notice.targetFd]
    <3>1. d # None /\ Owner(d) = q /\ d \in Conns
      BY <1>1, <1>3, NoneIsNoConn DEF IInv, RegistryInv, TypeOK
    <3>2. connFd[d] = notice.targetFd
      BY <1>1, <1>3, <3>1 DEF IInv, DescriptorInv
    <3> HIDE DEF d
    <3>3. c = d
      BY <1>3, <2>1, <3>1, <3>2, OnlyOne
    <3> QED BY <3>1, <3>3
  <2>3. c <= idx
    BY <2>1 DEF Reached, Entered
  <2>4. Len(matchQueue[q]) + 1 - 1 = Waiting(c)
    BY <1>1, <2>2, QueueLengths DEF Waiting
  <2> HIDE DEF q
  <2> QED BY <2>1, <2>2, <2>3, <2>4 DEF AgreedBy
<1> HIDE DEF q
<1>6. SuccessAgreed' /\ QuestionReached' /\ NoticeAgreed'
  BY <1>0, <1>1, <1>2, <1>3, <1>4, <1>5, AgreementKept DEF AgreedSoFar
<1>7. AllAgreed'
  BY <1>0, <1>1, <1>2, MatchesKept DEF AgreedSoFar
<1> QED BY <1>6, <1>7 DEF AgreeInv

(* A task done by reactor r: who would have been reached with it is reached *)
(* without.                                                                 *)
LEMMA ReachedByTask ==
  ASSUME MatchInv, WalkInv, NEW r \in Reactors, HandleTask(r),
         NEW c \in Conns, NEW u, NEW n \in Nat, n <= Waiting(c),
         Reached(c, u, n),
         NEW k \in Int, k = IF Owner(c) = r THEN n - 1 ELSE n
  PROVE  Reached(c, u, k)'
<1>0. [Next]_vars
  BY DEF Next, MatchLoop
<1>1. MatchTypeOK /\ IInv /\ Owner(c) \in Reactors
  BY OwnerIsReactor DEF MatchInv
<1>2. UNCHANGED <<idx, connFd, mainPc, connected, socketMap>>
  BY DEF HandleTask, reactorVars, mainVars, objectVars, tableVars
<1>3. Entered(c)' /\ (Gone(c) => Gone(c)')
  BY <1>2 DEF Reached, Entered, InHand, Gone
<1>4. u \in asked[c] => u \in asked'[c]
  BY <1>0, <1>1, NothingUnsaid
<1>5. ASSUME Coming(c, u, n)
      PROVE  u \in asked'[c] \/ Gone(c)' \/ Coming(c, u, k)'
  <2> DEFINE task == Head(matchQueue[r])
  <2>1. PICK i \in 1 .. n : /\ matchQueue[Owner(c)][i].type = "ask"
                            /\ matchQueue[Owner(c)][i].targetFd = connFd[c]
                            /\ matchQueue[Owner(c)][i].user = u
    BY <1>5 DEF Coming
  <2>2. /\ matchQueue[r] # <<>>
        /\ matchQueue' = [matchQueue EXCEPT ![r] = Tail(@)]
    BY DEF HandleTask
  <2>3. /\ matchQueue[r] \in Seq(ReactorTasks) /\ task = matchQueue[r][1]
        /\ \A q \in Reactors : q # r => matchQueue'[q] = matchQueue[q]
        /\ matchQueue'[r] = Tail(matchQueue[r])
    BY <1>1, <2>2 DEF MatchTypeOK
  <2> HIDE DEF task
  <2>4. CASE Owner(c) # r
    <3>1. matchQueue'[Owner(c)] = matchQueue[Owner(c)] /\ k = n
      BY <1>1, <2>3, <2>4
    <3> QED BY <1>2, <2>1, <3>1 DEF Coming, Owner
  <2>5. CASE Owner(c) = r /\ i # 1
    <3>1. i - 1 \in 1 .. k
      BY <2>5
    <3>2. n <= Len(matchQueue[r])
      BY <2>5 DEF Waiting
    <3>3. matchQueue'[r][i - 1] = matchQueue[r][i]
      <4> DEFINE s == matchQueue[r]
      <4>1. s \in Seq(ReactorTasks) /\ s # <<>> /\ n <= Len(s)
        BY <2>2, <2>3, <3>2
      <4>2. matchQueue'[r] = Tail(s)
        BY <2>3
      <4> HIDE DEF s
      <4>3. i - 1 \in 1 .. Len(Tail(s))
        BY <2>5, <4>1
      <4>4. Tail(s)[i - 1] = s[i]
        BY <4>1, <4>3
      <4> QED BY <4>2, <4>4 DEF s
    <3> QED BY <1>2, <2>1, <2>5, <3>1, <3>3 DEF Coming, Owner
  <2>6. CASE Owner(c) = r /\ i = 1
    <3>1. task.type = "ask" /\ task.targetFd = connFd[c] /\ task.user = u
      BY <2>1, <2>3, <2>6
    <3>2. CASE Gone(c)
      BY <1>3, <3>2
    <3>3. CASE socketMap[r][connFd[c]] = c /\ connected[c]
      <4>1. c # None
        BY NoneIsNoConn
      <4>2. SendAsk(c, task) \/ StartChat(c, task) \/ ForwardText(c, task)
        BY <3>1, <3>3, <4>1 DEF HandleTask, task
      <4>3. asked' = [asked EXCEPT ![c] = @ \cup {u}]
        BY <3>1, <4>2 DEF SendAsk, StartChat, ForwardText
      <4> QED BY <1>1, <4>3 DEF MatchTypeOK
    <3> QED BY <2>6, <3>2, <3>3 DEF Gone
  <2> QED BY <2>4, <2>5, <2>6
<1> QED BY <1>3, <1>4, <1>5 DEF Reached

(* Handling the news of a match: its target has been asked by then, or it   *)
(* was the one who asked.                                                   *)
LEMMA AgreeInHandleTask ==
  ASSUME AgreedSoFar, NEW r \in Reactors, HandleTask(r), NeverReused
  PROVE  AllAgreed' /\ AgreeInv'
<1>0. [Next]_vars
  BY DEF Next, MatchLoop
<1>1. MatchInv /\ WalkInv /\ MatchTypeOK /\ IInv /\ TaskInv
  BY DEF AgreedSoFar, Talking, MatchInv
<1>2. UNCHANGED <<idx, connFd, pendingAsks, notice>>
  BY DEF HandleTask, reactorVars, mainVars, objectVars, managerVars
<1>3. /\ matchQueue[r] # <<>>
      /\ matchQueue' = [matchQueue EXCEPT ![r] = Tail(@)]
  BY DEF HandleTask
<1>4. /\ 1 \in 1 .. Len(matchQueue[r])
      /\ Head(matchQueue[r]) = matchQueue[r][1]
      /\ Len(matchQueue'[r]) = Len(matchQueue[r]) - 1
      /\ \A q \in Reactors : \A i \in 1 .. Len(matchQueue'[q]) :
            \E j \in 1 .. Len(matchQueue[q]) :
               /\ matchQueue'[q][i] = matchQueue[q][j]
               /\ j = IF q = r THEN i + 1 ELSE i
      /\ \A q \in Reactors : q # r => matchQueue'[q] = matchQueue[q]
  BY <1>1, <1>3, TaskTaken
<1>5. ASSUME NEW c \in Conns, NEW u, Reached(c, u, Waiting(c))
      PROVE  Reached(c, u, Waiting(c))'
  <2>1. PICK n : n = Waiting(c)
    OBVIOUS
  <2>2. n \in Nat /\ Owner(c) \in Reactors
    BY <1>1, <2>1, QueueLengths, OwnerIsReactor
  <2>3. PICK k \in Int : k = IF Owner(c) = r THEN n - 1 ELSE n
    BY <2>2
  <2>4. Reached(c, u, k)'
    BY <1>1, <1>5, <2>1, <2>2, <2>3, ReachedByTask
  <2>5. Waiting(c)' = k
    BY <1>4, <2>1, <2>2, <2>3 DEF Waiting, Owner
  <2> QED BY <2>4, <2>5 DEF Reached, Coming
<1>6. QuestionReached'
  <2> SUFFICES ASSUME NEW fd \in Fds, pendingAsks'[fd] # NoAsk
               PROVE  \E c \in Conns :
                          /\ connFd'[c] = fd
                          /\ Reached(c, pendingAsks[fd].user, Waiting(c))'
    BY DEF QuestionReached
  <2>1. PICK u : u = pendingAsks[fd].user
    OBVIOUS
  <2>2. PICK c \in Conns : connFd[c] = fd /\ Reached(c, u, Waiting(c))
    BY <1>2, <2>1 DEF AgreedSoFar, AgreeInv, QuestionReached
  <2>3. Reached(c, u, Waiting(c))'
    BY <1>5, <2>2
  <2>4. pendingAsks'[fd].user = u
    BY <1>2, <2>1
  <2> QED BY <1>2, <2>2, <2>3, <2>4
<1>7. NoticeAgreed'
  <2> SUFFICES ASSUME notice' # NoNotice
               PROVE  \E c \in Conns :
                          /\ connFd'[c] = notice'.targetFd
                          /\ Asked(notice.user, c)'
                          /\ Reached(c, notice.user, Waiting(c))'
    BY DEF NoticeAgreed
  <2>1. PICK m : m = notice
    OBVIOUS
  <2>2. m # NoNotice /\ m.user \in Conns
    BY <1>1, <1>2, <2>1, TaskTypes
  <2>3. PICK c \in Conns : /\ connFd[c] = m.targetFd
                           /\ Asked(m.user, c) /\ Reached(c, m.user, Waiting(c))
    BY <2>1, <2>2 DEF AgreedSoFar, AgreeInv, NoticeAgreed
  <2>4. Reached(c, m.user, Waiting(c))'
    BY <1>5, <2>3
  <2>5. Asked(m.user, c)'
    BY <1>0, <1>1, <2>2, <2>3, AskedForGood
  <2>6. notice' = m
    BY <1>2, <2>1
  <2> QED BY <1>2, <2>3, <2>4, <2>5, <2>6 DEF Asked
<1>8. SuccessAgreed'
  <2> SUFFICES ASSUME NEW q \in Reactors, NEW i \in 1 .. Len(matchQueue'[q]),
                      matchQueue'[q][i].type = "success"
               PROVE  AgreedBy(matchQueue[q][i], q, i)'
    BY DEF SuccessAgreed
  <2>1. PICK m : m = matchQueue'[q][i]
    OBVIOUS
  <2>2. PICK j \in 1 .. Len(matchQueue[q]) :
            /\ m = matchQueue[q][j]
            /\ j = IF q = r THEN i + 1 ELSE i
    BY <1>4, <2>1
  <2>3. AgreedBy(m, q, j) /\ m.user \in Conns
    BY <1>1, <2>1, <2>2, TaskTypes DEF AgreedSoFar, AgreeInv, SuccessAgreed
  <2>4. PICK c \in Conns :
            /\ c <= idx /\ connFd[c] = m.targetFd
            /\ \/ Asked(c, m.user)
               \/ Asked(m.user, c) /\ q = Owner(c) /\ Reached(c, m.user, j - 1)
    BY <2>3 DEF AgreedBy
  <2>5. CASE Asked(c, m.user)
    <3>1. Asked(c, m.user)'
      BY <1>0, <1>1, <2>3, <2>5, AskedForGood
    <3>2. AgreedBy(m, q, i)'
      BY <1>2, <2>4, <3>1 DEF AgreedBy
    <3> QED BY <2>1, <3>2 DEF AgreedBy
  <2>6. CASE Asked(m.user, c) /\ q = Owner(c) /\ Reached(c, m.user, j - 1)
    <3>1. Asked(m.user, c)'
      BY <1>0, <1>1, <2>3, <2>6, AskedForGood
    <3>2. PICK n \in Nat : n = j - 1
      OBVIOUS
    <3>3. n <= Waiting(c)
      BY <1>1, <2>2, <2>6, <3>2, QueueLengths DEF Waiting
    <3>4. PICK k \in Int : k = IF Owner(c) = r THEN n - 1 ELSE n
      BY <3>2
    <3>5. Reached(c, m.user, k)'
      BY <1>1, <2>6, <3>2, <3>3, <3>4, ReachedByTask
    <3>6. k = i - 1
      <4>1. Len(matchQueue'[q]) \in Nat
        <5>1. MatchTypeOK'
          BY <1>0, <1>1, NextKeepsMatchInv DEF MatchInv
        <5> QED BY <5>1 DEF MatchTypeOK
      <4> QED BY <2>2, <2>6, <3>2, <3>4, <4>1
    <3>7. AgreedBy(m, q, i)'
      BY <1>2, <2>4, <2>6, <3>1, <3>5, <3>6 DEF AgreedBy, Owner
    <3> QED BY <2>1, <3>7 DEF AgreedBy
  <2> QED BY <2>4, <2>5, <2>6
<1> DEFINE task == Head(matchQueue[r])
           c    == socketMap[r][task.targetFd]
<1>9. \/ UNCHANGED partners
      \/ c # None /\ connected[c] /\ StartChat(c, task)
  BY DEF HandleTask, SendAsk, ForwardText
<1>10. CASE c # None /\ connected[c] /\ StartChat(c, task)
  <2>1. /\ task \in ReactorTasks /\ task.user \in Conns /\ task.targetFd \in Fds
        /\ task.fromFd # task.targetFd /\ NamesFit(task)
        /\ AgreedBy(task, r, 1)
    <3>1. /\ 1 \in 1 .. Len(matchQueue[r]) /\ task = matchQueue[r][1]
          /\ task.type = "success"
      BY <1>4, <1>10 DEF StartChat
    <3> HIDE DEF task
    <3>2. task \in ReactorTasks /\ task.user \in Conns /\ task.targetFd \in Fds
      BY <1>1, <3>1, TaskTypes DEF ReactorTasks
    <3>3. task.fromFd # task.targetFd /\ NamesFit(task)
      BY <1>1, <3>1
         DEF TaskInv, DistinctEnds, AgreedSoFar, Talking, NameInv, SenderInv
    <3>4. AgreedBy(task, r, 1)
      BY <3>1 DEF AgreedSoFar, AgreeInv, SuccessAgreed
    <3> QED BY <3>2, <3>3, <3>4
  <2>2. c \in Conns /\ c <= idx /\ connFd[c] = task.targetFd /\ Owner(c) = r
    <3>1. c \in Conns /\ c <= idx /\ connFd[c] = task.targetFd
      BY <1>1, <1>10, <2>1, MapEntry
    <3>2. Owner(c) = r
      BY <1>1, <1>10, <2>1 DEF IInv, MapInv
    <3> QED BY <3>1, <3>2
  <2>3. socketMap[r][connFd[c]] = c
    BY <2>2
  <2>4. partners' = [partners EXCEPT ![c] = @ \cup {task.user}]
    BY <1>10 DEF StartChat
  <2> HIDE DEF c, task
  <2>5. Agreed(c, task.user)
    <3>1. PICK d \in Conns :
              /\ d <= idx /\ connFd[d] = task.targetFd
              /\ \/ Asked(d, task.user)
                 \/ /\ Asked(task.user, d) /\ r = Owner(d)
                    /\ Reached(d, task.user, 1 - 1)
      BY <2>1 DEF AgreedBy
    <3>2. d = c
      BY <2>1, <2>2, <3>1, OnlyOne
    <3>3. task.user # c
      BY <2>1, <2>2 DEF NamesFit
    <3>4. ~Gone(c) /\ ~Coming(c, task.user, 1 - 1)
      BY <1>10, <2>2, <2>3 DEF Gone, Coming
    <3> QED BY <3>1, <3>2, <3>3, <3>4 DEF Agreed, Reached
  <2>6. ASSUME NEW d \in Conns, NEW u \in partners'[d]
        PROVE  Agreed(d, u)'
    <3>1. u \in partners[d] \/ (d = c /\ u = task.user)
      BY <1>1, <2>2, <2>4 DEF MatchTypeOK
    <3>2. u \in Conns /\ Agreed(d, u)
      BY <1>1, <2>1, <2>5, <3>1 DEF AgreedSoFar, AllAgreed, MatchTypeOK
    <3> QED BY <1>0, <1>1, <3>2, AgreedForGood
  <2>7. AllAgreed'
    BY <2>6 DEF AllAgreed
  <2> QED BY <1>6, <1>7, <1>8, <2>7 DEF AgreeInv
<1>11. CASE UNCHANGED partners
  <2>1. AllAgreed'
    BY <1>0, <1>1, <1>11, MatchesKept DEF AgreedSoFar
  <2> QED BY <1>6, <1>7, <1>8, <2>1 DEF AgreeInv
<1> QED BY <1>9, <1>10, <1>11

LEMMA AgreeInStep ==
  ASSUME AgreedSoFar, [Next]_vars, Undisturbed'
  PROVE  AllAgreed' /\ AgreeInv'
<1>0. NeverReused /\ ~touchedFreed'
  BY UndisturbedBefore DEF AgreedSoFar, Talking, Undisturbed
<1>1. CASE UNCHANGED vars
  BY <1>1, AgreeInQuietStep DEF vars, matchVars, managerVars, clientVars
<1>2. CASE \/ \E fd \in Fds : AcceptConnection(fd)
           \/ AddConnection
           \/ \E r \in Reactors : AiAnswer(r)
           \/ \E c \in Conns : ClientStep(c)
  BY <1>2, AgreeInQuietStep DEF AcceptConnection, AddConnection, AiAnswer,
     ClientStep, matchVars, managerVars, clientVars
<1>3. ASSUME NEW r \in Reactors, MatchLoop(r)
      PROVE  AllAgreed' /\ AgreeInv'
  <2>1. CASE HandleTask(r)
    BY <1>0, <2>1, AgreeInHandleTask
  <2>2. CASE QueueIsEmpty(r) \/ WaitForEvents(r) \/ TearDown(r)
    BY <2>2, AgreeInQuietStep
       DEF QueueIsEmpty, WaitForEvents, TearDown, matchVars, managerVars, clientVars
  <2>3. CASE \E ev \in batch[r] : MatchHandleEvent(r, ev)
    BY <2>3, AgreeInMatchHandleEvent
  <2> QED BY <1>3, <2>1, <2>2, <2>3 DEF MatchLoop
<1>4. CASE BeginJoin \/ ReadEntry \/ NextReactor
  BY <1>4, AgreeInQuietStep DEF BeginJoin, ReadEntry, NextReactor, clientVars
<1>5. CASE MatchThread
  BY <1>0, <1>4, <1>5, AgreeInAskEntry, AgreeInNotifyAsker, AgreeInNotifyAccepter
     DEF MatchThread
<1> QED BY <1>1, <1>2, <1>3, <1>5 DEF Next

(* AgreementInv in every reachable state: what the notices of a match        *)
(* promise holds as long as nothing is reused or touched after its delete,  *)
(* and what messages say of descriptors holds whatever happens.             *)
THEOREM AgreementInvariantHolds == Spec => []AgreementInv
<1>1. Init => AgreementInv
  <2> SUFFICES ASSUME Init PROVE AgreementInv
    OBVIOUS
  <2>1. Talking
    BY InitIsTalking
  <2>2. MatchesAreAgreed
    BY DEF Init, MatchesAreAgreed
  <2>3. AgreeInv
    BY DEF Init, AgreeInv, QuestionReached, NoticeAgreed, SuccessAgreed
  <2> QED BY <2>1, <2>2, <2>3 DEF AgreementInv, Talking
<1>2. AgreementInv /\ [Next]_vars => AgreementInv'
  <2> SUFFICES ASSUME AgreementInv, [Next]_vars PROVE AgreementInv'
    OBVIOUS
  <2>1. Talking /\ Talking'
    BY NextKeepsTalking DEF AgreementInv, Talking
  <2>2. Undisturbed' => AllAgreed' /\ AgreeInv'
    <3> SUFFICES ASSUME Undisturbed' PROVE AllAgreed' /\ AgreeInv'
      OBVIOUS
    <3>1. Undisturbed
      BY <2>1, UndisturbedBefore DEF Talking
    <3>2. AgreedSoFar
      BY <2>1, <3>1
         DEF AgreedSoFar, AllAgreed, Agreed, AgreementInv, MatchesAreAgreed
    <3> QED BY <3>2, AgreeInStep
  <2>3. MatchesAreAgreed' /\ (Undisturbed' => AgreeInv')
    BY <2>2 DEF MatchesAreAgreed, AllAgreed, Agreed
  <2> QED BY <2>1, <2>3 DEF AgreementInv, Talking
<1> QED BY <1>1, <1>2, PTL DEF Spec

(* While no descriptor has been reused and the match thread has touched no  *)
(* freed Socket, nobody is matched with himself or with a user he had       *)
(* nothing to do with, however joins, answers and departures interleave.    *)
THEOREM MatchesAlwaysAgreed == Spec => []MatchesAreAgreed
<1>1. AgreementInv => MatchesAreAgreed
  BY DEF AgreementInv
<1> QED BY <1>1, AgreementInvariantHolds, PTL
=============================================================================
