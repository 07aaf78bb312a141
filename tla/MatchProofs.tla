---------------------------- MODULE MatchProofs ----------------------------
(***************************************************************************)
(* Proofs about Match for every number of event loops, descriptors,        *)
(* connections and commands: every step of the match-making server is a    *)
(* step of Reactor or leaves it alone, MatchInv is inductive, and so       *)
(* nobody is ever put into a chat with himself.                            *)
(***************************************************************************)
EXTENDS Match, ReactorProofs

-----------------------------------------------------------------------------
(* Every step of Match implements a step of Reactor, or none. *)
LEMMA StepIsReactorStep ==
  ASSUME [Next]_vars
  PROVE  [ReactorNext]_reactorVars
<1>1. CASE UNCHANGED vars
  BY <1>1 DEF vars
<1>2. CASE \E fd \in Fds : AcceptConnection(fd)
  BY <1>2 DEF AcceptConnection, ReactorNext
<1>3. CASE AddConnection
  BY <1>3 DEF AddConnection, ReactorNext
<1>4. ASSUME NEW r \in Reactors, MatchLoop(r)
      PROVE  [ReactorNext]_reactorVars
  <2>1. CASE HandleTask(r)
    BY <2>1 DEF HandleTask
  <2>2. CASE QueueIsEmpty(r)
    BY <2>2 DEF QueueIsEmpty, ReactorNext, Loop
  <2>3. CASE WaitForEvents(r)
    BY <2>3 DEF WaitForEvents, ReactorNext, Loop
  <2>4. CASE TearDown(r)
    BY <2>4 DEF TearDown, ReactorNext, Loop
  <2>5. CASE \E ev \in batch[r] : MatchHandleEvent(r, ev)
    BY <2>5 DEF MatchHandleEvent, ReactorNext, Loop
  <2> QED BY <1>4, <2>1, <2>2, <2>3, <2>4, <2>5 DEF MatchLoop
<1>5. CASE \E r \in Reactors : AiAnswer(r)
  BY <1>5 DEF AiAnswer, ReactorNext
<1>6. CASE \E c \in Conns : ClientStep(c)
  BY <1>6 DEF ClientStep, ReactorNext
<1>7. CASE MatchThread
  BY <1>7 DEF MatchThread, BeginJoin, ReadEntry, AskEntry, NextReactor,
     NotifyAsker, NotifyAccepter
<1> QED BY <1>1, <1>2, <1>3, <1>4, <1>5, <1>6, <1>7 DEF Next

(* The match-making server implements Reactor: what is true of the          *)
(* connections there is true of them here, whatever the match thread does.  *)
THEOREM ImplementsReactor == Spec => RefinesReactor
<1>1. Init => ReactorInit
  BY DEF Init
<1>2. [Next]_vars => [ReactorNext]_reactorVars
  BY StepIsReactorStep
<1> QED BY <1>1, <1>2, PTL DEF Spec, RefinesReactor, ReactorSpec

-----------------------------------------------------------------------------
(* A step that keeps the reactor's invariant keeps the descriptors of the   *)
(* connections already accepted.                                            *)
LEMMA AcceptedStaysPut ==
  ASSUME IInv, [ReactorNext]_reactorVars
  PROVE  /\ idx \in Nat /\ idx' \in Nat /\ idx <= idx'
         /\ \A c \in Conns : c <= idx => connFd'[c] = connFd[c]
<1> USE DEF mainVars, kernelVars, objectVars, tableVars, loopVars
<1>1. idx \in 0 .. MaxConns /\ idx \in Nat
  BY ReactorAssumption DEF IInv, TypeOK
<1>2. CASE \E fd \in Fds : Accept(fd)
  <2>1. idx' = idx + 1 /\ \E fd \in Fds : connFd' = [connFd EXCEPT ![idx + 1] = fd]
    BY <1>2 DEF Accept
  <2>2. \A c \in Conns : c <= idx => c # idx + 1
    BY <1>1 DEF Conns
  <2> QED BY <1>1, <2>1, <2>2 DEF IInv, TypeOK
<1>3. CASE ~\E fd \in Fds : Accept(fd)
  <2>1. idx' = idx /\ connFd' = connFd
    <3>1. CASE UNCHANGED reactorVars
      BY <3>1 DEF reactorVars
    <3>2. CASE AddClient
      BY <3>2 DEF AddClient, AddToMap, OnConnect, RegisterFd, EpollAdd,
         EpollAddFails, FailUnregister, FailDelete, FailRemove, FailClose
    <3>3. CASE \E r \in Reactors : Loop(r) \/ AiReply(r)
      BY <3>3 DEF Loop, EndDrain, EpollWait, HandleEvent, Cleanup, RemoveFromMap,
         UnregisterFd, DeleteSocket, CloseFd, AiReply
    <3>4. CASE \E c \in Conns : ClientSend(c) \/ ClientClose(c)
      BY <3>4 DEF ClientSend, ClientClose
    <3> QED BY <1>3, <3>1, <3>2, <3>3, <3>4 DEF ReactorNext
  <2> QED BY <1>1, <2>1
<1> QED BY <1>2, <1>3

(* The reactor's part of the invariant is kept by every step of Match. *)
LEMMA ReactorPart ==
  ASSUME MatchInv, [Next]_vars
  PROVE  IInv'
<1>1. IInv /\ [ReactorNext]_reactorVars
  BY StepIsReactorStep DEF MatchInv
<1>2. CASE ReactorNext
  BY <1>1, <1>2, NextKeepsInv
<1>3. CASE UNCHANGED reactorVars
  BY <1>1, <1>3, StutterStep
<1> QED BY <1>1, <1>2, <1>3

(* A Socket found in a reactor's map was accepted, on that descriptor. *)
LEMMA MapEntry ==
  ASSUME IInv, NEW r \in Reactors, NEW fd \in Fds, socketMap[r][fd] # None
  PROVE  /\ socketMap[r][fd] \in Conns
         /\ socketMap[r][fd] <= idx
         /\ connFd[socketMap[r][fd]] = fd
<1>1. socketMap[r][fd] \in Conns /\ fdOpen[fd] = socketMap[r][fd]
  BY DEF IInv, TypeOK, MapInv
<1> QED BY <1>1 DEF IInv, DescriptorInv

(* What posting a task does to the queues. *)
LEMMA PostedTask ==
  ASSUME IInv, MatchTypeOK, TaskInv,
         NEW task \in ReactorTasks, DistinctEnds(task)
  PROVE  /\ Posted(task) \in [Reactors -> Seq(ReactorTasks)]
         /\ \A r \in Reactors : \A i \in 1 .. Len(Posted(task)[r]) :
                DistinctEnds(Posted(task)[r][i])
<1> DEFINE r == fdToReactor[task.targetFd]
<1>1. matchQueue \in [Reactors -> Seq(ReactorTasks)]
  BY DEF MatchTypeOK
<1>2. r \in Reactors \cup {NoReactor}
  BY DEF ReactorTasks, IInv, TypeOK
<1>3. CASE r = NoReactor
  BY <1>1, <1>3 DEF Posted, TaskInv
<1>4. CASE r \in Reactors
  <2>1. Posted(task) = [matchQueue EXCEPT ![r] = Append(@, task)]
    BY <1>4, NoneIsNoConn DEF Posted
  <2>2. matchQueue[r] \in Seq(ReactorTasks)
    BY <1>1, <1>4
  <2>3. ASSUME NEW i \in 1 .. Len(Append(matchQueue[r], task))
        PROVE  DistinctEnds(Append(matchQueue[r], task)[i])
    <3>1. CASE i = Len(matchQueue[r]) + 1
      BY <2>2, <3>1
    <3>2. CASE i # Len(matchQueue[r]) + 1
      <4>1. i \in 1 .. Len(matchQueue[r])
        BY <2>2, <3>2
      <4> QED BY <1>4, <2>2, <4>1 DEF TaskInv
    <3> QED BY <3>1, <3>2
  <2> HIDE DEF r
  <2> QED BY <1>1, <1>4, <2>1, <2>2, <2>3 DEF TaskInv
<1> QED BY <1>2, <1>3, <1>4

-----------------------------------------------------------------------------
(* Chats are kept by a step that starts none. *)
LEMMA ChatsKept ==
  ASSUME MatchInv, [Next]_vars, UNCHANGED sessionVars
  PROVE  PeerInv'
<1>1. /\ idx \in Nat /\ idx' \in Nat /\ idx <= idx'
      /\ \A c \in Conns : c <= idx => connFd'[c] = connFd[c]
  BY StepIsReactorStep, AcceptedStaysPut DEF MatchInv
<1> QED BY <1>1 DEF MatchInv, PeerInv, sessionVars, Conns

(* The Socket in the match thread's hand stays one that was accepted. *)
LEMMA VisitKept ==
  ASSUME MatchInv, [Next]_vars, UNCHANGED visit
  PROVE  VisitInv'
<1>1. idx \in Nat /\ idx' \in Nat /\ idx <= idx'
  BY StepIsReactorStep, AcceptedStaysPut DEF MatchInv
<1>2. visit # Idle => visit.s \in Nat
  BY DEF MatchInv, MatchTypeOK, Visits, Conns, None
<1> QED BY <1>1, <1>2 DEF MatchInv, VisitInv

(* A step of the connections that matching takes no part in. *)
LEMMA QuietStep ==
  ASSUME MatchInv, [Next]_vars, UNCHANGED matchVars
  PROVE  MatchInv'
<1> USE DEF matchVars, managerVars, clientVars
<1>1. IInv'
  BY ReactorPart
<1>2. MatchTypeOK'
  <2>1. TypeOK'
    BY <1>1 DEF IInv
  <2> QED BY <2>1 DEF MatchInv, MatchTypeOK, sessionVars
<1>3. VisitInv'
  BY VisitKept
<1>4. AskInv' /\ TaskInv'
  BY DEF MatchInv, AskInv, TaskInv
<1>5. PeerInv'
  BY ChatsKept
<1> QED BY <1>1, <1>2, <1>3, <1>4, <1>5 DEF MatchInv

(* The queue of the match thread with a task of Socket s at its end. *)
LEMMA ManagerQueue ==
  ASSUME MatchInv, NEW s \in Conns, s <= idx, NEW type \in {"join", "accept"}
  PROVE  Append(mq, [type |-> type, fromFd |-> connFd[s], user |-> s])
             \in Seq(ManagerTasks)
<1>1. connFd[s] \in Fds
  BY DEF MatchInv, IInv, AcceptedInv
<1>2. mq \in Seq(ManagerTasks)
  BY DEF MatchInv, MatchTypeOK
<1> QED BY <1>1, <1>2 DEF ManagerTasks

(* An event: a join or an accept is queued for the match thread, or a text  *)
(* for the reactor of the partner.                                          *)
LEMMA MatchHandleEventStep ==
  ASSUME MatchInv, NEW r \in Reactors, NEW ev \in batch[r],
         MatchHandleEvent(r, ev)
  PROVE  MatchInv'
<1> USE DEF sessionVars
<1>0. [Next]_vars
  BY DEF Next, MatchLoop
<1>1. IInv /\ IInv' /\ MatchTypeOK /\ TaskInv
  BY <1>0, ReactorPart DEF MatchInv
<1>2. UNCHANGED <<waitingQueue, pendingAsks, visit, notice, sessionVars, asked,
                  partners, heardFrom, touchedFreed>>
  BY DEF MatchHandleEvent, ReadMatchCommand, ReadJoin, ReadPeerText, ReadAccept,
     managerVars
<1>3. VisitInv' /\ PeerInv'
  BY <1>0, <1>2, VisitKept, ChatsKept
<1> DEFINE s == socketMap[r][ev.fd]
<1>4. /\ mq' \in Seq(ManagerTasks)
      /\ matchQueue' \in [Reactors -> Seq(ReactorTasks)]
      /\ \A q \in Reactors : \A i \in 1 .. Len(matchQueue'[q]) :
             DistinctEnds(matchQueue'[q][i])
      /\ said' \in [Conns -> SUBSET (Inputs \cup {"nothing"})]
  <2>0. /\ mq \in Seq(ManagerTasks)
        /\ matchQueue \in [Reactors -> Seq(ReactorTasks)]
        /\ \A q \in Reactors : \A i \in 1 .. Len(matchQueue[q]) :
               DistinctEnds(matchQueue[q][i])
        /\ said \in [Conns -> SUBSET (Inputs \cup {"nothing"})]
    BY <1>1 DEF MatchTypeOK, TaskInv
  <2>1. CASE ~(s # None /\ ~deleted[s] /\ ~ev.hup)
    BY <2>0, <2>1 DEF MatchHandleEvent, managerVars
  <2>2. CASE s # None /\ ~deleted[s] /\ ~ev.hup
    <3>1. s \in Conns /\ s <= idx /\ connFd[s] \in Fds
      <4>1. ev.fd \in Fds
        BY <1>1, EventFacts
      <4> QED BY <1>1, <2>2, <4>1, MapEntry
    <3>2. ReadMatchCommand(s)
      BY <2>2 DEF MatchHandleEvent
    <3> HIDE DEF s
    <3>3. said' \in [Conns -> SUBSET (Inputs \cup {"nothing"})]
      <4>1. inbox[s] \in Seq(Inputs)
        BY <1>1, <3>1 DEF IInv, TypeOK
      <4>2. Command(s) \in Inputs \cup {"nothing"}
        BY <4>1 DEF Command
      <4>3. said' = [said EXCEPT ![s] = @ \cup {Command(s)}]
        BY <3>2 DEF ReadMatchCommand
      <4> QED BY <2>0, <3>1, <4>2, <4>3
    <3>4. CASE ReadJoin(s) \/ ReadAccept(s)
      <4>1. mq' \in Seq(ManagerTasks)
        BY <3>1, <3>4, ManagerQueue DEF ReadJoin, ReadAccept
      <4> QED BY <2>0, <3>3, <3>4, <4>1 DEF ReadJoin, ReadAccept
    <3>5. CASE ReadPeerText(s)
      <4>1. CASE chatMode[s] = 2 /\ peerFd[s] # NoFd
        <5> DEFINE task == [type |-> "peerMsg", fromFd |-> connFd[s],
                            targetFd |-> peerFd[s], user |-> s]
        <5>1. task \in ReactorTasks /\ DistinctEnds(task)
          BY <1>1, <3>1, <4>1 DEF ReactorTasks, DistinctEnds, MatchTypeOK
        <5>2. matchQueue' = Posted(task)
          BY <3>5, <4>1 DEF ReadPeerText
        <5> HIDE DEF task
        <5>3. mq' = mq
          BY <3>5 DEF ReadPeerText, managerVars
        <5> QED BY <1>1, <2>0, <3>3, <5>1, <5>2, <5>3, PostedTask
      <4>2. CASE ~(chatMode[s] = 2 /\ peerFd[s] # NoFd)
        BY <2>0, <3>3, <3>5, <4>2 DEF ReadPeerText, managerVars
      <4> QED BY <4>1, <4>2
    <3>6. CASE UNCHANGED <<managerVars, matchQueue>>
      BY <2>0, <3>3, <3>6 DEF managerVars
    <3> QED BY <3>2, <3>4, <3>5, <3>6 DEF ReadMatchCommand
  <2> QED BY <2>1, <2>2
<1> HIDE DEF s
<1>5. MatchTypeOK'
  <2>1. TypeOK'
    BY <1>1 DEF IInv
  <2> QED BY <1>1, <1>2, <1>4, <2>1 DEF MatchTypeOK
<1>6. AskInv' /\ TaskInv'
  BY <1>2, <1>4 DEF MatchInv, AskInv, TaskInv
<1> QED BY <1>1, <1>3, <1>5, <1>6 DEF MatchInv

(* A task of the reactor's queue: only MATCH_SUCCESS starts a chat, for the *)
(* Socket now found under the descriptor the task is for.                   *)
LEMMA HandleTaskStep ==
  ASSUME MatchInv, NEW r \in Reactors, HandleTask(r)
  PROVE  MatchInv'
<1> USE DEF reactorVars, sessionVars
<1>0. [Next]_vars
  BY DEF Next, MatchLoop
<1>1. IInv /\ IInv' /\ MatchTypeOK /\ TaskInv /\ PeerInv
  BY <1>0, ReactorPart DEF MatchInv
<1> DEFINE task == Head(matchQueue[r])
           c    == socketMap[r][task.targetFd]
<1>2. matchQueue[r] \in Seq(ReactorTasks) /\ matchQueue[r] # <<>>
  BY <1>1 DEF MatchTypeOK, HandleTask
<1>3. task \in ReactorTasks /\ DistinctEnds(task)
  <2>1. 1 \in 1 .. Len(matchQueue[r]) /\ task = matchQueue[r][1]
    BY <1>2
  <2> QED BY <1>1, <1>2, <2>1 DEF TaskInv
<1>4. /\ matchQueue' \in [Reactors -> Seq(ReactorTasks)]
      /\ TaskInv'
  <2>1. matchQueue' = [matchQueue EXCEPT ![r] = Tail(@)] /\ notice' = notice
    BY DEF HandleTask, managerVars
  <2>2. ASSUME NEW i \in 1 .. Len(Tail(matchQueue[r]))
        PROVE  DistinctEnds(Tail(matchQueue[r])[i])
    <3>1. i + 1 \in 1 .. Len(matchQueue[r])
      BY <1>2
    <3>2. Tail(matchQueue[r])[i] = matchQueue[r][i + 1]
      BY <1>2
    <3> QED BY <1>1, <3>1, <3>2 DEF TaskInv
  <2>3. matchQueue \in [Reactors -> Seq(ReactorTasks)]
    BY <1>1 DEF MatchTypeOK
  <2>4. matchQueue' \in [Reactors -> Seq(ReactorTasks)]
    BY <1>2, <2>1, <2>3
  <2>5. \A q \in Reactors : matchQueue'[q] =
            IF q = r THEN Tail(matchQueue[r]) ELSE matchQueue[q]
    BY <2>1, <2>3
  <2>6. notice' # NoNotice => DistinctEnds(notice')
    BY <1>1, <2>1 DEF TaskInv
  <2>7. ASSUME NEW q \in Reactors, NEW i \in 1 .. Len(matchQueue'[q])
        PROVE  DistinctEnds(matchQueue'[q][i])
    BY <1>1, <2>2, <2>5 DEF TaskInv
  <2> QED BY <2>4, <2>6, <2>7 DEF TaskInv
<1>5. c # None => c \in Conns /\ c <= idx /\ connFd[c] = task.targetFd
  BY <1>1, <1>3, MapEntry DEF ReactorTasks
<1>6. \/ /\ c # None
         /\ SendAsk(c, task) \/ StartChat(c, task) \/ ForwardText(c, task)
      \/ UNCHANGED <<sessionVars, asked, partners, heardFrom>>
  BY DEF HandleTask
<1>7. UNCHANGED <<reactorVars, waitingQueue, pendingAsks, mq, visit, notice,
                  said, touchedFreed>>
  BY DEF HandleTask, managerVars
<1>8. task.user \in Conns /\ task.fromFd \in Fds
  BY <1>3 DEF ReactorTasks
<1> HIDE DEF task, c
<1>9. /\ chatMode' \in [Conns -> {0, 2}]
      /\ peerFd' \in [Conns -> Fds \cup {NoFd}]
      /\ asked' \in [Conns -> SUBSET Conns]
      /\ partners' \in [Conns -> SUBSET Conns]
      /\ heardFrom' \in [Conns -> SUBSET Conns]
      /\ PeerInv'
  <2>0. /\ chatMode \in [Conns -> {0, 2}]
        /\ peerFd \in [Conns -> Fds \cup {NoFd}]
        /\ asked \in [Conns -> SUBSET Conns]
        /\ partners \in [Conns -> SUBSET Conns]
        /\ heardFrom \in [Conns -> SUBSET Conns]
    BY <1>1 DEF MatchTypeOK
  <2>1. idx' = idx /\ connFd' = connFd
    BY <1>7 DEF mainVars, objectVars
  <2>2. CASE c # None /\ SendAsk(c, task)
    BY <1>1, <1>5, <1>8, <2>0, <2>1, <2>2 DEF SendAsk, PeerInv
  <2>3. CASE c # None /\ StartChat(c, task)
    <3>1. task.fromFd # connFd[c]
      BY <1>3, <1>5, <2>3 DEF StartChat, DistinctEnds
    <3> QED BY <1>1, <1>5, <1>8, <2>0, <2>1, <2>3, <3>1 DEF StartChat, PeerInv
  <2>4. CASE c # None /\ ForwardText(c, task)
    BY <1>1, <1>5, <1>8, <2>0, <2>1, <2>4 DEF ForwardText, PeerInv
  <2>5. CASE UNCHANGED <<sessionVars, asked, partners, heardFrom>>
    BY <1>1, <2>0, <2>1, <2>5 DEF PeerInv
  <2> QED BY <1>6, <2>2, <2>3, <2>4, <2>5
<1>10. MatchTypeOK'
  <2>1. TypeOK'
    BY <1>1 DEF IInv
  <2> QED BY <1>1, <1>4, <1>7, <1>9, <2>1 DEF MatchTypeOK
<1>11. VisitInv'
  BY <1>0, <1>7, VisitKept
<1>12. AskInv'
  BY <1>7 DEF MatchInv, AskInv
<1> QED BY <1>1, <1>4, <1>9, <1>10, <1>11, <1>12 DEF MatchInv

-----------------------------------------------------------------------------
(* A step of the match thread that changes neither the questions nor what   *)
(* is queued for the reactors: only its own place has to be looked at.      *)
LEMMA OwnStep ==
  ASSUME MatchInv, MatchThread,
         UNCHANGED <<reactorVars, pendingAsks, notice, matchQueue, sessionVars,
                     clientVars, touchedFreed>>,
         waitingQueue' \in Seq(Fds), mq' \in Seq(ManagerTasks),
         visit' \in Visits \cup {Idle}, VisitInv'
  PROVE  MatchInv'
<1> USE DEF clientVars
<1>0. [Next]_vars
  BY DEF Next
<1>1. IInv' /\ TypeOK'
  BY <1>0, ReactorPart DEF IInv
<1>2. MatchTypeOK'
  BY <1>1 DEF MatchInv, MatchTypeOK, sessionVars
<1>3. AskInv' /\ TaskInv'
  BY DEF MatchInv, AskInv, TaskInv
<1>4. PeerInv'
  BY <1>0, ChatsKept
<1> QED BY <1>1, <1>2, <1>3, <1>4 DEF MatchInv

(* A walk begins at the first reactor with no Socket in hand. *)
LEMMA BeginJoinStep ==
  ASSUME MatchInv, BeginJoin
  PROVE  MatchInv'
<1>1. /\ mq \in Seq(ManagerTasks) /\ mq # <<>>
      /\ waitingQueue \in Seq(Fds)
  BY DEF MatchInv, MatchTypeOK, BeginJoin, NextTaskIs
<1>2. Head(mq) \in ManagerTasks /\ Tail(mq) \in Seq(ManagerTasks)
  BY <1>1
<1>3. Head(mq).fromFd \in Fds
  BY <1>2 DEF ManagerTasks
<1>4. waitingQueue' \in Seq(Fds) /\ mq' \in Seq(ManagerTasks)
  BY <1>1, <1>2, <1>3 DEF BeginJoin
<1>5. /\ visit' = [task |-> Head(mq), r |-> 0, last |-> -1, s |-> None]
      /\ 0 \in Reactors
  BY ReactorAssumption DEF BeginJoin, Reactors
<1>6. visit' \in Visits
  BY <1>2, <1>5 DEF Visits
<1>7. idx' = idx /\ idx \in Nat
  BY ReactorAssumption
     DEF BeginJoin, reactorVars, mainVars, MatchInv, IInv, TypeOK
<1>8. VisitInv'
  BY <1>5, <1>7 DEF VisitInv, None
<1> QED BY <1>4, <1>6, <1>8, OwnStep DEF BeginJoin, MatchThread

(* The Socket the walk takes from a map is one that was accepted. *)
LEMMA ReadEntryStep ==
  ASSUME MatchInv, ReadEntry
  PROVE  MatchInv'
<1>1. visit \in Visits
  BY DEF MatchInv, MatchTypeOK, ReadEntry
<1>2. PICK fd \in Ahead : visit' = At(visit.r, fd, socketMap[visit.r][fd])
  BY DEF ReadEntry
<1>3. visit.r \in Reactors /\ visit.task \in ManagerTasks
  BY <1>1 DEF Visits
<1>4. fd \in Fds /\ socketMap[visit.r][fd] # None
  BY DEF Ahead
<1>5. /\ socketMap[visit.r][fd] \in Conns
      /\ socketMap[visit.r][fd] <= idx
  BY <1>3, <1>4, MapEntry DEF MatchInv
<1>6. visit' \in Visits
  BY <1>2, <1>3, <1>4, <1>5 DEF At, Visits
<1>7. idx' = idx
  BY DEF ReadEntry, reactorVars, mainVars
<1>8. VisitInv'
  BY <1>2, <1>5, <1>7 DEF VisitInv, At
<1>9. waitingQueue' \in Seq(Fds) /\ mq' \in Seq(ManagerTasks)
  BY DEF MatchInv, MatchTypeOK, ReadEntry
<1> QED BY <1>6, <1>8, <1>9, OwnStep DEF ReadEntry, MatchThread

(* The walk goes on to a reactor that exists, or ends. *)
LEMMA NextReactorStep ==
  ASSUME MatchInv, NextReactor
  PROVE  MatchInv'
<1>1. visit \in Visits
  BY DEF MatchInv, MatchTypeOK, NextReactor
<1>2. visit.r \in Reactors /\ visit.task \in ManagerTasks
  BY <1>1 DEF Visits
<1>3. idx' = idx /\ idx \in Nat
  BY ReactorAssumption
     DEF NextReactor, reactorVars, mainVars, MatchInv, IInv, TypeOK
<1>4. visit' \in Visits \cup {Idle} /\ VisitInv'
  <2>1. CASE visit.r = NReactors - 1
    BY <2>1 DEF NextReactor, VisitInv
  <2>2. CASE visit.r # NReactors - 1
    <3>1. visit.r + 1 \in Reactors
      BY <1>2, <2>2, ReactorAssumption DEF Reactors
    <3>2. visit' = At(visit.r + 1, -1, None)
      BY <2>2 DEF NextReactor
    <3>3. visit' \in Visits
      BY <1>2, <3>1, <3>2 DEF At, Visits
    <3> QED BY <1>3, <3>2, <3>3 DEF At, VisitInv, None
  <2> QED BY <2>1, <2>2
<1>5. waitingQueue' \in Seq(Fds) /\ mq' \in Seq(ManagerTasks)
  BY DEF MatchInv, MatchTypeOK, NextReactor
<1> QED BY <1>4, <1>5, OwnStep DEF NextReactor, MatchThread

(* The question to one Socket of the walk, also when its memory has become  *)
(* another Socket's: the asker is never asked.                              *)
LEMMA AskEntryStep ==
  ASSUME MatchInv, AskEntry
  PROVE  MatchInv'
<1> USE DEF clientVars
<1>0. [Next]_vars
  BY DEF Next, MatchThread
<1>1. IInv /\ IInv' /\ MatchTypeOK /\ TypeOK'
  BY <1>0, ReactorPart DEF MatchInv, IInv
<1>2. /\ visit \in Visits /\ visit.s \in Conns /\ visit.s <= idx
      /\ visit.r \in Reactors /\ visit.last \in Fds \cup {-1}
      /\ visit.task \in ManagerTasks
      /\ visit.task.fromFd \in Fds /\ visit.task.user \in Conns
  BY <1>1 DEF MatchTypeOK, AskEntry, Visits, ManagerTasks, MatchInv, VisitInv
<1>3. /\ visit' = At(visit.r, visit.last, None)
      /\ UNCHANGED <<reactorVars, waitingQueue, mq, notice, sessionVars, clientVars>>
      /\ touchedFreed' = (touchedFreed \/ heap[visit.s] = "freed")
  BY DEF AskEntry
<1>4. visit' \in Visits
  BY <1>2, <1>3 DEF At, Visits
<1>5. VisitInv'
  <2>1. idx' = idx /\ idx \in Nat
    BY <1>1, <1>3, ReactorAssumption DEF reactorVars, mainVars, IInv, TypeOK
  <2> QED BY <1>3, <2>1 DEF VisitInv, At, None
<1>6. PICK o \in Aliases(visit.s) :
          LET fd   == connFd[o]
              task == visit.task
          IN  IF fd # task.fromFd /\ connected[o]
              THEN /\ pendingAsks' = [pendingAsks EXCEPT
                                         ![fd] = Ask(task.fromFd, task.user)]
                   /\ matchQueue' = [matchQueue EXCEPT ![visit.r] =
                         Append(@, [type |-> "ask", fromFd |-> task.fromFd,
                                    targetFd |-> fd, user |-> task.user])]
              ELSE UNCHANGED <<pendingAsks, matchQueue>>
  BY DEF AskEntry
<1>7. o \in Conns /\ connFd[o] \in Fds
  <2>1. CASE o = visit.s
    BY <1>1, <1>2, <2>1 DEF IInv, AcceptedInv
  <2>2. CASE o \in Conns /\ heap[o] = "live"
    BY <1>1, <2>2 DEF IInv, AcceptedInv
  <2> QED BY <1>6, <2>1, <2>2 DEF Aliases
<1>8. /\ pendingAsks' \in [Fds -> Asks \cup {NoAsk}]
      /\ matchQueue' \in [Reactors -> Seq(ReactorTasks)]
      /\ AskInv' /\ TaskInv'
  <2>0. /\ pendingAsks \in [Fds -> Asks \cup {NoAsk}]
        /\ matchQueue \in [Reactors -> Seq(ReactorTasks)]
        /\ AskInv /\ TaskInv
    BY <1>1 DEF MatchTypeOK, MatchInv
  <2>1. CASE UNCHANGED <<pendingAsks, matchQueue>>
    BY <1>3, <2>0, <2>1 DEF AskInv, TaskInv
  <2>2. CASE connFd[o] # visit.task.fromFd /\ connected[o]
    <3> DEFINE fd   == connFd[o]
               ask  == Ask(visit.task.fromFd, visit.task.user)
               task == [type |-> "ask", fromFd |-> visit.task.fromFd,
                        targetFd |-> fd, user |-> visit.task.user]
               queue == matchQueue[visit.r]
    <3>1. /\ ask \in Asks /\ ask.fromFd # fd
          /\ task \in ReactorTasks /\ DistinctEnds(task)
      BY <1>2, <1>7, <2>2 DEF Ask, Asks, ReactorTasks, DistinctEnds
    <3>2. /\ pendingAsks' = [pendingAsks EXCEPT ![fd] = ask]
          /\ matchQueue' = [matchQueue EXCEPT ![visit.r] = Append(queue, task)]
      BY <1>6, <2>2
    <3>3. fd \in Fds /\ queue \in Seq(ReactorTasks)
      BY <1>2, <1>7, <2>0
    <3> HIDE DEF fd, ask, task
    <3>4. pendingAsks' \in [Fds -> Asks \cup {NoAsk}] /\ AskInv'
      BY <2>0, <3>1, <3>2, <3>3 DEF AskInv
    <3>5. ASSUME NEW i \in 1 .. Len(Append(queue, task))
          PROVE  DistinctEnds(Append(queue, task)[i])
      <4>1. CASE i = Len(queue) + 1
        BY <3>1, <3>3, <4>1
      <4>2. CASE i # Len(queue) + 1
        <5>1. i \in 1 .. Len(queue) /\ Append(queue, task)[i] = queue[i]
          BY <3>3, <4>2
        <5> QED BY <1>2, <2>0, <5>1 DEF TaskInv
      <4> QED BY <4>1, <4>2
    <3> HIDE DEF queue
    <3>6. Append(queue, task) \in Seq(ReactorTasks)
      BY <3>1, <3>3
    <3>7. /\ matchQueue' \in [Reactors -> Seq(ReactorTasks)]
          /\ \A q \in Reactors : matchQueue'[q] =
                 IF q = visit.r THEN Append(queue, task) ELSE matchQueue[q]
      BY <1>2, <2>0, <3>2, <3>6
    <3>8. TaskInv'
      BY <1>3, <2>0, <3>5, <3>7 DEF TaskInv
    <3> QED BY <3>4, <3>7, <3>8
  <2> QED BY <1>6, <2>1, <2>2
<1>9. touchedFreed' \in BOOLEAN
  BY <1>3
<1>10. MatchTypeOK'
  BY <1>1, <1>3, <1>4, <1>8, <1>9 DEF MatchTypeOK, sessionVars
<1>11. PeerInv'
  BY <1>0, <1>3, ChatsKept
<1> QED BY <1>1, <1>5, <1>8, <1>10, <1>11 DEF MatchInv

(* The notices of a match name two different descriptors, because the       *)
(* question they stem from did.                                             *)
LEMMA NotifyAskerStep ==
  ASSUME MatchInv, NotifyAsker
  PROVE  MatchInv'
<1> USE DEF clientVars
<1>0. [Next]_vars
  BY DEF Next, MatchThread
<1>1. IInv /\ IInv' /\ MatchTypeOK /\ TypeOK' /\ TaskInv /\ AskInv
  BY <1>0, ReactorPart DEF MatchInv, IInv
<1>2. UNCHANGED <<reactorVars, waitingQueue, visit, sessionVars, clientVars,
                  touchedFreed>>
  BY DEF NotifyAsker
<1>3. /\ mq' \in Seq(ManagerTasks)
      /\ Head(mq) \in ManagerTasks
      /\ Head(mq).fromFd \in Fds /\ Head(mq).user \in Conns
  <2>1. mq \in Seq(ManagerTasks) /\ mq # <<>> /\ mq' = Tail(mq)
    BY <1>1 DEF MatchTypeOK, NotifyAsker, NextTaskIs
  <2>2. Tail(mq) \in Seq(ManagerTasks) /\ Head(mq) \in ManagerTasks
    BY <2>1
  <2> QED BY <2>1, <2>2 DEF ManagerTasks
<1> DEFINE bFd  == Head(mq).fromFd
           ask  == pendingAsks[bFd]
           toA  == Success(bFd, ask.fromFd, Head(mq).user)
           toB  == Success(ask.fromFd, bFd, ask.user)
<1>4. /\ pendingAsks' \in [Fds -> Asks \cup {NoAsk}]
      /\ notice' \in ReactorTasks \cup {NoNotice}
      /\ matchQueue' \in [Reactors -> Seq(ReactorTasks)]
      /\ AskInv' /\ TaskInv'
  <2>0. /\ pendingAsks \in [Fds -> Asks \cup {NoAsk}]
        /\ notice \in ReactorTasks \cup {NoNotice}
        /\ matchQueue \in [Reactors -> Seq(ReactorTasks)]
    BY <1>1 DEF MatchTypeOK
  <2>1. CASE ask = NoAsk
    <3>1. UNCHANGED <<pendingAsks, notice, matchQueue>>
      BY <2>1 DEF NotifyAsker
    <3> QED BY <1>1, <2>0, <3>1 DEF AskInv, TaskInv
  <2>2. CASE ask # NoAsk
    <3>1. ask \in Asks /\ ask.fromFd # bFd /\ ask.fromFd \in Fds /\ ask.user \in Conns
      BY <1>1, <1>3, <2>0, <2>2 DEF AskInv, Asks
    <3>2. /\ toA \in ReactorTasks /\ DistinctEnds(toA)
          /\ toB \in ReactorTasks /\ DistinctEnds(toB)
      BY <1>3, <3>1 DEF Success, ReactorTasks, DistinctEnds
    <3>3. /\ pendingAsks' = [pendingAsks EXCEPT ![bFd] = NoAsk]
          /\ matchQueue' = Posted(toA)
          /\ notice' = toB
      BY <2>2 DEF NotifyAsker
    <3> HIDE DEF toA, toB, ask
    <3>4. pendingAsks' \in [Fds -> Asks \cup {NoAsk}] /\ AskInv'
      BY <1>1, <1>3, <2>0, <3>3 DEF AskInv
    <3>5. /\ matchQueue' \in [Reactors -> Seq(ReactorTasks)]
          /\ \A q \in Reactors : \A i \in 1 .. Len(matchQueue'[q]) :
                 DistinctEnds(matchQueue'[q][i])
      BY <1>1, <3>2, <3>3, PostedTask
    <3> QED BY <3>2, <3>3, <3>4, <3>5 DEF TaskInv
  <2> QED BY <2>1, <2>2
<1>5. MatchTypeOK'
  BY <1>1, <1>2, <1>3, <1>4 DEF MatchTypeOK, sessionVars
<1>6. VisitInv' /\ PeerInv'
  BY <1>0, <1>2, VisitKept, ChatsKept
<1> QED BY <1>1, <1>4, <1>5, <1>6 DEF MatchInv

(* The second notice of a match is posted as it was built. *)
LEMMA NotifyAccepterStep ==
  ASSUME MatchInv, NotifyAccepter
  PROVE  MatchInv'
<1> USE DEF clientVars
<1>0. [Next]_vars
  BY DEF Next, MatchThread
<1>1. IInv /\ IInv' /\ MatchTypeOK /\ TypeOK' /\ TaskInv /\ AskInv
  BY <1>0, ReactorPart DEF MatchInv, IInv
<1>2. UNCHANGED <<reactorVars, waitingQueue, pendingAsks, mq, visit,
                  sessionVars, clientVars, touchedFreed>>
  BY DEF NotifyAccepter
<1>3. notice \in ReactorTasks /\ DistinctEnds(notice)
  BY <1>1 DEF NotifyAccepter, MatchTypeOK, TaskInv
<1>4. /\ matchQueue' = Posted(notice)
      /\ notice' = NoNotice
  BY DEF NotifyAccepter
<1>5. /\ matchQueue' \in [Reactors -> Seq(ReactorTasks)]
      /\ TaskInv'
  BY <1>1, <1>3, <1>4, PostedTask DEF TaskInv
<1>6. MatchTypeOK'
  BY <1>1, <1>2, <1>4, <1>5 DEF MatchTypeOK, sessionVars
<1>7. VisitInv' /\ PeerInv' /\ AskInv'
  BY <1>0, <1>1, <1>2, VisitKept, ChatsKept DEF AskInv
<1> QED BY <1>1, <1>5, <1>6, <1>7 DEF MatchInv

-----------------------------------------------------------------------------
(* Nothing is queued or asked when the server starts. *)
LEMMA InitIsMatchInv == Init => MatchInv
<1> SUFFICES ASSUME Init PROVE MatchInv
  OBVIOUS
<1>1. IInv
  BY InitIsInv DEF Init
<1>2. MatchTypeOK
  <2>1. /\ waitingQueue \in Seq(Fds)
        /\ pendingAsks \in [Fds -> Asks \cup {NoAsk}]
        /\ mq \in Seq(ManagerTasks)
        /\ matchQueue \in [Reactors -> Seq(ReactorTasks)]
    BY DEF Init
  <2>2. /\ visit \in Visits \cup {Idle}
        /\ notice \in ReactorTasks \cup {NoNotice}
        /\ touchedFreed \in BOOLEAN
    BY DEF Init
  <2>3. /\ chatMode \in [Conns -> {0, 2}]
        /\ peerFd \in [Conns -> Fds \cup {NoFd}]
    BY DEF Init
  <2>4. /\ asked \in [Conns -> SUBSET Conns]
        /\ partners \in [Conns -> SUBSET Conns]
        /\ heardFrom \in [Conns -> SUBSET Conns]
        /\ said \in [Conns -> SUBSET (Inputs \cup {"nothing"})]
    BY DEF Init
  <2> QED BY <1>1, <2>1, <2>2, <2>3, <2>4 DEF IInv, MatchTypeOK
<1>3. VisitInv /\ AskInv /\ TaskInv /\ PeerInv
  BY DEF Init, VisitInv, AskInv, TaskInv, PeerInv
<1> QED BY <1>1, <1>2, <1>3 DEF MatchInv

(* Every step keeps MatchInv. *)
LEMMA NextKeepsMatchInv ==
  ASSUME MatchInv, [Next]_vars
  PROVE  MatchInv'
<1>1. CASE UNCHANGED vars
  BY <1>1, QuietStep DEF vars
<1>2. CASE \/ \E fd \in Fds : AcceptConnection(fd)
           \/ AddConnection
           \/ \E r \in Reactors : AiAnswer(r)
           \/ \E c \in Conns : ClientStep(c)
  BY <1>2, QuietStep DEF AcceptConnection, AddConnection, AiAnswer, ClientStep
<1>3. ASSUME NEW r \in Reactors, MatchLoop(r)
      PROVE  MatchInv'
  <2>1. CASE HandleTask(r)
    BY <2>1, HandleTaskStep
  <2>2. CASE QueueIsEmpty(r) \/ WaitForEvents(r) \/ TearDown(r)
    BY <2>2, QuietStep DEF QueueIsEmpty, WaitForEvents, TearDown
  <2>3. CASE \E ev \in batch[r] : MatchHandleEvent(r, ev)
    BY <2>3, MatchHandleEventStep
  <2> QED BY <1>3, <2>1, <2>2, <2>3 DEF MatchLoop
<1>4. CASE MatchThread
  BY <1>4, BeginJoinStep, ReadEntryStep, AskEntryStep, NextReactorStep,
     NotifyAskerStep, NotifyAccepterStep DEF MatchThread
<1> QED BY <1>1, <1>2, <1>3, <1>4 DEF Next

(* MatchInv holds in every reachable state. *)
THEOREM MatchInvariantHolds == Spec => []MatchInv
<1>1. Init => MatchInv
  BY InitIsMatchInv
<1>2. MatchInv /\ [Next]_vars => MatchInv'
  BY NextKeepsMatchInv
<1> QED BY <1>1, <1>2, PTL DEF Spec

(* Every variable of the match-making server keeps its type. *)
THEOREM MatchTypeCorrect == Spec => []MatchTypeOK
<1>1. MatchInv => MatchTypeOK
  BY DEF MatchInv
<1> QED BY <1>1, MatchInvariantHolds, PTL

(* Nobody in chat mode has himself for a peer, however many users join,     *)
(* agree and leave, and whatever descriptors are reused meanwhile.          *)
THEOREM PeerIsAlwaysAnother == Spec => []PeerIsAnother
<1>1. MatchInv => PeerIsAnother
  BY DEF MatchInv, PeerInv, PeerIsAnother
<1> QED BY <1>1, MatchInvariantHolds, PTL
=============================================================================
