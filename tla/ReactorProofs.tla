--------------------------- MODULE ReactorProofs ---------------------------
(***************************************************************************)
(* Proofs about Reactor for every number of event loops, descriptors,      *)
(* connections and commands: IInv is inductive, the safety invariants of   *)
(* Reactor follow from it, and so does ReadsOnlyAddedConnections.          *)
(***************************************************************************)
EXTENDS Reactor, TLAPS

(* reactors_[idx % cpu_cnt_] is one of the reactors. *)
LEMMA OwnerIsReactor == \A c \in Conns : Owner(c) \in Reactors
BY ReactorAssumption DEF Owner, Conns, Reactors

(* The null pointer is no Socket and NoReactor no SubReactor. *)
LEMMA NoneIsNoConn == None \notin Conns /\ NoReactor \notin Reactors
BY DEF None, Conns, NoReactor, Reactors

(* The tables are empty when the server starts. *)
LEMMA InitIsInv == ReactorInit => IInv
<1> SUFFICES ASSUME ReactorInit PROVE IInv
  OBVIOUS
<1> USE DEF ReactorInit
<1>1. TypeOK
  BY ReactorAssumption DEF TypeOK, MainPcs, LoopPcs, NoCur
<1>2. AcceptedInv /\ DescriptorInv /\ LiveInv
  BY DEF AcceptedInv, DescriptorInv, LiveInv, Conns
<1>3. WatchedIsComplete /\ MainInv /\ LoopInv
  BY DEF WatchedIsComplete, MainInv, LoopInv, CleanupPcs
<1>4. MapInv /\ RegistryInv /\ BatchInv
  BY DEF MapInv, RegistryInv, BatchInv
<1> QED BY <1>1, <1>2, <1>3, <1>4 DEF IInv

-----------------------------------------------------------------------------
(* What the invariant says of an event about to be handled. *)
LEMMA EventFacts ==
  ASSUME IInv, NEW r \in Reactors, NEW ev \in batch[r]
  PROVE  /\ ev \in Events /\ ev.fd \in Fds /\ ev.conn \in Conns
         /\ ev.conn # None
         /\ ev.conn \in epoll[r]
         /\ connFd[ev.conn] = ev.fd
         /\ fdOpen[ev.fd] = ev.conn
         /\ socketMap[r][ev.fd] = ev.conn
         /\ ~InHand(ev.conn)
<1>1. ev \in Events
  BY DEF IInv, TypeOK
<1> QED BY <1>1, NoneIsNoConn DEF IInv, Events, BatchInv, WatchedIsComplete

(* The descriptor a reactor is tearing down is no other connection's: no    *)
(* watched connection has it, nor the one being added.                      *)
LEMMA ClosingFacts ==
  ASSUME IInv, NEW r \in Reactors, rpc[r] \in CleanupPcs
  PROVE  /\ \A q \in Reactors : \A c \in epoll[q] : connFd[c] # cur[r].fd
         /\ mainPc # "accept" => MainFd # cur[r].fd
<1>1. LET c == cur[r].s IN
      /\ fdOpen[cur[r].fd] = c
      /\ Owner(c) = r
      /\ c \notin epoll[r]
      /\ ~InHand(c)
  BY DEF IInv, LoopInv
<1> QED BY <1>1 DEF IInv, WatchedIsComplete, MainInv, MainFd, InHand

-----------------------------------------------------------------------------

(* accept(): the new connection is in nobody's table yet. *)
LEMMA AcceptStep ==
  ASSUME IInv, NEW fd \in Fds, Accept(fd)
  PROVE  IInv'
<1> USE DEF IInv, Accept, tableVars, loopVars
<1>0. idx + 1 \in Conns /\ idx \in 0 .. MaxConns /\ idx' = idx + 1
  BY ReactorAssumption DEF TypeOK, Conns
<1>1. MapInv' /\ RegistryInv'
  BY DEF MapInv, RegistryInv, Closing, InHand
<1>2. TypeOK'
  <2>1. mainPc' \in MainPcs /\ idx' \in 0 .. MaxConns
    BY <1>0 DEF MainPcs, Conns
  <2>2. /\ fdOpen' \in [Fds -> Conns \cup {None}]
        /\ peer' \in [Conns -> {"none", "open", "closed"}]
        /\ connFd' \in [Conns -> Fds \cup {NoFd}]
        /\ heap' \in [Conns -> {"none", "live", "freed"}]
        /\ deleted' \in [Conns -> BOOLEAN]
    BY <1>0 DEF TypeOK
  <2> QED BY <2>1, <2>2 DEF TypeOK
<1>3. AcceptedInv'
  BY <1>0, ReactorAssumption DEF TypeOK, AcceptedInv, Conns
<1>4. DescriptorInv'
  <2> SUFFICES ASSUME NEW f \in Fds, NEW c \in Conns, fdOpen'[f] = c
               PROVE  /\ c <= idx'
                      /\ connFd'[c] = f
                      /\ \/ c \in epoll'[Owner(c)]
                         \/ InHand(c)'
                         \/ Closing(Owner(c), c)'
    BY <1>2 DEF DescriptorInv, TypeOK
  <2>1. CASE f = fd
    <3>1. c = idx + 1
      BY <2>1 DEF TypeOK
    <3> QED BY <1>0, <2>1, <3>1 DEF TypeOK, InHand, Conns
  <2>2. CASE f # fd
    <3>1. fdOpen[f] = c /\ c # None
      BY <2>2, NoneIsNoConn DEF TypeOK
    <3>2. c <= idx /\ connFd[c] = f /\ ~InHand(c)
      BY <3>1 DEF InHand, DescriptorInv
    <3> QED BY <1>0, <3>1, <3>2 DEF TypeOK, DescriptorInv, Closing, Conns
  <2> QED BY <2>1, <2>2
<1>5. LiveInv'
  BY NoneIsNoConn DEF LiveInv, TypeOK
<1>6. WatchedIsComplete'
  BY NoneIsNoConn DEF WatchedIsComplete, TypeOK, AcceptedInv, InHand
<1>7. MainInv'
  BY <1>0 DEF TypeOK, MainFd, MainInv
<1>8. LoopInv'
  BY NoneIsNoConn DEF LoopInv, TypeOK, AcceptedInv, WatchedIsComplete, InHand
<1>9. BatchInv'
  BY DEF BatchInv, TypeOK, AcceptedInv, WatchedIsComplete
<1> QED BY <1>1, <1>2, <1>3, <1>4, <1>5, <1>6, <1>7, <1>8, <1>9

(* The map entry is made for the connection in hand. *)
LEMMA AddToMapStep ==
  ASSUME IInv, AddToMap
  PROVE  IInv'
<1> USE DEF IInv, AddToMap, MainFd, MainOwner, kernelVars, objectVars,
    loopVars
<1>1. /\ AcceptedInv'
      /\ DescriptorInv'
      /\ LiveInv'
      /\ RegistryInv'
      /\ BatchInv'
  BY DEF AcceptedInv, DescriptorInv, LiveInv, RegistryInv, BatchInv, Closing,
     InHand
<1>2. TypeOK'
  BY OwnerIsReactor DEF TypeOK, AcceptedInv, MainInv, MainPcs
<1>3. WatchedIsComplete'
  BY DEF WatchedIsComplete, MainInv, InHand
<1>4. MainInv'
  BY OwnerIsReactor DEF MainInv, TypeOK, AcceptedInv
<1>5. LoopInv'
  BY DEF LoopInv, MainInv, InHand
<1>6. MapInv'
  BY DEF MapInv, MainInv, Closing, InHand
<1> QED BY <1>1, <1>2, <1>3, <1>4, <1>5, <1>6

(* m_connected is set before anything reads it. *)
LEMMA OnConnectStep ==
  ASSUME IInv, OnConnect
  PROVE  IInv'
<1> USE DEF IInv, OnConnect, kernelVars, tableVars, loopVars
<1>1. /\ AcceptedInv'
      /\ DescriptorInv'
      /\ LiveInv'
      /\ WatchedIsComplete'
      /\ LoopInv'
      /\ MapInv'
      /\ RegistryInv'
      /\ BatchInv'
  BY DEF AcceptedInv, DescriptorInv, LiveInv, WatchedIsComplete, LoopInv,
     MapInv, RegistryInv, BatchInv, Closing, InHand
<1>2. TypeOK'
  BY DEF TypeOK, MainInv, MainPcs
<1>3. MainInv'
  BY DEF MainInv, TypeOK, MainFd, MainOwner
<1> QED BY <1>1, <1>2, <1>3

(* The registry entry is made once the map entry is there. *)
LEMMA RegisterFdStep ==
  ASSUME IInv, RegisterFd
  PROVE  IInv'
<1> USE DEF IInv, RegisterFd, MainFd, MainOwner, kernelVars, objectVars,
    loopVars
<1>1. /\ AcceptedInv'
      /\ DescriptorInv'
      /\ LiveInv'
      /\ MapInv'
      /\ BatchInv'
  BY DEF AcceptedInv, DescriptorInv, LiveInv, MapInv, BatchInv, Closing,
     InHand
<1>2. TypeOK'
  BY OwnerIsReactor DEF TypeOK, AcceptedInv, MainInv, MainPcs
<1>3. WatchedIsComplete'
  BY DEF WatchedIsComplete, MainInv, InHand
<1>4. MainInv'
  BY DEF MainInv, TypeOK, AcceptedInv
<1>5. LoopInv'
  BY DEF LoopInv, MainInv, InHand
<1>6. RegistryInv'
  BY NoneIsNoConn DEF RegistryInv, MainInv, Closing, InHand
<1> QED BY <1>1, <1>2, <1>3, <1>4, <1>5, <1>6

(* The connection is watched only now that it is complete. *)
LEMMA EpollAddStep ==
  ASSUME IInv, EpollAdd
  PROVE  IInv'
<1> USE DEF IInv, EpollAdd, MainOwner, objectVars, tableVars, loopVars
<1>1. /\ AcceptedInv'
      /\ LiveInv'
      /\ MainInv'
      /\ LoopInv'
      /\ BatchInv'
  BY DEF AcceptedInv, LiveInv, MainInv, LoopInv, BatchInv, InHand
<1>2. TypeOK'
  BY OwnerIsReactor DEF TypeOK, MainInv, MainPcs
<1>3. DescriptorInv'
  BY OwnerIsReactor DEF DescriptorInv, TypeOK, Closing, InHand
<1>4. WatchedIsComplete'
  BY DEF WatchedIsComplete, MainInv, InHand, MainFd
<1>5. MapInv'
  BY DEF MapInv, TypeOK, Closing, InHand
<1>6. RegistryInv'
  BY DEF RegistryInv, TypeOK, Closing, InHand
<1> QED BY <1>1, <1>2, <1>3, <1>4, <1>5, <1>6

(* The failure itself changes no table. *)
LEMMA EpollAddFailsStep ==
  ASSUME IInv, EpollAddFails
  PROVE  IInv'
<1> USE DEF IInv, EpollAddFails, kernelVars, objectVars, tableVars, loopVars
<1>1. /\ TypeOK'
      /\ AcceptedInv'
      /\ DescriptorInv'
      /\ LiveInv'
      /\ WatchedIsComplete'
      /\ MainInv'
      /\ LoopInv'
      /\ MapInv'
      /\ RegistryInv'
      /\ BatchInv'
  BY DEF TypeOK, AcceptedInv, DescriptorInv, LiveInv, WatchedIsComplete,
     MainInv, LoopInv, MapInv, RegistryInv, BatchInv, MainPcs, Closing,
     InHand, MainFd, MainOwner
<1> QED BY <1>1

(* The registry entry goes before the Socket. *)
LEMMA FailUnregisterStep ==
  ASSUME IInv, FailUnregister
  PROVE  IInv'
<1> USE DEF IInv, FailUnregister, MainFd, kernelVars, objectVars, loopVars
<1>1. /\ AcceptedInv'
      /\ DescriptorInv'
      /\ LiveInv'
      /\ MainInv'
      /\ MapInv'
      /\ BatchInv'
  BY DEF AcceptedInv, DescriptorInv, LiveInv, MainInv, MapInv, BatchInv,
     Closing, InHand, MainOwner
<1>2. TypeOK'
  BY DEF TypeOK, AcceptedInv, MainInv, MainPcs
<1>3. WatchedIsComplete'
  BY DEF WatchedIsComplete, MainInv, InHand
<1>4. LoopInv'
  BY DEF LoopInv, MainInv, InHand
<1>5. RegistryInv'
  BY DEF RegistryInv, TypeOK, DescriptorInv, Closing, InHand
<1> QED BY <1>1, <1>2, <1>3, <1>4, <1>5

(* The map still names the Socket when it is freed. *)
LEMMA FailDeleteStep ==
  ASSUME IInv, FailDelete
  PROVE  IInv'
<1> USE DEF IInv, FailDelete, kernelVars, tableVars, loopVars
<1>1. /\ DescriptorInv'
      /\ LiveInv'
      /\ WatchedIsComplete'
      /\ LoopInv'
      /\ MapInv'
      /\ RegistryInv'
      /\ BatchInv'
  BY DEF DescriptorInv, LiveInv, WatchedIsComplete, LoopInv, MapInv,
     RegistryInv, BatchInv, Closing, InHand
<1>2. TypeOK'
  BY DEF TypeOK, MainInv, MainPcs
<1>3. AcceptedInv'
  BY DEF AcceptedInv, TypeOK
<1>4. MainInv'
  BY DEF MainInv, TypeOK, MainFd, MainOwner
<1> QED BY <1>1, <1>2, <1>3, <1>4

(* The map entry goes before the descriptor. *)
LEMMA FailRemoveStep ==
  ASSUME IInv, FailRemove
  PROVE  IInv'
<1> USE DEF IInv, FailRemove, MainFd, MainOwner, kernelVars, objectVars,
    loopVars
<1>1. /\ AcceptedInv'
      /\ DescriptorInv'
      /\ LiveInv'
      /\ MainInv'
      /\ RegistryInv'
      /\ BatchInv'
  BY DEF AcceptedInv, DescriptorInv, LiveInv, MainInv, RegistryInv, BatchInv,
     Closing, InHand
<1>2. TypeOK'
  BY OwnerIsReactor DEF TypeOK, AcceptedInv, MainInv, MainPcs
<1>3. WatchedIsComplete'
  BY DEF WatchedIsComplete, MainInv, InHand
<1>4. LoopInv'
  BY DEF LoopInv, MainInv, InHand
<1>5. MapInv'
  BY DEF MapInv, TypeOK, DescriptorInv, Closing, InHand
<1> QED BY <1>1, <1>2, <1>3, <1>4, <1>5

(* No table names the descriptor when it is closed. *)
LEMMA FailCloseStep ==
  ASSUME IInv, FailClose
  PROVE  IInv'
<1> USE DEF IInv, FailClose, MainFd, CloseDescriptor, objectVars, tableVars,
    loopVars
<1>0. \A r \in Reactors : epoll'[r] = epoll[r] /\ idx \notin epoll[r]
  BY DEF TypeOK, MainInv, WatchedIsComplete, InHand
<1>1. AcceptedInv' /\ WatchedIsComplete' /\ MainInv'
  BY DEF AcceptedInv, WatchedIsComplete, MainInv, InHand
<1>2. TypeOK'
  BY DEF TypeOK, AcceptedInv, MainInv, MainPcs
<1>3. DescriptorInv'
  <2> SUFFICES ASSUME NEW fd \in Fds, NEW c \in Conns, fdOpen'[fd] = c
               PROVE  /\ c <= idx /\ connFd[c] = fd
                      /\ c \in epoll'[Owner(c)] \/ Closing(Owner(c), c)
    BY NoneIsNoConn DEF TypeOK, DescriptorInv, Closing
  <2>1. fdOpen[fd] = c /\ c # None /\ fd # MainFd
    BY NoneIsNoConn DEF TypeOK, MainInv
  <2>2. ~InHand(c)
    BY <2>1 DEF InHand, DescriptorInv
  <2> QED BY <1>0, <2>1, <2>2, OwnerIsReactor DEF DescriptorInv
<1>4. LiveInv'
  BY DEF LiveInv, MainInv
<1>5. LoopInv'
  BY DEF LoopInv, WatchedIsComplete, MainInv, InHand
<1>6. MapInv'
  BY DEF MapInv, WatchedIsComplete, MainInv, LoopInv, Closing
<1>7. RegistryInv'
  <2>1. fdToReactor[MainFd] = NoReactor
    <3>1. MainFd \in Fds /\ fdOpen[MainFd] = idx /\ InHand(idx)
      BY DEF MainInv, AcceptedInv, InHand, Conns
    <3>2. \A q \in Reactors : ~Closing(q, idx)
      BY <3>1 DEF LoopInv, Closing
    <3> QED BY <1>0, <3>1, <3>2 DEF RegistryInv, TypeOK
  <2>2. \A fd \in Fds : fdToReactor[fd] # NoReactor =>
            /\ fdToReactor[fd] \in Reactors
            /\ fd # MainFd /\ fdOpen'[fd] = fdOpen[fd]
            /\ ~InHand(fdOpen[fd])
    BY <2>1 DEF TypeOK, RegistryInv, InHand, DescriptorInv
  <2> QED BY <1>0, <2>2 DEF RegistryInv, Closing
<1>8. BatchInv'
  BY DEF BatchInv, WatchedIsComplete, MainInv
<1> QED BY <1>1, <1>2, <1>3, <1>4, <1>5, <1>6, <1>7, <1>8

(* Leaving the task queue changes no table. *)
LEMMA EndDrainStep ==
  ASSUME IInv, NEW r \in Reactors, EndDrain(r)
  PROVE  IInv'
<1> USE DEF IInv, EndDrain, mainVars, kernelVars, objectVars, tableVars
<1>1. /\ TypeOK'
      /\ AcceptedInv'
      /\ DescriptorInv'
      /\ LiveInv'
      /\ WatchedIsComplete'
      /\ MainInv'
      /\ LoopInv'
      /\ MapInv'
      /\ RegistryInv'
      /\ BatchInv'
  BY DEF TypeOK, AcceptedInv, DescriptorInv, LiveInv, WatchedIsComplete,
     MainInv, LoopInv, MapInv, RegistryInv, BatchInv, LoopPcs, CleanupPcs,
     Closing, InHand, MainFd, MainOwner
<1> QED BY <1>1

(* Every reported event is of a watched connection, one for each. *)
LEMMA EpollWaitStep ==
  ASSUME IInv, NEW r \in Reactors, EpollWait(r)
  PROVE  IInv'
<1> USE DEF IInv, EpollWait, mainVars, kernelVars, objectVars, tableVars
<1>a. PICK B \in SUBSET Ready(r) :
         batch' = [batch EXCEPT ![r] = {EventOf(c) : c \in B}]
  OBVIOUS
<1>0. B \subseteq epoll[r] /\ B \subseteq Conns
  BY DEF Ready, TypeOK
<1>b. ASSUME NEW c \in B PROVE EventOf(c) \in Events
  <2>1. connFd[c] \in Fds
    BY <1>0, NoneIsNoConn
       DEF WatchedIsComplete, AcceptedInv, LiveInv, TypeOK, Conns
  <2> QED BY <2>1, <1>0 DEF EventOf, Events
<1>1. /\ AcceptedInv'
      /\ DescriptorInv'
      /\ LiveInv'
      /\ WatchedIsComplete'
      /\ MainInv'
      /\ LoopInv'
      /\ MapInv'
      /\ RegistryInv'
  BY DEF AcceptedInv, DescriptorInv, LiveInv, WatchedIsComplete, MainInv,
     LoopInv, MapInv, RegistryInv, CleanupPcs, Closing, InHand, MainFd,
     MainOwner
<1>2. TypeOK'
  <2>1. {EventOf(c) : c \in B} \subseteq Events
    BY <1>b
  <2>2. batch' \in [Reactors -> SUBSET Events]
    <3> HIDE DEF EpollWait
    <3> QED BY <1>a, <2>1 DEF TypeOK
  <2>3. rpc' \in [Reactors -> LoopPcs]
    BY DEF TypeOK, LoopPcs
  <2> QED BY <2>2, <2>3 DEF TypeOK
<1>3. BatchInv'
  BY <1>a, <1>0 DEF BatchInv, TypeOK, EventOf
<1> QED BY <1>1, <1>2, <1>3

(* The answer changes no table. *)
LEMMA AiReplyStep ==
  ASSUME IInv, NEW r \in Reactors, AiReply(r)
  PROVE  IInv'
<1> USE DEF IInv, AiReply, mainVars, kernelVars, objectVars, tableVars
<1>1. /\ TypeOK'
      /\ AcceptedInv'
      /\ DescriptorInv'
      /\ LiveInv'
      /\ WatchedIsComplete'
      /\ MainInv'
      /\ MapInv'
      /\ RegistryInv'
      /\ BatchInv'
  BY DEF TypeOK, AcceptedInv, DescriptorInv, LiveInv, WatchedIsComplete,
     MainInv, MapInv, RegistryInv, BatchInv, LoopPcs, CleanupPcs, Closing,
     InHand, MainFd, MainOwner
<1>2. LoopInv'
  BY DEF LoopInv, TypeOK, CleanupPcs, InHand
<1> QED BY <1>1, <1>2

(* The map entry removed is of the connection being torn down. *)
LEMMA RemoveFromMapStep ==
  ASSUME IInv, NEW r \in Reactors, RemoveFromMap(r)
  PROVE  IInv'
<1> USE DEF IInv, RemoveFromMap, mainVars, kernelVars, objectVars
<1>0. /\ \A q \in Reactors : \A c \in epoll[q] : connFd[c] # cur[r].fd
      /\ mainPc # "accept" => MainFd # cur[r].fd
  BY ClosingFacts DEF CleanupPcs
<1>1. /\ AcceptedInv'
      /\ DescriptorInv'
      /\ LiveInv'
      /\ RegistryInv'
      /\ BatchInv'
  BY DEF AcceptedInv, DescriptorInv, LiveInv, RegistryInv, BatchInv,
     CleanupPcs, Closing, InHand
<1>2. TypeOK'
  BY DEF TypeOK, LoopInv, CleanupPcs, LoopPcs
<1>3. WatchedIsComplete'
  BY <1>0, OwnerIsReactor DEF TypeOK, WatchedIsComplete, InHand
<1>4. MainInv'
  BY <1>0 DEF TypeOK, MainInv, MainFd, MainOwner
<1>5. LoopInv'
  BY DEF LoopInv, TypeOK, CleanupPcs, InHand
<1>6. MapInv'
  BY DEF MapInv, TypeOK, DescriptorInv, LoopInv, Closing, InHand
<1> QED BY <1>1, <1>2, <1>3, <1>4, <1>5, <1>6

(* The registry entry removed is of the connection being torn down. *)
LEMMA UnregisterFdStep ==
  ASSUME IInv, NEW r \in Reactors, UnregisterFd(r)
  PROVE  IInv'
<1> USE DEF IInv, UnregisterFd, mainVars, kernelVars, objectVars
<1>0. /\ \A q \in Reactors : \A c \in epoll[q] : connFd[c] # cur[r].fd
      /\ mainPc # "accept" => MainFd # cur[r].fd
  BY ClosingFacts DEF CleanupPcs
<1>1. /\ AcceptedInv'
      /\ DescriptorInv'
      /\ LiveInv'
      /\ MapInv'
      /\ BatchInv'
  BY DEF AcceptedInv, DescriptorInv, LiveInv, MapInv, BatchInv, CleanupPcs,
     Closing, InHand
<1>2. TypeOK'
  BY DEF TypeOK, LoopInv, CleanupPcs, LoopPcs
<1>3. WatchedIsComplete'
  BY <1>0, OwnerIsReactor DEF TypeOK, WatchedIsComplete, InHand
<1>4. MainInv'
  BY <1>0 DEF TypeOK, MainInv, MainFd, MainOwner
<1>5. LoopInv'
  BY DEF LoopInv, TypeOK, CleanupPcs, InHand
<1>6. RegistryInv'
  BY DEF RegistryInv, TypeOK, DescriptorInv, LoopInv, Closing, InHand
<1> QED BY <1>1, <1>2, <1>3, <1>4, <1>5, <1>6

(* The Socket freed is in no table. *)
LEMMA DeleteSocketStep ==
  ASSUME IInv, NEW r \in Reactors, DeleteSocket(r)
  PROVE  IInv'
<1> USE DEF IInv, DeleteSocket, mainVars, kernelVars, tableVars
<1>1. /\ DescriptorInv'
      /\ LiveInv'
      /\ MapInv'
      /\ RegistryInv'
      /\ BatchInv'
  BY DEF DescriptorInv, LiveInv, MapInv, RegistryInv, BatchInv, CleanupPcs,
     Closing, InHand
<1>2. TypeOK'
  BY DEF TypeOK, LoopInv, CleanupPcs, LoopPcs
<1>3. AcceptedInv'
  BY OwnerIsReactor DEF AcceptedInv, LiveInv, WatchedIsComplete, LoopInv,
     MapInv, BatchInv, CleanupPcs
<1>4. WatchedIsComplete'
  BY DEF WatchedIsComplete, LoopInv, CleanupPcs, InHand
<1>5. MainInv'
  BY DEF MainInv, LoopInv, CleanupPcs, InHand, MainFd, MainOwner
<1>6. LoopInv'
  BY DEF LoopInv, TypeOK, CleanupPcs, InHand
<1> QED BY <1>1, <1>2, <1>3, <1>4, <1>5, <1>6

(* No table names the descriptor when it is closed. *)
LEMMA CloseFdStep ==
  ASSUME IInv, NEW r \in Reactors, CloseFd(r)
  PROVE  IInv'
<1> USE DEF IInv, CloseFd, CloseDescriptor, mainVars, objectVars, tableVars
<1>1. AcceptedInv' /\ WatchedIsComplete'
  BY DEF AcceptedInv, WatchedIsComplete, InHand
<1>2. TypeOK'
  BY DEF TypeOK, LoopInv, CleanupPcs, LoopPcs
<1>3. DescriptorInv'
  BY OwnerIsReactor DEF DescriptorInv, TypeOK, LoopInv, CleanupPcs, Closing,
     InHand
<1>4. LiveInv'
  BY DEF LiveInv, LoopInv, CleanupPcs
<1>5. MainInv'
  BY DEF MainInv, LoopInv, CleanupPcs, InHand, MainFd, MainOwner
<1>6. LoopInv'
  BY DEF LoopInv, TypeOK, WatchedIsComplete, CleanupPcs, InHand
<1>7. MapInv'
  BY DEF MapInv, LoopInv, CleanupPcs, Closing, InHand
<1>8. RegistryInv'
  BY DEF RegistryInv, TypeOK, LoopInv, CleanupPcs, Closing, InHand
<1>9. BatchInv'
  BY DEF BatchInv, WatchedIsComplete, LoopInv, CleanupPcs
<1> QED BY <1>1, <1>2, <1>3, <1>4, <1>5, <1>6, <1>7, <1>8, <1>9

(* The connection leaves the epoll set of its own reactor. *)
LEMMA BeginCleanupStep ==
  ASSUME IInv, NEW r \in Reactors, NEW ev \in batch[r],
         rpc[r] = "events", batch' = [batch EXCEPT ![r] = @ \ {ev}],
         BeginCleanup(r, ev, ev.conn),
         UNCHANGED <<mainVars, peer, sent, connFd, heap, tableVars>>
  PROVE  IInv'
<1> USE DEF IInv, BeginCleanup, mainVars, tableVars
<1>1. /\ TypeOK'
      /\ AcceptedInv'
      /\ LiveInv'
      /\ WatchedIsComplete'
      /\ MainInv'
  BY DEF TypeOK, AcceptedInv, LiveInv, WatchedIsComplete, MainInv, Events,
     LoopPcs, InHand, MainFd, MainOwner
<1>2. DescriptorInv'
  BY DEF DescriptorInv, TypeOK, WatchedIsComplete, BatchInv, CleanupPcs,
     Closing, InHand
<1>3. LoopInv'
  BY DEF LoopInv, TypeOK, WatchedIsComplete, BatchInv, Events, InHand
<1>4. MapInv'
  BY DEF MapInv, TypeOK, WatchedIsComplete, BatchInv, CleanupPcs, Closing,
     Events, InHand
<1>5. RegistryInv'
  BY DEF RegistryInv, TypeOK, WatchedIsComplete, BatchInv, CleanupPcs,
     Closing, InHand
<1>6. BatchInv'
  BY DEF BatchInv, TypeOK, WatchedIsComplete, Events
<1> QED BY <1>1, <1>2, <1>3, <1>4, <1>5, <1>6

(* Reading may mark the connection deleted, never forget it. *)
LEMMA OnReadsStep ==
  ASSUME IInv, NEW r \in Reactors, NEW ev \in batch[r],
         rpc[r] = "events", batch' = [batch EXCEPT ![r] = @ \ {ev}],
         OnReads(r, ev, ev.conn),
         UNCHANGED <<mainVars, peer, sent, connFd, heap, tableVars>>
  PROVE  IInv'
<1> USE DEF IInv, OnReads, AfterEvent, OnRead, mainVars, tableVars
<1>0. ev.fd \in Fds /\ ev.conn \in Conns /\ ev.conn \in epoll[r]
      /\ connFd[ev.conn] = ev.fd
  BY EventFacts
<1>a. \A q \in Reactors, c \in Conns : Closing(q, c)' <=> Closing(q, c)
  BY DEF TypeOK, Closing, CleanupPcs
<1>b. \A c \in Conns : connected[c] \/ deleted[c] => connected'[c] \/ deleted'[c]
  BY DEF TypeOK
<1>c. \A q \in Reactors, c \in Conns : Closing(q, c) => rpc'[q] = rpc[q]
  BY DEF TypeOK, Closing, CleanupPcs
<1>1. AcceptedInv' /\ LiveInv' /\ BatchInv'
  BY DEF AcceptedInv, LiveInv, BatchInv
<1>2. TypeOK'
  <2>1. inbox' \in [Conns -> Seq(Inputs)]
    <3>1. <<>> \in Seq(Inputs)
      OBVIOUS
    <3> QED BY <3>1 DEF TypeOK
  <2>2. connected' \in [Conns -> BOOLEAN] /\ deleted' \in [Conns -> BOOLEAN]
    BY DEF TypeOK
  <2>3. rpc' \in [Reactors -> LoopPcs]
    BY DEF TypeOK, LoopPcs
  <2>4. cur' \in [Reactors -> [fd : Fds, s : Conns] \cup {NoCur}]
    <3>1. [fd |-> ev.fd, s |-> ev.conn] \in [fd : Fds, s : Conns]
      BY <1>0
    <3> QED BY <3>1 DEF TypeOK
  <2>5. batch' \in [Reactors -> SUBSET Events]
    BY DEF TypeOK
  <2> QED BY <2>1, <2>2, <2>3, <2>4, <2>5 DEF TypeOK
<1>3. DescriptorInv'
  BY <1>a, OwnerIsReactor DEF TypeOK, DescriptorInv, InHand
<1>4. WatchedIsComplete'
  BY <1>b DEF WatchedIsComplete, TypeOK, InHand
<1>5. MainInv'
  BY DEF MainInv, TypeOK, WatchedIsComplete, BatchInv, InHand, MainFd,
     MainOwner
<1>6. LoopInv'
  <2>1. ASSUME NEW q \in Reactors, rpc'[q] \in CleanupPcs
        PROVE  rpc'[q] = rpc[q] /\ cur'[q] = cur[q]
    BY <2>1 DEF TypeOK, CleanupPcs
  <2>2. ASSUME NEW q \in Reactors, rpc'[q] = "ai"
        PROVE  cur'[q].s \in epoll[q] /\ cur'[q].fd = connFd[cur'[q].s]
    BY <1>0, <2>2 DEF TypeOK, LoopInv
  <2> QED BY <2>1, <2>2 DEF LoopInv, InHand
<1>7. MapInv'
  BY <1>a, <1>c DEF TypeOK, MapInv, InHand
<1>8. RegistryInv'
  <2>1. ASSUME NEW fd \in Fds, fdToReactor[fd] # NoReactor
        PROVE  /\ fdToReactor[fd] \in Reactors
               /\ fdOpen[fd] \in Conns
               /\ Owner(fdOpen[fd]) = fdToReactor[fd]
    BY <2>1 DEF TypeOK, RegistryInv
  <2> QED BY <2>1, <1>a, <1>c DEF RegistryInv, InHand
<1> QED BY <1>1, <1>2, <1>3, <1>4, <1>5, <1>6, <1>7, <1>8

(* Data arriving changes no table. *)
LEMMA ClientSendStep ==
  ASSUME IInv, NEW c \in Conns, ClientSend(c)
  PROVE  IInv'
<1> USE DEF IInv, ClientSend, mainVars, objectVars, tableVars, loopVars
<1>1. /\ AcceptedInv'
      /\ DescriptorInv'
      /\ LiveInv'
      /\ WatchedIsComplete'
      /\ MainInv'
      /\ LoopInv'
      /\ MapInv'
      /\ RegistryInv'
      /\ BatchInv'
  BY DEF AcceptedInv, DescriptorInv, LiveInv, WatchedIsComplete, MainInv,
     LoopInv, MapInv, RegistryInv, BatchInv, Closing, InHand, MainFd,
     MainOwner
<1>2. TypeOK'
  BY ReactorAssumption DEF TypeOK
<1> QED BY <1>1, <1>2

(* A client going away changes no table. *)
LEMMA ClientCloseStep ==
  ASSUME IInv, NEW c \in Conns, ClientClose(c)
  PROVE  IInv'
<1> USE DEF IInv, ClientClose, mainVars, objectVars, tableVars, loopVars
<1>1. /\ TypeOK'
      /\ AcceptedInv'
      /\ DescriptorInv'
      /\ LiveInv'
      /\ WatchedIsComplete'
      /\ MainInv'
      /\ LoopInv'
      /\ MapInv'
      /\ RegistryInv'
      /\ BatchInv'
  BY DEF TypeOK, AcceptedInv, DescriptorInv, LiveInv, WatchedIsComplete,
     MainInv, LoopInv, MapInv, RegistryInv, BatchInv, Closing, InHand,
     MainFd, MainOwner
<1> QED BY <1>1

-----------------------------------------------------------------------------
(* run_loop finds a Socket for every event. *)
LEMMA HandleEventStep ==
  ASSUME IInv, NEW r \in Reactors, NEW ev \in batch[r], HandleEvent(r, ev)
  PROVE  IInv'
<1>1. socketMap[r][ev.fd] = ev.conn /\ ev.conn # None
  BY EventFacts
<1>2. BeginCleanup(r, ev, ev.conn) \/ OnReads(r, ev, ev.conn)
  BY <1>1 DEF HandleEvent
<1> QED BY <1>2, BeginCleanupStep, OnReadsStep DEF HandleEvent

(* A step that changes nothing. *)
LEMMA StutterStep ==
  ASSUME IInv, UNCHANGED reactorVars
  PROVE  IInv'
<1> USE DEF reactorVars, mainVars, kernelVars, objectVars, tableVars, loopVars
<1>1. /\ TypeOK' /\ AcceptedInv' /\ DescriptorInv' /\ LiveInv'
      /\ WatchedIsComplete'
  BY DEF IInv, TypeOK, AcceptedInv, DescriptorInv, LiveInv, WatchedIsComplete,
         InHand, Closing
<1>2. /\ MainInv' /\ LoopInv' /\ MapInv' /\ RegistryInv' /\ BatchInv'
  BY DEF IInv, MainInv, MainFd, MainOwner, LoopInv, MapInv, RegistryInv,
         BatchInv, InHand, Closing
<1> QED BY <1>1, <1>2 DEF IInv

(* Every step keeps the invariant. *)
LEMMA NextKeepsInv ==
  ASSUME IInv, [ReactorNext]_reactorVars
  PROVE  IInv'
<1>1. CASE \E fd \in Fds : Accept(fd)
  BY <1>1, AcceptStep
<1>2. CASE AddClient
  BY <1>2, AddToMapStep, OnConnectStep, RegisterFdStep, EpollAddStep,
     EpollAddFailsStep, FailUnregisterStep, FailDeleteStep, FailRemoveStep,
     FailCloseStep DEF AddClient
<1>3. ASSUME NEW r \in Reactors, Loop(r) PROVE IInv'
  <2>1. CASE EndDrain(r) \/ EpollWait(r)
    BY <2>1, EndDrainStep, EpollWaitStep
  <2>2. CASE Cleanup(r)
    BY <2>2, RemoveFromMapStep, UnregisterFdStep, DeleteSocketStep, CloseFdStep
       DEF Cleanup
  <2>3. CASE \E ev \in batch[r] : HandleEvent(r, ev)
    BY <2>3, HandleEventStep
  <2> QED BY <1>3, <2>1, <2>2, <2>3 DEF Loop
<1>4. CASE \E r \in Reactors : AiReply(r)
  BY <1>4, AiReplyStep
<1>5. CASE \E c \in Conns : ClientSend(c) \/ ClientClose(c)
  BY <1>5, ClientSendStep, ClientCloseStep
<1>6. CASE UNCHANGED reactorVars
  BY <1>6, StutterStep
<1> QED BY <1>1, <1>2, <1>3, <1>4, <1>5, <1>6 DEF ReactorNext

-----------------------------------------------------------------------------
(* The four tables agree in every reachable state, for any number of event  *)
(* loops, connections and descriptors.                                      *)
THEOREM InvariantHolds == ReactorSpec => []IInv
<1>1. ReactorInit => IInv
  BY InitIsInv
<1>2. IInv /\ [ReactorNext]_reactorVars => IInv'
  BY NextKeepsInv
<1> QED BY <1>1, <1>2, PTL DEF ReactorSpec

(* Every variable keeps its type. *)
THEOREM TypeCorrect == ReactorSpec => []TypeOK
<1>1. IInv => TypeOK
  BY DEF IInv
<1> QED BY <1>1, InvariantHolds, PTL

(* A connection the event loop reads from is completely set up. *)
THEOREM WatchedAlwaysComplete == ReactorSpec => []WatchedIsComplete
<1>1. IInv => WatchedIsComplete
  BY DEF IInv
<1> QED BY <1>1, InvariantHolds, PTL

(* A registry entry is of one of three kinds, and each is safe. *)
LEMMA InvImpliesRouting == IInv => RoutingSafe
<1> SUFFICES ASSUME IInv, NEW fd \in Fds, fdToReactor[fd] # NoReactor
             PROVE  LET c == fdOpen[fd] IN
                    /\ c # None
                    /\ heap[c] = "live"
                    /\ Owner(c) = fdToReactor[fd]
  BY DEF RoutingSafe
<1> DEFINE c == fdOpen[fd]
           r == fdToReactor[fd]
<1>1. r \in Reactors /\ c # None /\ Owner(c) = r
  BY DEF IInv, TypeOK, RegistryInv
<1>2. CASE c \in epoll[r]
  BY <1>1, <1>2 DEF IInv, WatchedIsComplete
<1>3. CASE InHand(c) /\ mainPc \in {"epoll", "failUnregister"}
  BY <1>1, <1>3 DEF IInv, MainInv, InHand
<1>4. CASE Closing(r, c) /\ rpc[r] \in {"remove", "unregister"}
  BY <1>1, <1>4 DEF IInv, LoopInv, Closing, CleanupPcs
<1> QED BY <1>1, <1>2, <1>3, <1>4 DEF IInv, RegistryInv

(* The registry names only live connections of the reactor it gives, though *)
(* three threads use it and descriptors are reused.                         *)
THEOREM RoutingAlwaysSafe == ReactorSpec => []RoutingSafe
BY InvImpliesRouting, InvariantHolds, PTL

(* A map entry is of one of three kinds, and each is current. *)
LEMMA InvImpliesMapIsCurrent == IInv => MapIsCurrent
<1> SUFFICES ASSUME IInv, NEW r \in Reactors, NEW fd \in Fds,
                    socketMap[r][fd] # None
             PROVE  LET c == socketMap[r][fd] IN
                    /\ fdOpen[fd] = c
                    /\ Owner(c) = r
                    /\ heap[c] = "live" \/ (c = idx /\ mainPc = "failRemove")
  BY DEF MapIsCurrent
<1> DEFINE c == socketMap[r][fd]
<1>1. fdOpen[fd] = c /\ Owner(c) = r
  BY DEF IInv, MapInv
<1>2. CASE c \in epoll[r]
  BY <1>1, <1>2 DEF IInv, WatchedIsComplete
<1>3. CASE InHand(c) /\ mainPc \notin {"add", "failClose"}
  BY <1>1, <1>3 DEF IInv, MainInv, InHand
<1>4. CASE Closing(r, c) /\ rpc[r] = "remove"
  BY <1>1, <1>4 DEF IInv, LoopInv, Closing, CleanupPcs
<1> QED BY <1>1, <1>2, <1>3, <1>4 DEF IInv, MapInv

(* A reactor's map names the connection that now holds the descriptor, and  *)
(* its Socket is alive outside the one window of add_client's failure path. *)
THEOREM MapAlwaysCurrent == ReactorSpec => []MapIsCurrent
BY InvImpliesMapIsCurrent, InvariantHolds, PTL

(* Whatever was closed and accepted since epoll_wait returned, an event is  *)
(* handled by the Socket of the connection that raised it.                  *)
THEOREM EventAlwaysReachesItsSocket == ReactorSpec => []EventReachesItsSocket
<1>1. IInv => EventReachesItsSocket
  <2> SUFFICES ASSUME IInv, NEW r \in Reactors, NEW ev \in batch[r]
               PROVE  /\ socketMap[r][ev.fd] = ev.conn
                      /\ fdOpen[ev.fd] = ev.conn
                      /\ heap[ev.conn] = "live"
    BY DEF EventReachesItsSocket
  <2> QED BY EventFacts DEF IInv, WatchedIsComplete
<1> QED BY <1>1, InvariantHolds, PTL

(* A Socket is freed once, by the thread that holds it, and each thread     *)
(* closes the descriptor of the connection it is tearing down.              *)
THEOREM HandlerAlwaysOwnsItsSocket == ReactorSpec => []HandlerOwnsItsSocket
<1>1. IInv => HandlerOwnsItsSocket
  <2> SUFFICES ASSUME IInv PROVE HandlerOwnsItsSocket
    OBVIOUS
  <2>1. ASSUME NEW r \in Reactors, rpc[r] \in CleanupPcs \cup {"ai"}
        PROVE  /\ fdOpen[cur[r].fd] = cur[r].s
               /\ connFd[cur[r].s] = cur[r].fd
               /\ heap[cur[r].s] = IF rpc[r] = "close" THEN "freed" ELSE "live"
    <3>1. CASE rpc[r] = "ai"
      BY <3>1 DEF IInv, LoopInv, WatchedIsComplete
    <3>2. CASE rpc[r] \in CleanupPcs
      BY <3>2 DEF IInv, LoopInv
    <3> QED BY <2>1, <3>1, <3>2
  <2> QED BY <2>1 DEF IInv, MainInv, HandlerOwnsItsSocket
<1> QED BY <1>1, InvariantHolds, PTL

(* No connection is forgotten: an open descriptor or a live Socket is       *)
(* watched or in the hand of a thread that will pass it on or close it.     *)
THEOREM NothingIsLost == ReactorSpec => []NothingLost
<1>1. IInv => NothingLost
  <2> SUFFICES ASSUME IInv, NEW c \in Conns,
                      \/ connFd[c] \in Fds /\ fdOpen[connFd[c]] = c
                      \/ heap[c] = "live"
               PROVE  /\ connFd[c] \in Fds /\ fdOpen[connFd[c]] = c
                      /\ \/ c \in epoll[Owner(c)]
                         \/ InHand(c) \/ Closing(Owner(c), c)
    BY DEF NothingLost
  <2>1. connFd[c] \in Fds /\ fdOpen[connFd[c]] = c
    BY DEF IInv, AcceptedInv, LiveInv
  <2> QED BY <2>1, NoneIsNoConn DEF IInv, DescriptorInv
<1> QED BY <1>1, InvariantHolds, PTL

-----------------------------------------------------------------------------
(* Only onreads takes commands off a connection, and only off the one whose *)
(* event it handles.                                                        *)
LEMMA ReadStep ==
  ASSUME IInv, ReactorNext, NEW c \in Conns, inbox[c] # <<>>, inbox'[c] = <<>>
  PROVE  /\ connected[c] /\ heap[c] = "live"
         /\ fdToReactor[connFd[c]] = Owner(c)
<1> USE DEF mainVars, kernelVars, objectVars, tableVars, loopVars
<1>1. CASE \/ \E fd \in Fds : Accept(fd)
           \/ AddClient
           \/ \E r \in Reactors : EndDrain(r) \/ EpollWait(r) \/ Cleanup(r)
           \/ \E r \in Reactors : AiReply(r)
           \/ \E d \in Conns : ClientClose(d)
  <2>1. inbox' = inbox
    BY <1>1 DEF Accept, AddClient, AddToMap, OnConnect, RegisterFd, EpollAdd,
       EpollAddFails, FailUnregister, FailDelete, FailRemove, FailClose,
       EndDrain, EpollWait, Cleanup, RemoveFromMap, UnregisterFd,
       DeleteSocket, CloseFd, AiReply, ClientClose
  <2> QED BY <2>1
<1>2. CASE \E d \in Conns : ClientSend(d)
  <2>1. PICK d \in Conns, m \in Inputs :
            inbox' = [inbox EXCEPT ![d] = Append(@, m)]
    BY <1>2 DEF ClientSend
  <2>2. inbox[d] \in Seq(Inputs)
    BY DEF IInv, TypeOK
  <2>3. Append(inbox[d], m) # <<>>
    BY <2>2
  <2> QED BY <2>1, <2>3 DEF IInv, TypeOK
<1>3. ASSUME NEW r \in Reactors, NEW ev \in batch[r], HandleEvent(r, ev)
      PROVE  /\ connected[c] /\ heap[c] = "live"
             /\ fdToReactor[connFd[c]] = Owner(c)
  <2>1. /\ socketMap[r][ev.fd] = ev.conn /\ ev.conn # None
        /\ fdOpen[ev.fd] = ev.conn
        /\ ev.conn \in Conns /\ ev.conn \in epoll[r]
    BY EventFacts
  <2>2. OnReads(r, ev, ev.conn)
    BY <1>3, <2>1 DEF HandleEvent, BeginCleanup
  <2>3. c = ev.conn /\ ~deleted[c]
    BY <2>1, <2>2 DEF OnReads, IInv, TypeOK
  <2> QED BY <2>1, <2>3 DEF IInv, WatchedIsComplete
<1> QED BY <1>1, <1>2, <1>3 DEF ReactorNext, Loop

(* Commands are taken only off a connection that is connected, alive and    *)
(* registered, so that a reply can be routed to it.                         *)
THEOREM ReadsAreRoutable == ReactorSpec => ReadsOnlyAddedConnections
<1>1. IInv /\ [ReactorNext]_reactorVars =>
        [\A c \in Conns : inbox[c] # <<>> /\ inbox'[c] = <<>> =>
            /\ connected[c] /\ heap[c] = "live"
            /\ fdToReactor[connFd[c]] = Owner(c)]_reactorVars
  BY ReadStep
<1> QED BY <1>1, InvariantHolds, PTL DEF ReactorSpec, ReadsOnlyAddedConnections
=============================================================================
