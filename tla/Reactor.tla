------------------------------ MODULE Reactor ------------------------------
(***************************************************************************)
(* The life of a connection: MainReactor's accept loop hands it to a       *)
(* SubReactor (add_client), whose event loop (run_loop) reads from it and  *)
(* tears it down.                                                          *)
(*                                                                         *)
(* Four tables describe one connection and are updated by two threads, one *)
(* at a time and without a common lock: the kernel's descriptor table, the *)
(* kernel's epoll set, SocketManager::socket_map_ and                      *)
(* MatchManager::fdToReactor_.  Descriptor numbers are reused as soon as   *)
(* they are closed, so each table can name the wrong connection.           *)
(*                                                                         *)
(* A connection is the number of its accept().  The Socket object made for *)
(* it is named by the same number: a Socket* is an element of Conns.       *)
(***************************************************************************)
EXTENDS Integers, Sequences, FiniteSets, FiniteSetsExt

CONSTANTS
    NReactors,   \* cpu_cnt_: one SubReactor per processor
    Fds,         \* descriptor numbers accept() may return
    NoFd,        \* not a descriptor
    Inputs,      \* commands a client may send, named by their first byte
    MaxEvents,   \* size of the array given to epoll_wait (128 in the code)
    MaxConns,    \* bound: accepted connections
    MaxInputs,   \* bound: commands sent by all clients together
    MaxEnding    \* bound: connections that close, fail or start out deleted

ASSUME ReactorAssumption ==
    /\ NReactors \in Nat \ {0}
    /\ MaxEvents \in Nat \ {0}
    /\ MaxConns \in Nat
    /\ MaxInputs \in Nat
    /\ MaxEnding \in Nat
    /\ NoFd \notin Fds

None      == 0                      \* no connection, the null Socket*
Conns     == 1 .. MaxConns
Reactors  == 0 .. NReactors - 1
NoReactor == -1                     \* an absent entry of fdToReactor_

(* Mutant of Owner: the index is not reduced modulo the number of reactors. *)
OwnerUnreduced(c) == c - 1

(* reactors_[idx % cpu_cnt_], idx counting from 0: connection c is accepted *)
(* with idx = c - 1.                                                        *)
Owner(c) == (c - 1) % NReactors

VARIABLES
    idx,          \* MainReactor::start: connections accepted so far
    mainPc,       \* where the accepting thread is
    \* kernel and clients
    fdOpen,       \* descriptor -> open connection, or None
    epoll,        \* reactor -> connections its epoll instance watches
    peer,         \* connection -> client's end: "none", "open", "closed"
    inbox,        \* connection -> commands received and not yet read
    sent,         \* number of commands clients have sent (for the bound)
    \* Socket objects
    connFd,       \* Socket::m_fd
    heap,         \* Socket object: "none", "live", "freed"
    connected,    \* Socket::m_connected
    deleted,      \* Socket::m_deleted
    \* tables
    socketMap,    \* reactor -> SocketManager::socket_map_
    fdToReactor,  \* MatchManager::fdToReactor_
    \* event loops
    rpc,          \* reactor -> where its thread is
    batch,        \* reactor -> events of the last epoll_wait still to handle
    cur           \* reactor -> [fd, s] of the event being handled

mainVars    == <<idx, mainPc>>
kernelVars  == <<fdOpen, epoll, peer, inbox, sent>>
objectVars  == <<connFd, heap, connected, deleted>>
tableVars   == <<socketMap, fdToReactor>>
loopVars    == <<rpc, batch, cur>>
reactorVars == <<mainVars, kernelVars, objectVars, tableVars, loopVars>>

MainPcs == {"accept", "add", "connect", "register", "epoll",
            "failUnregister", "failDelete", "failRemove", "failClose"}
LoopPcs == {"drain", "wait", "events", "ai",
            "remove", "unregister", "delete", "close"}

(* An event of epoll_wait.  The code sees fd and hup; conn is the open      *)
(* connection the kernel reported, kept to state what should be handled.    *)
Events == [fd : Fds, conn : Conns, hup : BOOLEAN]

NoCur == [fd |-> NoFd, s |-> None]

TypeOK ==
    /\ idx \in 0 .. MaxConns
    /\ mainPc \in MainPcs
    /\ fdOpen \in [Fds -> Conns \cup {None}]
    /\ epoll \in [Reactors -> SUBSET Conns]
    /\ peer \in [Conns -> {"none", "open", "closed"}]
    /\ inbox \in [Conns -> Seq(Inputs)]
    /\ sent \in 0 .. MaxInputs
    /\ connFd \in [Conns -> Fds \cup {NoFd}]
    /\ heap \in [Conns -> {"none", "live", "freed"}]
    /\ connected \in [Conns -> BOOLEAN]
    /\ deleted \in [Conns -> BOOLEAN]
    /\ socketMap \in [Reactors -> [Fds -> Conns \cup {None}]]
    /\ fdToReactor \in [Fds -> Reactors \cup {NoReactor}]
    /\ rpc \in [Reactors -> LoopPcs]
    /\ batch \in [Reactors -> SUBSET Events]
    /\ cur \in [Reactors -> [fd : Fds, s : Conns] \cup {NoCur}]

ReactorInit ==
    /\ idx = 0
    /\ mainPc = "accept"
    /\ fdOpen = [f \in Fds |-> None]
    /\ epoll = [r \in Reactors |-> {}]
    /\ peer = [c \in Conns |-> "none"]
    /\ inbox = [c \in Conns |-> <<>>]
    /\ sent = 0
    /\ connFd = [c \in Conns |-> NoFd]
    /\ heap = [c \in Conns |-> "none"]
    /\ connected = [c \in Conns |-> FALSE]
    /\ deleted = [c \in Conns |-> FALSE]
    /\ socketMap = [r \in Reactors |-> [f \in Fds |-> None]]
    /\ fdToReactor = [f \in Fds |-> NoReactor]
    /\ rpc = [r \in Reactors |-> "drain"]
    /\ batch = [r \in Reactors |-> {}]
    /\ cur = [r \in Reactors |-> NoCur]

-----------------------------------------------------------------------------
(* The kernel's part of close(fd): the descriptor becomes free and the      *)
(* connection leaves every epoll set.                                       *)
CloseDescriptor(fd) ==
    /\ fdOpen' = [fdOpen EXCEPT ![fd] = None]
    /\ epoll' = [r \in Reactors |-> epoll[r] \ {fdOpen[fd]}]

(* The connection the accepting thread has in hand, its descriptor and the  *)
(* reactor it is for.                                                       *)
MainFd    == connFd[idx]
MainOwner == Owner(idx)

(* The connections that are ending, and whether one more may (a bound). *)
Ending == {c \in Conns : peer[c] = "closed" \/ deleted[c] \/ heap[c] = "freed"}
MayEnd == Cardinality(Ending) < MaxEnding

-----------------------------------------------------------------------------
(* MainReactor::start and SubReactor::add_client, on the accepting thread. *)

(* accept() and new Socket.  m_deleted is not initialised by the            *)
(* constructor: it may hold either value.                                   *)
Accept(fd) ==
    /\ mainPc = "accept"
    /\ idx < MaxConns
    /\ fdOpen[fd] = None
    /\ idx' = idx + 1
    /\ mainPc' = "add"
    /\ fdOpen' = [fdOpen EXCEPT ![fd] = idx + 1]
    /\ peer' = [peer EXCEPT ![idx + 1] = "open"]
    /\ connFd' = [connFd EXCEPT ![idx + 1] = fd]
    /\ heap' = [heap EXCEPT ![idx + 1] = "live"]
    /\ \E d \in BOOLEAN :
          /\ d => MayEnd
          /\ deleted' = [deleted EXCEPT ![idx + 1] = d]
    /\ UNCHANGED <<epoll, inbox, sent, connected, tableVars, loopVars>>

AddToMap ==
    /\ mainPc = "add"
    /\ socketMap' = [socketMap EXCEPT ![MainOwner][MainFd] = idx]
    /\ mainPc' = "connect"
    /\ UNCHANGED <<idx, kernelVars, objectVars, fdToReactor, loopVars>>

(* Mutant of OnConnect: registerFd is forgotten. *)
OnConnectThenEpoll ==
    /\ mainPc = "connect"
    /\ connected' = [connected EXCEPT ![idx] = TRUE]
    /\ mainPc' = "epoll"
    /\ UNCHANGED <<idx, kernelVars, connFd, heap, deleted, tableVars, loopVars>>

OnConnect ==
    /\ mainPc = "connect"
    /\ connected' = [connected EXCEPT ![idx] = TRUE]
    /\ mainPc' = "register"
    /\ UNCHANGED <<idx, kernelVars, connFd, heap, deleted, tableVars, loopVars>>

RegisterFd ==
    /\ mainPc = "register"
    /\ fdToReactor' = [fdToReactor EXCEPT ![MainFd] = MainOwner]
    /\ mainPc' = "epoll"
    /\ UNCHANGED <<idx, kernelVars, objectVars, socketMap, loopVars>>

(* Mutant of EpollAdd: the index is read after it was advanced. *)
EpollAddElsewhere ==
    /\ mainPc = "epoll"
    /\ epoll' = [epoll EXCEPT ![Owner(idx + 1)] = @ \cup {idx}]
    /\ mainPc' = "accept"
    /\ UNCHANGED <<idx, fdOpen, peer, inbox, sent, objectVars, tableVars,
                   loopVars>>

EpollAdd ==
    /\ mainPc = "epoll"
    /\ epoll' = [epoll EXCEPT ![MainOwner] = @ \cup {idx}]
    /\ mainPc' = "accept"
    /\ UNCHANGED <<idx, fdOpen, peer, inbox, sent, objectVars, tableVars,
                   loopVars>>

(* epoll_ctl fails (ENOMEM, ENOSPC): the four undo steps, in their order.   *)
EpollAddFails ==
    /\ mainPc = "epoll"
    /\ MayEnd
    /\ mainPc' = "failUnregister"
    /\ UNCHANGED <<idx, kernelVars, objectVars, tableVars, loopVars>>

FailUnregister ==
    /\ mainPc = "failUnregister"
    /\ fdToReactor' = [fdToReactor EXCEPT ![MainFd] = NoReactor]
    /\ mainPc' = "failDelete"
    /\ UNCHANGED <<idx, kernelVars, objectVars, socketMap, loopVars>>

FailDelete ==
    /\ mainPc = "failDelete"
    /\ heap' = [heap EXCEPT ![idx] = "freed"]
    /\ mainPc' = "failRemove"
    /\ UNCHANGED <<idx, kernelVars, connFd, connected, deleted, tableVars,
                   loopVars>>

(* Mutant of FailRemove: the descriptor is not closed afterwards. *)
FailRemoveNoClose ==
    /\ mainPc = "failRemove"
    /\ socketMap' = [socketMap EXCEPT ![MainOwner][MainFd] = None]
    /\ mainPc' = "accept"
    /\ UNCHANGED <<idx, kernelVars, objectVars, fdToReactor, loopVars>>

FailRemove ==
    /\ mainPc = "failRemove"
    /\ socketMap' = [socketMap EXCEPT ![MainOwner][MainFd] = None]
    /\ mainPc' = "failClose"
    /\ UNCHANGED <<idx, kernelVars, objectVars, fdToReactor, loopVars>>

FailClose ==
    /\ mainPc = "failClose"
    /\ CloseDescriptor(MainFd)
    /\ mainPc' = "accept"
    /\ UNCHANGED <<idx, peer, inbox, sent, objectVars, tableVars, loopVars>>

AddClient ==
    \/ AddToMap \/ OnConnect \/ RegisterFd \/ EpollAdd \/ EpollAddFails
    \/ FailUnregister \/ FailDelete \/ FailRemove \/ FailClose

-----------------------------------------------------------------------------
(* SubReactor::run_loop, on the thread of reactor r. *)

(* drainMatchTasks found its queue empty. *)
EndDrain(r) ==
    /\ rpc[r] = "drain"
    /\ rpc' = [rpc EXCEPT ![r] = "wait"]
    /\ UNCHANGED <<mainVars, kernelVars, objectVars, tableVars, batch, cur>>

(* Mutants of Ready: EPOLLHUP, or EPOLLIN, is not asked for. *)
ReadyWithData(r) == {c \in epoll[r] : inbox[c] # <<>>}
ReadyWithHup(r)  == {c \in epoll[r] : peer[c] = "closed"}

(* Level triggered: a watched connection is ready while it has unread data  *)
(* or its client has gone.                                                  *)
Ready(r) == {c \in epoll[r] : inbox[c] # <<>> \/ peer[c] = "closed"}

EventOf(c) == [fd |-> connFd[c], conn |-> c, hup |-> peer[c] = "closed"]

(* epoll_wait: at most MaxEvents events, none on the 100 ms timeout.        *)
EpollWait(r) ==
    /\ rpc[r] = "wait"
    /\ \E B \in SUBSET Ready(r) :
          /\ Cardinality(B) <= MaxEvents
          /\ B # Ready(r) => Cardinality(B) = MaxEvents
          /\ batch' = [batch EXCEPT ![r] = {EventOf(c) : c \in B}]
          /\ rpc' = [rpc EXCEPT ![r] = IF B = {} THEN "drain" ELSE "events"]
    /\ UNCHANGED <<mainVars, kernelVars, objectVars, tableVars, cur>>

(* The loop's next stop once event ev of the batch is taken. *)
AfterEvent(r, ev) == IF batch[r] = {ev} THEN "drain" ELSE "events"

(* Mutant of BeginCleanup: the Socket is not removed from the map. *)
BeginCleanupInMap(r, ev, s) ==
    /\ deleted[s] \/ ev.hup
    /\ epoll' = [epoll EXCEPT ![r] = @ \ {fdOpen[ev.fd]}]
    /\ cur' = [cur EXCEPT ![r] = [fd |-> ev.fd, s |-> s]]
    /\ rpc' = [rpc EXCEPT ![r] = "unregister"]
    /\ UNCHANGED <<fdOpen, inbox, connected, deleted>>

(* The socket is marked deleted or the client has gone: the clean-up starts *)
(* with EPOLL_CTL_DEL.  Data the client sent before closing is not read.    *)
BeginCleanup(r, ev, s) ==
    /\ deleted[s] \/ ev.hup
    /\ epoll' = [epoll EXCEPT ![r] = @ \ {fdOpen[ev.fd]}]
    /\ cur' = [cur EXCEPT ![r] = [fd |-> ev.fd, s |-> s]]
    /\ rpc' = [rpc EXCEPT ![r] = "remove"]
    /\ UNCHANGED <<fdOpen, inbox, connected, deleted>>

(* OnRead, command '2': fewer than eight buffered bytes are kept; from eight *)
(* on the first byte '2' is not PROTO_MAGIC's and the frame is refused.      *)
OnRead(s) ==
    \/ UNCHANGED <<connected, deleted>>
    \/ /\ connected[s]
       /\ connected' = [connected EXCEPT ![s] = FALSE]
       /\ deleted' = [deleted EXCEPT ![s] = TRUE]

(* onreads: one recv takes everything that has arrived on the descriptor    *)
(* and only the first command is looked at.  '1' calls the AI service and   *)
(* waits for its answer.  The other commands leave these variables alone.   *)
Command(c) == IF inbox[c] = <<>> THEN "nothing" ELSE Head(inbox[c])

OnReads(r, ev, s) ==
    LET c == fdOpen[ev.fd] IN
    /\ ~deleted[s] /\ ~ev.hup
    /\ inbox' = [inbox EXCEPT ![c] = <<>>]
    /\ IF Command(c) = "frame"
       THEN OnRead(s)
       ELSE UNCHANGED <<connected, deleted>>
    /\ IF Command(c) = "chat"
       THEN /\ rpc' = [rpc EXCEPT ![r] = "ai"]
            /\ cur' = [cur EXCEPT ![r] = [fd |-> ev.fd, s |-> s]]
       ELSE /\ rpc' = [rpc EXCEPT ![r] = AfterEvent(r, ev)]
            /\ UNCHANGED cur
    /\ UNCHANGED <<fdOpen, epoll>>

(* No Socket for the descriptor: it is closed and the event dropped. *)
CloseUnknown(r, ev) ==
    /\ CloseDescriptor(ev.fd)
    /\ rpc' = [rpc EXCEPT ![r] = AfterEvent(r, ev)]
    /\ UNCHANGED <<inbox, connected, deleted, cur>>

HandleEvent(r, ev) ==
    /\ rpc[r] = "events"
    /\ batch' = [batch EXCEPT ![r] = @ \ {ev}]
    /\ LET s == socketMap[r][ev.fd] IN
       IF s = None
       THEN CloseUnknown(r, ev)
       ELSE BeginCleanup(r, ev, s) \/ OnReads(r, ev, s)
    /\ UNCHANGED <<mainVars, peer, sent, connFd, heap, tableVars>>

(* The AI service has answered, refused, or closed the connection. *)
AiReply(r) ==
    /\ rpc[r] = "ai"
    /\ rpc' = [rpc EXCEPT ![r] = IF batch[r] = {} THEN "drain" ELSE "events"]
    /\ cur' = [cur EXCEPT ![r] = NoCur]
    /\ UNCHANGED <<mainVars, kernelVars, objectVars, tableVars, batch>>

(* Mutant of RemoveFromMap: unregisterFd is forgotten. *)
RemoveThenDelete(r) ==
    /\ rpc[r] = "remove"
    /\ socketMap' = [socketMap EXCEPT ![r][cur[r].fd] = None]
    /\ rpc' = [rpc EXCEPT ![r] = "delete"]
    /\ UNCHANGED <<mainVars, kernelVars, objectVars, fdToReactor, batch, cur>>

RemoveFromMap(r) ==
    /\ rpc[r] = "remove"
    /\ socketMap' = [socketMap EXCEPT ![r][cur[r].fd] = None]
    /\ rpc' = [rpc EXCEPT ![r] = "unregister"]
    /\ UNCHANGED <<mainVars, kernelVars, objectVars, fdToReactor, batch, cur>>

(* Mutant of UnregisterFd: the descriptor is closed before the delete. *)
UnregisterAndClose(r) ==
    /\ rpc[r] = "unregister"
    /\ fdToReactor' = [fdToReactor EXCEPT ![cur[r].fd] = NoReactor]
    /\ CloseDescriptor(cur[r].fd)
    /\ rpc' = [rpc EXCEPT ![r] = "delete"]
    /\ UNCHANGED <<mainVars, peer, inbox, sent, objectVars, socketMap, batch, cur>>

UnregisterFd(r) ==
    /\ rpc[r] = "unregister"
    /\ fdToReactor' = [fdToReactor EXCEPT ![cur[r].fd] = NoReactor]
    /\ rpc' = [rpc EXCEPT ![r] = "delete"]
    /\ UNCHANGED <<mainVars, kernelVars, objectVars, socketMap, batch, cur>>

DeleteSocket(r) ==
    /\ rpc[r] = "delete"
    /\ heap' = [heap EXCEPT ![cur[r].s] = "freed"]
    /\ rpc' = [rpc EXCEPT ![r] = "close"]
    /\ UNCHANGED <<mainVars, kernelVars, connFd, connected, deleted, tableVars,
                   batch, cur>>

CloseFd(r) ==
    /\ rpc[r] = "close"
    /\ CloseDescriptor(cur[r].fd)
    /\ rpc' = [rpc EXCEPT ![r] = IF batch[r] = {} THEN "drain" ELSE "events"]
    /\ cur' = [cur EXCEPT ![r] = NoCur]
    /\ UNCHANGED <<mainVars, peer, inbox, sent, objectVars, tableVars, batch>>

Cleanup(r) ==
    RemoveFromMap(r) \/ UnregisterFd(r) \/ DeleteSocket(r) \/ CloseFd(r)

-----------------------------------------------------------------------------
(* Clients. *)

ClientSend(c) ==
    /\ peer[c] = "open"
    /\ sent < MaxInputs
    /\ sent' = sent + 1
    /\ \E m \in Inputs : inbox' = [inbox EXCEPT ![c] = Append(@, m)]
    /\ UNCHANGED <<mainVars, fdOpen, epoll, peer, objectVars, tableVars, loopVars>>

ClientClose(c) ==
    /\ peer[c] = "open"
    /\ MayEnd
    /\ peer' = [peer EXCEPT ![c] = "closed"]
    /\ UNCHANGED <<mainVars, fdOpen, epoll, inbox, sent, objectVars, tableVars,
                   loopVars>>

-----------------------------------------------------------------------------
Loop(r) ==
    \/ EndDrain(r) \/ EpollWait(r) \/ Cleanup(r)
    \/ \E ev \in batch[r] : HandleEvent(r, ev)

ReactorNext ==
    \/ \E fd \in Fds : Accept(fd)
    \/ AddClient
    \/ \E r \in Reactors : Loop(r) \/ AiReply(r)
    \/ \E c \in Conns : ClientSend(c) \/ ClientClose(c)

ReactorSpec == ReactorInit /\ [][ReactorNext]_reactorVars

(* Threads are scheduled: a connection in hand is added and every event     *)
(* loop keeps running.  Nothing obliges a client to connect, send or close, *)
(* nor the AI service to answer.                                            *)
FairReactorSpec ==
    /\ ReactorSpec
    /\ WF_reactorVars(AddClient)
    /\ \A r \in Reactors : WF_reactorVars(Loop(r))

-----------------------------------------------------------------------------
(* Who answers for a connection. *)

(* The accepting thread still has connection c in hand. *)
InHand(c) == mainPc # "accept" /\ c = idx

CleanupPcs == {"remove", "unregister", "delete", "close"}

(* Reactor r is tearing connection c down. *)
Closing(r, c) == rpc[r] \in CleanupPcs /\ cur[r].s = c

(* A connection the event loop reads from has everything a handler relies   *)
(* on: its descriptor is still its own, its Socket is alive, found in its   *)
(* reactor's map and reachable through MatchManager, and it is connected or *)
(* marked for clean-up.                                                     *)
WatchedIsComplete ==
    \A r \in Reactors : \A c \in epoll[r] :
        LET fd == connFd[c] IN
        /\ Owner(c) = r
        /\ fdOpen[fd] = c
        /\ heap[c] = "live"
        /\ socketMap[r][fd] = c
        /\ fdToReactor[fd] = r
        /\ connected[c] \/ deleted[c]
        /\ ~InHand(c)

(* The registry the match and room threads route replies with never names   *)
(* a connection that is gone, another reactor's, or a freed Socket, though  *)
(* three threads update it and descriptors are reused.                      *)
RoutingSafe ==
    \A fd \in Fds : fdToReactor[fd] # NoReactor =>
        LET c == fdOpen[fd] IN
        /\ c # None
        /\ heap[c] = "live"
        /\ Owner(c) = fdToReactor[fd]

(* A reactor's map names, for a descriptor, the connection that holds it    *)
(* now, and its Socket is alive, except in the window between delete and    *)
(* remove of add_client's failure path.                                     *)
MapIsCurrent ==
    \A r \in Reactors, fd \in Fds : socketMap[r][fd] # None =>
        LET c == socketMap[r][fd] IN
        /\ fdOpen[fd] = c
        /\ Owner(c) = r
        /\ heap[c] = "live" \/ (c = idx /\ mainPc = "failRemove")

(* Every event still to be handled will reach the Socket of the connection  *)
(* the kernel raised it for, whatever was closed, accepted and reused since *)
(* epoll_wait returned; so run_loop's close(fd) for an unknown descriptor   *)
(* never runs.                                                              *)
EventReachesItsSocket ==
    \A r \in Reactors : \A ev \in batch[r] :
        /\ socketMap[r][ev.fd] = ev.conn
        /\ fdOpen[ev.fd] = ev.conn
        /\ heap[ev.conn] = "live"

(* The thread that tears a connection down frees a live Socket, once, and   *)
(* closes the descriptor of that connection and no other.  The same holds   *)
(* while a handler is blocked on the AI service.                            *)
HandlerOwnsItsSocket ==
    /\ \A r \in Reactors : rpc[r] \in CleanupPcs \cup {"ai"} =>
          /\ fdOpen[cur[r].fd] = cur[r].s
          /\ connFd[cur[r].s] = cur[r].fd
          /\ heap[cur[r].s] = IF rpc[r] = "close" THEN "freed" ELSE "live"
    /\ mainPc # "accept" =>
          /\ fdOpen[MainFd] = idx
          /\ heap[idx] = IF mainPc \in {"failRemove", "failClose"}
                         THEN "freed" ELSE "live"

(* No leak: an open descriptor or a live Socket is watched by its reactor   *)
(* or in the hand of exactly one thread that will pass it on or close it.   *)
NothingLost ==
    \A c \in Conns :
        (connFd[c] \in Fds /\ fdOpen[connFd[c]] = c) \/ heap[c] = "live" =>
            /\ connFd[c] \in Fds /\ fdOpen[connFd[c]] = c
            /\ c \in epoll[Owner(c)] \/ InHand(c) \/ Closing(Owner(c), c)

(* A command is taken off a connection only once that connection has been   *)
(* added completely, so that what the command leads to (a match, a room     *)
(* message) can be routed back to it.                                       *)
ReadsOnlyAddedConnections ==
    [][\A c \in Conns : inbox[c] # <<>> /\ inbox'[c] = <<>> =>
          /\ connected[c] /\ heap[c] = "live"
          /\ fdToReactor[connFd[c]] = Owner(c)]_reactorVars

(* Every AI call of the reactor of c is eventually answered. *)
AiAnswers(c) == []<>(rpc[Owner(c)] # "ai")

Held(c) == c <= idx /\ (fdOpen[connFd[c]] = c \/ heap[c] = "live")

(* A connection whose client has gone is torn down, descriptor and Socket,  *)
(* provided the AI service answers the calls of its reactor.                *)
ClosedIsReleased ==
    \A c \in Conns :
        AiAnswers(c) => ((Held(c) /\ peer[c] = "closed") ~> ~Held(c))

(* What a client sends is read, or its connection goes, provided the AI     *)
(* service answers the calls of its reactor.                                *)
DataIsRead ==
    \A c \in Conns :
        AiAnswers(c) =>
            ((Held(c) /\ inbox[c] # <<>>) ~> (inbox[c] = <<>> \/ ~Held(c)))

-----------------------------------------------------------------------------
(* The inductive invariant: for each table, what an entry of it means while *)
(* either thread is between two of its steps.                               *)

(* Connections not yet accepted are untouched. *)
AcceptedInv ==
    \A c \in Conns :
        IF c <= idx THEN connFd[c] \in Fds
                    ELSE connFd[c] = NoFd /\ heap[c] = "none"

(* The descriptor table and m_fd agree on every open descriptor, and the    *)
(* connection is in someone's hand.                                         *)
DescriptorInv ==
    \A fd \in Fds : fdOpen[fd] # None =>
        LET c == fdOpen[fd] IN
        /\ c <= idx
        /\ connFd[c] = fd
        /\ c \in epoll[Owner(c)] \/ InHand(c) \/ Closing(Owner(c), c)

LiveInv == \A c \in Conns : heap[c] = "live" => fdOpen[connFd[c]] = c

(* What the accepting thread has done so far for the connection in hand. *)
MainInv ==
    mainPc # "accept" =>
        /\ idx \in Conns
        /\ fdOpen[MainFd] = idx
        /\ heap[idx] = IF mainPc \in {"failRemove", "failClose"}
                       THEN "freed" ELSE "live"
        /\ mainPc \notin {"add", "failClose"} =>
               socketMap[MainOwner][MainFd] = idx
        /\ mainPc \in {"epoll", "failUnregister"} =>
               fdToReactor[MainFd] = MainOwner
        /\ mainPc \in {"register", "epoll"} => connected[idx]

(* What reactor r has done so far for the connection it tears down, or is   *)
(* blocked for.                                                             *)
LoopInv ==
    \A r \in Reactors :
        /\ rpc[r] = "ai" =>
              /\ cur[r].s \in epoll[r]
              /\ cur[r].fd = connFd[cur[r].s]
        /\ rpc[r] \in CleanupPcs =>
              LET c  == cur[r].s
                  fd == cur[r].fd
              IN  /\ c \in Conns /\ fd \in Fds
                  /\ connFd[c] = fd
                  /\ fdOpen[fd] = c
                  /\ Owner(c) = r
                  /\ c \notin epoll[r]
                  /\ ~InHand(c)
                  /\ heap[c] = IF rpc[r] = "close" THEN "freed" ELSE "live"
                  /\ rpc[r] = "remove" => socketMap[r][fd] = c
                  /\ rpc[r] \in {"remove", "unregister"} => fdToReactor[fd] = r

MapInv ==
    \A r \in Reactors, fd \in Fds : socketMap[r][fd] # None =>
        LET c == socketMap[r][fd] IN
        /\ fdOpen[fd] = c
        /\ Owner(c) = r
        /\ \/ c \in epoll[r]
           \/ InHand(c) /\ mainPc \notin {"add", "failClose"}
           \/ Closing(r, c) /\ rpc[r] = "remove"

RegistryInv ==
    \A fd \in Fds : fdToReactor[fd] # NoReactor =>
        LET c == fdOpen[fd]
            r == fdToReactor[fd]
        IN  /\ c # None
            /\ Owner(c) = r
            /\ \/ c \in epoll[r]
               \/ InHand(c) /\ mainPc \in {"epoll", "failUnregister"}
               \/ Closing(r, c) /\ rpc[r] \in {"remove", "unregister"}

BatchInv ==
    \A r \in Reactors :
        /\ \A ev \in batch[r] :
              /\ ev.conn \in epoll[r]
              /\ ev.fd = connFd[ev.conn]
        /\ \A e1, e2 \in batch[r] : e1.conn = e2.conn => e1 = e2

IInv ==
    /\ TypeOK
    /\ AcceptedInv
    /\ DescriptorInv
    /\ LiveInv
    /\ WatchedIsComplete
    /\ MainInv
    /\ LoopInv
    /\ MapInv
    /\ RegistryInv
    /\ BatchInv
=============================================================================
