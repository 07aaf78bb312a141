------------------------------ MODULE Storage ------------------------------
(***************************************************************************)
(* Histories in files: StorageManager, as used by the Sockets (command '1' *)
(* and the login) and by the Rooms.                                        *)
(*                                                                         *)
(* A file is rewritten whole: read, changed, truncated by opening it, and  *)
(* written.  Every reactor and the room thread do so without a lock, one   *)
(* call after another; other threads run between any two calls.  The       *)
(* process may be killed at any point, or end by an exception nobody       *)
(* catches, and be started again.  Calls that have returned to the kernel  *)
(* survive the end of the process.                                         *)
(*                                                                         *)
(* A message is its author (a Socket or a Room) and how many that author   *)
(* has made.  The statistics kept beside the messages are left out, but    *)
(* not the rewriting of the file they cause.                               *)
(***************************************************************************)
EXTENDS Integers, Sequences, Functions

CONSTANTS
    Reactors,     \* threads that run Sockets
    RoomThread,   \* the thread of RoomManager
    Sockets,      \* connections
    Loop,         \* Socket -> its reactor
    Accounts,     \* user numbers of the database
    MaxRooms,     \* bound: CREATE commands between two starts
    FileCap,      \* appendMessage's MAX_HISTORY (500 in the code)
    HistoryCap,   \* Room's limit (50 in the code)
    MaxTexts,     \* bound: texts of all clients together
    MaxCrashes    \* bound: times the process is killed

ASSUME StorageAssumption ==
    /\ RoomThread \notin Reactors
    /\ Loop \in [Sockets -> Reactors]
    /\ Sockets \cap Nat = {}
    /\ Accounts \subseteq Nat \ {0}
    /\ FileCap \in Nat /\ HistoryCap \in 1 .. FileCap
    /\ MaxRooms \in Nat /\ MaxTexts \in Nat /\ MaxCrashes \in Nat

Threads == Reactors \cup {RoomThread}
RoomIds == 1 .. MaxRooms
Authors == Sockets \cup RoomIds

Guest == 0                          \* id_ of a Socket that has not logged in
Users == Accounts \cup {Guest}

(* getFilePath: filePrefix_ and id_. *)
Files  == ({"user_"} \X Users) \cup ({"room_"} \X RoomIds)
NoFile == <<"none", 0>>

Messages  == [by : Authors, n : Nat]
NoMessage == [by |-> 0, n |-> 0]

(* What a file holds: nothing, for it is not there; an end that is too      *)
(* early for the parser; or a history.                                      *)
Absent    == [state |-> "absent", messages |-> <<>>]
Torn      == [state |-> "torn", messages |-> <<>>]
Whole(ms) == [state |-> "whole", messages |-> ms]
Contents  == [state : {"absent", "torn", "whole"}, messages : Seq(Messages)]

VARIABLES
    up,           \* the process runs
    file,         \* the files
    user,         \* Socket -> id_ of its storageManager
    nextRoomId,   \* RoomManager::nextRoomId_, counted from 1
    rooms,        \* numbers of the Rooms there are
    memory,       \* Room -> m_chatHistory
    op,           \* thread -> the appendMessage it is in
    \* kept for the bounds, and to state properties
    texts,        \* texts so far
    crashes,      \* times the process was killed
    made,         \* author -> messages it has made
    stored,       \* file -> messages whose saveHistory has been done
    spoiled,      \* files that something has happened to: see Spoils
    diedOf        \* the file the last exception was about

processVars == <<user, nextRoomId, rooms, memory>>
boundVars   == <<texts, crashes>>
vars == <<up, file, processVars, op, boundVars, made, stored, spoiled, diedOf>>

(* Where a thread is: fileExists, the two halves of createUserFile,         *)
(* loadHistory, the two halves of saveHistory, the three parts of           *)
(* updateStatsAfterAppend, or waiting for the AI.                           *)
Places == {"idle", "exists", "createOpen", "createWrite", "load", "saveOpen",
           "saveWrite", "statLoad", "statOpen", "statWrite", "ai"}

(* cut: the text does not end with a whole character.                       *)
(* last: nothing is left to do for the command after this message.          *)
Ops == [pc : Places, file : Files \cup {NoFile}, msg : Messages \cup {NoMessage},
        held : Seq(Messages), cut : BOOLEAN, last : BOOLEAN]

Idle == [pc |-> "idle", file |-> NoFile, msg |-> NoMessage, held |-> <<>>,
         cut |-> FALSE, last |-> FALSE]

StorageTypeOK ==
    /\ up \in BOOLEAN
    /\ file \in [Files -> Contents]
    /\ user \in [Sockets -> Users]
    /\ nextRoomId \in Nat \ {0}
    /\ rooms \subseteq RoomIds
    /\ memory \in [RoomIds -> Seq(Messages)]
    /\ op \in [Threads -> Ops]
    /\ texts \in 0 .. MaxTexts
    /\ crashes \in 0 .. MaxCrashes
    /\ made \in [Authors -> Nat]
    /\ stored \in [Files -> Seq(Messages)]
    /\ spoiled \subseteq Files
    /\ diedOf \in Files \cup {NoFile}
    /\ \A f \in Files : Len(file[f].messages) <= FileCap
    /\ \A r \in RoomIds : Len(memory[r]) <= HistoryCap
    /\ \A t \in Threads : Len(op[t].held) <= FileCap

Init ==
    /\ up = TRUE
    /\ file = [f \in Files |-> Absent]
    /\ user = [s \in Sockets |-> Guest]
    /\ nextRoomId = 1
    /\ rooms = {}
    /\ memory = [r \in RoomIds |-> <<>>]
    /\ op = [t \in Threads |-> Idle]
    /\ texts = 0
    /\ crashes = 0
    /\ made = [a \in Authors |-> 0]
    /\ stored = [f \in Files |-> <<>>]
    /\ spoiled = {}
    /\ diedOf = NoFile

-----------------------------------------------------------------------------
(* Mutant of Trimmed: the newest are dropped. *)
Oldest(cap, ms) == SubSeq(ms, 1, IF Len(ms) > cap THEN cap ELSE Len(ms))

(* Mutant of Trimmed: one entry too many is kept. *)
TrimmedLess(cap, ms) ==
    SubSeq(ms, IF Len(ms) > cap THEN Len(ms) - cap ELSE 1, Len(ms))

(* erase from the front of a history that is longer than its limit. *)
Trimmed(cap, ms) ==
    SubSeq(ms, IF Len(ms) > cap THEN Len(ms) - cap + 1 ELSE 1, Len(ms))

(* Mutant of Pushed: the newest comes first. *)
PushedInFront(cap, ms, m) == Trimmed(cap, <<m>> \o ms)

(* push_back, then erase. *)
Pushed(cap, ms, m) == Trimmed(cap, Append(ms, m))

UserFile(s) == <<"user_", user[s]>>
RoomFile(r) == <<"room_", r>>

(* A thread that has a file open for writing has truncated it. *)
Rewriting(f) ==
    \E t \in Threads : /\ op[t].file = f
                       /\ op[t].pc \in {"createWrite", "saveWrite", "statWrite"}

(* A thread other than t is in an appendMessage on f. *)
UsedByOther(t, f) ==
    \E u \in Threads \ {t} : op[u].file = f /\ op[u].pc \notin {"idle", "ai"}

(* What may harm a file: two threads use it at once, or the process ends    *)
(* while it is rewritten.                                                   *)
Spoils(t, f) == spoiled' = IF UsedByOther(t, f) THEN spoiled \cup {f} ELSE spoiled

(* The end of the process, of an exception about f or because it is killed. *)
ProcessEnds(f) ==
    /\ up' = FALSE
    /\ user' = [s \in Sockets |-> Guest]
    /\ nextRoomId' = 1
    /\ rooms' = {}
    /\ memory' = [r \in RoomIds |-> <<>>]
    /\ op' = [t \in Threads |-> Idle]
    /\ spoiled' = spoiled \cup {g \in Files : Rewriting(g)}
    /\ diedOf' = f
    /\ UNCHANGED <<file, texts, made, stored>>

-----------------------------------------------------------------------------
(* onreads and handleRoomTask, as far as they touch histories.              *)

(* A connection ends and another takes its place, with a new Socket. *)
Reconnect(s) ==
    /\ up /\ op[Loop[s]].pc = "idle"
    /\ user[s] # Guest
    /\ user' = [user EXCEPT ![s] = Guest]
    /\ UNCHANGED <<up, file, nextRoomId, rooms, memory, op, boundVars, made,
                   stored, spoiled, diedOf>>

(* login, when the database has said yes: setUserId, loadHistory. *)
Login(s, u) ==
    LET f == <<"user_", u>> IN
    /\ up /\ op[Loop[s]].pc = "idle"
    /\ IF file[f].state = "torn"
       THEN ProcessEnds(f) /\ UNCHANGED crashes
       ELSE /\ user' = [user EXCEPT ![s] = u]
            /\ UNCHANGED <<up, file, nextRoomId, rooms, memory, op, boundVars,
                           made, stored, spoiled, diedOf>>

(* appendMessage(f, ...) begins on thread t with a new message of author a. *)
BeginAppend(t, a, f, cut, last) ==
    /\ made' = [made EXCEPT ![a] = @ + 1]
    /\ op' = [op EXCEPT ![t] = [pc |-> "exists", file |-> f, cut |-> cut,
                 last |-> last, msg |-> [by |-> a, n |-> made[a] + 1], held |-> <<>>]]
    /\ Spoils(t, f)

(* Command '1'.  recv takes 1023 bytes at most, so the text may end in the  *)
(* middle of a character.                                                   *)
ReadChat(s, cut) ==
    /\ up /\ op[Loop[s]].pc = "idle" /\ texts < MaxTexts
    /\ texts' = texts + 1
    /\ BeginAppend(Loop[s], s, UserFile(s), cut, FALSE)
    /\ UNCHANGED <<up, file, processVars, crashes, stored, diedOf>>

(* The AI's answer to command '1' is the author's second message. *)
AiAnswers(t) ==
    /\ op[t].pc = "ai"
    /\ BeginAppend(t, op[t].msg.by, op[t].file, FALSE, TRUE)
    /\ UNCHANGED <<up, file, processVars, boundVars, stored, diedOf>>

(* CREATE that fails takes a number all the same. *)
CreateFails ==
    /\ up /\ op[RoomThread].pc = "idle" /\ nextRoomId <= MaxRooms
    /\ nextRoomId' = nextRoomId + 1
    /\ UNCHANGED <<up, file, user, rooms, memory, op, boundVars, made, stored,
                   spoiled, diedOf>>

(* Mutant of LoadedHistory: the constructor does not look for a file. *)
FreshHistory(r) == <<>>

(* loadHistoryFromFile *)
LoadedHistory(r) == Trimmed(HistoryCap, file[RoomFile(r)].messages)

(* Room::Room *)
CreateRoom ==
    LET r == nextRoomId IN
    /\ up /\ op[RoomThread].pc = "idle" /\ r <= MaxRooms
    /\ IF file[RoomFile(r)].state = "torn"
       THEN ProcessEnds(RoomFile(r)) /\ UNCHANGED crashes
       ELSE /\ nextRoomId' = r + 1
            /\ rooms' = rooms \cup {r}
            /\ memory' = [memory EXCEPT ![r] = LoadedHistory(r)]
            /\ UNCHANGED <<up, file, user, op, boundVars, made, stored, spoiled,
                           diedOf>>

(* addHistory, for a member's text or the AI's. *)
AddHistory(r, cut) ==
    /\ up /\ op[RoomThread].pc = "idle" /\ r \in rooms /\ texts < MaxTexts
    /\ texts' = texts + 1
    /\ BeginAppend(RoomThread, r, RoomFile(r), cut, TRUE)
    /\ memory' = [memory EXCEPT ![r] =
                     Pushed(HistoryCap, @, [by |-> r, n |-> made[r] + 1])]
    /\ UNCHANGED <<up, file, user, nextRoomId, rooms, crashes, stored, diedOf>>

-----------------------------------------------------------------------------
(* appendMessage on thread t, call by call.                                 *)

GoTo(t, pc) == op' = [op EXCEPT ![t].pc = pc]

Write(t, content) == file' = [file EXCEPT ![op[t].file] = content]

(* What all of the steps below leave alone. *)
Elsewhere == UNCHANGED <<up, processVars, boundVars, made, spoiled, diedOf>>

(* fileExists; createUserFile asks again, with nothing in between. *)
FileExists(t) ==
    /\ op[t].pc = "exists"
    /\ GoTo(t, IF file[op[t].file].state = "absent" THEN "createOpen" ELSE "load")
    /\ UNCHANGED <<file, stored>> /\ Elsewhere

(* createUserFile: ofstream truncates, or creates an empty file. *)
CreateOpen(t) ==
    /\ op[t].pc = "createOpen"
    /\ Write(t, Torn)
    /\ GoTo(t, "createWrite")
    /\ UNCHANGED stored /\ Elsewhere

(* Mutant of CreateWrite: the file is made, and left empty. *)
CreateEmpty(t) ==
    /\ op[t].pc = "createWrite"
    /\ GoTo(t, "load")
    /\ UNCHANGED <<file, stored>> /\ Elsewhere

CreateWrite(t) ==
    /\ op[t].pc = "createWrite"
    /\ Write(t, Whole(<<>>))
    /\ GoTo(t, "load")
    /\ UNCHANGED stored /\ Elsewhere

(* loadHistory throws on what it cannot parse; then push_back and the cap. *)
LoadHistory(t) ==
    LET f == op[t].file IN
    /\ op[t].pc = "load"
    /\ IF file[f].state = "torn"
       THEN ProcessEnds(f) /\ UNCHANGED crashes
       ELSE /\ op' = [op EXCEPT ![t].pc = "saveOpen",
                                ![t].held = Pushed(FileCap, file[f].messages,
                                                   op[t].msg)]
            /\ UNCHANGED <<file, stored>> /\ Elsewhere

SaveOpen(t) ==
    /\ op[t].pc = "saveOpen"
    /\ Write(t, Torn)
    /\ GoTo(t, "saveWrite")
    /\ UNCHANGED stored /\ Elsewhere

AfterSave(t) ==
    IF op[t].file[1] = "user_" THEN GoTo(t, "statLoad")
                               ELSE op' = [op EXCEPT ![t] = Idle]

SaveWrite(t) ==
    LET f == op[t].file IN
    /\ op[t].pc = "saveWrite" /\ ~op[t].cut
    /\ Write(t, Whole(op[t].held))
    /\ stored' = [stored EXCEPT ![f] = Append(@, op[t].msg)]
    /\ AfterSave(t)
    /\ Elsewhere

(* dump throws on a character that is cut; the file is open by then. *)
SaveThrows(t) ==
    /\ op[t].pc = "saveWrite" /\ op[t].cut
    /\ ProcessEnds(op[t].file) /\ UNCHANGED crashes

(* updateStatsAfterAppend *)
StatLoad(t) ==
    LET f == op[t].file IN
    /\ op[t].pc = "statLoad"
    /\ IF file[f].state = "torn"
       THEN ProcessEnds(f) /\ UNCHANGED crashes
       ELSE /\ op' = [op EXCEPT ![t].pc = "statOpen",
                                ![t].held = file[f].messages]
            /\ UNCHANGED <<file, stored>> /\ Elsewhere

StatOpen(t) ==
    /\ op[t].pc = "statOpen"
    /\ Write(t, Torn)
    /\ GoTo(t, "statWrite")
    /\ UNCHANGED stored /\ Elsewhere

StatWrite(t) ==
    /\ op[t].pc = "statWrite"
    /\ Write(t, Whole(op[t].held))
    /\ IF op[t].last THEN op' = [op EXCEPT ![t] = Idle] ELSE GoTo(t, "ai")
    /\ UNCHANGED stored /\ Elsewhere

AppendMessage(t) ==
    \/ FileExists(t) \/ CreateOpen(t) \/ CreateWrite(t)
    \/ LoadHistory(t) \/ SaveOpen(t) \/ SaveWrite(t) \/ SaveThrows(t)
    \/ StatLoad(t) \/ StatOpen(t) \/ StatWrite(t)

-----------------------------------------------------------------------------
Crash ==
    /\ up /\ crashes < MaxCrashes
    /\ crashes' = crashes + 1
    /\ ProcessEnds(NoFile)

Restart ==
    /\ ~up
    /\ up' = TRUE
    /\ UNCHANGED <<file, processVars, op, boundVars, made, stored, spoiled, diedOf>>

Next ==
    \/ \E s \in Sockets : \/ Reconnect(s)
                          \/ \E u \in Accounts : Login(s, u)
                          \/ \E cut \in BOOLEAN : ReadChat(s, cut)
    \/ CreateFails \/ CreateRoom
    \/ \E r \in RoomIds, cut \in BOOLEAN : AddHistory(r, cut)
    \/ \E t \in Threads : AppendMessage(t) \/ AiAnswers(t)
    \/ Crash \/ Restart

Spec == Init /\ [][Next]_vars

-----------------------------------------------------------------------------
(* Properties. *)

(* part is the newest of all, as many as cap allows. *)
NewestOf(cap, part, all) ==
    /\ Len(part) = IF Len(all) < cap THEN Len(all) ELSE cap
    /\ \A i \in 1 .. Len(part) : part[i] = all[Len(all) - Len(part) + i]

(* History: a file that no two threads have used at once, and that was not  *)
(* being rewritten when the process ended, holds the newest of all that was *)
(* ever stored in it, whatever crashes and restarts there were; unless it   *)
(* is being rewritten (appendMessage).                                      *)
KeptUnlessSpoiled ==
    \A f \in Files \ spoiled : ~Rewriting(f) =>
        /\ file[f].state # "torn"
        /\ NewestOf(FileCap, file[f].messages, stored[f])

(* The server never ends of a file that nothing has happened to: the        *)
(* exception of loadHistory or dump that nobody catches.                    *)
DiesOnlyOfSpoiledFiles == diedOf = NoFile \/ diedOf \in spoiled

(* Later, for messages of the same author. *)
InOrder(ms) ==
    \A i, j \in DOMAIN ms :
        i < j /\ ms[i].by = ms[j].by => ms[i].n < ms[j].n

(* Order: whatever threads do to each other's files, no file ever holds a   *)
(* message twice, or the messages of one author in another order than they  *)
(* were made.                                                               *)
FilesAreOrdered == \A f \in Files : InOrder(file[f].messages)

(* The message room r has in memory and not yet in its file. *)
Unsaved(r) ==
    IF op[RoomThread].file = RoomFile(r) THEN <<op[RoomThread].msg>> ELSE <<>>

(* Rooms: what a room remembers is the newest of all that was ever said     *)
(* under its number, the lives of the process before this one included      *)
(* (addHistory, loadHistoryFromFile).                                       *)
RoomRemembers ==
    \A r \in rooms : RoomFile(r) \notin spoiled =>
        NewestOf(HistoryCap, memory[r], stored[RoomFile(r)] \o Unsaved(r))

-----------------------------------------------------------------------------
(* The inductive invariant of the proofs. *)

Busy(t)    == op[t].pc \notin {"idle", "ai"}
Pending(t) == op[t].pc \in {"exists", "createOpen", "createWrite", "load",
                            "saveOpen", "saveWrite"}

(* Threads: nothing is in progress in a process that is down, the room      *)
(* thread works on rooms, reactors on Sockets of theirs; the message of a   *)
(* thread is the last its author has made.                                  *)
OpInv ==
    /\ \A t \in Threads :
          IF op[t].pc = "idle" THEN op[t] = Idle
          ELSE LET a == op[t].msg.by IN
               /\ up /\ op[t].file \in Files /\ op[t].msg \in Messages
               /\ op[t].msg.n = made[a]
               /\ IF t = RoomThread
                  THEN a \in rooms /\ op[t].file = RoomFile(a) /\ op[t].last
                  ELSE a \in Sockets /\ Loop[a] = t /\ op[t].file[1] = "user_"
    /\ op[RoomThread].pc \notin {"statLoad", "statOpen", "statWrite", "ai"}
    /\ \A r \in rooms : r < nextRoomId

(* What is not there, or cannot be parsed, has no messages. *)
EmptyUnlessWhole ==
    \A f \in Files : file[f].state # "whole" => file[f].messages = <<>>

(* A file nothing has happened to is used by one thread at a time. *)
OneAtATime ==
    \A f \in Files \ spoiled, t, u \in Threads :
        op[t].file = f /\ op[u].file = f /\ Busy(t) /\ Busy(u) => t = u

(* What a thread has in hand is what the file will be. *)
HeldOf(t) ==
    LET f == op[t].file IN
    /\ op[t].pc = "createOpen" => file[f].state = "absent"
    /\ op[t].pc = "createWrite" => stored[f] = <<>>
    /\ op[t].pc \in {"saveOpen", "saveWrite"} =>
           NewestOf(FileCap, op[t].held, Append(stored[f], op[t].msg))
    /\ op[t].pc \in {"statOpen", "statWrite"} =>
           NewestOf(FileCap, op[t].held, stored[f])

HeldIsNewest == \A t \in Threads : op[t].file \notin spoiled => HeldOf(t)

(* Order: messages are counted when they are made, and one that is not      *)
(* saved yet is nowhere but in the hand of its thread.                      *)
Counted(ms) == \A i \in DOMAIN ms : ms[i].n <= made[ms[i].by]

AllCounted ==
    /\ \A f \in Files : Counted(file[f].messages)
    /\ \A t \in Threads : Counted(op[t].held)

HeldIsOrdered == \A t \in Threads : InOrder(op[t].held)

PendingIsNew ==
    \A t \in Threads : Pending(t) =>
        /\ \A f \in Files : op[t].msg \notin Range(file[f].messages)
        /\ \A u \in Threads \ {t} : op[t].msg \notin Range(op[u].held)

StorageInv ==
    /\ StorageTypeOK /\ OpInv
    /\ EmptyUnlessWhole /\ OneAtATime /\ HeldIsNewest
    /\ AllCounted /\ HeldIsOrdered /\ PendingIsNew
    /\ KeptUnlessSpoiled /\ DiesOnlyOfSpoiledFiles /\ FilesAreOrdered
    /\ RoomRemembers
=============================================================================
