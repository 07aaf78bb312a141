------------------------------ MODULE Sessions ------------------------------
(***************************************************************************)
(* Accounts: registering (command '4'), logging in ('3'), and what a       *)
(* Socket then knows of its user: m_username, and m_chatHistory, from      *)
(* which the AI is told what has been said (command '1').                  *)
(*                                                                         *)
(* Histories are those of Storage, every step of which is a step here.     *)
(* The table of users is another program's, MySQL, and outlives the        *)
(* server; its key on the names, which registerUser relies on, is external.*)
(***************************************************************************)
EXTENDS Storage

CONSTANTS
    Names,        \* account names
    NoName,       \* m_username before a login
    ContextCap    \* messages shown to the AI (30 in the code)

ASSUME SessionAssumption ==
    /\ NoName \notin Names
    /\ ContextCap \in 1 .. FileCap

VARIABLES
    users,        \* name -> the number in its row of the table, or Guest
    username,     \* Socket -> m_username
    chat,         \* Socket -> m_chatHistory
    \* kept to state properties
    since         \* Socket -> messages stored in its file when it logged in

sessionVars == <<users, username, chat, since>>
allVars     == <<vars, sessionVars>>

SessionTypeOK ==
    /\ StorageTypeOK
    /\ users \in [Names -> Users]
    /\ username \in [Sockets -> Names \cup {NoName}]
    /\ chat \in [Sockets -> Seq(Messages)]
    /\ since \in [Sockets -> Nat]

SessionInit ==
    /\ Init
    /\ users = [name \in Names |-> Guest]
    /\ username = [s \in Sockets |-> NoName]
    /\ chat = [s \in Sockets |-> <<>>]
    /\ since = [s \in Sockets |-> 0]

-----------------------------------------------------------------------------
(* s handles a command of its client's. *)
Handles(s) == up /\ op[Loop[s]].pc = "idle"

(* What Sockets know when the process has ended, or has not. *)
SocketsAfter ==
    IF up'
    THEN UNCHANGED <<username, chat, since>>
    ELSE /\ username' = [s \in Sockets |-> NoName]
         /\ chat' = [s \in Sockets |-> <<>>]
         /\ since' = [s \in Sockets |-> 0]

(* registerUser's INSERT, and the number MySQL gives the row. *)
Inserts(name, id) ==
    /\ users[name] = Guest
    /\ \A n \in Names : users[n] # id
    /\ users' = [users EXCEPT ![name] = id]

(* regiser, when there is a row afterwards: the client is sent REG_OK, or    *)
(* REG_FAIL if MySQL's answer was lost.  REG_FAIL for another reason        *)
(* changes nothing.                                                         *)
Register(s, name, id) ==
    /\ Handles(s)
    /\ Inserts(name, id)
    /\ UNCHANGED <<vars, username, chat, since>>

(* Mutant of LoginFails: the name is kept before verifyLogin has answered. *)
LoginNamesFirst(s, name) ==
    /\ Handles(s)
    /\ username' = [username EXCEPT ![s] = name]
    /\ UNCHANGED <<vars, users, chat, since>>

(* verifyLogin has said no, or MySQL is not there: whoever was logged in     *)
(* still is.                                                                *)
LoginFails(s, name) ==
    /\ Handles(s)
    /\ UNCHANGED allVars

(* Mutant of Remembered: m_chatHistory is not cleared. *)
RememberedOnTop(s, u) == chat[s] \o file[<<"user_", u>>].messages

(* What the history is replaced by: loadHistory. *)
Remembered(s, u) == file[<<"user_", u>>].messages

(* login, when verifyLogin has said yes, which it does only for a row of the *)
(* table.  loadHistory may end the process.                                 *)
LoginOk(s, name) ==
    LET u == users[name] IN
    /\ Handles(s)
    /\ u # Guest
    /\ Login(s, u)
    /\ IF up'
       THEN /\ username' = [username EXCEPT ![s] = name]
            /\ chat' = [chat EXCEPT ![s] = Remembered(s, u)]
            /\ since' = [since EXCEPT ![s] = Len(stored[<<"user_", u>>])]
       ELSE SocketsAfter
    /\ UNCHANGED users

(* A connection ends and another takes its place, with a new Socket. *)
Leave(s) ==
    /\ Handles(s)
    /\ Reconnect(s) \/ (user[s] = Guest /\ chat[s] # <<>> /\ UNCHANGED vars)
    /\ username' = [username EXCEPT ![s] = NoName]
    /\ chat' = [chat EXCEPT ![s] = <<>>]
    /\ since' = [since EXCEPT ![s] = 0]
    /\ UNCHANGED users

(* emplace_back, before appendMessage begins. *)
Emplaced(s) ==
    chat' = [chat EXCEPT ![s] = Append(@, [by |-> s, n |-> made[s] + 1])]

(* Mutant of Context: the oldest messages are shown. *)
ContextOldest(s) == Oldest(ContextCap, chat[s])

(* The messages in the request to the AI. *)
Context(s) == Trimmed(ContextCap, chat[s])

(* Command '1'. *)
Chat(s, cut) ==
    /\ ReadChat(s, cut)
    /\ Emplaced(s)
    /\ UNCHANGED <<users, username, since>>

Answer(t) ==
    /\ AiAnswers(t)
    /\ Emplaced(op[t].msg.by)
    /\ UNCHANGED <<users, username, since>>

(* Everything else that happens to histories. *)
StorageStep ==
    /\ \/ CreateFails \/ CreateRoom
       \/ \E r \in RoomIds, cut \in BOOLEAN : AddHistory(r, cut)
       \/ \E t \in Threads : AppendMessage(t)
       \/ Crash \/ Restart
    /\ SocketsAfter
    /\ UNCHANGED users

SessionNext ==
    \/ \E s \in Sockets, name \in Names :
          \/ LoginOk(s, name) \/ LoginFails(s, name)
          \/ \E id \in Accounts : Register(s, name, id)
    \/ \E s \in Sockets : Leave(s) \/ \E cut \in BOOLEAN : Chat(s, cut)
    \/ \E t \in Threads : Answer(t)
    \/ StorageStep

SessionSpec == SessionInit /\ [][SessionNext]_allVars

-----------------------------------------------------------------------------
(* Properties. *)

(* What s is to store for its user and has not stored yet. *)
InHand(s) == LET o == op[Loop[s]] IN IF o.msg.by = s THEN {o.msg} ELSE {}

(* A Socket remembers nothing that is not of its user: every message in     *)
(* m_chatHistory, and so every one the AI is shown, was stored in the       *)
(* history of the account that is logged in, or is on its way there,        *)
(* however often the connection logs in as somebody else (login).           *)
OwnHistoryOnly ==
    \A s \in Sockets :
        Range(chat[s]) \subseteq Range(stored[UserFile(s)]) \cup InHand(s)

(* The name a Socket is matched and seated under, m_username, and the       *)
(* number its history is kept under, id_, are those of one account, after   *)
(* failed logins too (login).                                               *)
SessionIsOneAccount ==
    \A s \in Sockets :
        IF username[s] = NoName THEN user[s] = Guest
        ELSE user[s] # Guest /\ user[s] = users[username[s]]

(* The AI is being asked for s. *)
Asks(s) == op[Loop[s]].pc = "ai" /\ op[Loop[s]].msg.by = s

(* Nobody else has added to the history of s's user since s logged in. *)
Alone(s) ==
    LET all == stored[UserFile(s)] IN
    /\ user[s] # Guest
    /\ \A i \in since[s] + 1 .. Len(all) : all[i].by = s

(* The AI is shown the newest of all that user and AI have ever said to     *)
(* each other, in earlier sessions and in earlier lives of the server too,  *)
(* unless the user is logged in twice and speaks in both (command '1',      *)
(* login).                                                                  *)
AiKnowsTheUser ==
    \A s \in Sockets :
        Asks(s) /\ Alone(s) /\ UserFile(s) \notin spoiled =>
            NewestOf(ContextCap, Context(s), stored[UserFile(s)])

(* Logging in and talking do to histories what Storage says, and nothing    *)
(* else.                                                                    *)
RefinesStorage == Spec

-----------------------------------------------------------------------------
(* The inductive invariant of the proofs, beside that of Storage. *)

(* A file holds nothing that was not stored in it, a thread nothing but what *)
(* was, and its own message, which is stored once saveHistory is done.      *)
FromStored ==
    /\ \A f \in Files : Range(file[f].messages) \subseteq Range(stored[f])
    /\ \A t \in Threads : op[t].pc # "idle" =>
          Range(op[t].held) \subseteq Range(stored[op[t].file]) \cup {op[t].msg}
    /\ \A t \in Threads : op[t].pc \in {"statLoad", "statOpen", "statWrite", "ai"} =>
          op[t].msg \in Range(stored[op[t].file])

(* A file nothing has happened to cannot be loaded while it is rewritten. *)
RewritingIsTorn ==
    \A t \in Threads :
        /\ op[t].pc \in {"createWrite", "saveWrite", "statWrite"}
        /\ op[t].file \notin spoiled
        => file[op[t].file].state = "torn"

(* A reactor works on the file of the user it works for. *)
OpOfUser ==
    \A t \in Reactors : op[t].pc # "idle" => op[t].file = UserFile(op[t].msg.by)

SinceStored == \A s \in Sockets : since[s] <= Len(stored[UserFile(s)])

(* The message s remembers and has not stored. *)
Unstored(s) ==
    LET o == op[Loop[s]] IN
    IF Pending(Loop[s]) /\ o.msg.by = s THEN <<o.msg>> ELSE <<>>

(* part is the newest of all: all of them, or as many as cap at least. *)
NewestAtLeast(cap, part, all) ==
    /\ NewestOf(Len(part), part, all)
    /\ Len(part) = Len(all) \/ Len(part) >= cap

ChatIsNewest ==
    \A s \in Sockets : Alone(s) /\ UserFile(s) \notin spoiled =>
        NewestAtLeast(FileCap, chat[s], stored[UserFile(s)] \o Unstored(s))

SessionInv ==
    /\ SessionTypeOK /\ FromStored /\ RewritingIsTorn /\ OpOfUser /\ SinceStored
    /\ OwnHistoryOnly /\ SessionIsOneAccount /\ ChatIsNewest
=============================================================================
