--------------------------- MODULE SessionProofs ---------------------------
(***************************************************************************)
(* Sessions, for every number of accounts, connections, threads, rooms and *)
(* texts and for every limit of a history and of what the AI is shown.     *)
(***************************************************************************)
EXTENDS Sessions, StorageProofs

-----------------------------------------------------------------------------
(* Every step does to histories what Storage says. *)

UsersTyped == users \in [Names -> Users]

LEMMA UsersTypedHolds == SessionSpec => []UsersTyped
<1>1. SessionInit => UsersTyped  BY DEF SessionInit, UsersTyped, Users
<1>2. UsersTyped /\ [SessionNext]_allVars => UsersTyped'
  <2> SUFFICES ASSUME UsersTyped, [SessionNext]_allVars  PROVE UsersTyped'
    OBVIOUS
  <2>1. ASSUME NEW s \in Sockets, NEW name \in Names, NEW id \in Accounts,
               Register(s, name, id)
        PROVE  UsersTyped'
    BY <2>1 DEF Register, Inserts, UsersTyped, Users
  <2>2. users' = users => UsersTyped'  BY DEF UsersTyped
  <2> QED
    BY <2>1, <2>2 DEF SessionNext, LoginOk, LoginFails, Leave, Chat, Answer,
                      StorageStep, allVars, sessionVars
<1> QED  BY <1>1, <1>2, PTL DEF SessionSpec

LEMMA StepRefines == UsersTyped /\ [SessionNext]_allVars => [Next]_vars
<1> SUFFICES ASSUME UsersTyped, [SessionNext]_allVars  PROVE [Next]_vars
  OBVIOUS
<1>1. ASSUME NEW s \in Sockets, NEW name \in Names, LoginOk(s, name)
      PROVE  Next
  <2>1. users[name] \in Accounts  BY <1>1 DEF UsersTyped, Users, LoginOk
  <2>2. Login(s, users[name])  BY <1>1 DEF LoginOk
  <2> QED  BY <2>1, <2>2 DEF Next
<1>2. ASSUME NEW s \in Sockets, NEW name \in Names,
             LoginFails(s, name) \/ \E id \in Accounts : Register(s, name, id)
      PROVE  UNCHANGED vars
  BY <1>2 DEF LoginFails, Register, allVars
<1>3. ASSUME NEW s \in Sockets, Leave(s)  PROVE [Next]_vars
  BY <1>3 DEF Leave, Next
<1>4. ASSUME NEW s \in Sockets, NEW cut \in BOOLEAN, Chat(s, cut)  PROVE Next
  BY <1>4 DEF Chat, Next
<1>5. ASSUME NEW t \in Threads, Answer(t)  PROVE Next
  BY <1>5 DEF Answer, Next
<1>6. ASSUME StorageStep  PROVE Next
  BY <1>6 DEF StorageStep, Next
<1>7. CASE UNCHANGED allVars  BY <1>7 DEF allVars
<1> QED  BY <1>1, <1>2, <1>3, <1>4, <1>5, <1>6, <1>7 DEF SessionNext

(* Whoever logs in, as whom and how often, the histories are those of       *)
(* Storage: all that is proved of them holds with accounts too.             *)
THEOREM SessionsRefineStorage == SessionSpec => RefinesStorage
<1>1. SessionInit => Init  BY DEF SessionInit
<1> QED
  BY <1>1, UsersTypedHolds, StepRefines, PTL DEF SessionSpec, Spec, RefinesStorage

LEMMA StorageInvHolds == SessionSpec => []StorageInv
BY SessionsRefineStorage, StorageInvariantHolds, PTL DEF RefinesStorage

-----------------------------------------------------------------------------
(* Sequences. *)

LEMMA AppendRange ==
    ASSUME NEW S, NEW q \in Seq(S), NEW m \in S
    PROVE  /\ Append(q, m) \in Seq(S) /\ Len(Append(q, m)) = Len(q) + 1
           /\ Range(Append(q, m)) = Range(q) \cup {m}
           /\ \A i \in 1 .. Len(q) : Append(q, m)[i] = q[i]
           /\ Append(q, m)[Len(q) + 1] = m
<1> DEFINE a == Append(q, m)
<1>1. /\ a \in Seq(S) /\ Len(a) = Len(q) + 1 /\ Len(q) \in Nat
      /\ DOMAIN a = 1 .. Len(q) + 1 /\ DOMAIN q = 1 .. Len(q)
      /\ \A i \in 1 .. Len(q) : a[i] = q[i]
      /\ a[Len(q) + 1] = m
  OBVIOUS
<1> HIDE DEF a
<1>2. Range(a) = Range(q) \cup {m}  BY <1>1 DEF Range
<1> QED  BY <1>1, <1>2 DEF a

LEMMA EmptyConcat ==
    ASSUME NEW S, NEW q \in Seq(S)
    PROVE  /\ q \o <<>> = q
           /\ \A m \in S : q \o <<m>> = Append(q, m)
OBVIOUS

(* A message at the end of both. *)
LEMMA AtLeastAppended ==
    ASSUME NEW S, NEW part \in Seq(S), NEW all \in Seq(S), NEW m \in S,
           NEW cap \in Nat, NewestAtLeast(cap, part, all)
    PROVE  NewestAtLeast(cap, Append(part, m), Append(all, m))
<1> DEFINE p == Append(part, m)
           a == Append(all, m)
<1>1. /\ p \in Seq(S) /\ Len(p) = Len(part) + 1
      /\ \A i \in 1 .. Len(part) : p[i] = part[i]
      /\ p[Len(part) + 1] = m
  BY AppendRange
<1>2. /\ a \in Seq(S) /\ Len(a) = Len(all) + 1
      /\ \A i \in 1 .. Len(all) : a[i] = all[i]
      /\ a[Len(all) + 1] = m
  BY AppendRange
<1>3. /\ Len(part) \in Nat /\ Len(all) \in Nat /\ Len(part) <= Len(all)
      /\ \A i \in 1 .. Len(part) : part[i] = all[Len(all) - Len(part) + i]
      /\ Len(part) = Len(all) \/ Len(part) >= cap
  BY DEF NewestAtLeast, NewestOf
<1> HIDE DEF p, a
<1>4. /\ Len(p) = IF Len(a) < Len(p) THEN Len(a) ELSE Len(p)
      /\ Len(p) = Len(a) \/ Len(p) >= cap
  BY <1>1, <1>2, <1>3
<1>5. ASSUME NEW i \in 1 .. Len(p)  PROVE p[i] = a[Len(a) - Len(p) + i]
  <2>1. Len(a) - Len(p) + i = Len(all) - Len(part) + i  BY <1>1, <1>2, <1>3
  <2>2. CASE i = Len(part) + 1
    <3>1. Len(all) - Len(part) + i = Len(all) + 1  BY <1>3, <2>2
    <3> QED  BY <1>1, <1>2, <2>1, <2>2, <3>1
  <2>3. CASE i # Len(part) + 1
    <3>1. i \in 1 .. Len(part)  BY <1>1, <1>3, <2>3
    <3>2. Len(all) - Len(part) + i \in 1 .. Len(all)  BY <1>3, <3>1
    <3>3. p[i] = part[i] /\ part[i] = all[Len(all) - Len(part) + i]
      BY <1>1, <1>3, <3>1
    <3> QED  BY <1>2, <2>1, <3>2, <3>3
  <2> QED  BY <2>2, <2>3
<1> QED  BY <1>4, <1>5 DEF NewestAtLeast, NewestOf, p, a

-----------------------------------------------------------------------------
(* One Socket. *)

(* What OwnHistoryOnly, SinceStored and ChatIsNewest say of s. *)
SocketInv(s) ==
    /\ Range(chat[s]) \subseteq Range(stored[UserFile(s)]) \cup InHand(s)
    /\ since[s] <= Len(stored[UserFile(s)])
    /\ Alone(s) /\ UserFile(s) \notin spoiled =>
          NewestAtLeast(FileCap, chat[s], stored[UserFile(s)] \o Unstored(s))

LEMMA SocketsInv ==
    (\A s \in Sockets : SocketInv(s)) <=> OwnHistoryOnly /\ SinceStored /\ ChatIsNewest
BY DEF SocketInv, OwnHistoryOnly, SinceStored, ChatIsNewest

LEMMA SocketFacts ==
    ASSUME StorageTypeOK, NEW s \in Sockets
    PROVE  /\ UserFile(s) \in Files /\ stored[UserFile(s)] \in Seq(Messages)
           /\ Loop[s] \in Reactors /\ Loop[s] \in Threads /\ Loop[s] # RoomThread
           /\ s \in Authors /\ s # 0
<1>1. s # 0  BY StorageAssumption
<1> QED  BY <1>1, UserFileType, FileTypes, StorageAssumption DEF StorageTypeOK, Authors

(* Nothing happens that concerns s. *)
LEMMA SocketSame ==
    ASSUME NEW s \in Sockets, SocketInv(s),
           chat'[s] = chat[s], since'[s] = since[s], user'[s] = user[s],
           stored'[UserFile(s)] = stored[UserFile(s)],
           InHand(s)' = InHand(s), Unstored(s)' = Unstored(s), spoiled \subseteq spoiled'
    PROVE  SocketInv(s)'
<1> DEFINE f == UserFile(s)
<1>1. UserFile(s)' = f  BY DEF UserFile
<1>2. stored'[f] = stored[f]  OBVIOUS
<1>3. Alone(s)' => Alone(s)  BY <1>1, <1>2 DEF Alone
<1>4. Range(chat'[s]) \subseteq Range(stored'[f]) \cup InHand(s)'
  BY <1>2 DEF SocketInv
<1>5. since'[s] <= Len(stored'[f])  BY <1>2 DEF SocketInv
<1>6. Alone(s)' /\ f \notin spoiled' =>
         NewestAtLeast(FileCap, chat'[s], stored'[f] \o Unstored(s)')
  BY <1>2, <1>3 DEF SocketInv
<1> HIDE DEF f
<1>7. /\ Range(chat[s])' \subseteq Range(stored[UserFile(s)])' \cup InHand(s)'
      /\ since'[s] <= Len(stored'[UserFile(s)'])
      /\ Alone(s)' /\ UserFile(s)' \notin spoiled' =>
            NewestAtLeast(FileCap, chat'[s], stored'[UserFile(s)'] \o Unstored(s)')
  BY <1>1, <1>4, <1>5, <1>6 DEF Range
<1> QED  BY <1>7 DEF SocketInv, NewestAtLeast, NewestOf

(* The thread of s does the same as before, as far as s is concerned. *)
LEMMA SameThread ==
    ASSUME NEW s \in Sockets, op'[Loop[s]] = op[Loop[s]]
    PROVE  InHand(s)' = InHand(s) /\ Unstored(s)' = Unstored(s)
BY DEF InHand, Unstored, Pending

(* A Socket that is new. *)
LEMMA SocketFresh ==
    ASSUME StorageTypeOK', NEW s \in Sockets,
           chat'[s] = <<>>, since'[s] = 0, user'[s] = Guest
    PROVE  SocketInv(s)'
<1>1. UserFile(s)' \in Files /\ stored'[UserFile(s)'] \in Seq(Messages)
  BY DEF StorageTypeOK, UserFile, Files, Users
<1>2. ~Alone(s)'  BY DEF Alone
<1>3. Range(chat'[s]) = {}  BY DEF Range
<1>4. since'[s] <= Len(stored'[UserFile(s)'])  BY <1>1
<1> QED  BY <1>2, <1>3, <1>4 DEF SocketInv

-----------------------------------------------------------------------------
(* Each step. *)

(* What is not of one Socket alone. *)
SharedInv == FromStored /\ RewritingIsTorn /\ OpOfUser

LEMMA SessionParts ==
    SessionInv <=> /\ SessionTypeOK /\ SharedInv /\ SessionIsOneAccount
                   /\ \A s \in Sockets : SocketInv(s)
BY SocketsInv DEF SessionInv, SharedInv

LEMMA SessionPartsNext ==
    ASSUME SessionTypeOK', SharedInv', SessionIsOneAccount',
           \A s \in Sockets : SocketInv(s)'
    PROVE  SessionInv'
BY DEF SessionInv, SharedInv, SocketInv, OwnHistoryOnly, SinceStored, ChatIsNewest

(* The process ends. *)
LEMMA EndsSession ==
    ASSUME SessionInv, StorageTypeOK', NEW f, ProcessEnds(f),
           SocketsAfter, UNCHANGED users
    PROVE  SessionInv'
<1>1. /\ up' = FALSE /\ user' = [s \in Sockets |-> Guest]
      /\ op' = [t \in Threads |-> Idle] /\ UNCHANGED <<file, stored>>
      /\ username' = [s \in Sockets |-> NoName]
      /\ chat' = [s \in Sockets |-> <<>>] /\ since' = [s \in Sockets |-> 0]
  BY DEF ProcessEnds, SocketsAfter
<1>2. SessionTypeOK'  BY <1>1 DEF SessionInv, SessionTypeOK
<1>3. \A t \in Threads : op'[t].pc = "idle"  BY <1>1 DEF Idle
<1>4. FromStored'
  <2>1. \A f_1 \in Files : Range(file'[f_1].messages) \subseteq Range(stored'[f_1])
    BY <1>1 DEF SessionInv, FromStored
  <2> QED  BY <1>3, <2>1 DEF FromStored, Range
<1>5. RewritingIsTorn' /\ OpOfUser'
  <2>1. Reactors \subseteq Threads  BY DEF Threads
  <2> QED  BY <1>3, <2>1 DEF RewritingIsTorn, OpOfUser
<1>6. SessionIsOneAccount'  BY <1>1 DEF SessionIsOneAccount
<1>7. ASSUME NEW s \in Sockets  PROVE SocketInv(s)'
  BY <1>1, SocketFresh
<1> QED  BY <1>2, <1>4, <1>5, <1>6, <1>7, SessionPartsNext DEF SharedInv

(* Files and threads stay as they are; a Socket whose thread is working      *)
(* keeps its user.                                                          *)
LEMMA QuietSession ==
    ASSUME StorageInv, SessionInv, SessionTypeOK',
           UNCHANGED <<file, stored, op, spoiled>>,
           \A s \in Sockets : op[Loop[s]].pc # "idle" => user'[s] = user[s],
           SessionIsOneAccount',
           \A s \in Sockets : \/ SocketInv(s)'
                              \/ /\ chat'[s] = chat[s] /\ since'[s] = since[s]
                                 /\ user'[s] = user[s]
    PROVE  SessionInv'
<1>a. FromStored'
  <2>1. \A f \in Files : Range(file'[f].messages) \subseteq Range(stored'[f])
    BY DEF SessionInv, FromStored
  <2>2. \A t \in Threads : op'[t].pc # "idle" =>
           Range(op'[t].held) \subseteq Range(stored'[op'[t].file]) \cup {op'[t].msg}
    BY DEF SessionInv, FromStored
  <2>3. \A t \in Threads :
           op'[t].pc \in {"statLoad", "statOpen", "statWrite", "ai"} =>
              op'[t].msg \in Range(stored'[op'[t].file])
    BY DEF SessionInv, FromStored
  <2> QED  BY <2>1, <2>2, <2>3 DEF FromStored, Range
<1>b. RewritingIsTorn'  BY DEF SessionInv, RewritingIsTorn
<1>1. FromStored' /\ RewritingIsTorn'  BY <1>a, <1>b
<1>2. OpOfUser'
  <2> SUFFICES ASSUME NEW t \in Reactors, op'[t].pc # "idle"
               PROVE  op'[t].file = <<"user_", user'[op'[t].msg.by]>>
    BY DEF OpOfUser, UserFile
  <2>1. /\ op'[t] = op[t] /\ op[t].pc # "idle" /\ t \in Threads /\ t # RoomThread
    BY FileTypes DEF Threads
  <2>2. op[t].file = UserFile(op[t].msg.by)  BY <2>1 DEF SessionInv, OpOfUser
  <2>3. op[t].msg.by \in Sockets /\ Loop[op[t].msg.by] = t
    BY <2>1 DEF StorageInv, OpInv
  <2>4. user'[op[t].msg.by] = user[op[t].msg.by]  BY <2>1, <2>3
  <2> QED  BY <2>1, <2>2, <2>4 DEF UserFile
<1>3. ASSUME NEW s \in Sockets  PROVE SocketInv(s)'
  <2>1. SocketInv(s)  BY SessionParts
  <2>2. op'[Loop[s]] = op[Loop[s]] /\ stored'[UserFile(s)] = stored[UserFile(s)]
    OBVIOUS
  <2>3. InHand(s)' = InHand(s) /\ Unstored(s)' = Unstored(s)
    BY <2>2, SameThread
  <2>4. spoiled \subseteq spoiled'  OBVIOUS
  <2>5. CASE chat'[s] = chat[s] /\ since'[s] = since[s] /\ user'[s] = user[s]
    BY <2>1, <2>2, <2>3, <2>4, <2>5, SocketSame
  <2> QED  BY <2>5
<1> QED  BY <1>1, <1>2, <1>3, SessionPartsNext DEF SharedInv

(* Registering: a row for a name that had none, so for nobody's. *)
LEMMA RegisterSession ==
    ASSUME StorageInv, SessionInv, NEW s \in Sockets, NEW name \in Names,
           NEW id \in Accounts, Register(s, name, id)
    PROVE  SessionInv'
<1>1. /\ users[name] = Guest /\ users' = [users EXCEPT ![name] = id]
      /\ UNCHANGED <<vars, username, chat, since>>
  BY DEF Register, Inserts
<1>2. UNCHANGED <<up, file, user, nextRoomId, rooms, memory, op, texts, crashes,
                  made, stored, spoiled, diedOf, username, chat, since>>
  BY <1>1 DEF vars, processVars, boundVars
<1>3. SessionTypeOK'
  <2>1. StorageTypeOK'  BY <1>2 DEF SessionInv, SessionTypeOK, StorageTypeOK
  <2>2. users' \in [Names -> Users]
    BY <1>1 DEF SessionInv, SessionTypeOK, Users
  <2> QED  BY <1>2, <2>1, <2>2 DEF SessionInv, SessionTypeOK
<1>4. SessionIsOneAccount'
  <2> SUFFICES ASSUME NEW q \in Sockets
               PROVE  IF username'[q] = NoName THEN user'[q] = Guest
                      ELSE user'[q] # Guest /\ user'[q] = users'[username'[q]]
    BY DEF SessionIsOneAccount
  <2>1. /\ username'[q] = username[q] /\ user'[q] = user[q]
        /\ username[q] \in Names \cup {NoName}
        /\ IF username[q] = NoName THEN user[q] = Guest
           ELSE user[q] # Guest /\ user[q] = users[username[q]]
    BY <1>2 DEF SessionInv, SessionTypeOK, SessionIsOneAccount
  <2>2. username[q] # NoName => username[q] # name  BY <1>1, <2>1
  <2>3. \A n \in Names \ {name} : users'[n] = users[n]
    BY <1>1 DEF SessionInv, SessionTypeOK
  <2> QED  BY <2>1, <2>2, <2>3
<1> QED  BY <1>2, <1>3, <1>4, QuietSession

(* A login that succeeds: what is remembered is what was stored. *)
LEMMA LoginSession ==
    ASSUME StorageInv, StorageInv', SessionInv, NEW s \in Sockets, NEW name \in Names,
           LoginOk(s, name)
    PROVE  SessionInv'
<1> DEFINE u == users[name]
           f == <<"user_", u>>
           ms == file[f].messages
<1>1. /\ up /\ op[Loop[s]].pc = "idle" /\ u # Guest /\ Login(s, u) /\ users' = users
      /\ IF up'
         THEN /\ username' = [username EXCEPT ![s] = name]
              /\ chat' = [chat EXCEPT ![s] = ms]
              /\ since' = [since EXCEPT ![s] = Len(stored[f])]
         ELSE SocketsAfter
  BY DEF LoginOk, Handles, Remembered
<1>2. u \in Users  BY DEF SessionInv, SessionTypeOK
<1>3. f \in Files  BY <1>2 DEF Files
<1>4. CASE file[f].state = "torn"
  <2>1. ProcessEnds(f)  BY <1>1, <1>4 DEF Login
  <2>2. SocketsAfter  BY <1>1, <2>1 DEF ProcessEnds
  <2> QED  BY <1>1, <2>1, <2>2, EndsSession DEF StorageInv
<1>5. CASE file[f].state # "torn"
  <2>1. /\ user' = [user EXCEPT ![s] = u]
        /\ UNCHANGED <<up, file, op, stored, spoiled>>
    BY <1>1, <1>5 DEF Login
  <2>2. /\ username' = [username EXCEPT ![s] = name]
        /\ chat' = [chat EXCEPT ![s] = ms]
        /\ since' = [since EXCEPT ![s] = Len(stored[f])]
    BY <1>1, <2>1
  <2>3. ms \in Seq(Messages) /\ stored[f] \in Seq(Messages) /\ Len(stored[f]) \in Nat
    BY <1>3 DEF StorageInv, StorageTypeOK, Contents
  <2> HIDE DEF ms, f, u
  <2>4. /\ username'[s] = name /\ chat'[s] = ms /\ since'[s] = Len(stored[f])
        /\ user'[s] = u
        /\ \A q \in Sockets \ {s} : /\ username'[q] = username[q] /\ chat'[q] = chat[q]
                                    /\ since'[q] = since[q] /\ user'[q] = user[q]
    BY <2>1, <2>2 DEF SessionInv, SessionTypeOK, StorageInv, StorageTypeOK
  <2>5. SessionTypeOK'
    <3>1. StorageTypeOK'  BY DEF StorageInv
    <3>2. username' \in [Sockets -> Names \cup {NoName}]
      BY <2>2 DEF SessionInv, SessionTypeOK
    <3>3. chat' \in [Sockets -> Seq(Messages)] /\ since' \in [Sockets -> Nat]
      BY <2>2, <2>3 DEF SessionInv, SessionTypeOK
    <3> QED  BY <1>1, <3>1, <3>2, <3>3 DEF SessionInv, SessionTypeOK
  <2>6. SessionIsOneAccount'
    <3> SUFFICES ASSUME NEW q \in Sockets
                 PROVE  IF username'[q] = NoName THEN user'[q] = Guest
                        ELSE user'[q] # Guest /\ user'[q] = users'[username'[q]]
      BY DEF SessionIsOneAccount
    <3>1. name # NoName  BY SessionAssumption
    <3>2. CASE q = s  BY <1>1, <2>4, <3>1, <3>2 DEF u
    <3>3. CASE q # s
      BY <1>1, <2>4, <3>3 DEF SessionInv, SessionIsOneAccount
    <3> QED  BY <3>2, <3>3
  <2>7. SocketInv(s)'
    <3>1. UserFile(s)' = f  BY <2>4 DEF UserFile, f
    <3>2. stored'[f] = stored[f]  BY <2>1
    <3>3. Range(ms) \subseteq Range(stored[f])
      BY <1>3 DEF SessionInv, FromStored, ms
    <3>4. Unstored(s)' = <<>>  BY <1>1, <2>1 DEF Unstored, Pending
    <3>5. stored[f] \o <<>> = stored[f]  BY <2>3, EmptyConcat
    <3>6. ASSUME f \notin spoiled  PROVE NewestAtLeast(FileCap, ms, stored[f])
      <4>1. ~Rewriting(f)
        BY <1>5, <3>6 DEF Rewriting, SessionInv, RewritingIsTorn
      <4>2. NewestOf(FileCap, ms, stored[f])
        BY <1>3, <3>6, <4>1 DEF StorageInv, KeptUnlessSpoiled, ms
      <4>3. FileCap \in Nat /\ Len(ms) \in Nat  BY <2>3, StorageAssumption
      <4>4. /\ Len(ms) = IF Len(stored[f]) < FileCap THEN Len(stored[f]) ELSE FileCap
            /\ \A i \in 1 .. Len(ms) : ms[i] = stored[f][Len(stored[f]) - Len(ms) + i]
        BY <4>2 DEF NewestOf
      <4>5. /\ Len(ms) = IF Len(stored[f]) < Len(ms) THEN Len(stored[f]) ELSE Len(ms)
            /\ Len(ms) = Len(stored[f]) \/ Len(ms) >= FileCap
        BY <2>3, <4>3, <4>4
      <4> QED  BY <4>4, <4>5 DEF NewestAtLeast, NewestOf
    <3>7. /\ Range(chat[s])' \subseteq Range(stored[UserFile(s)])' \cup InHand(s)'
          /\ since'[s] <= Len(stored'[UserFile(s)'])
          /\ UserFile(s)' \notin spoiled' =>
                NewestAtLeast(FileCap, chat'[s], stored'[UserFile(s)'] \o Unstored(s)')
      <4>1. Range(chat[s])' \subseteq Range(stored[UserFile(s)])'
        BY <2>4, <3>1, <3>2, <3>3 DEF Range
      <4>2. since'[s] <= Len(stored'[UserFile(s)'])
        BY <2>3, <2>4, <3>1, <3>2
      <4>3. spoiled' = spoiled  BY <2>1
      <4> QED  BY <2>4, <3>1, <3>2, <3>4, <3>5, <3>6, <4>1, <4>2, <4>3
    <3> QED  BY <3>7 DEF SocketInv, NewestAtLeast, NewestOf
  <2>8. \A q \in Sockets : op[Loop[q]].pc # "idle" => user'[q] = user[q]
    BY <1>1, <2>4
  <2>9. \A q \in Sockets : \/ SocketInv(q)'
                           \/ /\ chat'[q] = chat[q] /\ since'[q] = since[q]
                              /\ user'[q] = user[q]
    <3> SUFFICES ASSUME NEW q \in Sockets
                 PROVE  \/ SocketInv(q)'
                        \/ /\ chat'[q] = chat[q] /\ since'[q] = since[q]
                           /\ user'[q] = user[q]
      OBVIOUS
    <3>1. CASE q = s  BY <2>7, <3>1
    <3>2. CASE q # s  BY <2>4, <3>2
    <3> QED  BY <3>1, <3>2
  <2> QED  BY <2>1, <2>5, <2>6, <2>8, <2>9, QuietSession
<1> QED  BY <1>4, <1>5

(* A Socket is given up for a new one. *)
LEMMA LeaveSession ==
    ASSUME StorageInv, StorageInv', SessionInv, NEW s \in Sockets, Leave(s)
    PROVE  SessionInv'
<1>1. /\ op[Loop[s]].pc = "idle" /\ users' = users
      /\ Reconnect(s) \/ (user[s] = Guest /\ UNCHANGED vars)
      /\ username' = [username EXCEPT ![s] = NoName]
      /\ chat' = [chat EXCEPT ![s] = <<>>] /\ since' = [since EXCEPT ![s] = 0]
  BY DEF Leave, Handles
<1>2. /\ UNCHANGED <<file, op, stored, spoiled>>
      /\ user'[s] = Guest /\ \A q \in Sockets \ {s} : user'[q] = user[q]
  BY <1>1 DEF Reconnect, vars, processVars, StorageInv, StorageTypeOK
<1>3. /\ username'[s] = NoName /\ chat'[s] = <<>> /\ since'[s] = 0
      /\ \A q \in Sockets \ {s} : /\ username'[q] = username[q]
                                  /\ chat'[q] = chat[q] /\ since'[q] = since[q]
  BY <1>1 DEF SessionInv, SessionTypeOK
<1>4. SessionTypeOK'
  <2>1. StorageTypeOK'  BY DEF StorageInv
  <2>2. /\ username' \in [Sockets -> Names \cup {NoName}]
        /\ chat' \in [Sockets -> Seq(Messages)] /\ since' \in [Sockets -> Nat]
    BY <1>1 DEF SessionInv, SessionTypeOK
  <2> QED  BY <1>1, <2>1, <2>2 DEF SessionInv, SessionTypeOK
<1>5. SessionIsOneAccount'
  BY <1>1, <1>2, <1>3 DEF SessionInv, SessionIsOneAccount
<1>6. SocketInv(s)'
  BY <1>2, <1>3, <1>4, SocketFresh DEF SessionTypeOK
<1>7. \A q \in Sockets : op[Loop[q]].pc # "idle" => user'[q] = user[q]
  BY <1>1, <1>2
<1>8. \A q \in Sockets : \/ SocketInv(q)'
                         \/ /\ chat'[q] = chat[q] /\ since'[q] = since[q]
                            /\ user'[q] = user[q]
  <2> SUFFICES ASSUME NEW q \in Sockets
               PROVE  \/ SocketInv(q)'
                      \/ /\ chat'[q] = chat[q] /\ since'[q] = since[q]
                         /\ user'[q] = user[q]
    OBVIOUS
  <2>1. CASE q = s  BY <1>6, <2>1
  <2>2. CASE q # s  BY <1>2, <1>3, <2>2
  <2> QED  BY <2>1, <2>2
<1> QED  BY <1>2, <1>4, <1>5, <1>7, <1>8, QuietSession

(* An appendMessage begins on t: for the room thread, or for Socket a, which  *)
(* remembers its message at once.                                           *)
LEMMA BeginShared ==
    ASSUME StorageInv, SessionInv, NEW t \in Threads, ~Busy(t), NEW a, NEW f \in Files,
           op'[t].pc = "exists", op'[t].held = <<>>, op'[t].file = f,
           op'[t].msg.by = a, \A u \in Threads \ {t} : op'[u] = op[u],
           t \in Reactors => f = UserFile(a),
           spoiled \subseteq spoiled', UNCHANGED <<file, stored, user>>
    PROVE  SharedInv'
<1>1. FromStored'
  <2>1. \A g \in Files : Range(file'[g].messages) \subseteq Range(stored'[g])
    BY DEF SessionInv, FromStored
  <2>2. Range(<<>>) = {}  BY DEF Range
  <2>3. \A u \in Threads : op'[u].pc # "idle" =>
           Range(op'[u].held) \subseteq Range(stored'[op'[u].file]) \cup {op'[u].msg}
    BY <2>2 DEF SessionInv, FromStored
  <2>4. \A u \in Threads :
           op'[u].pc \in {"statLoad", "statOpen", "statWrite", "ai"} =>
              op'[u].msg \in Range(stored'[op'[u].file])
    BY DEF SessionInv, FromStored
  <2> QED  BY <2>1, <2>3, <2>4 DEF FromStored, Range
<1>2. RewritingIsTorn'  BY DEF SessionInv, RewritingIsTorn
<1>3. OpOfUser'
  <2> SUFFICES ASSUME NEW u \in Reactors, op'[u].pc # "idle"
               PROVE  op'[u].file = <<"user_", user'[op'[u].msg.by]>>
    BY DEF OpOfUser, UserFile
  <2>1. CASE u = t  BY <2>1 DEF UserFile
  <2>2. CASE u # t
    <3>1. u \in Threads  BY DEF Threads
    <3>2. op'[u] = op[u]  BY <2>2, <3>1
    <3>3. op[u].file = UserFile(op[u].msg.by)  BY <3>2 DEF SessionInv, OpOfUser
    <3> QED  BY <3>2, <3>3 DEF UserFile
  <2> QED  BY <2>1, <2>2
<1> QED  BY <1>1, <1>2, <1>3 DEF SharedInv

LEMMA BeginSession ==
    ASSUME StorageInv, StorageInv', SessionInv, NEW s \in Sockets,
           op[Loop[s]].pc = "idle" \/ Asks(s), NEW cut \in BOOLEAN, NEW last \in BOOLEAN,
           BeginAppend(Loop[s], s, UserFile(s), cut, last), Emplaced(s),
           UNCHANGED <<file, stored, user, users, username, since>>
    PROVE  SessionInv'
<1> DEFINE t == Loop[s]
           f == UserFile(s)
           m == [by |-> s, n |-> made[s] + 1]
<1>1. /\ f \in Files /\ stored[f] \in Seq(Messages) /\ t \in Reactors
      /\ t \in Threads /\ t # RoomThread /\ s \in Authors /\ s # 0
  BY SocketFacts DEF StorageInv
<1>2. /\ op'[t] = [pc |-> "exists", file |-> f, cut |-> cut, last |-> last,
                   msg |-> m, held |-> <<>>]
      /\ \A u \in Threads \ {t} : op'[u] = op[u]
      /\ m \in Messages
  BY <1>1, BeginType DEF StorageInv
<1>3. m.by = s  OBVIOUS
<1> HIDE DEF m
<1>4. /\ op'[t].pc = "exists" /\ op'[t].held = <<>> /\ op'[t].file = f
      /\ op'[t].msg = m
  BY <1>2
<1>5. spoiled \subseteq spoiled'  BY DEF BeginAppend, Spoils
<1>6. /\ chat'[s] = Append(chat[s], m) /\ chat[s] \in Seq(Messages)
      /\ \A q \in Sockets \ {s} : chat'[q] = chat[q]
      /\ chat' \in [Sockets -> Seq(Messages)]
  <2>1. chat' = [chat EXCEPT ![s] = Append(chat[s], m)]  BY DEF Emplaced, m
  <2>2. chat \in [Sockets -> Seq(Messages)]  BY DEF SessionInv, SessionTypeOK
  <2>3. Append(chat[s], m) \in Seq(Messages)  BY <1>2, <2>2
  <2> QED  BY <2>1, <2>2, <2>3
<1>7. SessionTypeOK'
  BY <1>6 DEF SessionInv, SessionTypeOK, StorageInv
<1>8. SessionIsOneAccount'  BY DEF SessionInv, SessionIsOneAccount
<1>9. ~Busy(t)  BY DEF Busy, Asks
<1>10. SharedInv'
  BY <1>1, <1>2, <1>3, <1>4, <1>5, <1>9, BeginShared
(* The thread works for s or for nobody before, and for s now. *)
<1>11. op[t].pc = "idle" => op[t] = Idle  BY <1>1 DEF StorageInv, OpInv
<1>12. ASSUME NEW q \in Sockets \ {s}, Loop[q] = t
       PROVE  InHand(q)' = InHand(q) /\ Unstored(q)' = Unstored(q)
  <2>1. op[t].msg.by # q
    <3>1. CASE op[t].pc = "idle"
      <4>1. op[t].msg.by = 0  BY <1>11, <3>1 DEF Idle, NoMessage
      <4> QED  BY <4>1, SocketFacts DEF StorageInv
    <3>2. CASE Asks(s)  BY <3>2 DEF Asks
    <3> QED  BY <3>1, <3>2
  <2>2. op'[t].msg.by # q  BY <1>3, <1>4
  <2> QED  BY <1>12, <2>1, <2>2 DEF InHand, Unstored
<1>13. SocketInv(s)'
  <2>1. SocketInv(s)  BY SessionParts
  <2>2. UserFile(s)' = f /\ stored'[f] = stored[f]  BY DEF UserFile
  <2>3. InHand(s)' = {m} /\ Unstored(s)' = <<m>>
    BY <1>3, <1>4 DEF InHand, Unstored, Pending
  <2>4. InHand(s) \subseteq Range(stored[f])
    <3>1. CASE op[t].pc = "idle"
      <4>1. op[t].msg.by = 0  BY <1>11, <3>1 DEF Idle, NoMessage
      <4> QED  BY <1>1, <4>1 DEF InHand
    <3>2. CASE Asks(s)
      <4>1. /\ op[t].pc = "ai" /\ op[t].pc # "idle" /\ op[t].msg.by = s
        BY <3>2 DEF Asks
      <4>2. op[t].file = f  BY <1>1, <4>1 DEF SessionInv, OpOfUser
      <4>3. op[t].msg \in Range(stored[f])
        BY <1>1, <4>1, <4>2 DEF SessionInv, FromStored
      <4> QED  BY <4>3 DEF InHand
    <3> QED  BY <3>1, <3>2
  <2>5. Unstored(s) = <<>>  BY DEF Unstored, Pending, Asks
  <2>6. /\ Range(chat[s]) \subseteq Range(stored[f])
        /\ since[s] <= Len(stored[f])
        /\ Alone(s) /\ f \notin spoiled => NewestAtLeast(FileCap, chat[s], stored[f])
    BY <1>1, <2>1, <2>4, <2>5, EmptyConcat DEF SocketInv
  <2>7. Range(Append(chat[s], m)) = Range(chat[s]) \cup {m}
    BY <1>2, <1>6, AppendRange
  <2>8. Alone(s)' => Alone(s)  BY <2>2 DEF Alone
  <2>9. ASSUME Alone(s), f \notin spoiled
        PROVE  NewestAtLeast(FileCap, Append(chat[s], m), stored[f] \o <<m>>)
    <3>1. NewestAtLeast(FileCap, chat[s], stored[f])  BY <2>6, <2>9
    <3>2. FileCap \in Nat  BY StorageAssumption
    <3>3. NewestAtLeast(FileCap, Append(chat[s], m), Append(stored[f], m))
      BY <1>1, <1>2, <1>6, <3>1, <3>2, AtLeastAppended
    <3> QED  BY <1>1, <1>2, <3>3, EmptyConcat
  <2> HIDE DEF f
  <2>10. /\ Range(chat[s])' \subseteq Range(stored[UserFile(s)])' \cup InHand(s)'
         /\ since'[s] <= Len(stored'[UserFile(s)'])
         /\ Alone(s)' /\ UserFile(s)' \notin spoiled' =>
               NewestAtLeast(FileCap, chat'[s], stored'[UserFile(s)'] \o Unstored(s)')
    <3>1. Range(chat[s])' = Range(Append(chat[s], m))  BY <1>6 DEF Range
    <3>2. Range(stored[UserFile(s)])' = Range(stored[f])  BY <2>2 DEF Range
    <3>3. since'[s] <= Len(stored'[UserFile(s)'])  BY <2>2, <2>6
    <3> QED
      BY <1>5, <1>6, <2>2, <2>3, <2>6, <2>7, <2>8, <2>9, <3>1, <3>2, <3>3
  <2> QED  BY <2>10 DEF SocketInv, NewestAtLeast, NewestOf
<1>14. ASSUME NEW q \in Sockets \ {s}  PROVE SocketInv(q)'
  <2>1. SocketInv(q)  BY SessionParts
  <2>2. Loop[q] \in Threads  BY FileTypes
  <2>3. InHand(q)' = InHand(q) /\ Unstored(q)' = Unstored(q)
    <3>1. CASE Loop[q] = t  BY <1>12, <3>1
    <3>2. CASE Loop[q] # t  BY <1>2, <2>2, <3>2, SameThread
    <3> QED  BY <3>1, <3>2
  <2> QED  BY <1>5, <1>6, <2>1, <2>3, SocketSame
<1> QED  BY <1>7, <1>8, <1>10, <1>13, <1>14, SessionPartsNext

(* The room thread's work concerns no Socket. *)
LEMMA AddHistorySession ==
    ASSUME StorageInv, StorageInv', SessionInv, NEW r \in RoomIds, NEW cut \in BOOLEAN,
           AddHistory(r, cut), SocketsAfter, UNCHANGED users
    PROVE  SessionInv'
<1> DEFINE f == RoomFile(r)
           t == RoomThread
<1>1. /\ up /\ op[t].pc = "idle" /\ BeginAppend(t, r, f, cut, TRUE)
      /\ UNCHANGED <<up, file, user, stored>>
  BY DEF AddHistory
<1>2. UNCHANGED <<username, chat, since>>  BY <1>1 DEF SocketsAfter
<1>3. f \in Files /\ t \in Threads /\ r \in Authors /\ t \notin Reactors
  BY FileTypes DEF Authors
<1>5. /\ op'[t].pc = "exists" /\ op'[t].held = <<>> /\ op'[t].file = f
      /\ op'[t].msg.by = r /\ \A u \in Threads \ {t} : op'[u] = op[u]
  <2>1. PICK last \in BOOLEAN : last = TRUE  OBVIOUS
  <2>2. BeginAppend(t, r, f, cut, last) /\ StorageTypeOK
    BY <1>1, <2>1 DEF StorageInv
  <2> HIDE DEF f, t
  <2>3. /\ op'[t] = [pc |-> "exists", file |-> f, cut |-> cut, last |-> last,
                     msg |-> [by |-> r, n |-> made[r] + 1], held |-> <<>>]
        /\ \A u \in Threads \ {t} : op'[u] = op[u]
    BY <1>3, <2>2, BeginType
  <2> QED  BY <2>3
<1>6. spoiled \subseteq spoiled'  BY <1>1 DEF BeginAppend, Spoils
<1>7. SharedInv'
  <2>1. ~Busy(t)  BY <1>1 DEF Busy
  <2> QED  BY <1>1, <1>3, <1>5, <1>6, <2>1, BeginShared
<1>8. SessionTypeOK' /\ SessionIsOneAccount'
  BY <1>1, <1>2 DEF SessionInv, SessionTypeOK, StorageInv, SessionIsOneAccount
<1>9. ASSUME NEW s \in Sockets  PROVE SocketInv(s)'
  <2>1. SocketInv(s)  BY SessionParts
  <2>2. op'[Loop[s]] = op[Loop[s]]  BY <1>5, FileTypes
  <2>3. InHand(s)' = InHand(s) /\ Unstored(s)' = Unstored(s)
    BY <2>2, SameThread
  <2> QED  BY <1>1, <1>2, <1>6, <2>1, <2>3, SocketSame
<1> QED  BY <1>7, <1>8, <1>9, SessionPartsNext

(* A step of appendMessage on t. *)
LEMMA StepSession ==
    ASSUME StorageInv, StorageInv', SessionInv, NEW t \in Threads, Busy(t), StepOf(t),
           SocketsAfter, UNCHANGED users,
           Range(file'[op[t].file].messages) \subseteq Range(stored'[op[t].file]),
           op'[t] # Idle => Range(op'[t].held) \subseteq
                               Range(stored'[op[t].file]) \cup {op[t].msg},
           op'[t] = Idle \/ op'[t].pc \in {"statLoad", "statOpen", "statWrite", "ai"}
              => op[t].msg \in Range(stored'[op[t].file]),
           /\ op'[t].pc \in {"createWrite", "saveWrite", "statWrite"}
           /\ op[t].file \notin spoiled
           => file'[op[t].file].state = "torn",
           \/ /\ stored'[op[t].file] = stored[op[t].file]
              /\ Pending(t)' <=> Pending(t)
           \/ /\ stored'[op[t].file] = Append(stored[op[t].file], op[t].msg)
              /\ Pending(t) /\ ~Pending(t)'
    PROVE  SessionInv'
<1> DEFINE f == op[t].file
           m == op[t].msg
<1>1. /\ f \in Files /\ m \in Messages /\ op[t].pc # "idle"
      /\ stored[f] \in Seq(Messages)
  BY BusyFacts
<1>2. /\ UNCHANGED <<up, user, spoiled>> /\ up
      /\ \A u \in Threads \ {t} : op'[u] = op[u]
      /\ \A g \in Files \ {f} : file'[g] = file[g] /\ stored'[g] = stored[g]
      /\ \/ op'[t] = Idle
         \/ op'[t].pc # "idle" /\ op'[t].file = f /\ op'[t].msg = m
  BY <1>1 DEF StepOf, processVars, StorageInv, OpInv
<1>3. UNCHANGED <<username, chat, since>>  BY <1>2 DEF SocketsAfter
<1>4. IF t \in Reactors THEN m.by \in Sockets /\ Loop[m.by] = t /\ f = UserFile(m.by)
                        ELSE m.by \notin Sockets
  <2>1. CASE t = RoomThread
    <3>1. m.by \in RoomIds
      BY <1>1, <2>1 DEF StorageInv, OpInv, StorageTypeOK
    <3> QED  BY <2>1, <3>1, FileTypes
  <2>2. CASE t # RoomThread
    <3>1. t \in Reactors  BY <2>2 DEF Threads
    <3>2. m.by \in Sockets /\ Loop[m.by] = t
      BY <1>1, <2>2 DEF StorageInv, OpInv
    <3>3. f = UserFile(m.by)  BY <1>1, <3>1 DEF SessionInv, OpOfUser
    <3> QED  BY <3>1, <3>2, <3>3
  <2> QED  BY <2>1, <2>2
<1>5. /\ Range(stored[f]) \subseteq Range(stored'[f])
      /\ Len(stored[f]) <= Len(stored'[f])
      /\ \A i \in 1 .. Len(stored[f]) : stored'[f][i] = stored[f][i]
  <2>1. CASE stored'[f] = stored[f]  BY <1>1, <2>1
  <2>2. CASE stored'[f] = Append(stored[f], m)
    <3>1. Len(stored[f]) \in Nat  BY <1>1
    <3> QED  BY <1>1, <2>2, <3>1, AppendRange
  <2> QED  BY <2>1, <2>2
<1>6. /\ Range(file'[f].messages) \subseteq Range(stored'[f])
      /\ op'[t] # Idle => Range(op'[t].held) \subseteq Range(stored'[f]) \cup {m}
      /\ op'[t] = Idle \/ op'[t].pc \in {"statLoad", "statOpen", "statWrite", "ai"}
            => m \in Range(stored'[f])
      /\ op'[t].pc \in {"createWrite", "saveWrite", "statWrite"} /\ f \notin spoiled
            => file'[f].state = "torn"
      /\ \/ stored'[f] = stored[f] /\ (Pending(t)' <=> Pending(t))
         \/ stored'[f] = Append(stored[f], m) /\ Pending(t) /\ ~Pending(t)'
  OBVIOUS
<1> HIDE DEF f, m
<1>7. \A g \in Files : Range(stored[g]) \subseteq Range(stored'[g])
  BY <1>2, <1>5
<1>8. Idle.pc = "idle"  BY DEF Idle
<1>9. FromStored'
  <2>1. ASSUME NEW g \in Files  PROVE Range(file'[g].messages) \subseteq Range(stored'[g])
    BY <1>2, <1>6 DEF SessionInv, FromStored
  <2>2. ASSUME NEW u \in Threads, op'[u].pc # "idle"
        PROVE  /\ Range(op'[u].held) \subseteq
                      Range(stored'[op'[u].file]) \cup {op'[u].msg}
               /\ op'[u].pc \in {"statLoad", "statOpen", "statWrite", "ai"} =>
                      op'[u].msg \in Range(stored'[op'[u].file])
    <3>1. CASE u = t  BY <1>2, <1>6, <1>8, <2>2, <3>1
    <3>2. CASE u # t
      <4>1. op'[u] = op[u] /\ op[u].pc # "idle"  BY <1>2, <2>2, <3>2
      <4>2. op[u].file \in Files  BY <4>1 DEF StorageInv, OpInv
      <4>3. Range(stored[op[u].file]) \subseteq Range(stored'[op[u].file])
        BY <1>7, <4>2
      <4> QED  BY <4>1, <4>3 DEF SessionInv, FromStored
    <3> QED  BY <3>1, <3>2
  <2>3. \A u \in Threads : op'[u].pc \in {"statLoad", "statOpen", "statWrite", "ai"} =>
           op'[u].msg \in Range(stored'[op'[u].file])
    BY <2>2
  <2> QED  BY <2>1, <2>2, <2>3 DEF FromStored, Range
<1>10. RewritingIsTorn'
  <2> SUFFICES ASSUME NEW u \in Threads,
                      op'[u].pc \in {"createWrite", "saveWrite", "statWrite"},
                      op'[u].file \notin spoiled'
               PROVE  file'[op'[u].file].state = "torn"
    BY DEF RewritingIsTorn
  <2>1. CASE u = t  BY <1>2, <1>6, <1>8, <2>1
  <2>2. CASE u # t
    <3>1. op'[u] = op[u] /\ Busy(u)  BY <1>2, <2>2 DEF Busy
    <3>2. op[u].file \in Files  BY <3>1, BusyFacts
    <3>3. op[u].file # f
      BY <1>1, <1>2, <2>2, <3>1 DEF StorageInv, OneAtATime, f
    <3> QED  BY <1>2, <3>1, <3>2, <3>3 DEF SessionInv, RewritingIsTorn
  <2> QED  BY <2>1, <2>2
<1>11. OpOfUser'
  <2> SUFFICES ASSUME NEW u \in Reactors, op'[u].pc # "idle"
               PROVE  op'[u].file = <<"user_", user'[op'[u].msg.by]>>
    BY DEF OpOfUser, UserFile
  <2>1. CASE u = t  BY <1>2, <1>4, <1>8, <2>1 DEF UserFile
  <2>2. CASE u # t
    <3>1. op'[u] = op[u]  BY <1>2, <2>2 DEF Threads
    <3>2. op[u].file = UserFile(op[u].msg.by)  BY <3>1 DEF SessionInv, OpOfUser
    <3> QED  BY <1>2, <3>1, <3>2 DEF UserFile
  <2> QED  BY <2>1, <2>2
<1>12. SessionTypeOK' /\ SessionIsOneAccount'
  BY <1>2, <1>3 DEF SessionInv, SessionTypeOK, StorageInv, SessionIsOneAccount
<1>13. ASSUME NEW q \in Sockets  PROVE SocketInv(q)'
  <2> DEFINE g == UserFile(q)
             all == stored[g]
  <2>1. /\ SocketInv(q) /\ g \in Files /\ all \in Seq(Messages)
        /\ Loop[q] \in Reactors /\ Loop[q] \in Threads
    BY SessionParts, SocketFacts DEF StorageInv
  <2>2. UserFile(q)' = g  BY <1>2 DEF UserFile
  <2>3. spoiled \subseteq spoiled'  BY <1>2
  <2>4. CASE m.by # q
    (* The step is not for q; if it stores in q's file, q is not alone. *)
    <3>1. InHand(q)' = InHand(q) /\ Unstored(q)' = Unstored(q)
      <4>1. CASE Loop[q] # t  BY <1>2, <2>1, <4>1, SameThread
      <4>2. CASE Loop[q] = t
        <5>1. q # 0  BY SocketFacts DEF StorageInv
        <5>2. op[t].msg.by # q /\ op'[t].msg.by # q
          BY <1>2, <2>4, <5>1 DEF m, Idle, NoMessage
        <5> QED  BY <4>2, <5>2 DEF InHand, Unstored
      <4> QED  BY <4>1, <4>2
    <3>2. CASE stored'[g] = all
      BY <1>2, <1>3, <2>1, <2>3, <3>1, <3>2, SocketSame
    <3>3. CASE stored'[g] # all
      <4>1. g = f /\ stored'[g] = Append(all, m)  BY <1>2, <1>6, <2>1, <3>3
      <4>2. ~Alone(q)'
        <5>1. /\ Len(stored'[g]) = Len(all) + 1 /\ stored'[g][Len(all) + 1] = m
              /\ Len(all) \in Nat
          BY <1>1, <2>1, <4>1, AppendRange
        <5>2. since'[q] <= Len(all) /\ since'[q] \in Nat
          BY <1>3, <2>1 DEF SocketInv, SessionInv, SessionTypeOK
        <5>3. Len(all) + 1 \in since'[q] + 1 .. Len(stored'[g])
          BY <5>1, <5>2
        <5> HIDE DEF g, all
        <5> QED  BY <2>2, <2>4, <5>1, <5>3 DEF Alone
      <4>3. Range(chat[q])' \subseteq Range(stored[UserFile(q)])' \cup InHand(q)'
        <5>1. Range(chat[q]) \subseteq Range(all) \cup InHand(q)
          BY <2>1 DEF SocketInv
        <5>2. Range(all) \subseteq Range(stored'[g])  BY <1>7, <2>1
        <5>3. Range(chat[q])' = Range(chat[q])  BY <1>3 DEF Range
        <5>4. Range(stored[UserFile(q)])' = Range(stored'[g])  BY <2>2 DEF Range
        <5> QED  BY <3>1, <5>1, <5>2, <5>3, <5>4
      <4>4. since'[q] <= Len(stored'[UserFile(q)'])
        <5>1. since[q] <= Len(all) /\ since[q] \in Nat
          BY <2>1 DEF SocketInv, SessionInv, SessionTypeOK
        <5>2. Len(stored'[g]) = Len(all) + 1 /\ Len(all) \in Nat
          BY <1>1, <2>1, <4>1, AppendRange
        <5>3. since'[q] <= Len(stored'[g])  BY <1>3, <5>1, <5>2
        <5> HIDE DEF g
        <5> QED  BY <2>2, <5>3
      <4> QED  BY <4>2, <4>3, <4>4 DEF SocketInv
    <3> QED  BY <3>2, <3>3
  <2>5. CASE m.by = q
    (* The step is for q: what it stores is what q remembers and has in hand. *)
    <3>1. Loop[q] = t /\ g = f  BY <1>4, <2>1, <2>5
    <3>2. InHand(q) = {m}  BY <2>5, <3>1 DEF InHand, m
    <3>3. Unstored(q) = IF Pending(t) THEN <<m>> ELSE <<>>
      BY <2>5, <3>1 DEF Unstored, m
    <3>4. op'[t] # Idle => InHand(q)' = {m}
      BY <1>2, <2>5, <3>1 DEF InHand
    <3>5. Unstored(q)' = IF Pending(t)' THEN <<m>> ELSE <<>>
      <4>1. Pending(t)' => op'[t].msg = m  BY <1>2, <1>8 DEF Pending
      <4>2. Pending(t)' <=> Pending(Loop[q])'  BY <3>1 DEF Pending
      <4> QED  BY <2>5, <3>1, <4>1, <4>2 DEF Unstored, Pending
    <3>6. /\ Range(chat[q]) \subseteq Range(all) \cup {m}
          /\ since[q] <= Len(all) /\ since[q] \in Nat
          /\ Alone(q) /\ g \notin spoiled =>
                NewestAtLeast(FileCap, chat[q], all \o Unstored(q))
      BY <2>1, <3>2 DEF SocketInv, SessionInv, SessionTypeOK
    <3>7. Range(chat[q])' \subseteq Range(stored[UserFile(q)])' \cup InHand(q)'
      <4>1. Range(all) \subseteq Range(stored'[g])  BY <1>7, <2>1
      <4>2. m \in Range(stored'[g]) \cup InHand(q)'
        BY <1>6, <3>1, <3>4
      <4>3. Range(chat[q])' = Range(chat[q])  BY <1>3 DEF Range
      <4>4. Range(stored[UserFile(q)])' = Range(stored'[g])  BY <2>2 DEF Range
      <4> QED  BY <3>6, <4>1, <4>2, <4>3, <4>4
    <3>8. since'[q] <= Len(stored'[g])
      <4>1. Len(all) \in Nat /\ Len(stored'[g]) \in Nat
        BY <2>1 DEF StorageInv, StorageTypeOK
      <4> QED  BY <1>3, <1>5, <3>1, <3>6, <4>1
    <3>9. Alone(q)' => Alone(q)
      <4> SUFFICES ASSUME Alone(q)'  PROVE Alone(q)
        OBVIOUS
      <4> DEFINE after == stored'[g]
      <4>1. /\ user'[q] # Guest
            /\ \A i \in since'[q] + 1 .. Len(after) : after[i].by = q
        BY <2>2 DEF Alone
      <4>2. /\ Len(all) \in Nat /\ Len(after) \in Nat /\ Len(all) <= Len(after)
            /\ \A i \in 1 .. Len(all) : after[i] = all[i]
        BY <1>5, <2>1, <3>1 DEF StorageInv, StorageTypeOK
      <4> HIDE DEF after
      <4>3. ASSUME NEW i \in since[q] + 1 .. Len(all)  PROVE all[i].by = q
        <5>1. i \in since'[q] + 1 .. Len(after) /\ i \in 1 .. Len(all)
          BY <1>3, <3>6, <4>2
        <5> QED  BY <4>1, <4>2, <5>1
      <4>4. user[q] # Guest  BY <1>2, <4>1
      <4> QED  BY <4>3, <4>4 DEF Alone
    <3>10. stored'[g] \o Unstored(q)' = all \o Unstored(q)
      <4>1. CASE stored'[f] = stored[f] /\ (Pending(t)' <=> Pending(t))
        BY <3>1, <3>3, <3>5, <4>1
      <4>2. CASE stored'[f] = Append(stored[f], m) /\ Pending(t) /\ ~Pending(t)'
        <5>1. Append(all, m) \o <<>> = all \o <<m>>
          BY <1>1, <2>1, AppendRange, EmptyConcat
        <5> QED  BY <3>1, <3>3, <3>5, <4>2, <5>1
      <4> QED  BY <1>6, <4>1, <4>2
    <3>11. Alone(q)' /\ UserFile(q)' \notin spoiled' =>
              NewestAtLeast(FileCap, chat'[q], stored'[UserFile(q)'] \o Unstored(q)')
      <4>1. chat'[q] = chat[q] /\ spoiled' = spoiled  BY <1>2, <1>3
      <4> HIDE DEF g, all
      <4> QED  BY <2>2, <3>6, <3>9, <3>10, <4>1
    <3>12. since'[q] <= Len(stored'[UserFile(q)'])
      <4> HIDE DEF g
      <4> QED  BY <2>2, <3>8
    <3> QED  BY <3>7, <3>11, <3>12 DEF SocketInv, NewestAtLeast, NewestOf
  <2> QED  BY <2>4, <2>5
<1> QED  BY <1>9, <1>10, <1>11, <1>12, <1>13, SessionPartsNext DEF SharedInv

(* Steps of appendMessage that store nothing. *)
LEMMA UnstoredSession ==
    ASSUME StorageInv, StorageInv', SessionInv, NEW t \in Threads,
           \/ FileExists(t) \/ CreateOpen(t) \/ CreateWrite(t) \/ SaveOpen(t)
           \/ StatOpen(t) \/ StatWrite(t)
           \/ (LoadHistory(t) \/ StatLoad(t)) /\ file[op[t].file].state # "torn",
           SocketsAfter, UNCHANGED users
    PROVE  SessionInv'
<1> DEFINE f == op[t].file
           m == op[t].msg
           pushed == Pushed(FileCap, file[f].messages, m)
<1>1. Busy(t) /\ stored' = stored /\ Elsewhere
  BY DEF FileExists, CreateOpen, CreateWrite, SaveOpen, StatOpen, StatWrite,
         LoadHistory, StatLoad, Busy
<1>2. /\ op[t].pc # "idle" /\ op[t] \in Ops /\ f \in Files /\ m \in Messages
      /\ file[f].messages \in Seq(Messages) /\ FileCap \in Nat
      /\ op \in [Threads -> Ops] /\ file \in [Files -> Contents]
  BY <1>1, BusyFacts DEF Contents, StorageInv, StorageTypeOK
<1>3. /\ Range(file[f].messages) \subseteq Range(stored[f])
      /\ Range(op[t].held) \subseteq Range(stored[f]) \cup {m}
      /\ op[t].pc \in {"statLoad", "statOpen", "statWrite", "ai"} =>
            m \in Range(stored[f])
  BY <1>2 DEF SessionInv, FromStored
<1>4. Range(pushed) \subseteq Range(stored[f]) \cup {m}
  <2>1. Append(file[f].messages, m) \in Seq(Messages)
    BY <1>2, AppendRange
  <2>2. Range(Append(file[f].messages, m)) = Range(file[f].messages) \cup {m}
    BY <1>2, AppendRange
  <2>3. Range(pushed) \subseteq Range(Append(file[f].messages, m))
    BY <1>2, <2>1, TrimmedOrdered DEF Pushed
  <2> QED  BY <1>3, <2>2, <2>3
<1>5. Range(<<>>) = {}  BY DEF Range
<1> HIDE DEF f, m, pushed
(* What the thread holds next, where it is, and what its file holds.        *)
<1>6. /\ \A u \in Threads \ {t} : op'[u] = op[u]
      /\ \A g \in Files \ {f} : file'[g] = file[g]
      /\ \/ op'[t] = Idle /\ op[t].pc = "statWrite"
         \/ /\ op'[t].pc # "idle" /\ op'[t].file = f /\ op'[t].msg = m
            /\ op'[t].last = op[t].last
            /\ op'[t].held \in {op[t].held, pushed, file[f].messages}
            /\ Pending(t)' <=> Pending(t)
            /\ op'[t].pc \in {"statLoad", "statOpen", "statWrite", "ai"} =>
                  op[t].pc \in {"statLoad", "statOpen", "statWrite", "ai"}
      /\ \/ op[t].pc = "statWrite" /\ file'[f].messages = op[t].held
         \/ file'[f].messages \in {file[f].messages, <<>>}
      /\ op'[t].pc \in {"createWrite", "saveWrite", "statWrite"} =>
            file'[f].state = "torn"
  <2>1. ASSUME NEW pc \in Places, GoTo(t, pc)
        PROVE  /\ \A u \in Threads \ {t} : op'[u] = op[u]
               /\ op'[t].pc = pc /\ op'[t].file = f /\ op'[t].msg = m
               /\ op'[t].held = op[t].held /\ op'[t].last = op[t].last
    BY <2>1, GoToFacts DEF StorageInv, f, m
  <2>2. ASSUME NEW c, Write(t, c)
        PROVE  file'[f] = c /\ \A g \in Files \ {f} : file'[g] = file[g]
    BY <1>2, <2>2 DEF Write, f
  <2>3. /\ {"createOpen", "createWrite", "load", "saveOpen", "saveWrite", "statOpen",
            "statWrite", "ai"} \subseteq Places
        /\ Torn.messages = <<>> /\ Torn.state = "torn" /\ Idle.pc = "idle"
        /\ \A ms : Whole(ms).messages = ms /\ Whole(ms).state = "whole"
    BY DEF Places, Torn, Whole, Idle
  <2>4. CASE FileExists(t)
    <3>1. PICK pc \in {"createOpen", "load"} : GoTo(t, pc)
      BY <2>4 DEF FileExists
    <3>2. op[t].pc = "exists" /\ file' = file  BY <2>4 DEF FileExists
    <3>3. pc \in Places  BY <2>3
    <3>4. Pending(t)' /\ Pending(t)  BY <2>1, <3>1, <3>2, <3>3 DEF Pending
    <3> QED  BY <2>1, <3>1, <3>2, <3>3, <3>4
  <2>5. CASE CreateOpen(t)
    <3>1. op[t].pc = "createOpen" /\ Write(t, Torn) /\ GoTo(t, "createWrite")
      BY <2>5 DEF CreateOpen
    <3>2. Pending(t)' /\ Pending(t)  BY <2>1, <2>3, <3>1 DEF Pending
    <3> QED  BY <2>1, <2>2, <2>3, <3>1, <3>2
  <2>6. CASE CreateWrite(t)
    <3>1. op[t].pc = "createWrite" /\ Write(t, Whole(<<>>)) /\ GoTo(t, "load")
      BY <2>6 DEF CreateWrite
    <3>2. Pending(t)' /\ Pending(t)  BY <2>1, <2>3, <3>1 DEF Pending
    <3> QED  BY <2>1, <2>2, <2>3, <3>1, <3>2
  <2>7. CASE SaveOpen(t)
    <3>1. op[t].pc = "saveOpen" /\ Write(t, Torn) /\ GoTo(t, "saveWrite")
      BY <2>7 DEF SaveOpen
    <3>2. Pending(t)' /\ Pending(t)  BY <2>1, <2>3, <3>1 DEF Pending
    <3> QED  BY <2>1, <2>2, <2>3, <3>1, <3>2
  <2>8. CASE StatOpen(t)
    <3>1. op[t].pc = "statOpen" /\ Write(t, Torn) /\ GoTo(t, "statWrite")
      BY <2>8 DEF StatOpen
    <3>2. ~Pending(t)' /\ ~Pending(t)  BY <2>1, <2>3, <3>1 DEF Pending
    <3> QED  BY <2>1, <2>2, <2>3, <3>1, <3>2
  <2>9. CASE StatWrite(t)
    <3>1. /\ op[t].pc = "statWrite" /\ Write(t, Whole(op[t].held))
          /\ op' = [op EXCEPT ![t] = Idle] \/ GoTo(t, "ai")
      BY <2>9 DEF StatWrite
    <3>2. file'[f].messages = op[t].held /\ \A g \in Files \ {f} : file'[g] = file[g]
      BY <2>2, <2>3, <3>1
    <3>3. CASE op' = [op EXCEPT ![t] = Idle]
      <4>1. op'[t] = Idle /\ \A u \in Threads \ {t} : op'[u] = op[u]
        BY <1>2, <3>3
      <4> QED  BY <2>3, <3>1, <3>2, <4>1
    <3>4. CASE GoTo(t, "ai")
      <4>1. ~Pending(t)' /\ ~Pending(t)  BY <2>1, <2>3, <3>1, <3>4 DEF Pending
      <4> QED  BY <2>1, <2>3, <3>1, <3>2, <3>4, <4>1
    <3> QED  BY <3>1, <3>3, <3>4
  <2>10. CASE (LoadHistory(t) \/ StatLoad(t)) /\ file[op[t].file].state # "torn"
    <3>1. PICK pc \in {"saveOpen", "statOpen"}, ms \in {pushed, file[f].messages} :
             /\ \/ op[t].pc = "load" /\ pc = "saveOpen"
                \/ op[t].pc = "statLoad" /\ pc = "statOpen"
             /\ op' = [op EXCEPT ![t].pc = pc, ![t].held = ms]
             /\ file' = file
      BY <2>10 DEF LoadHistory, StatLoad, f, m, pushed
    <3>2. /\ op'[t].pc = pc /\ op'[t].file = f /\ op'[t].msg = m /\ op'[t].held = ms
          /\ op'[t].last = op[t].last /\ \A u \in Threads \ {t} : op'[u] = op[u]
      <4> DEFINE new == [op[t] EXCEPT !.pc = pc, !.held = ms]
      <4>1. /\ new.pc = pc /\ new.file = f /\ new.msg = m
            /\ new.held = ms /\ new.last = op[t].last
        BY <1>2 DEF Ops, f, m
      <4>2. op' = [op EXCEPT ![t] = new]  BY <3>1
      <4> HIDE DEF new
      <4> QED  BY <1>2, <4>1, <4>2
    <3>3. Pending(t)' <=> Pending(t)  BY <3>1, <3>2 DEF Pending
    <3> QED  BY <3>1, <3>2, <3>3
  <2> QED  BY <2>4, <2>5, <2>6, <2>7, <2>8, <2>9, <2>10
<1>7. StepOf(t)
  BY <1>1, <1>6 DEF StepOf, Elsewhere, f, m
<1>8. Pending(t)' <=> Pending(t)  BY <1>6 DEF Pending, Idle
<1>9. op'[t] = Idle => op'[t].pc = "idle"  BY DEF Idle
<1>10. /\ op'[t] = Idle \/ op'[t].pc \in {"statLoad", "statOpen", "statWrite", "ai"}
             => m \in Range(stored[f])
       /\ op'[t] # Idle => Range(op'[t].held) \subseteq Range(stored[f]) \cup {m}
       /\ Range(file'[f].messages) \subseteq Range(stored[f])
  <2>1. op'[t] = Idle \/ op'[t].pc \in {"statLoad", "statOpen", "statWrite", "ai"}
             => m \in Range(stored[f])
    BY <1>3, <1>6, <1>9
  <2>2. op'[t] # Idle => Range(op'[t].held) \subseteq Range(stored[f]) \cup {m}
    BY <1>3, <1>4, <1>6
  <2>3. op[t].pc = "statWrite" => m \in Range(stored[f])  BY <1>3
  <2>4. Range(file'[f].messages) \subseteq Range(stored[f])
    BY <1>3, <1>5, <1>6, <2>3
  <2> QED  BY <2>1, <2>2, <2>4
<1> QED
  BY <1>1, <1>6, <1>7, <1>8, <1>10, StepSession DEF f, m

(* What is saved is stored. *)
LEMMA SavedSession ==
    ASSUME StorageInv, StorageInv', SessionInv, NEW t \in Threads, SaveWrite(t),
           SocketsAfter, UNCHANGED users
    PROVE  SessionInv'
<1> DEFINE f == op[t].file
           m == op[t].msg
<1>1. /\ op[t].pc = "saveWrite" /\ Write(t, Whole(op[t].held)) /\ AfterSave(t)
      /\ stored' = [stored EXCEPT ![f] = Append(stored[f], m)] /\ Elsewhere
  BY DEF SaveWrite
<1>2. Busy(t) /\ Pending(t)  BY <1>1 DEF Busy, Pending
<1>3. /\ op[t].pc # "idle" /\ f \in Files /\ m \in Messages
      /\ stored[f] \in Seq(Messages)
      /\ op \in [Threads -> Ops] /\ file \in [Files -> Contents]
      /\ stored \in [Files -> Seq(Messages)]
  BY <1>2, BusyFacts DEF StorageInv, StorageTypeOK
<1>4. Range(op[t].held) \subseteq Range(stored[f]) \cup {m}
  BY <1>3 DEF SessionInv, FromStored
<1>5. Range(Append(stored[f], m)) = Range(stored[f]) \cup {m}
  BY <1>3, AppendRange
<1> HIDE DEF f, m
<1>6. stored'[f] = Append(stored[f], m) /\ \A g \in Files \ {f} : stored'[g] = stored[g]
  BY <1>1, <1>3
<1>7. file'[f].messages = op[t].held /\ \A g \in Files \ {f} : file'[g] = file[g]
  BY <1>1, <1>3 DEF Write, Whole, f
<1>8. /\ \A u \in Threads \ {t} : op'[u] = op[u]
      /\ \/ op'[t] = Idle
         \/ /\ op'[t].pc = "statLoad" /\ op'[t].file = f /\ op'[t].msg = m
            /\ op'[t].held = op[t].held /\ op'[t].last = op[t].last
  <2>1. op' = [op EXCEPT ![t] = Idle] \/ GoTo(t, "statLoad")  BY <1>1 DEF AfterSave
  <2>2. CASE op' = [op EXCEPT ![t] = Idle]  BY <1>3, <2>2
  <2>3. CASE GoTo(t, "statLoad")
    <3>1. "statLoad" \in Places  BY DEF Places
    <3> QED  BY <2>3, <3>1, GoToFacts DEF StorageInv, f, m
  <2> QED  BY <2>1, <2>2, <2>3
<1>9. StepOf(t)  BY <1>1, <1>6, <1>7, <1>8 DEF StepOf, Elsewhere, f, m
<1>10. /\ ~Pending(t)'
       /\ op'[t].pc \notin {"createWrite", "saveWrite", "statWrite"}
  BY <1>8 DEF Pending, Idle
<1>11. /\ Range(file'[f].messages) \subseteq Range(stored'[f])
       /\ op'[t] # Idle => Range(op'[t].held) \subseteq Range(stored'[f]) \cup {m}
       /\ m \in Range(stored'[f])
  BY <1>4, <1>5, <1>6, <1>7, <1>8
<1> QED
  BY <1>2, <1>6, <1>9, <1>10, <1>11, StepSession DEF f, m

LEMMA AppendMessageSession ==
    ASSUME StorageInv, StorageInv', SessionInv, NEW t \in Threads, AppendMessage(t),
           SocketsAfter, UNCHANGED users
    PROVE  SessionInv'
<1>0. StorageTypeOK'  BY DEF StorageInv
<1>1. CASE SaveThrows(t)
  BY <1>0, <1>1, EndsSession DEF SaveThrows
<1>2. CASE (LoadHistory(t) \/ StatLoad(t)) /\ file[op[t].file].state = "torn"
  <2>1. ProcessEnds(op[t].file)  BY <1>2 DEF LoadHistory, StatLoad
  <2> QED  BY <1>0, <2>1, EndsSession
<1>3. CASE SaveWrite(t)  BY <1>3, SavedSession
<1> QED  BY <1>1, <1>2, <1>3, UnstoredSession DEF AppendMessage

LEMMA SessionInitInv == SessionInit => SessionInv
<1> SUFFICES ASSUME SessionInit  PROVE SessionInv
  OBVIOUS
<1>1. /\ StorageInv /\ file = [f \in Files |-> Absent] /\ op = [t \in Threads |-> Idle]
      /\ user = [s \in Sockets |-> Guest]
  BY InitInv DEF SessionInit, Init
<1>2. SessionTypeOK
  BY <1>1 DEF SessionInit, SessionTypeOK, StorageInv, Users
<1>3. /\ \A t \in Threads : op[t].pc = "idle"
      /\ \A f \in Files : file[f].messages = <<>>
      /\ Range(<<>>) = {} /\ Reactors \subseteq Threads
  BY <1>1 DEF Idle, Absent, Range, Threads
<1>4. SharedInv
  BY <1>3 DEF SharedInv, FromStored, RewritingIsTorn, OpOfUser
<1>5. SessionIsOneAccount  BY <1>1 DEF SessionInit, SessionIsOneAccount
<1>6. ASSUME NEW s \in Sockets  PROVE SocketInv(s)
  <2>1. chat[s] = <<>> /\ since[s] = 0 /\ ~Alone(s)
    BY <1>1 DEF SessionInit, Alone
  <2>2. stored[UserFile(s)] \in Seq(Messages)
    BY <1>1, SocketFacts DEF StorageInv
  <2>3. 0 <= Len(stored[UserFile(s)])  BY <2>2
  <2> QED  BY <1>3, <2>1, <2>3 DEF SocketInv
<1> QED  BY <1>2, <1>4, <1>5, <1>6, SessionParts

LEMMA SessionNextInv ==
    StorageInv /\ StorageInv' /\ SessionInv /\ [SessionNext]_allVars => SessionInv'
<1> SUFFICES ASSUME StorageInv, StorageInv', SessionInv, [SessionNext]_allVars
             PROVE  SessionInv'
  OBVIOUS
<1>0. StorageTypeOK'  BY DEF StorageInv
<1>1. ASSUME NEW s \in Sockets, NEW name \in Names, LoginOk(s, name)
      PROVE  SessionInv'
  BY <1>1, LoginSession
<1>2. ASSUME NEW s \in Sockets, NEW name \in Names, NEW id \in Accounts,
             Register(s, name, id)
      PROVE  SessionInv'
  BY <1>2, RegisterSession
<1>3. ASSUME NEW s \in Sockets, Leave(s)  PROVE SessionInv'
  BY <1>3, LeaveSession
<1>4. ASSUME NEW s \in Sockets, NEW cut \in BOOLEAN, Chat(s, cut)  PROVE SessionInv'
  <2>1. /\ op[Loop[s]].pc = "idle" /\ Emplaced(s)
        /\ BeginAppend(Loop[s], s, UserFile(s), cut, FALSE)
        /\ UNCHANGED <<file, stored, user, users, username, since>>
    BY <1>4 DEF Chat, ReadChat, processVars
  <2>2. PICK last \in BOOLEAN : last = FALSE  OBVIOUS
  <2>3. BeginAppend(Loop[s], s, UserFile(s), cut, last)  BY <2>1, <2>2
  <2> QED  BY <2>1, <2>3, BeginSession
<1>5. ASSUME NEW t \in Threads, Answer(t)  PROVE SessionInv'
  <2> DEFINE s == op[t].msg.by
  <2>1. /\ op[t].pc = "ai" /\ op[t].pc # "idle" /\ t # RoomThread
    BY <1>5 DEF Answer, AiAnswers, StorageInv, OpInv
  <2>2. s \in Sockets /\ Loop[s] = t /\ t \in Reactors
    BY <2>1 DEF StorageInv, OpInv, Threads
  <2>3. op[t].file = UserFile(s)  BY <2>1, <2>2 DEF SessionInv, OpOfUser
  <2>4. PICK cut \in BOOLEAN, last \in BOOLEAN : cut = FALSE /\ last = TRUE  OBVIOUS
  <2>5. /\ BeginAppend(Loop[s], s, UserFile(s), cut, last) /\ Emplaced(s)
        /\ UNCHANGED <<file, stored, user, users, username, since>>
    BY <1>5, <2>2, <2>3, <2>4 DEF Answer, AiAnswers, processVars
  <2>6. Asks(s)  BY <2>1, <2>2 DEF Asks
  <2> HIDE DEF s
  <2> QED  BY <2>2, <2>5, <2>6, BeginSession
<1>6. CASE StorageStep
  <2>1. SocketsAfter /\ users' = users  BY <1>6 DEF StorageStep
  <2>2. ASSUME NEW t \in Threads, AppendMessage(t)  PROVE SessionInv'
    BY <2>1, <2>2, AppendMessageSession
  <2>3. ASSUME NEW r \in RoomIds, NEW cut \in BOOLEAN, AddHistory(r, cut)
        PROVE  SessionInv'
    BY <2>1, <2>3, AddHistorySession
  <2>4. CASE Crash  BY <1>0, <2>1, <2>4, EndsSession DEF Crash
  <2>5. CASE CreateRoom /\ file[RoomFile(nextRoomId)].state = "torn"
    <3>1. ProcessEnds(RoomFile(nextRoomId))  BY <2>5 DEF CreateRoom
    <3> QED  BY <1>0, <2>1, <3>1, EndsSession
  <2>6. CASE \/ CreateFails \/ Restart
             \/ CreateRoom /\ file[RoomFile(nextRoomId)].state # "torn"
    <3>1. /\ UNCHANGED <<file, stored, op, spoiled, user>> /\ up'
      BY <2>6 DEF CreateFails, Restart, CreateRoom, processVars
    <3>2. UNCHANGED <<username, chat, since>>  BY <2>1, <3>1 DEF SocketsAfter
    <3>3. SessionTypeOK' /\ SessionIsOneAccount'
      BY <1>0, <2>1, <3>1, <3>2 DEF SessionInv, SessionTypeOK, SessionIsOneAccount
    <3> QED  BY <3>1, <3>2, <3>3, QuietSession
  <2> QED  BY <1>6, <2>2, <2>3, <2>4, <2>5, <2>6 DEF StorageStep
<1>7. CASE \/ UNCHANGED allVars
           \/ \E s \in Sockets, name \in Names : LoginFails(s, name)
  <2>1. UNCHANGED <<vars, users, username, chat, since>>
    BY <1>7 DEF LoginFails, allVars, sessionVars
  <2>2. UNCHANGED <<file, stored, op, spoiled, user>>
    BY <2>1 DEF vars, processVars
  <2>3. SessionTypeOK' /\ SessionIsOneAccount'
    BY <1>0, <2>1, <2>2 DEF SessionInv, SessionTypeOK, SessionIsOneAccount
  <2> QED  BY <2>1, <2>2, <2>3, QuietSession
<1> QED  BY <1>1, <1>2, <1>3, <1>4, <1>5, <1>6, <1>7 DEF SessionNext

-----------------------------------------------------------------------------
(* What a Socket remembers is the newest of what is stored and in hand, and  *)
(* its own, in every state (login, command '1', appendMessage).             *)
THEOREM SessionInvariantHolds == SessionSpec => []SessionInv
BY StorageInvHolds, SessionInitInv, SessionNextInv, PTL DEF SessionSpec

(* The variables keep their types, those of Storage among them. *)
THEOREM SessionTypeCorrect == SessionSpec => []SessionTypeOK
<1>1. SessionInv => SessionTypeOK  BY DEF SessionInv
<1> QED  BY <1>1, SessionInvariantHolds, PTL

(* However often a connection logs in, as whomever, it remembers nothing of  *)
(* another account's.                                                       *)
THEOREM OwnHistoriesOnly == SessionSpec => []OwnHistoryOnly
<1>1. SessionInv => OwnHistoryOnly  BY DEF SessionInv
<1> QED  BY <1>1, SessionInvariantHolds, PTL

(* m_username and id_ are always of one account. *)
THEOREM SessionsAreOneAccount == SessionSpec => []SessionIsOneAccount
<1>1. SessionInv => SessionIsOneAccount  BY DEF SessionInv
<1> QED  BY <1>1, SessionInvariantHolds, PTL

(* Whatever is shown to the AI, and however many messages a file keeps: it   *)
(* is the newest of all that the user has ever said and was answered, if    *)
(* the account was used by one connection since it logged in and nothing    *)
(* has happened to its file.                                                *)
THEOREM AiKnowsItsUser == SessionSpec => []AiKnowsTheUser
<1>1. StorageInv /\ SessionInv => AiKnowsTheUser
  <2> SUFFICES ASSUME StorageInv, SessionInv, NEW s \in Sockets, Asks(s), Alone(s),
                      UserFile(s) \notin spoiled
               PROVE  NewestOf(ContextCap, Trimmed(ContextCap, chat[s]),
                               stored[UserFile(s)])
    BY DEF AiKnowsTheUser, Context
  <2> DEFINE all == stored[UserFile(s)]
             part == chat[s]
  <2>1. all \in Seq(Messages) /\ part \in Seq(Messages)
    BY SocketFacts DEF SessionInv, SessionTypeOK
  <2>2. Unstored(s) = <<>>  BY DEF Unstored, Pending, Asks
  <2>3. NewestAtLeast(FileCap, part, all \o <<>>)
    BY <2>2 DEF SessionInv, ChatIsNewest
  <2>4. NewestAtLeast(FileCap, part, all)  BY <2>1, <2>3, EmptyConcat
  <2>5. FileCap \in Nat /\ ContextCap \in 0 .. FileCap
    BY StorageAssumption, SessionAssumption
  <2> HIDE DEF all, part
  <2>6. PICK big \in Nat : ContextCap <= big /\ NewestOf(big, part, all)
    <3>1. CASE Len(part) >= ContextCap
      <4>1. Len(part) \in Nat  BY <2>1
      <4> QED  BY <2>4, <3>1, <4>1 DEF NewestAtLeast
    <3>2. CASE ~(Len(part) >= ContextCap)
      <4>1. Len(part) = Len(all) /\ Len(all) < FileCap
        BY <2>1, <2>4, <2>5, <3>2 DEF NewestAtLeast
      <4>2. NewestOf(FileCap, part, all)
        BY <2>1, <2>4, <2>5, <4>1 DEF NewestAtLeast, NewestOf
      <4> QED  BY <2>5, <4>2
    <3> QED  BY <3>1, <3>2
  <2>7. ContextCap \in 0 .. big  BY <2>5, <2>6
  <2> QED  BY <2>1, <2>6, <2>7, NewestTrimmed DEF all, part
<1> QED  BY <1>1, StorageInvHolds, SessionInvariantHolds, PTL
=============================================================================
