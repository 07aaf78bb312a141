--------------------------- MODULE StorageProofs ---------------------------
(***************************************************************************)
(* Storage, for every number of threads, connections, accounts, rooms and  *)
(* texts and for every limit of a history.                                 *)
(***************************************************************************)
EXTENDS Storage, TLAPS

-----------------------------------------------------------------------------
(* Histories. *)

(* Trimmed keeps the newest. *)
LEMMA TrimmedIsNewest ==
    ASSUME NEW S, NEW ms \in Seq(S), NEW cap \in Nat
    PROVE  /\ Trimmed(cap, ms) \in Seq(S)
           /\ Len(Trimmed(cap, ms)) = IF Len(ms) < cap THEN Len(ms) ELSE cap
           /\ \A i \in 1 .. Len(Trimmed(cap, ms)) :
                 Trimmed(cap, ms)[i] = ms[Len(ms) - Len(Trimmed(cap, ms)) + i]
           /\ NewestOf(cap, Trimmed(cap, ms), ms)
<1>1. CASE Len(ms) > cap
  <2>1. /\ Len(ms) - cap + 1 \in 1 .. Len(ms) + 1
        /\ Trimmed(cap, ms) = SubSeq(ms, Len(ms) - cap + 1, Len(ms))
    BY <1>1 DEF Trimmed
  <2>2. /\ Trimmed(cap, ms) \in Seq(S) /\ Len(Trimmed(cap, ms)) = cap
        /\ \A i \in 1 .. cap : Trimmed(cap, ms)[i] = ms[Len(ms) - cap + i]
    BY <1>1, <2>1
  <2> QED  BY <1>1, <2>2 DEF NewestOf
<1>2. CASE ~(Len(ms) > cap)
  <2>1. Trimmed(cap, ms) = SubSeq(ms, 1, Len(ms))  BY <1>2 DEF Trimmed
  <2>2. SubSeq(ms, 1, Len(ms)) = ms  OBVIOUS
  <2>3. Trimmed(cap, ms) = ms  BY <2>1, <2>2
  <2>4. Len(ms) = IF Len(ms) < cap THEN Len(ms) ELSE cap  BY <1>2
  <2>5. \A i \in 1 .. Len(ms) : ms[i] = ms[Len(ms) - Len(ms) + i]  OBVIOUS
  <2> QED  BY <2>3, <2>4, <2>5 DEF NewestOf
<1> QED  BY <1>1, <1>2

(* The newest of the newest are the newest. *)
LEMMA NewestTrimmed ==
    ASSUME NEW S, NEW part \in Seq(S), NEW all \in Seq(S),
           NEW big \in Nat, NEW cap \in 0 .. big, NewestOf(big, part, all)
    PROVE  NewestOf(cap, Trimmed(cap, part), all)
<1> DEFINE kept == Trimmed(cap, part)
<1>1. /\ kept \in Seq(S)
      /\ Len(kept) = IF Len(part) < cap THEN Len(part) ELSE cap
      /\ \A i \in 1 .. Len(kept) : kept[i] = part[Len(part) - Len(kept) + i]
  BY TrimmedIsNewest
<1>2. /\ Len(part) = IF Len(all) < big THEN Len(all) ELSE big
      /\ \A i \in 1 .. Len(part) : part[i] = all[Len(all) - Len(part) + i]
  BY DEF NewestOf
<1> HIDE DEF kept
<1>3. Len(kept) = IF Len(all) < cap THEN Len(all) ELSE cap  BY <1>1, <1>2
<1>4. ASSUME NEW i \in 1 .. Len(kept)  PROVE kept[i] = all[Len(all) - Len(kept) + i]
  <2> DEFINE j == Len(part) - Len(kept) + i
  <2>0. Len(part) \in Nat /\ Len(all) \in Nat /\ Len(kept) \in Nat  BY <1>1
  <2>b. Len(kept) <= Len(part) /\ i \in Nat /\ 1 <= i /\ i <= Len(kept)
    BY <1>1, <2>0
  <2>c. j \in 1 .. Len(part)  BY <2>0, <2>b
  <2>d. kept[i] = part[j]  BY <1>1
  <2>1. j \in 1 .. Len(part) /\ kept[i] = part[j]  BY <2>c, <2>d
  <2>2. Len(all) - Len(part) + j = Len(all) - Len(kept) + i  BY <2>0
  <2> HIDE DEF j
  <2>3. part[j] = all[Len(all) - Len(part) + j]  BY <1>2, <2>1
  <2> QED  BY <2>1, <2>2, <2>3
<1> QED  BY <1>3, <1>4 DEF NewestOf, kept

(* A message at the end of both. *)
LEMMA NewestPushed ==
    ASSUME NEW S, NEW part \in Seq(S), NEW all \in Seq(S), NEW m \in S,
           NEW cap \in Nat \ {0}, NewestOf(cap, part, all)
    PROVE  NewestOf(cap, Pushed(cap, part, m), Append(all, m))
<1> DEFINE more == Append(part, m)
           kept == Pushed(cap, part, m)
           whole == Append(all, m)
<1>1. /\ more \in Seq(S) /\ Len(more) = Len(part) + 1
      /\ \A i \in 1 .. Len(part) : more[i] = part[i]
      /\ more[Len(part) + 1] = m
  OBVIOUS
<1>2. /\ whole \in Seq(S) /\ Len(whole) = Len(all) + 1
      /\ \A i \in 1 .. Len(all) : whole[i] = all[i]
      /\ whole[Len(all) + 1] = m
  OBVIOUS
<1>3. /\ Len(kept) = IF Len(more) < cap THEN Len(more) ELSE cap
      /\ \A i \in 1 .. Len(kept) : kept[i] = more[Len(more) - Len(kept) + i]
  BY <1>1, TrimmedIsNewest DEF Pushed
<1>4. /\ Len(part) = IF Len(all) < cap THEN Len(all) ELSE cap
      /\ \A i \in 1 .. Len(part) : part[i] = all[Len(all) - Len(part) + i]
  BY DEF NewestOf
<1> HIDE DEF more, kept, whole
<1>5. Len(kept) = IF Len(whole) < cap THEN Len(whole) ELSE cap
  BY <1>1, <1>2, <1>3, <1>4
<1>6. ASSUME NEW i \in 1 .. Len(kept)
      PROVE  kept[i] = whole[Len(whole) - Len(kept) + i]
  <2> DEFINE j == Len(more) - Len(kept) + i
             k == Len(whole) - Len(kept) + i
  <2>0. Len(part) \in Nat /\ Len(all) \in Nat /\ Len(kept) \in Nat
    BY <1>3, <1>1
  <2>b. /\ Len(kept) <= Len(part) + 1 /\ Len(kept) <= Len(all) + 1
        /\ i \in Nat /\ 1 <= i /\ i <= Len(kept)
    BY <1>1, <1>2, <1>3, <1>5, <2>0
  <2>c. j \in 1 .. Len(part) + 1 /\ k \in 1 .. Len(all) + 1
    BY <2>0, <2>b, <1>1, <1>2
  <2>d. kept[i] = more[j]  BY <1>3
  <2>1. /\ j \in 1 .. Len(part) + 1 /\ kept[i] = more[j]
        /\ k \in 1 .. Len(all) + 1
    BY <2>c, <2>d
  <2>2. k = Len(all) - Len(part) + j  BY <1>1, <1>2, <2>0
  <2>a. Len(all) - Len(part) \in Nat  BY <1>4, <2>0
  <2> SUFFICES kept[i] = whole[k]  OBVIOUS
  <2> HIDE DEF j, k
  <2>3. CASE j = Len(part) + 1
    <3>1. k = Len(all) + 1  BY <2>0, <2>2, <2>3
    <3> QED  BY <3>1, <2>1, <2>3, <1>1, <1>2
  <2>4. CASE j # Len(part) + 1
    <3>1. j \in 1 .. Len(part)  BY <2>0, <2>1, <2>4
    <3>2. more[j] = part[j] /\ part[j] = all[k]  BY <3>1, <2>2, <1>1, <1>4
    <3>3. k \in 1 .. Len(all)  BY <3>1, <2>0, <2>2, <2>a
    <3> QED  BY <3>2, <3>3, <2>1, <1>2
  <2> QED  BY <2>3, <2>4
<1> QED  BY <1>5, <1>6 DEF NewestOf, kept, whole

(* What is left out cannot be out of order. *)
LEMMA TrimmedOrdered ==
    ASSUME NEW ms \in Seq(Messages), NEW cap \in Nat
    PROVE  /\ Range(Trimmed(cap, ms)) \subseteq Range(ms)
           /\ InOrder(ms) => InOrder(Trimmed(cap, ms))
           /\ Counted(ms) => Counted(Trimmed(cap, ms))
<1> DEFINE kept == Trimmed(cap, ms)
           d == Len(ms) - Len(kept)
<1>1. /\ kept \in Seq(Messages) /\ Len(kept) <= Len(ms)
      /\ \A i \in 1 .. Len(kept) : kept[i] = ms[d + i]
  BY TrimmedIsNewest
<1>2. DOMAIN kept = 1 .. Len(kept) /\ DOMAIN ms = 1 .. Len(ms) /\ d \in Nat
  BY <1>1
<1>3. \A i \in 1 .. Len(kept) : d + i \in 1 .. Len(ms)  BY <1>1, <1>2
<1> HIDE DEF kept, d
<1>4. Range(kept) \subseteq Range(ms)  BY <1>1, <1>2, <1>3 DEF Range
<1>5. InOrder(ms) => InOrder(kept)
  <2> SUFFICES ASSUME InOrder(ms), NEW i \in 1 .. Len(kept), NEW j \in 1 .. Len(kept),
                      i < j, kept[i].by = kept[j].by
               PROVE  kept[i].n < kept[j].n
    BY <1>2 DEF InOrder
  <2>1. d + i \in DOMAIN ms /\ d + j \in DOMAIN ms /\ d + i < d + j
    BY <1>2, <1>3
  <2>2. kept[i] = ms[d + i] /\ kept[j] = ms[d + j]  BY <1>1
  <2> QED  BY <2>1, <2>2 DEF InOrder
<1>6. Counted(ms) => Counted(kept)  BY <1>1, <1>2, <1>3 DEF Counted
<1> QED  BY <1>4, <1>5, <1>6 DEF kept

(* The last message an author has made may follow its others. *)
LEMMA PushedOrdered ==
    ASSUME NEW ms \in Seq(Messages), NEW m \in Messages, NEW cap \in Nat,
           made \in [Authors -> Nat], InOrder(ms), Counted(ms),
           m.n = made[m.by], m \notin Range(ms)
    PROVE  /\ Range(Pushed(cap, ms, m)) \subseteq Range(ms) \cup {m}
           /\ InOrder(Pushed(cap, ms, m))
           /\ Counted(Pushed(cap, ms, m))
<1> DEFINE more == Append(ms, m)
<1>1. /\ more \in Seq(Messages) /\ DOMAIN more = 1 .. Len(ms) + 1
      /\ DOMAIN ms = 1 .. Len(ms) /\ Len(ms) \in Nat
      /\ \A i \in 1 .. Len(ms) : more[i] = ms[i]
      /\ more[Len(ms) + 1] = m
  OBVIOUS
<1> HIDE DEF more
<1>2. Range(more) \subseteq Range(ms) \cup {m}  BY <1>1 DEF Range
<1>3. Counted(more)
  <2> SUFFICES ASSUME NEW i \in DOMAIN more  PROVE more[i].n <= made[more[i].by]
    BY DEF Counted
  <2>1. CASE i = Len(ms) + 1
    <3>1. made[m.by] \in Nat  BY DEF Messages
    <3> QED  BY <2>1, <3>1, <1>1
  <2>2. CASE i # Len(ms) + 1
    <3>1. i \in DOMAIN ms  BY <1>1, <2>2
    <3> QED  BY <3>1, <1>1 DEF Counted
  <2> QED  BY <2>1, <2>2
<1>4. InOrder(more)
  <2> SUFFICES ASSUME NEW i \in DOMAIN more, NEW j \in DOMAIN more,
                      i < j, more[i].by = more[j].by
               PROVE  more[i].n < more[j].n
    BY DEF InOrder
  <2>1. i \in DOMAIN ms /\ more[i] = ms[i]  BY <1>1
  <2>2. CASE j \in DOMAIN ms
    BY <2>1, <2>2, <1>1 DEF InOrder
  <2>3. CASE j \notin DOMAIN ms
    <3>1. more[j] = m  BY <1>1, <2>3
    <3>2. ms[i] \in Messages /\ ms[i] # m  BY <2>1 DEF Range
    <3>3. ms[i].by = m.by /\ ms[i].n <= made[m.by]
      BY <2>1, <3>1 DEF Counted
    <3>a. /\ ms[i] = [by |-> ms[i].by, n |-> ms[i].n]
          /\ m = [by |-> m.by, n |-> m.n]
      BY <3>2 DEF Messages
    <3>4. ms[i].n # m.n  BY <3>2, <3>3, <3>a
    <3>5. ms[i].n \in Nat /\ m.n \in Nat  BY <3>2 DEF Messages
    <3> QED  BY <2>1, <3>1, <3>3, <3>4, <3>5
  <2> QED  BY <2>2, <2>3
<1> QED  BY <1>1, <1>2, <1>3, <1>4, TrimmedOrdered DEF Pushed, more

-----------------------------------------------------------------------------
(* Types. *)

LEMMA FileTypes ==
    /\ Files \subseteq {"user_", "room_"} \X Nat
    /\ NoFile \notin Files
    /\ \A r \in RoomIds : RoomFile(r) \in Files /\ RoomFile(r)[1] = "room_"
    /\ \A r, q \in RoomIds : RoomFile(r) = RoomFile(q) => r = q
    /\ RoomThread \in Threads /\ RoomThread \notin Reactors
    /\ \A s \in Sockets : Loop[s] \in Threads /\ Loop[s] # RoomThread
    /\ Sockets \cap RoomIds = {}
<1>1. RoomIds \subseteq Nat /\ Users \subseteq Nat
  BY StorageAssumption DEF RoomIds, Users, Guest
<1>2. Files \subseteq {"user_", "room_"} \X Nat /\ NoFile \notin Files
  BY <1>1 DEF Files, NoFile
<1>3. \A r \in RoomIds : RoomFile(r) \in Files /\ RoomFile(r)[1] = "room_"
  BY DEF RoomFile, Files
<1>4. \A r, q \in RoomIds : RoomFile(r) = RoomFile(q) => r = q
  BY DEF RoomFile
<1>5. RoomThread \in Threads /\ RoomThread \notin Reactors
  BY StorageAssumption DEF Threads
<1>6. \A s \in Sockets : Loop[s] \in Threads /\ Loop[s] # RoomThread
  BY StorageAssumption DEF Threads
<1>7. Sockets \cap RoomIds = {}  BY <1>1, StorageAssumption
<1> QED  BY <1>2, <1>3, <1>4, <1>5, <1>6, <1>7

LEMMA UserFileType ==
    ASSUME StorageTypeOK, NEW s \in Sockets
    PROVE  UserFile(s) \in Files /\ UserFile(s)[1] = "user_"
BY DEF StorageTypeOK, UserFile, Files

LEMMA IdleType == Idle \in Ops
BY DEF Idle, Ops, Places, NoFile, NoMessage

(* A thread that goes on changes its place only. *)
LEMMA GoToFacts ==
    ASSUME StorageTypeOK, NEW t \in Threads, NEW pc \in Places, GoTo(t, pc)
    PROVE  /\ op' \in [Threads -> Ops]
           /\ \A u \in Threads \ {t} : op'[u] = op[u]
           /\ op'[t].pc = pc /\ op'[t].file = op[t].file
           /\ op'[t].msg = op[t].msg /\ op'[t].held = op[t].held
           /\ op'[t].cut = op[t].cut /\ op'[t].last = op[t].last
BY DEF StorageTypeOK, GoTo, Ops

LEMMA EndsType ==
    ASSUME StorageTypeOK, NEW f \in Files \cup {NoFile}, ProcessEnds(f),
           crashes' \in 0 .. MaxCrashes
    PROVE  StorageTypeOK'
<1>a. up' \in BOOLEAN /\ user' \in [Sockets -> Users]
  BY DEF ProcessEnds, Users
<1>b. nextRoomId' \in Nat \ {0} /\ rooms' \subseteq RoomIds
  BY DEF ProcessEnds
<1>c. spoiled' \subseteq Files /\ diedOf' \in Files \cup {NoFile}
  BY DEF StorageTypeOK, ProcessEnds
<1>1. /\ up' \in BOOLEAN /\ user' \in [Sockets -> Users]
      /\ nextRoomId' \in Nat \ {0} /\ rooms' \subseteq RoomIds
      /\ spoiled' \subseteq Files /\ diedOf' \in Files \cup {NoFile}
  BY <1>a, <1>b, <1>c
<1>2. /\ memory' \in [RoomIds -> Seq(Messages)]
      /\ \A r \in RoomIds : Len(memory'[r]) <= HistoryCap
  BY StorageAssumption DEF ProcessEnds
<1>3. /\ op' \in [Threads -> Ops]
      /\ \A t \in Threads : Len(op'[t].held) <= FileCap
  BY IdleType, StorageAssumption DEF ProcessEnds, Idle
<1>4. UNCHANGED <<file, texts, made, stored>>  BY DEF ProcessEnds
<1> QED  BY <1>1, <1>2, <1>3, <1>4 DEF StorageTypeOK

LEMMA BeginType ==
    ASSUME StorageTypeOK, NEW t \in Threads, NEW a \in Authors, NEW f \in Files,
           NEW cut \in BOOLEAN, NEW last \in BOOLEAN, BeginAppend(t, a, f, cut, last)
    PROVE  /\ made' \in [Authors -> Nat] /\ made'[a] = made[a] + 1
           /\ \A b \in Authors \ {a} : made'[b] = made[b]
           /\ op' \in [Threads -> Ops]
           /\ op'[t] = [pc |-> "exists", file |-> f, cut |-> cut, last |-> last,
                        msg |-> [by |-> a, n |-> made[a] + 1], held |-> <<>>]
           /\ \A u \in Threads \ {t} : op'[u] = op[u]
           /\ [by |-> a, n |-> made[a] + 1] \in Messages
           /\ \A u \in Threads : Len(op'[u].held) <= FileCap
           /\ spoiled' \subseteq Files
<1> DEFINE m == [by |-> a, n |-> made[a] + 1]
           new == [pc |-> "exists", file |-> f, cut |-> cut, last |-> last,
                   msg |-> m, held |-> <<>>]
<1>1. m \in Messages  BY DEF StorageTypeOK, Messages
<1>2. new \in Ops  BY <1>1 DEF Ops, Places
<1> HIDE DEF m
<1>3. op' = [op EXCEPT ![t] = new]  BY DEF BeginAppend, m
<1>4. Len(new.held) = 0  OBVIOUS
<1> HIDE DEF new
<1>5. op' \in [Threads -> Ops] /\ op'[t] = new /\ \A u \in Threads \ {t} : op'[u] = op[u]
  BY <1>2, <1>3 DEF StorageTypeOK
<1>a. 0 <= FileCap  BY StorageAssumption
<1>b. \A u \in Threads : Len(op[u].held) <= FileCap  BY DEF StorageTypeOK
<1>6. \A u \in Threads : Len(op'[u].held) <= FileCap
  BY <1>4, <1>5, <1>a, <1>b
<1>7. spoiled' \subseteq Files  BY DEF BeginAppend, Spoils, StorageTypeOK
<1>8. /\ made' \in [Authors -> Nat] /\ made'[a] = made[a] + 1
      /\ \A b \in Authors \ {a} : made'[b] = made[b]
  BY DEF BeginAppend, StorageTypeOK
<1> QED  BY <1>1, <1>5, <1>6, <1>7, <1>8 DEF new, m

-----------------------------------------------------------------------------
(* A step of appendMessage on one thread. *)

(* Thread t goes on or is done; only its own file is touched. *)
StepOf(t) ==
    LET f == op[t].file IN
    /\ UNCHANGED <<up, processVars, boundVars, made, spoiled, diedOf>>
    /\ \A u \in Threads \ {t} : op'[u] = op[u]
    /\ \A g \in Files \ {f} : file'[g] = file[g] /\ stored'[g] = stored[g]
    /\ \/ op'[t] = Idle
       \/ /\ op'[t].pc # "idle" /\ op'[t].file = f
          /\ op'[t].msg = op[t].msg /\ op'[t].last = op[t].last

LEMMA StepOps ==
    ASSUME OpInv, NEW t \in Threads, op[t].pc # "idle", StepOf(t),
           t = RoomThread => op'[t].pc \notin {"statLoad", "statOpen", "statWrite", "ai"}
    PROVE  OpInv'
<1>1. UNCHANGED <<up, rooms, nextRoomId, made>>
  BY DEF StepOf, processVars
<1>2. /\ op'[RoomThread].pc \notin {"statLoad", "statOpen", "statWrite", "ai"}
      /\ \A r \in rooms' : r < nextRoomId'
  BY <1>1, FileTypes DEF StepOf, OpInv
<1>3. ASSUME NEW u \in Threads
      PROVE  IF op'[u].pc = "idle" THEN op'[u] = Idle
             ELSE LET a == op'[u].msg.by IN
                  /\ up' /\ op'[u].file \in Files /\ op'[u].msg \in Messages
                  /\ op'[u].msg.n = made'[a]
                  /\ IF u = RoomThread
                     THEN a \in rooms' /\ op'[u].file = RoomFile(a) /\ op'[u].last
                     ELSE a \in Sockets /\ Loop[a] = u /\ op'[u].file[1] = "user_"
  <2>1. CASE u # t  BY <2>1, <1>1 DEF StepOf, OpInv
  <2>2. CASE u = t /\ op'[t] = Idle  BY <2>2 DEF Idle
  <2>3. CASE u = t /\ op'[t] # Idle
    <3>1. /\ op'[t].pc # "idle" /\ op'[t].file = op[t].file
          /\ op'[t].msg = op[t].msg /\ op'[t].last = op[t].last
      BY <2>3 DEF StepOf
    <3> QED  BY <2>3, <3>1, <1>1 DEF OpInv
  <2> QED  BY <2>1, <2>2, <2>3
<1> QED  BY <1>2, <1>3 DEF OpInv, RoomFile

(* The threads that are busy, and with what. *)
LEMMA StepBusy ==
    ASSUME NEW t \in Threads, Busy(t), StepOf(t), NEW u \in Threads, Busy(u)'
    PROVE  Busy(u) /\ op'[u].file = op[u].file
BY DEF StepOf, Busy, Idle

LEMMA StepAlone ==
    ASSUME NEW t \in Threads, Busy(t), StepOf(t), OneAtATime
    PROVE  OneAtATime'
<1> SUFFICES ASSUME NEW f \in Files \ spoiled', NEW u \in Threads, NEW v \in Threads,
                    op'[u].file = f, op'[v].file = f, Busy(u)', Busy(v)'
             PROVE  u = v
  BY DEF OneAtATime
<1>1. f \notin spoiled  BY DEF StepOf
<1>2. /\ Busy(u) /\ op[u].file = f /\ Busy(v) /\ op[v].file = f  BY StepBusy
<1> QED  BY <1>1, <1>2 DEF OneAtATime

(* A thread that rewrites a file is busy with it. *)
LEMMA RewritingIsBusy ==
    ASSUME NEW f, Rewriting(f)
    PROVE  \E u \in Threads : op[u].file = f /\ Busy(u)
BY DEF Rewriting, Busy

LEMMA StepKept ==
    ASSUME StorageInv, NEW t \in Threads, Busy(t), StepOf(t),
           op[t].file \notin spoiled =>
              \/ /\ op'[t].file = op[t].file
                 /\ op'[t].pc \in {"createWrite", "saveWrite", "statWrite"}
              \/ /\ file'[op[t].file].state # "torn"
                 /\ NewestOf(FileCap, file'[op[t].file].messages, stored'[op[t].file])
    PROVE  KeptUnlessSpoiled'
<1> SUFFICES ASSUME NEW g \in Files \ spoiled', ~Rewriting(g)'
             PROVE  /\ file'[g].state # "torn"
                    /\ NewestOf(FileCap, file'[g].messages, stored'[g])
  BY DEF KeptUnlessSpoiled, NewestOf
<1>1. g \notin spoiled  BY DEF StepOf
<1>2. CASE g = op[t].file
  BY <1>1, <1>2 DEF Rewriting
<1>3. CASE g # op[t].file
  <2>1. file'[g] = file[g] /\ stored'[g] = stored[g]  BY <1>3 DEF StepOf
  <2>2. ~Rewriting(g)  BY <1>3 DEF Rewriting, StepOf
  <2> QED  BY <1>1, <2>1, <2>2 DEF StorageInv, KeptUnlessSpoiled
<1> QED  BY <1>2, <1>3

LEMMA StepHeld ==
    ASSUME StorageInv, NEW t \in Threads, Busy(t), StepOf(t),
           op'[t] # Idle /\ op[t].file \notin spoiled => HeldOf(t)'
    PROVE  HeldIsNewest'
<1> SUFFICES ASSUME NEW u \in Threads, op'[u].file \notin spoiled'
             PROVE  HeldOf(u)'
  BY DEF HeldIsNewest
<1>0. spoiled' = spoiled  BY DEF StepOf
<1>1. CASE ~Busy(u)'
  BY <1>1 DEF HeldOf, Busy
<1>2. CASE Busy(u)' /\ u = t
  <2>1. op'[t] # Idle  BY <1>2 DEF Busy, Idle
  <2> QED  BY <1>0, <1>2, <2>1 DEF StepOf
<1>3. CASE Busy(u)' /\ u # t
  <2>1. op'[u] = op[u] /\ Busy(u)  BY <1>3 DEF StepOf, Busy
  <2>2. op[u].file \in Files
    BY <2>1 DEF StorageInv, OpInv, Busy
  <2>3. op[u].file # op[t].file
    BY <1>0, <1>3, <2>1, <2>2 DEF StorageInv, OneAtATime
  <2>4. file'[op[u].file] = file[op[u].file] /\ stored'[op[u].file] = stored[op[u].file]
    BY <2>2, <2>3 DEF StepOf
  <2>5. HeldOf(u)  BY <1>0, <2>1 DEF StorageInv, HeldIsNewest
  <2> DEFINE f == op[u].file
  <2>6. op'[u].file = f /\ op'[u].pc = op[u].pc /\ op'[u].held = op[u].held
        /\ op'[u].msg = op[u].msg
    BY <2>1
  <2>7. file'[f] = file[f] /\ stored'[f] = stored[f]  BY <2>4
  <2> HIDE DEF f
  <2>8. /\ op[u].pc = "createOpen" => file[f].state = "absent"
        /\ op[u].pc = "createWrite" => stored[f] = <<>>
        /\ op[u].pc \in {"saveOpen", "saveWrite"} =>
               NewestOf(FileCap, op[u].held, Append(stored[f], op[u].msg))
        /\ op[u].pc \in {"statOpen", "statWrite"} =>
               NewestOf(FileCap, op[u].held, stored[f])
    BY <2>5 DEF HeldOf, f
  <2>9. /\ op'[u].pc = "createOpen" => file'[f].state = "absent"
        /\ op'[u].pc = "createWrite" => stored'[f] = <<>>
        /\ op'[u].pc \in {"saveOpen", "saveWrite"} =>
               NewestOf(FileCap, op'[u].held, Append(stored'[f], op'[u].msg))
        /\ op'[u].pc \in {"statOpen", "statWrite"} =>
               NewestOf(FileCap, op'[u].held, stored'[f])
    BY <2>6, <2>7, <2>8
  <2> QED  BY <2>6, <2>9 DEF HeldOf, NewestOf
<1> QED  BY <1>1, <1>2, <1>3

(* The messages of files and threads stay counted and in order.             *)
LEMMA StepOrder ==
    ASSUME StorageInv, NEW t \in Threads, Busy(t), StepOf(t),
           op'[t] # Idle /\ Pending(t)' => Pending(t),
           \A g \in Files : \/ file'[g].messages \in {file[g].messages, <<>>}
                            \/ file'[g].messages = op[t].held /\ ~Pending(t)',
           \/ op'[t].held \in {op[t].held, <<>>, file[op[t].file].messages}
           \/ /\ op'[t].held = Pushed(FileCap, file[op[t].file].messages, op[t].msg)
              /\ Pending(t)
    PROVE  AllCounted' /\ HeldIsOrdered' /\ PendingIsNew' /\ FilesAreOrdered'
<1> DEFINE f == op[t].file
           before == file[f].messages
<1>1. /\ made' = made /\ \A u \in Threads \ {t} : op'[u] = op[u]
      /\ \/ op'[t] = Idle
         \/ op'[t].msg = op[t].msg
  BY DEF StepOf
<1>2. /\ f \in Files /\ op[t].msg \in Messages
      /\ op[t].msg.n = made[op[t].msg.by]
  BY DEF StorageInv, OpInv, Busy
<1>3. /\ before \in Seq(Messages) /\ op[t].held \in Seq(Messages)
      /\ made \in [Authors -> Nat] /\ FileCap \in Nat
  BY <1>2, StorageAssumption DEF StorageInv, StorageTypeOK, Contents, Ops
<1>4. InOrder(<<>>) /\ Counted(<<>>) /\ Range(<<>>) = {}
  BY DEF InOrder, Counted, Range
<1>5. /\ InOrder(before) /\ Counted(before)
      /\ InOrder(op[t].held) /\ Counted(op[t].held)
  BY <1>2 DEF StorageInv, FilesAreOrdered, AllCounted, HeldIsOrdered
<1>6. Pending(t) => op[t].msg \notin Range(before)
  BY <1>2 DEF StorageInv, PendingIsNew
<1>7. Pending(t) =>
         LET new == Pushed(FileCap, before, op[t].msg) IN
         /\ Range(new) \subseteq Range(before) \cup {op[t].msg}
         /\ InOrder(new) /\ Counted(new)
  BY <1>2, <1>3, <1>5, <1>6, PushedOrdered
<1>8. /\ InOrder(op'[t].held) /\ Counted(op'[t].held)
      /\ Range(op'[t].held) \subseteq Range(op[t].held) \cup Range(before)
                                      \cup (IF Pending(t) THEN {op[t].msg} ELSE {})
  BY <1>4, <1>5, <1>7
<1>9. \A g \in Files : InOrder(file'[g].messages) /\ Counted(file'[g].messages)
  BY <1>4, <1>5 DEF StorageInv, FilesAreOrdered, AllCounted
<1>10. FilesAreOrdered'  BY <1>9 DEF FilesAreOrdered, InOrder
<1>11. HeldIsOrdered'  BY <1>1, <1>8 DEF HeldIsOrdered, InOrder, StorageInv
<1>12. AllCounted'
  <2>1. \A u \in Threads : Counted(op'[u].held)
    BY <1>1, <1>8 DEF AllCounted, StorageInv
  <2> QED  BY <2>1, <1>9, <1>1 DEF AllCounted, Counted
<1>13. ASSUME NEW u \in Threads, Pending(u)'
       PROVE  /\ \A g \in Files : op'[u].msg \notin Range(file'[g].messages)
              /\ \A v \in Threads \ {u} : op'[u].msg \notin Range(op'[v].held)
  <2>1. Pending(u) /\ op'[u].msg = op[u].msg
    <3>1. CASE u = t
      <4>1. op'[t] # Idle  BY <1>13, <3>1 DEF Pending, Idle
      <4> QED  BY <4>1, <3>1, <1>13, <1>1
    <3>2. CASE u # t  BY <3>2, <1>1, <1>13 DEF Pending
    <3> QED  BY <3>1, <3>2
  <2>2. /\ \A g \in Files : op[u].msg \notin Range(file[g].messages)
        /\ \A v \in Threads \ {u} : op[u].msg \notin Range(op[v].held)
    BY <2>1 DEF StorageInv, PendingIsNew
  <2>3. ASSUME NEW g \in Files  PROVE op[u].msg \notin Range(file'[g].messages)
    <3>1. CASE u = t  BY <3>1, <1>4, <1>13, <2>2
    <3>2. CASE u # t  BY <3>2, <1>4, <2>2
    <3> QED  BY <3>1, <3>2
  <2>4. ASSUME NEW v \in Threads \ {u}  PROVE op[u].msg \notin Range(op'[v].held)
    <3>1. CASE v # t  BY <3>1, <1>1, <2>2
    <3>2. CASE v = t
      <4>1. u # t  BY <3>2
      <4>2. op[u].msg # op[t].msg
        <5>1. op[u].pc # "idle" /\ op[t].pc # "idle"
          BY <2>1 DEF Busy, Pending
        <5>2. /\ IF u = RoomThread THEN op[u].msg.by \in rooms
                  ELSE op[u].msg.by \in Sockets /\ Loop[op[u].msg.by] = u
              /\ IF t = RoomThread THEN op[t].msg.by \in rooms
                  ELSE op[t].msg.by \in Sockets /\ Loop[op[t].msg.by] = t
          BY <5>1 DEF StorageInv, OpInv
        <5>3. rooms \cap Sockets = {}
          BY FileTypes DEF StorageInv, StorageTypeOK
        <5> QED  BY <4>1, <5>2, <5>3
      <4>3. op[u].msg \notin Range(before)  BY <1>2, <2>2
      <4>4. op[u].msg \notin Range(op[t].held)  BY <4>1, <2>2
      <4> QED  BY <3>2, <4>2, <4>3, <4>4, <1>8
    <3> QED  BY <3>1, <3>2
  <2> QED  BY <2>1, <2>3, <2>4
<1>14. PendingIsNew'  BY <1>13 DEF PendingIsNew, Pending, Range
<1> QED  BY <1>10, <1>11, <1>12, <1>14

(* What a room remembers depends on the room thread only.                   *)
LEMMA StepRooms ==
    ASSUME StorageInv, NEW t \in Threads, Busy(t), StepOf(t),
           \/ /\ \A g \in Files : g[1] = "room_" => stored'[g] = stored[g]
              /\ t # RoomThread \/ op'[t] # Idle
           \/ /\ t = RoomThread /\ op'[t] = Idle
              /\ stored'[op[t].file] = Append(stored[op[t].file], op[t].msg)
    PROVE  RoomRemembers'
<1> SUFFICES ASSUME NEW r \in rooms', RoomFile(r) \notin spoiled'
             PROVE  NewestOf(HistoryCap, memory'[r], stored'[RoomFile(r)] \o Unsaved(r)')
  BY DEF RoomRemembers, RoomFile, NewestOf
<1> DEFINE f == RoomFile(r)
<1>1. r \in rooms /\ f \notin spoiled /\ memory' = memory
  BY DEF StepOf, processVars
<1>2. NewestOf(HistoryCap, memory[r], stored[f] \o Unsaved(r))
  BY <1>1 DEF StorageInv, RoomRemembers
<1>3. r \in RoomIds /\ f \in Files /\ f[1] = "room_" /\ f # NoFile
      /\ stored[f] \in Seq(Messages)
  BY <1>1, FileTypes DEF StorageInv, StorageTypeOK
<1>4. CASE /\ \A g \in Files : g[1] = "room_" => stored'[g] = stored[g]
           /\ t # RoomThread \/ op'[t] # Idle
  <2>1. stored'[f] = stored[f]  BY <1>3, <1>4
  <2>2. op'[RoomThread].file = op[RoomThread].file
        /\ (op'[RoomThread].file # NoFile => op'[RoomThread].msg = op[RoomThread].msg)
    BY <1>4, FileTypes DEF StepOf
  <2>3. Unsaved(r)' = Unsaved(r)  BY <1>3, <2>2 DEF Unsaved, RoomFile
  <2> QED  BY <1>1, <1>2, <2>1, <2>3
<1>5. CASE /\ t = RoomThread /\ op'[t] = Idle
           /\ stored'[op[t].file] = Append(stored[op[t].file], op[t].msg)
  <2>1. Unsaved(r)' = <<>>  BY <1>3, <1>5 DEF Unsaved, RoomFile, Idle
  <2>2. CASE op[t].file = f
    <3>1. op[t].msg \in Messages  BY DEF StorageInv, OpInv, Busy
    <3>2. stored'[f] \o <<>> = stored[f] \o <<op[t].msg>>
      BY <1>3, <1>5, <2>2, <3>1
    <3>3. Unsaved(r) = <<op[t].msg>>  BY <1>5, <2>2 DEF Unsaved
    <3> QED  BY <1>1, <1>2, <2>1, <3>2, <3>3
  <2>3. CASE op[t].file # f
    <3>1. stored'[f] = stored[f]  BY <1>3, <2>3 DEF StepOf
    <3>2. Unsaved(r) = <<>>  BY <1>5, <2>3 DEF Unsaved
    <3> QED  BY <1>1, <1>2, <2>1, <3>1, <3>2
  <2> QED  BY <2>2, <2>3
<1> QED  BY <1>4, <1>5

-----------------------------------------------------------------------------
(* Each step of appendMessage. *)

LEMMA BusyFacts ==
    ASSUME StorageInv, NEW t \in Threads, Busy(t)
    PROVE  /\ op[t].pc # "idle" /\ op[t] # Idle /\ op[t] \in Ops
           /\ op[t].file \in Files /\ op[t].msg \in Messages
           /\ op[t].held \in Seq(Messages)
           /\ file[op[t].file] \in Contents
           /\ Len(file[op[t].file].messages) <= FileCap
           /\ Len(op[t].held) <= FileCap
           /\ stored[op[t].file] \in Seq(Messages)
           /\ FileCap \in Nat \ {0} /\ HistoryCap \in 0 .. FileCap
BY StorageAssumption
   DEF StorageInv, OpInv, StorageTypeOK, Busy, Idle, Ops

LEMMA WriteFacts ==
    ASSUME StorageInv, NEW t \in Threads, Busy(t),
           NEW c \in Contents, Len(c.messages) <= FileCap, Write(t, c)
    PROVE  /\ file' \in [Files -> Contents] /\ file'[op[t].file] = c
           /\ \A g \in Files \ {op[t].file} : file'[g] = file[g]
           /\ \A g \in Files : Len(file'[g].messages) <= FileCap
BY BusyFacts DEF Write, StorageInv, StorageTypeOK

(* The types, once the three variables such a step may change have theirs. *)
LEMMA StepTypes ==
    ASSUME StorageTypeOK, NEW t \in Threads, StepOf(t),
           file' \in [Files -> Contents], op' \in [Threads -> Ops],
           stored' \in [Files -> Seq(Messages)],
           \A f \in Files : Len(file'[f].messages) <= FileCap,
           Len(op'[t].held) <= FileCap
    PROVE  StorageTypeOK'
BY DEF StorageTypeOK, StepOf, processVars, boundVars

(* What is left to show of a step. *)
LEMMA StepInv ==
    ASSUME StorageInv, NEW t \in Threads, Busy(t), StepOf(t), StorageTypeOK',
           EmptyUnlessWhole', KeptUnlessSpoiled', HeldIsNewest',
           AllCounted', HeldIsOrdered', PendingIsNew', FilesAreOrdered',
           RoomRemembers',
           t = RoomThread => op'[t].pc \notin {"statLoad", "statOpen", "statWrite", "ai"}
    PROVE  StorageInv'
<1>1. OpInv'  BY BusyFacts, StepOps DEF StorageInv
<1>2. OneAtATime'  BY StepAlone DEF StorageInv
<1>3. DiesOnlyOfSpoiledFiles'
  BY DEF StorageInv, DiesOnlyOfSpoiledFiles, StepOf
<1> QED  BY <1>1, <1>2, <1>3 DEF StorageInv

(* A file used by a busy thread alone is as it should be, unless that       *)
(* thread rewrites it.                                                      *)
LEMMA BusyKept ==
    ASSUME StorageInv, NEW t \in Threads, Busy(t), op[t].file \notin spoiled
    PROVE  /\ op[t].pc \notin {"createWrite", "saveWrite", "statWrite"} =>
                 /\ file[op[t].file].state # "torn"
                 /\ NewestOf(FileCap, file[op[t].file].messages, stored[op[t].file])
           /\ HeldOf(t)
<1>1. op[t].file \in Files  BY BusyFacts
<1>2. ASSUME op[t].pc \notin {"createWrite", "saveWrite", "statWrite"}
      PROVE  ~Rewriting(op[t].file)
  <2> SUFFICES ASSUME NEW u \in Threads, op[u].file = op[t].file,
                      op[u].pc \in {"createWrite", "saveWrite", "statWrite"}
               PROVE  FALSE
    BY DEF Rewriting
  <2>1. Busy(u)  BY DEF Busy
  <2>2. u = t  BY <1>1, <2>1 DEF StorageInv, OneAtATime
  <2> QED  BY <1>2, <2>2
<1>3. HeldOf(t)  BY DEF StorageInv, HeldIsNewest
<1> QED  BY <1>1, <1>2, <1>3 DEF StorageInv, KeptUnlessSpoiled

(* Opening a file for writing. *)
LEMMA OpenInv ==
    ASSUME StorageInv, NEW t \in Threads,
           CreateOpen(t) \/ SaveOpen(t) \/ StatOpen(t)
    PROVE  StorageInv'
<1> DEFINE f == op[t].file
<1>1. PICK pc \in {"createWrite", "saveWrite", "statWrite"} :
         /\ op[t].pc = CASE pc = "createWrite" -> "createOpen"
                         [] pc = "saveWrite" -> "saveOpen"
                         [] pc = "statWrite" -> "statOpen"
         /\ Write(t, Torn) /\ GoTo(t, pc) /\ UNCHANGED stored /\ Elsewhere
  BY DEF CreateOpen, SaveOpen, StatOpen
<1>2. Busy(t)  BY <1>1 DEF Busy
<1>3. /\ op' \in [Threads -> Ops] /\ \A u \in Threads \ {t} : op'[u] = op[u]
      /\ op'[t].pc = pc /\ op'[t].file = f /\ op'[t].msg = op[t].msg
      /\ op'[t].held = op[t].held /\ op'[t].last = op[t].last
  BY <1>1, GoToFacts DEF StorageInv, Places
<1>4. Torn \in Contents /\ Torn.messages = <<>> /\ Len(Torn.messages) <= FileCap
  BY <1>2, BusyFacts DEF Torn, Contents
<1>5. /\ file' \in [Files -> Contents] /\ file'[f] = Torn
      /\ \A g \in Files \ {f} : file'[g] = file[g]
      /\ \A g \in Files : Len(file'[g].messages) <= FileCap
  BY <1>1, <1>2, <1>4, WriteFacts
<1>6. StepOf(t)  BY <1>1, <1>3, <1>5 DEF StepOf, Elsewhere
<1>7. StorageTypeOK'
  BY <1>1, <1>2, <1>3, <1>5, <1>6, BusyFacts, StepTypes DEF StorageInv, StorageTypeOK
<1>8. EmptyUnlessWhole'
  BY <1>4, <1>5 DEF StorageInv, EmptyUnlessWhole
<1>9. KeptUnlessSpoiled'  BY <1>1, <1>2, <1>3, <1>6, StepKept
<1>10. HeldIsNewest'
  <2>1. ASSUME f \notin spoiled  PROVE HeldOf(t)'
    <3>1. HeldOf(t) /\ FileCap \in Nat \ {0} /\ stored[f] \in Seq(Messages)
      BY <1>2, <2>1, BusyKept, BusyFacts
    <3>2. CASE pc = "createWrite"
      <4>1. op[t].pc = "createOpen" /\ file[f].state = "absent"
        BY <1>1, <3>1, <3>2 DEF HeldOf
      <4>2. file[f].messages = <<>>
        BY <1>2, <4>1, BusyFacts DEF StorageInv, EmptyUnlessWhole
      <4>3. NewestOf(FileCap, file[f].messages, stored[f])
        BY <1>2, <2>1, <4>1, BusyKept
      <4>4. stored[f] = <<>>  BY <3>1, <4>2, <4>3 DEF NewestOf
      <4> QED  BY <1>1, <1>3, <3>2, <4>4 DEF HeldOf
    <3>3. CASE pc = "saveWrite"
      <4>1. NewestOf(FileCap, op[t].held, Append(stored[f], op[t].msg))
        BY <1>1, <3>1, <3>3 DEF HeldOf
      <4> QED  BY <1>1, <1>3, <3>3, <4>1 DEF HeldOf, NewestOf
    <3>4. CASE pc = "statWrite"
      <4>1. NewestOf(FileCap, op[t].held, stored[f])
        BY <1>1, <3>1, <3>4 DEF HeldOf
      <4> QED  BY <1>1, <1>3, <3>4, <4>1 DEF HeldOf, NewestOf
    <3> QED  BY <3>2, <3>3, <3>4
  <2> QED  BY <1>2, <1>6, <2>1, StepHeld
<1>11. AllCounted' /\ HeldIsOrdered' /\ PendingIsNew' /\ FilesAreOrdered'
  <2>1. Pending(t)' => Pending(t)  BY <1>1, <1>3 DEF Pending
  <2>2. \A g \in Files : \/ file'[g].messages \in {file[g].messages, <<>>}
                         \/ file'[g].messages = op[t].held /\ ~Pending(t)'
    BY <1>4, <1>5
  <2>3. \/ op'[t].held \in {op[t].held, <<>>, file[op[t].file].messages}
        \/ /\ op'[t].held = Pushed(FileCap, file[op[t].file].messages, op[t].msg)
           /\ Pending(t)
    BY <1>3
  <2> QED  BY <1>2, <1>6, <2>1, <2>2, <2>3, StepOrder
<1>12. RoomRemembers'
  <2>1. op'[t] # Idle  BY <1>3 DEF Idle
  <2> QED  BY <1>1, <1>2, <1>6, <2>1, StepRooms
<1>13. t = RoomThread => op'[t].pc \notin {"statLoad", "statOpen", "statWrite", "ai"}
  BY <1>1, <1>3 DEF StorageInv, OpInv
<1> QED
  BY <1>2, <1>6, <1>7, <1>8, <1>9, <1>10, <1>11, <1>12, <1>13, StepInv

LEMMA FileExistsInv ==
    ASSUME StorageInv, NEW t \in Threads, FileExists(t)
    PROVE  StorageInv'
<1> DEFINE f == op[t].file
           pc == IF file[f].state = "absent" THEN "createOpen" ELSE "load"
<1>1. op[t].pc = "exists" /\ GoTo(t, pc) /\ UNCHANGED <<file, stored>> /\ Elsewhere
  BY DEF FileExists
<1>2. Busy(t)  BY <1>1 DEF Busy
<1>3. /\ op' \in [Threads -> Ops] /\ \A u \in Threads \ {t} : op'[u] = op[u]
      /\ op'[t].pc = pc /\ op'[t].file = f /\ op'[t].msg = op[t].msg
      /\ op'[t].held = op[t].held /\ op'[t].last = op[t].last
  BY <1>1, GoToFacts DEF StorageInv, Places
<1>4. StepOf(t)  BY <1>1, <1>3 DEF StepOf, Elsewhere
<1>5. StorageTypeOK'
  BY <1>1, <1>2, <1>3, <1>4, BusyFacts, StepTypes DEF StorageInv, StorageTypeOK
<1>6. EmptyUnlessWhole'  BY <1>1 DEF StorageInv, EmptyUnlessWhole
<1>7. KeptUnlessSpoiled'
  <2>1. f \notin spoiled => /\ file[f].state # "torn"
                           /\ NewestOf(FileCap, file[f].messages, stored[f])
    BY <1>1, <1>2, BusyKept
  <2>2. f \notin spoiled => /\ file'[f].state # "torn"
                           /\ NewestOf(FileCap, file'[f].messages, stored'[f])
    BY <1>1, <2>1 DEF NewestOf
  <2> QED  BY <1>2, <1>4, <2>2, StepKept
<1>8. HeldIsNewest'
  <2>1. HeldOf(t)'  BY <1>1, <1>3 DEF HeldOf
  <2> QED  BY <1>2, <1>4, <2>1, StepHeld
<1>9. AllCounted' /\ HeldIsOrdered' /\ PendingIsNew' /\ FilesAreOrdered'
  <2>1. Pending(t)  BY <1>1 DEF Pending
  <2>2. \A g \in Files : \/ file'[g].messages \in {file[g].messages, <<>>}
                         \/ file'[g].messages = op[t].held /\ ~Pending(t)'
    BY <1>1
  <2>3. \/ op'[t].held \in {op[t].held, <<>>, file[op[t].file].messages}
        \/ /\ op'[t].held = Pushed(FileCap, file[op[t].file].messages, op[t].msg)
           /\ Pending(t)
    BY <1>3
  <2> QED  BY <1>2, <1>4, <2>1, <2>2, <2>3, StepOrder
<1>10. RoomRemembers'
  <2>1. op'[t] # Idle  BY <1>3 DEF Idle
  <2> QED  BY <1>1, <1>2, <1>4, <2>1, StepRooms
<1>11. op'[t].pc \notin {"statLoad", "statOpen", "statWrite", "ai"}  BY <1>3
<1> QED  BY <1>2, <1>4, <1>5, <1>6, <1>7, <1>8, <1>9, <1>10, <1>11, StepInv

LEMMA CreateWriteInv ==
    ASSUME StorageInv, NEW t \in Threads, CreateWrite(t)
    PROVE  StorageInv'
<1> DEFINE f == op[t].file
<1>1. /\ op[t].pc = "createWrite" /\ Write(t, Whole(<<>>)) /\ GoTo(t, "load")
      /\ UNCHANGED stored /\ Elsewhere
  BY DEF CreateWrite
<1>2. Busy(t)  BY <1>1 DEF Busy
<1>3. /\ op' \in [Threads -> Ops] /\ \A u \in Threads \ {t} : op'[u] = op[u]
      /\ op'[t].pc = "load" /\ op'[t].file = f /\ op'[t].msg = op[t].msg
      /\ op'[t].held = op[t].held /\ op'[t].last = op[t].last
  BY <1>1, GoToFacts DEF StorageInv, Places
<1>4. /\ Whole(<<>>) \in Contents /\ Whole(<<>>).messages = <<>>
      /\ Len(<<>>) = 0 /\ 0 <= FileCap /\ Whole(<<>>).state = "whole"
  BY <1>2, BusyFacts DEF Whole, Contents
<1>5. /\ file' \in [Files -> Contents] /\ file'[f] = Whole(<<>>)
      /\ \A g \in Files \ {f} : file'[g] = file[g]
      /\ \A g \in Files : Len(file'[g].messages) <= FileCap
  BY <1>1, <1>2, <1>4, WriteFacts
<1>6. StepOf(t)  BY <1>1, <1>3, <1>5 DEF StepOf, Elsewhere
<1>7. StorageTypeOK'
  BY <1>1, <1>2, <1>3, <1>5, <1>6, BusyFacts, StepTypes DEF StorageInv, StorageTypeOK
<1>8. EmptyUnlessWhole'
  BY <1>4, <1>5 DEF StorageInv, EmptyUnlessWhole
<1>9. KeptUnlessSpoiled'
  <2>1. ASSUME f \notin spoiled
        PROVE  /\ file'[f].state # "torn"
               /\ NewestOf(FileCap, file'[f].messages, stored'[f])
    <3>1. stored[f] = <<>>  BY <1>1, <1>2, <2>1, BusyKept DEF HeldOf
    <3>2. NewestOf(FileCap, <<>>, <<>>)
      <4>1. Len(<<>>) = IF Len(<<>>) < FileCap THEN Len(<<>>) ELSE FileCap
        BY <1>2, <1>4, BusyFacts
      <4>2. 1 .. Len(<<>>) = {}  BY <1>4
      <4> QED  BY <4>1, <4>2 DEF NewestOf
    <3> QED  BY <1>1, <1>4, <1>5, <3>1, <3>2 DEF NewestOf
  <2> QED  BY <1>2, <1>6, <2>1, StepKept
<1>10. HeldIsNewest'
  <2>1. HeldOf(t)'  BY <1>3 DEF HeldOf
  <2> QED  BY <1>2, <1>6, <2>1, StepHeld
<1>11. AllCounted' /\ HeldIsOrdered' /\ PendingIsNew' /\ FilesAreOrdered'
  <2>1. Pending(t)  BY <1>1 DEF Pending
  <2>2. \A g \in Files : \/ file'[g].messages \in {file[g].messages, <<>>}
                         \/ file'[g].messages = op[t].held /\ ~Pending(t)'
    BY <1>4, <1>5
  <2>3. \/ op'[t].held \in {op[t].held, <<>>, file[op[t].file].messages}
        \/ /\ op'[t].held = Pushed(FileCap, file[op[t].file].messages, op[t].msg)
           /\ Pending(t)
    BY <1>3
  <2> QED  BY <1>2, <1>6, <2>1, <2>2, <2>3, StepOrder
<1>12. RoomRemembers'
  <2>1. op'[t] # Idle  BY <1>3 DEF Idle
  <2> QED  BY <1>1, <1>2, <1>6, <2>1, StepRooms
<1>13. op'[t].pc \notin {"statLoad", "statOpen", "statWrite", "ai"}  BY <1>3
<1> QED
  BY <1>2, <1>6, <1>7, <1>8, <1>9, <1>10, <1>11, <1>12, <1>13, StepInv

(* Reading a file, for appendMessage or for the statistics. *)
LEMMA LoadInv ==
    ASSUME StorageInv, NEW t \in Threads, LoadHistory(t) \/ StatLoad(t),
           file[op[t].file].state # "torn"
    PROVE  StorageInv'
<1> DEFINE f == op[t].file
           pushed == Pushed(FileCap, file[f].messages, op[t].msg)
<1>1. PICK pc \in {"saveOpen", "statOpen"}, ms \in {pushed, file[f].messages} :
         /\ \/ op[t].pc = "load" /\ pc = "saveOpen" /\ ms = pushed
            \/ op[t].pc = "statLoad" /\ pc = "statOpen" /\ ms = file[f].messages
         /\ op' = [op EXCEPT ![t].pc = pc, ![t].held = ms]
         /\ UNCHANGED <<file, stored>> /\ Elsewhere
  BY DEF LoadHistory, StatLoad
<1>2. Busy(t)  BY <1>1 DEF Busy
<1>3. /\ f \in Files /\ file[f].messages \in Seq(Messages) /\ op[t].msg \in Messages
      /\ stored[f] \in Seq(Messages) /\ FileCap \in Nat \ {0} /\ op[t] \in Ops
      /\ Len(file[f].messages) <= FileCap
  BY <1>2, BusyFacts DEF Contents
<1>4. pushed \in Seq(Messages) /\ Len(pushed) <= FileCap
  <2>1. Append(file[f].messages, op[t].msg) \in Seq(Messages)  BY <1>3
  <2>2. /\ pushed \in Seq(Messages)
        /\ Len(pushed) = IF Len(Append(file[f].messages, op[t].msg)) < FileCap
                         THEN Len(Append(file[f].messages, op[t].msg)) ELSE FileCap
    BY <1>3, <2>1, TrimmedIsNewest DEF Pushed
  <2>3. Len(Append(file[f].messages, op[t].msg)) \in Nat  BY <2>1
  <2> QED  BY <1>3, <2>2, <2>3
<1>5. ms \in Seq(Messages) /\ Len(ms) <= FileCap  BY <1>3, <1>4
<1> HIDE DEF pushed
<1>6. /\ op' \in [Threads -> Ops] /\ \A u \in Threads \ {t} : op'[u] = op[u]
      /\ op'[t].pc = pc /\ op'[t].file = f /\ op'[t].msg = op[t].msg
      /\ op'[t].held = ms /\ op'[t].last = op[t].last
  <2>1. op \in [Threads -> Ops] /\ pc \in Places
    BY DEF StorageInv, StorageTypeOK, Places
  <2> DEFINE new == [op[t] EXCEPT !.pc = pc, !.held = ms]
  <2>2. /\ new \in Ops /\ new.pc = pc /\ new.file = f /\ new.msg = op[t].msg
        /\ new.held = ms /\ new.last = op[t].last
    BY <1>3, <1>5, <2>1 DEF Ops
  <2>3. op' = [op EXCEPT ![t] = new]  BY <1>1
  <2> HIDE DEF new
  <2> QED  BY <2>1, <2>2, <2>3
<1>7. StepOf(t)  BY <1>1, <1>6 DEF StepOf, Elsewhere
<1>8. StorageTypeOK'
  BY <1>1, <1>5, <1>6, <1>7, StepTypes DEF StorageInv, StorageTypeOK
<1>9. EmptyUnlessWhole'  BY <1>1 DEF StorageInv, EmptyUnlessWhole
<1>10. ASSUME f \notin spoiled
       PROVE  /\ file[f].state # "torn"
              /\ NewestOf(FileCap, file[f].messages, stored[f])
  BY <1>1, <1>2, <1>10, BusyKept
<1>11. KeptUnlessSpoiled'
  <2>1. f \notin spoiled => /\ file'[f].state # "torn"
                           /\ NewestOf(FileCap, file'[f].messages, stored'[f])
    BY <1>1, <1>10 DEF NewestOf
  <2> QED  BY <1>2, <1>7, <2>1, StepKept
<1>12. HeldIsNewest'
  <2>1. ASSUME f \notin spoiled  PROVE HeldOf(t)'
    <3>1. NewestOf(FileCap, pushed, Append(stored[f], op[t].msg))
      BY <1>3, <1>10, <2>1, NewestPushed DEF pushed
    <3>2. CASE pc = "saveOpen"
      <4>1. op'[t].held = pushed /\ op'[t].file = f /\ op'[t].msg = op[t].msg
            /\ op'[t].pc = "saveOpen" /\ stored' = stored
        BY <1>1, <1>6, <3>2
      <4>2. NewestOf(FileCap, op'[t].held, Append(stored'[f], op'[t].msg))
        BY <3>1, <4>1
      <4> QED  BY <4>1, <4>2 DEF HeldOf, NewestOf
    <3>3. CASE pc = "statOpen"
      <4>1. op'[t].held = file[f].messages /\ op'[t].file = f
            /\ op'[t].pc = "statOpen" /\ stored' = stored
        BY <1>1, <1>6, <3>3
      <4>2. NewestOf(FileCap, op'[t].held, stored'[f])
        BY <1>10, <2>1, <4>1
      <4> QED  BY <4>1, <4>2 DEF HeldOf, NewestOf
    <3> QED  BY <3>2, <3>3
  <2> QED  BY <1>2, <1>7, <2>1, StepHeld
<1>13. AllCounted' /\ HeldIsOrdered' /\ PendingIsNew' /\ FilesAreOrdered'
  <2>1. Pending(t)' => Pending(t)  BY <1>1, <1>6 DEF Pending
  <2>2. \A g \in Files : \/ file'[g].messages \in {file[g].messages, <<>>}
                         \/ file'[g].messages = op[t].held /\ ~Pending(t)'
    BY <1>1
  <2>3. \/ op'[t].held \in {op[t].held, <<>>, file[f].messages}
        \/ op'[t].held = pushed /\ Pending(t)
    BY <1>1, <1>6 DEF Pending
  <2> QED  BY <1>2, <1>7, <2>1, <2>2, <2>3, StepOrder DEF pushed
<1>14. RoomRemembers'
  <2>1. op'[t] # Idle  BY <1>6 DEF Idle
  <2> QED  BY <1>1, <1>2, <1>7, <2>1, StepRooms
<1>15. t = RoomThread => op'[t].pc \notin {"statLoad", "statOpen", "statWrite", "ai"}
  BY <1>1, <1>6 DEF StorageInv, OpInv
<1> QED
  BY <1>2, <1>7, <1>8, <1>9, <1>11, <1>12, <1>13, <1>14, <1>15, StepInv

(* The second half of saveHistory. *)
LEMMA SaveWriteInv ==
    ASSUME StorageInv, NEW t \in Threads, SaveWrite(t)
    PROVE  StorageInv'
<1> DEFINE f == op[t].file
           held == op[t].held
<1>1. /\ op[t].pc = "saveWrite" /\ Write(t, Whole(held)) /\ AfterSave(t)
      /\ stored' = [stored EXCEPT ![f] = Append(@, op[t].msg)] /\ Elsewhere
  BY DEF SaveWrite
<1>2. Busy(t) /\ Pending(t)  BY <1>1 DEF Busy, Pending
<1>3. /\ f \in Files /\ held \in Seq(Messages) /\ op[t].msg \in Messages
      /\ stored[f] \in Seq(Messages) /\ FileCap \in Nat \ {0}
      /\ Len(held) <= FileCap
  BY <1>2, BusyFacts
<1>4. IF t = RoomThread THEN f[1] = "room_" ELSE f[1] = "user_"
  <2>1. \A r \in rooms : RoomFile(r)[1] = "room_"  BY DEF RoomFile
  <2> QED  BY <1>2, <2>1, BusyFacts DEF StorageInv, OpInv
<1>5. /\ op' \in [Threads -> Ops] /\ \A u \in Threads \ {t} : op'[u] = op[u]
      /\ \/ t = RoomThread /\ op'[t] = Idle
         \/ /\ t # RoomThread /\ op'[t].pc = "statLoad" /\ op'[t].file = f
            /\ op'[t].msg = op[t].msg /\ op'[t].held = held
            /\ op'[t].last = op[t].last
  <2>1. CASE t = RoomThread
    <3>1. op' = [op EXCEPT ![t] = Idle]  BY <1>1, <1>4, <2>1 DEF AfterSave
    <3> QED  BY <2>1, <3>1, IdleType DEF StorageInv, StorageTypeOK
  <2>2. CASE t # RoomThread
    <3>1. GoTo(t, "statLoad")  BY <1>1, <1>4, <2>2 DEF AfterSave
    <3>2. "statLoad" \in Places  BY DEF Places
    <3> QED  BY <2>2, <3>1, <3>2, GoToFacts DEF StorageInv
  <2> QED  BY <2>1, <2>2
<1>6. /\ Whole(held) \in Contents /\ Whole(held).messages = held
      /\ Whole(held).state = "whole"
  BY <1>3 DEF Whole, Contents
<1>7. /\ file' \in [Files -> Contents] /\ file'[f] = Whole(held)
      /\ \A g \in Files \ {f} : file'[g] = file[g]
      /\ \A g \in Files : Len(file'[g].messages) <= FileCap
  BY <1>1, <1>2, <1>3, <1>6, WriteFacts
<1>8. /\ stored' \in [Files -> Seq(Messages)]
      /\ stored'[f] = Append(stored[f], op[t].msg)
      /\ \A g \in Files \ {f} : stored'[g] = stored[g]
  <2>1. Append(stored[f], op[t].msg) \in Seq(Messages)  BY <1>3
  <2> QED  BY <1>1, <1>3, <2>1 DEF StorageInv, StorageTypeOK
<1>9. StepOf(t)  BY <1>1, <1>5, <1>7, <1>8 DEF StepOf, Elsewhere
<1>10. StorageTypeOK'
  <2>1. Len(op'[t].held) <= FileCap
    <3>1. Len(Idle.held) = 0  BY DEF Idle
    <3> QED  BY <1>3, <1>5, <3>1
  <2> QED  BY <1>5, <1>7, <1>8, <1>9, <2>1, StepTypes DEF StorageInv
<1>11. EmptyUnlessWhole'
  BY <1>6, <1>7 DEF StorageInv, EmptyUnlessWhole
<1>12. KeptUnlessSpoiled'
  <2>1. ASSUME f \notin spoiled
        PROVE  /\ file'[f].state # "torn"
               /\ NewestOf(FileCap, file'[f].messages, stored'[f])
    <3>1. NewestOf(FileCap, held, Append(stored[f], op[t].msg))
      BY <1>1, <1>2, <2>1, BusyKept DEF HeldOf
    <3> QED  BY <1>6, <1>7, <1>8, <3>1
  <2> QED  BY <1>2, <1>9, <2>1, StepKept
<1>13. HeldIsNewest'
  <2>1. op'[t] # Idle => HeldOf(t)'  BY <1>5 DEF HeldOf
  <2> QED  BY <1>2, <1>9, <2>1, StepHeld
<1>14. AllCounted' /\ HeldIsOrdered' /\ PendingIsNew' /\ FilesAreOrdered'
  <2>1. ~Pending(t)'  BY <1>5 DEF Pending, Idle
  <2>2. \A g \in Files : \/ file'[g].messages \in {file[g].messages, <<>>}
                         \/ file'[g].messages = op[t].held /\ ~Pending(t)'
    BY <1>6, <1>7, <2>1
  <2>3. \/ op'[t].held \in {op[t].held, <<>>, file[op[t].file].messages}
        \/ /\ op'[t].held = Pushed(FileCap, file[op[t].file].messages, op[t].msg)
           /\ Pending(t)
    BY <1>5 DEF Idle
  <2> QED  BY <1>2, <1>9, <2>1, <2>2, <2>3, StepOrder
<1>15. RoomRemembers'
  <2>1. CASE t = RoomThread
    <3>1. op'[t] = Idle  BY <1>5, <2>1
    <3> QED  BY <1>2, <1>8, <1>9, <2>1, <3>1, StepRooms
  <2>2. CASE t # RoomThread
    <3>1. \A g \in Files : g[1] = "room_" => stored'[g] = stored[g]
      BY <1>4, <1>8, <2>2
    <3> QED  BY <1>2, <1>9, <2>2, <3>1, StepRooms
  <2> QED  BY <2>1, <2>2
<1>16. t = RoomThread => op'[t].pc \notin {"statLoad", "statOpen", "statWrite", "ai"}
  BY <1>5 DEF Idle
<1> QED
  BY <1>2, <1>9, <1>10, <1>11, <1>12, <1>13, <1>14, <1>15, <1>16, StepInv

(* The statistics are written over what was read. *)
LEMMA StatWriteInv ==
    ASSUME StorageInv, NEW t \in Threads, StatWrite(t)
    PROVE  StorageInv'
<1> DEFINE f == op[t].file
           held == op[t].held
<1>1. /\ op[t].pc = "statWrite" /\ Write(t, Whole(held))
      /\ IF op[t].last THEN op' = [op EXCEPT ![t] = Idle] ELSE GoTo(t, "ai")
      /\ UNCHANGED stored /\ Elsewhere
  BY DEF StatWrite
<1>2. Busy(t)  BY <1>1 DEF Busy
<1>3. /\ f \in Files /\ held \in Seq(Messages) /\ FileCap \in Nat \ {0}
      /\ Len(held) <= FileCap
  BY <1>2, BusyFacts
<1>4. t # RoomThread  BY <1>1 DEF StorageInv, OpInv
<1>5. /\ op' \in [Threads -> Ops] /\ \A u \in Threads \ {t} : op'[u] = op[u]
      /\ \/ op'[t] = Idle
         \/ /\ op'[t].pc = "ai" /\ op'[t].file = f
            /\ op'[t].msg = op[t].msg /\ op'[t].held = held
            /\ op'[t].last = op[t].last
  <2>1. CASE op[t].last
    BY <1>1, <2>1, IdleType DEF StorageInv, StorageTypeOK
  <2>2. CASE ~op[t].last
    <3>1. GoTo(t, "ai") /\ "ai" \in Places  BY <1>1, <2>2 DEF Places
    <3> QED  BY <3>1, GoToFacts DEF StorageInv
  <2> QED  BY <2>1, <2>2
<1>6. /\ Whole(held) \in Contents /\ Whole(held).messages = held
      /\ Whole(held).state = "whole"
  BY <1>3 DEF Whole, Contents
<1>7. /\ file' \in [Files -> Contents] /\ file'[f] = Whole(held)
      /\ \A g \in Files \ {f} : file'[g] = file[g]
      /\ \A g \in Files : Len(file'[g].messages) <= FileCap
  BY <1>1, <1>2, <1>3, <1>6, WriteFacts
<1>8. stored' = stored  BY <1>1
<1>9. StepOf(t)  BY <1>1, <1>5, <1>7, <1>8 DEF StepOf, Elsewhere
<1>10. StorageTypeOK'
  <2>1. Len(op'[t].held) <= FileCap
    <3>1. Len(Idle.held) = 0  BY DEF Idle
    <3> QED  BY <1>3, <1>5, <3>1
  <2>2. stored' \in [Files -> Seq(Messages)]
    BY <1>8 DEF StorageInv, StorageTypeOK
  <2> QED  BY <1>5, <1>7, <1>9, <2>1, <2>2, StepTypes DEF StorageInv
<1>11. EmptyUnlessWhole'
  BY <1>6, <1>7 DEF StorageInv, EmptyUnlessWhole
<1>12. KeptUnlessSpoiled'
  <2>1. ASSUME f \notin spoiled
        PROVE  /\ file'[f].state # "torn"
               /\ NewestOf(FileCap, file'[f].messages, stored'[f])
    <3>1. NewestOf(FileCap, held, stored[f])
      BY <1>1, <1>2, <2>1, BusyKept DEF HeldOf
    <3> QED  BY <1>6, <1>7, <1>8, <3>1
  <2> QED  BY <1>2, <1>9, <2>1, StepKept
<1>13. HeldIsNewest'
  <2>1. op'[t] # Idle => HeldOf(t)'  BY <1>5 DEF HeldOf
  <2> QED  BY <1>2, <1>9, <2>1, StepHeld
<1>14. AllCounted' /\ HeldIsOrdered' /\ PendingIsNew' /\ FilesAreOrdered'
  <2>1. ~Pending(t)'  BY <1>5 DEF Pending, Idle
  <2>2. \A g \in Files : \/ file'[g].messages \in {file[g].messages, <<>>}
                         \/ file'[g].messages = op[t].held /\ ~Pending(t)'
    BY <1>6, <1>7, <2>1
  <2>3. op'[t].held \in {op[t].held, <<>>, file[op[t].file].messages}
    BY <1>5 DEF Idle
  <2> QED  BY <1>2, <1>9, <2>1, <2>2, <2>3, StepOrder
<1>15. RoomRemembers'
  BY <1>2, <1>4, <1>8, <1>9, StepRooms
<1> QED
  BY <1>2, <1>4, <1>9, <1>10, <1>11, <1>12, <1>13, <1>14, <1>15, StepInv

-----------------------------------------------------------------------------
(* The other steps. *)

(* A file that cannot be parsed is one that something has happened to, or   *)
(* that is being rewritten.                                                 *)
LEMMA TornFiles ==
    ASSUME StorageInv, NEW f \in Files, file[f].state = "torn"
    PROVE  f \in spoiled \/ Rewriting(f)
BY DEF StorageInv, KeptUnlessSpoiled

LEMMA EndsInv ==
    ASSUME StorageInv, NEW f \in Files \cup {NoFile}, ProcessEnds(f),
           crashes' \in 0 .. MaxCrashes, f # NoFile => f \in spoiled \/ Rewriting(f)
    PROVE  StorageInv'
<1>1. /\ rooms' = {} /\ op' = [t \in Threads |-> Idle] /\ diedOf' = f
      /\ spoiled' = spoiled \cup {g \in Files : Rewriting(g)}
      /\ UNCHANGED <<file, made, stored>>
  BY DEF ProcessEnds
<1>2. \A t \in Threads : /\ op'[t] = Idle /\ op'[t].pc = "idle"
                         /\ op'[t].held = <<>> /\ ~Busy(t)' /\ ~Pending(t)'
  BY <1>1 DEF Idle, Busy, Pending
<1>3. StorageTypeOK'  BY EndsType DEF StorageInv
<1>4. OpInv'  BY <1>1, <1>2, FileTypes DEF OpInv
<1>5. EmptyUnlessWhole' /\ FilesAreOrdered'
  BY <1>1 DEF StorageInv, EmptyUnlessWhole, FilesAreOrdered, InOrder
<1>6. OneAtATime'  BY <1>2 DEF OneAtATime
<1>7. HeldIsNewest'  BY <1>2 DEF HeldIsNewest, HeldOf
<1>8. AllCounted' /\ HeldIsOrdered' /\ PendingIsNew'
  <2>1. InOrder(<<>>) /\ Counted(<<>>)  BY DEF InOrder, Counted
  <2>2. \A g \in Files : Counted(file'[g].messages)
    BY <1>1 DEF StorageInv, AllCounted
  <2>3. AllCounted'
    <3>1. \A t \in Threads : Counted(op'[t].held)  BY <1>2, <2>1
    <3> QED  BY <1>1, <2>2, <3>1 DEF AllCounted, Counted
  <2>4. HeldIsOrdered'  BY <1>2, <2>1 DEF HeldIsOrdered, InOrder
  <2> QED  BY <1>2, <2>3, <2>4 DEF PendingIsNew
<1>9. KeptUnlessSpoiled'
  BY <1>1 DEF StorageInv, KeptUnlessSpoiled, NewestOf
<1>10. DiesOnlyOfSpoiledFiles'
  BY <1>1 DEF DiesOnlyOfSpoiledFiles
<1>11. RoomRemembers'  BY <1>1 DEF RoomRemembers
<1> QED
  BY <1>3, <1>4, <1>5, <1>6, <1>7, <1>8, <1>9, <1>10, <1>11 DEF StorageInv

(* appendMessage begins. *)
LEMMA BeginInv ==
    ASSUME StorageInv, NEW t \in Threads, NEW a \in Authors, NEW f \in Files,
           NEW cut \in BOOLEAN, NEW last \in BOOLEAN,
           BeginAppend(t, a, f, cut, last), ~Busy(t), up,
           IF t = RoomThread THEN a \in rooms /\ f = RoomFile(a) /\ last
                             ELSE a \in Sockets /\ Loop[a] = t /\ f[1] = "user_",
           UNCHANGED <<up, file, nextRoomId, rooms, stored, diedOf>>,
           StorageTypeOK', RoomRemembers'
    PROVE  StorageInv'
<1> DEFINE m == [by |-> a, n |-> made[a] + 1]
<1>1. /\ made' \in [Authors -> Nat] /\ made'[a] = made[a] + 1
      /\ \A b \in Authors \ {a} : made'[b] = made[b]
      /\ op'[t] = [pc |-> "exists", file |-> f, cut |-> cut, last |-> last,
                   msg |-> m, held |-> <<>>]
      /\ \A u \in Threads \ {t} : op'[u] = op[u]
      /\ m \in Messages
  BY BeginType DEF StorageInv
<1>2. /\ op'[t].pc = "exists" /\ op'[t].file = f /\ op'[t].msg = m
      /\ op'[t].held = <<>> /\ op'[t].last = last
  BY <1>1
<1>3. spoiled' = IF UsedByOther(t, f) THEN spoiled \cup {f} ELSE spoiled
  BY DEF BeginAppend, Spoils
<1>4. made[a] \in Nat /\ m.n = made[a] + 1 /\ m.by = a
  BY DEF StorageInv, StorageTypeOK
<1> HIDE DEF m
<1>5. OpInv'
  <2>1. ASSUME NEW u \in Threads
        PROVE  IF op'[u].pc = "idle" THEN op'[u] = Idle
               ELSE LET b == op'[u].msg.by IN
                    /\ up' /\ op'[u].file \in Files /\ op'[u].msg \in Messages
                    /\ op'[u].msg.n = made'[b]
                    /\ IF u = RoomThread
                       THEN b \in rooms' /\ op'[u].file = RoomFile(b) /\ op'[u].last
                       ELSE b \in Sockets /\ Loop[b] = u /\ op'[u].file[1] = "user_"
    <3>1. CASE u = t
      BY <3>1, <1>1, <1>2, <1>4
    <3>2. CASE u # t /\ op[u].pc = "idle"
      BY <3>2, <1>1 DEF StorageInv, OpInv
    <3>3. CASE u # t /\ op[u].pc # "idle"
      <4> DEFINE b == op[u].msg.by
      <4>1. /\ op[u].file \in Files /\ op[u].msg \in Messages
            /\ op[u].msg.n = made[b]
            /\ IF u = RoomThread
               THEN b \in rooms /\ op[u].file = RoomFile(b) /\ op[u].last
               ELSE b \in Sockets /\ Loop[b] = u /\ op[u].file[1] = "user_"
        BY <3>3 DEF StorageInv, OpInv
      <4>2. b # a
        <5>1. rooms \cap Sockets = {}
          BY FileTypes DEF StorageInv, StorageTypeOK
        <5> QED  BY <3>3, <4>1, <5>1
      <4>3. b \in Authors  BY <4>1 DEF Messages
      <4> QED  BY <3>3, <4>1, <4>2, <4>3, <1>1
    <3> QED  BY <3>1, <3>2, <3>3
  <2>2. op'[RoomThread].pc \notin {"statLoad", "statOpen", "statWrite", "ai"}
    BY <1>1, <1>2, FileTypes DEF StorageInv, OpInv
  <2>3. \A r \in rooms' : r < nextRoomId'  BY DEF StorageInv, OpInv
  <2> QED  BY <2>1, <2>2, <2>3 DEF OpInv, RoomFile
<1>6. EmptyUnlessWhole'  BY DEF StorageInv, EmptyUnlessWhole
<1>7. OneAtATime'
  <2> SUFFICES ASSUME NEW g \in Files \ spoiled', NEW u \in Threads,
                      NEW v \in Threads, op'[u].file = g, op'[v].file = g,
                      Busy(u)', Busy(v)', u # v
               PROVE  FALSE
    BY DEF OneAtATime
  <2>1. ASSUME NEW w \in Threads, w # t, op'[w].file = g, Busy(w)'
        PROVE  op[w].file = g /\ Busy(w)
    BY <1>1, <2>1 DEF Busy
  <2>2. CASE u = t \/ v = t
    <3>1. g = f  BY <1>2, <2>2
    <3>2. UsedByOther(t, f)  BY <2>1, <2>2, <3>1 DEF UsedByOther, Busy
    <3> QED  BY <1>3, <3>1, <3>2
  <2>3. CASE u # t /\ v # t
    <3>1. g \notin spoiled  BY <1>3
    <3> QED  BY <2>1, <2>3, <3>1 DEF StorageInv, OneAtATime
  <2> QED  BY <2>2, <2>3
<1>8. HeldIsNewest'
  <2> SUFFICES ASSUME NEW u \in Threads, op'[u].file \notin spoiled'
               PROVE  HeldOf(u)'
    BY DEF HeldIsNewest
  <2>1. CASE u = t  BY <1>2, <2>1 DEF HeldOf
  <2>2. CASE u # t
    <3>1. op'[u] = op[u] /\ file' = file /\ stored' = stored  BY <1>1, <2>2
    <3>2. op[u].file \notin spoiled  BY <1>3, <3>1
    <3>3. HeldOf(u)  BY <3>2 DEF StorageInv, HeldIsNewest
    <3> QED  BY <3>1, <3>3 DEF HeldOf, NewestOf
  <2> QED  BY <2>1, <2>2
<1>9. AllCounted'
  <2>1. ASSUME NEW ms \in Seq(Messages), Counted(ms)
        PROVE  \A i \in DOMAIN ms : ms[i].n <= made'[ms[i].by]
    <3> SUFFICES ASSUME NEW i \in DOMAIN ms  PROVE ms[i].n <= made'[ms[i].by]
      OBVIOUS
    <3>1. ms[i] \in Messages  OBVIOUS
    <3>2. ms[i].by \in Authors /\ ms[i].n \in Nat  BY <3>1 DEF Messages
    <3>3. ms[i].n <= made[ms[i].by]  BY <2>1 DEF Counted
    <3>4. made[ms[i].by] \in Nat  BY <3>2 DEF StorageInv, StorageTypeOK
    <3>5. made'[ms[i].by] \in {made[ms[i].by], made[ms[i].by] + 1}
      BY <1>1, <3>2
    <3> QED  BY <3>2, <3>3, <3>4, <3>5
  <2>2. \A g \in Files : Counted(file[g].messages)' 
    <3>1. \A g \in Files : /\ file'[g].messages \in Seq(Messages)
                           /\ Counted(file'[g].messages)
      BY DEF StorageInv, StorageTypeOK, Contents, AllCounted
    <3> QED  BY <2>1, <3>1 DEF Counted
  <2>3. \A u \in Threads : Counted(op[u].held)'
    <3>1. \A u \in Threads \ {t} : /\ op'[u].held \in Seq(Messages)
                                  /\ Counted(op'[u].held)
      BY <1>1 DEF StorageInv, StorageTypeOK, Ops, AllCounted
    <3> QED  BY <1>2, <2>1, <3>1 DEF Counted
  <2> QED  BY <2>2, <2>3 DEF AllCounted
<1>10. HeldIsOrdered'
  <2>1. InOrder(<<>>)  BY DEF InOrder
  <2> QED  BY <1>1, <1>2, <2>1 DEF StorageInv, HeldIsOrdered, InOrder
<1>11. PendingIsNew'
  <2>1. ASSUME NEW ms \in Seq(Messages), Counted(ms)  PROVE m \notin Range(ms)
    <3> SUFFICES ASSUME NEW i \in DOMAIN ms, ms[i] = m  PROVE FALSE
      BY DEF Range
    <3>1. m.n <= made[m.by]  BY <2>1 DEF Counted
    <3> QED  BY <1>4, <3>1
  <2>2. ASSUME NEW u \in Threads, Pending(u)'
        PROVE  /\ \A g \in Files : op'[u].msg \notin Range(file'[g].messages)
               /\ \A v \in Threads \ {u} : op'[u].msg \notin Range(op'[v].held)
    <3>1. CASE u = t
      <4>1. \A g \in Files : /\ file'[g].messages \in Seq(Messages)
                             /\ Counted(file'[g].messages)
        BY DEF StorageInv, StorageTypeOK, Contents, AllCounted
      <4>2. \A v \in Threads \ {t} : /\ op'[v].held \in Seq(Messages)
                                    /\ Counted(op'[v].held)
        BY <1>1 DEF StorageInv, StorageTypeOK, Ops, AllCounted
      <4> QED  BY <3>1, <1>2, <2>1, <4>1, <4>2
    <3>2. CASE u # t
      <4>1. op'[u] = op[u] /\ Pending(u)  BY <1>1, <2>2, <3>2 DEF Pending
      <4>2. /\ \A g \in Files : op[u].msg \notin Range(file[g].messages)
            /\ \A v \in Threads \ {u} : op[u].msg \notin Range(op[v].held)
        BY <4>1 DEF StorageInv, PendingIsNew
      <4>3. Range(<<>>) = {}  BY DEF Range
      <4>4. \A v \in Threads : op'[v].held \in {<<>>, op[v].held}  BY <1>1, <1>2
      <4> QED  BY <4>1, <4>2, <4>3, <4>4
    <3> QED  BY <3>1, <3>2
  <2> QED  BY <2>2 DEF PendingIsNew, Pending, Range
<1>12. KeptUnlessSpoiled'
  <2> SUFFICES ASSUME NEW g \in Files \ spoiled', ~Rewriting(g)'
               PROVE  /\ file'[g].state # "torn"
                      /\ NewestOf(FileCap, file'[g].messages, stored'[g])
    BY DEF KeptUnlessSpoiled, NewestOf
  <2>1. g \notin spoiled  BY <1>3
  <2>2. ~Rewriting(g)  BY <1>1 DEF Rewriting, Busy
  <2> QED  BY <2>1, <2>2 DEF StorageInv, KeptUnlessSpoiled
<1>13. DiesOnlyOfSpoiledFiles'
  BY <1>3 DEF StorageInv, DiesOnlyOfSpoiledFiles
<1>14. FilesAreOrdered'
  BY DEF StorageInv, FilesAreOrdered, InOrder
<1> QED
  BY <1>5, <1>6, <1>7, <1>8, <1>9, <1>10, <1>11, <1>12, <1>13, <1>14 DEF StorageInv

LEMMA ReadChatInv ==
    ASSUME StorageInv, NEW s \in Sockets, NEW cut \in BOOLEAN, ReadChat(s, cut)
    PROVE  StorageInv'
<1> DEFINE t == Loop[s]
<1>1. /\ up /\ op[t].pc = "idle" /\ texts < MaxTexts /\ texts' = texts + 1
      /\ BeginAppend(t, s, UserFile(s), cut, FALSE)
      /\ UNCHANGED <<up, file, processVars, crashes, stored, diedOf>>
  BY DEF ReadChat
<1>2. /\ t \in Threads /\ t # RoomThread /\ s \in Authors /\ FALSE \in BOOLEAN
      /\ UserFile(s) \in Files /\ UserFile(s)[1] = "user_"
  BY FileTypes, UserFileType DEF StorageInv, Authors
<1>3. StorageTypeOK'
  <2>1. texts' \in 0 .. MaxTexts
    BY <1>1, StorageAssumption DEF StorageInv, StorageTypeOK
  <2>2. /\ made' \in [Authors -> Nat] /\ op' \in [Threads -> Ops]
        /\ \A u \in Threads : Len(op'[u].held) <= FileCap
        /\ spoiled' \subseteq Files
    BY <1>1, <1>2, BeginType DEF StorageInv
  <2> QED  BY <1>1, <2>1, <2>2 DEF StorageInv, StorageTypeOK, processVars
<1>4. RoomRemembers'
  <2>1. op'[RoomThread] = op[RoomThread]
    BY <1>1, <1>2, FileTypes DEF BeginAppend, StorageInv, StorageTypeOK
  <2>2. spoiled \subseteq spoiled'  BY <1>1 DEF BeginAppend, Spoils
  <2> SUFFICES ASSUME NEW r \in rooms', RoomFile(r) \notin spoiled'
               PROVE  NewestOf(HistoryCap, memory'[r],
                               stored'[RoomFile(r)] \o Unsaved(r)')
    BY DEF RoomRemembers, RoomFile, NewestOf
  <2>3. Unsaved(r)' = Unsaved(r)  BY <2>1 DEF Unsaved, RoomFile
  <2>4. r \in rooms /\ memory' = memory /\ stored' = stored
    BY <1>1 DEF processVars
  <2> QED  BY <2>2, <2>3, <2>4 DEF StorageInv, RoomRemembers
<1>5. ~Busy(t)  BY <1>1 DEF Busy
<1>6. UNCHANGED <<up, file, nextRoomId, rooms, stored, diedOf>>
  BY <1>1 DEF processVars
<1> QED  BY <1>1, <1>2, <1>3, <1>4, <1>5, <1>6, BeginInv

LEMMA AiAnswersInv ==
    ASSUME StorageInv, NEW t \in Threads, AiAnswers(t)
    PROVE  StorageInv'
<1> DEFINE a == op[t].msg.by
           f == op[t].file
<1>1. /\ op[t].pc = "ai" /\ BeginAppend(t, a, f, FALSE, TRUE)
      /\ UNCHANGED <<up, file, processVars, boundVars, stored, diedOf>>
  BY DEF AiAnswers
<1>2. t # RoomThread  BY <1>1 DEF StorageInv, OpInv
<1>3. /\ up /\ f \in Files /\ f[1] = "user_" /\ a \in Sockets /\ Loop[a] = t
      /\ a \in Authors
  BY <1>1, <1>2 DEF StorageInv, OpInv, Authors
<1> HIDE DEF a, f
<1>4. StorageTypeOK'
  <2>1. /\ made' \in [Authors -> Nat] /\ op' \in [Threads -> Ops]
        /\ \A u \in Threads : Len(op'[u].held) <= FileCap
        /\ spoiled' \subseteq Files
    BY <1>1, <1>3, BeginType DEF StorageInv
  <2> QED  BY <1>1, <2>1 DEF StorageInv, StorageTypeOK, processVars, boundVars
<1>5. RoomRemembers'
  <2>1. op'[RoomThread] = op[RoomThread]
    BY <1>1, <1>2, FileTypes DEF BeginAppend, StorageInv, StorageTypeOK
  <2>2. spoiled \subseteq spoiled'  BY <1>1 DEF BeginAppend, Spoils
  <2> SUFFICES ASSUME NEW r \in rooms', RoomFile(r) \notin spoiled'
               PROVE  NewestOf(HistoryCap, memory'[r],
                               stored'[RoomFile(r)] \o Unsaved(r)')
    BY DEF RoomRemembers, RoomFile, NewestOf
  <2>3. Unsaved(r)' = Unsaved(r)  BY <2>1 DEF Unsaved, RoomFile
  <2>4. r \in rooms /\ memory' = memory /\ stored' = stored
    BY <1>1 DEF processVars
  <2> QED  BY <2>2, <2>3, <2>4 DEF StorageInv, RoomRemembers
<1>6. ~Busy(t)  BY <1>1 DEF Busy
<1>7. UNCHANGED <<up, file, nextRoomId, rooms, stored, diedOf>>
  BY <1>1 DEF processVars
<1> QED  BY <1>1, <1>2, <1>3, <1>4, <1>5, <1>6, <1>7, BeginInv

LEMMA AddHistoryInv ==
    ASSUME StorageInv, NEW r \in RoomIds, NEW cut \in BOOLEAN, AddHistory(r, cut)
    PROVE  StorageInv'
<1> DEFINE f == RoomFile(r)
           m == [by |-> r, n |-> made[r] + 1]
<1>1. /\ up /\ op[RoomThread].pc = "idle" /\ r \in rooms
      /\ texts < MaxTexts /\ texts' = texts + 1
      /\ BeginAppend(RoomThread, r, f, cut, TRUE)
      /\ memory' = [memory EXCEPT ![r] = Pushed(HistoryCap, @, m)]
      /\ UNCHANGED <<up, file, user, nextRoomId, rooms, crashes, stored, diedOf>>
  BY DEF AddHistory
<1>2. f \in Files /\ f # NoFile /\ RoomThread \in Threads /\ r \in Authors
  BY FileTypes DEF Authors
<1>3. /\ made' \in [Authors -> Nat] /\ op' \in [Threads -> Ops]
      /\ op'[RoomThread].file = f /\ op'[RoomThread].msg = m
      /\ m \in Messages
      /\ \A u \in Threads : Len(op'[u].held) <= FileCap
      /\ spoiled' \subseteq Files
  <2>1. PICK last \in BOOLEAN : last = TRUE  OBVIOUS
  <2>2. BeginAppend(RoomThread, r, f, cut, last) /\ StorageTypeOK
    BY <1>1, <2>1 DEF StorageInv
  <2> HIDE DEF f
  <2>3. /\ made' \in [Authors -> Nat] /\ op' \in [Threads -> Ops]
        /\ \A u \in Threads : Len(op'[u].held) <= FileCap
        /\ spoiled' \subseteq Files
    BY <1>2, <2>2, BeginType
  <2>4. op'[RoomThread] = [pc |-> "exists", file |-> f, cut |-> cut, last |-> last,
                           msg |-> m, held |-> <<>>]
    BY <1>2, <2>2, BeginType
  <2>5. m \in Messages
    BY <1>2 DEF StorageInv, StorageTypeOK, Messages
  <2> HIDE DEF m
  <2> QED  BY <2>3, <2>4, <2>5
<1>4. op'[RoomThread].file = f /\ op'[RoomThread].msg = m  BY <1>3
<1>5. spoiled \subseteq spoiled'  BY <1>1 DEF BeginAppend, Spoils
<1> HIDE DEF m
<1>6. /\ memory[r] \in Seq(Messages) /\ stored[f] \in Seq(Messages)
      /\ HistoryCap \in Nat \ {0} /\ memory \in [RoomIds -> Seq(Messages)]
  BY <1>2, StorageAssumption DEF StorageInv, StorageTypeOK
<1>7. Append(memory[r], m) \in Seq(Messages)  BY <1>3, <1>6
<1>8. /\ Pushed(HistoryCap, memory[r], m) \in Seq(Messages)
      /\ Len(Pushed(HistoryCap, memory[r], m)) <= HistoryCap
  <2>1. /\ Pushed(HistoryCap, memory[r], m) \in Seq(Messages)
        /\ Len(Pushed(HistoryCap, memory[r], m)) =
               IF Len(Append(memory[r], m)) < HistoryCap
               THEN Len(Append(memory[r], m)) ELSE HistoryCap
    BY <1>6, <1>7, TrimmedIsNewest DEF Pushed
  <2>2. Len(Append(memory[r], m)) \in Nat  BY <1>7
  <2> QED  BY <1>6, <2>1, <2>2
<1>9. /\ memory' \in [RoomIds -> Seq(Messages)]
      /\ memory'[r] = Pushed(HistoryCap, memory[r], m)
      /\ \A q \in RoomIds \ {r} : memory'[q] = memory[q]
  BY <1>1, <1>6, <1>8
<1>10. StorageTypeOK'
  <2>1. texts' \in 0 .. MaxTexts
    BY <1>1, StorageAssumption DEF StorageInv, StorageTypeOK
  <2>2. \A q \in RoomIds : Len(memory'[q]) <= HistoryCap
    BY <1>8, <1>9 DEF StorageInv, StorageTypeOK
  <2> QED  BY <1>1, <1>3, <1>9, <2>1, <2>2 DEF StorageInv, StorageTypeOK
<1>11. op[RoomThread].file = NoFile
  BY <1>1, <1>2 DEF StorageInv, OpInv, Idle
<1>12. RoomRemembers'
  <2> SUFFICES ASSUME NEW q \in rooms', RoomFile(q) \notin spoiled'
               PROVE  NewestOf(HistoryCap, memory'[q],
                               stored'[RoomFile(q)] \o Unsaved(q)')
    BY DEF RoomRemembers, RoomFile, NewestOf
  <2> DEFINE g == RoomFile(q)
  <2>1. q \in rooms /\ q \in RoomIds /\ g \notin spoiled /\ stored' = stored
    BY <1>1, <1>5 DEF StorageInv, StorageTypeOK
  <2>2. g \in Files /\ g # NoFile /\ (g = f => q = r)  BY <2>1, FileTypes
  <2>3. stored[g] \in Seq(Messages) /\ stored[g] \o <<>> = stored[g]
    BY <2>2 DEF StorageInv, StorageTypeOK
  <2>4. Unsaved(q) = <<>>  BY <1>11, <2>2 DEF Unsaved
  <2>5. NewestOf(HistoryCap, memory[q], stored[g])
    BY <2>1, <2>3, <2>4 DEF StorageInv, RoomRemembers
  <2>6. CASE q = r
    <3>1. Unsaved(q)' = <<m>>  BY <1>4, <2>6 DEF Unsaved, RoomFile
    <3>2. stored[f] \o <<m>> = Append(stored[f], m)  BY <1>3, <1>6
    <3>3. NewestOf(HistoryCap, memory[r], stored[f])  BY <2>5, <2>6
    <3>4. NewestOf(HistoryCap, Pushed(HistoryCap, memory[r], m), Append(stored[f], m))
      BY <1>3, <1>6, <3>3, NewestPushed
    <3> QED  BY <1>9, <2>1, <2>6, <3>1, <3>2, <3>4
  <2>7. CASE q # r
    <3>1. Unsaved(q)' = <<>>
      <4>1. op'[RoomThread].file # g  BY <1>4, <2>2, <2>7
      <4> QED  BY <4>1 DEF Unsaved, RoomFile
    <3> QED  BY <1>9, <2>1, <2>3, <2>5, <2>7, <3>1
  <2> QED  BY <2>6, <2>7
<1>13. ~Busy(RoomThread)  BY <1>1 DEF Busy
<1>14. UNCHANGED <<up, file, nextRoomId, rooms, stored, diedOf>>  BY <1>1
<1> QED  BY <1>1, <1>2, <1>10, <1>12, <1>13, <1>14, BeginInv

(* Steps that leave the files and the threads alone. *)
LEMMA QuietInv ==
    ASSUME StorageInv, UNCHANGED <<file, op, texts, crashes, made, stored, spoiled, diedOf>>,
           StorageTypeOK', OpInv', RoomRemembers'
    PROVE  StorageInv'
<1>1. EmptyUnlessWhole' /\ OneAtATime' /\ DiesOnlyOfSpoiledFiles'
  BY DEF StorageInv, EmptyUnlessWhole, OneAtATime, DiesOnlyOfSpoiledFiles, Busy
<1>2. HeldIsNewest'
  <2> SUFFICES ASSUME NEW u \in Threads, op'[u].file \notin spoiled'
               PROVE  HeldOf(u)'
    BY DEF HeldIsNewest
  <2>1. HeldOf(u)  BY DEF StorageInv, HeldIsNewest
  <2> QED  BY <2>1 DEF HeldOf, NewestOf
<1>3. AllCounted'  BY DEF StorageInv, AllCounted, Counted
<1>4. HeldIsOrdered' /\ FilesAreOrdered'
  BY DEF StorageInv, HeldIsOrdered, FilesAreOrdered, InOrder
<1>5. PendingIsNew'  BY DEF StorageInv, PendingIsNew, Pending, Range
<1>6. KeptUnlessSpoiled'
  <2> SUFFICES ASSUME NEW f \in Files \ spoiled', ~Rewriting(f)'
               PROVE  /\ file'[f].state # "torn"
                      /\ NewestOf(FileCap, file'[f].messages, stored'[f])
    BY DEF KeptUnlessSpoiled, NewestOf
  <2>1. f \notin spoiled /\ file'[f] = file[f] /\ stored'[f] = stored[f]
    OBVIOUS
  <2>2. ~Rewriting(f)  BY DEF Rewriting
  <2> QED  BY <2>1, <2>2 DEF StorageInv, KeptUnlessSpoiled
<1> QED  BY <1>1, <1>2, <1>3, <1>4, <1>5, <1>6 DEF StorageInv

(* A Socket's number concerns its thread's next append only. *)
LEMMA UserInv ==
    ASSUME StorageInv, user' \in [Sockets -> Users],
           UNCHANGED <<up, file, nextRoomId, rooms, memory, op, boundVars, made,
                       stored, spoiled, diedOf>>
    PROVE  StorageInv'
<1>1. StorageTypeOK'  BY DEF StorageInv, StorageTypeOK, boundVars
<1>2. OpInv'  BY DEF StorageInv, OpInv, RoomFile
<1>3. RoomRemembers'
  BY DEF StorageInv, RoomRemembers, RoomFile, Unsaved, NewestOf
<1> QED  BY <1>1, <1>2, <1>3, QuietInv DEF boundVars

LEMMA ReconnectInv ==
    ASSUME StorageInv, NEW s \in Sockets, Reconnect(s)
    PROVE  StorageInv'
<1>1. user' \in [Sockets -> Users]
  BY DEF Reconnect, StorageInv, StorageTypeOK, Users
<1> QED  BY <1>1, UserInv DEF Reconnect

(* The process ends of a file that cannot be parsed. *)
LEMMA TornEndsInv ==
    ASSUME StorageInv, NEW f \in Files, file[f].state = "torn", ProcessEnds(f),
           UNCHANGED crashes
    PROVE  StorageInv'
<1>1. crashes' \in 0 .. MaxCrashes  BY DEF StorageInv, StorageTypeOK
<1> QED  BY <1>1, TornFiles, EndsInv

LEMMA LoginInv ==
    ASSUME StorageInv, NEW s \in Sockets, NEW u \in Accounts, Login(s, u)
    PROVE  StorageInv'
<1> DEFINE f == <<"user_", u>>
<1>1. f \in Files  BY DEF Files, Users
<1>2. CASE file[f].state = "torn"
  BY <1>1, <1>2, TornEndsInv DEF Login
<1>3. CASE file[f].state # "torn"
  <2>1. user' = [user EXCEPT ![s] = u]  BY <1>3 DEF Login
  <2>2. user' \in [Sockets -> Users]
    BY <2>1 DEF StorageInv, StorageTypeOK, Users
  <2> QED  BY <1>3, <2>2, UserInv DEF Login
<1> QED  BY <1>2, <1>3

LEMMA CreateFailsInv ==
    ASSUME StorageInv, CreateFails
    PROVE  StorageInv'
<1>1. /\ nextRoomId' = nextRoomId + 1
      /\ UNCHANGED <<up, file, user, rooms, memory, op, boundVars, made, stored,
                     spoiled, diedOf>>
  BY DEF CreateFails
<1>2. nextRoomId \in Nat \ {0} /\ rooms \subseteq RoomIds /\ RoomIds \subseteq Nat
  BY DEF StorageInv, StorageTypeOK, RoomIds
<1>3. nextRoomId' \in Nat \ {0}  BY <1>1, <1>2
<1>4. StorageTypeOK'  BY <1>1, <1>3 DEF StorageInv, StorageTypeOK, boundVars
<1>5. ASSUME NEW r \in rooms'  PROVE r < nextRoomId'
  <2>1. r \in Nat /\ r < nextRoomId  BY <1>1, <1>2 DEF StorageInv, OpInv
  <2> QED  BY <1>1, <1>2, <2>1
<1>6. OpInv'  BY <1>1, <1>5 DEF StorageInv, OpInv, RoomFile
<1>7. RoomRemembers'
  BY <1>1 DEF StorageInv, RoomRemembers, RoomFile, Unsaved, NewestOf
<1> QED  BY <1>1, <1>4, <1>6, <1>7, QuietInv DEF boundVars

(* A room begins with what its file holds. *)
LEMMA CreateRoomInv ==
    ASSUME StorageInv, CreateRoom
    PROVE  StorageInv'
<1> DEFINE r == nextRoomId
           f == RoomFile(r)
<1>1. /\ op[RoomThread].pc = "idle" /\ r <= MaxRooms
      /\ IF file[f].state = "torn"
         THEN ProcessEnds(f) /\ UNCHANGED crashes
         ELSE /\ nextRoomId' = r + 1 /\ rooms' = rooms \cup {r}
              /\ memory' = [memory EXCEPT ![r] = LoadedHistory(r)]
              /\ UNCHANGED <<up, file, user, op, boundVars, made, stored, spoiled,
                             diedOf>>
  BY DEF CreateRoom
<1>2. r \in RoomIds /\ rooms \subseteq RoomIds /\ RoomIds \subseteq Nat
  BY <1>1, StorageAssumption DEF StorageInv, StorageTypeOK, RoomIds
<1>3. f \in Files  BY <1>2, FileTypes
<1>4. CASE file[f].state = "torn"
  BY <1>1, <1>3, <1>4, TornEndsInv
<1>5. CASE file[f].state # "torn"
  <2> DEFINE ms == file[f].messages
  <2>1. /\ nextRoomId' = r + 1 /\ rooms' = rooms \cup {r}
        /\ memory' = [memory EXCEPT ![r] = LoadedHistory(r)]
        /\ UNCHANGED <<up, file, user, op, boundVars, made, stored, spoiled, diedOf>>
    BY <1>1, <1>5
  <2>2. /\ ms \in Seq(Messages) /\ stored[f] \in Seq(Messages)
        /\ Len(ms) <= FileCap /\ FileCap \in Nat /\ HistoryCap \in 0 .. FileCap
        /\ HistoryCap \in Nat
    BY <1>3, StorageAssumption DEF StorageInv, StorageTypeOK, Contents
  <2>3. /\ LoadedHistory(r) \in Seq(Messages)
        /\ Len(LoadedHistory(r)) <= HistoryCap
    <3>1. LoadedHistory(r) = Trimmed(HistoryCap, ms)  BY DEF LoadedHistory
    <3>2. /\ Trimmed(HistoryCap, ms) \in Seq(Messages)
          /\ Len(Trimmed(HistoryCap, ms)) =
                 IF Len(ms) < HistoryCap THEN Len(ms) ELSE HistoryCap
      BY <2>2, TrimmedIsNewest
    <3>3. Len(ms) \in Nat  BY <2>2
    <3> QED  BY <2>2, <3>1, <3>2, <3>3
  <2>4. /\ memory' \in [RoomIds -> Seq(Messages)]
        /\ memory'[r] = LoadedHistory(r)
        /\ \A q \in RoomIds \ {r} : memory'[q] = memory[q]
    BY <1>2, <2>1, <2>3 DEF StorageInv, StorageTypeOK
  <2>5. StorageTypeOK'
    <3>1. nextRoomId' \in Nat \ {0} /\ rooms' \subseteq RoomIds
      BY <1>2, <2>1
    <3>2. \A q \in RoomIds : Len(memory'[q]) <= HistoryCap
      BY <2>3, <2>4 DEF StorageInv, StorageTypeOK
    <3> QED  BY <2>1, <2>4, <3>1, <3>2 DEF StorageInv, StorageTypeOK, boundVars
  <2>6. OpInv'
    <3>1. \A q \in rooms' : q < nextRoomId'
      BY <1>2, <2>1 DEF StorageInv, OpInv
    <3>2. op' = op /\ up' = up /\ made' = made /\ rooms \subseteq rooms'
      BY <2>1
    <3>3. op'[RoomThread].pc \notin {"statLoad", "statOpen", "statWrite", "ai"}
      BY <1>1, <3>2
    <3>4. ASSUME NEW u \in Threads
          PROVE  IF op'[u].pc = "idle" THEN op'[u] = Idle
                 ELSE LET a == op'[u].msg.by IN
                      /\ up' /\ op'[u].file \in Files /\ op'[u].msg \in Messages
                      /\ op'[u].msg.n = made'[a]
                      /\ IF u = RoomThread
                         THEN a \in rooms' /\ op'[u].file = RoomFile(a) /\ op'[u].last
                         ELSE a \in Sockets /\ Loop[a] = u /\ op'[u].file[1] = "user_"
      BY <3>2 DEF StorageInv, OpInv
    <3> QED  BY <3>1, <3>3, <3>4 DEF OpInv, RoomFile
  <2>7. op[RoomThread].file = NoFile
    BY <1>1, FileTypes DEF StorageInv, OpInv, Idle
  <2>8. RoomRemembers'
    <3> SUFFICES ASSUME NEW q \in rooms', RoomFile(q) \notin spoiled'
                 PROVE  NewestOf(HistoryCap, memory'[q],
                                 stored'[RoomFile(q)] \o Unsaved(q)')
      BY DEF RoomRemembers, RoomFile, NewestOf
    <3> DEFINE g == RoomFile(q)
    <3>1. q \in RoomIds /\ g \notin spoiled /\ stored' = stored /\ op' = op
      BY <1>2, <2>1
    <3>2. g \in Files /\ g # NoFile  BY <3>1, FileTypes
    <3>3. stored[g] \in Seq(Messages) /\ stored[g] \o <<>> = stored[g]
      BY <3>2 DEF StorageInv, StorageTypeOK
    <3>4. Unsaved(q)' = <<>> /\ Unsaved(q) = <<>>
      BY <2>7, <3>1, <3>2 DEF Unsaved, RoomFile
    <3>5. CASE q = r
      <4>1. ~Rewriting(f)
        <5> SUFFICES ASSUME NEW u \in Threads, op[u].file = f,
                            op[u].pc \in {"createWrite", "saveWrite", "statWrite"}
                     PROVE  FALSE
          BY DEF Rewriting
        <5>1. u # RoomThread  BY <1>1
        <5>2. op[u].file[1] = "user_"  BY <5>1 DEF StorageInv, OpInv
        <5> QED  BY <5>2 DEF RoomFile
      <4>2. NewestOf(FileCap, ms, stored[f])
        BY <1>3, <3>1, <3>5, <4>1 DEF StorageInv, KeptUnlessSpoiled
      <4>3. NewestOf(HistoryCap, Trimmed(HistoryCap, ms), stored[f])
        BY <2>2, <4>2, NewestTrimmed
      <4> QED  BY <2>4, <3>1, <3>3, <3>4, <3>5, <4>3 DEF LoadedHistory
    <3>6. CASE q # r
      <4>1. q \in rooms  BY <2>1, <3>6
      <4>2. NewestOf(HistoryCap, memory[q], stored[g])
        BY <3>1, <3>3, <3>4, <4>1 DEF StorageInv, RoomRemembers
      <4> QED  BY <2>4, <3>1, <3>3, <3>4, <3>6, <4>2
    <3> QED  BY <3>5, <3>6
  <2> QED  BY <2>1, <2>5, <2>6, <2>8, QuietInv DEF boundVars
<1> QED  BY <1>4, <1>5

LEMMA RestartInv ==
    ASSUME StorageInv, Restart
    PROVE  StorageInv'
<1>1. ~up /\ up' = TRUE
      /\ UNCHANGED <<file, processVars, op, boundVars, made, stored, spoiled, diedOf>>
  BY DEF Restart
<1>2. UNCHANGED <<user, nextRoomId, rooms, memory, texts, crashes>>
  BY <1>1 DEF processVars, boundVars
<1>3. StorageTypeOK'  BY <1>1, <1>2 DEF StorageInv, StorageTypeOK
<1>4. OpInv'  BY <1>1, <1>2 DEF StorageInv, OpInv, RoomFile
<1>5. RoomRemembers'
  BY <1>1, <1>2 DEF StorageInv, RoomRemembers, RoomFile, Unsaved, NewestOf
<1> QED  BY <1>1, <1>2, <1>3, <1>4, <1>5, QuietInv

LEMMA CrashInv ==
    ASSUME StorageInv, Crash
    PROVE  StorageInv'
<1>1. crashes' \in 0 .. MaxCrashes
  BY StorageAssumption DEF Crash, StorageInv, StorageTypeOK
<1> QED  BY <1>1, EndsInv DEF Crash

LEMMA AppendMessageInv ==
    ASSUME StorageInv, NEW t \in Threads, AppendMessage(t)
    PROVE  StorageInv'
<1>1. CASE FileExists(t)  BY <1>1, FileExistsInv
<1>2. CASE CreateOpen(t) \/ SaveOpen(t) \/ StatOpen(t)  BY <1>2, OpenInv
<1>3. CASE CreateWrite(t)  BY <1>3, CreateWriteInv
<1>4. CASE LoadHistory(t) \/ StatLoad(t)
  <2>1. op[t].file \in Files
    BY <1>4, BusyFacts DEF LoadHistory, StatLoad, Busy
  <2>2. CASE file[op[t].file].state = "torn"
    BY <1>4, <2>1, <2>2, TornEndsInv DEF LoadHistory, StatLoad
  <2>3. CASE file[op[t].file].state # "torn"
    BY <1>4, <2>3, LoadInv
  <2> QED  BY <2>2, <2>3
<1>5. CASE SaveWrite(t)  BY <1>5, SaveWriteInv
<1>6. CASE SaveThrows(t)
  <2>1. op[t].file \in Files /\ Rewriting(op[t].file)
    BY <1>6, BusyFacts DEF SaveThrows, Busy, Rewriting
  <2>2. crashes' \in 0 .. MaxCrashes
    BY <1>6 DEF SaveThrows, StorageInv, StorageTypeOK
  <2> QED  BY <1>6, <2>1, <2>2, EndsInv DEF SaveThrows
<1>7. CASE StatWrite(t)  BY <1>7, StatWriteInv
<1> QED  BY <1>1, <1>2, <1>3, <1>4, <1>5, <1>6, <1>7 DEF AppendMessage

LEMMA InitInv == Init => StorageInv
<1> SUFFICES ASSUME Init  PROVE StorageInv
  OBVIOUS
<1>1. /\ \A f \in Files : /\ file[f] = Absent /\ file[f].messages = <<>>
                          /\ file[f].state = "absent" /\ stored[f] = <<>>
      /\ \A t \in Threads : /\ op[t] = Idle /\ op[t].pc = "idle" /\ op[t].held = <<>>
                            /\ ~Busy(t) /\ ~Pending(t)
      /\ rooms = {} /\ diedOf = NoFile
  BY DEF Init, Absent, Idle, Busy, Pending
<1>2. /\ 0 \in 0 .. MaxTexts /\ 0 \in 0 .. MaxCrashes /\ FileCap \in Nat
      /\ HistoryCap \in Nat
  BY StorageAssumption
<1>3. StorageTypeOK
  <2>1. file \in [Files -> Contents] /\ op \in [Threads -> Ops]
    BY IdleType DEF Init, Absent, Contents
  <2>2. user \in [Sockets -> Users] /\ up \in BOOLEAN /\ nextRoomId \in Nat \ {0}
        /\ rooms \subseteq RoomIds /\ memory \in [RoomIds -> Seq(Messages)]
    BY DEF Init, Users
  <2>3. made \in [Authors -> Nat] /\ stored \in [Files -> Seq(Messages)]
        /\ spoiled \subseteq Files /\ diedOf \in Files \cup {NoFile}
        /\ texts \in 0 .. MaxTexts /\ crashes \in 0 .. MaxCrashes
    BY <1>2 DEF Init
  <2>4. /\ \A f \in Files : Len(file[f].messages) <= FileCap
        /\ \A r \in RoomIds : Len(memory[r]) <= HistoryCap
        /\ \A t \in Threads : Len(op[t].held) <= FileCap
    BY <1>1, <1>2 DEF Init
  <2> QED  BY <2>1, <2>2, <2>3, <2>4 DEF StorageTypeOK
<1>4. OpInv  BY <1>1, FileTypes DEF OpInv
<1>5. EmptyUnlessWhole /\ OneAtATime /\ HeldIsNewest
  BY <1>1 DEF EmptyUnlessWhole, OneAtATime, HeldIsNewest, HeldOf
<1>6. InOrder(<<>>) /\ Counted(<<>>)  BY DEF InOrder, Counted
<1>7. AllCounted /\ HeldIsOrdered /\ PendingIsNew /\ FilesAreOrdered
  BY <1>1, <1>6 DEF AllCounted, HeldIsOrdered, PendingIsNew, FilesAreOrdered
<1>8. KeptUnlessSpoiled
  <2>1. NewestOf(FileCap, <<>>, <<>>)
    <3>1. Len(<<>>) = 0  OBVIOUS
    <3>2. Len(<<>>) = IF Len(<<>>) < FileCap THEN Len(<<>>) ELSE FileCap
      BY <1>2, <3>1
    <3>3. 1 .. Len(<<>>) = {}  BY <3>1
    <3> QED  BY <3>2, <3>3 DEF NewestOf
  <2> QED  BY <1>1, <2>1 DEF KeptUnlessSpoiled
<1>9. DiesOnlyOfSpoiledFiles /\ RoomRemembers
  BY <1>1 DEF DiesOnlyOfSpoiledFiles, RoomRemembers
<1> QED  BY <1>3, <1>4, <1>5, <1>7, <1>8, <1>9 DEF StorageInv

LEMMA NextInv == StorageInv /\ [Next]_vars => StorageInv'
<1> SUFFICES ASSUME StorageInv, [Next]_vars  PROVE StorageInv'
  OBVIOUS
<1>1. CASE \E s \in Sockets : Reconnect(s)  BY <1>1, ReconnectInv
<1>2. CASE \E s \in Sockets : \E u \in Accounts : Login(s, u)  BY <1>2, LoginInv
<1>3. CASE \E s \in Sockets : \E cut \in BOOLEAN : ReadChat(s, cut)
  BY <1>3, ReadChatInv
<1>4. CASE CreateFails  BY <1>4, CreateFailsInv
<1>5. CASE CreateRoom  BY <1>5, CreateRoomInv
<1>6. CASE \E r \in RoomIds, cut \in BOOLEAN : AddHistory(r, cut)
  BY <1>6, AddHistoryInv
<1>7. CASE \E t \in Threads : AppendMessage(t)  BY <1>7, AppendMessageInv
<1>8. CASE \E t \in Threads : AiAnswers(t)  BY <1>8, AiAnswersInv
<1>9. CASE Crash  BY <1>9, CrashInv
<1>10. CASE Restart  BY <1>10, RestartInv
<1>11. CASE UNCHANGED vars
  <2>1. UNCHANGED <<up, file, nextRoomId, rooms, memory, op, boundVars, made,
                    stored, spoiled, diedOf>>
    BY <1>11 DEF vars, processVars
  <2>2. user' \in [Sockets -> Users]
    BY <1>11 DEF vars, processVars, StorageInv, StorageTypeOK
  <2> QED  BY <2>1, <2>2, UserInv
<1> QED
  BY <1>1, <1>2, <1>3, <1>4, <1>5, <1>6, <1>7, <1>8, <1>9, <1>10, <1>11 DEF Next

-----------------------------------------------------------------------------
(* The invariant that carries all of what follows: what each thread has in  *)
(* hand is what its file will be (appendMessage, addHistory).               *)
THEOREM StorageInvariantHolds == Spec => []StorageInv
BY InitInv, NextInv, PTL DEF Spec

(* The variables keep their types, and no history is longer than its limit. *)
THEOREM StorageTypeCorrect == Spec => []StorageTypeOK
<1>1. StorageInv => StorageTypeOK  BY DEF StorageInv
<1> QED  BY <1>1, StorageInvariantHolds, PTL

(* Whatever the limit of 500 is, and however many threads, users and rooms  *)
(* there are: a file used by one thread at a time holds the newest of all   *)
(* messages appendMessage has stored in it.                                 *)
THEOREM HistoryIsKept == Spec => []KeptUnlessSpoiled
<1>1. StorageInv => KeptUnlessSpoiled  BY DEF StorageInv
<1> QED  BY <1>1, StorageInvariantHolds, PTL

(* loadHistory's parser and dump never end the server because of a file     *)
(* that was used by one thread at a time and was whole when the process     *)
(* before ended.                                                            *)
THEOREM OnlySpoiledFilesKill == Spec => []DiesOnlyOfSpoiledFiles
<1>1. StorageInv => DiesOnlyOfSpoiledFiles  BY DEF StorageInv
<1> QED  BY <1>1, StorageInvariantHolds, PTL

(* However threads overwrite each other's files, a file keeps the messages  *)
(* of an author in the order they were made, each at most once.             *)
THEOREM FilesStayOrdered == Spec => []FilesAreOrdered
<1>1. StorageInv => FilesAreOrdered  BY DEF StorageInv
<1> QED  BY <1>1, StorageInvariantHolds, PTL

(* A Room's m_chatHistory is the newest of all that was said under its      *)
(* number, in this life of the server and in those before.                  *)
THEOREM RoomsRemember == Spec => []RoomRemembers
<1>1. StorageInv => RoomRemembers  BY DEF StorageInv
<1> QED  BY <1>1, StorageInvariantHolds, PTL
=============================================================================
