---------------------------- MODULE FrameProofs ----------------------------
(***************************************************************************)
(* Proofs about Frames for every size of header, buffer, block and         *)
(* message: messages are handled as they were sent, and a buffer with      *)
(* enough room never refuses a block.                                      *)
(***************************************************************************)
EXTENDS Frames, BufferProofs

-----------------------------------------------------------------------------
(* Frames and the messages in them.                                        *)

(* A message is a string of bytes. *)
LEMMA MessageType ==
  ASSUME NEW type \in Bytes, NEW text \in Seq(Bytes)
  PROVE  Message(type, text) \in Seq(Bytes)
<1>1. <<>> \in Seq(Bytes) /\ <<type>> \in Seq(Bytes)
  OBVIOUS
<1>2. ASSUME NEW b \in Seq(Bytes), NEW d \in Seq(Bytes)
      PROVE  Written(b, d) \in Seq(Bytes)
  BY DEF Written
<1> QED BY <1>1, <1>2 DEF Message

(* What a frame is made of. *)
FrameParts(body) ==
    /\ FrameOf(body) \in Seq(Bytes)
    /\ Len(FrameOf(body)) = HeaderLen + GetLength(body)
    /\ FrameOf(body)[1] = Magic
    /\ FrameOf(body)[HeaderLen] = GetLength(body)
    /\ SubSeq(FrameOf(body), HeaderLen + 1, Len(FrameOf(body))) = Padded(body)

(* A frame that fits is made of bytes, and says how long it is. *)
LEMMA FrameFacts ==
  ASSUME NEW body \in Seq(Bytes), FrameFits(body)
  PROVE  FrameParts(body)
<1> DEFINE h == Header(GetLength(body))
           f == FrameOf(body)
<1>1. HeaderLen \in Nat /\ HeaderLen >= 2 /\ 0 .. MaxSend \subseteq Bytes /\ Magic \in Bytes
  BY FrameAssumption
<1>0. Bytes \subseteq Nat /\ MaxSend \in Nat /\ GetLength(body) \in Nat
  BY <1>1, FrameAssumption DEF GetLength
<1>2. h \in [1 .. HeaderLen -> Nat] /\ Len(h) = HeaderLen
  BY <1>0, <1>1 DEF Header
<1>3. Zeros \in [1 .. HeaderLen -> Bytes] /\ Len(Zeros) = HeaderLen /\ Zeros \in Seq(Bytes)
  <2>1. 0 \in Bytes
    BY <1>0, <1>1
  <2>2. Zeros \in [1 .. HeaderLen -> Bytes]
    BY <2>1 DEF Zeros
  <2> QED BY <1>1, <2>2
<1>4. h \in Seq(Nat) /\ body \in Seq(Nat) /\ Zeros \in Seq(Nat)
  <2>1. h \in Seq(Nat)
    BY <1>1, <1>2
  <2>2. body \in [1 .. Len(body) -> Nat] /\ Zeros \in [1 .. HeaderLen -> Nat]
    <3>1. body \in [1 .. Len(body) -> Bytes]
      OBVIOUS
    <3> QED BY <1>0, <1>3, <3>1
  <2>3. Len(body) \in Nat
    OBVIOUS
  <2>4. body \in Seq(Nat)
    BY ONLY <2>2, <2>3
  <2>5. Zeros \in Seq(Nat)
    BY <2>2, <1>1
  <2> QED BY <2>1, <2>4, <2>5
<1>5. Len(f) = HeaderLen + GetLength(body)
  <2> HIDE DEF h
  <2>1. Len(h \o (body \o Zeros)) = Len(h) + Len(body) + Len(Zeros)
    BY <1>4
  <2>2. f = h \o (body \o Zeros)
    BY DEF FrameOf, Padded, h
  <2>3. Len(h) = HeaderLen /\ Len(Zeros) = HeaderLen /\ Len(body) \in Nat
    BY <1>2, <1>3
  <2> HIDE DEF f
  <2> QED BY <2>1, <2>2, <2>3, <1>1 DEF GetLength
<1>6. GetLength(body) \in 0 .. MaxSend
  BY <1>0, <1>1, <1>5, FrameAssumption DEF FrameFits, GetLength
<1>7. h \in Seq(Bytes)
  <2>1. GetLength(body) \in Bytes /\ 0 \in Bytes
    BY <1>0, <1>1, <1>6
  <2>2. h \in [1 .. HeaderLen -> Bytes]
    BY <2>1, <1>1 DEF Header
  <2> QED BY <2>2, <1>1
<1>11. Padded(body) \in Seq(Bytes) /\ Len(Padded(body)) = GetLength(body)
  BY <1>1, <1>3 DEF Padded, GetLength
<1>8. f \in Seq(Bytes)
  BY <1>11, <1>7 DEF FrameOf
<1>9. f[1] = Magic /\ f[HeaderLen] = GetLength(body)
  <2>1. h[1] = Magic /\ h[HeaderLen] = GetLength(body)
    BY <1>1 DEF Header
  <2> QED BY <2>1, <1>1, <1>2, <1>7, <1>11 DEF FrameOf
<1>10. SubSeq(f, HeaderLen + 1, Len(f)) = Padded(body)
  <2>1. f = h \o Padded(body)
    BY DEF FrameOf
  <2> HIDE DEF h, f
  <2> QED BY <1>1, <1>2, <1>7, <1>11, <2>1, <1>5
<1> QED BY <1>5, <1>8, <1>9, <1>10 DEF FrameParts

-----------------------------------------------------------------------------
(* What the invariant says of the buffer, and of the next message in it.   *)

(* Types of the counters. *)
LEMMA BufferPart ==
  ASSUME FrameInv
  PROVE  /\ BufferInv /\ ContentFacts /\ RoomFacts
         /\ GetSize \in Nat /\ Room \in Nat
         /\ Cap \in Nat /\ MaxBlock \in Nat
<1>1. BufferInv
  BY DEF FrameInv, FrameTypeOK, BufferInv
<1>2. ContentFacts /\ RoomFacts
  BY <1>1, ContentOfRegions, RoomOfRegions
<1>3. GetSize \in Nat /\ Cap \in Nat /\ MaxBlock \in Nat
  BY <1>1, BufferAssumption DEF BufferInv, BufferTypeOK, GetSize
<1> QED BY <1>1, <1>2, <1>3 DEF RoomFacts

(* The next message begins somewhere in log, or at its end. *)
LEMMA FromType ==
  ASSUME FrameInv
  PROVE  From \in Nat
<1>1. sent \in Seq(SentMessages) /\ Len(log) \in Nat /\ Len(handled) \in Nat
  BY DEF FrameInv, FrameTypeOK
<1>2. ASSUME NEW i \in 1 .. Len(sent) PROVE sent[i].at \in Nat
  <2>1. sent[i] \in SentMessages
    BY <1>1
  <2> QED BY <2>1 DEF SentMessages
<1> QED BY <1>1, <1>2 DEF From, At, Awaited

(* The bytes at the front are the first of Content. *)
LEMMA FrontBytes ==
  ASSUME FrameInv, NEW n \in 0 .. GetSize
  PROVE  /\ Taken(n) \in Seq(Bytes)
         /\ Len(Taken(n)) = n
         /\ \A i \in 1 .. n : Taken(n)[i] = Content[i]
<1>1. BufferInv /\ Content \in Seq(Bytes) /\ Len(Content) = GetSize /\ n \in Nat
  BY BufferPart DEF ContentFacts
<1>2. Taken(n) = SubSeq(Content, 1, n)
  BY <1>1, TakenIsPrefix, BufferPart DEF Queue!Prefix, Queue!Least
<1> QED BY <1>1, <1>2, BufferPart

(* Undisturbed, a header in the buffer is that of the next message.        *)
LEMMA FrontFrame ==
  ASSUME FrameInv, ~cut, ~refused, GetSize >= HeaderLen
  PROVE  LET body == sent[Awaited].body IN
         /\ Awaited \in 1 .. Len(sent)
         /\ FrontHeader[1] = Magic
         /\ TotalLen = Len(FrameOf(body))
         /\ TotalLen \in HeaderLen .. MaxSend - 1
         /\ From + TotalLen = At(Awaited + 1)
         /\ GetSize >= TotalLen =>
               SubSeq(Taken(TotalLen), HeaderLen + 1, TotalLen) = Padded(body)
<1> DEFINE k    == Awaited
           body == sent[k].body
           f    == FrameOf(body)
<1>1. /\ HeaderLen \in Nat /\ HeaderLen >= 2 /\ MaxSend \in Nat
      /\ GetSize \in Nat /\ Len(stream) \in Nat /\ Len(log) \in Nat
      /\ Len(sent) \in Nat /\ Len(handled) \in Nat
  BY BufferPart, FrameAssumption DEF FrameInv, FrameTypeOK
<1>2. Following /\ Len(handled) <= Len(sent) /\ LogIsFrames
  BY DEF FrameInv, FramesAsSent
<1>3. k \in 1 .. Len(sent)
  <2>1. CASE k > Len(sent)
    <3>1. From = Len(log)
      BY <2>1, <1>1 DEF From, At, Awaited
    <3> QED BY <3>1, <1>1, <1>2 DEF Following
  <2> QED BY <2>1, <1>1, <1>2 DEF Awaited
<1>4. FrameStands(k) /\ body \in Seq(Bytes)
  <2>1. sent \in Seq(SentMessages)
    BY DEF FrameInv, FrameTypeOK
  <2>2. sent[k] \in SentMessages
    BY <2>1, <1>3
  <2> QED BY <2>2, <1>2, <1>3 DEF LogIsFrames, SentMessages, Strings
<1>5. /\ FrameParts(body) /\ Len(f) < MaxSend
      /\ From + Len(f) = At(k + 1)
      /\ \A j \in 1 .. Len(f) : log[From + j] = f[j]
  BY <1>4, FrameFacts DEF FrameStands, FrameFits, From
<1>6. Len(f) \in Nat /\ Len(f) >= HeaderLen /\ f \in Seq(Bytes)
  BY <1>1, <1>4, <1>5 DEF FrameParts, GetLength
<1>7. ASSUME NEW n \in 0 .. GetSize, n <= Len(f)
      PROVE  /\ Taken(n) \in Seq(Bytes) /\ Len(Taken(n)) = n
             /\ \A i \in 1 .. n : Taken(n)[i] = f[i]
  <2>1. /\ Taken(n) \in Seq(Bytes) /\ Len(Taken(n)) = n
        /\ \A i \in 1 .. n : Taken(n)[i] = Content[i]
    BY FrontBytes
  <2>2. \A i \in 1 .. n : Content[i] = log[From + i] /\ log[From + i] = f[i]
    BY <1>1, <1>2, <1>5, <1>6, <1>7 DEF Following
  <2> QED BY <2>1, <2>2
<1>8. FrontHeader[1] = Magic /\ FrontHeader[HeaderLen] = GetLength(body)
  <2>1. HeaderLen \in 0 .. GetSize /\ HeaderLen <= Len(f)
    BY <1>1, <1>6
  <2>2. Taken(HeaderLen)[1] = f[1] /\ Taken(HeaderLen)[HeaderLen] = f[HeaderLen]
    BY <2>1, <1>1, <1>7
  <2> QED BY <2>2, <1>5 DEF FrontHeader, FrameParts
<1>9. TotalLen = Len(f)
  BY <1>5, <1>8 DEF TotalLen, FrameParts
<1>10. ASSUME GetSize >= TotalLen
       PROVE  SubSeq(Taken(TotalLen), HeaderLen + 1, TotalLen) = Padded(body)
  <2>1. TotalLen \in 0 .. GetSize
    BY <1>1, <1>6, <1>9, <1>10
  <2>2. /\ Taken(TotalLen) \in Seq(Bytes) /\ Len(Taken(TotalLen)) = Len(f)
        /\ \A i \in 1 .. Len(f) : Taken(TotalLen)[i] = f[i]
    BY <2>1, <1>6, <1>7, <1>9
  <2>3. Taken(TotalLen) = f
    BY <2>2, <1>6, SameSequence
  <2> QED BY <2>3, <1>5, <1>9 DEF FrameParts
<1> QED BY <1>1, <1>3, <1>5, <1>6, <1>8, <1>9, <1>10

-----------------------------------------------------------------------------
(* Each step keeps the invariant.                                          *)

(* Steps that leave the regions alone leave Content and B alone. *)
LEMMA SameBuffer ==
  ASSUME FrameInv, UNCHANGED <<mem, regions>>, reply' \in Replies
  PROVE  /\ BufferInv' /\ Content' = Content /\ GetSize' = GetSize
         /\ OpenedInTime'
<1>1. BufferInv' /\ Content' = Content
  BY BufferPart, NothingMoves
<1>2. aPtr' = aPtr /\ aSize' = aSize /\ bPtr' = bPtr /\ bSize' = bSize
  BY DEF regions
<1> QED BY <1>1, <1>2 DEF FrameInv, OpenedInTime, GetSize

(* Send: log grows by a frame, and so does the stream if the kernel took it. *)
LEMMA SendStep ==
  ASSUME FrameInv, NEW type \in Bytes, NEW text \in Seq(Bytes), Send(type, text)
  PROVE  FrameInv'
<1> DEFINE body == Message(type, text)
           f    == FrameOf(body)
<1>0. PICK n \in Nat, l \in Nat : n = Len(sent) /\ l = Len(log)
  BY DEF FrameInv, FrameTypeOK
<1>1. body \in Seq(Bytes) /\ FrameFits(body) /\ FrameParts(body)
  BY MessageType, FrameFacts DEF Send
<1>2. /\ f \in Seq(Bytes) /\ Len(f) \in Nat
      /\ n = Len(sent) /\ l = Len(log) /\ log \in Seq(Bytes) /\ stream \in Seq(Bytes)
      /\ sent \in Seq(SentMessages)
  BY <1>0, <1>1 DEF FrameParts, FrameInv, FrameTypeOK
<1> HIDE DEF body, f
<1>3. /\ sent' = Append(sent, [at |-> l, body |-> body]) /\ log' = log \o f
      /\ UNCHANGED <<pc, deleted, readMsgCount, handled, refused, reply, mem, regions>>
  BY <1>0 DEF Send, body, f, bufferVars, sessionVars
<1>4. PICK k \in 0 .. Len(f) : /\ stream' = stream \o SubSeq(f, 1, k)
                              /\ cut' = (cut \/ k < Len(f))
  BY DEF Send, body, f
<1>5. BufferInv' /\ Content' = Content /\ GetSize' = GetSize /\ OpenedInTime'
  <2>1. reply' \in Replies
    BY <1>3 DEF FrameInv, FrameTypeOK, BufferTypeOK
  <2> QED BY <1>3, <2>1, SameBuffer
<1>6. FrameTypeOK'
  <2>1. log' \in Seq(Bytes) /\ stream' \in Seq(Bytes)
    BY <1>2, <1>3, <1>4
  <2>2. sent' \in Seq(SentMessages)
    <3>1. [at |-> l, body |-> body] \in SentMessages
      BY <1>1, <1>2 DEF SentMessages, Strings
    <3> QED BY <3>1, <1>2, <1>3
  <2>3. cut' \in BOOLEAN
    BY <1>4, <1>2 DEF FrameInv, FrameTypeOK
  <2> QED BY <2>1, <2>2, <2>3, <1>3, <1>5 DEF FrameInv, FrameTypeOK, BufferInv
<1>7. /\ Len(sent') = n + 1 /\ Len(log') = l + Len(f)
      /\ \A i \in 1 .. n : sent'[i] = sent[i]
      /\ sent'[n + 1].at = l /\ sent'[n + 1].body = body
      /\ \A i \in 1 .. l : log'[i] = log[i]
      /\ \A i \in 1 .. Len(f) : log'[l + i] = f[i]
  <2>1. /\ Len(sent') = n + 1
        /\ \A i \in 1 .. n : sent'[i] = sent[i]
        /\ sent'[n + 1] = [at |-> l, body |-> body]
    BY <1>2, <1>3
  <2>2. /\ Len(log') = l + Len(f)
        /\ \A i \in 1 .. l : log'[i] = log[i]
        /\ \A i \in 1 .. Len(f) : log'[l + i] = f[i]
    BY <1>2, <1>3
  <2> QED BY <2>1, <2>2
<1>8. ASSUME NEW i \in 1 .. n + 1 PROVE At(i)' = At(i)
  <2>1. CASE i <= n
    BY <2>1, <1>2, <1>7 DEF At
  <2>2. CASE i = n + 1
    <3>1. sent'[i].at = l
      BY <2>2, <1>7
    <3> QED BY <3>1, <2>2, <1>2, <1>7 DEF At
  <2> QED BY <2>1, <2>2, <1>2
<1>14. \A i \in 1 .. n + 1 : At(i) \in Nat
  <2>1. ASSUME NEW i \in 1 .. n PROVE sent[i].at \in Nat
    <3>1. sent[i] \in SentMessages
      BY <1>2
    <3> QED BY <3>1 DEF SentMessages
  <2> QED BY <2>1, <1>2 DEF At
<1>9. At(n + 1 + 1)' = l + Len(f) /\ At(n + 1) = l
  BY <1>2, <1>7 DEF At
<1>10. LogIsFrames'
  <2>1. At(1)' = 0
    BY <1>2, <1>8 DEF FrameInv, LogIsFrames
  <2>2. ASSUME NEW i \in 1 .. n PROVE FrameStands(i)'
    <3> DEFINE g == FrameOf(sent[i].body)
    <3>0. sent[i] \in SentMessages
      BY <1>2
    <3>1. FrameStands(i) /\ sent[i].body \in Seq(Bytes) /\ sent[i].at \in Nat
      BY <3>0, <1>2 DEF FrameInv, LogIsFrames, SentMessages, Strings
    <3>2. Len(g) \in Nat
      BY <3>1, FrameFacts DEF FrameStands, FrameParts
    <3>3. At(i)' = At(i) /\ At(i + 1)' = At(i + 1) /\ sent'[i] = sent[i] /\ At(i) \in Nat
      BY <1>2, <1>7, <1>8, <3>1 DEF At
    <3>6. At(i) + Len(g) <= l
      BY <3>1, <1>2 DEF FrameStands
    <3>4. ASSUME NEW j \in 1 .. Len(g) PROVE log'[At(i) + j] = log[At(i) + j]
      <4>1. At(i) + j \in 1 .. l
        BY <3>2, <3>3, <3>6
      <4> QED BY <4>1, <1>7
    <3>5. At(i + 1)' <= Len(log')
      BY <3>1, <3>3, <1>2, <1>7, <3>2 DEF FrameStands
    <3> QED BY <3>1, <3>3, <3>4, <3>5 DEF FrameStands
  <2>3. FrameStands(n + 1)'
    <3>1. sent'[n + 1].body = body /\ At(n + 1)' = l /\ At(n + 1 + 1)' = l + Len(f)
      BY <1>2, <1>7, <1>8, <1>9
    <3>2. l + Len(f) <= Len(log')
      BY <1>2, <1>7
    <3> QED BY <3>1, <3>2, <1>1, <1>7 DEF FrameStands, f
  <2>4. \A i \in 1 .. n + 1 : i \in 1 .. n \/ i = n + 1
    BY <1>2
  <2> QED BY <2>1, <2>2, <2>3, <2>4, <1>7 DEF LogIsFrames
<1>11. ASSUME ~cut', ~refused'
       PROVE  (FramesAsSent /\ Following /\ LessThanAFrame)'
  <2>1. ~cut /\ ~refused /\ k = Len(f)
    <3>1. ~(cut \/ k < Len(f)) /\ ~refused
      BY <1>3, <1>4, <1>11, Zenon
    <3> QED BY <3>1, <1>2
  <2>2. FramesAsSent /\ Following /\ LessThanAFrame /\ Len(handled) \in Nat
        /\ Len(handled) <= n
    BY <2>1, <1>2, <1>3 DEF FrameInv, FramesAsSent, FrameTypeOK
  <2>3. FramesAsSent'
    BY <2>1, <2>2, <1>2, <1>3, <1>7 DEF FramesAsSent
  <2>4. Awaited' = Awaited /\ Awaited \in 1 .. n + 1
    <3>1. handled' = handled
      BY <1>3
    <3> QED BY <2>2, <3>1 DEF Awaited
  <2>5. From' = From
    BY <2>4, <1>8 DEF From
  <2>6. /\ Len(stream') = Len(stream) + Len(f)
        /\ \A i \in 1 .. Len(stream) : stream'[i] = stream[i]
        /\ \A i \in 1 .. Len(f) : stream'[Len(stream) + i] = f[i]
    <3>1. SubSeq(f, 1, k) = f
      BY <2>1, <1>2
    <3>2. stream' = stream \o f
      BY <3>1, <2>1, <1>4
    <3>3. stream \in Seq(Bytes) /\ f \in Seq(Bytes)
      BY <1>2
    <3> QED BY <3>2, <3>3
  <2>7. Following'
    <3>1. GetSize \in Nat /\ Len(stream) \in Nat /\ From + GetSize + Len(stream) = l /\ From \in Nat
      BY <2>2, <2>4, <1>2, <1>14, BufferPart DEF Following, From
    <3>5. Len(stream') = Len(stream) + Len(f) /\ Len(log') = l + Len(f) /\ Len(f) \in Nat
      BY <2>6, <1>7, <1>2
    <3>2. From + GetSize + Len(stream') = Len(log')
      BY <3>1, <3>5
    <3>3. ASSUME NEW i \in 1 .. GetSize PROVE Content[i] = log'[From + i]
      <4>1. From + i \in 1 .. l
        BY <3>1
      <4> QED BY <4>1, <2>2, <1>7 DEF Following
    <3>4. ASSUME NEW i \in 1 .. Len(stream')
          PROVE  stream'[i] = log'[From + GetSize + i]
      <4>1. CASE i <= Len(stream)
        <5>1. i \in 1 .. Len(stream) /\ From + GetSize + i \in 1 .. l
          BY <4>1, <3>1, <3>5
        <5> QED BY <5>1, <2>2, <2>6, <1>7 DEF Following
      <4>2. CASE i > Len(stream)
        <5>1. PICK j \in 1 .. Len(f) : i = Len(stream) + j
          <6>1. i - Len(stream) \in 1 .. Len(f) /\ i = Len(stream) + (i - Len(stream))
            BY <4>2, <3>1, <3>5
          <6> QED BY <6>1
        <5>2. stream'[i] = f[j] /\ log'[l + j] = f[j]
          BY <5>1, <2>6, <1>7
        <5>3. From + GetSize + i = l + j
          BY <5>1, <3>1
        <5> QED BY <5>2, <5>3
      <4> QED BY <4>1, <4>2, <3>1
    <3> QED BY <3>2, <3>3, <3>4, <2>5, <1>5 DEF Following
  <2>8. LessThanAFrame'
    BY <2>2, <1>3, <1>5 DEF LessThanAFrame
  <2> QED BY <2>3, <2>7, <2>8
<1>12. NothingRefused'
  BY <1>3, <1>4 DEF FrameInv, NothingRefused, EnoughRoom
<1>13. FramesAsSent'
  BY <1>11 DEF FramesAsSent
<1> QED BY <1>5, <1>6, <1>10, <1>11, <1>12, <1>13 DEF FrameInv, BufferInv

(* Steps that move nothing keep all that is said of log, handled and stream. *)
LEMMA SameLog ==
  ASSUME FrameInv, UNCHANGED <<log, sent>>
  PROVE  LogIsFrames'
<1>1. LogIsFrames
  BY DEF FrameInv
<1>2. ASSUME NEW i PROVE At(i)' = At(i)
  BY DEF At
<1>3. ASSUME NEW i \in 1 .. Len(sent) PROVE FrameStands(i)'
  <2>1. At(i)' = At(i) /\ At(i + 1)' = At(i + 1)
    BY <1>2
  <2> QED BY <1>1, <2>1 DEF LogIsFrames, FrameStands
<1>4. At(1)' = 0
  BY <1>1, <1>2 DEF LogIsFrames
<1> QED BY <1>3, <1>4 DEF LogIsFrames

(* A step that changes neither the bytes nor the messages. *)
LEMMA QuietStep ==
  ASSUME FrameInv, UNCHANGED <<mem, regions>>, reply' \in Replies,
         UNCHANGED <<stream, clientVars, handled, refused, readMsgCount>>,
         pc' \in {"recv", "frames"}, deleted' \in BOOLEAN,
         ~cut /\ ~refused => deleted' = deleted /\ LessThanAFrame'
  PROVE  FrameInv'
<1>1. BufferInv' /\ Content' = Content /\ GetSize' = GetSize /\ OpenedInTime'
  BY SameBuffer
<1>2. /\ stream' = stream /\ log' = log /\ sent' = sent /\ cut' = cut
      /\ handled' = handled /\ refused' = refused /\ readMsgCount' = readMsgCount
  BY DEF clientVars
<1>3. LogIsFrames'
  BY <1>2, SameLog
<1>4. FrameTypeOK'
  BY <1>1, <1>2 DEF FrameInv, FrameTypeOK, BufferInv
<1>5. NothingRefused'
  BY <1>2 DEF FrameInv, NothingRefused, EnoughRoom
<1>6. FramesAsSent'
  BY <1>2 DEF FrameInv, FramesAsSent
<1>7. ~cut' /\ ~refused' => Following'
  <2>1. From' = From
    BY <1>2 DEF From, At, Awaited
  <2> QED BY <2>1, <1>1, <1>2 DEF FrameInv, Following
<1> QED BY <1>1, <1>2, <1>3, <1>4, <1>5, <1>6, <1>7 DEF FrameInv, BufferInv

(* OnRead's ways back to recv. *)
LEMMA BackToRecvStep ==
  ASSUME FrameInv, NextFrame, NoHeaderYet \/ NoFrameYet \/ WrongMagic
  PROVE  FrameInv'
<1>0. /\ UNCHANGED <<stream, clientVars, refused>> /\ pc' = "recv"
      /\ UNCHANGED <<readMsgCount, handled>> /\ deleted \in BOOLEAN
      /\ HeaderLen \in Nat /\ MaxSend \in Nat /\ 2 * HeaderLen < MaxSend /\ GetSize \in Nat
  BY FrameAssumption, BufferPart
     DEF NextFrame, NoHeaderYet, NoFrameYet, WrongMagic, sessionVars, FrameInv, FrameTypeOK
<1>1. UNCHANGED <<mem, regions>> /\ reply' \in Replies
  <2>1. Done(Taken(HeaderLen)) \in Replies /\ reply \in Replies
    BY <1>0, TakenReply, BufferPart DEF FrameInv, FrameTypeOK, BufferTypeOK
  <2> QED BY <2>1 DEF NoHeaderYet, NoFrameYet, WrongMagic, Peek, bufferVars
<1>2. GetSize' = GetSize
  BY <1>1, SameBuffer
<1>3. ASSUME ~cut, ~refused
      PROVE  deleted' = deleted /\ LessThanAFrame'
  <2>1. CASE NoHeaderYet
    BY <2>1, <1>0, <1>2 DEF NoHeaderYet, LessThanAFrame, sessionVars
  <2>2. CASE GetSize >= HeaderLen
    <3>1. FrontHeader[1] = Magic /\ TotalLen \in HeaderLen .. MaxSend - 1
      BY <1>3, <2>2, FrontFrame
    <3>2. NoFrameYet
      BY <3>1, <2>2, <1>0 DEF NoHeaderYet, WrongMagic
    <3> QED BY <3>1, <3>2, <1>0, <1>2 DEF NoFrameYet, LessThanAFrame, sessionVars
  <2> QED BY <2>1, <2>2 DEF NoFrameYet, WrongMagic
<1>4. deleted' \in BOOLEAN
  BY <1>0 DEF NoHeaderYet, NoFrameYet, WrongMagic, sessionVars
<1> QED BY <1>0, <1>1, <1>3, <1>4, QuietStep

-----------------------------------------------------------------------------
(* Receiving: the buffer has room for the block, and keeps its shape.      *)

(* With less than a frame in it, the buffer has room for a block: B, if it  *)
(* is open, was opened with more than half of the free memory before A.     *)
LEMMA RoomForABlock ==
  ASSUME FrameInv, EnoughRoom, GetSize + 1 < MaxSend
  PROVE  MaxBlock <= Room
BY BufferAssumption, FrameAssumption
   DEF FrameInv, FrameTypeOK, BufferTypeOK, RegionsApart, OpenedInTime, EnoughRoom,
       GetSize, Room, RegionB, AFreeSpace, SpaceBeforeA, BFreeSpace, Null

(* A Write opens B only where it has more room than A. *)
LEMMA WriteOpensInTime ==
  ASSUME FrameInv, NEW d \in Blocks, Write(d)
  PROVE  OpenedInTime'
<1>1. /\ aPtr \in Nat /\ aSize \in Nat /\ Cap \in Nat /\ OpenedInTime
  BY BufferAssumption DEF FrameInv, FrameTypeOK, BufferTypeOK
<1>2. bPtr' = RegionB /\ aPtr' = aPtr
  BY DEF Write, Grown
<1>3. RegionB # Null => aSize' = aSize
  BY DEF Write, Grown
<1> QED BY <1>1, <1>2, <1>3 DEF OpenedInTime, RegionB, AFreeSpace, SpaceBeforeA

(* Receive: the block goes to the end of Content, or Write refuses it.     *)
LEMMA ReceiveStep ==
  ASSUME FrameInv, NEW n \in 1 .. MaxBlock, Receive(n)
  PROVE  FrameInv'
<1> DEFINE d == SubSeq(stream, 1, n)
<1>1. /\ pc = "recv" /\ n <= Len(stream) /\ n \in Nat /\ stream \in Seq(Bytes)
      /\ Write(d) /\ refused' = (refused \/ Len(d) > Room)
      /\ stream' = SubSeq(stream, n + 1, Len(stream)) /\ pc' = "frames"
      /\ UNCHANGED <<deleted, readMsgCount, log, sent, cut, handled>>
  BY BufferPart DEF Receive, Recv, sessionVars, clientVars, FrameInv, FrameTypeOK
<1>2. d \in Seq(Bytes) /\ Len(d) = n /\ (\A i \in 1 .. n : d[i] = stream[i])
  BY <1>1
<1>3. d \in Blocks
  <2>1. d \in [1 .. n -> Bytes]
    <3> HIDE DEF d
    <3> QED BY <1>2
  <2> QED BY <2>1 DEF Blocks
<1> HIDE DEF d
<1>4. BufferInv' /\ Queue!Put(d) /\ OpenedInTime' /\ BufferInv
  BY <1>1, <1>3, WriteIsPut, WriteOpensInTime, BufferPart
<1>5. ContentFacts' /\ ContentFacts /\ GetSize \in Nat /\ Room \in Nat
  BY <1>4, FactsNext, BufferPart
<1>6. /\ stream' \in Seq(Bytes) /\ Len(stream') = Len(stream) - n
      /\ \A i \in 1 .. Len(stream) - n : stream'[i] = stream[n + i]
  BY <1>1
<1>7. FrameTypeOK'
  <2>1. refused' \in BOOLEAN
    BY <1>1 DEF FrameInv, FrameTypeOK
  <2> QED BY <1>1, <1>4, <1>6, <2>1 DEF FrameInv, FrameTypeOK, BufferInv
<1>8. LogIsFrames'
  BY <1>1, SameLog
<1>9. NothingRefused'
  <2>1. SUFFICES ASSUME EnoughRoom, ~cut PROVE ~(refused \/ Len(d) > Room)
    BY <1>1 DEF NothingRefused, EnoughRoom
  <2>2. ~refused /\ GetSize + 1 < MaxSend
    BY <2>1, <1>1 DEF FrameInv, NothingRefused, LessThanAFrame
  <2>3. MaxBlock <= Room /\ MaxBlock \in Nat
    BY <2>1, <2>2, RoomForABlock, BufferPart
  <2>4. Len(d) <= Room
    BY <2>3, <1>2, <1>5
  <2> QED BY <2>2, <2>4, <1>2, <1>5
<1>10. FramesAsSent'
  BY <1>1 DEF FrameInv, FramesAsSent
<1>11. ASSUME ~cut', ~refused' PROVE Following' /\ LessThanAFrame'
  <2>1. ~cut /\ ~(refused \/ Len(d) > Room)
    BY <1>11, <1>1, Zenon
  <2>2. Content' = Content \o d /\ Following
    BY <2>1, <1>2, <1>4, <1>5 DEF Queue!Put, FrameInv
  <2>3. Content \in Seq(Bytes) /\ Len(Content) = GetSize /\ Len(Content') = GetSize'
    BY <1>5 DEF ContentFacts
  <2>4. /\ GetSize' = GetSize + n
        /\ \A i \in 1 .. GetSize : Content'[i] = Content[i]
        /\ \A i \in 1 .. n : Content'[GetSize + i] = stream[i]
    <3> DEFINE c == Content
    <3>1. c \in Seq(Bytes) /\ Len(c) = GetSize /\ n \in Nat
      BY <2>3, <1>1
    <3>2. Content' = c \o d
      BY <2>2
    <3> HIDE DEF c
    <3>3. /\ Len(c \o d) = GetSize + n
          /\ \A i \in 1 .. GetSize : (c \o d)[i] = c[i]
          /\ \A i \in 1 .. n : (c \o d)[GetSize + i] = d[i]
      BY <3>1, <1>2
    <3>4. GetSize' = GetSize + n /\ \A i \in 1 .. GetSize : Content'[i] = c[i]
      BY <3>2, <3>3, <2>3
    <3>5. \A i \in 1 .. n : Content'[GetSize + i] = stream[i]
      BY <3>2, <3>3, <1>2
    <3> QED BY <3>4, <3>5 DEF c
  <2>5. From' = From
    BY <1>1 DEF From, At, Awaited
  <2>6. /\ From + GetSize + Len(stream) = Len(log) /\ From \in Nat
        /\ \A i \in 1 .. GetSize : Content[i] = log[From + i]
        /\ \A i \in 1 .. Len(stream) : stream[i] = log[From + GetSize + i]
    <3>1. From \in Nat
      BY FromType
    <3> QED BY <3>1, <2>2 DEF Following
  <2>7. Len(stream) \in Nat /\ n <= Len(stream)
    BY <1>1
  <2>8. ASSUME NEW i \in 1 .. GetSize + n PROVE Content'[i] = log[From + i]
    <3>1. CASE i <= GetSize
      BY <3>1, <2>4, <2>6, <1>5
    <3>2. CASE i > GetSize
      <4>1. i - GetSize \in 1 .. n /\ i - GetSize \in 1 .. Len(stream)
            /\ GetSize + (i - GetSize) = i
            /\ From + GetSize + (i - GetSize) = From + i
        BY <3>2, <1>5, <1>1, <2>6, <2>7
      <4>2. /\ Content'[GetSize + (i - GetSize)] = stream[i - GetSize]
            /\ stream[i - GetSize] = log[From + GetSize + (i - GetSize)]
        BY <4>1, <2>4, <2>6
      <4> QED BY <4>1, <4>2
    <3> QED BY <3>1, <3>2, <1>5
  <2>9. ASSUME NEW i \in 1 .. Len(stream) - n
        PROVE  stream'[i] = log[From + (GetSize + n) + i]
    <3>1. n + i \in 1 .. Len(stream) /\ From + GetSize + (n + i) = From + (GetSize + n) + i
      BY <1>1, <2>6, <2>7, <1>5
    <3> QED BY <3>1, <1>6, <2>6
  <2>10. From + (GetSize + n) + (Len(stream) - n) = Len(log)
    BY <2>6, <2>7, <1>1, <1>5
  <2>11. LessThanAFrame'
    BY <1>1 DEF LessThanAFrame
  <2> QED BY <2>4, <2>5, <2>8, <2>9, <2>10, <2>11, <1>1, <1>6 DEF Following
<1> QED BY <1>1, <1>4, <1>7, <1>8, <1>9, <1>10, <1>11 DEF FrameInv, BufferInv

(* TakeFrame: the next message is handled, and From moves behind its frame. *)
LEMMA TakeFrameStep ==
  ASSUME FrameInv, NextFrame, TakeFrame
  PROVE  FrameInv'
<1> DEFINE t    == TotalLen
           body == SubSeq(Taken(t), HeaderLen + 1, t)
<1>1. /\ UNCHANGED <<stream, log, sent, cut, refused, pc, deleted>> /\ pc = "frames"
      /\ handled' = Append(handled, body) /\ Read(t)
      /\ GetSize >= HeaderLen /\ GetSize >= t
  BY DEF NextFrame, TakeFrame, clientVars
<1>2. /\ HeaderLen \in Nat /\ GetSize \in Nat /\ Bytes \subseteq Nat
      /\ handled \in Seq(Strings) /\ readMsgCount \in Nat
      /\ Len(sent) \in Nat /\ Len(handled) \in Nat
  BY BufferPart, FrameAssumption DEF FrameInv, FrameTypeOK
<1>3. t \in Nat
  <2>1. HeaderLen >= 2 /\ HeaderLen \in 0 .. GetSize
    BY <1>1, <1>2, FrameAssumption
  <2>2. FrontHeader \in Seq(Bytes) /\ Len(FrontHeader) = HeaderLen
    BY <2>1, FrontBytes DEF FrontHeader
  <2>3. FrontHeader[HeaderLen] \in Bytes
    BY <2>1, <2>2, <1>2
  <2>4. FrontHeader[HeaderLen] \in Nat /\ HeaderLen \in Nat
    BY <2>3, <1>2, Zenon
  <2> QED BY <2>4 DEF TotalLen
<1> HIDE DEF t
<1>4. BufferInv' /\ Queue!Get(t) /\ BufferInv
  BY <1>1, <1>3, ReadIsGet, BufferPart
<1>5. /\ Content \in Seq(Bytes) /\ Len(Content) = GetSize
      /\ Len(Content') = GetSize' /\ GetSize' \in Nat
  BY <1>4, FactsNext, BufferPart DEF ContentFacts
<1>6. Content' = SubSeq(Content, t + 1, GetSize)
  <2> DEFINE c == Content
  <2>1. Len(c) = GetSize /\ t <= GetSize /\ GetSize \in Nat
    BY <1>1, <1>2, <1>5
  <2>2. Content' = Queue!Remainder(c, t)
    <3>1. ~(t > Len(c))
      BY <2>1, <1>3
    <3> QED BY <3>1, <1>4 DEF Queue!Get
  <2> HIDE DEF c
  <2>3. Queue!Least(t, Len(c)) = t
    BY <2>1, <1>3 DEF Queue!Least
  <2>4. Content' = SubSeq(c, t + 1, GetSize)
    BY <2>1, <2>2, <2>3 DEF Queue!Remainder
  <2> QED BY <2>4 DEF c
<1>7. GetSize' = GetSize - t /\ \A i \in 1 .. GetSize - t : Content'[i] = Content[t + i]
  <2> DEFINE c == Content
             s == SubSeq(c, t + 1, GetSize)
  <2>1. c \in Seq(Bytes) /\ Len(c) = GetSize /\ t \in Nat /\ t <= GetSize
    BY <1>1, <1>2, <1>3, <1>5
  <2>2. Content' = s /\ Len(Content') = GetSize'
    BY <1>5, <1>6
  <2> HIDE DEF c
  <2>3. Len(s) = GetSize - t /\ \A i \in 1 .. GetSize - t : s[i] = c[t + i]
    BY <2>1, <1>2
  <2> HIDE DEF s
  <2> QED BY <2>2, <2>3 DEF c
<1>8. OpenedInTime'
  <2>1. Take(t)
    BY <1>1, <1>2, <1>3 DEF Read
  <2>2. FromA(t) \in 0 .. aSize /\ aPtr \in Nat /\ aSize \in Nat /\ Cap \in Nat
    BY <1>3, <1>4, TakeFacts, BufferAssumption DEF BufferInv, BufferTypeOK
  <2>3. bPtr' # Null => /\ bPtr' = bPtr /\ aPtr' = aPtr + FromA(t)
                        /\ aSize' = aSize - FromA(t)
    BY <2>1, <2>2 DEF Take
  <2> QED BY <2>2, <2>3 DEF FrameInv, OpenedInTime
<1>9. body \in Strings
  <2>1. t \in 0 .. GetSize
    BY <1>1, <1>2, <1>3
  <2>2. Taken(t) \in Seq(Bytes) /\ Len(Taken(t)) = t
    BY <2>1, FrontBytes
  <2> QED BY <2>2, <1>2, <1>3 DEF Strings
<1>10. FrameTypeOK'
  <2>1. handled' \in Seq(Strings)
    BY <1>1, <1>2, <1>9
  <2>2. readMsgCount' \in Nat
    <3>1. readMsgCount' \in {readMsgCount, readMsgCount + 1, readMsgCount + 0}
      BY DEF TakeFrame
    <3> QED BY <3>1, <1>2
  <2> QED BY <2>1, <2>2, <1>1, <1>4 DEF FrameInv, FrameTypeOK, BufferInv
<1> HIDE DEF body
<1>11. LogIsFrames'
  BY <1>1, SameLog
<1>12. NothingRefused'
  BY <1>1 DEF FrameInv, NothingRefused, EnoughRoom
<1>13. ASSUME ~cut', ~refused' PROVE (FramesAsSent /\ Following /\ LessThanAFrame)'
  <2>1. /\ ~cut /\ ~refused /\ FramesAsSent /\ Following
    BY <1>1, <1>13 DEF FrameInv
  <2>2. /\ Awaited \in 1 .. Len(sent) /\ From + t = At(Awaited + 1)
        /\ body = Padded(sent[Awaited].body)
    BY <2>1, <1>1, FrontFrame DEF t, body
  <2>3. Awaited' = Awaited + 1 /\ Len(handled') = Len(handled) + 1
    BY <1>1, <1>2 DEF Awaited
  <2>4. FramesAsSent'
    <3>1. ASSUME NEW i \in 1 .. Len(handled) + 1
          PROVE  handled'[i] = Padded(sent[i].body)
      <4>1. CASE i <= Len(handled)
        BY <4>1, <1>1, <1>2, <2>1 DEF FramesAsSent
      <4>2. CASE i = Awaited
        BY <4>2, <1>1, <1>2, <2>2 DEF Awaited
      <4> QED BY <4>1, <4>2, <1>2 DEF Awaited
    <3> QED BY <3>1, <2>1, <2>2, <2>3, <1>1, <1>2 DEF FramesAsSent, Awaited
  <2>5. From' = From + t
    <3>1. From' = At(Awaited + 1)
      BY <2>3, <1>1 DEF From, At
    <3> QED BY <3>1, <2>2
  <2>6. From \in Nat /\ Len(stream) \in Nat
    BY FromType DEF FrameInv, FrameTypeOK
  <2>7. ASSUME NEW i \in 1 .. GetSize - t PROVE Content'[i] = log[(From + t) + i]
    <3>1. t + i \in 1 .. GetSize /\ From + (t + i) = (From + t) + i
      BY <1>2, <1>3, <2>6
    <3> QED BY <3>1, <1>7, <2>1 DEF Following
  <2>8. ASSUME NEW i \in 1 .. Len(stream)
        PROVE  stream[i] = log[(From + t) + (GetSize - t) + i]
    <3>1. (From + t) + (GetSize - t) + i = From + GetSize + i
      BY <1>2, <1>3, <2>6
    <3> QED BY <3>1, <2>1 DEF Following
  <2>9. (From + t) + (GetSize - t) + Len(stream) = Len(log)
    <3>1. From + GetSize + Len(stream) = Len(log)
      BY <2>1 DEF Following
    <3> QED BY <3>1, <1>2, <1>3, <2>6
  <2>10. Following'
    BY <1>1, <1>7, <2>5, <2>7, <2>8, <2>9 DEF Following
  <2>11. LessThanAFrame'
    BY <1>1 DEF LessThanAFrame
  <2> QED BY <2>4, <2>10, <2>11
<1>14. FramesAsSent'
  BY <1>13 DEF FramesAsSent
<1> QED BY <1>4, <1>8, <1>10, <1>11, <1>12, <1>13, <1>14 DEF FrameInv, BufferInv

-----------------------------------------------------------------------------
(* The invariant. *)

(* At the beginning there is nothing anywhere. *)
LEMMA InitIsFrameInv == FrameInit => FrameInv
<1> SUFFICES ASSUME FrameInit PROVE FrameInv
  OBVIOUS
<1>1. BufferInv /\ aPtr = 0 /\ aSize = 0 /\ bPtr = Null /\ bSize = 0
  BY InitIsEmpty DEF FrameInit, BufferInit
<1>2. /\ stream = <<>> /\ log = <<>> /\ sent = <<>> /\ handled = <<>>
      /\ deleted = FALSE /\ refused = FALSE /\ cut = FALSE /\ readMsgCount = 0 /\ pc = "recv" /\ GetSize = 0
  BY <1>1 DEF FrameInit, GetSize
<1>3. FrameTypeOK
  <2>1. <<>> \in Seq(Bytes) /\ <<>> \in Seq(SentMessages) /\ <<>> \in Seq(Strings)
    OBVIOUS
  <2> QED BY <2>1, <1>1, <1>2 DEF FrameTypeOK, BufferInv
<1>4. At(1) = 0 /\ LogIsFrames /\ From = 0
  BY <1>2 DEF At, LogIsFrames, From, Awaited
<1>5. Following /\ LessThanAFrame
  BY <1>2, <1>4, FrameAssumption DEF Following, LessThanAFrame
<1>6. OpenedInTime /\ FramesAsSent /\ NothingRefused
  BY <1>1, <1>2 DEF OpenedInTime, FramesAsSent, NothingRefused
<1> QED BY <1>1, <1>3, <1>4, <1>5, <1>6 DEF FrameInv, BufferInv

(* The texts the client sends are strings of bytes. *)
LEMMA ClientStep ==
  ASSUME FrameInv, ClientSends
  PROVE  FrameInv'
<1>1. /\ Heartbeat \in Bytes /\ Chat \in Bytes /\ HeartbeatText \in Seq(Bytes)
      /\ \A text \in ChatTexts : text \in Seq(Bytes)
  BY FrameAssumption
<1> QED BY <1>1, SendStep DEF ClientSends

(* Any step keeps the invariant. *)
LEMMA NextKeepsFrameInv ==
  ASSUME FrameInv, [FrameNext]_frameVars
  PROVE  FrameInv'
<1>1. CASE ClientSends
  BY <1>1, ClientStep
<1>2. CASE NextFrame
  BY <1>2, BackToRecvStep, TakeFrameStep DEF NextFrame
<1>3. CASE \E n \in 1 .. MaxBlock : Receive(n)
  BY <1>3, ReceiveStep
<1>4. CASE UNCHANGED frameVars
  <2>1. /\ UNCHANGED <<mem, regions>> /\ reply' = reply
        /\ UNCHANGED <<stream, clientVars, handled, refused, readMsgCount, pc, deleted>>
    BY <1>4 DEF frameVars, bufferVars, sessionVars
  <2>2. reply' \in Replies /\ pc' \in {"recv", "frames"} /\ deleted' \in BOOLEAN
    BY <2>1 DEF FrameInv, FrameTypeOK, BufferTypeOK
  <2>3. GetSize' = GetSize
    BY <2>1, <2>2, SameBuffer
  <2>4. ~cut /\ ~refused => LessThanAFrame'
    BY <2>1, <2>3 DEF FrameInv, LessThanAFrame
  <2> QED BY <2>1, <2>2, <2>4, QuietStep
<1> QED BY <1>1, <1>2, <1>3, <1>4 DEF FrameNext, OnRead

(* The invariant holds of the protocol, whatever its sizes. *)
THEOREM FrameInvariantHolds == FrameSpec => []FrameInv
<1>1. FrameInit => FrameInv
  BY InitIsFrameInv
<1>2. FrameInv /\ [FrameNext]_frameVars => FrameInv'
  BY NextKeepsFrameInv
<1> QED BY <1>1, <1>2, PTL DEF FrameSpec

(* Every variable keeps to its type. *)
THEOREM FrameTypeCorrect == FrameSpec => []FrameTypeOK
<1>1. FrameInv => FrameTypeOK
  BY DEF FrameInv
<1> QED BY <1>1, FrameInvariantHolds, PTL

(* Messages are handled as they were sent, for every message, every size    *)
(* and every way in which TCP may cut the stream.                           *)
THEOREM FramesArriveAsSent == FrameSpec => []FramesAsSent
<1>1. FrameInv => FramesAsSent
  BY DEF FrameInv
<1> QED BY <1>1, FrameInvariantHolds, PTL

(* A buffer with room for a block behind the longest frame, twice over,     *)
(* never refuses a block.                                                   *)
THEOREM BlocksAreNeverRefused == FrameSpec => []NothingRefused
<1>1. FrameInv => NothingRefused
  BY DEF FrameInv
<1> QED BY <1>1, FrameInvariantHolds, PTL

(* Every step of the protocol is a step of the buffer, or leaves it alone. *)
LEMMA StepIsBufferStep ==
  ASSUME FrameInv, [FrameNext]_frameVars
  PROVE  [BufferNext]_bufferVars
<1>0. /\ GetSize \in 0 .. Cap /\ Cap \in Nat /\ HeaderLen \in Nat /\ HeaderLen >= 2
      /\ MaxBlock \in Nat /\ stream \in Seq(Bytes) /\ Bytes \subseteq Nat
  BY BufferPart, FrameAssumption DEF FrameInv, FrameTypeOK, RoomFacts
<1>1. ASSUME UNCHANGED bufferVars PROVE [BufferNext]_bufferVars
  BY <1>1
<1>2. ASSUME NEW n \in 1 .. MaxBlock, Receive(n) PROVE [BufferNext]_bufferVars
  <2> DEFINE d == SubSeq(stream, 1, n)
  <2>1. Write(d) /\ n <= Len(stream) /\ n \in Nat
    BY <1>0, <1>2 DEF Receive, Recv
  <2>2. d \in Seq(Bytes) /\ Len(d) = n
    BY <1>0, <2>1
  <2> HIDE DEF d
  <2>3. d \in [1 .. n -> Bytes]
    BY <2>2
  <2>4. d \in Blocks
    BY <2>3 DEF Blocks
  <2> QED BY <2>1, <2>4 DEF BufferNext
<1>3. ASSUME GetSize >= HeaderLen, Peek(HeaderLen) PROVE [BufferNext]_bufferVars
  <2>1. HeaderLen \in 1 .. Cap + 1
    BY <1>0, <1>3
  <2> QED BY <2>1, <1>3 DEF BufferNext
<1>4. ASSUME TakeFrame PROVE [BufferNext]_bufferVars
  <2>1. Read(TotalLen) /\ GetSize >= TotalLen /\ HeaderLen \in 0 .. GetSize
    BY <1>0, <1>4 DEF TakeFrame
  <2>2. FrontHeader \in Seq(Bytes) /\ Len(FrontHeader) = HeaderLen
    BY <2>1, FrontBytes DEF FrontHeader
  <2>3. FrontHeader[HeaderLen] \in Bytes
    BY <1>0, <2>2
  <2>4. FrontHeader[HeaderLen] \in Nat
    BY <1>0, <2>3, Zenon
  <2>5. TotalLen \in 1 .. Cap + 1
    BY <1>0, <2>1, <2>4 DEF TotalLen
  <2> QED BY <2>1, <2>5 DEF BufferNext
<1>5. CASE ClientSends
  BY <1>1, <1>5 DEF ClientSends, Send
<1>6. CASE NextFrame
  BY <1>1, <1>3, <1>4, <1>6 DEF NextFrame, NoHeaderYet, NoFrameYet, WrongMagic
<1>7. CASE UNCHANGED frameVars
  BY <1>1, <1>7 DEF frameVars
<1> QED BY <1>2, <1>5, <1>6, <1>7 DEF FrameNext, OnRead

(* OnRead uses the buffer within what BufferProofs says of it: what it meets *)
(* in the buffer is a bounded queue of bytes.                               *)
THEOREM FramesUseByteQueue == FrameSpec => BufferSpec /\ ImplementsByteQueue
<1>1. FrameInit => BufferInit
  BY DEF FrameInit
<1>2. FrameInv /\ [FrameNext]_frameVars => [BufferNext]_bufferVars
  BY StepIsBufferStep
<1>3. FrameSpec => BufferSpec
  BY <1>1, <1>2, FrameInvariantHolds, PTL DEF FrameSpec, BufferSpec
<1> QED BY <1>3, BufferIsByteQueue, PTL
=============================================================================
