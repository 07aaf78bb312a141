---------------------------- MODULE BufferProofs ----------------------------
(***************************************************************************)
(* Proofs about CircularBuffer for every capacity, every set of bytes and  *)
(* every length of block: the two regions stay inside the memory and       *)
(* apart, and the buffer is a bounded queue of bytes.                      *)
(***************************************************************************)
EXTENDS CircularBuffer, TLAPS

BufferInv == BufferTypeOK /\ RegionsApart

-----------------------------------------------------------------------------
(* Arithmetic of the regions: what the room is once B may have been opened. *)
RoomFacts ==
    /\ RegionB \in {Null, 0}
    /\ RegionB = Null => /\ bPtr = Null
                         /\ Room = Cap - aPtr - aSize
                         /\ Room >= aPtr
    /\ RegionB = 0 => Room = aPtr - bSize /\ aSize > 0
    /\ bPtr = Null /\ RegionB = 0 => Cap - aPtr - aSize < aPtr
    /\ Room \in 0 .. Cap - GetSize
    /\ GetSize = 0 => Room = Cap

(* They follow from the shape of the regions. *)
LEMMA RoomOfRegions == BufferInv => RoomFacts
BY BufferAssumption DEF BufferInv, BufferTypeOK, RegionsApart, RegionB, Room,
   AFreeSpace, SpaceBeforeA, BFreeSpace, Null, GetSize, RoomFacts

(* How much is taken off each region, for a request of n bytes. *)
LEMMA TakeFacts ==
  ASSUME BufferInv, NEW n \in Nat
  PROVE  /\ FromA(n) \in 0 .. aSize
         /\ FromB(n) \in 0 .. bSize
         /\ FromA(n) + FromB(n) = Least(n, GetSize)
         /\ FromB(n) > 0 => FromA(n) = aSize
BY BufferAssumption DEF BufferInv, BufferTypeOK, FromA, FromB, Least, GetSize

(* A block read from inside the memory is a block of bytes. *)
LEMMA BytesRead ==
  ASSUME BufferInv, NEW p \in Int, NEW n \in Nat, n > 0 => p \in Nat /\ p + n <= Cap
  PROVE  /\ BytesAt(p, n) \in Seq(Bytes)
         /\ Len(BytesAt(p, n)) = n
         /\ \A i \in 1 .. n : BytesAt(p, n)[i] = mem[p + i - 1]
<1>1. ASSUME NEW i \in 1 .. n PROVE mem[p + i - 1] \in Bytes
  <2>1. p + i - 1 \in Offsets
    BY BufferAssumption DEF Offsets
  <2> QED BY <2>1 DEF BufferInv, BufferTypeOK
<1>2. BytesAt(p, n) \in [1 .. n -> Bytes]
  BY <1>1 DEF BytesAt
<1>3. BytesAt(p, n) \in Seq(Bytes) /\ Len(BytesAt(p, n)) = n
  BY <1>2
<1> QED BY <1>3 DEF BytesAt

(* Copying a block into the memory gives a memory. *)
LEMMA BytesCopied ==
  ASSUME BufferInv, NEW p \in Int, NEW d \in Seq(Bytes)
  PROVE  /\ Copied(p, d) \in [Offsets -> Bytes]
         /\ \A o \in Offsets :
               Copied(p, d)[o] = IF o \in p .. p + Len(d) - 1
                                 THEN d[o - p + 1] ELSE mem[o]
<1>1. ASSUME NEW o \in Offsets, o \in p .. p + Len(d) - 1
      PROVE  d[o - p + 1] \in Bytes
  <2>1. o - p + 1 \in 1 .. Len(d)
    BY <1>1 DEF Offsets
  <2> QED BY <2>1
<1>2. \A o \in Offsets : mem[o] \in Bytes
  BY DEF BufferInv, BufferTypeOK
<1> QED BY <1>1, <1>2 DEF Copied

(* What is in the buffer, byte by byte. *)
ContentFacts ==
    /\ Content \in Seq(Bytes)
    /\ Len(Content) = GetSize
    /\ \A i \in 1 .. GetSize :
          Content[i] = IF i <= aSize THEN mem[aPtr + i - 1]
                                     ELSE mem[i - aSize - 1]

(* It is A's bytes, then B's. *)
LEMMA ContentOfRegions == BufferInv => ContentFacts
<1> SUFFICES ASSUME BufferInv PROVE ContentFacts
  OBVIOUS
<1>0. /\ aPtr \in Int /\ aSize \in Nat
      /\ aSize > 0 => aPtr \in Nat /\ aPtr + aSize <= Cap
      /\ bPtr \in Int /\ bSize \in Nat
      /\ bSize > 0 => bPtr \in Nat /\ bPtr + bSize <= Cap
  BY BufferAssumption DEF BufferInv, BufferTypeOK, RegionsApart, Null
<1>1. /\ BytesAt(aPtr, aSize) \in Seq(Bytes)
      /\ Len(BytesAt(aPtr, aSize)) = aSize
      /\ \A i \in 1 .. aSize : BytesAt(aPtr, aSize)[i] = mem[aPtr + i - 1]
  BY <1>0, BytesRead
<1>2. /\ BytesAt(bPtr, bSize) \in Seq(Bytes)
      /\ Len(BytesAt(bPtr, bSize)) = bSize
      /\ \A i \in 1 .. bSize : BytesAt(bPtr, bSize)[i] = mem[bPtr + i - 1]
  BY <1>0, BytesRead
<1>3. bSize > 0 => bPtr = 0
  BY DEF BufferInv, BufferTypeOK, RegionsApart
<1>4. aSize \in Nat /\ bSize \in Nat
  BY BufferAssumption DEF BufferInv, BufferTypeOK
<1>5. Content \in Seq(Bytes) /\ Len(Content) = GetSize
  <2> DEFINE a == BytesAt(aPtr, aSize)
             b == BytesAt(bPtr, bSize)
  <2>1. /\ a \in Seq(Bytes) /\ Len(a) = aSize
        /\ b \in Seq(Bytes) /\ Len(b) = bSize
    BY <1>1, <1>2
  <2> HIDE DEF a, b
  <2>2. a \o b \in Seq(Bytes) /\ Len(a \o b) = aSize + bSize
    BY <2>1
  <2> QED BY <2>2 DEF a, b, Content, GetSize
<1>6. ASSUME NEW i \in 1 .. GetSize
      PROVE  Content[i] = IF i <= aSize THEN mem[aPtr + i - 1]
                                        ELSE mem[i - aSize - 1]
  <2>1. CASE i <= aSize
    BY <1>1, <1>2, <1>4, <2>1 DEF Content, GetSize
  <2>2. CASE i > aSize
    <3>1. i - aSize \in 1 .. bSize
      BY <1>4, <2>2 DEF GetSize
    <3>2. Content[i] = BytesAt(bPtr, bSize)[i - aSize]
      BY <1>1, <1>2, <1>4, <2>2 DEF Content, GetSize
    <3>3. BytesAt(bPtr, bSize)[i - aSize] = mem[bPtr + (i - aSize) - 1]
      BY <1>2, <3>1
    <3>4. bPtr = 0
      BY <1>3, <3>1, <1>4
    <3>5. bPtr + (i - aSize) - 1 = i - aSize - 1
      BY <1>4, <3>4
    <3> QED BY <2>2, <1>4, <3>2, <3>3, <3>5
  <2> QED BY <1>4, <2>1, <2>2
<1> QED BY <1>5, <1>6 DEF ContentFacts

(* The same facts of the state after a step. *)
LEMMA FactsNext == BufferInv' => RoomFacts' /\ ContentFacts'
<1>1. BufferInv => RoomFacts /\ ContentFacts
  BY RoomOfRegions, ContentOfRegions
<1> QED BY <1>1, PTL

(* Two sequences of the same length and the same elements are one. *)
LEMMA SameSequence ==
  ASSUME NEW S, NEW s \in Seq(S), NEW t \in Seq(S), Len(s) = Len(t),
         \A i \in 1 .. Len(s) : s[i] = t[i]
  PROVE  s = t
OBVIOUS

-----------------------------------------------------------------------------
(* A block that is written: where it goes is free memory. *)
LEMMA BlockFacts ==
  ASSUME NEW d \in Blocks
  PROVE  d \in Seq(Bytes) /\ Len(d) \in 1 .. MaxBlock
BY BufferAssumption DEF Blocks

(* A Write that succeeds keeps the regions and adds the block at the end. *)
LEMMA WriteDone ==
  ASSUME BufferInv, NEW d \in Blocks, Len(d) <= Room,
         mem' = Copied(Where, d), Grown(Len(d)), reply' = Done(<<>>)
  PROVE  /\ BufferInv'
         /\ Content' = Content \o d
         /\ Room' >= Room - Len(d)
<1>0. aPtr \in Nat /\ aSize \in Nat /\ bSize \in Nat
  BY BufferAssumption DEF BufferInv, BufferTypeOK
<1>1. d \in Seq(Bytes) /\ Len(d) \in Nat /\ Len(d) > 0
  BY BlockFacts, BufferAssumption
<1>2. Where \in Nat
  BY RoomOfRegions, BufferAssumption
     DEF RoomFacts, Where, BufferInv, BufferTypeOK, RegionsApart, Null
<1>3. /\ mem' \in [Offsets -> Bytes]
      /\ \A o \in Offsets : mem'[o] = IF o \in Where .. Where + Len(d) - 1
                                      THEN d[o - Where + 1] ELSE mem[o]
  BY <1>1, <1>2, BytesCopied
<1>4. reply' \in Replies
  BY DEF Done, Replies
<1>5. BufferInv'
  BY <1>1, <1>3, <1>4, RoomOfRegions, BufferAssumption
     DEF RoomFacts, Grown, BufferInv, BufferTypeOK, RegionsApart, Null, GetSize
<1>6. Room' >= Room - Len(d)
  <2>1. RoomFacts /\ RoomFacts'
    BY <1>5, RoomOfRegions, FactsNext
  <2>2. CASE RegionB = 0
    <3>1. aPtr' = aPtr /\ bSize' = bSize + Len(d) /\ bPtr' = 0
      BY <2>2 DEF Grown, Null
    <3>2. RegionB' = 0
      BY <2>1, <3>1 DEF RoomFacts, Null
    <3> QED BY <1>0, <1>1, <2>1, <2>2, <3>1, <3>2 DEF RoomFacts
  <2>3. CASE RegionB = Null
    <3>1. aPtr' = aPtr /\ aSize' = aSize + Len(d) /\ bSize' = bSize /\ bPtr' = Null
      BY <2>3 DEF Grown, Null
    <3>2. bSize = 0
      BY <2>1, <2>3 DEF RoomFacts, BufferInv, RegionsApart
    <3> QED BY <1>0, <1>1, <2>1, <2>3, <3>1, <3>2, BufferAssumption DEF RoomFacts
  <2> QED BY <2>1, <2>2, <2>3 DEF RoomFacts
<1>7. GetSize' = GetSize + Len(d)
  BY <1>1, BufferAssumption DEF Grown, GetSize, BufferInv, BufferTypeOK
<1>8. ASSUME NEW i \in 1 .. GetSize + Len(d)
      PROVE  Content'[i] = (Content \o d)[i]
  <2>0. /\ GetSize \in Nat /\ aSize \in Nat /\ aPtr \in Nat /\ bSize \in Nat
        /\ Content \in Seq(Bytes) /\ Len(Content) = GetSize
    BY ContentOfRegions, BufferAssumption DEF ContentFacts, BufferInv, BufferTypeOK, GetSize
  <2>1. (Content \o d)[i] = IF i <= GetSize THEN Content[i] ELSE d[i - GetSize]
    BY <1>1, <2>0
  <2>2. Content'[i] = IF i <= aSize' THEN mem'[aPtr' + i - 1]
                                     ELSE mem'[i - aSize' - 1]
    BY <1>5, <1>7, FactsNext DEF ContentFacts
  <2>3. i <= GetSize =>
           Content[i] = IF i <= aSize THEN mem[aPtr + i - 1]
                                      ELSE mem[i - aSize - 1]
    BY ContentOfRegions, <2>0 DEF ContentFacts
  <2>4. CASE RegionB = 0
    <3>1. aPtr' = aPtr /\ aSize' = aSize /\ Where = bSize
      BY <1>0, <2>4 DEF Grown, Where, Null
    <3>2. Room = aPtr - bSize /\ aPtr + aSize <= Cap
      BY <2>4, RoomOfRegions DEF RoomFacts, Null, BufferInv, RegionsApart
    <3>3. CASE i <= aSize
      <4>1. aPtr + i - 1 \in Offsets /\ aPtr + i - 1 >= Where + Len(d)
        BY <1>1, <2>0, <3>1, <3>2, <3>3, BufferAssumption DEF Offsets
      <4>2. mem'[aPtr + i - 1] = mem[aPtr + i - 1]
        BY <1>1, <1>2, <1>3, <4>1
      <4> QED BY <2>0, <2>1, <2>2, <2>3, <3>1, <3>3, <4>2 DEF GetSize
    <3>4. CASE i > aSize /\ i <= GetSize
      <4>1. i - aSize - 1 \in Offsets /\ i - aSize - 1 < Where
        BY <1>1, <2>0, <3>1, <3>2, <3>4, BufferAssumption DEF Offsets, GetSize
      <4>2. mem'[i - aSize - 1] = mem[i - aSize - 1]
        BY <1>1, <1>2, <1>3, <4>1
      <4> QED BY <2>0, <2>1, <2>2, <2>3, <3>1, <3>4, <4>2 DEF GetSize
    <3>5. CASE i > GetSize
      <4>1. /\ i - aSize - 1 \in Offsets
            /\ i - aSize - 1 \in Where .. Where + Len(d) - 1
            /\ (i - aSize - 1) - Where + 1 = i - GetSize
        BY <1>1, <2>0, <3>1, <3>2, <3>5, BufferAssumption DEF Offsets, GetSize
      <4>2. mem'[i - aSize - 1] = d[i - GetSize]
        BY <1>3, <4>1
      <4> QED BY <2>0, <2>1, <2>2, <3>1, <3>5, <4>2 DEF GetSize
    <3> QED BY <2>0, <3>3, <3>4, <3>5
  <2>5. CASE RegionB = Null
    <3>1. aPtr' = aPtr /\ aSize' = aSize + Len(d) /\ Where = aPtr + aSize
      BY <1>0, <2>5 DEF Grown, Where, Null
    <3>2. Room = Cap - aPtr - aSize /\ bSize = 0
      BY <2>5, RoomOfRegions DEF RoomFacts, Null, BufferInv, RegionsApart
    <3>3. GetSize = aSize /\ i <= aSize'
      BY <2>0, <3>1, <3>2 DEF GetSize
    <3>4. aPtr + i - 1 \in Offsets
      BY <1>1, <2>0, <3>1, <3>2, <3>3, BufferAssumption DEF Offsets
    <3>5. CASE i <= aSize
      <4>1. mem'[aPtr + i - 1] = mem[aPtr + i - 1]
        BY <1>1, <1>2, <1>3, <2>0, <3>1, <3>4, <3>5
      <4> QED BY <2>1, <2>2, <2>3, <3>1, <3>3, <3>5, <4>1
    <3>6. CASE i > aSize
      <4>1. /\ aPtr + i - 1 \in Where .. Where + Len(d) - 1
            /\ (aPtr + i - 1) - Where + 1 = i - GetSize
        BY <1>1, <2>0, <3>1, <3>3, <3>6
      <4>2. mem'[aPtr + i - 1] = d[i - GetSize]
        BY <1>3, <3>4, <4>1
      <4> QED BY <2>0, <2>1, <2>2, <3>1, <3>3, <3>6, <4>2
    <3> QED BY <2>0, <3>5, <3>6
  <2> QED BY <2>4, <2>5, RoomOfRegions DEF RoomFacts
<1>9. /\ Content' \in Seq(Bytes) /\ Len(Content') = GetSize + Len(d)
      /\ Content \o d \in Seq(Bytes) /\ Len(Content \o d) = GetSize + Len(d)
  <2>1. Content \in Seq(Bytes) /\ Len(Content) = GetSize
    BY ContentOfRegions DEF ContentFacts
  <2>2. Content' \in Seq(Bytes) /\ Len(Content') = GetSize'
    BY <1>5, FactsNext DEF ContentFacts
  <2> QED BY <1>1, <1>7, <2>1, <2>2
<1>10. Content' = Content \o d
  BY <1>8, <1>9, SameSequence
<1> QED BY <1>5, <1>6, <1>10

(* A Write that is refused keeps what is in the buffer, and the room.       *)
LEMMA WriteRefused ==
  ASSUME BufferInv, bPtr' = RegionB, UNCHANGED <<mem, aPtr, aSize, bSize>>,
         reply' \in Replies
  PROVE  /\ BufferInv'
         /\ Content' = Content
         /\ Room' = Room
<1>1. RoomFacts
  BY RoomOfRegions
<1>2. BufferInv'
  BY <1>1, BufferAssumption
     DEF RoomFacts, BufferInv, BufferTypeOK, RegionsApart, Null
<1>3. RoomFacts' /\ ContentFacts /\ ContentFacts'
  BY <1>2, FactsNext, ContentOfRegions
<1>4. Room' = Room
  <2>1. aPtr \in Nat /\ bSize \in Nat
    BY BufferAssumption DEF BufferInv, BufferTypeOK
  <2>2. CASE RegionB = 0
    <3>1. RegionB' = 0
      BY <1>3, <2>2 DEF RoomFacts, Null
    <3> QED BY <1>1, <1>3, <2>1, <2>2, <3>1 DEF RoomFacts
  <2>3. CASE RegionB = Null
    <3>1. bPtr' = bPtr
      BY <1>1, <2>3 DEF RoomFacts
    <3> QED BY <3>1 DEF Room, RegionB, BFreeSpace, AFreeSpace, SpaceBeforeA
  <2> QED BY <1>1, <2>2, <2>3 DEF RoomFacts
<1>5. Content' = Content
  <2>1. GetSize' = GetSize
    BY DEF GetSize
  <2>2. \A i \in 1 .. GetSize : Content'[i] = Content[i]
    BY <1>3, <2>1 DEF ContentFacts
  <2> QED BY <1>3, <2>1, <2>2, SameSequence DEF ContentFacts
<1> QED BY <1>2, <1>4, <1>5

-----------------------------------------------------------------------------
(* What is copied out is the front of what is in the buffer. *)
LEMMA TakenIsPrefix ==
  ASSUME BufferInv, NEW n \in Nat
  PROVE  Taken(n) = Queue!Prefix(Content, n)
<1> DEFINE a == BytesAt(aPtr, FromA(n))
           b == BytesAt(bPtr, FromB(n))
           m == Least(n, GetSize)
<1>1. /\ aPtr \in Nat /\ aSize \in Nat /\ bSize \in Nat /\ bPtr \in Int
      /\ bSize > 0 => bPtr = 0
      /\ aPtr + aSize <= Cap /\ bSize <= aPtr
  BY BufferAssumption DEF BufferInv, BufferTypeOK, RegionsApart, Null
<1>2. /\ FromA(n) \in Nat /\ FromA(n) <= aSize
      /\ FromB(n) \in Nat /\ FromB(n) <= bSize
      /\ FromA(n) + FromB(n) = m
      /\ FromB(n) > 0 => FromA(n) = aSize
  BY <1>1, TakeFacts
<1>3. /\ a \in Seq(Bytes) /\ Len(a) = FromA(n)
      /\ \A i \in 1 .. FromA(n) : a[i] = mem[aPtr + i - 1]
  <2>1. FromA(n) > 0 => aPtr \in Nat /\ aPtr + FromA(n) <= Cap
    BY <1>1, <1>2, BufferAssumption
  <2>2. aPtr \in Int /\ FromA(n) \in Nat
    BY <1>1, <1>2
  <2> QED BY <2>1, <2>2, BytesRead
<1>4. /\ b \in Seq(Bytes) /\ Len(b) = FromB(n)
      /\ \A i \in 1 .. FromB(n) : b[i] = mem[bPtr + i - 1]
  <2>1. FromB(n) > 0 => bPtr \in Nat /\ bPtr + FromB(n) <= Cap
    BY <1>1, <1>2, BufferAssumption
  <2>2. bPtr \in Int /\ FromB(n) \in Nat
    BY <1>1, <1>2
  <2> QED BY <2>1, <2>2, BytesRead
<1>5. /\ Content \in Seq(Bytes) /\ Len(Content) = GetSize
      /\ GetSize \in Nat /\ m \in Nat /\ m <= GetSize
  BY <1>1, ContentOfRegions DEF ContentFacts, GetSize, Least
<1> HIDE DEF a, b, m
<1>6. a \o b \in Seq(Bytes) /\ Len(a \o b) = m
  <2>1. a \in Seq(Bytes) /\ b \in Seq(Bytes) /\ Len(a) + Len(b) = m
    BY <1>2, <1>3, <1>4
  <2> QED BY <2>1
<1>7. /\ SubSeq(Content, 1, m) \in Seq(Bytes) /\ Len(SubSeq(Content, 1, m)) = m
      /\ \A i \in 1 .. m : SubSeq(Content, 1, m)[i] = Content[i]
  BY <1>5
<1>8. ASSUME NEW i \in 1 .. m
      PROVE  (a \o b)[i] = Content[i]
  <2>1. Content[i] = IF i <= aSize THEN mem[aPtr + i - 1]
                                   ELSE mem[i - aSize - 1]
    BY <1>5, ContentOfRegions DEF ContentFacts
  <2>2. CASE i <= FromA(n)
    <3>1. (a \o b)[i] = a[i]
      BY <1>2, <1>3, <1>4, <2>2
    <3> QED BY <1>1, <1>2, <1>3, <2>1, <2>2, <3>1
  <2>3. CASE i > FromA(n)
    <3>1. FromA(n) = aSize /\ i - aSize \in 1 .. FromB(n) /\ bPtr = 0
      BY <1>1, <1>2, <1>5, <2>3
    <3>2. (a \o b)[i] = b[i - aSize]
      BY <1>2, <1>3, <1>4, <2>3, <3>1
    <3>3. b[i - aSize] = mem[bPtr + (i - aSize) - 1]
      BY <1>4, <3>1
    <3>4. bPtr + (i - aSize) - 1 = i - aSize - 1 /\ ~(i <= aSize)
      BY <1>1, <2>3, <3>1
    <3> QED BY <2>1, <3>2, <3>3, <3>4
  <2>4. i <= FromA(n) \/ i > FromA(n)
    BY <1>2, <1>5
  <2> QED BY <2>2, <2>3, <2>4
<1>9. a \o b = SubSeq(Content, 1, m)
  <2> DEFINE s == a \o b
             t == SubSeq(Content, 1, m)
  <2>1. s \in Seq(Bytes) /\ t \in Seq(Bytes) /\ Len(s) = m /\ Len(t) = m
    BY <1>6, <1>7
  <2>2. \A i \in 1 .. m : s[i] = t[i]
    BY <1>7, <1>8
  <2> HIDE DEF s, t
  <2>3. s = t
    BY <2>1, <2>2, SameSequence
  <2> QED BY <2>3 DEF s, t
<1>10. Taken(n) = a \o b
  BY DEF Taken, a, b
<1>11. Queue!Prefix(Content, n) = SubSeq(Content, 1, m)
  BY <1>5 DEF Queue!Prefix, Queue!Least, Least, m
<1> QED BY <1>9, <1>10, <1>11

(* What a request for n bytes leaves: the rest of the queue, and no less    *)
(* room; all of it once the buffer is empty.                                *)
LEMMA TakeKeeps ==
  ASSUME BufferInv, NEW n \in Nat, Take(n), reply' \in Replies
  PROVE  /\ BufferInv'
         /\ Content' = Queue!Remainder(Content, n)
         /\ Room' >= Room
<1> DEFINE fa == FromA(n)
           fb == FromB(n)
           m  == Least(n, GetSize)
<1>1. /\ aPtr \in Nat /\ aSize \in Nat /\ bSize \in Nat /\ bPtr \in Int
      /\ bSize > 0 => bPtr = 0
      /\ bPtr \in {Null, 0}
      /\ aPtr + aSize <= Cap /\ bSize <= aPtr
      /\ mem \in [Offsets -> Bytes] /\ Cap \in Nat
  BY BufferAssumption DEF BufferInv, BufferTypeOK, RegionsApart, Null
<1>2. /\ fa \in Nat /\ fa <= aSize
      /\ fb \in Nat /\ fb <= bSize
      /\ fa + fb = m
      /\ fb > 0 => fa = aSize
  BY <1>1, TakeFacts
<1>3. /\ GetSize \in Nat /\ GetSize = aSize + bSize
      /\ m \in Nat /\ m <= GetSize
      /\ Content \in Seq(Bytes) /\ Len(Content) = GetSize
      /\ \A i \in 1 .. GetSize :
            Content[i] = IF i <= aSize THEN mem[aPtr + i - 1]
                                       ELSE mem[i - aSize - 1]
  BY <1>1, ContentOfRegions DEF ContentFacts, GetSize, Least
<1>4. RoomFacts
  BY RoomOfRegions
<1>5. \/ /\ aSize - fa > 0
         /\ aPtr' = aPtr + fa
         /\ aSize' = aSize - fa
         /\ UNCHANGED <<mem, bPtr, bSize>>
      \/ /\ aSize - fa = 0
         /\ mem' = Copied(0, BytesAt(bPtr + fb, bSize - fb))
         /\ aPtr' = 0
         /\ aSize' = bSize - fb
         /\ bPtr' = Null
         /\ bSize' = 0
  BY DEF Take
<1>6. Queue!Remainder(Content, n) = SubSeq(Content, m + 1, GetSize)
  BY <1>3 DEF Queue!Remainder, Queue!Least, Least
<1> HIDE DEF fa, fb, m
<1>7. ASSUME BufferInv', GetSize' = GetSize - m,
             \A i \in 1 .. GetSize - m : Content'[i] = Content[m + i]
      PROVE  Content' = Queue!Remainder(Content, n)
  <2> DEFINE t == SubSeq(Content, m + 1, GetSize)
  <2>1. Content' \in Seq(Bytes) /\ Len(Content') = GetSize - m
    BY <1>7, FactsNext DEF ContentFacts
  <2>2. /\ t \in Seq(Bytes) /\ Len(t) = GetSize - m
        /\ \A i \in 1 .. GetSize - m : t[i] = Content[m + i]
    BY <1>3
  <2>3. \A i \in 1 .. GetSize - m : Content'[i] = t[i]
    BY <1>7, <2>2
  <2> HIDE DEF t
  <2>4. Content' = t
    BY <2>1, <2>2, <2>3, SameSequence
  <2> QED BY <1>6, <2>4 DEF t
<1>8. CASE aSize - fa > 0
  <2>1. /\ aPtr' = aPtr + fa /\ aSize' = aSize - fa
        /\ mem' = mem /\ bPtr' = bPtr /\ bSize' = bSize
    BY <1>1, <1>2, <1>5, <1>8
  <2>2. fb = 0 /\ m = fa
    BY <1>1, <1>2, <1>8
  <2>3. BufferInv'
    BY <1>1, <1>2, <1>8, <2>1
       DEF BufferInv, BufferTypeOK, RegionsApart, Null
  <2>4. RoomFacts' /\ ContentFacts'
    BY <2>3, FactsNext
  <2>5. Room' >= Room
    <3>1. CASE RegionB = 0
      <4>1. RegionB' = 0
        BY <1>1, <1>2, <1>4, <2>1, <2>4, <3>1 DEF RoomFacts, Null
      <4> QED BY <1>1, <1>2, <1>4, <2>1, <2>4, <3>1, <4>1 DEF RoomFacts
    <3>2. CASE RegionB = Null
      <4>1. Room = Cap - aPtr - aSize /\ Room >= aPtr /\ bPtr = Null
        BY <1>4, <3>2 DEF RoomFacts
      <4>2. bSize = 0
        BY <4>1, <1>1 DEF Null
      <4>3. CASE RegionB' = Null
        BY <1>1, <1>2, <2>1, <2>4, <4>1, <4>3 DEF RoomFacts
      <4>4. CASE RegionB' = 0
        BY <1>1, <1>2, <2>1, <2>4, <4>1, <4>2, <4>4 DEF RoomFacts
      <4> QED BY <2>4, <4>3, <4>4 DEF RoomFacts
    <3> QED BY <1>4, <3>1, <3>2 DEF RoomFacts
  <2>6. GetSize' = GetSize - m
    BY <1>1, <1>2, <2>1, <2>2 DEF GetSize
  <2>7. ASSUME NEW i \in 1 .. GetSize - m
        PROVE  Content'[i] = Content[m + i]
    <3>1. Content'[i] = IF i <= aSize' THEN mem'[aPtr' + i - 1]
                                       ELSE mem'[i - aSize' - 1]
      BY <2>4, <2>6 DEF ContentFacts
    <3>2. m + i \in 1 .. GetSize
      BY <1>3
    <3>3. Content[m + i] = IF m + i <= aSize THEN mem[aPtr + (m + i) - 1]
                                             ELSE mem[(m + i) - aSize - 1]
      BY <1>3, <3>2
    <3>4. /\ i <= aSize' <=> m + i <= aSize
          /\ aPtr' + i - 1 = aPtr + (m + i) - 1
          /\ i - aSize' - 1 = (m + i) - aSize - 1
      BY <1>1, <1>2, <1>3, <2>1, <2>2
    <3> QED BY <2>1, <3>1, <3>3, <3>4
  <2> QED BY <1>7, <2>3, <2>5, <2>6, <2>7
<1>9. CASE aSize - fa = 0
  <2>1. /\ mem' = Copied(0, BytesAt(bPtr + fb, bSize - fb))
        /\ aPtr' = 0 /\ aSize' = bSize - fb /\ bPtr' = Null /\ bSize' = 0
    BY <1>5, <1>9
  <2>2. fa = aSize /\ m = aSize + fb
    BY <1>1, <1>2, <1>9
  <2> DEFINE d == BytesAt(bPtr + fb, bSize - fb)
  <2>3. /\ d \in Seq(Bytes) /\ Len(d) = bSize - fb
        /\ \A i \in 1 .. bSize - fb : d[i] = mem[bPtr + fb + i - 1]
    <3>1. /\ bPtr + fb \in Int /\ bSize - fb \in Nat
          /\ bSize - fb > 0 => /\ bPtr + fb \in Nat
                               /\ (bPtr + fb) + (bSize - fb) <= Cap
      BY <1>1, <1>2
    <3> QED BY <3>1, BytesRead
  <2> HIDE DEF d
  <2>4. /\ mem' \in [Offsets -> Bytes]
        /\ \A o \in Offsets : mem'[o] = IF o \in 0 .. 0 + Len(d) - 1
                                        THEN d[o - 0 + 1] ELSE mem[o]
    BY <2>1, <2>3, BytesCopied DEF d
  <2>5. BufferInv'
    BY <1>1, <1>2, <2>1, <2>4
       DEF BufferInv, BufferTypeOK, RegionsApart, Null
  <2>6. RoomFacts' /\ ContentFacts'
    BY <2>5, FactsNext
  <2>7. Room' >= Room
    <3>1. RegionB' = Null
      BY <1>1, <1>2, <2>1, <2>6 DEF RoomFacts, Null
    <3>2. Room' = Cap - aSize'
      BY <1>1, <1>2, <2>1, <2>6, <3>1 DEF RoomFacts
    <3>3. Room <= Cap - GetSize /\ Room \in Int
      BY <1>1, <1>3, <1>4 DEF RoomFacts
    <3> QED BY <1>1, <1>2, <1>3, <2>1, <3>2, <3>3
  <2>8. GetSize' = GetSize - m
    BY <1>1, <1>2, <1>3, <2>1, <2>2 DEF GetSize
  <2>9. ASSUME NEW i \in 1 .. GetSize - m
        PROVE  Content'[i] = Content[m + i]
    <3>1. i \in 1 .. bSize - fb /\ bPtr = 0 /\ i <= aSize'
      BY <1>1, <1>2, <1>3, <2>1, <2>2
    <3>2. Content'[i] = mem'[aPtr' + i - 1]
      BY <2>6, <2>8, <3>1 DEF ContentFacts
    <3>3. /\ aPtr' + i - 1 = i - 1 /\ i - 1 \in Offsets
          /\ i - 1 \in 0 .. 0 + Len(d) - 1 /\ (i - 1) - 0 + 1 = i
      BY <1>1, <1>2, <2>1, <2>3, <3>1 DEF Offsets
    <3>4. Content'[i] = d[i]
      BY <2>4, <3>2, <3>3
    <3>5. d[i] = mem[bPtr + fb + i - 1]
      BY <2>3, <3>1
    <3>6. m + i \in 1 .. GetSize /\ ~(m + i <= aSize)
      BY <1>1, <1>2, <1>3, <2>2
    <3>7. Content[m + i] = mem[(m + i) - aSize - 1]
      BY <1>3, <3>6
    <3>8. (m + i) - aSize - 1 = bPtr + fb + i - 1
      BY <1>1, <1>2, <2>2, <3>1
    <3> QED BY <3>4, <3>5, <3>7, <3>8
  <2> QED BY <1>7, <2>5, <2>7, <2>8, <2>9
<1> QED BY <1>1, <1>2, <1>8, <1>9

-----------------------------------------------------------------------------
(* The bytes copied out are bytes, so the reply is one. *)
LEMMA TakenReply ==
  ASSUME BufferInv, NEW n \in Nat
  PROVE  Done(Taken(n)) \in Replies
<1>1. Content \in Seq(Bytes) /\ Len(Content) \in Nat
  BY ContentOfRegions DEF ContentFacts
<1>2. Least(n, Len(Content)) \in 0 .. Len(Content)
  BY <1>1 DEF Least
<1>3. SubSeq(Content, 1, Least(n, Len(Content))) \in Seq(Bytes)
  BY <1>1, <1>2
<1>4. Taken(n) \in Seq(Bytes)
  BY <1>3, TakenIsPrefix DEF Queue!Prefix, Queue!Least, Least
<1> QED BY <1>4 DEF Done, Replies

(* A number in 0 .. n that is at least k. *)
LEMMA Between ==
  ASSUME NEW k \in Int, NEW n, NEW r \in 0 .. n, r >= k
  PROVE  r \in k .. n
OBVIOUS

(* The room after a step that leaves at least k bytes of it. *)
LEMMA RoomLeft ==
  ASSUME BufferInv', NEW k \in Int, Room' >= k
  PROVE  Queue!RoomFrom(k)
<1>1. RoomFacts' /\ ContentFacts'
  BY FactsNext
<1>2. Len(Content') = GetSize'
  BY <1>1 DEF ContentFacts
<1>3. Room' \in 0 .. Cap - Len(Content')
  BY <1>1, <1>2 DEF RoomFacts
<1>4. Room' \in k .. Cap - Len(Content')
  BY <1>3, Between
<1>5. ASSUME Content' = <<>> PROVE Room' = Cap
  <2>1. GetSize' = 0
    BY <1>2, <1>5
  <2> QED BY <1>1, <2>1 DEF RoomFacts
<1> QED BY <1>4, <1>5 DEF Queue!RoomFrom

(* A buffer just allocated is an empty queue. *)
LEMMA InitIsEmpty == BufferInit => BufferInv /\ Queue!QueueInit
<1> SUFFICES ASSUME BufferInit PROVE BufferInv /\ Queue!QueueInit
  OBVIOUS
<1>1. BufferInv
  BY BufferAssumption DEF BufferInit, BufferInv, BufferTypeOK, RegionsApart,
     Null, Refused, Replies
<1>2. Len(Content) = 0 /\ Content \in Seq(Bytes)
  BY <1>1, ContentOfRegions DEF ContentFacts, GetSize, BufferInit
<1>3. Content = <<>>
  BY <1>2
<1>4. Room = Cap
  BY BufferAssumption DEF BufferInit, Room, RegionB, AFreeSpace, SpaceBeforeA
<1>5. reply = Queue!Refused
  BY DEF BufferInit, Refused, Queue!Refused
<1> QED BY <1>1, <1>3, <1>4, <1>5 DEF Queue!QueueInit

(* A Write of the buffer is a Put of the queue. *)
LEMMA WriteIsPut ==
  ASSUME BufferInv, NEW d \in Blocks, Write(d)
  PROVE  BufferInv' /\ Queue!Put(d)
<1>1. Room \in Int /\ Len(d) \in Nat
  BY RoomOfRegions, BlockFacts DEF RoomFacts
<1>2. CASE Len(d) <= Room
  <2>1. mem' = Copied(Where, d) /\ Grown(Len(d)) /\ reply' = Done(<<>>)
    BY <1>1, <1>2 DEF Write
  <2>2. BufferInv' /\ Content' = Content \o d /\ Room' >= Room - Len(d)
    BY <1>2, <2>1, WriteDone
  <2>3. Queue!RoomFrom(Room - Len(d))
    BY <1>1, <2>2, RoomLeft
  <2>4. reply' = Queue!Done(<<>>)
    BY <2>1 DEF Done, Queue!Done
  <2> QED BY <1>2, <2>2, <2>3, <2>4 DEF Queue!Put
<1>3. CASE Len(d) > Room
  <2>1. /\ bPtr' = RegionB /\ reply' = Refused
        /\ UNCHANGED <<mem, aPtr, aSize, bSize>>
    BY <1>1, <1>3 DEF Write
  <2>2. reply' \in Replies /\ reply' = Queue!Refused
    BY <2>1 DEF Refused, Replies, Queue!Refused
  <2>3. BufferInv' /\ Content' = Content /\ Room' = Room
    BY <2>1, <2>2, WriteRefused
  <2> QED BY <1>3, <2>2, <2>3 DEF Queue!Put
<1> QED BY <1>1, <1>2, <1>3

(* A step that moves nothing leaves queue and room as they were. *)
LEMMA NothingMoves ==
  ASSUME BufferInv, UNCHANGED <<mem, regions>>, reply' \in Replies
  PROVE  BufferInv' /\ Content' = Content /\ Room' = Room
<1>1. mem' = mem /\ aPtr' = aPtr /\ aSize' = aSize /\ bPtr' = bPtr /\ bSize' = bSize
  BY DEF regions
<1>2. BufferInv'
  BY <1>1 DEF BufferInv, BufferTypeOK, RegionsApart
<1>3. Content' = Content
  BY <1>1 DEF Content, BytesAt
<1>4. Room' = Room
  BY <1>1 DEF Room, RegionB, BFreeSpace, AFreeSpace, SpaceBeforeA
<1> QED BY <1>2, <1>3, <1>4

(* A Read of the buffer is a Get of the queue. *)
LEMMA ReadIsGet ==
  ASSUME BufferInv, NEW n \in Nat, Read(n)
  PROVE  BufferInv' /\ Queue!Get(n)
<1>1. GetSize \in Nat /\ Len(Content) = GetSize /\ Room \in Int
  BY RoomOfRegions, ContentOfRegions, BufferAssumption
     DEF RoomFacts, ContentFacts, BufferInv, BufferTypeOK, GetSize
<1>2. CASE n <= GetSize
  <2>1. Take(n) /\ reply' = Done(Taken(n))
    BY <1>1, <1>2 DEF Read
  <2>2. reply' \in Replies /\ reply' = Queue!Done(Queue!Prefix(Content, n))
    BY <2>1, TakenReply, TakenIsPrefix DEF Done, Queue!Done
  <2>3. BufferInv' /\ Content' = Queue!Remainder(Content, n) /\ Room' >= Room
    BY <2>1, <2>2, TakeKeeps
  <2>4. Queue!RoomFrom(Room)
    BY <1>1, <2>3, RoomLeft
  <2> QED BY <1>1, <1>2, <2>2, <2>3, <2>4 DEF Queue!Get
<1>3. CASE n > GetSize
  <2>1. reply' = Refused /\ UNCHANGED <<mem, regions>>
    BY <1>1, <1>3 DEF Read
  <2>2. reply' \in Replies /\ reply' = Queue!Refused
    BY <2>1 DEF Refused, Replies, Queue!Refused
  <2>3. BufferInv' /\ Content' = Content /\ Room' = Room
    BY <2>1, <2>2, NothingMoves
  <2> QED BY <1>1, <1>3, <2>2, <2>3 DEF Queue!Get
<1> QED BY <1>1, <1>2, <1>3

(* Peek looks at the queue, Remove drops from it, GetSpace asks for room. *)
LEMMA PeekIsLook ==
  ASSUME BufferInv, NEW n \in Nat, Peek(n)
  PROVE  BufferInv' /\ Queue!Look(n)
<1>1. reply' = Done(Taken(n)) /\ UNCHANGED <<mem, regions>>
  BY DEF Peek
<1>2. reply' \in Replies /\ reply' = Queue!Done(Queue!Prefix(Content, n))
  BY <1>1, TakenReply, TakenIsPrefix DEF Done, Queue!Done
<1>3. BufferInv' /\ Content' = Content /\ Room' = Room
  BY <1>1, <1>2, NothingMoves
<1> QED BY <1>2, <1>3 DEF Queue!Look

(* What Remove leaves is what Drop leaves. *)
LEMMA RemoveIsDrop ==
  ASSUME BufferInv, NEW n \in Nat, Remove(n)
  PROVE  BufferInv' /\ Queue!Drop(n)
<1>1. Take(n) /\ reply' = Done(<<>>)
  BY DEF Remove
<1>2. reply' \in Replies /\ reply' = Queue!Done(<<>>)
  BY <1>1 DEF Done, Replies, Queue!Done
<1>3. BufferInv' /\ Content' = Queue!Remainder(Content, n) /\ Room' >= Room
  BY <1>1, <1>2, TakeKeeps
<1>4. Room \in Int
  BY RoomOfRegions DEF RoomFacts
<1>5. Queue!RoomFrom(Room)
  BY <1>3, <1>4, RoomLeft
<1> QED BY <1>2, <1>3, <1>5 DEF Queue!Drop

(* GetSpace may open region B; the room it announces is there either way. *)
LEMMA GetSpaceIsAskRoom ==
  ASSUME BufferInv, GetSpace
  PROVE  BufferInv' /\ Queue!AskRoom
<1>1. /\ reply' = Number(Room) /\ bPtr' = RegionB
      /\ UNCHANGED <<mem, aPtr, aSize, bSize>>
  BY DEF GetSpace
<1>2. Room \in Nat
  BY RoomOfRegions DEF RoomFacts
<1>3. reply' \in Replies /\ reply' = Queue!Number(Room)
  BY <1>1, <1>2 DEF Number, Replies, Queue!Number
<1>4. BufferInv' /\ Content' = Content /\ Room' = Room
  BY <1>1, <1>3, WriteRefused
<1> QED BY <1>3, <1>4 DEF Queue!AskRoom

-----------------------------------------------------------------------------
(* Every step keeps the regions apart and is a step of the queue. *)
LEMMA StepIsQueueStep ==
  ASSUME BufferInv, [BufferNext]_bufferVars
  PROVE  BufferInv' /\ [Queue!QueueNext]_(Queue!queueVars)
<1>1. CASE UNCHANGED bufferVars
  <2>1. UNCHANGED <<mem, regions>> /\ reply' = reply /\ reply' \in Replies
    BY <1>1 DEF bufferVars, BufferInv, BufferTypeOK
  <2> QED BY <2>1, NothingMoves DEF Queue!queueVars
<1>2. ASSUME NEW d \in Blocks, Write(d)
      PROVE  BufferInv' /\ Queue!QueueNext
  <2>1. d \in Queue!Blocks
    BY DEF Blocks, Queue!Blocks
  <2> QED BY <1>2, <2>1, WriteIsPut DEF Queue!QueueNext
<1>3. ASSUME NEW n \in 1 .. Cap + 1, Read(n) \/ Peek(n) \/ Remove(n)
      PROVE  BufferInv' /\ Queue!QueueNext
  <2>1. n \in Nat
    BY BufferAssumption
  <2> QED BY <1>3, <2>1, ReadIsGet, PeekIsLook, RemoveIsDrop
          DEF Queue!QueueNext
<1>4. CASE GetSpace
  BY <1>4, GetSpaceIsAskRoom DEF Queue!QueueNext
<1> QED
  <2>1. CASE BufferNext
    BY <2>1, <1>2, <1>3, <1>4 DEF BufferNext
  <2> QED BY <1>1, <2>1

(* BufferInv holds in every reachable state. *)
THEOREM BufferInvariantHolds == BufferSpec => []BufferInv
<1>1. BufferInit => BufferInv
  BY InitIsEmpty
<1>2. BufferInv /\ [BufferNext]_bufferVars => BufferInv'
  BY StepIsQueueStep
<1> QED BY <1>1, <1>2, PTL DEF BufferSpec

(* Every variable of the buffer keeps its type. *)
THEOREM BufferTypeCorrect == BufferSpec => []BufferTypeOK
<1>1. BufferInv => BufferTypeOK
  BY DEF BufferInv
<1> QED BY <1>1, BufferInvariantHolds, PTL

(* The regions stay inside the memory and apart, for every capacity. *)
THEOREM RegionsStayApart == BufferSpec => []RegionsApart
<1>1. BufferInv => RegionsApart
  BY DEF BufferInv
<1> QED BY <1>1, BufferInvariantHolds, PTL

(* The buffer is a bounded first-in first-out queue of bytes: no byte is    *)
(* lost, repeated, changed or overtaken, and the room it announces is there. *)
THEOREM BufferIsByteQueue == BufferSpec => ImplementsByteQueue
<1>1. BufferInit => Queue!QueueInit
  BY InitIsEmpty
<1>2. BufferInv /\ [BufferNext]_bufferVars => [Queue!QueueNext]_(Queue!queueVars)
  BY StepIsQueueStep
<1> QED BY <1>1, <1>2, BufferInvariantHolds, PTL
        DEF BufferSpec, ImplementsByteQueue, Queue!QueueSpec

=============================================================================
