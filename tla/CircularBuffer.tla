--------------------------- MODULE CircularBuffer ---------------------------
(***************************************************************************)
(* buffer/ring_buffer: a byte buffer kept as two regions of one block of   *)
(* memory.  Region A holds the older bytes.  Region B is opened at the     *)
(* start of the memory once there is more space before A than after it,    *)
(* and becomes A when A has been used up.                                  *)
(*                                                                         *)
(* Pointers are offsets from m_buffer.  The buffer belongs to one Socket   *)
(* and is used by one thread at a time.                                    *)
(***************************************************************************)
EXTENDS BufferBase

Null    == -1
Offsets == 0 .. Cap - 1

VARIABLES
    mem,       \* the memory at m_buffer
    aPtr,      \* m_regionAPointer
    aSize,     \* m_regionASize
    bPtr,      \* m_regionBPointer
    bSize,     \* m_regionBSize
    reply      \* what the last operation returned

regions    == <<aPtr, aSize, bPtr, bSize>>
bufferVars == <<mem, regions, reply>>

BufferTypeOK ==
    /\ mem \in [Offsets -> Bytes]
    /\ aPtr \in 0 .. Cap
    /\ aSize \in 0 .. Cap
    /\ bPtr \in {Null} \cup 0 .. Cap
    /\ bSize \in 0 .. Cap
    /\ reply \in Replies

(* Allocate, from Socket's constructor; malloc leaves the memory arbitrary. *)
BufferInit ==
    /\ mem \in [Offsets -> Bytes]
    /\ aPtr = 0 /\ aSize = 0
    /\ bPtr = Null /\ bSize = 0
    /\ reply = Refused

GetSize == aSize + bSize

(* Mutant of AFreeSpace: the bytes A holds are not counted. *)
AFreeSpaceAfterPtr == Cap - aPtr

AFreeSpace   == Cap - aPtr - aSize
SpaceBeforeA == aPtr

(* Mutant of BFreeSpace: region B may grow to the end of the memory. *)
BFreeSpaceToEnd(b) == IF b = Null THEN 0 ELSE Cap - b - bSize

BFreeSpace(b) == IF b = Null THEN 0 ELSE aPtr - b - bSize

(* The n bytes at offset p, and the memory with block d copied to offset p. *)
BytesAt(p, n) == [i \in 1 .. n |-> mem[p + i - 1]]
Copied(p, d) ==
    [o \in Offsets |-> IF o \in p .. p + Len(d) - 1 THEN d[o - p + 1] ELSE mem[o]]

-----------------------------------------------------------------------------
(* AllocateB, and when Write and GetSpace call it. *)
RegionB == IF bPtr = Null /\ AFreeSpace < SpaceBeforeA THEN 0 ELSE bPtr

(* Where the next byte goes, and for how many there is room, once B has been *)
(* opened if it is going to be.                                              *)
Room  == IF RegionB # Null THEN BFreeSpace(RegionB) ELSE AFreeSpace
Where == IF RegionB # Null THEN RegionB + bSize ELSE aPtr + aSize

Grown(n) ==
    /\ bPtr' = RegionB
    /\ IF RegionB # Null
       THEN bSize' = bSize + n /\ UNCHANGED aSize
       ELSE aSize' = aSize + n /\ UNCHANGED bSize
    /\ UNCHANGED aPtr

(* Write: all of the block or none of it.  A refused Write may have opened B. *)
Write(d) ==
    \/ /\ Len(d) <= Room
       /\ mem' = Copied(Where, d)
       /\ Grown(Len(d))
       /\ reply' = Done(<<>>)
    \/ /\ Len(d) > Room
       /\ bPtr' = RegionB
       /\ reply' = Refused
       /\ UNCHANGED <<mem, aPtr, aSize, bSize>>

GetSpace ==
    /\ reply' = Number(Room)
    /\ bPtr' = RegionB
    /\ UNCHANGED <<mem, aPtr, aSize, bSize>>

(* What Read and Remove share: up to n bytes are taken off A, then off B,   *)
(* and B moves to the front of the memory and becomes A once A is empty.    *)
FromA(n) == Least(n, aSize)

FromB(n) == Least(n - FromA(n), bSize)

(* Mutant of Take: B becomes A and its bytes are not moved to the front. *)
TakeWithoutMove(n) ==
    LET aLeft == aSize - FromA(n)
        bLeft == bSize - FromB(n)
    IN  \/ /\ aLeft > 0
           /\ aPtr' = aPtr + FromA(n)
           /\ aSize' = aLeft
           /\ UNCHANGED <<mem, bPtr, bSize>>
        \/ /\ aLeft = 0
           /\ aPtr' = 0
           /\ aSize' = bLeft
           /\ bPtr' = Null
           /\ bSize' = 0
           /\ UNCHANGED mem

Take(n) ==
    LET aLeft == aSize - FromA(n)
        bLeft == bSize - FromB(n)
    IN  \/ /\ aLeft > 0
           /\ aPtr' = aPtr + FromA(n)
           /\ aSize' = aLeft
           /\ UNCHANGED <<mem, bPtr, bSize>>
        \/ /\ aLeft = 0
           /\ mem' = Copied(0, BytesAt(bPtr + FromB(n), bLeft))
           /\ aPtr' = 0
           /\ aSize' = bLeft
           /\ bPtr' = Null
           /\ bSize' = 0

(* The bytes copied out by Read and by Peek. *)
Taken(n) == BytesAt(aPtr, FromA(n)) \o BytesAt(bPtr, FromB(n))

Read(n) ==
    \/ /\ n <= GetSize
       /\ Take(n)
       /\ reply' = Done(Taken(n))
    \/ /\ n > GetSize
       /\ reply' = Refused
       /\ UNCHANGED <<mem, regions>>

Peek(n) ==
    /\ reply' = Done(Taken(n))
    /\ UNCHANGED <<mem, regions>>

Remove(n) ==
    /\ Take(n)
    /\ reply' = Done(<<>>)

BufferNext ==
    \/ \E d \in Blocks : Write(d)
    \/ \E n \in 1 .. Cap + 1 : Read(n) \/ Peek(n) \/ Remove(n)
    \/ GetSpace

BufferSpec == BufferInit /\ [][BufferNext]_bufferVars

-----------------------------------------------------------------------------
(* The two regions lie inside the memory and apart, B at its start, and     *)
(* there is no B without an A: every pointer the code forms from them, and  *)
(* every memcpy, stays inside the block malloc returned.                    *)
RegionsApart ==
    /\ aPtr + aSize <= Cap
    /\ bPtr \in {Null, 0}
    /\ bSize <= aPtr
    /\ bPtr = Null => bSize = 0
    /\ aSize = 0 => aPtr = 0 /\ bPtr = Null

(* No operation changes a byte that is still to be read: what was queued    *)
(* and is not taken keeps its value and its place in the order, whatever is *)
(* written meanwhile and however the regions move.                          *)
Content == BytesAt(aPtr, aSize) \o BytesAt(bPtr, bSize)

Queue == INSTANCE ByteQueue WITH queue <- Content, room <- Room

(* The buffer implements a bounded queue of bytes, refuses a block only when *)
(* its announced room is too small, and announces no less room later unless *)
(* bytes were written.                                                      *)
ImplementsByteQueue == Queue!QueueSpec
=============================================================================
