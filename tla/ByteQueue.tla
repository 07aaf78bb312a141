----------------------------- MODULE ByteQueue -----------------------------
(***************************************************************************)
(* What CircularBuffer promises its callers: a bounded queue of bytes.     *)
(* Only the free room is loose: a buffer cut in two regions may have less  *)
(* room than Cap - Len(queue), never less than what it last announced, and *)
(* an empty buffer always has room for Cap bytes.                          *)
(***************************************************************************)
EXTENDS BufferBase

VARIABLES
    queue,     \* bytes written and not yet taken, oldest first
    room,      \* bytes the next Write is sure to find room for
    reply      \* what the last operation returned

queueVars == <<queue, room, reply>>

Prefix(s, n)    == SubSeq(s, 1, Least(n, Len(s)))
Remainder(s, n) == SubSeq(s, Least(n, Len(s)) + 1, Len(s))

QueueInit == queue = <<>> /\ room = Cap /\ reply = Refused

(* The room after an operation that leaves at least n bytes of it. *)
RoomFrom(n) ==
    /\ room' \in n .. Cap - Len(queue')
    /\ queue' = <<>> => room' = Cap

Put(d) ==
    \/ /\ Len(d) <= room
       /\ queue' = queue \o d
       /\ reply' = Done(<<>>)
       /\ RoomFrom(room - Len(d))
    \/ /\ Len(d) > room
       /\ reply' = Refused
       /\ UNCHANGED <<queue, room>>

(* Read: all n bytes or none. *)
Get(n) ==
    \/ /\ n <= Len(queue)
       /\ queue' = Remainder(queue, n)
       /\ reply' = Done(Prefix(queue, n))
       /\ RoomFrom(room)
    \/ /\ n > Len(queue)
       /\ reply' = Refused
       /\ UNCHANGED <<queue, room>>

Look(n) ==
    /\ reply' = Done(Prefix(queue, n))
    /\ UNCHANGED <<queue, room>>

Drop(n) ==
    /\ queue' = Remainder(queue, n)
    /\ reply' = Done(<<>>)
    /\ RoomFrom(room)

AskRoom ==
    /\ reply' = Number(room)
    /\ UNCHANGED <<queue, room>>

QueueNext ==
    \/ \E d \in Blocks : Put(d)
    \/ \E n \in 1 .. Cap + 1 : Get(n) \/ Look(n) \/ Drop(n)
    \/ AskRoom

QueueSpec == QueueInit /\ [][QueueNext]_queueVars
=============================================================================
