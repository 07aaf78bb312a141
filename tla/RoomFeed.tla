------------------------------ MODULE RoomFeed ------------------------------
(***************************************************************************)
(* What RoomManager promises to those who are in rooms, without threads,   *)
(* queues, descriptors and the registry: a room is a feed of numbered      *)
(* entries.  Whoever follows it is sent each entry made from then on, once, *)
(* and gets them in their order for as long as it is there.  What reaches  *)
(* those who do not follow a room is left open.                            *)
(***************************************************************************)
EXTENDS Integers

CONSTANTS
    Readers,   \* all who may ever come
    Rooms

VARIABLES
    present,   \* who is there
    said,      \* room -> entries made
    heard,     \* reader -> room -> the last entry it knows, 0 if it does
               \* not follow the room
    mail       \* reader -> room -> entries on their way to it

feedVars == <<present, said, heard, mail>>

FeedInit ==
    /\ present = {}
    /\ said = [r \in Rooms |-> 0]
    /\ heard = [c \in Readers |-> [r \in Rooms |-> 0]]
    /\ mail = [c \in Readers |-> [r \in Rooms |-> {}]]

Follows(c, r) == heard[c][r] # 0

Come(c) ==
    /\ c \notin present /\ \A r \in Rooms : ~Follows(c, r)
    /\ present' = present \cup {c}
    /\ UNCHANGED <<said, heard, mail>>

(* What was on its way to c is lost. *)
Go(c) ==
    /\ c \in present
    /\ present' = present \ {c}
    /\ mail' = [mail EXCEPT ![c] = [r \in Rooms |-> {}]]
    /\ UNCHANGED <<said, heard>>

(* The first entry tells of the room itself.  Whoever made the room need    *)
(* not be told, and may have no place in it.                                *)
Open(r) ==
    /\ said[r] = 0
    /\ said' = [said EXCEPT ![r] = 1]
    /\ \/ heard' = heard
       \/ \E c \in Readers : heard' = [heard EXCEPT ![c][r] = 1]
    /\ UNCHANGED <<present, mail>>

(* The next entry of room r goes to all who follow the room from now on. *)
Enter(r) ==
    /\ said[r] # 0
    /\ said' = [said EXCEPT ![r] = @ + 1]
    /\ mail' = [c \in Readers |->
                   [mail[c] EXCEPT ![r] = IF c \in present /\ heard'[c][r] # 0
                                          THEN @ \cup {said[r] + 1} ELSE @]]
    /\ UNCHANGED present

Say(r) == Enter(r) /\ UNCHANGED heard

(* The entry tells of c, and c is told as well. *)
Join(c, r) ==
    /\ ~Follows(c, r)
    /\ heard' = [heard EXCEPT ![c][r] = said[r]]
    /\ Enter(r)

Hear(c, r) ==
    \E n \in mail[c][r] :
        /\ \A k \in mail[c][r] : n <= k
        /\ heard' = [heard EXCEPT ![c][r] = n]
        /\ mail' = [mail EXCEPT ![c][r] = @ \ {n}]
        /\ UNCHANGED <<present, said>>

FeedNext ==
    \/ \E c \in Readers : Come(c) \/ Go(c)
    \/ \E r \in Rooms : Open(r) \/ Say(r)
    \/ \E c \in Readers, r \in Rooms : Join(c, r) \/ Hear(c, r)

FeedSpec == FeedInit /\ [][FeedNext]_feedVars
=============================================================================
