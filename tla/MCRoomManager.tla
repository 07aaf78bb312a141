--------------------------- MODULE MCRoomManager ---------------------------
(* Small instances of RoomManager for TLC. *)
EXTENDS RoomManager, TLC

FdSymmetry == Permutations(Fds)

(* Texts that name nobody, or the AI. *)
Texts1 == {{}}
Texts2 == {{}, {"bot"}}

(* Two seats beside the AI's, of which a count of 2 leaves no more than the *)
(* code gives out; the same without an AI; and JSON that does not parse.    *)
WithAI    == [ok |-> TRUE, max |-> 2, roles |-> <<"cat", "bot", "dog">>,
              ai |-> <<"bot">>]
WithoutAI == [ok |-> TRUE, max |-> 2, roles |-> <<"cat", "dog">>, ai |-> <<>>]
Unread    == [ok |-> FALSE, max |-> 2, roles |-> <<>>, ai |-> <<>>]

(* The AI has the first seat, where the creator is put; the count is        *)
(* negative, and so no limit; or zero, so that nobody ever enters.          *)
AIFirst   == [ok |-> TRUE, max |-> -1, roles |-> <<"bot", "cat">>, ai |-> <<"bot">>]
Nobody    == [ok |-> TRUE, max |-> 0, roles |-> <<"cat">>, ai |-> <<>>]

TalkRooms == {WithAI, WithoutAI}
AnyRooms  == {WithAI, AIFirst, Nobody, Unread}
=============================================================================
