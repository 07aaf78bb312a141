------------------------------ MODULE MCFrames ------------------------------
(* Small instances of Frames for TLC. *)
EXTENDS Frames

(* No text, one that looks like a header, and one that is too long. *)
NoText == <<>>
Tricky == {<<Magic, 4>>, <<Magic, 4, 0, Magic, 4, 0>>}
=============================================================================
