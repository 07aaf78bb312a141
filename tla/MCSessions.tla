----------------------------- MODULE MCSessions -----------------------------
(* Small instances of Sessions for TLC. *)
EXTENDS Sessions, TLC

CONSTANTS r1, r2, s1, s2, ann, bob

(* Two connections, each served by a reactor of its own. *)
TwoLoops == s1 :> r1 @@ s2 :> r2

(* Connections change places together with their reactors; and names. *)
Swap == s1 :> s2 @@ s2 :> s1 @@ r1 :> r2 @@ r2 :> r1
Same == [x \in {s1, s2, r1, r2} |-> x]
SessionSymmetry == {p @@ q : p \in {Swap, Same}, q \in Permutations(Names)}
=============================================================================
