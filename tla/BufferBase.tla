----------------------------- MODULE BufferBase -----------------------------
(***************************************************************************)
(* What CircularBuffer and the queue it implements have in common: their   *)
(* parameters, and the values operations take and return.                  *)
(***************************************************************************)
EXTENDS Integers, Sequences

CONSTANTS
    Cap,       \* size given to Allocate
    Bytes,     \* values of a byte
    MaxBlock   \* bound: longest block written

ASSUME BufferAssumption == Cap \in Nat \ {0} /\ MaxBlock \in Nat

Blocks == UNION {[1 .. n -> Bytes] : n \in 1 .. MaxBlock}

(* A bool with the bytes copied out, or a number of bytes. *)
Done(data) == [ok |-> TRUE, data |-> data, size |-> Len(data)]
Refused    == [ok |-> FALSE, data |-> <<>>, size |-> 0]
Number(n)  == [ok |-> TRUE, data |-> <<>>, size |-> n]
Replies    == [ok : BOOLEAN, data : Seq(Bytes), size : Nat]

Least(m, n) == IF m < n THEN m ELSE n
=============================================================================
