--------------------------- MODULE MCAsyncChannel ---------------------------
(* Instances of AsyncChannel for TLC. *)
EXTENDS AsyncChannel

CONSTANTS c1, c2, f1, f2, f3

(* A channel without a buffer and one with room for a message. *)
TwoChans == {c1, c2}
Mixed == [c \in TwoChans |-> IF c = c1 THEN 0 ELSE 1]

OneChan == {c1}
Unbuffered == [c \in OneChan |-> 0]

(* The channel without a buffer is the first of a group. *)
MCRank == [c \in Chans |-> IF c = c1 THEN 0 ELSE 1]

(* The fibers without a group are interchangeable. *)
PlainFibers == Permutations(Fibers \ Grouped)
=============================================================================
