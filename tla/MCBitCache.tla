----------------------------- MODULE MCBitCache -----------------------------
(* Instances of BitCache for TLC.                                          *)
EXTENDS BitCache, TLC

CONSTANTS p1, b1

\* Every piece in one file.
OneFile == [p \in Pieces |-> <<Blocks>>]

\* p1 begins in one file and ends in another, with an empty file between them;
\* the other pieces lie in one file.
Straddling ==
  [p \in Pieces |-> IF p = p1 THEN <<{b1}, {}, Blocks \ {b1}>> ELSE <<Blocks>>]

Symmetry == Permutations(Objs)
=============================================================================
