----------------------------- MODULE BitLayout ------------------------------
(***************************************************************************)
(* The files of a torrent follow each other without a gap, and its pieces  *)
(* lie across them.                                                        *)
(***************************************************************************)
EXTENDS Integers, Sequences

CONSTANTS PieceLength

\* Where the files end, one after the other; the first begins at 0.
Boundaries(lengths) ==
  LET boundary[i \in 0 .. Len(lengths)] ==
        IF i = 0 THEN 0 ELSE boundary[i - 1] + lengths[i]
  IN  boundary
=============================================================================
