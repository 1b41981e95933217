----------------------------- MODULE MCBitPeers -----------------------------
(* Two connection objects, two peers a tracker names.  Both are symmetric;   *)
(* every property is a safety property.                                      *)
EXTENDS BitPeers, TLC
Symmetry == Permutations(Conns) \cup Permutations(Infos)
=============================================================================
