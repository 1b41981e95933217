---------------------------- MODULE MCBitDownload ----------------------------
(* Instances of BitDownload for TLC.                                        *)
EXTENDS BitDownload, TLC

CONSTANTS c1, c2

Symmetry == Permutations(Peers)
=============================================================================
