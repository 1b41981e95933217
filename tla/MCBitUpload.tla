---------------------------- MODULE MCBitUpload ----------------------------
(* Instances of BitUpload for TLC.                                        *)
EXTENDS BitUpload

CONSTANTS c1, c2, r1, r2

\* Everybody may ask for everything.
AskAll == [c \in Conns |-> Requests]

\* c1 and c2 ask for different blocks.
AskApart == [c \in Conns |-> IF c = c1 THEN {r1} ELSE {r2}]
=============================================================================
