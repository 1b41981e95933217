--------------------------- MODULE BitRequestList ---------------------------
(***************************************************************************)
(* BitRequestList, the list of requests that the download dispatcher and   *)
(* every connection keep: a std::list of <index, begin, length>.  Here it  *)
(* is a sequence, and the loops that splice or erase some of its elements  *)
(* keep the elements at a set of positions.                                *)
(***************************************************************************)
EXTENDS Integers, Sequences, FiniteSets

\* The elements of s at the positions I, in order.
Pick(s, I) ==
  [k \in 1 .. Cardinality(I) |->
     s[CHOOSE i \in I : Cardinality({j \in I : j <= i}) = k]]

\* FindRequest and Erase: the first element that is r, if there is one, goes.
EraseFirst(s, r) ==
  Pick(s, {i \in DOMAIN s : s[i] # r \/ \E j \in 1 .. i - 1 : s[j] = r})

\* DelRequest: std::list::remove, which removes every equal element.
DelRequest(s, r) == Pick(s, {i \in DOMAIN s : s[i] # r})

=============================================================================
