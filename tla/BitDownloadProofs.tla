------------------------- MODULE BitDownloadProofs -------------------------
(***************************************************************************)
(* BitDownload keeps its limits and its requests, for every number of      *)
(* connections, pieces and blocks, and every way the peers may misbehave.  *)
(*                                                                         *)
(* The operators on the lists of a handler are reasoned about one by one:  *)
(* each Moves requests of one connection c between the scattered requests  *)
(* and the two lists of c, adds those of the pieces it begins, and leaves  *)
(* the other connections alone.  Moves is transitive, so a handler that    *)
(* calls several of them Moves as well.                                    *)
(***************************************************************************)
EXTENDS BitDownload, BitRequestListProofs

-----------------------------------------------------------------------------
(* What a handler does to the lists. *)

ListRecords ==
  [scattered : Seq(Request), downloading : SUBSET Pieces,
   wait : [Peers -> Seq(Request)], requesting : [Peers -> Seq(Request)],
   timeOuts : [Peers -> Seq(Request)]]

\* The requests that c holds, and those of the dispatcher besides.
Own(d, c) == Range(d.wait[c]) \cup Range(d.requesting[c])
Serving(d, c) == Range(d.scattered) \cup Own(d, c)

\* No request of c is anywhere twice, and all are of pieces that have begun.
Tidy(d, c) ==
  /\ IsInjective(d.scattered) /\ IsInjective(d.wait[c]) /\ IsInjective(d.requesting[c])
  /\ Range(d.scattered) \cap Own(d, c) = {}
  /\ Range(d.wait[c]) \cap Range(d.requesting[c]) = {}
  /\ \A r \in Serving(d, c) : r[1] \in d.downloading

\* The requests of the pieces begun from d to e.
Begun(d, e) == {r \in Request : r[1] \in e.downloading \ d.downloading}

Moves(d, e, c) ==
  /\ e \in ListRecords
  /\ d.downloading \subseteq e.downloading
  /\ e.downloading \cap downloaded \subseteq d.downloading
  /\ \A x \in Peers \ {c} : /\ e.wait[x] = d.wait[x] /\ e.requesting[x] = d.requesting[x]
                            /\ e.timeOuts[x] = d.timeOuts[x]
  /\ Serving(d, c) \subseteq Serving(e, c) /\ Begun(d, e) \subseteq Serving(e, c)
  /\ ~endMode => /\ Serving(e, c) \subseteq Serving(d, c) \cup Begun(d, e)
                 /\ Tidy(d, c) => Tidy(e, c)
  /\ d.timeOuts[c] = d.requesting[c] => e.timeOuts[c] = e.requesting[c]

\* A handler that changes no list moves nothing.
LEMMA MovesReflexive ==
  ASSUME NEW d \in ListRecords, NEW c \in Peers
  PROVE  Moves(d, d, c)
BY DEF Moves, Begun

\* What is moved twice is moved: a handler may call several others.
LEMMA MovesTransitive ==
  ASSUME NEW d \in ListRecords, NEW e, NEW f, NEW c \in Peers, Moves(d, e, c), Moves(e, f, c)
  PROVE  Moves(d, f, c)
<1>1. d.downloading \subseteq e.downloading /\ e.downloading \subseteq f.downloading
  BY DEF Moves
<1>2. Begun(d, f) = Begun(d, e) \cup Begun(e, f)
  BY <1>1 DEF Begun
<1>3. Serving(d, c) \cup Begun(d, f) \subseteq Serving(f, c)
  BY <1>2 DEF Moves
<1>4. ~endMode => /\ Serving(f, c) \subseteq Serving(d, c) \cup Begun(d, f)
                  /\ Tidy(d, c) => Tidy(f, c)
  BY <1>2 DEF Moves
<1>5. \A x \in Peers \ {c} : /\ f.wait[x] = d.wait[x] /\ f.requesting[x] = d.requesting[x]
                             /\ f.timeOuts[x] = d.timeOuts[x]
  BY DEF Moves
<1>6. f \in ListRecords /\ f.downloading \cap downloaded \subseteq d.downloading
  BY DEF Moves
<1>7. d.timeOuts[c] = d.requesting[c] => f.timeOuts[c] = f.requesting[c]
  BY DEF Moves
<1> QED BY <1>1, <1>3, <1>4, <1>5, <1>6, <1>7 DEF Moves

\* The fields of a record of lists.
LEMMA ListFields ==
  ASSUME NEW d \in ListRecords, NEW c \in Peers
  PROVE  /\ d.scattered \in Seq(Request) /\ d.downloading \in SUBSET Pieces
         /\ d.wait \in [Peers -> Seq(Request)] /\ d.wait[c] \in Seq(Request)
         /\ d.requesting \in [Peers -> Seq(Request)] /\ d.requesting[c] \in Seq(Request)
         /\ d.timeOuts \in [Peers -> Seq(Request)] /\ d.timeOuts[c] \in Seq(Request)
BY DEF ListRecords

-----------------------------------------------------------------------------
(* The dispatcher. *)

\* All requests of a piece, each once (BitDownloadDispatcher.cpp:199-208).
LEMMA RequestsOfProperties ==
  ASSUME NEW p \in Pieces
  PROVE  /\ RequestsOf(p) \in Seq(Request) /\ Len(RequestsOf(p)) = BlockCount
         /\ IsInjective(RequestsOf(p))
         /\ Range(RequestsOf(p)) = {r \in Request : r[1] = p}
<1> DEFINE s == RequestsOf(p)
<1>1. BlockCount \in Nat /\ s = [b \in 1 .. BlockCount |-> <<p, b>>]
  BY ConstantsAssumption DEF RequestsOf, Blocks
<1> HIDE DEF s
<1>2. \A b \in 1 .. BlockCount : <<p, b>> \in Request
  BY DEF Request, Blocks
<1>3. s \in [1 .. BlockCount -> Request]
  BY <1>1, <1>2
<1>4. s \in Seq(Request)
  BY <1>1, <1>3, SeqDef
<1>5. DOMAIN s = 1 .. BlockCount /\ Len(s) = BlockCount
  BY <1>1, <1>4, LenProperties
<1>6. IsInjective(s)
  BY <1>1 DEF IsInjective
<1>7. Range(s) = {r \in Request : r[1] = p}
  <2>1. ASSUME NEW r \in Request, r[1] = p
        PROVE  \E b \in 1 .. BlockCount : s[b] = r
    <3>1. PICK q \in Pieces, b \in 1 .. BlockCount : r = <<q, b>>
      BY DEF Request, Blocks
    <3>2. s[b] = r
      BY <1>1, <2>1, <3>1
    <3> QED BY <3>2
  <2>2. \A b \in 1 .. BlockCount : s[b] \in Request /\ s[b][1] = p
    BY <1>1, <1>2
  <2> QED BY <1>5, <2>1, <2>2 DEF Range
<1> QED BY <1>4, <1>5, <1>6, <1>7 DEF s

\* A set of naturals up to n that is not empty has a largest element.
LEMMA Largest ==
  ASSUME NEW n \in Nat, NEW I \in SUBSET (1 .. n), I # {}
  PROVE  \E m \in I : \A i \in I : i <= m
<1> DEFINE T == {n - i : i \in I}
<1>1. \A i \in I : i \in Int /\ 1 <= i /\ i <= n
  OBVIOUS
<1>2. T \in SUBSET Nat /\ T # {}
  <2>1. \A i \in I : n - i \in Nat
    BY <1>1
  <2> QED BY <2>1
<1>3. PICK k \in T : \A m \in T : k <= m
  <2> HIDE DEF T
  <2> QED BY <1>2, Smallest
<1>4. PICK m \in I : k = n - m
  OBVIOUS
<1>5. \A i \in I : n - m <= n - i
  BY <1>3, <1>4
<1>6. \A i \in I : i <= m
  BY <1>1, <1>5
<1> QED BY <1>6

\* The positions of the first l elements of a set are at most l.
LEMMA FirstAreFew ==
  ASSUME NEW n \in Nat, NEW I \in SUBSET (1 .. n), NEW l \in Nat
  PROVE  Cardinality({i \in I : Cardinality({j \in I : j <= i}) <= l}) <= l
<1> DEFINE F == {i \in I : Cardinality({j \in I : j <= i}) <= l}
<1>1. CASE F = {}
  <2>1. Cardinality(F) = 0
    BY <1>1, FS_EmptySet
  <2> QED BY <2>1
<1>2. CASE F # {}
  <2>1. F \in SUBSET (1 .. n)
    OBVIOUS
  <2>2. PICK m \in F : \A i \in F : i <= m
    <3> HIDE DEF F
    <3> QED BY <1>2, <2>1, Largest
  <2>3. F \subseteq UpTo(I, m)
    BY <2>2 DEF UpTo
  <2>4. m \in I /\ m \in Int /\ Cardinality(UpTo(I, m)) <= l
    BY DEF UpTo
  <2>5. IsFiniteSet(UpTo(I, m)) /\ Cardinality(UpTo(I, m)) \in Nat
    BY <2>4, UpToCount
  <2>6. Cardinality(F) <= Cardinality(UpTo(I, m)) /\ Cardinality(F) \in Nat
    <3> HIDE DEF F
    <3> QED BY <2>3, <2>5, FS_Subset, FS_CardinalityType
  <2> QED BY <2>4, <2>5, <2>6
<1> QED BY <1>1, <1>2

\* What DispatchScatteredRequest hands on it takes from the scattered requests,
\* or leaves there besides in end mode (BitDownloadDispatcher.cpp:140-171).
LEMMA DispatchScatteredMoves ==
  ASSUME NEW d \in ListRecords, NEW c \in Peers, NEW h
  PROVE  /\ Moves(d, DispatchScattered(d, c, h), c)
         /\ DispatchScattered(d, c, h).downloading = d.downloading
         /\ DispatchScattered(d, c, h).requesting = d.requesting
         /\ Len(DispatchScattered(d, c, h).wait[c]) <= Len(d.wait[c]) + BlockCount
<1> DEFINE s == d.scattered
           served == {i \in DOMAIN s : s[i][1] \in h}
           first == {i \in served : Cardinality({j \in served : j <= i}) <= BlockCount}
           A == Pick(s, first)
           B == Pick(s, DOMAIN s \ first)
           w == d.wait[c]
           e == DispatchScattered(d, c, h)
<1>1. /\ s \in Seq(Request) /\ w \in Seq(Request)
      /\ d.wait \in [Peers -> Seq(Request)] /\ first \in SUBSET DOMAIN s
      /\ DOMAIN s \ first \in SUBSET DOMAIN s
  BY ListFields
<1>2. e = [d EXCEPT !.wait[c] = @ \o A, !.scattered = IF endMode THEN B \o A ELSE B]
  BY DEF DispatchScattered
<1>3. Cardinality(first) <= BlockCount
  <2>1. Len(s) \in Nat /\ DOMAIN s = 1 .. Len(s)
    BY <1>1, LenProperties
  <2>2. served \in SUBSET (1 .. Len(s))
    BY <2>1
  <2>3. BlockCount \in Nat
    BY ConstantsAssumption
  <2> HIDE DEF served
  <2> QED BY <2>1, <2>2, <2>3, FirstAreFew
<1>4. /\ A \in Seq(Request) /\ B \in Seq(Request)
      /\ Len(A) <= BlockCount /\ Len(A) \in Nat
      /\ Range(A) \cup Range(B) = Range(s)
      /\ IsInjective(s) => /\ IsInjective(A) /\ IsInjective(B)
                           /\ Range(A) \cap Range(B) = {}
  <2> HIDE DEF first, s
  <2>1. /\ A \in Seq(Request) /\ Len(A) = Cardinality(first) /\ Cardinality(first) \in Nat
        /\ IsInjective(s) => IsInjective(A)
    BY <1>1, PickRange
  <2>2. /\ B \in Seq(Request)
        /\ IsInjective(s) => IsInjective(B)
    BY <1>1, PickRange
  <2>3. /\ Range(A) \cup Range(B) = Range(s)
        /\ IsInjective(s) => Range(A) \cap Range(B) = {}
    BY <1>1, PickSplit
  <2> HIDE DEF A, B
  <2> QED BY <1>3, <2>1, <2>2, <2>3
<1> HIDE DEF first, served, A, B, e
<1>5. /\ w \o A \in Seq(Request) /\ Len(w \o A) <= Len(w) + BlockCount
      /\ Range(w \o A) = Range(w) \cup Range(A)
      /\ IsInjective(w) /\ IsInjective(A) /\ Range(w) \cap Range(A) = {}
           => IsInjective(w \o A)
  <2>1. Len(w) \in Nat /\ BlockCount \in Nat
    BY <1>1, LenProperties, ConstantsAssumption
  <2>2. Len(w \o A) = Len(w) + Len(A)
    BY <1>1, <1>4, ConcatRange
  <2>3. Len(w \o A) <= Len(w) + BlockCount
    BY <1>4, <2>1, <2>2
  <2> QED BY <1>1, <1>4, <2>3, ConcatRange
<1>6. B \o A \in Seq(Request) /\ Range(B \o A) = Range(B) \cup Range(A)
  BY <1>4, ConcatRange
<1>7. /\ e.downloading = d.downloading /\ e.requesting = d.requesting
      /\ e.timeOuts = d.timeOuts /\ e.wait = [d.wait EXCEPT ![c] = w \o A]
      /\ e.scattered = (IF endMode THEN B \o A ELSE B)
  BY <1>2 DEF ListRecords
<1>8. e \in ListRecords
  <2>1. e.wait \in [Peers -> Seq(Request)] /\ e.scattered \in Seq(Request)
    BY <1>1, <1>4, <1>5, <1>6, <1>7
  <2>2. e = [scattered |-> e.scattered, downloading |-> e.downloading, wait |-> e.wait,
             requesting |-> e.requesting, timeOuts |-> e.timeOuts]
    BY <1>2 DEF ListRecords
  <2> QED BY <1>7, <2>1, <2>2 DEF ListRecords
<1>9. e.wait[c] = w \o A /\ \A x \in Peers \ {c} : e.wait[x] = d.wait[x]
  BY <1>1, <1>7
<1>10. Begun(d, e) = {}
  BY <1>7 DEF Begun
<1>11. Serving(e, c) = Serving(d, c)
  <2>1. Range(e.scattered) \cup Range(A) = Range(s)
    BY <1>4, <1>6, <1>7
  <2>2. Own(e, c) = Range(w) \cup Range(A) \cup Range(d.requesting[c])
    BY <1>5, <1>7, <1>9 DEF Own
  <2> QED BY <1>4, <2>1, <2>2 DEF Serving, Own
<1>12. ASSUME ~endMode, Tidy(d, c) PROVE Tidy(e, c)
  <2>1. /\ IsInjective(s) /\ IsInjective(w) /\ IsInjective(d.requesting[c])
        /\ Range(s) \cap (Range(w) \cup Range(d.requesting[c])) = {}
        /\ Range(w) \cap Range(d.requesting[c]) = {}
    BY <1>12 DEF Tidy, Own
  <2>2. e.scattered = B /\ IsInjective(B)
    BY <1>4, <1>7, <1>12, <2>1
  <2>3. IsInjective(w \o A)
    BY <1>4, <1>5, <2>1
  <2>4. Range(B) \cap Own(e, c) = {}
    BY <1>4, <1>5, <1>7, <1>9, <2>1 DEF Own
  <2>5. Range(w \o A) \cap Range(d.requesting[c]) = {}
    BY <1>4, <1>5, <2>1
  <2>6. \A r \in Serving(e, c) : r[1] \in e.downloading
    BY <1>7, <1>11, <1>12 DEF Tidy
  <2> QED BY <1>7, <1>9, <2>1, <2>2, <2>3, <2>4, <2>5, <2>6 DEF Tidy
<1>13. Moves(d, e, c)
  BY <1>7, <1>8, <1>9, <1>10, <1>11, <1>12 DEF Moves
<1> QED BY <1>5, <1>7, <1>9, <1>13 DEF e

\* The searcher finds a piece that nobody has begun, if there is one
\* (BitDownloadDispatcher.cpp:23-76).
LEMMA SearchFinds ==
  ASSUME NEW d, NEW h, Candidates(d, h) # {}
  PROVE  /\ Search(d, h) \in Pieces
         /\ Search(d, h) \notin downloaded \cup d.downloading
<1>1. Candidates(d, h) \in SUBSET Nat
  BY ConstantsAssumption DEF Candidates, Pieces
<1>2. \E p \in Candidates(d, h) : \A q \in Candidates(d, h) : p <= q
  <2> DEFINE T == Candidates(d, h)
  <2> HIDE DEF T
  <2>1. T \in SUBSET Nat /\ T # {}
    BY <1>1 DEF T
  <2>2. \E p \in T : \A q \in T : p <= q
    BY <2>1, Smallest
  <2> QED BY <2>2 DEF T
<1>3. Search(d, h) \in Candidates(d, h)
  BY <1>2 DEF Search
<1> QED BY <1>3 DEF Candidates

\* A new piece adds its requests to the waiting list of c, or in end mode to
\* the scattered requests (BitDownloadDispatcher.cpp:173-197).
LEMMA DispatchNewMoves ==
  ASSUME NEW d \in ListRecords, NEW c \in Peers, NEW h
  PROVE  /\ Moves(d, DispatchNew(d, c, h), c)
         /\ DispatchNew(d, c, h).requesting = d.requesting
         /\ Len(DispatchNew(d, c, h).wait[c]) <= Len(d.wait[c]) + BlockCount
<1> DEFINE e == DispatchNew(d, c, h)
<1>0. BlockCount \in Nat /\ Len(d.wait[c]) \in Nat
  BY ListFields, LenProperties, ConstantsAssumption
<1>1. CASE Candidates(d, h) = {}
  <2>1. e = d
    BY <1>1 DEF DispatchNew
  <2> HIDE DEF e
  <2> QED BY <1>0, <2>1, MovesReflexive DEF e
<1>2. CASE Candidates(d, h) # {}
  <2> DEFINE p == Search(d, h)
             l == RequestsOf(p)
             d1 == [d EXCEPT !.downloading = @ \cup {p}]
             New == {r \in Request : r[1] = p}
  <2>1. p \in Pieces /\ p \notin downloaded \cup d.downloading
    BY <1>2, SearchFinds
  <2>2. /\ l \in Seq(Request) /\ Len(l) = BlockCount /\ IsInjective(l)
        /\ Range(l) = New
    BY <2>1, RequestsOfProperties
  <2>3. e = IF endMode THEN DispatchScattered([d1 EXCEPT !.scattered = @ \o l], c, h)
                       ELSE [d1 EXCEPT !.wait[c] = @ \o l]
    BY <1>2 DEF DispatchNew
  <2> HIDE DEF p, l
  <2>4. CASE endMode
    <3> DEFINE f == [d1 EXCEPT !.scattered = @ \o l]
    <3>1. d.scattered \o l \in Seq(Request)
          /\ Range(d.scattered \o l) = Range(d.scattered) \cup New
      BY <2>2, ListFields, ConcatRange
    <3>2. /\ f.scattered = d.scattered \o l /\ f.downloading = d.downloading \cup {p}
          /\ f.wait = d.wait /\ f.requesting = d.requesting /\ f.timeOuts = d.timeOuts
          /\ f \in ListRecords
      BY <2>1, <3>1 DEF ListRecords
    <3> HIDE DEF f
    <3>3. Begun(d, f) = New
      BY <2>1, <3>2 DEF Begun
    <3>4. Moves(d, f, c)
      BY <2>1, <2>4, <3>1, <3>2, <3>3 DEF Moves, Serving, Own
    <3> DEFINE g == DispatchScattered(f, c, h)
    <3>5. /\ Moves(f, g, c) /\ g.requesting = f.requesting
          /\ Len(g.wait[c]) <= Len(f.wait[c]) + BlockCount
      BY <3>2, DispatchScatteredMoves
    <3>6. e = g
      BY <2>3, <2>4 DEF f
    <3> HIDE DEF g, e
    <3>7. Moves(d, g, c)
      BY <3>4, <3>5, MovesTransitive
    <3> QED BY <3>2, <3>5, <3>6, <3>7 DEF e
  <2>5. CASE ~endMode
    <3> DEFINE w == d.wait[c]
    <3>1. e = [d1 EXCEPT !.wait[c] = @ \o l]
      BY <2>3, <2>5
    <3>2. w \in Seq(Request) /\ d.wait \in [Peers -> Seq(Request)]
      BY ListFields
    <3>3. /\ w \o l \in Seq(Request) /\ Len(w \o l) = Len(w) + BlockCount
          /\ Range(w \o l) = Range(w) \cup New
          /\ IsInjective(w) /\ Range(w) \cap New = {} => IsInjective(w \o l)
      <4> HIDE DEF e, w, New
      <4>1. /\ w \o l \in Seq(Request) /\ Len(w \o l) = Len(w) + Len(l)
            /\ Range(w \o l) = Range(w) \cup Range(l)
            /\ IsInjective(w) /\ IsInjective(l) /\ Range(w) \cap Range(l) = {}
                 => IsInjective(w \o l)
        BY <2>2, <3>2, ConcatRange
      <4> QED BY <2>2, <4>1
    <3> HIDE DEF e
    <3>4. /\ e.scattered = d.scattered /\ e.downloading = d.downloading \cup {p}
          /\ e.requesting = d.requesting /\ e.timeOuts = d.timeOuts
          /\ e.wait = [d.wait EXCEPT ![c] = w \o l]
      BY <3>1 DEF ListRecords
    <3>5. e \in ListRecords
      <4>1. e.wait \in [Peers -> Seq(Request)]
        BY <3>2, <3>3, <3>4
      <4>2. e = [scattered |-> e.scattered, downloading |-> e.downloading,
                 wait |-> e.wait, requesting |-> e.requesting, timeOuts |-> e.timeOuts]
        BY <3>1 DEF ListRecords
      <4> QED BY <2>1, <3>4, <4>1, <4>2 DEF ListRecords
    <3>6. e.wait[c] = w \o l /\ \A x \in Peers \ {c} : e.wait[x] = d.wait[x]
      BY <3>2, <3>4
    <3>7. Begun(d, e) = New
      BY <2>1, <3>4 DEF Begun
    <3>8. Own(e, c) = Own(d, c) \cup New
      BY <3>3, <3>4, <3>6 DEF Own
    <3>9. Serving(e, c) = Serving(d, c) \cup New
      BY <3>4, <3>8 DEF Serving
    <3>10. ASSUME Tidy(d, c) PROVE Tidy(e, c)
      <4>1. Serving(d, c) \cap New = {}
        BY <2>1, <3>10 DEF Tidy
      <4>2. Range(w) \cap New = {} /\ Range(d.scattered) \cap New = {}
            /\ Range(d.requesting[c]) \cap New = {}
        BY <4>1 DEF Serving, Own
      <4>3. IsInjective(e.wait[c])
        BY <3>3, <3>6, <3>10, <4>2 DEF Tidy
      <4>4. Range(e.scattered) \cap Own(e, c) = {}
        BY <3>4, <3>8, <3>10, <4>2 DEF Tidy
      <4>5. Range(e.wait[c]) \cap Range(e.requesting[c]) = {}
        BY <3>3, <3>4, <3>6, <3>10, <4>2 DEF Tidy
      <4>6. \A r \in Serving(e, c) : r[1] \in e.downloading
        BY <3>4, <3>9, <3>10 DEF Tidy
      <4> QED BY <3>4, <3>10, <4>3, <4>4, <4>5, <4>6 DEF Tidy
    <3>11. Moves(d, e, c)
      BY <2>1, <3>4, <3>5, <3>6, <3>7, <3>9, <3>10 DEF Moves
    <3> QED BY <1>0, <3>3, <3>4, <3>6, <3>11 DEF e
  <2> QED BY <2>4, <2>5
<1> QED BY <1>1, <1>2

\* DispatchRequestList: scattered requests first, a new piece when they are few;
\* an empty waiting list stays below two pieces (BitDownloadDispatcher.cpp:104-114).
LEMMA DispatchRequestListMoves ==
  ASSUME NEW d \in ListRecords, NEW c \in Peers, NEW h
  PROVE  /\ Moves(d, DispatchRequestList(d, c, h), c)
         /\ DispatchRequestList(d, c, h).requesting = d.requesting
         /\ d.wait[c] = <<>> => Len(DispatchRequestList(d, c, h).wait[c]) < 2 * BlockCount
<1> DEFINE e == IF d.scattered # <<>> THEN DispatchScattered(d, c, h) ELSE d
           f == DispatchNew(e, c, h)
           g == DispatchRequestList(d, c, h)
<1>0. BlockCount \in Nat \ {0} /\ Len(d.wait[c]) \in Nat
  BY ListFields, LenProperties, ConstantsAssumption
<1>1. /\ Moves(d, e, c) /\ e.requesting = d.requesting
      /\ Len(e.wait[c]) <= Len(d.wait[c]) + BlockCount
  <2>1. CASE d.scattered # <<>>
    BY <2>1, DispatchScatteredMoves
  <2>2. CASE d.scattered = <<>>
    BY <1>0, <2>2, MovesReflexive
  <2> QED BY <2>1, <2>2
<1>2. g = IF Len(e.wait[c]) < BlockCount THEN f ELSE e
  BY DEF DispatchRequestList
<1> HIDE DEF e, g
<1>3. e \in ListRecords
  BY <1>1 DEF Moves
<1>4. /\ Moves(e, f, c) /\ f.requesting = e.requesting
      /\ Len(f.wait[c]) <= Len(e.wait[c]) + BlockCount
  BY <1>3, DispatchNewMoves
<1> HIDE DEF f
<1>5. Moves(d, f, c) /\ f \in ListRecords
  BY <1>1, <1>4, MovesTransitive DEF Moves
<1>6. Len(e.wait[c]) \in Nat /\ Len(f.wait[c]) \in Nat
  BY <1>3, <1>5, ListFields, LenProperties
<1>7. ASSUME d.wait[c] = <<>> PROVE Len(g.wait[c]) < 2 * BlockCount
  <2>1. Len(d.wait[c]) = 0
    BY <1>7, EmptySeq
  <2>2. Len(e.wait[c]) <= BlockCount
    BY <1>0, <1>1, <2>1
  <2>3. CASE Len(e.wait[c]) < BlockCount
    BY <1>0, <1>2, <1>4, <1>6, <2>3
  <2>4. CASE ~(Len(e.wait[c]) < BlockCount)
    BY <1>0, <1>2, <1>6, <2>2, <2>4
  <2> QED BY <2>3, <2>4
<1>8. Moves(d, g, c) /\ g.requesting = d.requesting
  BY <1>1, <1>2, <1>4, <1>5
<1> QED BY <1>7, <1>8 DEF g

-----------------------------------------------------------------------------
(* A connection. *)

\* The limits of one connection's lists.
Bounded(d, c) ==
  Len(d.requesting[c]) <= MaxOutstanding /\ Len(d.wait[c]) < 2 * BlockCount

\* Requests go from the waiting to the outstanding ones, up to the limit, and
\* get their timers (BitPeerConnection.cpp:570-593).
LEMMA RequestPieceBlockMoves ==
  ASSUME NEW d \in ListRecords, NEW c \in Peers, NEW h, NEW i, NEW ch
  PROVE  /\ Moves(d, RequestPieceBlock(d, c, h, i, ch), c)
         /\ ~i \/ ch => RequestPieceBlock(d, c, h, i, ch) = d
         /\ Bounded(d, c) => Bounded(RequestPieceBlock(d, c, h, i, ch), c)
<1> DEFINE d1 == IF d.wait[c] = <<>> THEN DispatchRequestList(d, c, h) ELSE d
           room == Room(Len(d1.requesting[c]))
           n == IF Len(d1.wait[c]) < room THEN Len(d1.wait[c]) ELSE room
           w == d1.wait[c]
           q == d1.requesting[c]
           u == SubSeq(w, 1, n)
           v == SubSeq(w, n + 1, Len(w))
           f == [d1 EXCEPT !.requesting[c] = @ \o u, !.wait[c] = SubSeq(@, n + 1, Len(@))]
           g == ApplyTimeOut(f, c, u)
           e == RequestPieceBlock(d, c, h, i, ch)
           Idle == ~i \/ ch \/ Len(d.requesting[c]) >= MaxOutstanding
<1>1. e = IF Idle THEN d ELSE g
  BY DEF RequestPieceBlock
<1>2. CASE Idle
  <2> HIDE DEF e, g
  <2>1. e = d
    BY <1>1, <1>2
  <2> QED BY <2>1, MovesReflexive DEF e
<1>3. CASE ~Idle
  <2>0. MaxOutstanding \in Nat /\ BlockCount \in Nat /\ Len(d.requesting[c]) \in Nat
    BY ListFields, LenProperties, ConstantsAssumption
  <2>1. /\ Moves(d, d1, c) /\ d1.requesting = d.requesting
        /\ Bounded(d, c) => Len(d1.wait[c]) < 2 * BlockCount
    <3>1. CASE d.wait[c] = <<>>
      BY <3>1, DispatchRequestListMoves
    <3>2. CASE d.wait[c] # <<>>
      BY <3>2, MovesReflexive DEF Bounded
    <3> QED BY <3>1, <3>2
  <2> HIDE DEF d1
  <2>2. d1 \in ListRecords
    BY <2>1 DEF Moves
  <2>3. /\ w \in Seq(Request) /\ q \in Seq(Request) /\ Len(w) \in Nat /\ Len(q) \in Nat
        /\ d1.wait \in [Peers -> Seq(Request)] /\ d1.requesting \in [Peers -> Seq(Request)]
        /\ d1.timeOuts \in [Peers -> Seq(Request)]
    BY <2>2, ListFields, LenProperties
  <2>4. Len(q) < MaxOutstanding
    <3>1. Len(q) = Len(d.requesting[c]) /\ ~(Len(d.requesting[c]) >= MaxOutstanding)
      BY <1>3, <2>1
    <3> QED BY <2>0, <3>1
  <2>5. n \in 0 .. Len(w) /\ n <= MaxOutstanding - Len(q)
    <3>1. room = MaxOutstanding - Len(q) /\ n = IF Len(w) < room THEN Len(w) ELSE room
      BY DEF Room
    <3> HIDE DEF room, n, w, q
    <3>2. room \in Nat /\ Len(w) \in Nat
      BY <2>0, <2>3, <2>4, <3>1
    <3> QED BY <3>1, <3>2
  <2> HIDE DEF n
  <2>6. /\ u \in Seq(Request) /\ Len(u) = n /\ v \in Seq(Request) /\ Len(v) = Len(w) - n
        /\ Range(u) \cup Range(v) = Range(w)
        /\ IsInjective(w) => /\ IsInjective(u) /\ IsInjective(v)
                             /\ Range(u) \cap Range(v) = {}
    <3> HIDE DEF w
    <3> QED BY <2>3, <2>5, SubSeqSplit
  <2>7. d1.timeOuts[c] \in Seq(Request)
    BY <2>3
  <2> HIDE DEF u
  <2>8. d1.timeOuts[c] \o u \in Seq(Request)
    BY <2>6, <2>7, ConcatRange
  <2>9. /\ q \o u \in Seq(Request) /\ Len(q \o u) = Len(q) + Len(u)
        /\ Range(q \o u) = Range(q) \cup Range(u)
        /\ IsInjective(q) /\ IsInjective(u) /\ Range(q) \cap Range(u) = {}
             => IsInjective(q \o u)
    <3> HIDE DEF q
    <3> QED BY <2>3, <2>6, ConcatRange
  <2>10. /\ g.scattered = d1.scattered /\ g.downloading = d1.downloading
         /\ g.requesting = [d1.requesting EXCEPT ![c] = q \o u]
         /\ g.wait = [d1.wait EXCEPT ![c] = v]
         /\ g.timeOuts = [d1.timeOuts EXCEPT ![c] = d1.timeOuts[c] \o u]
         /\ g = [scattered |-> g.scattered, downloading |-> g.downloading, wait |-> g.wait,
                 requesting |-> g.requesting, timeOuts |-> g.timeOuts]
    <3>1. /\ f.scattered = d1.scattered /\ f.downloading = d1.downloading
          /\ f.requesting = [d1.requesting EXCEPT ![c] = q \o u]
          /\ f.wait = [d1.wait EXCEPT ![c] = v] /\ f.timeOuts = d1.timeOuts
          /\ f = [scattered |-> f.scattered, downloading |-> f.downloading,
                  wait |-> f.wait, requesting |-> f.requesting, timeOuts |-> f.timeOuts]
      <4> DEFINE Q == [d1.requesting EXCEPT ![c] = q \o u]
                 W == [d1.wait EXCEPT ![c] = v]
      <4>1. f = [d1 EXCEPT !.requesting = Q, !.wait = W]
        OBVIOUS
      <4>2. d1 = [scattered |-> d1.scattered, downloading |-> d1.downloading,
                  wait |-> d1.wait, requesting |-> d1.requesting, timeOuts |-> d1.timeOuts]
        BY <2>2 DEF ListRecords
      <4> HIDE DEF Q, W, f
      <4>3. f = [scattered |-> d1.scattered, downloading |-> d1.downloading,
                 wait |-> W, requesting |-> Q, timeOuts |-> d1.timeOuts]
        BY <4>1, <4>2
      <4> QED BY <4>3 DEF Q, W
    <3>2. g = [f EXCEPT !.timeOuts[c] = @ \o u]
      BY DEF ApplyTimeOut
    <3> HIDE DEF f, g, v, q
    <3>3. g = [f EXCEPT !.timeOuts = [f.timeOuts EXCEPT ![c] = f.timeOuts[c] \o u]]
      BY <3>2
    <3> DEFINE t == [f.timeOuts EXCEPT ![c] = f.timeOuts[c] \o u]
    <3> HIDE DEF t
    <3>4. g = [f EXCEPT !.timeOuts = t]
      BY <3>3 DEF t
    <3>5. /\ g.scattered = f.scattered /\ g.downloading = f.downloading
          /\ g.requesting = f.requesting /\ g.wait = f.wait /\ g.timeOuts = t
          /\ g = [scattered |-> g.scattered, downloading |-> g.downloading,
                  wait |-> g.wait, requesting |-> g.requesting, timeOuts |-> g.timeOuts]
      BY <3>1, <3>4
    <3> QED BY <3>1, <3>5 DEF t
  <2> HIDE DEF g, v, w, q
  <2>12. g \in ListRecords
    <3>1. /\ g.wait \in [Peers -> Seq(Request)] /\ g.requesting \in [Peers -> Seq(Request)]
          /\ g.timeOuts \in [Peers -> Seq(Request)]
      BY SMTT(30), <2>3, <2>6, <2>8, <2>9, <2>10
    <3>2. g.scattered \in Seq(Request) /\ g.downloading \in SUBSET Pieces
      BY <2>2, <2>10, ListFields
    <3> QED BY <2>10, <3>1, <3>2 DEF ListRecords
  <2>13. /\ g.requesting[c] = q \o u /\ g.wait[c] = v /\ g.timeOuts[c] = d1.timeOuts[c] \o u
         /\ \A x \in Peers \ {c} : /\ g.wait[x] = d1.wait[x]
                                   /\ g.requesting[x] = d1.requesting[x]
                                   /\ g.timeOuts[x] = d1.timeOuts[x]
    BY <2>3, <2>10
  <2>14. Own(g, c) = Own(d1, c)
    <3>1. Range(g.requesting[c]) = Range(q) \cup Range(u) /\ Range(g.wait[c]) = Range(v)
      BY <2>9, <2>13
    <3> QED BY <2>6, <3>1 DEF Own, w, q
  <2>15. Serving(g, c) = Serving(d1, c) /\ Begun(d1, g) = {}
    BY <2>10, <2>14 DEF Serving, Begun
  <2>16. ASSUME Tidy(d1, c) PROVE Tidy(g, c)
    <3>1. /\ IsInjective(d1.scattered) /\ IsInjective(w) /\ IsInjective(q)
          /\ Range(w) \cap Range(q) = {}
      BY <2>16 DEF Tidy, w, q
    <3>2. IsInjective(g.wait[c]) /\ IsInjective(g.requesting[c])
      BY <2>6, <2>9, <2>13, <3>1
    <3>3. Range(g.wait[c]) \cap Range(g.requesting[c]) = {}
      BY <2>6, <2>9, <2>13, <3>1
    <3>4. Range(g.scattered) \cap Own(g, c) = {}
      BY <2>10, <2>14, <2>16 DEF Tidy
    <3>5. \A r \in Serving(g, c) : r[1] \in g.downloading
      BY <2>10, <2>15, <2>16 DEF Tidy
    <3> QED BY <2>10, <3>1, <3>2, <3>3, <3>4, <3>5 DEF Tidy
  <2>17. d1.timeOuts[c] = d1.requesting[c] => g.timeOuts[c] = g.requesting[c]
    BY <2>13 DEF q
  <2>18. Moves(d1, g, c)
    BY <2>10, <2>12, <2>13, <2>15, <2>16, <2>17 DEF Moves
  <2>19. Moves(d, g, c)
    BY <2>1, <2>18, MovesTransitive
  <2>20. Bounded(d, c) => Bounded(g, c)
    <3> SUFFICES ASSUME Bounded(d, c) PROVE Bounded(g, c)
      OBVIOUS
    <3>1. Len(g.requesting[c]) <= MaxOutstanding
      BY <2>0, <2>3, <2>5, <2>6, <2>9, <2>13
    <3>2. Len(w) < 2 * BlockCount
      BY <2>1 DEF w
    <3>3. Len(g.wait[c]) < 2 * BlockCount
      BY <2>0, <2>3, <2>5, <2>6, <2>13, <3>2
    <3> QED BY <3>1, <3>3 DEF Bounded
  <2>21. e = g
    BY <1>1, <1>3
  <2> HIDE DEF e
  <2> QED BY <1>3, <2>19, <2>20, <2>21 DEF e
<1> QED BY <1>2, <1>3

\* Deleting an outstanding request takes it from c, with its timer, and nothing
\* else (BitPeerConnection.cpp:625-629).
LEMMA DeleteOutStandingRemoves ==
  ASSUME NEW d \in ListRecords, NEW c \in Peers, NEW r,
         NEW e, e = DeleteOutStanding(d, c, r)
  PROVE  /\ e \in ListRecords
         /\ e.scattered = d.scattered /\ e.downloading = d.downloading /\ e.wait = d.wait
         /\ \A x \in Peers \ {c} :
              e.requesting[x] = d.requesting[x] /\ e.timeOuts[x] = d.timeOuts[x]
         /\ Serving(d, c) \ {r} \subseteq Serving(e, c)
         /\ Serving(e, c) \subseteq Serving(d, c)
         /\ Tidy(d, c) /\ r \in Range(d.requesting[c])
              => Tidy(e, c) /\ Serving(e, c) = Serving(d, c) \ {r}
         /\ Bounded(d, c) => Bounded(e, c)
         /\ d.timeOuts[c] = d.requesting[c] => e.timeOuts[c] = e.requesting[c]
<1> DEFINE q == d.requesting[c]
           t == d.timeOuts[c]
           q1 == EraseFirst(q, r)
           t1 == EraseFirst(t, r)
           Q == [d.requesting EXCEPT ![c] = q1]
           T == [d.timeOuts EXCEPT ![c] = t1]
<1>1. /\ q \in Seq(Request) /\ t \in Seq(Request)
      /\ d.requesting \in [Peers -> Seq(Request)] /\ d.timeOuts \in [Peers -> Seq(Request)]
      /\ d.scattered \in Seq(Request) /\ d.downloading \in SUBSET Pieces
      /\ d.wait \in [Peers -> Seq(Request)]
  BY ListFields
<1>2. /\ q1 \in Seq(Request) /\ Len(q1) <= Len(q)
      /\ Range(q) \ {r} \subseteq Range(q1) /\ Range(q1) \subseteq Range(q)
      /\ IsInjective(q) => IsInjective(q1) /\ Range(q1) = Range(q) \ {r}
  <2> HIDE DEF q
  <2> QED BY <1>1, EraseFirstRange
<1>3. t1 \in Seq(Request)
  <2> HIDE DEF t
  <2> QED BY <1>1, EraseFirstRange
<1>4. e = [scattered |-> d.scattered, downloading |-> d.downloading, wait |-> d.wait,
           requesting |-> Q, timeOuts |-> T]
  <2>1. d = [scattered |-> d.scattered, downloading |-> d.downloading, wait |-> d.wait,
             requesting |-> d.requesting, timeOuts |-> d.timeOuts]
    BY DEF ListRecords
  <2> DEFINE f == [d EXCEPT !.timeOuts = T]
  <2>2. CancelTimeOut(d, c, r) = f
    BY DEF CancelTimeOut
  <2>3. f = [scattered |-> d.scattered, downloading |-> d.downloading, wait |-> d.wait,
             requesting |-> d.requesting, timeOuts |-> T]
    <3> HIDE DEF T
    <3> QED BY <2>1
  <2>4. e = [f EXCEPT !.requesting = [f.requesting EXCEPT ![c] = EraseFirst(f.requesting[c], r)]]
    BY <2>2 DEF DeleteOutStanding
  <2> HIDE DEF f, T
  <2>5. f.requesting = d.requesting
    BY <2>3
  <2>6. e = [f EXCEPT !.requesting = Q]
    BY <2>4, <2>5
  <2> HIDE DEF Q
  <2> QED BY <2>3, <2>6
<1>5. Q \in [Peers -> Seq(Request)] /\ T \in [Peers -> Seq(Request)]
  BY <1>1, <1>2, <1>3
<1>6. /\ Q[c] = q1 /\ T[c] = t1
      /\ \A x \in Peers \ {c} : Q[x] = d.requesting[x] /\ T[x] = d.timeOuts[x]
  BY <1>1
<1> HIDE DEF Q, T, q1, t1
<1>7. /\ e.scattered = d.scattered /\ e.downloading = d.downloading /\ e.wait = d.wait
      /\ e.requesting = Q /\ e.timeOuts = T
  BY <1>4
<1>8. e \in ListRecords
  BY <1>1, <1>4, <1>5 DEF ListRecords
<1>9. /\ Serving(d, c) \ {r} \subseteq Serving(e, c)
      /\ Serving(e, c) \subseteq Serving(d, c)
  BY <1>2, <1>6, <1>7 DEF Serving, Own
<1>10. ASSUME Tidy(d, c), r \in Range(q)
       PROVE  Tidy(e, c) /\ Serving(e, c) = Serving(d, c) \ {r}
  <2>1. /\ IsInjective(q) /\ Range(d.wait[c]) \cap Range(q) = {}
        /\ Range(d.scattered) \cap (Range(d.wait[c]) \cup Range(q)) = {}
    BY <1>10 DEF Tidy, Own
  <2>2. IsInjective(q1) /\ Range(q1) = Range(q) \ {r}
    BY <1>2, <2>1
  <2>3. Own(e, c) = Range(d.wait[c]) \cup Range(q1)
    BY <1>6, <1>7 DEF Own
  <2>4. Serving(e, c) = Serving(d, c) \ {r}
    BY <1>7, <1>10, <2>1, <2>2, <2>3 DEF Serving, Own
  <2>5. Tidy(e, c)
    BY <1>6, <1>7, <1>9, <1>10, <2>1, <2>2, <2>3 DEF Tidy
  <2> QED BY <2>4, <2>5
<1>11. Bounded(d, c) => Bounded(e, c)
  <2>1. Len(q) \in Nat /\ Len(q1) \in Nat /\ MaxOutstanding \in Nat
    BY <1>1, <1>2, LenProperties, ConstantsAssumption
  <2> SUFFICES ASSUME Bounded(d, c) PROVE Bounded(e, c)
    OBVIOUS
  <2>2. Len(q) <= MaxOutstanding /\ Len(d.wait[c]) < 2 * BlockCount
    BY DEF Bounded
  <2>3. Len(q1) <= MaxOutstanding
    BY <1>2, <2>1, <2>2
  <2> QED BY <1>6, <1>7, <2>2, <2>3 DEF Bounded
<1>12. t = q => e.timeOuts[c] = e.requesting[c]
  BY <1>6, <1>7 DEF q1, t1
<1> QED BY <1>6, <1>7, <1>8, <1>9, <1>10, <1>11, <1>12

\* Returned requests are scattered afterwards, each of them, and stay as single
\* as they were before end mode (BitDownloadDispatcher.cpp:116-130).
LEMMA ReturnRequestsRange ==
  ASSUME NEW s \in Seq(Request), NEW l \in Seq(Request)
  PROVE  /\ ReturnRequests(s, l) \in Seq(Request)
         /\ Range(ReturnRequests(s, l)) = Range(s) \cup Range(l)
         /\ ~endMode /\ IsInjective(s) /\ IsInjective(l) /\ Range(s) \cap Range(l) = {}
              => IsInjective(ReturnRequests(s, l))
<1> DEFINE I == {i \in DOMAIN l : /\ l[i] \notin Range(s)
                                  /\ \A j \in 1 .. i - 1 : l[j] # l[i]}
           k == Pick(l, I)
<1>1. CASE ~endMode
  BY <1>1, ConcatRange DEF ReturnRequests
<1>2. CASE endMode
  <2>1. I \in SUBSET DOMAIN l
    OBVIOUS
  <2>2. k \in Seq(Request) /\ Range(k) = {l[i] : i \in I}
    <3> HIDE DEF I
    <3> QED BY <2>1, PickRange
  <2>3. Range(k) \subseteq Range(l)
    BY <2>2 DEF Range
  <2>4. ASSUME NEW x \in Range(l), x \notin Range(s) PROVE x \in Range(k)
    <3> DEFINE T == {i \in DOMAIN l : l[i] = x}
    <3>1. Len(l) \in Nat /\ DOMAIN l = 1 .. Len(l)
      BY LenProperties
    <3>2. T \in SUBSET Nat /\ T # {}
      BY <3>1 DEF Range
    <3>3. PICK n \in T : \A m \in T : n <= m
      <4> HIDE DEF T
      <4> QED BY <3>2, Smallest
    <3>4. \A j \in 1 .. n - 1 : l[j] # l[n]
      <4> SUFFICES ASSUME NEW j \in 1 .. n - 1, l[j] = l[n] PROVE FALSE
        OBVIOUS
      <4>1. n \in 1 .. Len(l) /\ j \in DOMAIN l /\ l[j] = x
        BY <3>1, <3>3
      <4> QED BY <3>1, <3>3, <4>1
    <3>5. n \in I /\ l[n] = x
      BY <2>4, <3>3, <3>4
    <3> HIDE DEF I
    <3> QED BY <2>2, <3>5
  <2> HIDE DEF I, k
  <2>5. ReturnRequests(s, l) = s \o k
    BY <1>2 DEF ReturnRequests, k, I
  <2>6. s \o k \in Seq(Request) /\ Range(s \o k) = Range(s) \cup Range(k)
    BY <2>2, ConcatRange
  <2>7. Range(s) \cup Range(k) = Range(s) \cup Range(l)
    BY <2>3, <2>4
  <2> QED BY <1>2, <2>5, <2>6, <2>7
<1> QED BY <1>1, <1>2

\* A request given back is scattered from then on.
Returned(d, r) == [d EXCEPT !.scattered = ReturnRequests(@, <<r>>)]

\* It is then one of those that can be asked for, and nothing else changes
\* (BitDownloadDispatcher.cpp:116-130).
LEMMA ReturnedServes ==
  ASSUME NEW d \in ListRecords, NEW c \in Peers, NEW r \in Request
  PROVE  /\ Returned(d, r) \in ListRecords
         /\ Returned(d, r).downloading = d.downloading /\ Returned(d, r).wait = d.wait
         /\ Returned(d, r).requesting = d.requesting /\ Returned(d, r).timeOuts = d.timeOuts
         /\ Serving(Returned(d, r), c) = Serving(d, c) \cup {r}
         /\ ~endMode /\ Tidy(d, c) /\ r \notin Serving(d, c) /\ r[1] \in d.downloading
              => Tidy(Returned(d, r), c)
<1> DEFINE l == <<r>>
           s == d.scattered
           t == ReturnRequests(s, l)
           e == Returned(d, r)
<1>1. l \in Seq(Request) /\ Range(l) = {r} /\ IsInjective(l)
  <2>1. l \in Seq(Request) /\ DOMAIN l = 1 .. 1 /\ l[1] = r
    OBVIOUS
  <2> HIDE DEF l
  <2> QED BY <2>1 DEF Range, IsInjective
<1>2. /\ t \in Seq(Request) /\ Range(t) = Range(s) \cup {r}
      /\ ~endMode /\ IsInjective(s) /\ r \notin Range(s) => IsInjective(t)
  <2>1. s \in Seq(Request)
    BY ListFields
  <2> HIDE DEF s, l
  <2>2. /\ t \in Seq(Request) /\ Range(t) = Range(s) \cup Range(l)
        /\ ~endMode /\ IsInjective(s) /\ IsInjective(l) /\ Range(s) \cap Range(l) = {}
             => IsInjective(t)
    BY <1>1, <2>1, ReturnRequestsRange
  <2> HIDE DEF t
  <2> QED BY <1>1, <2>2
<1>3. e = [d EXCEPT !.scattered = t]
  BY DEF Returned
<1> HIDE DEF t, e
<1>4. /\ e.scattered = t /\ e.downloading = d.downloading /\ e.wait = d.wait
      /\ e.requesting = d.requesting /\ e.timeOuts = d.timeOuts /\ e \in ListRecords
  BY <1>2, <1>3 DEF ListRecords
<1>5. Own(e, c) = Own(d, c) /\ Serving(e, c) = Serving(d, c) \cup {r}
  BY <1>2, <1>4 DEF Serving, Own
<1>6. ASSUME ~endMode, Tidy(d, c), r \notin Serving(d, c), r[1] \in d.downloading
      PROVE  Tidy(e, c)
  <2>1. IsInjective(t)
    BY <1>2, <1>6 DEF Tidy, Serving
  <2>2. Range(t) \cap Own(e, c) = {}
    BY <1>2, <1>5, <1>6 DEF Tidy, Serving
  <2>3. \A x \in Serving(e, c) : x[1] \in e.downloading
    BY <1>4, <1>5, <1>6 DEF Tidy
  <2> QED BY <1>4, <1>6, <2>1, <2>2, <2>3 DEF Tidy
<1> QED BY <1>4, <1>5, <1>6 DEF e

\* Returning everything asked of c makes it all scattered, and c is left with
\* nothing (BitPeerConnection.cpp:637-652).
LEMMA ReturnAllMoves ==
  ASSUME NEW d \in ListRecords, NEW c \in Peers
  PROVE  /\ Moves(d, ReturnAll(d, c), c)
         /\ ReturnAll(d, c).downloading = d.downloading
         /\ ReturnAll(d, c).wait[c] = <<>> /\ ReturnAll(d, c).requesting[c] = <<>>
         /\ ReturnAll(d, c).timeOuts[c] = <<>>
<1> DEFINE s == d.scattered
           q == d.requesting[c]
           w == d.wait[c]
           t == ReturnRequests(s, q \o w)
           Q == [d.requesting EXCEPT ![c] = <<>>]
           W == [d.wait EXCEPT ![c] = <<>>]
           T == [d.timeOuts EXCEPT ![c] = <<>>]
           e == ReturnAll(d, c)
<1>1. /\ s \in Seq(Request) /\ q \in Seq(Request) /\ w \in Seq(Request)
      /\ d.requesting \in [Peers -> Seq(Request)] /\ d.timeOuts \in [Peers -> Seq(Request)]
      /\ d.wait \in [Peers -> Seq(Request)] /\ d.downloading \in SUBSET Pieces
  BY ListFields
<1>2. /\ t \in Seq(Request) /\ Range(t) = Range(s) \cup Range(q) \cup Range(w)
      /\ ~endMode /\ Tidy(d, c) => IsInjective(t)
  <2> DEFINE l == q \o w
  <2>1. /\ l \in Seq(Request) /\ Range(l) = Range(q) \cup Range(w)
        /\ IsInjective(q) /\ IsInjective(w) /\ Range(q) \cap Range(w) = {} => IsInjective(l)
    <3> HIDE DEF q, w
    <3> QED BY <1>1, ConcatRange
  <2> HIDE DEF l
  <2>2. /\ t \in Seq(Request) /\ Range(t) = Range(s) \cup Range(l)
        /\ ~endMode /\ IsInjective(s) /\ IsInjective(l) /\ Range(s) \cap Range(l) = {}
             => IsInjective(t)
    <3>1. t = ReturnRequests(s, l)
      BY DEF l
    <3> HIDE DEF s, t
    <3> QED BY <1>1, <2>1, <3>1, ReturnRequestsRange
  <2>3. ASSUME ~endMode, Tidy(d, c) PROVE IsInjective(t)
    <3>1. /\ IsInjective(s) /\ IsInjective(q) /\ IsInjective(w)
          /\ Range(s) \cap (Range(w) \cup Range(q)) = {} /\ Range(w) \cap Range(q) = {}
      BY <2>3 DEF Tidy, Own
    <3> HIDE DEF s, q, w, t
    <3> QED BY <2>1, <2>2, <2>3, <3>1
  <2> HIDE DEF t
  <2> QED BY <2>1, <2>2, <2>3
<1>3. e = [scattered |-> t, downloading |-> d.downloading, wait |-> W,
           requesting |-> Q, timeOuts |-> T]
  <2>1. d = [scattered |-> d.scattered, downloading |-> d.downloading, wait |-> d.wait,
             requesting |-> d.requesting, timeOuts |-> d.timeOuts]
    BY DEF ListRecords
  <2> DEFINE f == [d EXCEPT !.scattered = t, !.requesting = Q, !.wait = W]
  <2>2. ReturnWithoutReset(d, c) = f
    BY DEF ReturnWithoutReset
  <2>3. f = [scattered |-> t, downloading |-> d.downloading, wait |-> W,
             requesting |-> Q, timeOuts |-> d.timeOuts]
    <3>1. f = [d EXCEPT !.scattered = t, !.requesting = Q, !.wait = W]
      OBVIOUS
    <3> HIDE DEF t, Q, W, f, q, w, s, e
    <3>2. f = [[[d EXCEPT !.scattered = t] EXCEPT !.requesting = Q] EXCEPT !.wait = W]
      BY <2>1, <3>1
    <3> QED BY <2>1, <3>2
  <2> HIDE DEF f, t, Q, W
  <2>4. e = [f EXCEPT !.timeOuts = [f.timeOuts EXCEPT ![c] = <<>>]]
    BY <2>2 DEF ReturnAll, Reset
  <2>5. e = [f EXCEPT !.timeOuts = T]
    BY <2>3, <2>4
  <2> HIDE DEF T
  <2> QED BY <2>3, <2>5
<1>4. /\ Q \in [Peers -> Seq(Request)] /\ W \in [Peers -> Seq(Request)]
      /\ T \in [Peers -> Seq(Request)]
      /\ Q[c] = <<>> /\ W[c] = <<>> /\ T[c] = <<>>
      /\ \A x \in Peers \ {c} : /\ Q[x] = d.requesting[x] /\ W[x] = d.wait[x]
                                /\ T[x] = d.timeOuts[x]
  BY <1>1
<1> HIDE DEF t, Q, W, T, e
<1>5. /\ e.scattered = t /\ e.downloading = d.downloading /\ e.wait = W
      /\ e.requesting = Q /\ e.timeOuts = T /\ e \in ListRecords
  BY <1>1, <1>2, <1>3, <1>4 DEF ListRecords
<1>6. Begun(d, e) = {}
  BY <1>5 DEF Begun
<1>7. Range(<<>>) = {} /\ IsInjective(<<>>)
  BY DEF Range, IsInjective
<1>8. Own(e, c) = {} /\ Serving(e, c) = Serving(d, c)
  BY <1>2, <1>4, <1>5, <1>7 DEF Serving, Own
<1>9. ASSUME ~endMode, Tidy(d, c) PROVE Tidy(e, c)
  BY <1>2, <1>4, <1>5, <1>7, <1>8, <1>9 DEF Tidy
<1>10. Moves(d, e, c)
  BY <1>4, <1>5, <1>6, <1>8, <1>9 DEF Moves
<1> QED BY <1>4, <1>5, <1>10 DEF e

\* A time-out of r asks for others first and gives r back then: nothing is lost,
\* and before end mode r is not asked for again (BitPeerConnection.cpp:610-623).
LEMMA TimeOutMoves ==
  ASSUME NEW d \in ListRecords, NEW c \in Peers, NEW r \in Range(d.requesting[c]),
         NEW h, NEW i, NEW ch, NEW e, NEW f,
         e = RequestPieceBlock(DeleteOutStanding(d, c, r), c, h, i, ch),
         f = Returned(e, r)
  PROVE  /\ Moves(d, f, c)
         /\ Bounded(d, c) => Bounded(f, c)
         /\ ~endMode /\ Tidy(d, c) => r \notin Range(f.requesting[c])
<1> DEFINE d1 == DeleteOutStanding(d, c, r)
<1>1. /\ d1 \in ListRecords
      /\ d1.scattered = d.scattered /\ d1.downloading = d.downloading /\ d1.wait = d.wait
      /\ \A x \in Peers \ {c} :
           d1.requesting[x] = d.requesting[x] /\ d1.timeOuts[x] = d.timeOuts[x]
      /\ Serving(d, c) \ {r} \subseteq Serving(d1, c)
      /\ Serving(d1, c) \subseteq Serving(d, c)
      /\ Tidy(d, c) /\ r \in Range(d.requesting[c])
           => Tidy(d1, c) /\ Serving(d1, c) = Serving(d, c) \ {r}
      /\ Bounded(d, c) => Bounded(d1, c)
      /\ d.timeOuts[c] = d.requesting[c] => d1.timeOuts[c] = d1.requesting[c]
  BY DeleteOutStandingRemoves
<1> HIDE DEF d1
<1>2. e = RequestPieceBlock(d1, c, h, i, ch)
  BY DEF d1
<1>3. Moves(d1, e, c) /\ (Bounded(d1, c) => Bounded(e, c)) /\ e \in ListRecords
  BY <1>1, <1>2, RequestPieceBlockMoves DEF Moves
<1>4. r \in Request /\ r \in Serving(d, c)
  <2>1. d.requesting[c] \in Seq(Request)
    BY ListFields
  <2>2. \A k \in DOMAIN d.requesting[c] : d.requesting[c][k] \in Request
    BY <2>1, ElementOfSeq, LenProperties
  <2> QED BY <2>2 DEF Range, Serving, Own
<1>5. /\ f \in ListRecords
      /\ f.downloading = e.downloading /\ f.wait = e.wait
      /\ f.requesting = e.requesting /\ f.timeOuts = e.timeOuts
      /\ Serving(f, c) = Serving(e, c) \cup {r}
      /\ ~endMode /\ Tidy(e, c) /\ r \notin Serving(e, c) /\ r[1] \in e.downloading
           => Tidy(f, c)
  BY <1>3, <1>4, ReturnedServes
<1>6. Begun(d, f) = Begun(d1, e)
  BY <1>1, <1>5 DEF Begun
<1>7. Serving(d, c) \cup Begun(d, f) \subseteq Serving(f, c)
  BY <1>1, <1>3, <1>5, <1>6 DEF Moves
<1>8. ~endMode => Serving(f, c) \subseteq Serving(d, c) \cup Begun(d, f)
  BY <1>1, <1>3, <1>4, <1>5, <1>6 DEF Moves
<1>9. ASSUME ~endMode, Tidy(d, c)
      PROVE  Tidy(f, c) /\ r \notin Range(f.requesting[c])
  <2>1. Tidy(d1, c) /\ r \notin Serving(d1, c) /\ r[1] \in d.downloading
    BY <1>1, <1>4, <1>9 DEF Tidy
  <2>2. r \notin Begun(d1, e) /\ r[1] \in e.downloading
    BY <1>1, <1>3, <2>1 DEF Begun, Moves
  <2>3. r \notin Serving(e, c) /\ Tidy(e, c)
    BY <1>3, <1>9, <2>1, <2>2 DEF Moves
  <2>4. Tidy(f, c)
    BY <1>5, <1>9, <2>2, <2>3
  <2>5. r \notin Range(f.requesting[c])
    BY <1>5, <2>3 DEF Serving, Own
  <2> QED BY <2>4, <2>5
<1>10. /\ d.downloading \subseteq f.downloading
       /\ f.downloading \cap downloaded \subseteq d.downloading
       /\ \A x \in Peers \ {c} : /\ f.wait[x] = d.wait[x] /\ f.requesting[x] = d.requesting[x]
                                 /\ f.timeOuts[x] = d.timeOuts[x]
  BY <1>1, <1>3, <1>5 DEF Moves
<1>11. d.timeOuts[c] = d.requesting[c] => f.timeOuts[c] = f.requesting[c]
  BY <1>1, <1>3, <1>5 DEF Moves
<1>12. Moves(d, f, c)
  BY <1>5, <1>7, <1>8, <1>9, <1>10, <1>11 DEF Moves
<1>13. Bounded(d, c) => Bounded(f, c)
  BY <1>1, <1>3, <1>5 DEF Bounded
<1> QED BY <1>9, <1>12, <1>13

-----------------------------------------------------------------------------
(* All connections. *)

\* All requests there are.
Held(d) == Range(d.scattered) \cup UNION {Own(d, c) : c \in Peers}

\* No request is anywhere twice.
Once(d) ==
  /\ IsInjective(d.scattered)
  /\ \A c \in Peers : /\ Tidy(d, c)
                      /\ \A x \in Peers \ {c} : Own(d, c) \cap Own(d, x) = {}

\* A handler of c loses no request of anyone, and before end mode it duplicates
\* none and invents none.
LEMMA HeldMoves ==
  ASSUME NEW d \in ListRecords, NEW c \in Peers, NEW e, Moves(d, e, c)
  PROVE  /\ Held(d) \cup Begun(d, e) \subseteq Held(e)
         /\ ~endMode /\ Once(d) => Once(e) /\ Held(e) \subseteq Held(d) \cup Begun(d, e)
<1>1. \A x \in Peers \ {c} : Own(e, x) = Own(d, x)
  BY DEF Moves, Own
<1>2. \A x \in Peers : Serving(d, x) \subseteq Held(d) /\ Serving(e, x) \subseteq Held(e)
  BY DEF Serving, Held
<1>3. Held(d) = Serving(d, c) \cup UNION {Own(d, x) : x \in Peers \ {c}}
  BY DEF Serving, Held
<1>4. Held(e) = Serving(e, c) \cup UNION {Own(d, x) : x \in Peers \ {c}}
  <2>1. Held(e) = Serving(e, c) \cup UNION {Own(e, x) : x \in Peers \ {c}}
    BY DEF Serving, Held
  <2>2. {Own(e, x) : x \in Peers \ {c}} = {Own(d, x) : x \in Peers \ {c}}
    BY <1>1
  <2> QED BY <2>1, <2>2
<1>5. Held(d) \cup Begun(d, e) \subseteq Held(e)
  BY <1>3, <1>4 DEF Moves
<1>6. ASSUME ~endMode, Once(d)
      PROVE  Once(e) /\ Held(e) \subseteq Held(d) \cup Begun(d, e)
  <2>1. /\ Serving(e, c) \subseteq Serving(d, c) \cup Begun(d, e)
        /\ Tidy(e, c)
    BY <1>6 DEF Moves, Once
  <2>2. Held(e) \subseteq Held(d) \cup Begun(d, e)
    BY <1>3, <1>4, <2>1
  <2>3. ASSUME NEW x \in Peers \ {c}
        PROVE  Serving(e, c) \cap Own(e, x) = {}
    <3>1. Own(d, x) \cap Range(d.scattered) = {} /\ Own(d, x) \cap Own(d, c) = {}
      BY <1>6 DEF Once, Tidy
    <3>2. \A r \in Own(d, x) : r[1] \in d.downloading
      BY <1>6 DEF Once, Tidy, Serving
    <3>3. Own(d, x) \cap Begun(d, e) = {}
      BY <3>2 DEF Begun
    <3> QED BY <1>1, <2>1, <3>1, <3>3 DEF Serving
  <2>4. ASSUME NEW x \in Peers \ {c}
        PROVE  Tidy(e, x)
    <3>1. Tidy(d, x)
      BY <1>6 DEF Once
    <3>2. e.wait[x] = d.wait[x] /\ e.requesting[x] = d.requesting[x]
      BY DEF Moves
    <3>3. IsInjective(e.scattered)
      BY <2>1 DEF Tidy
    <3>4. Range(e.scattered) \cap Own(e, x) = {}
      BY <2>3 DEF Serving
    <3>5. \A r \in Serving(e, x) : r[1] \in e.downloading
      <4>1. \A r \in Range(e.scattered) : r[1] \in e.downloading
        BY <2>1 DEF Tidy, Serving
      <4>2. \A r \in Own(e, x) : r[1] \in e.downloading
        BY <1>1, <3>1 DEF Tidy, Serving, Moves
      <4> QED BY <4>1, <4>2 DEF Serving
    <3> QED BY <3>1, <3>2, <3>3, <3>4, <3>5 DEF Tidy
  <2>5. \A x \in Peers : Tidy(e, x)
    BY <2>1, <2>4
  <2>6. \A x \in Peers, y \in Peers : x # y => Own(e, x) \cap Own(e, y) = {}
    <3> TAKE x \in Peers, y \in Peers
    <3>1. CASE x = c
      BY <2>3, <3>1 DEF Serving
    <3>2. CASE y = c
      BY <2>3, <3>2 DEF Serving
    <3>3. CASE x # c /\ y # c
      BY <1>1, <1>6, <3>3 DEF Once
    <3> QED BY <3>1, <3>2, <3>3
  <2>7. IsInjective(e.scattered)
    BY <2>1 DEF Tidy
  <2> QED BY <2>2, <2>5, <2>6, <2>7 DEF Once
<1> QED BY <1>5, <1>6

-----------------------------------------------------------------------------
(* The inductive invariant. *)

\* Only connections that have shaken hands are interested.
Interest == \A c \in Peers : interested[c] => c \in on

\* What the updater has not counted yet is the piece it is told of next.
Counting ==
  counted + (IF "updater" \in notice.left THEN 1 ELSE 0) = Cardinality(downloaded)

\* A piece is in one phase, and one that is being checked has no block in the
\* cache.
Phases ==
  /\ verifying \cap downloaded = {} /\ downloading \cap downloaded = {}
  /\ \A p \in verifying : got[p] = {}

\* Whom a notification is for.
Notices ==
  /\ notice.kind = "none" <=> notice.left = {}
  /\ notice.kind = "complete" => notice.piece \in downloaded
  /\ notice.kind = "failed" => notice.left \subseteq Peers

\* The last piece ends all interest.
Ended == IsDownloadComplete => \A c \in Peers : ~interested[c]

\* No missing block is without a request.
Kept == ~IsDownloadComplete => Missing \subseteq Held(Lists)

\* Before end mode every request is there once, for a missing block, and blocks
\* come only of pieces that have begun.
Single ==
  ~IsDownloadComplete /\ ~endMode =>
    /\ Once(Lists) /\ Held(Lists) \subseteq Missing /\ verifying \subseteq downloading
    /\ \A p \in Pieces \ downloading : got[p] = {}

Inv == /\ TypeOK /\ RequestsTimed /\ OutstandingBounded /\ SilentHoldNothing
       /\ Interest /\ Counting /\ Phases /\ Notices /\ Ended /\ Kept /\ Single

\* The lists of a typed state are a record of lists.
LEMMA ListsTyped ==
  ASSUME TypeOK
  PROVE  Lists \in ListRecords
BY DEF TypeOK, Lists, ListRecords

\* A handler that sets the lists makes them that record.
LEMMA SetListsSets ==
  ASSUME NEW e \in ListRecords, SetLists(e)
  PROVE  /\ Lists' = e
         /\ scattered' \in Seq(Request) /\ downloading' \in SUBSET Pieces
         /\ wait' \in [Peers -> Seq(Request)] /\ requesting' \in [Peers -> Seq(Request)]
         /\ timeOuts' \in [Peers -> Seq(Request)]
<1>1. /\ scattered' = e.scattered /\ downloading' = e.downloading /\ wait' = e.wait
      /\ requesting' = e.requesting /\ timeOuts' = e.timeOuts
  BY DEF SetLists
<1>2. e = [scattered |-> e.scattered, downloading |-> e.downloading, wait |-> e.wait,
           requesting |-> e.requesting, timeOuts |-> e.timeOuts]
  BY DEF ListRecords
<1>3. Lists' = e
  BY <1>1, <1>2 DEF Lists
<1> QED BY <1>1, <1>3 DEF ListRecords

\* What a handler of c that Moves the lists and writes no block keeps.
LEMMA HandlerKeeps ==
  ASSUME Inv, NEW c \in Peers, NEW e, Moves(Lists, e, c), Bounded(e, c), SetLists(e),
         UNCHANGED <<infoVars, got, verifying>>
  PROVE  /\ scattered' \in Seq(Request) /\ downloading' \in SUBSET Pieces
         /\ wait' \in [Peers -> Seq(Request)] /\ requesting' \in [Peers -> Seq(Request)]
         /\ timeOuts' \in [Peers -> Seq(Request)]
         /\ \A x \in Peers \ {c} : wait'[x] = wait[x] /\ requesting'[x] = requesting[x]
         /\ RequestsTimed' /\ OutstandingBounded' /\ Phases' /\ Kept' /\ Single'
<1>1. /\ Lists \in ListRecords /\ e \in ListRecords
      /\ TypeOK /\ RequestsTimed /\ OutstandingBounded /\ Phases /\ Kept /\ Single
  BY ListsTyped DEF Inv, Moves
<1>2. /\ Lists' = e
      /\ scattered' \in Seq(Request) /\ downloading' \in SUBSET Pieces
      /\ wait' \in [Peers -> Seq(Request)] /\ requesting' \in [Peers -> Seq(Request)]
      /\ timeOuts' \in [Peers -> Seq(Request)]
  BY <1>1, SetListsSets
<1>3. /\ Lists.wait = wait /\ Lists.requesting = requesting /\ Lists.timeOuts = timeOuts
      /\ Lists.downloading = downloading
      /\ e.wait = wait' /\ e.requesting = requesting' /\ e.timeOuts = timeOuts'
      /\ e.downloading = downloading'
  BY DEF Lists, SetLists
<1>4. \A x \in Peers \ {c} : /\ wait'[x] = wait[x] /\ requesting'[x] = requesting[x]
                             /\ timeOuts'[x] = timeOuts[x]
  BY <1>3 DEF Moves
<1>5. RequestsTimed'
  <2>1. timeOuts'[c] = requesting'[c]
    BY <1>1, <1>3 DEF Moves, RequestsTimed
  <2> QED BY <1>1, <1>4, <2>1 DEF RequestsTimed
<1>6. OutstandingBounded'
  BY <1>1, <1>3, <1>4 DEF Bounded, OutstandingBounded
<1>7. /\ endMode' = endMode /\ downloaded' = downloaded /\ counted' = counted
      /\ got' = got /\ verifying' = verifying
      /\ IsDownloadComplete' <=> IsDownloadComplete
  BY DEF infoVars, IsDownloadComplete, Finished
<1>8. /\ downloading \subseteq downloading' /\ downloading' \cap downloaded \subseteq downloading
  BY <1>3 DEF Moves
<1>9. Phases'
  BY <1>1, <1>7, <1>8 DEF Phases
<1>10. Begun(Lists, e) = {r \in Request : r[1] \in downloading' \ downloading}
  BY <1>3 DEF Begun
<1>11. /\ Held(Lists) \cup Begun(Lists, e) \subseteq Held(e)
       /\ ~endMode /\ Once(Lists) =>
            Once(e) /\ Held(e) \subseteq Held(Lists) \cup Begun(Lists, e)
  BY <1>1, HeldMoves
<1>12. Missing' \subseteq Missing \cup Begun(Lists, e)
  BY <1>7, <1>10 DEF Missing
<1>13. Held(Lists)' = Held(e) /\ (Once(Lists)' <=> Once(e))
  BY <1>2 DEF Held, Once, Tidy, Serving, Own
<1>14. Kept'
  BY <1>1, <1>7, <1>11, <1>12, <1>13 DEF Kept
<1>15. Single'
  <2> SUFFICES ASSUME ~IsDownloadComplete, ~endMode
               PROVE  /\ Once(e) /\ Held(e) \subseteq Missing' /\ verifying \subseteq downloading'
                      /\ \A p \in Pieces \ downloading' : got[p] = {}
    BY <1>7, <1>13 DEF Single
  <2>1. /\ Once(Lists) /\ Held(Lists) \subseteq Missing /\ verifying \subseteq downloading
        /\ \A p \in Pieces \ downloading : got[p] = {}
    BY <1>1 DEF Single
  <2>2. Missing \cup Begun(Lists, e) \subseteq Missing'
    <3>1. Missing \subseteq Missing'
      BY <1>7, <1>8 DEF Missing
    <3>2. ASSUME NEW r \in Begun(Lists, e) PROVE r \in Missing'
      <4>1. r \in Request /\ r[1] \in downloading' /\ r[1] \notin downloading
        BY <1>10
      <4>2. r[1] \notin verifying /\ r[1] \in Pieces
        BY <1>2, <2>1, <4>1
      <4>3. got[r[1]] = {}
        BY <2>1, <4>1, <4>2
      <4> QED BY <1>7, <4>1, <4>2, <4>3 DEF Missing
    <3> QED BY <3>1, <3>2
  <2> QED BY <1>8, <1>11, <2>1, <2>2
<1> QED BY <1>2, <1>4, <1>5, <1>6, <1>9, <1>14, <1>15

\* What asking keeps, for whatever pieces c is taken to have: an uninterested or
\* choked connection asks for nothing.
LEMMA AskKeeps ==
  ASSUME Inv, NEW c \in Peers, NEW h, NEW ch,
         SetLists(RequestPieceBlock(Lists, c, h, interested[c], ch)),
         UNCHANGED <<infoVars, got, verifying>>
  PROVE  /\ scattered' \in Seq(Request) /\ downloading' \in SUBSET Pieces
         /\ wait' \in [Peers -> Seq(Request)] /\ requesting' \in [Peers -> Seq(Request)]
         /\ timeOuts' \in [Peers -> Seq(Request)]
         /\ \A x \in Peers \ {c} : wait'[x] = wait[x] /\ requesting'[x] = requesting[x]
         /\ ~interested[c] \/ ch => wait'[c] = wait[c] /\ requesting'[c] = requesting[c]
         /\ RequestsTimed' /\ OutstandingBounded' /\ Phases' /\ Kept' /\ Single'
<1> DEFINE e == RequestPieceBlock(Lists, c, h, interested[c], ch)
<1>1. Lists \in ListRecords
  BY ListsTyped DEF Inv
<1>2. Bounded(Lists, c)
  BY DEF Inv, OutstandingBounded, Bounded, Lists
<1>3. /\ Moves(Lists, e, c) /\ Bounded(e, c)
      /\ ~interested[c] \/ ch => e = Lists
  BY <1>1, <1>2, RequestPieceBlockMoves
<1> HIDE DEF e
<1>4. SetLists(e)
  BY DEF e
<1>5. /\ scattered' \in Seq(Request) /\ downloading' \in SUBSET Pieces
      /\ wait' \in [Peers -> Seq(Request)] /\ requesting' \in [Peers -> Seq(Request)]
      /\ timeOuts' \in [Peers -> Seq(Request)]
      /\ \A x \in Peers \ {c} : wait'[x] = wait[x] /\ requesting'[x] = requesting[x]
      /\ RequestsTimed' /\ OutstandingBounded' /\ Phases' /\ Kept' /\ Single'
  BY <1>3, <1>4, HandlerKeeps
<1>6. ~interested[c] \/ ch => wait' = wait /\ requesting' = requesting
  BY <1>3, <1>4 DEF SetLists, Lists
<1> QED BY <1>5, <1>6

\* The invariant after a step that keeps the lists in order, counts nothing and
\* is not part of a notification.
LEMMA ConnectionStep ==
  ASSUME Inv, NEW c \in Peers,
         scattered' \in Seq(Request), downloading' \in SUBSET Pieces,
         wait' \in [Peers -> Seq(Request)], requesting' \in [Peers -> Seq(Request)],
         timeOuts' \in [Peers -> Seq(Request)],
         \A x \in Peers \ {c} : wait'[x] = wait[x] /\ requesting'[x] = requesting[x],
         RequestsTimed', OutstandingBounded', Phases', Kept', Single',
         got' \in [Pieces -> SUBSET Blocks], verifying' \in SUBSET Pieces,
         on' \in SUBSET Peers, has' \in [Peers -> SUBSET Pieces],
         interested' \in [Peers -> BOOLEAN], choking' \in [Peers -> BOOLEAN],
         \A x \in Peers \ {c} : /\ x \in on' <=> x \in on
                                /\ interested'[x] = interested[x] /\ choking'[x] = choking[x],
         interested'[c] => c \in on' /\ ~IsDownloadComplete,
         c \notin on' \/ choking'[c] \/ ~interested'[c]
           => wait'[c] = <<>> /\ requesting'[c] = <<>>,
         UNCHANGED <<infoVars, fails, notice>>
  PROVE  Inv'
<1>1. TypeOK'
  BY DEF Inv, TypeOK, infoVars
<1>2. SilentHoldNothing'
  <2>1. ASSUME NEW x \in Peers, (x \notin on \/ choking[x] \/ ~interested[x])', x # c
        PROVE  (wait[x] = <<>> /\ requesting[x] = <<>>)'
    <3>1. x \notin on \/ choking[x] \/ ~interested[x]
      BY <2>1
    <3>2. wait[x] = <<>> /\ requesting[x] = <<>>
      BY <3>1 DEF Inv, SilentHoldNothing
    <3> QED BY <2>1, <3>2
  <2> QED BY <2>1 DEF SilentHoldNothing
<1>3. Interest'
  BY DEF Inv, Interest
<1>4. Counting' /\ Notices'
  BY DEF Inv, Counting, Notices, infoVars
<1>5. Ended'
  BY DEF Inv, Ended, IsDownloadComplete, Finished, infoVars
<1> QED BY <1>1, <1>2, <1>3, <1>4, <1>5 DEF Inv

\* A handshake begins interest only while the download is not complete.
LEMMA HandshakeKeeps ==
  ASSUME Inv, NEW c \in Peers, Handshake(c)
  PROVE  Inv'
<1>1. /\ on' = on \cup {c} /\ has' = [has EXCEPT ![c] = {}]
      /\ interested' = [interested EXCEPT ![c] = interested[c] \/ ~IsDownloadComplete]
      /\ UNCHANGED <<listVars, infoVars, cacheVars, choking, notice>>
  BY DEF Handshake
<1>2. /\ scattered' = scattered /\ downloading' = downloading /\ wait' = wait
      /\ requesting' = requesting /\ timeOuts' = timeOuts /\ endMode' = endMode
      /\ downloaded' = downloaded /\ counted' = counted /\ got' = got
      /\ verifying' = verifying /\ fails' = fails /\ choking' = choking /\ notice' = notice
  BY <1>1 DEF listVars, infoVars, cacheVars
<1>3. TypeOK
  BY DEF Inv
<1>4. /\ on' \in SUBSET Peers /\ has' \in [Peers -> SUBSET Pieces]
      /\ interested' \in [Peers -> BOOLEAN]
      /\ \A x \in Peers \ {c} : (x \in on' <=> x \in on) /\ interested'[x] = interested[x]
      /\ interested'[c] = (interested[c] \/ ~IsDownloadComplete) /\ c \in on'
  BY <1>1, <1>3 DEF TypeOK
<1>5. RequestsTimed' /\ OutstandingBounded' /\ Phases'
  BY <1>2 DEF Inv, RequestsTimed, OutstandingBounded, Phases
<1>6. Lists' = Lists /\ Missing' = Missing /\ (IsDownloadComplete' <=> IsDownloadComplete)
  BY <1>2 DEF Lists, Missing, IsDownloadComplete, Finished
<1>7. Kept' /\ Single'
  BY <1>2, <1>6 DEF Inv, Kept, Single, Held, Once, Tidy, Serving, Own
<1>8. interested'[c] => ~IsDownloadComplete
  BY <1>4 DEF Inv, Ended
<1>9. c \notin on' \/ choking'[c] \/ ~interested'[c]
        => wait'[c] = <<>> /\ requesting'[c] = <<>>
  BY <1>2, <1>4 DEF Inv, SilentHoldNothing
<1> QED BY <1>2, <1>3, <1>4, <1>5, <1>7, <1>8, <1>9, ConnectionStep DEF TypeOK, infoVars

\* A piece more, or another piece map: c is asked for what it has.
LEMMA HaveKeeps ==
  ASSUME Inv, NEW c \in Peers,
         (\E p \in Pieces : Have(c, p)) \/ (\E h \in SUBSET Pieces : Bitfield(c, h))
  PROVE  Inv'
<1>1. PICK h \in SUBSET Pieces :
        /\ SetLists(RequestPieceBlock(Lists, c, h, interested[c], choking[c]))
        /\ has' = [has EXCEPT ![c] = h]
        /\ UNCHANGED <<infoVars, cacheVars, on, interested, choking, notice>>
  <2>1. CASE \E p \in Pieces : Have(c, p)
    <3>1. PICK p \in Pieces : Have(c, p)
      BY <2>1
    <3> DEFINE h == has[c] \cup {p}
    <3>2. h \in SUBSET Pieces /\ has' = [has EXCEPT ![c] = h] /\ has'[c] = h
      BY <3>1 DEF Have, Inv, TypeOK
    <3> QED BY <3>1, <3>2 DEF Have
  <2>2. CASE \E h \in SUBSET Pieces : Bitfield(c, h)
    BY <2>2 DEF Bitfield
  <2> QED BY <2>1, <2>2
<1>2. /\ UNCHANGED <<infoVars, got, verifying>> /\ UNCHANGED <<infoVars, fails, notice>>
      /\ got' = got /\ verifying' = verifying
      /\ on' = on /\ interested' = interested /\ choking' = choking
  BY <1>1 DEF cacheVars
<1>3. TypeOK
  BY DEF Inv
<1>4. has' \in [Peers -> SUBSET Pieces]
  BY <1>1, <1>3 DEF TypeOK
<1>5. /\ scattered' \in Seq(Request) /\ downloading' \in SUBSET Pieces
      /\ wait' \in [Peers -> Seq(Request)] /\ requesting' \in [Peers -> Seq(Request)]
      /\ timeOuts' \in [Peers -> Seq(Request)]
      /\ \A x \in Peers \ {c} : wait'[x] = wait[x] /\ requesting'[x] = requesting[x]
      /\ ~interested[c] \/ choking[c] => wait'[c] = wait[c] /\ requesting'[c] = requesting[c]
      /\ RequestsTimed' /\ OutstandingBounded' /\ Phases' /\ Kept' /\ Single'
  BY <1>1, <1>2, AskKeeps
<1>6. interested[c] => c \in on /\ ~IsDownloadComplete
  BY DEF Inv, Interest, Ended
<1>7. c \notin on \/ choking[c] \/ ~interested[c]
        => wait'[c] = <<>> /\ requesting'[c] = <<>>
  BY <1>5, <1>6 DEF Inv, SilentHoldNothing
<1> QED BY <1>2, <1>3, <1>4, <1>5, <1>6, <1>7, ConnectionStep DEF TypeOK

\* A connection that is no longer choked asks at once.
LEMMA UnchokeKeeps ==
  ASSUME Inv, NEW c \in Peers, Unchoke(c)
  PROVE  Inv'
<1>1. /\ SetLists(RequestPieceBlock(Lists, c, has[c], interested[c], FALSE))
      /\ choking' = [choking EXCEPT ![c] = FALSE]
      /\ UNCHANGED <<infoVars, cacheVars, on, has, interested, notice>>
  BY DEF Unchoke
<1>2. /\ UNCHANGED <<infoVars, got, verifying>> /\ UNCHANGED <<infoVars, fails, notice>>
      /\ got' = got /\ verifying' = verifying
      /\ on' = on /\ interested' = interested /\ has' = has
  BY <1>1 DEF cacheVars
<1>3. TypeOK
  BY DEF Inv
<1>4. /\ choking' \in [Peers -> BOOLEAN] /\ choking'[c] = FALSE
      /\ \A x \in Peers \ {c} : choking'[x] = choking[x]
  BY <1>1, <1>3 DEF TypeOK
<1>5. /\ scattered' \in Seq(Request) /\ downloading' \in SUBSET Pieces
      /\ wait' \in [Peers -> Seq(Request)] /\ requesting' \in [Peers -> Seq(Request)]
      /\ timeOuts' \in [Peers -> Seq(Request)]
      /\ \A x \in Peers \ {c} : wait'[x] = wait[x] /\ requesting'[x] = requesting[x]
      /\ ~interested[c] \/ FALSE => wait'[c] = wait[c] /\ requesting'[c] = requesting[c]
      /\ RequestsTimed' /\ OutstandingBounded' /\ Phases' /\ Kept' /\ Single'
  BY <1>1, <1>2, AskKeeps
<1>6. interested[c] => c \in on /\ ~IsDownloadComplete
  BY DEF Inv, Interest, Ended
<1>7. c \notin on \/ choking'[c] \/ ~interested[c]
        => wait'[c] = <<>> /\ requesting'[c] = <<>>
  BY <1>4, <1>5, <1>6 DEF Inv, SilentHoldNothing
<1> QED BY <1>2, <1>3, <1>4, <1>5, <1>6, <1>7, ConnectionStep DEF TypeOK

\* A block that nobody waits for makes c ask again, no more.
LEMMA UnaskedPieceKeeps ==
  ASSUME Inv, NEW c \in Peers, UnaskedPiece(c)
  PROVE  Inv'
<1>1. /\ SetLists(RequestPieceBlock(Lists, c, has[c], interested[c], choking[c]))
      /\ UNCHANGED <<infoVars, cacheVars, connVars, notice>>
  BY DEF UnaskedPiece, Ask
<1>2. /\ UNCHANGED <<infoVars, got, verifying>> /\ UNCHANGED <<infoVars, fails, notice>>
      /\ got' = got /\ verifying' = verifying
      /\ on' = on /\ interested' = interested /\ has' = has /\ choking' = choking
  BY <1>1 DEF cacheVars, connVars
<1>3. TypeOK
  BY DEF Inv
<1>4. /\ scattered' \in Seq(Request) /\ downloading' \in SUBSET Pieces
      /\ wait' \in [Peers -> Seq(Request)] /\ requesting' \in [Peers -> Seq(Request)]
      /\ timeOuts' \in [Peers -> Seq(Request)]
      /\ \A x \in Peers \ {c} : wait'[x] = wait[x] /\ requesting'[x] = requesting[x]
      /\ ~interested[c] \/ choking[c] => wait'[c] = wait[c] /\ requesting'[c] = requesting[c]
      /\ RequestsTimed' /\ OutstandingBounded' /\ Phases' /\ Kept' /\ Single'
  BY <1>1, <1>2, AskKeeps
<1>5. interested[c] => c \in on /\ ~IsDownloadComplete
  BY DEF Inv, Interest, Ended
<1>6. c \notin on \/ choking[c] \/ ~interested[c]
        => wait'[c] = <<>> /\ requesting'[c] = <<>>
  BY <1>4, <1>5 DEF Inv, SilentHoldNothing
<1> QED BY <1>2, <1>3, <1>4, <1>5, <1>6, ConnectionStep DEF TypeOK

\* A connection that is choked, or goes, gives everything back.
LEMMA ReturnKeeps ==
  ASSUME Inv, NEW c \in Peers, Choke(c) \/ DropConnection(c)
  PROVE  Inv'
<1>1. /\ SetLists(ReturnAll(Lists, c))
      /\ choking' = [choking EXCEPT ![c] = TRUE]
      /\ UNCHANGED <<infoVars, cacheVars, notice>>
      /\ \/ on' = on /\ has' = has /\ interested' = interested
         \/ /\ on' = on \ {c} /\ has' = [has EXCEPT ![c] = {}]
            /\ interested' = [interested EXCEPT ![c] = FALSE]
  BY DEF Choke, DropConnection
<1>2. /\ UNCHANGED <<infoVars, got, verifying>> /\ UNCHANGED <<infoVars, fails, notice>>
      /\ got' = got /\ verifying' = verifying
  BY <1>1 DEF cacheVars
<1>3. TypeOK
  BY DEF Inv
<1>4. /\ on' \in SUBSET Peers /\ has' \in [Peers -> SUBSET Pieces]
      /\ interested' \in [Peers -> BOOLEAN] /\ choking' \in [Peers -> BOOLEAN]
      /\ \A x \in Peers \ {c} : /\ x \in on' <=> x \in on
                                /\ interested'[x] = interested[x] /\ choking'[x] = choking[x]
      /\ interested'[c] => interested[c] /\ on' = on
  BY <1>1, <1>3 DEF TypeOK
<1>5. interested'[c] => c \in on' /\ ~IsDownloadComplete
  BY <1>4 DEF Inv, Interest, Ended
<1> DEFINE e == ReturnAll(Lists, c)
<1>6. /\ Moves(Lists, e, c) /\ e.wait[c] = <<>> /\ e.requesting[c] = <<>>
  BY <1>3, ListsTyped, ReturnAllMoves
<1>7. Bounded(e, c)
  <2> HIDE DEF e
  <2>1. Len(<<>>) = 0 /\ BlockCount \in Nat \ {0} /\ MaxOutstanding \in Nat
    BY ConstantsAssumption
  <2> QED BY <1>6, <2>1 DEF Bounded
<1> HIDE DEF e
<1>8. SetLists(e)
  BY <1>1 DEF e
<1>9. /\ scattered' \in Seq(Request) /\ downloading' \in SUBSET Pieces
      /\ wait' \in [Peers -> Seq(Request)] /\ requesting' \in [Peers -> Seq(Request)]
      /\ timeOuts' \in [Peers -> Seq(Request)]
      /\ \A x \in Peers \ {c} : wait'[x] = wait[x] /\ requesting'[x] = requesting[x]
      /\ RequestsTimed' /\ OutstandingBounded' /\ Phases' /\ Kept' /\ Single'
  BY <1>2, <1>6, <1>7, <1>8, HandlerKeeps
<1>10. wait'[c] = <<>> /\ requesting'[c] = <<>>
  BY <1>6, <1>8 DEF SetLists
<1> QED BY <1>2, <1>3, <1>4, <1>5, <1>9, <1>10, ConnectionStep DEF TypeOK

\* A connection that holds a request may ask.
LEMMA HolderMayAsk ==
  ASSUME Inv, NEW c \in Peers, requesting[c] # <<>>
  PROVE  c \in on /\ ~choking[c] /\ interested[c] /\ ~IsDownloadComplete
BY DEF Inv, SilentHoldNothing, Ended

\* An element of an outstanding list is a request of c, which c may then ask for.
LEMMA OutstandingIsHeld ==
  ASSUME Inv, NEW c \in Peers, NEW r \in Range(requesting[c])
  PROVE  /\ r \in Request /\ r \in Held(Lists) /\ requesting[c] # <<>>
         /\ r \in Range(Lists.requesting[c])
<1>1. requesting[c] \in Seq(Request)
  BY DEF Inv, TypeOK
<1>2. \A k \in DOMAIN requesting[c] : requesting[c][k] \in Request
  BY <1>1, ElementOfSeq, LenProperties
<1>3. requesting[c] # <<>>
  BY DEF Range
<1>4. Lists.requesting[c] = requesting[c]
  BY DEF Lists
<1>5. r \in Range(Lists.requesting[c])
  BY <1>4
<1>6. r \in Own(Lists, c)
  BY <1>5 DEF Own
<1>7. r \in Held(Lists)
  BY <1>6 DEF Held
<1> QED BY <1>2, <1>3, <1>5, <1>7 DEF Range

\* A time-out only moves requests.
LEMMA RequestTimeOutKeeps ==
  ASSUME Inv, NEW c \in Peers, NEW r \in Range(timeOuts[c]), RequestTimeOut(c, r)
  PROVE  Inv'
<1> DEFINE e == RequestPieceBlock(DeleteOutStanding(Lists, c, r), c, has[c], interested[c],
                                  choking[c])
           f == Returned(e, r)
<1>1. UNCHANGED <<infoVars, cacheVars, connVars, notice>> /\ SetLists(f)
  BY DEF RequestTimeOut, Ask, Returned
<1>2. /\ UNCHANGED <<infoVars, got, verifying>> /\ UNCHANGED <<infoVars, fails, notice>>
      /\ got' = got /\ verifying' = verifying
      /\ on' = on /\ interested' = interested /\ has' = has /\ choking' = choking
  BY <1>1 DEF cacheVars, connVars
<1>3. TypeOK /\ Lists \in ListRecords /\ Bounded(Lists, c)
  BY ListsTyped DEF Inv, OutstandingBounded, Bounded, Lists
<1>4. r \in Range(requesting[c])
  BY DEF Inv, RequestsTimed
<1>5. requesting[c] # <<>> /\ r \in Range(Lists.requesting[c])
  BY <1>4, OutstandingIsHeld
<1>6. c \in on /\ ~choking[c] /\ interested[c] /\ ~IsDownloadComplete
  BY <1>5, HolderMayAsk
<1>7. Moves(Lists, f, c) /\ Bounded(f, c)
  BY <1>3, <1>5, TimeOutMoves
<1> HIDE DEF e, f
<1>8. /\ scattered' \in Seq(Request) /\ downloading' \in SUBSET Pieces
      /\ wait' \in [Peers -> Seq(Request)] /\ requesting' \in [Peers -> Seq(Request)]
      /\ timeOuts' \in [Peers -> Seq(Request)]
      /\ \A x \in Peers \ {c} : wait'[x] = wait[x] /\ requesting'[x] = requesting[x]
      /\ RequestsTimed' /\ OutstandingBounded' /\ Phases' /\ Kept' /\ Single'
  BY <1>1, <1>2, <1>7, HandlerKeeps
<1> QED BY <1>2, <1>3, <1>6, <1>8, ConnectionStep DEF TypeOK

\* Deleting an outstanding request takes it from all there are, and no other.
LEMMA DeletedHeld ==
  ASSUME NEW d \in ListRecords, NEW c \in Peers, NEW r \in Range(d.requesting[c]),
         NEW e, e = DeleteOutStanding(d, c, r)
  PROVE  /\ Held(d) \ {r} \subseteq Held(e)
         /\ Once(d) => Once(e) /\ Held(e) \subseteq Held(d) \ {r}
<1>1. /\ e \in ListRecords
      /\ e.scattered = d.scattered /\ e.downloading = d.downloading /\ e.wait = d.wait
      /\ \A x \in Peers \ {c} :
           e.requesting[x] = d.requesting[x] /\ e.timeOuts[x] = d.timeOuts[x]
      /\ Serving(d, c) \ {r} \subseteq Serving(e, c)
      /\ Serving(e, c) \subseteq Serving(d, c)
      /\ Tidy(d, c) /\ r \in Range(d.requesting[c])
           => Tidy(e, c) /\ Serving(e, c) = Serving(d, c) \ {r}
  BY DeleteOutStandingRemoves
<1>2. \A x \in Peers \ {c} : Own(e, x) = Own(d, x)
  BY <1>1 DEF Own
<1>3. Held(d) = Serving(d, c) \cup UNION {Own(d, x) : x \in Peers \ {c}}
  BY DEF Serving, Held
<1>4. Held(e) = Serving(e, c) \cup UNION {Own(d, x) : x \in Peers \ {c}}
  <2>1. Held(e) = Serving(e, c) \cup UNION {Own(e, x) : x \in Peers \ {c}}
    BY DEF Serving, Held
  <2>2. {Own(e, x) : x \in Peers \ {c}} = {Own(d, x) : x \in Peers \ {c}}
    BY <1>2
  <2> QED BY <2>1, <2>2
<1>5. Held(d) \ {r} \subseteq Held(e)
  BY <1>1, <1>3, <1>4
<1>6. ASSUME Once(d) PROVE Once(e) /\ Held(e) \subseteq Held(d) \ {r}
  <2>1. Tidy(d, c) /\ Tidy(e, c) /\ Serving(e, c) = Serving(d, c) \ {r}
    BY <1>1, <1>6 DEF Once
  <2>2. r \in Own(d, c)
    BY DEF Own
  <2>3. \A x \in Peers \ {c} : r \notin Own(d, x)
    BY <1>6, <2>2 DEF Once
  <2>4. Held(e) \subseteq Held(d) \ {r}
    BY <1>3, <1>4, <2>1, <2>3
  <2>5. Own(e, c) \subseteq Own(d, c)
    BY <1>1, <2>1 DEF Serving, Tidy
  <2>6. ASSUME NEW x \in Peers \ {c} PROVE Tidy(e, x)
    <3>1. Tidy(d, x) /\ e.wait[x] = d.wait[x] /\ e.requesting[x] = d.requesting[x]
      BY <1>1, <1>6 DEF Once
    <3> QED BY <1>1, <3>1 DEF Tidy, Own, Serving
  <2>7. \A x \in Peers : Tidy(e, x)
    BY <2>1, <2>6
  <2>8. \A x \in Peers, y \in Peers : x # y => Own(e, x) \cap Own(e, y) = {}
    <3>1. \A x \in Peers : Own(e, x) \subseteq Own(d, x)
      BY <1>2, <2>5
    <3>2. \A x \in Peers, y \in Peers : x # y => Own(d, x) \cap Own(d, y) = {}
      BY <1>6 DEF Once
    <3> QED BY <3>1, <3>2
  <2>9. IsInjective(e.scattered)
    BY <1>1, <1>6 DEF Once
  <2> QED BY <2>4, <2>7, <2>8, <2>9 DEF Once
<1> QED BY <1>5, <1>6

\* A block that comes takes its request away, and is in the cache or in a piece
\* that needs it no longer: no other block loses its request.
LEMMA ReceivePieceKeeps ==
  ASSUME Inv, NEW c \in Peers, ReceivePiece(c)
  PROVE  Inv'
<1>1. PICK r \in Range(requesting[c]) :
        /\ SetLists(RequestPieceBlock(DeleteOutStanding(Lists, c, r), c, has[c],
                                      interested[c], choking[c]))
        /\ CacheWrite(r)
  BY DEF ReceivePiece, Ask
<1> DEFINE d == DeleteOutStanding(Lists, c, r)
           e == RequestPieceBlock(d, c, has[c], interested[c], choking[c])
           p == r[1]
<1>2. SetLists(e)
  BY <1>1
<1>3. /\ endMode' = endMode /\ downloaded' = downloaded /\ counted' = counted
      /\ fails' = fails /\ notice' = notice
      /\ on' = on /\ interested' = interested /\ has' = has /\ choking' = choking
      /\ UNCHANGED <<infoVars, fails, notice>>
  BY DEF ReceivePiece, infoVars, connVars
<1>4. TypeOK /\ RequestsTimed /\ OutstandingBounded /\ Phases /\ Kept /\ Single
  BY DEF Inv
<1>5. /\ r \in Request /\ r \in Held(Lists) /\ requesting[c] # <<>>
      /\ r \in Range(Lists.requesting[c])
  BY OutstandingIsHeld
<1>6. c \in on /\ ~choking[c] /\ interested[c] /\ ~IsDownloadComplete
  BY <1>5, HolderMayAsk
<1>7. Lists \in ListRecords /\ Bounded(Lists, c) /\ Lists.timeOuts[c] = Lists.requesting[c]
  BY <1>4, ListsTyped DEF OutstandingBounded, RequestsTimed, Bounded, Lists
<1>8. /\ d \in ListRecords /\ d.downloading = downloading
      /\ d.wait = wait /\ Bounded(d, c) /\ d.timeOuts[c] = d.requesting[c]
      /\ \A x \in Peers \ {c} : d.requesting[x] = requesting[x] /\ d.timeOuts[x] = timeOuts[x]
  <2>1. Lists.downloading = downloading /\ Lists.wait = wait
        /\ Lists.requesting = requesting /\ Lists.timeOuts = timeOuts
    BY DEF Lists
  <2> QED BY <1>7, <2>1, DeleteOutStandingRemoves
<1>9. /\ Held(Lists) \ {r} \subseteq Held(d)
      /\ Once(Lists) => Once(d) /\ Held(d) \subseteq Held(Lists) \ {r}
  BY <1>5, <1>7, DeletedHeld
<1> HIDE DEF d
<1>10. Moves(d, e, c) /\ Bounded(e, c) /\ e \in ListRecords
  BY <1>8, RequestPieceBlockMoves DEF Moves
<1> HIDE DEF e
<1>11. /\ Lists' = e
       /\ scattered' \in Seq(Request) /\ downloading' \in SUBSET Pieces
       /\ wait' \in [Peers -> Seq(Request)] /\ requesting' \in [Peers -> Seq(Request)]
       /\ timeOuts' \in [Peers -> Seq(Request)]
  BY <1>2, <1>10, SetListsSets
<1>12. /\ e.downloading = downloading' /\ e.wait = wait' /\ e.requesting = requesting'
       /\ e.timeOuts = timeOuts'
  BY <1>2 DEF SetLists
<1>13. \A x \in Peers \ {c} : /\ wait'[x] = wait[x] /\ requesting'[x] = requesting[x]
                              /\ timeOuts'[x] = timeOuts[x]
  BY <1>8, <1>10, <1>12 DEF Moves
<1>14. RequestsTimed'
  <2>1. timeOuts'[c] = requesting'[c]
    BY <1>8, <1>10, <1>12 DEF Moves
  <2> QED BY <1>4, <1>13, <2>1 DEF RequestsTimed
<1>15. OutstandingBounded'
  BY <1>4, <1>10, <1>12, <1>13 DEF Bounded, OutstandingBounded
<1>16. /\ downloading \subseteq downloading' /\ downloading' \cap downloaded \subseteq downloading
       /\ Begun(d, e) = {x \in Request : x[1] \in downloading' \ downloading}
  BY <1>8, <1>10, <1>12 DEF Moves, Begun
<1>17. /\ Held(d) \cup Begun(d, e) \subseteq Held(e)
       /\ ~endMode /\ Once(d) => Once(e) /\ Held(e) \subseteq Held(d) \cup Begun(d, e)
  BY <1>8, <1>10, HeldMoves
<1>18. /\ p \in Pieces /\ r[2] \in Blocks
       /\ \A x \in Request : x[1] = p /\ x[2] = r[2] => x = r
       /\ \A x \in Request : x[1] \in Pieces /\ x[2] \in Blocks
  BY <1>5 DEF Request
<1>19. \/ p \in downloaded \cup verifying /\ got' = got /\ verifying' = verifying
       \/ /\ p \notin downloaded \cup verifying /\ got[p] \cup {r[2]} = Blocks
          /\ got' = [got EXCEPT ![p] = {}] /\ verifying' = verifying \cup {p}
       \/ /\ p \notin downloaded \cup verifying
          /\ got' = [got EXCEPT ![p] = got[p] \cup {r[2]}] /\ verifying' = verifying
  BY <1>1 DEF CacheWrite
<1>20. /\ got' \in [Pieces -> SUBSET Blocks] /\ verifying' \in SUBSET Pieces
       /\ verifying \subseteq verifying' /\ verifying' \subseteq verifying \cup {p}
       /\ \A q \in Pieces \ {p} : got'[q] = got[q]
  <2>1. got \in [Pieces -> SUBSET Blocks] /\ verifying \in SUBSET Pieces
    BY <1>4 DEF TypeOK
  <2>2. got' \in [Pieces -> SUBSET Blocks] /\ \A q \in Pieces \ {p} : got'[q] = got[q]
    <3> HIDE DEF p
    <3>1. got[p] \cup {r[2]} \in SUBSET Blocks
      BY <1>18, <2>1
    <3> QED BY <1>18, <1>19, <2>1, <3>1
  <2>3. /\ verifying' \in SUBSET Pieces /\ verifying \subseteq verifying'
        /\ verifying' \subseteq verifying \cup {p}
    BY <1>18, <1>19, <2>1
  <2> QED BY <2>2, <2>3
<1>21. Phases'
  <2>1. verifying' \cap downloaded = {}
    BY <1>4, <1>19 DEF Phases
  <2>2. downloading' \cap downloaded = {}
    BY <1>4, <1>16 DEF Phases
  <2>3. \A q \in verifying' : got'[q] = {}
    BY <1>4, <1>18, <1>19 DEF Phases, TypeOK
  <2> QED BY <1>3, <2>1, <2>2, <2>3 DEF Phases
<1>22. Missing' \subseteq (Missing \ {r}) \cup Begun(d, e)
  <2> SUFFICES ASSUME NEW x \in Missing', x[1] \in downloading
               PROVE  x \in Missing \ {r}
    BY <1>16 DEF Missing
  <2>1. x \in Request /\ x[1] \notin verifying' /\ x[2] \notin got'[x[1]]
    BY DEF Missing
  <2>2. x[1] \notin verifying /\ x[1] \notin downloaded /\ x[1] \in Pieces
    BY <1>4, <1>18, <1>20, <2>1 DEF Phases
  <2>3. x[2] \notin got[x[1]] /\ x # r
    <3>1. CASE x[1] # p
      BY <1>20, <2>1, <2>2, <3>1
    <3>2. CASE x[1] = p
      BY <1>4, <1>19, <2>1, <2>2, <3>2 DEF TypeOK
    <3> QED BY <3>1, <3>2
  <2> QED BY <2>1, <2>2, <2>3 DEF Missing
<1>23. Held(Lists)' = Held(e) /\ (Once(Lists)' <=> Once(e))
  BY <1>11 DEF Held, Once, Tidy, Serving, Own
<1>24. Kept'
  <2>1. Missing \subseteq Held(Lists)
    BY <1>4, <1>6 DEF Kept
  <2> QED BY <1>9, <1>17, <1>22, <1>23, <2>1 DEF Kept
<1>25. Single'
  <2> SUFFICES ASSUME ~endMode
               PROVE  /\ Once(e) /\ Held(e) \subseteq Missing' /\ verifying' \subseteq downloading'
                      /\ \A q \in Pieces \ downloading' : got'[q] = {}
    BY <1>3, <1>23 DEF Single
  <2>1. /\ Once(Lists) /\ Held(Lists) \subseteq Missing /\ verifying \subseteq downloading
        /\ \A q \in Pieces \ downloading : got[q] = {}
    BY <1>4, <1>6 DEF Single
  <2>2. r \in Missing
    BY <1>5, <2>1
  <2>3. p \in downloading /\ p \notin verifying /\ p \notin downloaded /\ r[2] \notin got[p]
    BY <1>4, <2>2 DEF Missing, Phases
  <2>4. Missing \ {r} \subseteq Missing'
    <3> SUFFICES ASSUME NEW x \in Missing, x # r PROVE x \in Missing'
      OBVIOUS
    <3>1. x \in Request /\ x[1] \in downloading /\ x[1] \notin verifying /\ x[2] \notin got[x[1]]
      BY DEF Missing
    <3>2. CASE x[1] # p
      BY <1>16, <1>18, <1>20, <3>1, <3>2 DEF Missing
    <3>3. CASE x[1] = p
      <4>1. x[2] # r[2] /\ x[2] \in Blocks
        BY <1>18, <3>1, <3>3
      <4>2. got' = [got EXCEPT ![p] = got[p] \cup {r[2]}] /\ verifying' = verifying
        BY <1>19, <2>3, <3>1, <3>3, <4>1
      <4>3. x[2] \notin got'[x[1]]
        BY <1>4, <1>18, <3>1, <3>3, <4>1, <4>2 DEF TypeOK
      <4> QED BY <1>16, <3>1, <4>2, <4>3 DEF Missing
    <3> QED BY <3>2, <3>3
  <2>5. Begun(d, e) \subseteq Missing'
    <3> SUFFICES ASSUME NEW x \in Begun(d, e) PROVE x \in Missing'
      OBVIOUS
    <3>1. x \in Request /\ x[1] \in downloading' /\ x[1] \notin downloading /\ x[1] \in Pieces
      BY <1>16, <1>18
    <3>2. x[1] # p /\ x[1] \notin verifying /\ got[x[1]] = {}
      BY <2>1, <2>3, <3>1
    <3>3. x[1] \notin verifying' /\ got'[x[1]] = {}
      BY <1>20, <3>1, <3>2
    <3> QED BY <3>1, <3>3 DEF Missing
  <2>6. Once(e) /\ Held(e) \subseteq Missing'
    BY <1>9, <1>17, <2>1, <2>4, <2>5
  <2>7. verifying' \subseteq downloading'
    BY <1>16, <1>20, <2>1, <2>3
  <2>8. \A q \in Pieces \ downloading' : got'[q] = {}
    BY <1>16, <1>20, <2>1, <2>3
  <2> QED BY <2>6, <2>7, <2>8
<1> QED BY ZenonT(60), <1>3, <1>4, <1>6, <1>11, <1>13, <1>14, <1>15, <1>20, <1>21, <1>24, <1>25,
           ConnectionStep DEF TypeOK

-----------------------------------------------------------------------------
(* Checks and notifications. *)

\* No more pieces are downloaded than there are.
LEMMA DownloadedCount ==
  ASSUME TypeOK
  PROVE  /\ IsFiniteSet(downloaded) /\ Cardinality(downloaded) \in Nat
         /\ Cardinality(downloaded) <= PieceCount
         /\ Cardinality(downloaded) = PieceCount => downloaded = Pieces
<1>1. PieceCount \in Nat
  BY ConstantsAssumption
<1>2. IsFiniteSet(Pieces) /\ Cardinality(Pieces) = PieceCount
  <2>1. PieceCount - 1 \in Int
    BY <1>1
  <2>2. /\ IsFiniteSet(0 .. PieceCount - 1)
        /\ Cardinality(0 .. PieceCount - 1)
             = IF 0 > PieceCount - 1 THEN 0 ELSE PieceCount - 1 - 0 + 1
    BY <2>1, FS_Interval
  <2> QED BY <1>1, <2>2 DEF Pieces
<1>3. downloaded \in SUBSET Pieces
  BY DEF TypeOK
<1>4. /\ IsFiniteSet(downloaded) /\ Cardinality(downloaded) <= Cardinality(Pieces)
      /\ Cardinality(downloaded) = Cardinality(Pieces) => downloaded = Pieces
  BY <1>2, <1>3, FS_Subset
<1> QED BY <1>2, <1>4, FS_CardinalityType

\* A piece leaves the check: what it had to get it has, so that nothing more or
\* less is missing.
LEMMA CheckedKeeps ==
  ASSUME Inv, NEW p \in verifying, verifying' = verifying \ {p},
         downloading' = downloading \ {p}, got' = got,
         UNCHANGED <<scattered, wait, requesting, timeOuts, endMode, counted>>
  PROVE  Kept' /\ Single' /\ RequestsTimed' /\ OutstandingBounded'
<1>1. Phases /\ Kept /\ Single /\ RequestsTimed /\ OutstandingBounded
  BY DEF Inv
<1>2. Missing' = Missing
  BY DEF Missing
<1>3. /\ IsDownloadComplete' <=> IsDownloadComplete
      /\ Lists.scattered = scattered /\ Lists.wait = wait /\ Lists.requesting = requesting
      /\ Lists.downloading = downloading
      /\ Lists'.scattered = scattered /\ Lists'.wait = wait
      /\ Lists'.requesting = requesting /\ Lists'.downloading = downloading \ {p}
  BY DEF IsDownloadComplete, Finished, Lists
<1> DEFINE d == Lists
           e == Lists'
<1> HIDE DEF d, e
<1>4. \A c \in Peers : Own(e, c) = Own(d, c) /\ Serving(e, c) = Serving(d, c)
  BY <1>3 DEF Own, Serving, d, e
<1>5. Held(e) = Held(d)
  BY <1>3, <1>4 DEF Held, d, e
<1>6. Held(Lists)' = Held(e) /\ (Once(Lists)' <=> Once(e))
  BY DEF e, Held, Once, Tidy, Serving, Own
<1>7. Kept'
  BY <1>1, <1>2, <1>3, <1>5, <1>6 DEF Kept, d
<1>8. Single'
  <2> SUFFICES ASSUME ~IsDownloadComplete, ~endMode
               PROVE  /\ Once(e) /\ Held(e) \subseteq Missing /\ verifying' \subseteq downloading'
                      /\ \A q \in Pieces \ downloading' : got[q] = {}
    BY <1>2, <1>3, <1>6 DEF Single
  <2>1. /\ Once(d) /\ Held(d) \subseteq Missing /\ verifying \subseteq downloading
        /\ \A q \in Pieces \ downloading : got[q] = {}
    BY <1>1 DEF Single, d
  <2>2. \A x \in Missing : x[1] \in downloading'
    BY DEF Missing
  <2>3. \A c \in Peers : Tidy(e, c)
    <3> TAKE c \in Peers
    <3>1. Serving(e, c) \subseteq Held(d)
      BY <1>4 DEF Serving, Held
    <3>2. \A x \in Serving(e, c) : x[1] \in e.downloading
      BY <1>3, <2>1, <2>2, <3>1 DEF e
    <3>3. Tidy(d, c)
      BY <2>1 DEF Once
    <3>4. /\ e.scattered = d.scattered /\ e.wait[c] = d.wait[c]
          /\ e.requesting[c] = d.requesting[c]
      BY <1>3 DEF d, e
    <3> QED BY <1>4, <3>2, <3>3, <3>4 DEF Tidy
  <2>4. IsInjective(e.scattered)
    BY <1>3, <2>1 DEF Once, d, e
  <2>5. Once(e)
    BY <1>4, <2>1, <2>3, <2>4 DEF Once
  <2>6. \A q \in Pieces \ downloading' : got[q] = {}
    BY <1>1, <2>1 DEF Phases
  <2> QED BY <1>5, <2>1, <2>5, <2>6
<1>9. RequestsTimed' /\ OutstandingBounded'
  BY <1>1 DEF RequestsTimed, OutstandingBounded
<1> QED BY <1>7, <1>8, <1>9

\* A finished check keeps the invariant, whether the piece was good or not.
LEMMA CheckKeeps ==
  ASSUME Inv, NEW p \in Pieces, Check(p)
  PROVE  Inv'
<1>1. /\ TypeOK /\ Phases /\ Counting /\ Notices /\ Interest /\ SilentHoldNothing /\ Ended
  BY DEF Inv
<1>2. /\ Quiet /\ p \in verifying /\ verifying' = verifying \ {p}
      /\ downloading' = downloading \ {p} /\ got' = got
      /\ UNCHANGED <<scattered, wait, requesting, timeOuts, endMode, counted>>
      /\ UNCHANGED connVars
  BY DEF Check, MarkDownloadComplete, DownloadingFailed, infoVars
<1>3. Kept' /\ Single' /\ RequestsTimed' /\ OutstandingBounded'
  BY <1>2, CheckedKeeps
<1>4. on' = on /\ has' = has /\ interested' = interested /\ choking' = choking
  BY <1>2 DEF connVars
<1>5. Interest' /\ SilentHoldNothing'
  BY <1>1, <1>2, <1>4 DEF Interest, SilentHoldNothing
<1>6. Ended'
  BY <1>1, <1>2, <1>4 DEF Ended, IsDownloadComplete, Finished
<1>7. notice.left = {} /\ counted = Cardinality(downloaded)
  <2>1. notice.left = {}
    BY <1>1, <1>2 DEF Quiet, Notices
  <2>2. counted \in Nat
    BY <1>1, ConstantsAssumption DEF TypeOK
  <2> QED BY <1>1, <2>1, <2>2 DEF Counting
<1>8. CASE MarkDownloadComplete(p)
  <2>1. /\ downloaded' = downloaded \cup {p} /\ fails' = fails
        /\ notice' = [kind |-> "complete", piece |-> p,
                      left |-> {"updater", "dispatcher"} \cup on]
    BY <1>8 DEF MarkDownloadComplete
  <2>2. notice' \in Notice
    BY <1>1, <2>1 DEF TypeOK, Notice
  <2>3. TypeOK'
    BY <1>1, <1>2, <1>4, <2>1, <2>2 DEF TypeOK
  <2>4. Phases'
    BY <1>1, <1>2, <2>1 DEF Phases
  <2>5. Notices'
    BY <2>1 DEF Notices
  <2>6. Counting'
    <3>1. p \notin downloaded
      BY <1>1, <1>2 DEF Phases
    <3>2. IsFiniteSet(downloaded)
      BY <1>1, DownloadedCount
    <3>3. Cardinality(downloaded \cup {p}) = Cardinality(downloaded) + 1
      BY <3>1, <3>2, FS_AddElement, Zenon
    <3>4. "updater" \in notice'.left
      BY <2>1
    <3> QED BY <1>2, <1>7, <2>1, <3>3, <3>4 DEF Counting
  <2> QED BY <1>3, <1>5, <1>6, <2>3, <2>4, <2>5, <2>6 DEF Inv
<1>9. CASE DownloadingFailed(p)
  <2>1. /\ downloaded' = downloaded /\ fails' = fails + 1
        /\ notice' = IF on = {} THEN NoNotice
                     ELSE [kind |-> "failed", piece |-> p, left |-> on]
    BY <1>9 DEF DownloadingFailed, infoVars
  <2>2. notice' \in Notice /\ notice'.left = on
    BY <1>1, <2>1 DEF TypeOK, Notice, NoNotice
  <2>3. TypeOK'
    BY <1>1, <1>2, <1>4, <2>1, <2>2 DEF TypeOK
  <2>4. Phases'
    BY <1>1, <1>2, <2>1 DEF Phases
  <2>5. Notices'
    BY <1>1, <2>1, <2>2 DEF Notices, NoNotice, TypeOK
  <2>6. Counting'
    <3>1. "updater" \notin on
      BY <1>1, ConstantsAssumption DEF TypeOK
    <3> QED BY <1>1, <1>2, <1>7, <2>1, <2>2, <3>1 DEF Counting
  <2> QED BY <1>3, <1>5, <1>6, <2>3, <2>4, <2>5, <2>6 DEF Inv
<1> QED BY <1>8, <1>9 DEF Check

\* An observer that has been called is called no more; the notification is of a
\* finished piece if the updater or the dispatcher hears of it.
LEMMA ReachedKeeps ==
  ASSUME Inv, NEW o, Reached(o), downloaded' = downloaded
  PROVE  /\ notice' \in Notice /\ notice'.left = notice.left \ {o} /\ Notices'
         /\ o \in notice.left
         /\ o \notin Peers => notice.kind = "complete" /\ notice.piece \in downloaded
<1>1. notice \in Notice /\ Notices
  BY DEF Inv, TypeOK
<1>2. o \in notice.left
  BY DEF Reached
<1>3. CASE notice.left = {o}
  <2>1. notice' = NoNotice
    BY <1>3 DEF Reached
  <2>2. notice' \in Notice /\ notice'.left = {} /\ notice'.kind = "none"
    BY <2>1 DEF Notice, NoNotice
  <2>3. Notices'
    BY <2>2 DEF Notices
  <2> QED BY <1>1, <1>2, <1>3, <2>2, <2>3 DEF Notices, Notice
<1>4. CASE notice.left # {o}
  <2>1. notice' = [notice EXCEPT !.left = notice.left \ {o}]
    BY <1>4 DEF Reached
  <2>2. /\ notice' \in Notice /\ notice'.left = notice.left \ {o}
        /\ notice'.kind = notice.kind /\ notice'.piece = notice.piece
    BY <1>1, <2>1 DEF Notice
  <2>3. notice'.left # {} /\ notice.kind # "none"
    BY <1>1, <1>2, <1>4, <2>2 DEF Notices
  <2>4. Notices'
    BY <1>1, <2>2, <2>3 DEF Notices
  <2> QED BY <1>1, <1>2, <2>2, <2>4 DEF Notices, Notice
<1> QED BY <1>3, <1>4

\* The updater counts a piece that is downloaded; when it was the last nothing
\* is asked for any more.
LEMMA NotifyUpdaterKeeps ==
  ASSUME Inv, NotifyUpdater
  PROVE  Inv'
<1>1. /\ TypeOK /\ RequestsTimed /\ OutstandingBounded /\ SilentHoldNothing /\ Interest
      /\ Counting /\ Phases /\ Notices /\ Ended /\ Kept /\ Single
  BY DEF Inv
<1>2. /\ Reached("updater") /\ counted' = counted + 1
      /\ IF Finished(counted + 1) THEN Complete
                                  ELSE UNCHANGED <<interested, wait, requesting, timeOuts>>
      /\ scattered' = scattered /\ downloading' = downloading /\ endMode' = endMode
      /\ downloaded' = downloaded /\ got' = got /\ verifying' = verifying /\ fails' = fails
      /\ on' = on /\ has' = has /\ choking' = choking
  BY DEF NotifyUpdater, cacheVars
<1>3. /\ notice' \in Notice /\ notice'.left = notice.left \ {"updater"} /\ Notices'
      /\ "updater" \in notice.left
  BY <1>2, ReachedKeeps
<1>4. counted \in Nat /\ counted + 1 = Cardinality(downloaded) /\ counted + 1 <= PieceCount
  <2>1. counted \in Nat /\ PieceCount \in Nat
    BY <1>1, ConstantsAssumption DEF TypeOK
  <2>2. counted + 1 = Cardinality(downloaded)
    BY <1>1, <1>3 DEF Counting
  <2> QED BY <1>1, <2>1, <2>2, DownloadedCount
<1>5. counted' \in 0 .. PieceCount
  BY <1>2, <1>4, ConstantsAssumption
<1>6. Counting'
  <2>1. "updater" \notin notice'.left
    BY <1>3
  <2> QED BY <1>2, <1>4, <2>1 DEF Counting
<1>7. Phases'
  BY <1>1, <1>2 DEF Phases
<1>8. CASE Finished(counted + 1)
  <2>1. Complete
    BY <1>2, <1>8
  <2>2. IsDownloadComplete'
    BY <1>2, <1>8 DEF IsDownloadComplete, Finished
  <2>3. <<>> \in Seq(Request) /\ Len(<<>>) = 0
    BY EmptySeq
  <2>4. /\ interested' \in [Peers -> BOOLEAN] /\ wait' \in [Peers -> Seq(Request)]
        /\ requesting' \in [Peers -> Seq(Request)] /\ timeOuts' \in [Peers -> Seq(Request)]
        /\ \A c \in Peers : /\ ~interested'[c] /\ wait'[c] = <<>>
                            /\ requesting'[c] = <<>> /\ timeOuts'[c] = <<>>
    BY <2>1, <2>3 DEF Complete
  <2>5. TypeOK'
    BY <1>1, <1>2, <1>3, <1>5, <2>4 DEF TypeOK
  <2>6. RequestsTimed' /\ SilentHoldNothing' /\ Interest' /\ Ended'
    BY <2>4 DEF RequestsTimed, SilentHoldNothing, Interest, Ended
  <2>7. OutstandingBounded'
    <3>1. MaxOutstanding >= 0 /\ 0 < 2 * BlockCount
      BY ConstantsAssumption
    <3> QED BY <2>3, <2>4, <3>1 DEF OutstandingBounded
  <2>8. Kept' /\ Single'
    BY <2>2 DEF Kept, Single
  <2> QED BY <1>3, <1>6, <1>7, <2>5, <2>6, <2>7, <2>8 DEF Inv
<1>9. CASE ~Finished(counted + 1)
  <2>1. /\ interested' = interested /\ wait' = wait /\ requesting' = requesting
        /\ timeOuts' = timeOuts
    BY <1>2, <1>9
  <2>2. ~IsDownloadComplete' /\ ~IsDownloadComplete
    BY <1>2, <1>4, <1>9, ConstantsAssumption DEF IsDownloadComplete, Finished
  <2>3. TypeOK'
    BY <1>1, <1>2, <1>3, <1>5, <2>1 DEF TypeOK
  <2>4. RequestsTimed' /\ OutstandingBounded' /\ SilentHoldNothing' /\ Interest' /\ Ended'
    BY <1>1, <1>2, <2>1, <2>2
    DEF RequestsTimed, OutstandingBounded, SilentHoldNothing, Interest, Ended
  <2>5. Lists' = Lists /\ Missing' = Missing
    BY <1>2, <2>1 DEF Lists, Missing
  <2>6. Kept' /\ Single'
    BY <1>1, <1>2, <2>2, <2>5 DEF Kept, Single, Held, Once, Tidy, Serving, Own
  <2> QED BY <1>3, <1>6, <1>7, <2>3, <2>4, <2>6 DEF Inv
<1> QED BY <1>8, <1>9

\* What a finished piece leaves of a list.
LEMMA WithoutRange ==
  ASSUME NEW s \in Seq(Request), NEW p
  PROVE  /\ Without(s, p) \in Seq(Request) /\ Len(Without(s, p)) <= Len(s)
         /\ \A r \in Range(s) : r[1] # p => r \in Range(Without(s, p))
<1> DEFINE I == {i \in DOMAIN s : s[i][1] # p}
<1>1. I \in SUBSET DOMAIN s
  OBVIOUS
<1>2. Without(s, p) = Pick(s, I)
  BY DEF Without
<1>3. \A r \in Range(s) : r[1] # p => \E i \in I : s[i] = r
  BY DEF Range
<1> HIDE DEF I
<1>4. /\ Pick(s, I) \in Seq(Request) /\ Len(Pick(s, I)) = Cardinality(I)
      /\ Cardinality(I) <= Len(s)
      /\ Range(Pick(s, I)) = {s[i] : i \in I}
  BY <1>1, PickRange
<1> QED BY <1>2, <1>3, <1>4

\* The dispatcher forgets the scattered requests of a finished piece, of which
\* none is missing, or enters end mode.
LEMMA NotifyDispatcherKeeps ==
  ASSUME Inv, NotifyDispatcher
  PROVE  Inv'
<1>1. /\ TypeOK /\ RequestsTimed /\ OutstandingBounded /\ SilentHoldNothing /\ Interest
      /\ Counting /\ Phases /\ Notices /\ Ended /\ Kept /\ Single
  BY DEF Inv
<1>2. /\ Reached("dispatcher")
      /\ IF endMode
           THEN scattered' = Without(scattered, notice.piece) /\ endMode' = endMode
           ELSE endMode' = EnterEndDownloadMode /\ scattered' = scattered
      /\ downloading' = downloading /\ wait' = wait /\ requesting' = requesting
      /\ timeOuts' = timeOuts /\ downloaded' = downloaded /\ counted' = counted
      /\ got' = got /\ verifying' = verifying /\ fails' = fails
      /\ on' = on /\ has' = has /\ interested' = interested /\ choking' = choking
  BY DEF NotifyDispatcher, cacheVars, connVars
<1>3. "dispatcher" \notin Peers
  BY ConstantsAssumption
<1>4. /\ notice' \in Notice /\ notice'.left = notice.left \ {"dispatcher"} /\ Notices'
      /\ notice.piece \in downloaded
  BY <1>2, <1>3, ReachedKeeps
<1>5. scattered' \in Seq(Request) /\ endMode' \in BOOLEAN
  <2>1. scattered \in Seq(Request) /\ endMode \in BOOLEAN
    BY <1>1 DEF TypeOK
  <2>2. EnterEndDownloadMode \in BOOLEAN
    BY DEF EnterEndDownloadMode
  <2>3. Without(scattered, notice.piece) \in Seq(Request)
    BY <2>1, WithoutRange
  <2> QED BY <1>2, <2>1, <2>2, <2>3
<1>6. TypeOK'
  BY <1>1, <1>2, <1>4, <1>5 DEF TypeOK
<1>7. RequestsTimed' /\ OutstandingBounded' /\ SilentHoldNothing' /\ Interest' /\ Ended'
  BY <1>1, <1>2
  DEF RequestsTimed, OutstandingBounded, SilentHoldNothing, Interest, Ended,
      IsDownloadComplete, Finished
<1>8. Counting'
  <2>1. "updater" \in notice'.left <=> "updater" \in notice.left
    BY <1>4
  <2> QED BY <1>1, <1>2, <2>1 DEF Counting
<1>9. Phases'
  BY <1>1, <1>2 DEF Phases
<1>10. /\ Missing' = Missing /\ (IsDownloadComplete' <=> IsDownloadComplete)
       /\ Lists.scattered = scattered /\ Lists'.scattered = scattered'
       /\ \A c \in Peers : Own(Lists, c)' = Own(Lists, c)
  BY <1>2 DEF Missing, IsDownloadComplete, Finished, Lists, Own
<1>11. CASE endMode
  <2>1. \A r \in Missing : r[1] # notice.piece
    BY <1>1, <1>4 DEF Missing, Phases
  <2>2. \A r \in Range(scattered) : r[1] # notice.piece => r \in Range(scattered')
    BY <1>1, <1>2, <1>11, WithoutRange DEF TypeOK
  <2>3. ASSUME NEW r \in Missing, r \in Held(Lists) PROVE r \in Held(Lists)'
    <3>1. CASE r \in Range(scattered)
      BY <1>10, <2>1, <2>2, <3>1 DEF Held
    <3>2. CASE \E c \in Peers : r \in Own(Lists, c)
      BY <1>10, <3>2 DEF Held
    <3> QED BY <1>10, <2>3, <3>1, <3>2 DEF Held
  <2>4. Kept'
    BY <1>1, <1>10, <2>3 DEF Kept
  <2>5. Single'
    BY <1>2, <1>11 DEF Single
  <2> QED BY <1>4, <1>6, <1>7, <1>8, <1>9, <2>4, <2>5 DEF Inv
<1>12. CASE ~endMode
  <2>1. Lists' = Lists
    BY <1>2, <1>12 DEF Lists
  <2>2. Kept' /\ Single'
    BY <1>1, <1>2, <1>10, <1>12, <2>1 DEF Kept, Single, Held, Once, Tidy, Serving, Own
  <2> QED BY <1>4, <1>6, <1>7, <1>8, <1>9, <2>2 DEF Inv
<1> QED BY <1>11, <1>12

\* The invariant after a connection has been told: only its lists may differ.
LEMMA ToldStep ==
  ASSUME Inv, NEW c \in Peers, Reached(c),
         scattered' \in Seq(Request), downloading' \in SUBSET Pieces,
         wait' \in [Peers -> Seq(Request)], requesting' \in [Peers -> Seq(Request)],
         timeOuts' \in [Peers -> Seq(Request)],
         \A x \in Peers \ {c} : wait'[x] = wait[x] /\ requesting'[x] = requesting[x],
         RequestsTimed', OutstandingBounded', Phases', Kept', Single',
         c \notin on \/ choking[c] \/ ~interested[c]
           => wait'[c] = <<>> /\ requesting'[c] = <<>>,
         UNCHANGED <<infoVars, cacheVars, connVars>>
  PROVE  Inv'
<1>1. /\ TypeOK /\ SilentHoldNothing /\ Interest /\ Counting /\ Notices /\ Ended
  BY DEF Inv
<1>2. /\ endMode' = endMode /\ downloaded' = downloaded /\ counted' = counted
      /\ got' = got /\ verifying' = verifying /\ fails' = fails
      /\ on' = on /\ has' = has /\ interested' = interested /\ choking' = choking
  BY DEF infoVars, cacheVars, connVars
<1>3. notice' \in Notice /\ notice'.left = notice.left \ {c} /\ Notices'
  BY <1>2, ReachedKeeps
<1>4. TypeOK'
  BY <1>1, <1>2, <1>3 DEF TypeOK
<1>5. SilentHoldNothing'
  <2>1. ASSUME NEW x \in Peers, x \notin on \/ choking[x] \/ ~interested[x], x # c
        PROVE  wait'[x] = <<>> /\ requesting'[x] = <<>>
    BY <1>1, <2>1 DEF SilentHoldNothing
  <2> QED BY <1>2, <2>1 DEF SilentHoldNothing
<1>6. Interest' /\ Ended'
  BY <1>1, <1>2 DEF Interest, Ended, IsDownloadComplete, Finished
<1>7. Counting'
  <2>1. c # "updater"
    BY ConstantsAssumption
  <2>2. "updater" \in notice'.left <=> "updater" \in notice.left
    BY <1>3, <2>1
  <2> QED BY <1>1, <1>2, <2>2 DEF Counting
<1> QED BY <1>3, <1>4, <1>5, <1>6, <1>7 DEF Inv

\* Told of a failed piece, a connection asks.
LEMMA NotifyPeerFailedKeeps ==
  ASSUME Inv, NEW c \in Peers, NotifyPeerFailed(c)
  PROVE  Inv'
<1>1. /\ Reached(c) /\ UNCHANGED <<infoVars, cacheVars, connVars>>
      /\ SetLists(RequestPieceBlock(Lists, c, has[c], interested[c], choking[c]))
  BY DEF NotifyPeerFailed, Ask
<1>2. UNCHANGED <<infoVars, got, verifying>>
  BY <1>1 DEF cacheVars
<1>3. /\ scattered' \in Seq(Request) /\ downloading' \in SUBSET Pieces
      /\ wait' \in [Peers -> Seq(Request)] /\ requesting' \in [Peers -> Seq(Request)]
      /\ timeOuts' \in [Peers -> Seq(Request)]
      /\ \A x \in Peers \ {c} : wait'[x] = wait[x] /\ requesting'[x] = requesting[x]
      /\ ~interested[c] \/ choking[c] => wait'[c] = wait[c] /\ requesting'[c] = requesting[c]
      /\ RequestsTimed' /\ OutstandingBounded' /\ Phases' /\ Kept' /\ Single'
  BY <1>1, <1>2, AskKeeps
<1>4. interested[c] => c \in on
  BY DEF Inv, Interest
<1>5. c \notin on \/ choking[c] \/ ~interested[c]
        => wait'[c] = <<>> /\ requesting'[c] = <<>>
  BY <1>3, <1>4 DEF Inv, SilentHoldNothing
<1> QED BY <1>1, <1>3, <1>5, ToldStep

\* Told of a finished piece in end mode, a connection cancels the requests of the
\* piece, none of which is missing, and asks (BitPeerConnection.cpp:191-220).
LEMMA NotifyPeerCompleteKeeps ==
  ASSUME Inv, NEW c \in Peers, NotifyPeerComplete(c)
  PROVE  Inv'
<1>1. /\ notice.kind = "complete" /\ Reached(c)
      /\ UNCHANGED <<infoVars, cacheVars, connVars>>
  BY DEF NotifyPeerComplete
<1>2. /\ TypeOK /\ RequestsTimed /\ OutstandingBounded /\ SilentHoldNothing /\ Interest
      /\ Phases /\ Notices /\ Kept /\ Single
  BY DEF Inv
<1>3. /\ endMode' = endMode /\ downloaded' = downloaded /\ counted' = counted
      /\ got' = got /\ verifying' = verifying
      /\ UNCHANGED <<infoVars, got, verifying>>
      /\ IsDownloadComplete' <=> IsDownloadComplete
  BY <1>1 DEF infoVars, cacheVars, IsDownloadComplete, Finished
<1>4. interested[c] => c \in on
  BY <1>2 DEF Interest
<1>5. notice.piece \in downloaded
  BY <1>1, <1>2 DEF Notices
<1>6. CASE ~endMode
  <2>1. /\ scattered' = scattered /\ downloading' = downloading /\ wait' = wait
        /\ requesting' = requesting /\ timeOuts' = timeOuts
    BY <1>6 DEF NotifyPeerComplete, listVars
  <2>2. RequestsTimed' /\ OutstandingBounded' /\ Phases'
    BY <1>2, <1>3, <2>1 DEF RequestsTimed, OutstandingBounded, Phases
  <2>3. Lists' = Lists /\ Missing' = Missing
    BY <1>3, <2>1 DEF Lists, Missing
  <2>4. Kept' /\ Single'
    <3>1. (Held(Lists))' = Held(Lists)
      BY <2>3 DEF Held, Own
    <3>2. (Once(Lists))' <=> Once(Lists)
      BY <2>3 DEF Once, Tidy, Serving, Own
    <3>3. Kept'
      BY <1>2, <1>3, <2>3, <3>1 DEF Kept
    <3>4. Single'
      BY <1>2, <1>3, <2>1, <2>3, <3>1, <3>2 DEF Single
    <3> QED BY <3>3, <3>4
  <2>5. c \notin on \/ choking[c] \/ ~interested[c]
          => wait'[c] = <<>> /\ requesting'[c] = <<>>
    BY <1>2, <2>1 DEF SilentHoldNothing
  <2> QED BY <1>1, <1>2, <2>1, <2>2, <2>4, <2>5, ToldStep DEF TypeOK
<1>7. CASE endMode
  <2> DEFINE p == notice.piece
             w == Without(wait[c], p)
             q == Without(requesting[c], p)
             t == Without(timeOuts[c], p)
             d == [Lists EXCEPT !.requesting[c] = q, !.timeOuts[c] = t, !.wait[c] = w]
             e == RequestPieceBlock(d, c, has[c], interested[c], choking[c])
  <2>1. SetLists(e)
    BY <1>7 DEF NotifyPeerComplete, Ask, Lists
  <2>2. /\ w \in Seq(Request) /\ Len(w) <= Len(wait[c])
        /\ \A r \in Range(wait[c]) : r[1] # p => r \in Range(w)
    <3>1. wait[c] \in Seq(Request)
      BY <1>2 DEF TypeOK
    <3> QED BY <3>1, WithoutRange
  <2>3. /\ q \in Seq(Request) /\ Len(q) <= Len(requesting[c])
        /\ \A r \in Range(requesting[c]) : r[1] # p => r \in Range(q)
    <3>1. requesting[c] \in Seq(Request)
      BY <1>2 DEF TypeOK
    <3> QED BY <3>1, WithoutRange
  <2>4. t = q
    BY <1>2 DEF RequestsTimed
  <2> HIDE DEF w, q, t
  <2>5. /\ d.scattered = scattered /\ d.downloading = downloading
        /\ d.wait = [wait EXCEPT ![c] = w] /\ d.requesting = [requesting EXCEPT ![c] = q]
        /\ d.timeOuts = [timeOuts EXCEPT ![c] = t]
        /\ d = [scattered |-> scattered, downloading |-> downloading,
                wait |-> d.wait, requesting |-> d.requesting, timeOuts |-> d.timeOuts]
    <3> DEFINE Q == [requesting EXCEPT ![c] = q]
               W == [wait EXCEPT ![c] = w]
               T == [timeOuts EXCEPT ![c] = t]
               l == Lists
    <3>1. l = [scattered |-> scattered, downloading |-> downloading, wait |-> wait,
               requesting |-> requesting, timeOuts |-> timeOuts]
      BY DEF Lists
    <3>2. d = [l EXCEPT !.requesting = Q, !.timeOuts = T, !.wait = W]
      BY DEF Lists
    <3> HIDE DEF Q, W, T, l, d, e
    <3>3. d = [scattered |-> scattered, downloading |-> downloading, wait |-> W,
               requesting |-> Q, timeOuts |-> T]
      BY <3>1, <3>2
    <3> QED BY <3>3 DEF Q, W, T
  <2> HIDE DEF d
  <2>6. /\ wait \in [Peers -> Seq(Request)] /\ requesting \in [Peers -> Seq(Request)]
        /\ timeOuts \in [Peers -> Seq(Request)] /\ scattered \in Seq(Request)
        /\ downloading \in SUBSET Pieces
    BY <1>2 DEF TypeOK
  <2>7. d \in ListRecords
    <3>1. /\ d.wait \in [Peers -> Seq(Request)] /\ d.requesting \in [Peers -> Seq(Request)]
          /\ d.timeOuts \in [Peers -> Seq(Request)]
      BY <2>2, <2>3, <2>4, <2>5, <2>6
    <3> QED BY <2>5, <2>6, <3>1 DEF ListRecords
  <2>8. /\ d.wait[c] = w /\ d.requesting[c] = q /\ d.timeOuts[c] = q
        /\ \A x \in Peers \ {c} : /\ d.wait[x] = wait[x] /\ d.requesting[x] = requesting[x]
                                  /\ d.timeOuts[x] = timeOuts[x]
    BY <2>4, <2>5, <2>6
  <2>9. Bounded(d, c)
    <3>1. /\ Len(w) \in Nat /\ Len(wait[c]) \in Nat /\ Len(q) \in Nat
          /\ Len(requesting[c]) \in Nat
      BY <2>2, <2>3, <2>6, LenProperties
    <3>2. Len(requesting[c]) <= MaxOutstanding /\ Len(wait[c]) < 2 * BlockCount
      BY <1>2 DEF OutstandingBounded
    <3>3. Len(q) <= MaxOutstanding /\ Len(w) < 2 * BlockCount
      BY <2>2, <2>3, <3>1, <3>2, ConstantsAssumption
    <3> QED BY <2>8, <3>3 DEF Bounded
  <2>10. /\ Moves(d, e, c) /\ Bounded(e, c) /\ (~interested[c] \/ choking[c] => e = d)
         /\ e \in ListRecords
    BY <2>7, <2>9, RequestPieceBlockMoves DEF Moves
  <2> HIDE DEF e
  <2>11. /\ Lists' = e
         /\ scattered' \in Seq(Request) /\ downloading' \in SUBSET Pieces
         /\ wait' \in [Peers -> Seq(Request)] /\ requesting' \in [Peers -> Seq(Request)]
         /\ timeOuts' \in [Peers -> Seq(Request)]
         /\ e.downloading = downloading' /\ e.wait = wait' /\ e.requesting = requesting'
         /\ e.timeOuts = timeOuts'
    BY <2>1, <2>10, SetListsSets DEF SetLists
  <2>12. \A x \in Peers \ {c} : /\ wait'[x] = wait[x] /\ requesting'[x] = requesting[x]
                                /\ timeOuts'[x] = timeOuts[x]
    BY <2>8, <2>10, <2>11 DEF Moves
  <2>13. RequestsTimed' /\ OutstandingBounded'
    <3>1. timeOuts'[c] = requesting'[c]
      BY <2>8, <2>10, <2>11 DEF Moves
    <3>2. Len(requesting'[c]) <= MaxOutstanding /\ Len(wait'[c]) < 2 * BlockCount
      BY <2>10, <2>11 DEF Bounded
    <3> QED BY <1>2, <2>12, <3>1, <3>2 DEF RequestsTimed, OutstandingBounded
  <2>14. /\ downloading' \cap downloaded \subseteq downloading
         /\ Begun(d, e) = {r \in Request : r[1] \in downloading' \ downloading}
    BY <2>5, <2>10, <2>11 DEF Moves, Begun
  <2>15. Phases'
    BY <1>2, <1>3, <2>14 DEF Phases
  <2>16. Kept'
    <3>1. Held(d) \cup Begun(d, e) \subseteq Held(e)
      BY <2>7, <2>10, HeldMoves
    <3>2. Missing' \subseteq Missing \cup Begun(d, e)
      BY <1>3, <2>14 DEF Missing
    <3>3. \A r \in Missing : r[1] # p
      BY <1>2, <1>5 DEF Missing, Phases
    <3>4. ASSUME NEW r \in Held(Lists), r[1] # p PROVE r \in Held(d)
      <4>1. CASE r \in Range(scattered)
        BY <2>5, <4>1 DEF Held
      <4>2. CASE r \in Range(wait[c]) \/ r \in Range(requesting[c])
        BY <2>2, <2>3, <2>8, <3>4, <4>2 DEF Held, Own
      <4>3. CASE \E x \in Peers \ {c} : r \in Range(wait[x]) \/ r \in Range(requesting[x])
        BY <2>8, <4>3 DEF Held, Own
      <4> QED BY <3>4, <4>1, <4>2, <4>3 DEF Held, Own, Lists
    <3>5. Held(Lists)' = Held(e)
      BY <2>11 DEF Held, Own
    <3> QED BY <1>2, <1>3, <3>1, <3>2, <3>3, <3>4, <3>5 DEF Kept
  <2>17. Single'
    BY <1>3, <1>7 DEF Single
  <2>18. ASSUME c \notin on \/ choking[c] \/ ~interested[c]
         PROVE  wait'[c] = <<>> /\ requesting'[c] = <<>>
    <3>1. wait[c] = <<>> /\ requesting[c] = <<>>
      BY <1>2, <2>18 DEF SilentHoldNothing
    <3>2. Len(w) = 0 /\ Len(q) = 0
      BY <2>2, <2>3, <3>1, LenProperties, EmptySeq
    <3>3. w = <<>> /\ q = <<>>
      BY <2>2, <2>3, <3>2, EmptySeq
    <3>4. e = d
      BY <1>4, <2>10, <2>18
    <3> QED BY <2>8, <2>11, <3>3, <3>4
  <2> QED BY <1>1, <2>11, <2>12, <2>13, <2>15, <2>16, <2>17, <2>18, ToldStep
<1> QED BY <1>6, <1>7

\* Nothing has begun at first.
LEMMA InitInv ==
  ASSUME Init
  PROVE  Inv
<1>1. /\ scattered = <<>> /\ endMode = FALSE
      /\ downloading = {} /\ downloaded = {} /\ counted = 0
      /\ got = [p \in Pieces |-> {}] /\ verifying = {} /\ fails = 0
      /\ on = {} /\ has = [c \in Peers |-> {}]
      /\ interested = [c \in Peers |-> FALSE] /\ choking = [c \in Peers |-> TRUE]
      /\ wait = [c \in Peers |-> <<>>] /\ requesting = [c \in Peers |-> <<>>]
      /\ timeOuts = [c \in Peers |-> <<>>] /\ notice = NoNotice
  BY DEF Init
<1>2. <<>> \in Seq(Request) /\ Len(<<>>) = 0 /\ Range(<<>>) = {} /\ IsInjective(<<>>)
  BY EmptySeq DEF Range, IsInjective
<1>3. NoNotice \in Notice /\ NoNotice.left = {} /\ NoNotice.kind = "none"
  BY DEF Notice, NoNotice
<1>4. TypeOK
  <2>1. /\ has \in [Peers -> SUBSET Pieces] /\ interested \in [Peers -> BOOLEAN]
        /\ choking \in [Peers -> BOOLEAN] /\ got \in [Pieces -> SUBSET Blocks]
    BY <1>1
  <2>2. /\ wait \in [Peers -> Seq(Request)] /\ requesting \in [Peers -> Seq(Request)]
        /\ timeOuts \in [Peers -> Seq(Request)] /\ scattered \in Seq(Request)
    BY <1>1, <1>2
  <2>3. counted \in 0 .. PieceCount /\ fails \in Nat
    BY <1>1, ConstantsAssumption
  <2> QED BY <1>1, <1>3, <2>1, <2>2, <2>3 DEF TypeOK
<1>5. RequestsTimed /\ SilentHoldNothing /\ Interest /\ Ended
  BY <1>1 DEF RequestsTimed, SilentHoldNothing, Interest, Ended
<1>6. OutstandingBounded
  BY <1>1, <1>2, ConstantsAssumption DEF OutstandingBounded
<1>7. Counting /\ Phases /\ Notices
  BY <1>1, <1>3, FS_EmptySet DEF Counting, Phases, Notices
<1>8. Missing = {}
  BY <1>1 DEF Missing
<1>9. Kept
  BY <1>8 DEF Kept
<1>10. Single
  <2>1. /\ Range(Lists.scattered) = {} /\ IsInjective(Lists.scattered)
        /\ \A c \in Peers : /\ Own(Lists, c) = {} /\ IsInjective(Lists.wait[c])
                            /\ IsInjective(Lists.requesting[c])
                            /\ Range(Lists.wait[c]) = {}
    BY <1>1, <1>2 DEF Lists, Own
  <2>2. Held(Lists) = {} /\ Once(Lists)
    BY <2>1 DEF Held, Once, Tidy, Serving
  <2> QED BY <1>1, <2>2 DEF Single
<1> QED BY <1>4, <1>5, <1>6, <1>7, <1>9, <1>10 DEF Inv

\* A step that changes nothing keeps the invariant.
LEMMA StutterKeeps ==
  ASSUME Inv, UNCHANGED vars
  PROVE  Inv'
<1>1. Lists' = Lists /\ Missing' = Missing
  BY DEF vars, Lists, Missing
<1>2. Kept' /\ Single'
  BY <1>1
  DEF vars, Inv, Kept, Single, Held, Once, Tidy, Serving, Own, IsDownloadComplete, Finished
<1>3. /\ TypeOK' /\ RequestsTimed' /\ OutstandingBounded' /\ SilentHoldNothing'
      /\ Interest' /\ Counting' /\ Phases' /\ Notices' /\ Ended'
  BY DEF vars, Inv, TypeOK, RequestsTimed, OutstandingBounded, SilentHoldNothing, Interest,
         Counting, Phases, Notices, Ended, IsDownloadComplete, Finished
<1> QED BY <1>2, <1>3 DEF Inv

-----------------------------------------------------------------------------
(* The theorems. *)

\* Inv is inductive, so it always holds.
THEOREM InvAlways == Spec => []Inv
<1>1. Init => Inv
  BY InitInv
<1>2. Inv /\ [Next]_vars => Inv'
  <2> SUFFICES ASSUME Inv, [Next]_vars PROVE Inv'
    OBVIOUS
  <2>1. CASE UNCHANGED vars
    BY <2>1, StutterKeeps
  <2>2. ASSUME NEW c \in Peers, Handshake(c) PROVE Inv'
    BY <2>2, HandshakeKeeps
  <2>3. ASSUME NEW c \in Peers, Choke(c) \/ DropConnection(c) PROVE Inv'
    BY <2>3, ReturnKeeps
  <2>4. ASSUME NEW c \in Peers, Unchoke(c) PROVE Inv'
    BY <2>4, UnchokeKeeps
  <2>5. ASSUME NEW c \in Peers, ReceivePiece(c) PROVE Inv'
    BY <2>5, ReceivePieceKeeps
  <2>6. ASSUME NEW c \in Peers, UnaskedPiece(c) PROVE Inv'
    BY <2>6, UnaskedPieceKeeps
  <2>7. ASSUME NEW c \in Peers, NEW r \in Range(timeOuts[c]), RequestTimeOut(c, r) PROVE Inv'
    BY <2>7, RequestTimeOutKeeps
  <2>8. ASSUME NEW c \in Peers,
               (\E p \in Pieces : Have(c, p)) \/ (\E h \in SUBSET Pieces : Bitfield(c, h))
        PROVE  Inv'
    BY <2>8, HaveKeeps
  <2>9. ASSUME NEW p \in Pieces, Check(p) PROVE Inv'
    BY <2>9, CheckKeeps
  <2>10. ASSUME Notify PROVE Inv'
    <3>1. CASE NotifyUpdater
      BY <3>1, NotifyUpdaterKeeps
    <3>2. CASE NotifyDispatcher
      BY <3>2, NotifyDispatcherKeeps
    <3>3. ASSUME NEW c \in Peers, NotifyPeerComplete(c) PROVE Inv'
      BY <3>3, NotifyPeerCompleteKeeps
    <3>4. ASSUME NEW c \in Peers, NotifyPeerFailed(c) PROVE Inv'
      BY <3>4, NotifyPeerFailedKeeps
    <3> QED BY <2>10, <3>1, <3>2, <3>3, <3>4 DEF Notify
  <2> QED BY <2>1, <2>2, <2>3, <2>4, <2>5, <2>6, <2>7, <2>8, <2>9, <2>10 DEF Next
<1> QED BY <1>1, <1>2, PTL DEF Spec

\* The types; no more pieces are counted than there are.
THEOREM TypeCorrect == Spec => []TypeOK
<1>1. Inv => TypeOK
  BY DEF Inv
<1> QED BY <1>1, InvAlways, PTL

\* The timers of a connection are those of its outstanding requests, one each
\* (RequestTimeouter, BitPeerConnection.cpp:598-629).
THEOREM EveryRequestTimed == Spec => []RequestsTimed
<1>1. Inv => RequestsTimed
  BY DEF Inv
<1> QED BY <1>1, InvAlways, PTL

\* However often a connection is made to ask, its lists stay within their limits
\* (BitPeerConnection.cpp:570-593).
THEOREM OutstandingAlwaysBounded == Spec => []OutstandingBounded
<1>1. Inv => OutstandingBounded
  BY DEF Inv
<1> QED BY <1>1, InvAlways, PTL

\* What cannot ask keeps no request from those that can
\* (BitPeerConnection.cpp:637-652).
THEOREM SilentAlwaysHoldNothing == Spec => []SilentHoldNothing
<1>1. Inv => SilentHoldNothing
  BY DEF Inv
<1> QED BY <1>1, InvAlways, PTL

\* When the last piece is counted all are downloaded, and nothing is asked for
\* any more (BitTask.cpp:27-29).
THEOREM CompleteStaysQuiet == Spec => []CompleteIsQuiet
<1>1. Inv => CompleteIsQuiet
  <2> SUFFICES ASSUME Inv, counted = PieceCount
               PROVE  /\ downloaded = Pieces
                      /\ \A c \in Peers : ~interested[c] /\ requesting[c] = <<>> /\ wait[c] = <<>>
    BY DEF CompleteIsQuiet
  <2>1. PieceCount \in Nat /\ TypeOK
    BY ConstantsAssumption DEF Inv
  <2>2. /\ Cardinality(downloaded) \in Nat /\ Cardinality(downloaded) <= PieceCount
        /\ Cardinality(downloaded) = PieceCount => downloaded = Pieces
    BY <2>1, DownloadedCount
  <2>3. Cardinality(downloaded) >= counted
    BY <2>1, <2>2 DEF Inv, Counting
  <2>4. downloaded = Pieces
    BY <2>1, <2>2, <2>3
  <2>5. IsDownloadComplete
    BY <2>1 DEF IsDownloadComplete, Finished
  <2>6. \A c \in Peers : ~interested[c] /\ requesting[c] = <<>> /\ wait[c] = <<>>
    BY <2>5 DEF Inv, Ended, SilentHoldNothing
  <2> QED BY <2>4, <2>6
<1> QED BY <1>1, InvAlways, PTL

\* The places of a request are those of the lists that hold it.
LEMMA PlacesHeld ==
  ASSUME TypeOK, NEW r
  PROVE  /\ Places(r) # {} <=> r \in Held(Lists)
         /\ \A place : place \in Places(r) <=>
              \/ \E i \in DOMAIN scattered :
                   scattered[i] = r /\ place = <<"scattered", "dispatcher", i>>
              \/ \E c \in Peers : \E i \in DOMAIN wait[c] :
                   wait[c][i] = r /\ place = <<"wait", c, i>>
              \/ \E c \in Peers : \E i \in DOMAIN requesting[c] :
                   requesting[c][i] = r /\ place = <<"requesting", c, i>>
<1>1. \A place : place \in Places(r) <=>
        \/ \E i \in DOMAIN scattered :
             scattered[i] = r /\ place = <<"scattered", "dispatcher", i>>
        \/ \E c \in Peers : \E i \in DOMAIN wait[c] :
             wait[c][i] = r /\ place = <<"wait", c, i>>
        \/ \E c \in Peers : \E i \in DOMAIN requesting[c] :
             requesting[c][i] = r /\ place = <<"requesting", c, i>>
  BY DEF Places, At
<1>2. r \in Held(Lists) <=>
        \/ \E i \in DOMAIN scattered : scattered[i] = r
        \/ \E c \in Peers : \E i \in DOMAIN wait[c] : wait[c][i] = r
        \/ \E c \in Peers : \E i \in DOMAIN requesting[c] : requesting[c][i] = r
  BY DEF Held, Own, Lists, Range
<1>3. Places(r) # {} <=> \E place : place \in Places(r)
  OBVIOUS
<1> QED BY <1>1, <1>2, <1>3

\* Not even in end mode is a missing block without a request
\* (BitDownloadDispatcher.cpp:116-130, BitPeerConnection.cpp:637-652).
THEOREM NoBlockEverLost == Spec => []NoBlockLost
<1>1. Inv => NoBlockLost
  BY PlacesHeld DEF Inv, Kept, NoBlockLost
<1> QED BY <1>1, InvAlways, PTL

\* Before end mode exactly the missing blocks have a request, each one in one
\* place (BitDownloadDispatcher.cpp:104-208, BitPeerConnection.cpp:570-652).
THEOREM BlocksAlwaysConserved == Spec => []BlocksConserved
<1>1. Inv => BlocksConserved
  <2> SUFFICES ASSUME Inv, ~endMode, ~IsDownloadComplete, NEW r \in Request
               PROVE  IF r \in Missing THEN \E place \in Places(r) : Places(r) = {place}
                                       ELSE Places(r) = {}
    BY DEF BlocksConserved
  <2>1. TypeOK /\ Missing \subseteq Held(Lists) /\ Once(Lists) /\ Held(Lists) \subseteq Missing
    BY DEF Inv, Kept, Single
  <2>2. Places(r) # {} <=> r \in Missing
    BY <2>1, PlacesHeld
  <2>3. ASSUME NEW x \in Places(r), NEW y \in Places(r) PROVE x = y
    <3> DEFINE InScattered(place) == \E i \in DOMAIN scattered :
                 scattered[i] = r /\ place = <<"scattered", "dispatcher", i>>
               InWait(place, c) == \E i \in DOMAIN wait[c] :
                 wait[c][i] = r /\ place = <<"wait", c, i>>
               InRequesting(place, c) == \E i \in DOMAIN requesting[c] :
                 requesting[c][i] = r /\ place = <<"requesting", c, i>>
    <3>1. \A place \in Places(r) :
            \/ InScattered(place)
            \/ \E c \in Peers : InWait(place, c) \/ InRequesting(place, c)
      BY <2>1, PlacesHeld
    <3>2. /\ \A place : InScattered(place) => r \in Range(scattered)
          /\ \A place, c : InWait(place, c) => r \in Range(wait[c])
          /\ \A place, c : InRequesting(place, c) => r \in Range(requesting[c])
      BY DEF Range
    <3>3. /\ IsInjective(scattered)
          /\ \A c \in Peers :
               /\ IsInjective(wait[c]) /\ IsInjective(requesting[c])
               /\ ~(r \in Range(wait[c]) /\ r \in Range(requesting[c]))
               /\ ~(r \in Range(scattered) /\ (r \in Range(wait[c]) \/ r \in Range(requesting[c])))
      BY <2>1 DEF Once, Tidy, Own, Lists
    <3>4. \A c, e \in Peers :
            /\ r \in Range(wait[c]) \/ r \in Range(requesting[c])
            /\ r \in Range(wait[e]) \/ r \in Range(requesting[e])
            => c = e
      BY <2>1 DEF Once, Own, Lists
    <3>5. InScattered(x) /\ InScattered(y) => x = y
      BY <3>3 DEF IsInjective
    <3>6. \A c \in Peers : InWait(x, c) /\ InWait(y, c) => x = y
      BY <3>3 DEF IsInjective
    <3>7. \A c \in Peers : InRequesting(x, c) /\ InRequesting(y, c) => x = y
      BY <3>3 DEF IsInjective
    <3> HIDE DEF InScattered, InWait, InRequesting
    <3>8. CASE InScattered(x)
      BY <3>1, <3>2, <3>3, <3>5, <3>8
    <3>9. CASE \E c \in Peers : InWait(x, c) \/ InRequesting(x, c)
      <4>1. PICK c \in Peers : InWait(x, c) \/ InRequesting(x, c)
        BY <3>9
      <4>2. ~InScattered(y)
        BY <3>2, <3>3, <4>1
      <4>3. PICK e \in Peers : InWait(y, e) \/ InRequesting(y, e)
        BY <3>1, <4>2
      <4>4. c = e
        BY <3>2, <3>4, <4>1, <4>3
      <4> QED BY <3>2, <3>3, <3>6, <3>7, <4>1, <4>3, <4>4
    <3> QED BY <3>1, <3>8, <3>9
  <2>4. ASSUME r \in Missing PROVE \E place \in Places(r) : Places(r) = {place}
    <3>1. PICK place \in Places(r) : TRUE
      BY <2>2, <2>4
    <3> QED BY <2>3, <3>1
  <2> QED BY <2>2, <2>4
<1> QED BY <1>1, InvAlways, PTL

\* A request that timed out is not sent to the same peer in the same step, though
\* new ones are asked for before it is given back (BitPeerConnection.cpp:610-623).
THEOREM TimedOutNeverAskedAgain == Spec => TimedOutIsNotAskedAgain
<1>1. ASSUME Inv, NEW c \in Peers, NEW r \in Range(timeOuts[c]), RequestTimeOut(c, r), ~endMode
      PROVE  r \notin Range(requesting'[c])
  <2> DEFINE e == RequestPieceBlock(DeleteOutStanding(Lists, c, r), c, has[c],
                                    interested[c], choking[c])
             f == Returned(e, r)
  <2>1. SetLists(f)
    BY <1>1 DEF RequestTimeOut, Ask, Returned
  <2>2. r \in Range(requesting[c])
    BY <1>1 DEF Inv, RequestsTimed
  <2>3. requesting[c] # <<>> /\ r \in Range(Lists.requesting[c])
    BY <1>1, <2>2, OutstandingIsHeld
  <2>4. Lists \in ListRecords /\ ~IsDownloadComplete
    BY <1>1, <2>3, HolderMayAsk, ListsTyped DEF Inv
  <2>5. Tidy(Lists, c)
    BY <1>1, <2>4 DEF Inv, Single, Once
  <2>6. r \notin Range(f.requesting[c])
    BY <1>1, <2>3, <2>4, <2>5, TimeOutMoves
  <2> HIDE DEF e, f
  <2> QED BY <2>1, <2>6 DEF SetLists
<1>2. Inv /\ [Next]_vars =>
        [\A c \in Peers : \A r \in Range(timeOuts[c]) :
           (RequestTimeOut(c, r) /\ ~endMode) => r \notin Range(requesting'[c])]_vars
  BY <1>1
<1> QED BY <1>2, InvAlways, PTL DEF Spec, TimedOutIsNotAskedAgain
=============================================================================
