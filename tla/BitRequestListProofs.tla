------------------------ MODULE BitRequestListProofs ------------------------
(***************************************************************************)
(* What Pick returns, for every list and every set of its positions.       *)
(*                                                                         *)
(* The smallest element of a set of naturals stands in for induction: it   *)
(* is a minimal interval 0 .. n under strict inclusion, which the library  *)
(* shows to be well founded on finite sets.                                *)
(***************************************************************************)
EXTENDS BitRequestList, FiniteSetTheorems, SequenceTheorems, TLAPS

\* A set of naturals that is not empty has a smallest element: the order by
\* which BitRequestList's loops meet the elements of a list has a first.
LEMMA Smallest ==
  ASSUME NEW T \in SUBSET Nat, T # {}
  PROVE  \E n \in T : \A m \in T : n <= m
<1> DEFINE Up == {0 .. n : n \in T}
<1>1. Up \subseteq FiniteSubsetsOf(Nat)
  <2>1. \A n \in T : IsFiniteSet(0 .. n) /\ 0 .. n \in SUBSET Nat
    BY FS_Interval
  <2> QED BY <2>1 DEF FiniteSubsetsOf
<1>2. Up # {}
  OBVIOUS
<1>3. PICK u \in Up : \A v \in Up : <<v, u>> \notin StrictSubsetOrdering(Nat)
  <2> HIDE DEF Up
  <2> QED BY <1>1, <1>2, FS_StrictSubsetOrderingWellFounded, WFMin
<1>4. PICK n \in T : u = 0 .. n
  BY <1>3
<1>5. \A m \in T : n <= m
  <2> SUFFICES ASSUME NEW m \in T, m < n PROVE FALSE
    OBVIOUS
  <2>1. 0 .. m \in Up /\ 0 .. m \in SUBSET Nat /\ 0 .. n \in SUBSET Nat
    OBVIOUS
  <2>2. 0 .. m \subseteq 0 .. n /\ n \in 0 .. n /\ n \notin 0 .. m
    OBVIOUS
  <2>3. <<0 .. m, 0 .. n>> \in StrictSubsetOrdering(Nat)
    BY <2>1, <2>2 DEF StrictSubsetOrdering
  <2> QED BY <1>3, <1>4, <2>1, <2>3
<1> QED BY <1>5

UpTo(I, i) == {j \in I : j <= i}

\* The number of picked positions up to i is a natural, and grows at i.
LEMMA UpToCount ==
  ASSUME NEW n \in Nat, NEW I \in SUBSET (1 .. n)
  PROVE  /\ IsFiniteSet(I) /\ Cardinality(I) \in Nat
         /\ \A i \in Int : IsFiniteSet(UpTo(I, i)) /\ Cardinality(UpTo(I, i)) \in Nat
         /\ \A i \in Int : Cardinality(UpTo(I, i)) <= Cardinality(I)
         /\ \A i, k \in I : i < k => Cardinality(UpTo(I, i)) < Cardinality(UpTo(I, k))
         /\ \A i \in I : Cardinality(UpTo(I, i)) \in 1 .. Cardinality(I)
<1>0. \A i \in I : i \in Int /\ 1 <= i /\ i <= n
  OBVIOUS
<1>1. IsFiniteSet(I) /\ Cardinality(I) \in Nat
  <2>1. IsFiniteSet(1 .. n)
    BY FS_Interval
  <2>2. IsFiniteSet(I)
    BY <2>1, FS_Subset
  <2> QED BY <2>2, FS_CardinalityType
<1>2. \A i \in Int : /\ IsFiniteSet(UpTo(I, i)) /\ Cardinality(UpTo(I, i)) \in Nat
                     /\ Cardinality(UpTo(I, i)) <= Cardinality(I)
  <2> TAKE i \in Int
  <2>1. UpTo(I, i) \in SUBSET I
    BY DEF UpTo
  <2> QED BY <1>1, <2>1, FS_Subset, FS_CardinalityType
<1>3. \A i, k \in I : i < k => Cardinality(UpTo(I, i)) < Cardinality(UpTo(I, k))
  <2> SUFFICES ASSUME NEW i \in I, NEW k \in I, i < k
               PROVE  Cardinality(UpTo(I, i)) < Cardinality(UpTo(I, k))
    OBVIOUS
  <2>1. UpTo(I, i) \in SUBSET UpTo(I, k) /\ UpTo(I, i) # UpTo(I, k)
    <3>1. UpTo(I, i) \subseteq UpTo(I, k)
      <4>1. \A j \in I : j <= i => j <= k
        BY <1>0
      <4> QED BY <4>1 DEF UpTo
    <3>2. k \in UpTo(I, k) /\ k \notin UpTo(I, i)
      BY <1>0 DEF UpTo
    <3> QED BY <3>1, <3>2
  <2>2. i \in Int /\ k \in Int
    OBVIOUS
  <2>3. /\ Cardinality(UpTo(I, i)) <= Cardinality(UpTo(I, k))
        /\ Cardinality(UpTo(I, i)) # Cardinality(UpTo(I, k))
    BY <1>2, <2>1, <2>2, FS_Subset
  <2> QED BY <1>2, <2>2, <2>3
<1>4. \A i \in I : Cardinality(UpTo(I, i)) \in 1 .. Cardinality(I)
  <2> TAKE i \in I
  <2>1. i \in UpTo(I, i) /\ i \in Int
    BY DEF UpTo
  <2>2. Cardinality(UpTo(I, i)) # 0
    BY <1>2, <2>1, FS_EmptySet
  <2> QED BY <1>1, <1>2, <2>1, <2>2
<1> QED BY <1>1, <1>2, <1>3, <1>4

\* For each k up to the number of picked positions there is a k-th one.
LEMMA PickPosition ==
  ASSUME NEW n \in Nat, NEW I \in SUBSET (1 .. n), NEW k \in 1 .. Cardinality(I)
  PROVE  \E i \in I : Cardinality(UpTo(I, i)) = k
<1> DEFINE T == {i \in 1 .. n : Cardinality(UpTo(I, i)) >= k}
<1>0. \A j \in I : j \in Int /\ 1 <= j /\ j <= n
  OBVIOUS
<1>1. /\ IsFiniteSet(I) /\ Cardinality(I) \in Nat
      /\ \A i \in Int : IsFiniteSet(UpTo(I, i)) /\ Cardinality(UpTo(I, i)) \in Nat
  BY UpToCount
<1>2. n \in T
  <2>1. UpTo(I, n) = I
    BY <1>0 DEF UpTo
  <2>2. n # 0
    <3> SUFFICES ASSUME n = 0 PROVE FALSE
      OBVIOUS
    <3>1. I = {}
      OBVIOUS
    <3> QED BY <1>1, <3>1, FS_EmptySet
  <2> QED BY <1>1, <2>1, <2>2
<1>3. PICK i \in T : \A m \in T : i <= m
  <2>1. T \in SUBSET Nat /\ T # {}
    BY <1>2
  <2> HIDE DEF T
  <2> QED BY <2>1, Smallest
<1>4. Cardinality(UpTo(I, i - 1)) < k
  <2>1. CASE i = 1
    <3>1. UpTo(I, i - 1) = {}
      <4>1. \A j \in I : ~(j <= i - 1)
        BY <1>0, <2>1
      <4> QED BY <4>1 DEF UpTo
    <3> QED BY <3>1, FS_EmptySet
  <2>2. CASE i # 1
    <3>1. i - 1 \in 1 .. n /\ i - 1 \notin T
      BY <1>3, <2>2
    <3> QED BY <1>1, <3>1
  <2> QED BY <2>1, <2>2
<1>5. UpTo(I, i) = IF i \in I THEN UpTo(I, i - 1) \cup {i} ELSE UpTo(I, i - 1)
  <2>1. \A j \in I : j <= i <=> j <= i - 1 \/ j = i
    BY <1>0
  <2> QED BY <2>1 DEF UpTo
<1>6. i \in I
  BY <1>1, <1>3, <1>4, <1>5
<1>7. Cardinality(UpTo(I, i)) <= Cardinality(UpTo(I, i - 1)) + 1
  <2> DEFINE U == UpTo(I, i - 1)
  <2>1. IsFiniteSet(U) /\ Cardinality(U) \in Nat
    BY <1>1
  <2>2. Cardinality(U \cup {i}) <= Cardinality(U) + 1
    <3> HIDE DEF U
    <3>1. Cardinality(U \cup {i}) = IF i \in U THEN Cardinality(U)
                                              ELSE Cardinality(U) + 1
      BY <2>1, FS_AddElement, Zenon
    <3> QED BY <2>1, <3>1
  <2> QED BY <1>5, <1>6, <2>2
<1>8. Cardinality(UpTo(I, i)) = k
  BY <1>1, <1>3, <1>4, <1>7
<1> QED BY <1>6, <1>8

\* Pick gives the elements at the chosen positions, all of them, once each and in
\* the order of the list: the splicing and erasing loops lose, invent and reorder
\* nothing (BitRequestList.cpp:18-37).
THEOREM PickProperties ==
  ASSUME NEW S, NEW s \in Seq(S), NEW I \in SUBSET DOMAIN s
  PROVE  \E f \in [1 .. Cardinality(I) -> I] :
           /\ Pick(s, I) = [k \in 1 .. Cardinality(I) |-> s[f[k]]]
           /\ \A j, k \in 1 .. Cardinality(I) : j < k => f[j] < f[k]
           /\ \A i \in I : \E k \in 1 .. Cardinality(I) : f[k] = i
<1> DEFINE at(k) == CHOOSE i \in I : Cardinality(UpTo(I, i)) = k
           f == [k \in 1 .. Cardinality(I) |-> at(k)]
<1>1. Len(s) \in Nat /\ DOMAIN s = 1 .. Len(s) /\ I \in SUBSET (1 .. Len(s))
  BY LenProperties
<1>2. /\ Cardinality(I) \in Nat
      /\ \A i, k \in I : i < k => Cardinality(UpTo(I, i)) < Cardinality(UpTo(I, k))
      /\ \A i \in I : Cardinality(UpTo(I, i)) \in 1 .. Cardinality(I)
  BY <1>1, UpToCount
<1>3. \A k \in 1 .. Cardinality(I) : at(k) \in I /\ Cardinality(UpTo(I, at(k))) = k
  <2> TAKE k \in 1 .. Cardinality(I)
  <2>1. \E i \in I : Cardinality(UpTo(I, i)) = k
    BY <1>1, PickPosition
  <2> QED BY <2>1
<1>4. Pick(s, I) = [k \in 1 .. Cardinality(I) |-> s[at(k)]]
  BY DEF Pick, UpTo
<1> HIDE DEF at
<1>5. f \in [1 .. Cardinality(I) -> I] /\ Pick(s, I) = [k \in 1 .. Cardinality(I) |-> s[f[k]]]
  BY <1>3, <1>4
<1>6. ASSUME NEW j \in 1 .. Cardinality(I), NEW k \in 1 .. Cardinality(I), j < k
      PROVE  f[j] < f[k]
  <2>1. f[j] \in I /\ f[k] \in I
        /\ Cardinality(UpTo(I, f[j])) = j /\ Cardinality(UpTo(I, f[k])) = k
    BY <1>3
  <2>2. ~(f[k] < f[j]) /\ f[j] # f[k]
    BY <1>2, <1>6, <2>1
  <2>3. f[j] \in Int /\ f[k] \in Int
    BY <1>1, <2>1
  <2> QED BY <2>2, <2>3
<1>7. ASSUME NEW i \in I
      PROVE  \E k \in 1 .. Cardinality(I) : f[k] = i
  <2> DEFINE k == Cardinality(UpTo(I, i))
  <2>1. k \in 1 .. Cardinality(I) /\ at(k) \in I /\ Cardinality(UpTo(I, at(k))) = k
    BY <1>2, <1>3
  <2>2. at(k) = i
    BY <1>1, <1>2, <2>1
  <2>3. f[k] = i
    BY <2>1, <2>2
  <2> QED BY <2>1, <2>3
<1> HIDE DEF f
<1> QED BY <1>5, <1>6, <1>7

\* What a list is asked for most: which elements it has, and how many.
LEMMA PickElements ==
  ASSUME NEW S, NEW s \in Seq(S), NEW I \in SUBSET DOMAIN s
  PROVE  /\ Pick(s, I) \in Seq(S)
         /\ Len(Pick(s, I)) = Cardinality(I) /\ Cardinality(I) \in Nat
         /\ \A k \in DOMAIN Pick(s, I) : \E i \in I : Pick(s, I)[k] = s[i]
         /\ \A i \in I : \E k \in DOMAIN Pick(s, I) : Pick(s, I)[k] = s[i]
<1> DEFINE N == 1 .. Cardinality(I)
<1>1. /\ Len(s) \in Nat /\ DOMAIN s = 1 .. Len(s) /\ I \in SUBSET (1 .. Len(s))
      /\ \A i \in DOMAIN s : s[i] \in S
  BY ElementOfSeq, LenProperties
<1>2. Cardinality(I) \in Nat
  BY <1>1, UpToCount
<1>3. PICK f \in [N -> I] : /\ Pick(s, I) = [k \in N |-> s[f[k]]]
                            /\ \A i \in I : \E k \in N : f[k] = i
  BY PickProperties
<1>4. Pick(s, I) \in [N -> S]
  BY <1>1, <1>3
<1>5. Pick(s, I) \in Seq(S) /\ Len(Pick(s, I)) = Cardinality(I)
  BY <1>2, <1>4, LenProperties
<1>6. DOMAIN Pick(s, I) = N /\ \A k \in N : Pick(s, I)[k] = s[f[k]]
  BY <1>3
<1>7. \A k \in DOMAIN Pick(s, I) : \E i \in I : Pick(s, I)[k] = s[i]
  <2> TAKE k \in DOMAIN Pick(s, I)
  <2>1. f[k] \in I /\ Pick(s, I)[k] = s[f[k]]
    BY <1>3, <1>6
  <2> QED BY <2>1
<1>8. \A i \in I : \E k \in DOMAIN Pick(s, I) : Pick(s, I)[k] = s[i]
  <2> TAKE i \in I
  <2>1. PICK k \in N : f[k] = i
    BY <1>3
  <2> QED BY <1>6, <2>1
<1> QED BY <1>2, <1>5, <1>7, <1>8

\* DelRequest gives a list that is no longer, without the request and with all
\* the others (BitRequestList.cpp:18-21).
THEOREM DelRequestProperties ==
  ASSUME NEW S, NEW s \in Seq(S), NEW r
  PROVE  /\ DelRequest(s, r) \in Seq(S)
         /\ Len(DelRequest(s, r)) <= Len(s)
         /\ \A x : (\E k \in DOMAIN DelRequest(s, r) : DelRequest(s, r)[k] = x)
                     <=> x # r /\ \E i \in DOMAIN s : s[i] = x
<1> DEFINE I == {i \in DOMAIN s : s[i] # r}
<1>1. DelRequest(s, r) = Pick(s, I) /\ I \in SUBSET DOMAIN s
  BY DEF DelRequest
<1>2. Cardinality(I) <= Len(s)
  <2>1. Len(s) \in Nat /\ DOMAIN s = 1 .. Len(s)
    BY LenProperties
  <2>2. IsFiniteSet(1 .. Len(s)) /\ Cardinality(1 .. Len(s)) = Len(s)
    BY SMTT(30), <2>1, FS_Interval
  <2> QED BY <1>1, <2>1, <2>2, FS_Subset
<1>3. /\ Pick(s, I) \in Seq(S) /\ Len(Pick(s, I)) = Cardinality(I)
      /\ \A k \in DOMAIN Pick(s, I) : \E i \in I : Pick(s, I)[k] = s[i]
      /\ \A i \in I : \E k \in DOMAIN Pick(s, I) : Pick(s, I)[k] = s[i]
  BY ZenonT(60), <1>1, PickElements
<1> QED BY <1>1, <1>2, <1>3

\* Erasing one position makes the list one shorter and keeps all the others.
THEOREM EraseProperties ==
  ASSUME NEW S, NEW s \in Seq(S), NEW i \in DOMAIN s
  PROVE  /\ Pick(s, DOMAIN s \ {i}) \in Seq(S)
         /\ Len(Pick(s, DOMAIN s \ {i})) = Len(s) - 1
         /\ \A k \in DOMAIN s \ {i} : \E j \in DOMAIN Pick(s, DOMAIN s \ {i}) :
              Pick(s, DOMAIN s \ {i})[j] = s[k]
<1> DEFINE I == DOMAIN s \ {i}
<1>1. /\ Pick(s, I) \in Seq(S) /\ Len(Pick(s, I)) = Cardinality(I)
      /\ \A k \in I : \E j \in DOMAIN Pick(s, I) : Pick(s, I)[j] = s[k]
  <2>1. I \in SUBSET DOMAIN s
    OBVIOUS
  <2> HIDE DEF I
  <2> QED BY <2>1, PickElements
<1>2. Len(s) \in Nat /\ DOMAIN s = 1 .. Len(s)
  BY LenProperties
<1>3. IsFiniteSet(DOMAIN s) /\ Cardinality(DOMAIN s) = Len(s)
  <2> DEFINE n == Len(s)
  <2>1. n \in Nat /\ DOMAIN s = 1 .. n
    BY <1>2
  <2> HIDE DEF n
  <2>2. IsFiniteSet(1 .. n) /\ Cardinality(1 .. n) = n
    BY <2>1, FS_Interval
  <2> QED BY <2>1, <2>2 DEF n
<1>4. Cardinality(I) = Cardinality(DOMAIN s) - 1
  BY <1>3, FS_RemoveElement, Zenon
<1> QED BY <1>1, <1>3, <1>4


\* In terms of ranges: Pick keeps exactly the elements at the positions, and
\* repeats none that the list does not repeat.
THEOREM PickRange ==
  ASSUME NEW S, NEW s \in Seq(S), NEW I \in SUBSET DOMAIN s
  PROVE  /\ Pick(s, I) \in Seq(S) /\ Len(Pick(s, I)) = Cardinality(I)
         /\ Cardinality(I) \in Nat /\ Cardinality(I) <= Len(s)
         /\ Range(Pick(s, I)) = {s[i] : i \in I}
         /\ IsInjective(s) => IsInjective(Pick(s, I))
<1> DEFINE at(k) == CHOOSE i \in I : Cardinality(UpTo(I, i)) = k
           t == Pick(s, I)
<1>1. /\ t \in Seq(S) /\ Len(t) = Cardinality(I) /\ Cardinality(I) \in Nat
      /\ \A k \in DOMAIN t : \E i \in I : t[k] = s[i]
      /\ \A i \in I : \E k \in DOMAIN t : t[k] = s[i]
  BY PickElements
<1>2. Range(t) = {s[i] : i \in I}
  <2> HIDE DEF t
  <2> QED BY <1>1 DEF Range
<1>3. Len(s) \in Nat /\ DOMAIN s = 1 .. Len(s) /\ Cardinality(I) <= Len(s)
  <2>1. Len(s) \in Nat /\ DOMAIN s = 1 .. Len(s)
    BY LenProperties
  <2>2. IsFiniteSet(DOMAIN s) /\ Cardinality(DOMAIN s) = Len(s)
    <3> DEFINE n == Len(s)
    <3>1. n \in Nat /\ DOMAIN s = 1 .. n
      BY <2>1
    <3> HIDE DEF n
    <3>2. IsFiniteSet(1 .. n) /\ Cardinality(1 .. n) = n
      BY <3>1, FS_Interval
    <3> QED BY <3>1, <3>2 DEF n
  <2> QED BY <2>1, <2>2, FS_Subset
<1>4. ASSUME IsInjective(s) PROVE IsInjective(t)
  <2>1. \A k \in 1 .. Cardinality(I) : at(k) \in I /\ Cardinality(UpTo(I, at(k))) = k
    <3> TAKE k \in 1 .. Cardinality(I)
    <3>1. \E i \in I : Cardinality(UpTo(I, i)) = k
      BY <1>3, PickPosition
    <3> QED BY <3>1
  <2>2. t = [k \in 1 .. Cardinality(I) |-> s[at(k)]]
    BY DEF Pick, UpTo
  <2> HIDE DEF at, t
  <2>3. \A j, k \in 1 .. Cardinality(I) : s[at(j)] = s[at(k)] => at(j) = at(k)
    BY <2>1, <1>4 DEF IsInjective
  <2>4. \A j, k \in DOMAIN t : t[j] = t[k] => j = k
    <3> SUFFICES ASSUME NEW j \in 1 .. Cardinality(I), NEW k \in 1 .. Cardinality(I),
                        t[j] = t[k]
                 PROVE  j = k
      BY <2>2
    <3>1. s[at(j)] = s[at(k)]
      BY <2>2
    <3>2. at(j) = at(k)
      BY <2>3, <3>1
    <3> QED BY <2>1, <3>2
  <2> QED BY <2>4 DEF IsInjective
<1> QED BY <1>1, <1>2, <1>3, <1>4

\* The elements at some positions and at the others are the list, split in two.
THEOREM PickSplit ==
  ASSUME NEW S, NEW s \in Seq(S), NEW I \in SUBSET DOMAIN s
  PROVE  /\ Range(Pick(s, I)) \cup Range(Pick(s, DOMAIN s \ I)) = Range(s)
         /\ IsInjective(s) => Range(Pick(s, I)) \cap Range(Pick(s, DOMAIN s \ I)) = {}
<1> DEFINE J == DOMAIN s \ I
<1>1. J \in SUBSET DOMAIN s
  OBVIOUS
<1>2. Range(Pick(s, I)) = {s[i] : i \in I}
  BY PickRange
<1>3. Range(Pick(s, J)) = {s[i] : i \in J}
  <2> HIDE DEF J
  <2> QED BY <1>1, PickRange
<1>4. {s[i] : i \in I} \cup {s[i] : i \in J} = {s[i] : i \in DOMAIN s}
  OBVIOUS
<1>5. ASSUME IsInjective(s) PROVE {s[i] : i \in I} \cap {s[i] : i \in J} = {}
  <2>1. \A i \in I, j \in J : s[i] # s[j]
    BY <1>5 DEF IsInjective
  <2> QED BY <2>1
<1> QED BY <1>2, <1>3, <1>4, <1>5 DEF Range

\* Appending one list to another.
THEOREM ConcatRange ==
  ASSUME NEW S, NEW s \in Seq(S), NEW t \in Seq(S)
  PROVE  /\ s \o t \in Seq(S) /\ Len(s \o t) = Len(s) + Len(t)
         /\ Range(s \o t) = Range(s) \cup Range(t)
         /\ IsInjective(s) /\ IsInjective(t) /\ Range(s) \cap Range(t) = {}
              => IsInjective(s \o t)
<1> DEFINE u == s \o t
<1>1. /\ u \in Seq(S) /\ Len(u) = Len(s) + Len(t)
      /\ \A i \in 1 .. Len(s) + Len(t) :
           u[i] = IF i <= Len(s) THEN s[i] ELSE t[i - Len(s)]
  BY ConcatProperties
<1>2. /\ Len(s) \in Nat /\ Len(t) \in Nat
      /\ DOMAIN s = 1 .. Len(s) /\ DOMAIN t = 1 .. Len(t) /\ DOMAIN u = 1 .. Len(u)
  <2> HIDE DEF u
  <2> QED BY <1>1, LenProperties
<1> HIDE DEF u
<1>3. \A i \in DOMAIN s : i \in DOMAIN u /\ u[i] = s[i]
  BY <1>1, <1>2
<1>4. \A i \in DOMAIN t : i + Len(s) \in DOMAIN u /\ u[i + Len(s)] = t[i]
  BY <1>1, <1>2
<1>5. \A i \in DOMAIN u : \/ i \in DOMAIN s /\ u[i] = s[i]
                          \/ i - Len(s) \in DOMAIN t /\ u[i] = t[i - Len(s)]
  BY <1>1, <1>2
<1>6. Range(u) = Range(s) \cup Range(t)
  <2>1. \A x \in Range(u) : x \in Range(s) \/ x \in Range(t)
    BY <1>5 DEF Range
  <2>2. Range(s) \subseteq Range(u)
    BY <1>3 DEF Range
  <2>3. Range(t) \subseteq Range(u)
    BY <1>4 DEF Range
  <2> QED BY <2>1, <2>2, <2>3
<1>7. ASSUME IsInjective(s), IsInjective(t), Range(s) \cap Range(t) = {}
      PROVE  IsInjective(u)
  <2>1. \A i \in DOMAIN s, j \in DOMAIN t : s[i] # t[j]
    BY <1>7 DEF Range
  <2>2. \A i, j \in DOMAIN s : s[i] = s[j] => i = j
    BY <1>7 DEF IsInjective
  <2>3. \A i, j \in DOMAIN t : t[i] = t[j] => i = j
    BY <1>7 DEF IsInjective
  <2>4. \A i, j \in DOMAIN u : u[i] = u[j] => i = j
    <3> SUFFICES ASSUME NEW i \in DOMAIN u, NEW j \in DOMAIN u, u[i] = u[j]
                 PROVE  i = j
      OBVIOUS
    <3>1. i \in Int /\ j \in Int
      BY <1>2
    <3> QED BY <1>2, <1>5, <2>1, <2>2, <2>3, <3>1
  <2> QED BY <2>4 DEF IsInjective
<1> QED BY <1>1, <1>6, <1>7 DEF u

\* Splicing the first n elements off a list splits it in two.
THEOREM SubSeqSplit ==
  ASSUME NEW S, NEW s \in Seq(S), NEW n \in 0 .. Len(s)
  PROVE  /\ SubSeq(s, 1, n) \in Seq(S) /\ Len(SubSeq(s, 1, n)) = n
         /\ SubSeq(s, n + 1, Len(s)) \in Seq(S)
         /\ Len(SubSeq(s, n + 1, Len(s))) = Len(s) - n
         /\ Range(SubSeq(s, 1, n)) \cup Range(SubSeq(s, n + 1, Len(s))) = Range(s)
         /\ IsInjective(s) =>
              /\ IsInjective(SubSeq(s, 1, n)) /\ IsInjective(SubSeq(s, n + 1, Len(s)))
              /\ Range(SubSeq(s, 1, n)) \cap Range(SubSeq(s, n + 1, Len(s))) = {}
<1> DEFINE u == SubSeq(s, 1, n)
           v == SubSeq(s, n + 1, Len(s))
<1>1. Len(s) \in Nat /\ DOMAIN s = 1 .. Len(s) /\ \A i \in 1 .. Len(s) : s[i] \in S
  BY LenProperties, ElementOfSeq
<1>2. /\ u \in Seq(S) /\ Len(u) = n /\ \A i \in 1 .. n : u[i] = s[i]
  <2>1. \A i \in 1 .. n : s[i] \in S
    BY <1>1
  <2>2. /\ u \in Seq(S) /\ Len(u) = IF 1 <= n THEN n - 1 + 1 ELSE 0
        /\ \A i \in 1 .. n - 1 + 1 : u[i] = s[1 + i - 1]
    BY <2>1, SubSeqProperties
  <2> HIDE DEF u
  <2> QED BY <2>2
<1>3. /\ v \in Seq(S) /\ Len(v) = Len(s) - n
      /\ \A i \in 1 .. Len(s) - n : v[i] = s[n + i]
  <2>1. \A i \in n + 1 .. Len(s) : s[i] \in S
    BY <1>1
  <2>2. n + 1 \in Int /\ Len(s) \in Int
    BY <1>1
  <2>3. /\ v \in Seq(S) /\ Len(v) = IF n + 1 <= Len(s) THEN Len(s) - (n + 1) + 1 ELSE 0
        /\ \A i \in 1 .. Len(s) - (n + 1) + 1 : v[i] = s[n + 1 + i - 1]
    BY <2>1, <2>2, SubSeqProperties
  <2> HIDE DEF v
  <2>4. \A i \in 1 .. Len(s) - n : i \in 1 .. Len(s) - (n + 1) + 1 /\ n + 1 + i - 1 = n + i
    BY <1>1
  <2>5. \A i \in 1 .. Len(s) - n : v[i] = s[n + i]
    BY <2>3, <2>4
  <2>6. Len(v) = Len(s) - n
    <3>1. Len(s) \in Nat /\ n \in Nat /\ n <= Len(s)
      BY <1>1
    <3>2. Len(v) = IF n + 1 <= Len(s) THEN Len(s) - (n + 1) + 1 ELSE 0
      BY <2>3
    <3> QED BY <3>1, <3>2
  <2> QED BY <2>3, <2>5, <2>6
<1> HIDE DEF u, v
<1>4. DOMAIN u = 1 .. n /\ DOMAIN v = 1 .. Len(s) - n
  BY <1>2, <1>3, LenProperties
<1>5. \A i \in DOMAIN s : \/ i \in DOMAIN u /\ u[i] = s[i]
                          \/ i - n \in DOMAIN v /\ v[i - n] = s[i]
  <2> TAKE i \in DOMAIN s
  <2>1. i \in 1 .. n \/ (i - n \in 1 .. Len(s) - n /\ n + (i - n) = i)
    BY <1>1
  <2> QED BY <1>2, <1>3, <1>4, <2>1
<1>6. /\ \A i \in DOMAIN u : i \in DOMAIN s /\ u[i] = s[i]
      /\ \A i \in DOMAIN v : n + i \in DOMAIN s /\ v[i] = s[n + i]
  BY <1>1, <1>2, <1>3, <1>4
<1>7. Range(u) \cup Range(v) = Range(s)
  <2>1. \A x \in Range(s) : x \in Range(u) \/ x \in Range(v)
    BY <1>5 DEF Range
  <2>2. Range(u) \subseteq Range(s)
    BY <1>6 DEF Range
  <2>3. Range(v) \subseteq Range(s)
    BY <1>6 DEF Range
  <2> QED BY <2>1, <2>2, <2>3
<1>8. ASSUME IsInjective(s)
      PROVE  IsInjective(u) /\ IsInjective(v) /\ Range(u) \cap Range(v) = {}
  <2>1. \A i, j \in DOMAIN s : s[i] = s[j] => i = j
    BY <1>8 DEF IsInjective
  <2>2. IsInjective(u)
    BY <1>6, <2>1 DEF IsInjective
  <2>3. IsInjective(v)
    <3>1. \A i, j \in DOMAIN v : v[i] = v[j] => n + i = n + j
      BY <1>6, <2>1
    <3>2. \A i, j \in DOMAIN v : n + i = n + j => i = j
      BY <1>4
    <3> QED BY <3>1, <3>2 DEF IsInjective
  <2>4. \A i \in DOMAIN u, j \in DOMAIN v : u[i] # v[j]
    <3> TAKE i \in DOMAIN u, j \in DOMAIN v
    <3>1. i # n + j
      BY <1>1, <1>4
    <3> QED BY <1>6, <2>1, <3>1
  <2>5. \A x \in Range(u) : x \notin Range(v)
    BY <2>4 DEF Range
  <2> QED BY <2>2, <2>3, <2>5
<1> QED BY <1>2, <1>3, <1>7, <1>8 DEF u, v

\* Erasing the first element that is r takes no other element away, and r itself
\* when it is there once.
THEOREM EraseFirstRange ==
  ASSUME NEW S, NEW s \in Seq(S), NEW r
  PROVE  /\ EraseFirst(s, r) \in Seq(S) /\ Len(EraseFirst(s, r)) <= Len(s)
         /\ Range(s) \ {r} \subseteq Range(EraseFirst(s, r))
         /\ Range(EraseFirst(s, r)) \subseteq Range(s)
         /\ IsInjective(s) => /\ IsInjective(EraseFirst(s, r))
                              /\ Range(EraseFirst(s, r)) = Range(s) \ {r}
<1> DEFINE I == {i \in DOMAIN s : s[i] # r \/ \E j \in 1 .. i - 1 : s[j] = r}
           t == Pick(s, I)
<1>1. t = EraseFirst(s, r)
  BY DEF EraseFirst
<1>2. I \in SUBSET DOMAIN s
  OBVIOUS
<1>3. /\ t \in Seq(S) /\ Len(t) <= Len(s)
      /\ Range(t) = {s[i] : i \in I}
      /\ IsInjective(s) => IsInjective(t)
  <2> HIDE DEF I
  <2>1. Len(t) \in Nat /\ Len(s) \in Nat
    BY <1>2, PickRange, LenProperties
  <2> QED BY <1>2, <2>1, PickRange
<1>4. Range(s) \ {r} \subseteq {s[i] : i \in I}
  <2> SUFFICES ASSUME NEW x \in Range(s), x # r PROVE \E i \in I : s[i] = x
    OBVIOUS
  <2>1. PICK i \in DOMAIN s : s[i] = x
    BY DEF Range
  <2> QED BY <2>1
<1>5. {s[i] : i \in I} \subseteq Range(s)
  BY DEF Range
<1>6. ASSUME IsInjective(s) PROVE r \notin {s[i] : i \in I}
  <2> SUFFICES ASSUME NEW i \in I, s[i] = r PROVE FALSE
    OBVIOUS
  <2>1. PICK j \in 1 .. i - 1 : s[j] = r
    OBVIOUS
  <2>2. Len(s) \in Nat /\ DOMAIN s = 1 .. Len(s)
    BY LenProperties
  <2>3. j \in DOMAIN s /\ j # i
    BY <2>2
  <2> QED BY <1>6, <2>1, <2>3 DEF IsInjective
<1> HIDE DEF I, t
<1> QED BY <1>1, <1>3, <1>4, <1>5, <1>6
=============================================================================
