--------------------------- MODULE BitBytesProofs ---------------------------
(***************************************************************************)
(* The bytes of a piece and of a stream: why the written ranges of a piece *)
(* cover what was written in whatever order its blocks come, why the split *)
(* over the files puts every byte in its place, why the packs of a stream  *)
(* are the messages that were sent wherever the receives cut it, and why   *)
(* bencode is read as it was written.                                      *)
(***************************************************************************)
EXTENDS BitServicesProofs, BitPieceBytes, BitStreams, BitMetainfo, SequenceTheorems

-----------------------------------------------------------------------------
(* Sequences.                                                              *)

\* Inserting an element shifts those from its place on.
LEMMA InsertAtIs ==
  ASSUME NEW X, NEW s \in Seq(X), NEW i \in 1 .. Len(s) + 1, NEW x \in X
  PROVE  /\ InsertAt(s, i, x) \in Seq(X) /\ Len(InsertAt(s, i, x)) = Len(s) + 1
         /\ \A j \in 1 .. Len(s) + 1 :
              InsertAt(s, i, x)[j] = IF j < i THEN s[j] ELSE IF j = i THEN x ELSE s[j - 1]
<1> DEFINE a == SubSeq(s, 1, i - 1)
           c == SubSeq(s, i, Len(s))
           n == Len(s)
<1>1. n \in Nat /\ i \in Nat /\ 1 <= i /\ i <= n + 1
  OBVIOUS
<1>2. a \in Seq(X) /\ Len(a) = i - 1 /\ \A j \in 1 .. i - 1 : a[j] = s[j]
  BY <1>1
<1>3. c \in Seq(X) /\ Len(c) = n - i + 1 /\ \A j \in 1 .. n - i + 1 : c[j] = s[i + j - 1]
  BY <1>1
<1> HIDE DEF a, c, n
<1> DEFINE b == a \o <<x>>
<1>4. b \in Seq(X) /\ Len(b) = i /\ b[i] = x /\ \A j \in 1 .. i - 1 : b[j] = s[j]
  BY <1>1, <1>2
<1>5. InsertAt(s, i, x) = b \o c
  BY DEF InsertAt, a, c, n
<1> HIDE DEF b
<1>6. b \o c \in Seq(X) /\ Len(b \o c) = n + 1
  <2>1. b \o c \in Seq(X) /\ Len(b \o c) = Len(b) + Len(c)
    BY <1>3, <1>4, ConcatProperties
  <2>2. i + (n - i + 1) = n + 1
    BY <1>1
  <2> QED BY <1>3, <1>4, <2>1, <2>2
<1>7. ASSUME NEW j \in 1 .. n + 1
      PROVE  (b \o c)[j] = IF j < i THEN s[j] ELSE IF j = i THEN x ELSE s[j - 1]
  <2>1. CASE j < i
    BY <1>1, <1>3, <1>4, <2>1
  <2>2. CASE j = i
    BY <1>1, <1>3, <1>4, <2>2
  <2>3. CASE j > i
    <3>1. (b \o c)[j] = c[j - i]
      BY <1>1, <1>3, <1>4, <2>3
    <3>2. j - i \in 1 .. n - i + 1 /\ i + (j - i) - 1 = j - 1
      BY <1>1, <2>3
    <3>3. c[j - i] = s[j - 1]
      BY <1>3, <3>2
    <3>4. ~(j < i) /\ j # i
      BY <1>1, <2>3
    <3> QED BY <3>1, <3>3, <3>4
  <2>4. j < i \/ j = i \/ j > i
    BY <1>1
  <2> QED BY <2>1, <2>2, <2>3, <2>4
<1> QED BY <1>5, <1>6, <1>7 DEF n

\* Removing an element shifts those behind it.
LEMMA RemoveAtIs ==
  ASSUME NEW X, NEW s \in Seq(X), NEW i \in 1 .. Len(s)
  PROVE  /\ RemoveAt(s, i) \in Seq(X) /\ Len(RemoveAt(s, i)) = Len(s) - 1
         /\ \A j \in 1 .. Len(s) - 1 : RemoveAt(s, i)[j] = IF j < i THEN s[j] ELSE s[j + 1]
<1> DEFINE a == SubSeq(s, 1, i - 1)
           c == SubSeq(s, i + 1, Len(s))
           n == Len(s)
<1>1. n \in Nat /\ i \in Nat /\ 1 <= i /\ i <= n
  OBVIOUS
<1>2. a \in Seq(X) /\ Len(a) = i - 1 /\ \A j \in 1 .. i - 1 : a[j] = s[j]
  BY <1>1
<1>3. c \in Seq(X) /\ Len(c) = n - i /\ \A j \in 1 .. n - i : c[j] = s[i + j]
  BY <1>1
<1>4. RemoveAt(s, i) = a \o c
  BY DEF RemoveAt
<1> HIDE DEF a, c, n
<1>5. a \o c \in Seq(X) /\ Len(a \o c) = n - 1
  <2>1. a \o c \in Seq(X) /\ Len(a \o c) = Len(a) + Len(c)
    BY <1>2, <1>3, ConcatProperties
  <2>2. (i - 1) + (n - i) = n - 1
    BY <1>1
  <2> QED BY <1>2, <1>3, <2>1, <2>2
<1>6. ASSUME NEW j \in 1 .. n - 1 PROVE (a \o c)[j] = IF j < i THEN s[j] ELSE s[j + 1]
  <2>1. CASE j < i
    BY <1>1, <1>2, <1>3, <2>1
  <2>2. CASE j >= i
    <3>1. (a \o c)[j] = c[j - (i - 1)]
      BY <1>1, <1>2, <1>3, <2>2
    <3>2. j - (i - 1) \in 1 .. n - i /\ i + (j - (i - 1)) = j + 1
      BY <1>1, <2>2
    <3>3. c[j - (i - 1)] = s[j + 1]
      BY <1>3, <3>2
    <3>4. ~(j < i)
      BY <1>1, <2>2
    <3> QED BY <3>1, <3>3, <3>4
  <2>3. j < i \/ j >= i
    BY <1>1
  <2> QED BY <2>1, <2>2, <2>3
<1> QED BY <1>4, <1>5, <1>6 DEF n

-----------------------------------------------------------------------------
(* The written ranges.                                                     *)

WrittenRanges == [first : Nat, second : Nat]

Aligned(x) == \E k \in Nat : x = k * BlockLength

\* The ranges of a piece: whole blocks, in order and apart from each other.
RangesApart(w) ==
  /\ w \in Seq(WrittenRanges)
  /\ \A i \in DOMAIN w :
       /\ Aligned(w[i].first) /\ Aligned(w[i].second)
       /\ w[i].first < w[i].second /\ w[i].second <= PieceLength
  /\ \A i, j \in DOMAIN w : i < j => w[i].second < w[j].first

Covered(w) == {b \in Nat : \E i \in DOMAIN w : w[i].first <= b /\ b < w[i].second}

\* Between two ends of blocks there is a block.
LEMMA AlignedGap ==
  ASSUME NEW x, NEW y, Aligned(x), Aligned(y), x < y
  PROVE  x \in Nat /\ y \in Nat /\ x + BlockLength <= y
<1>1. PICK k \in Nat : x = k * BlockLength
  BY DEF Aligned
<1>2. PICK m \in Nat : y = m * BlockLength
  BY DEF Aligned
<1>3. PICK s \in Nat \ {0} : s = BlockLength
  BY BytesAssumption
<1>4. k * s \in Nat /\ m * s \in Nat
  OBVIOUS
<1>5. k < m
  <2> SUFFICES ASSUME m <= k PROVE FALSE
    OBVIOUS
  <2>1. CASE m = k
    BY <1>1, <1>2, <1>4, <1>3, <2>1
  <2>2. CASE m < k
    <3>1. m * s + s <= k * s
      BY <2>2, Spacing
    <3> QED BY <1>1, <1>2, <1>3, <1>4, <3>1
  <2> QED BY <2>1, <2>2
<1>6. k * s + s <= m * s
  BY <1>5, Spacing
<1> QED BY <1>1, <1>2, <1>3, <1>4, <1>6

\* What is known of each range.
LEMMA RangeTypes ==
  ASSUME NEW w, RangesApart(w)
  PROVE  /\ w \in Seq(WrittenRanges) /\ Len(w) \in Nat /\ DOMAIN w = 1 .. Len(w)
         /\ \A i \in 1 .. Len(w) :
              /\ w[i].first \in Nat /\ w[i].second \in Nat
              /\ w[i] = [first |-> w[i].first, second |-> w[i].second]
              /\ Aligned(w[i].first) /\ Aligned(w[i].second)
              /\ w[i].first < w[i].second /\ w[i].second <= PieceLength
         /\ \A i, j \in 1 .. Len(w) : i < j => w[i].second < w[j].first
<1>1. w \in Seq(WrittenRanges) /\ Len(w) \in Nat /\ DOMAIN w = 1 .. Len(w)
  BY LenProperties DEF RangesApart
<1>2. ASSUME NEW i \in 1 .. Len(w)
      PROVE  /\ w[i].first \in Nat /\ w[i].second \in Nat
             /\ w[i] = [first |-> w[i].first, second |-> w[i].second]
  <2>1. w[i] \in WrittenRanges
    BY <1>1, ElementOfSeq
  <2> QED BY <2>1 DEF WrittenRanges
<1> QED BY <1>1, <1>2 DEF RangesApart

\* v is w with its range i grown to [b, e), short of the ranges next to it.
Grown(w, v, i, b, e) ==
  /\ v \in Seq(WrittenRanges) /\ Len(v) = Len(w)
  /\ v[i].first = b /\ v[i].second = e /\ \A j \in 1 .. Len(w) : j # i => v[j] = w[j]
  /\ Aligned(b) /\ Aligned(e) /\ b <= w[i].first /\ w[i].second <= e /\ e <= PieceLength
  /\ \A j \in 1 .. Len(w) : j < i => w[j].second < b
  /\ \A j \in 1 .. Len(w) : i < j => e < w[j].first

\* One range grows, and stays apart from the others.
LEMMA RangeGrows ==
  ASSUME NEW w, RangesApart(w), NEW i \in 1 .. Len(w), NEW b \in Nat, NEW e \in Nat,
         NEW v, Grown(w, v, i, b, e)
  PROVE  RangesApart(v) /\ Covered(v) = Covered(w) \cup b .. e - 1
<1> DEFINE n == Len(w)
<1>0. /\ v \in Seq(WrittenRanges) /\ Len(v) = Len(w)
      /\ v[i].first = b /\ v[i].second = e /\ \A j \in 1 .. Len(w) : j # i => v[j] = w[j]
      /\ Aligned(b) /\ Aligned(e) /\ b <= w[i].first /\ w[i].second <= e /\ e <= PieceLength
      /\ \A j \in 1 .. Len(w) : j < i => w[j].second < b
      /\ \A j \in 1 .. Len(w) : i < j => e < w[j].first
  BY DEF Grown
<1>1. n \in Nat /\ DOMAIN v = 1 .. n /\ DOMAIN w = 1 .. n
  BY <1>0, RangeTypes, LenProperties
<1>2. \A j \in 1 .. n : /\ w[j].first \in Nat /\ w[j].second \in Nat
                        /\ Aligned(w[j].first) /\ Aligned(w[j].second)
                        /\ w[j].first < w[j].second /\ w[j].second <= PieceLength
  BY <1>0, RangeTypes
<1>3. \A j, k \in 1 .. n : j < k => w[j].second < w[k].first
  BY <1>0, RangeTypes
<1> HIDE DEF n
<1>4. b < e
  BY <1>0, <1>2, i \in 1 .. n DEF n
<1>5. ASSUME NEW j \in 1 .. n
      PROVE  /\ Aligned(v[j].first) /\ Aligned(v[j].second)
             /\ v[j].first < v[j].second /\ v[j].second <= PieceLength
  <2>1. CASE j = i
    BY <1>0, <1>4, <2>1
  <2>2. CASE j # i
    <3>1. v[j] = w[j]
      BY <1>0, <2>2 DEF n
    <3> QED BY <1>0, <1>2, <3>1
  <2> QED BY <1>0, <2>1, <2>2
<1>6. ASSUME NEW j \in 1 .. n, NEW k \in 1 .. n, j < k PROVE v[j].second < v[k].first
  <2>1. CASE j = i
    <3>1. v[k] = w[k] /\ v[j].second = e /\ e < w[k].first
      BY <1>0, <1>1, <1>6, <2>1 DEF n
    <3> QED BY <1>0, <3>1
  <2>2. CASE k = i
    <3>1. v[j] = w[j] /\ v[k].first = b /\ w[j].second < b
      BY <1>0, <1>1, <1>6, <2>2 DEF n
    <3> QED BY <1>0, <3>1
  <2>3. CASE j # i /\ k # i
    <3>1. v[j] = w[j] /\ v[k] = w[k]
      BY <1>0, <2>3 DEF n
    <3> QED BY <1>0, <1>3, <1>6, <3>1
  <2> QED BY <1>0, <2>1, <2>2, <2>3
<1>7. RangesApart(v)
  BY <1>0, <1>1, <1>5, <1>6 DEF RangesApart
<1>8. ASSUME NEW x \in Covered(v) PROVE x \in Covered(w) \cup b .. e - 1
  <2>1. PICK j \in 1 .. n : v[j].first <= x /\ x < v[j].second
    BY <1>0, <1>1 DEF Covered
  <2>2. x \in Nat
    BY DEF Covered
  <2>3. CASE j = i
    BY <1>0, <2>1, <2>2, <2>3
  <2>4. CASE j # i
    <3>1. v[j] = w[j]
      BY <1>0, <2>4 DEF n
    <3> QED BY <1>0, <1>1, <2>1, <2>2, <3>1 DEF Covered
  <2> QED BY <1>0, <2>3, <2>4
<1>9. ASSUME NEW x \in Nat, b <= x, x < e PROVE x \in Covered(v)
  <2>1. v[i].first <= x /\ x < v[i].second /\ i \in DOMAIN v
    BY <1>0, <1>1, <1>9 DEF n
  <2> QED BY <1>0, <2>1 DEF Covered
<1>10. ASSUME NEW x \in Covered(w) PROVE x \in Covered(v)
  <2>1. PICK j \in 1 .. n : w[j].first <= x /\ x < w[j].second
    BY <1>0, <1>1 DEF Covered
  <2>2. x \in Nat
    BY DEF Covered
  <2>3. CASE j = i
    <3>1. b <= x /\ x < e
      <4>1. w[i].first \in Nat /\ w[i].second \in Nat /\ w[i].first <= x /\ x < w[i].second
        BY <1>0, <1>2, <2>1, <2>3
      <4> QED BY <1>0, <2>2, <4>1
    <3> QED BY <1>0, <1>9, <2>2, <3>1
  <2>4. CASE j # i
    <3>1. v[j] = w[j]
      BY <1>0, <2>4 DEF n
    <3> QED BY <1>0, <1>1, <2>1, <2>2, <3>1 DEF Covered
  <2> QED BY <1>0, <2>3, <2>4
<1>11. \A x \in b .. e - 1 : x \in Nat /\ b <= x /\ x < e
  OBVIOUS
<1> QED BY <1>0, <1>7, <1>8, <1>9, <1>10, <1>11

Inserted(w, i, b, e) ==
  LET v == InsertAt(w, i, [first |-> b, second |-> e])
  IN  RangesApart(v) /\ Covered(v) = Covered(w) \cup b .. e - 1

\* A range comes between two others.
LEMMA RangeComes ==
  ASSUME NEW w, RangesApart(w), NEW i \in 1 .. Len(w) + 1, NEW b \in Nat, NEW e \in Nat,
         Aligned(b), Aligned(e), b < e, e <= PieceLength,
         \A j \in 1 .. Len(w) : j < i => w[j].second < b,
         \A j \in 1 .. Len(w) : i <= j => e < w[j].first
  PROVE  Inserted(w, i, b, e)
<1> DEFINE n == Len(w)
           x == [first |-> b, second |-> e]
           v == InsertAt(w, i, x)
<1>0. x \in WrittenRanges /\ x.first = b /\ x.second = e
  BY DEF WrittenRanges
<1> HIDE DEF x
<1>1. /\ w \in Seq(WrittenRanges) /\ n \in Nat /\ DOMAIN w = 1 .. n
      /\ \A j \in 1 .. n : /\ w[j].first \in Nat /\ w[j].second \in Nat
                           /\ Aligned(w[j].first) /\ Aligned(w[j].second)
                           /\ w[j].first < w[j].second /\ w[j].second <= PieceLength
      /\ \A j, k \in 1 .. n : j < k => w[j].second < w[k].first
  BY RangeTypes
<1>2. /\ v \in Seq(WrittenRanges) /\ Len(v) = n + 1
      /\ \A j \in 1 .. n + 1 : v[j] = IF j < i THEN w[j] ELSE IF j = i THEN x ELSE w[j - 1]
  BY <1>0, <1>1, InsertAtIs
<1>3. DOMAIN v = 1 .. n + 1
  BY <1>2, LenProperties
<1>4. i \in Nat /\ 1 <= i /\ i <= n + 1
  BY <1>1
<1> HIDE DEF n, v
\* Where an element of the new sequence comes from.
<1>5. ASSUME NEW j \in 1 .. n + 1
      PROVE  \/ j < i /\ j \in 1 .. n /\ v[j] = w[j]
             \/ j = i /\ v[j] = x
             \/ j > i /\ j - 1 \in 1 .. n /\ i <= j - 1 /\ v[j] = w[j - 1]
  <2>1. CASE j < i
    BY <1>1, <1>2, <1>4, <2>1
  <2>2. CASE j = i
    BY <1>2, <1>4, <2>2
  <2>3. CASE j > i
    BY <1>1, <1>2, <1>4, <2>3
  <2> QED BY <1>4, <2>1, <2>2, <2>3
<1>6. \A j \in 1 .. n : j < i => w[j].second < b
  BY DEF n
<1>7. \A j \in 1 .. n : i <= j => e < w[j].first
  BY DEF n
<1>8. ASSUME NEW j \in 1 .. n + 1
      PROVE  /\ Aligned(v[j].first) /\ Aligned(v[j].second)
             /\ v[j].first < v[j].second /\ v[j].second <= PieceLength
  BY <1>0, <1>1, <1>5
<1>9. ASSUME NEW j \in 1 .. n + 1, NEW k \in 1 .. n + 1, j < k PROVE v[j].second < v[k].first
  <2>1. CASE j < i /\ k < i
    BY <1>1, <1>4, <1>5, <1>9, <2>1
  <2>2. CASE j < i /\ k = i
    BY <1>0, <1>1, <1>4, <1>5, <1>6, <1>9, <2>2
  <2>3. CASE j < i /\ k > i
    <3>1. v[j] = w[j] /\ v[k] = w[k - 1] /\ j < k - 1 /\ j \in 1 .. n /\ k - 1 \in 1 .. n
      BY <1>4, <1>5, <2>3
    <3> QED BY <1>1, <3>1
  <2>4. CASE j = i /\ k > i
    <3>1. v[j] = x /\ v[k] = w[k - 1] /\ k - 1 \in 1 .. n /\ i <= k - 1
      BY <1>4, <1>5, <2>4
    <3> QED BY <1>0, <1>7, <3>1
  <2>5. CASE j > i
    <3>1. /\ v[j] = w[j - 1] /\ v[k] = w[k - 1] /\ j - 1 < k - 1
          /\ j - 1 \in 1 .. n /\ k - 1 \in 1 .. n
      BY <1>4, <1>5, <1>9, <2>5
    <3> QED BY <1>1, <3>1
  <2> QED BY <1>4, <1>9, <2>1, <2>2, <2>3, <2>4, <2>5
<1>10. RangesApart(v)
  BY <1>2, <1>3, <1>8, <1>9 DEF RangesApart
<1>11. ASSUME NEW y \in Covered(v) PROVE y \in Covered(w) \/ (y \in Nat /\ b <= y /\ y < e)
  <2>1. PICK j \in 1 .. n + 1 : v[j].first <= y /\ y < v[j].second
    BY <1>3 DEF Covered
  <2>2. y \in Nat
    BY DEF Covered
  <2> QED BY <1>0, <1>1, <1>5, <2>1, <2>2 DEF Covered
<1>12. ASSUME NEW y \in Nat, b <= y, y < e PROVE y \in Covered(v)
  <2>1. i \in 1 .. n + 1 /\ v[i] = x
    BY <1>1, <1>2, <1>4
  <2> QED BY <1>0, <1>3, <1>12, <2>1 DEF Covered
<1>13. ASSUME NEW y \in Covered(w) PROVE y \in Covered(v)
  <2>1. PICK j \in 1 .. n : w[j].first <= y /\ y < w[j].second
    BY <1>1 DEF Covered
  <2>2. y \in Nat
    BY DEF Covered
  <2>3. CASE j < i
    <3>1. j \in 1 .. n + 1 /\ v[j] = w[j]
      BY <1>1, <1>2, <2>3
    <3> QED BY <1>3, <2>1, <2>2, <3>1 DEF Covered
  <2>4. CASE j >= i
    <3>1. j + 1 \in 1 .. n + 1 /\ ~(j + 1 < i) /\ j + 1 # i /\ (j + 1) - 1 = j
      BY <1>1, <1>4, <2>4
    <3>2. v[j + 1] = w[j]
      BY <1>2, <3>1
    <3> QED BY <1>3, <2>1, <2>2, <3>1, <3>2 DEF Covered
  <2> QED BY <1>4, <2>3, <2>4
<1>14. \A y : y \in b .. e - 1 <=> y \in Nat /\ b <= y /\ y < e
  OBVIOUS
<1>15. Covered(v) = Covered(w) \cup b .. e - 1
  BY <1>11, <1>12, <1>13, <1>14
<1> QED BY <1>10, <1>15 DEF v, x, Inserted

\* The block between two ranges makes one of them.
LEMMA RangesMerge ==
  ASSUME NEW w, RangesApart(w), NEW i \in 1 .. Len(w), i + 1 \in 1 .. Len(w),
         NEW u \in Seq(WrittenRanges), Len(u) = Len(w),
         u[i].first = w[i].first, u[i].second = w[i + 1].second,
         \A j \in 1 .. Len(w) : j # i => u[j] = w[j]
  PROVE  LET v == RemoveAt(u, i + 1)
         IN  /\ RangesApart(v)
             /\ Covered(v) = Covered(w) \cup w[i].second .. w[i + 1].first - 1
<1> DEFINE n == Len(w)
           v == RemoveAt(u, i + 1)
<1>1. /\ w \in Seq(WrittenRanges) /\ n \in Nat /\ DOMAIN w = 1 .. n
      /\ \A j \in 1 .. n : /\ w[j].first \in Nat /\ w[j].second \in Nat
                           /\ Aligned(w[j].first) /\ Aligned(w[j].second)
                           /\ w[j].first < w[j].second /\ w[j].second <= PieceLength
      /\ \A j, k \in 1 .. n : j < k => w[j].second < w[k].first
  BY RangeTypes
<1>2. /\ v \in Seq(WrittenRanges) /\ Len(v) = n - 1
      /\ \A j \in 1 .. n - 1 : v[j] = IF j < i + 1 THEN u[j] ELSE u[j + 1]
  BY RemoveAtIs
<1>3. DOMAIN v = 1 .. n - 1
  BY <1>2, LenProperties
<1>4. i \in Nat /\ 1 <= i /\ i + 1 <= n /\ i \in 1 .. n /\ i + 1 \in 1 .. n
  BY <1>1
<1>5. /\ u[i].first = w[i].first /\ u[i].second = w[i + 1].second
      /\ \A j \in 1 .. n : j # i => u[j] = w[j]
  OBVIOUS
<1>6. w[i].second < w[i + 1].first
  BY <1>1, <1>4
<1> HIDE DEF n, v
\* Where an element of the new sequence comes from.
<1>7. ASSUME NEW j \in 1 .. n - 1
      PROVE  \/ j < i /\ j \in 1 .. n /\ v[j] = w[j]
             \/ j = i /\ v[j] = u[i]
             \/ j > i /\ j + 1 \in 1 .. n /\ v[j] = w[j + 1]
  <2>1. CASE j < i
    BY <1>1, <1>2, <1>4, <1>5, <2>1
  <2>2. CASE j = i
    BY <1>2, <1>4, <2>2
  <2>3. CASE j > i
    <3>1. v[j] = u[j + 1] /\ j + 1 \in 1 .. n /\ j + 1 # i
      BY <1>1, <1>2, <1>4, <2>3
    <3> QED BY <1>5, <2>3, <3>1
  <2> QED BY <1>4, <2>1, <2>2, <2>3
<1>8. ASSUME NEW j \in 1 .. n - 1
      PROVE  /\ Aligned(v[j].first) /\ Aligned(v[j].second)
             /\ v[j].first < v[j].second /\ v[j].second <= PieceLength
  <2>1. CASE j = i
    <3>1. v[j].first = w[i].first /\ v[j].second = w[i + 1].second
      BY <1>4, <1>5, <1>7, <2>1
    <3>2. w[i].first < w[i + 1].second
      BY <1>1, <1>4, <1>6
    <3> QED BY <1>1, <1>4, <3>1, <3>2
  <2>2. CASE j # i
    BY <1>1, <1>7, <2>2
  <2> QED BY <2>1, <2>2
<1>9. ASSUME NEW j \in 1 .. n - 1, NEW k \in 1 .. n - 1, j < k PROVE v[j].second < v[k].first
  <2>1. CASE j < i /\ k < i
    BY <1>1, <1>4, <1>7, <1>9, <2>1
  <2>2. CASE j < i /\ k = i
    BY <1>1, <1>4, <1>5, <1>7, <1>9, <2>2
  <2>3. CASE j < i /\ k > i
    <3>1. v[j] = w[j] /\ v[k] = w[k + 1] /\ j < k + 1 /\ j \in 1 .. n /\ k + 1 \in 1 .. n
      BY <1>4, <1>7, <2>3
    <3> QED BY <1>1, <3>1
  <2>4. CASE j = i /\ k > i
    <3>1. /\ v[j].second = w[i + 1].second /\ v[k] = w[k + 1] /\ i + 1 < k + 1
          /\ k + 1 \in 1 .. n
      BY <1>4, <1>5, <1>7, <2>4
    <3> QED BY <1>1, <1>4, <3>1
  <2>5. CASE j > i
    <3>1. /\ v[j] = w[j + 1] /\ v[k] = w[k + 1] /\ j + 1 < k + 1
          /\ j + 1 \in 1 .. n /\ k + 1 \in 1 .. n
      BY <1>4, <1>7, <1>9, <2>5
    <3> QED BY <1>1, <3>1
  <2> QED BY <1>4, <1>9, <2>1, <2>2, <2>3, <2>4, <2>5
<1>10. RangesApart(v)
  BY <1>2, <1>3, <1>8, <1>9 DEF RangesApart
<1>11. i \in 1 .. n - 1 /\ v[i].first = w[i].first /\ v[i].second = w[i + 1].second
  <2>1. i \in 1 .. n - 1
    BY <1>1, <1>4
  <2> QED BY <1>4, <1>5, <1>7, <2>1
<1>12. /\ w[i].first \in Nat /\ w[i].second \in Nat /\ w[i + 1].first \in Nat
       /\ w[i + 1].second \in Nat /\ w[i].first < w[i].second /\ w[i + 1].first < w[i + 1].second
  BY <1>1, <1>4
<1>13. ASSUME NEW y \in Nat, w[i].first <= y, y < w[i + 1].second PROVE y \in Covered(v)
  BY <1>3, <1>11, <1>13 DEF Covered
<1>14. ASSUME NEW y \in Covered(v)
       PROVE  y \in Covered(w) \/ (y \in Nat /\ w[i].second <= y /\ y < w[i + 1].first)
  <2>1. PICK j \in 1 .. n - 1 : v[j].first <= y /\ y < v[j].second
    BY <1>3 DEF Covered
  <2>2. y \in Nat
    BY DEF Covered
  <2>3. CASE j = i
    <3>1. w[i].first <= y /\ y < w[i + 1].second
      BY <1>11, <2>1, <2>3
    <3>2. \/ w[i].first <= y /\ y < w[i].second
          \/ w[i + 1].first <= y /\ y < w[i + 1].second
          \/ w[i].second <= y /\ y < w[i + 1].first
      BY <1>12, <2>2, <3>1
    <3> QED BY <1>1, <1>4, <2>2, <3>2 DEF Covered
  <2>4. CASE j < i
    <3>1. v[j] = w[j] /\ j \in DOMAIN w
      BY <1>1, <1>4, <1>7, <2>4
    <3> QED BY <2>1, <2>2, <3>1 DEF Covered
  <2>5. CASE j > i
    <3>1. v[j] = w[j + 1] /\ j + 1 \in DOMAIN w
      BY <1>1, <1>4, <1>7, <2>5
    <3> QED BY <2>1, <2>2, <3>1 DEF Covered
  <2> QED BY <1>4, <2>3, <2>4, <2>5
<1>15. ASSUME NEW y \in Covered(w) PROVE y \in Covered(v)
  <2>1. PICK j \in 1 .. n : w[j].first <= y /\ y < w[j].second
    BY <1>1 DEF Covered
  <2>2. y \in Nat
    BY DEF Covered
  <2>3. CASE j < i
    <3>1. j \in 1 .. n - 1 /\ v[j] = w[j]
      <4>1. j \in 1 .. n - 1
        BY <1>1, <1>4, <2>3
      <4> QED BY <1>4, <1>7, <2>3, <4>1
    <3> QED BY <1>3, <2>1, <2>2, <3>1 DEF Covered
  <2>4. CASE j = i \/ j = i + 1
    <3>1. w[i].first <= y /\ y < w[i + 1].second
      BY <1>6, <1>12, <2>1, <2>2, <2>4
    <3> QED BY <1>13, <2>2, <3>1
  <2>5. CASE j > i + 1
    <3>1. j - 1 \in 1 .. n - 1 /\ j - 1 > i /\ (j - 1) + 1 = j
      BY <1>1, <1>4, <2>5
    <3>2. v[j - 1] = w[j]
      BY <1>4, <1>7, <3>1
    <3> QED BY <1>3, <2>1, <2>2, <3>1, <3>2 DEF Covered
  <2> QED BY <1>4, <2>3, <2>4, <2>5
<1>16. ASSUME NEW y \in Nat, w[i].second <= y, y < w[i + 1].first PROVE y \in Covered(v)
  <2>1. w[i].first <= y /\ y < w[i + 1].second
    BY <1>12, <1>16
  <2> QED BY <1>13, <2>1
<1>17. \A y : y \in w[i].second .. w[i + 1].first - 1
                <=> y \in Nat /\ w[i].second <= y /\ y < w[i + 1].first
  BY <1>12
<1>18. Covered(v) = Covered(w) \cup w[i].second .. w[i + 1].first - 1
  BY <1>14, <1>15, <1>16, <1>17
<1> QED BY <1>10, <1>18 DEF v

WithSecond(w, i, e) == [w EXCEPT ![i].second = e]
WithFirst(w, i, b) == [w EXCEPT ![i].first = b]

\* One end of one range changes.
LEMMA OneEnd ==
  ASSUME NEW w \in Seq(WrittenRanges), NEW i \in 1 .. Len(w), NEW x \in Nat
  PROVE  /\ WithSecond(w, i, x) \in Seq(WrittenRanges) /\ Len(WithSecond(w, i, x)) = Len(w)
         /\ WithSecond(w, i, x)[i].first = w[i].first /\ WithSecond(w, i, x)[i].second = x
         /\ \A j \in 1 .. Len(w) : j # i => WithSecond(w, i, x)[j] = w[j]
         /\ WithFirst(w, i, x) \in Seq(WrittenRanges) /\ Len(WithFirst(w, i, x)) = Len(w)
         /\ WithFirst(w, i, x)[i].second = w[i].second /\ WithFirst(w, i, x)[i].first = x
         /\ \A j \in 1 .. Len(w) : j # i => WithFirst(w, i, x)[j] = w[j]
<1> DEFINE r == [w[i] EXCEPT !.second = x]
           q == [w[i] EXCEPT !.first = x]
<1>1. w[i] \in WrittenRanges
  BY ElementOfSeq
<1>2. /\ r \in WrittenRanges /\ r.first = w[i].first /\ r.second = x
      /\ q \in WrittenRanges /\ q.second = w[i].second /\ q.first = x
  BY <1>1 DEF WrittenRanges
<1>3. WithSecond(w, i, x) = [w EXCEPT ![i] = r] /\ WithFirst(w, i, x) = [w EXCEPT ![i] = q]
  BY DEF WithSecond, WithFirst
<1> HIDE DEF r, q
<1>4. /\ [w EXCEPT ![i] = r] \in Seq(WrittenRanges) /\ Len([w EXCEPT ![i] = r]) = Len(w)
      /\ \A j \in 1 .. Len(w) : [w EXCEPT ![i] = r][j] = IF j = i THEN r ELSE w[j]
  BY <1>2, ExceptSeq
<1>5. /\ [w EXCEPT ![i] = q] \in Seq(WrittenRanges) /\ Len([w EXCEPT ![i] = q]) = Len(w)
      /\ \A j \in 1 .. Len(w) : [w EXCEPT ![i] = q][j] = IF j = i THEN q ELSE w[j]
  BY <1>2, ExceptSeq
<1> QED BY <1>2, <1>3, <1>4, <1>5

\* A range the loop passes ends before the block.
LEMMA RangePassed ==
  ASSUME NEW w, RangesApart(w), NEW j \in 1 .. Len(w), NEW b, NEW e,
         Aligned(b), Aligned(e), b \in Nat, e = b + BlockLength,
         ~(w[j].first <= b /\ w[j].second >= e), w[j].first # e, w[j].second # b, ~(e < w[j].first)
  PROVE  w[j].second < b
<1>1. PICK x \in Nat : x = w[j].first
  BY RangeTypes
<1>2. PICK y \in Nat : y = w[j].second
  BY RangeTypes
<1>3. Aligned(x) /\ Aligned(y)
  BY <1>1, <1>2, RangeTypes
<1>4. PICK s \in Nat \ {0} : s = BlockLength
  BY BytesAssumption
<1>5. b < x => b + s <= x
  BY <1>3, <1>4, AlignedGap
<1>6. b < y => b + s <= y
  BY <1>3, <1>4, AlignedGap
<1> QED BY <1>1, <1>2, <1>4, <1>5, <1>6

\* MarkWriteBlock adds a block to the ranges, wherever it lies, and keeps them apart.
LEMMA BlockMarked ==
  ASSUME NEW w, RangesApart(w), NEW b \in Nat, NEW e \in Nat, e = b + BlockLength,
         Aligned(b), Aligned(e), e <= PieceLength
  PROVE  /\ RangesApart(MarkWriteBlock(w, b, e))
         /\ Covered(MarkWriteBlock(w, b, e)) = Covered(w) \cup b .. e - 1
<1> DEFINE n == Len(w)
           stop == {i \in DOMAIN w : \/ w[i].first <= b /\ w[i].second >= e
                                     \/ w[i].first = e \/ w[i].second = b \/ e < w[i].first}
           m == IF stop = {} THEN n + 1 ELSE Min(stop)
           v == MarkWriteBlock(w, b, e)
           x == [first |-> b, second |-> e]
<1> SUFFICES RangesApart(v) /\ Covered(v) = Covered(w) \cup b .. e - 1
  BY DEF v
<1>1. /\ w \in Seq(WrittenRanges) /\ n \in Nat /\ DOMAIN w = 1 .. n
      /\ \A j \in 1 .. n : /\ w[j].first \in Nat /\ w[j].second \in Nat
                           /\ Aligned(w[j].first) /\ Aligned(w[j].second)
                           /\ w[j].first < w[j].second /\ w[j].second <= PieceLength
      /\ \A j, k \in 1 .. n : j < k => w[j].second < w[k].first
  BY RangeTypes
<1>2. e \in Nat /\ b < e /\ e <= PieceLength /\ Aligned(b) /\ Aligned(e) /\ PieceLength \in Nat
  BY BytesAssumption
<1>3. v = IF m \notin DOMAIN w THEN Append(w, x)
          ELSE IF w[m].first <= b /\ w[m].second >= e THEN w
          ELSE IF w[m].first = e THEN WithFirst(w, m, b)
          ELSE IF w[m].second = b THEN MergeNextWriteBlock(WithSecond(w, m, e), m)
          ELSE InsertAt(w, m, x)
  BY DEF MarkWriteBlock, WithFirst, WithSecond
<1>4. \A j \in 1 .. n : j \notin stop => w[j].second < b
  BY <1>1, <1>2, RangePassed
<1>5. stop \subseteq 1 .. n
  BY <1>1
<1>6. \A j \in stop : \/ w[j].first <= b /\ w[j].second >= e
                      \/ w[j].first = e \/ w[j].second = b \/ e < w[j].first
  OBVIOUS
<1> HIDE DEF stop, v
<1>7. \/ stop = {} /\ m = n + 1
      \/ stop # {} /\ m \in stop /\ \A j \in stop : m <= j
  <2>1. stop \in SUBSET Nat
    BY <1>1, <1>5
  <2>2. stop # {} => Min(stop) \in stop /\ \A j \in stop : Min(stop) <= j
    BY <2>1, LeastOf
  <2> QED BY <2>2
<1> HIDE DEF m
<1>8. m \in 1 .. n + 1 /\ m \in Nat /\ \A j \in 1 .. n : j < m => w[j].second < b
  <2>1. CASE stop = {} /\ m = n + 1
    BY <1>1, <1>4, <2>1
  <2>2. CASE stop # {} /\ m \in stop /\ \A j \in stop : m <= j
    <3>1. m \in 1 .. n
      BY <1>5, <2>2
    <3>2. m \in Nat /\ m \in 1 .. n + 1
      BY <1>1, <3>1
    <3>3. ASSUME NEW j \in 1 .. n, j < m PROVE w[j].second < b
      <4>1. j \notin stop
        BY <1>1, <2>2, <3>1, <3>3
      <4> QED BY <1>4, <4>1
    <3> QED BY <3>2, <3>3
  <2> QED BY <1>7, <2>1, <2>2
<1> HIDE DEF x, n
<1>9. CASE m \notin DOMAIN w
  <2>1. m = n + 1
    BY <1>1, <1>8, <1>9
  <2>2. v = InsertAt(w, m, x)
    <3>1. x \in WrittenRanges
      BY <1>2 DEF x, WrittenRanges
    <3>2. Append(w, x) \in Seq(WrittenRanges) /\ Len(Append(w, x)) = n + 1
          /\ (\A j \in 1 .. n : Append(w, x)[j] = w[j]) /\ Append(w, x)[n + 1] = x
      BY <1>1, <3>1, AppendProperties DEF n
    <3>0. w \in Seq(WrittenRanges) /\ m \in 1 .. Len(w) + 1
      BY <1>1, <1>8 DEF n
    <3>3. InsertAt(w, m, x) \in Seq(WrittenRanges) /\ Len(InsertAt(w, m, x)) = n + 1
          /\ \A j \in 1 .. n + 1 :
               InsertAt(w, m, x)[j] = IF j < m THEN w[j] ELSE IF j = m THEN x ELSE w[j - 1]
      BY <3>0, <3>1, InsertAtIs DEF n
    <3>4. ASSUME NEW j \in 1 .. n + 1 PROVE Append(w, x)[j] = InsertAt(w, m, x)[j]
      <4>1. CASE j = n + 1
        BY <1>1, <2>1, <3>2, <3>3, <4>1
      <4>2. CASE j # n + 1
        <5>1. j \in 1 .. n /\ j < m
          BY <1>1, <2>1, <4>2
        <5> QED BY <3>2, <3>3, <5>1
      <4> QED BY <4>1, <4>2
    <3>5. Append(w, x) = InsertAt(w, m, x)
      BY <3>2, <3>3, <3>4, SeqEqual
    <3> QED BY <1>3, <1>9, <3>5
  <2>3. \A j \in 1 .. n : m <= j => e < w[j].first
    BY <1>1, <2>1
  <2>4. m \in 1 .. Len(w) + 1
    BY <1>8 DEF n
  <2>5. \A j \in 1 .. Len(w) : j < m => w[j].second < b
    BY <1>8 DEF n
  <2>6. \A j \in 1 .. Len(w) : m <= j => e < w[j].first
    BY <2>3 DEF n
  <2>7. Inserted(w, m, b, e)
    BY <1>2, <2>4, <2>5, <2>6, RangeComes
  <2> QED BY <2>2, <2>7 DEF Inserted, x
<1>10. CASE m \in DOMAIN w
  <2>1. m \in 1 .. n /\ m \in stop
    BY <1>1, <1>7, <1>10
  <2>2. \A j \in 1 .. n : m < j => w[m].second < w[j].first
    BY <1>1, <2>1
  <2>3. CASE w[m].first <= b /\ w[m].second >= e
    <3>1. v = w
      BY <1>3, <1>10, <2>3
    <3>2. \A y \in b .. e - 1 : y \in Nat /\ w[m].first <= y /\ y < w[m].second
      BY <1>1, <1>2, <2>1, <2>3
    <3>3. b .. e - 1 \subseteq Covered(w)
      BY <1>10, <3>2 DEF Covered
    <3> QED BY <3>1, <3>3
  <2>4. CASE w[m].first = e /\ ~(w[m].first <= b /\ w[m].second >= e)
    <3>1. v = WithFirst(w, m, b)
      BY <1>3, <1>10, <2>4
    <3>2. /\ v \in Seq(WrittenRanges) /\ Len(v) = n
          /\ v[m].second = w[m].second /\ v[m].first = b
          /\ \A j \in 1 .. n : j # m => v[j] = w[j]
      BY <1>1, <2>1, <3>1, OneEnd DEF n
    <3>3. /\ b <= w[m].first /\ w[m].second \in Nat /\ Aligned(w[m].second)
          /\ w[m].second <= w[m].second /\ w[m].second <= PieceLength
      BY <1>1, <1>2, <2>1, <2>4
    <3>4. RangesApart(v) /\ Covered(v) = Covered(w) \cup b .. w[m].second - 1
      <4>1. m \in 1 .. Len(w) /\ Len(v) = Len(w) /\ \A j \in 1 .. Len(w) : j # m => v[j] = w[j]
        BY <2>1, <3>2 DEF n
      <4>2. /\ \A j \in 1 .. Len(w) : j < m => w[j].second < b
            /\ \A j \in 1 .. Len(w) : m < j => w[m].second < w[j].first
        BY <1>8, <2>2 DEF n
      <4>3. PICK y \in Nat : y = w[m].second
        BY <3>3
      <4>4. RangesApart(v) /\ Covered(v) = Covered(w) \cup b .. y - 1
        <5>1. /\ v[m].second = y /\ v[m].first = b /\ Aligned(y) /\ w[m].second <= y
              /\ y <= PieceLength /\ \A j \in 1 .. Len(w) : m < j => y < w[j].first
              /\ b <= w[m].first /\ v \in Seq(WrittenRanges)
          BY <3>2, <3>3, <4>2, <4>3
        <5>2. /\ \A j \in 1 .. Len(w) : j < m => w[j].second < b
              /\ m \in 1 .. Len(w) /\ Len(v) = Len(w) /\ \A j \in 1 .. Len(w) : j # m => v[j] = w[j]
          BY <4>1, <4>2
        <5>3. Grown(w, v, m, b, y)
          BY <5>1, <5>2 DEF Grown
        <5> QED BY <5>2, <5>3, RangeGrows
      <4> QED BY <4>3, <4>4
    <3>5. w[m].first .. w[m].second - 1 \subseteq Covered(w)
      <4>1. \A y \in w[m].first .. w[m].second - 1 : y \in Nat /\ w[m].first <= y /\ y < w[m].second
        BY <1>1, <2>1
      <4> QED BY <1>10, <4>1 DEF Covered
    <3>6. /\ b .. w[m].second - 1 = b .. e - 1 \cup w[m].first .. w[m].second - 1
      <4>1. w[m].first \in Nat /\ w[m].second \in Nat /\ w[m].first < w[m].second
        BY <1>1, <2>1
      <4> QED BY <1>2, <2>4, <4>1
    <3> QED BY <3>4, <3>5, <3>6
  <2>5. CASE w[m].second = b /\ ~(w[m].first <= b /\ w[m].second >= e) /\ w[m].first # e
    <3> DEFINE u == WithSecond(w, m, e)
    <3>1. v = MergeNextWriteBlock(u, m)
      BY <1>3, <1>10, <2>5
    <3>2. /\ u \in Seq(WrittenRanges) /\ Len(u) = n
          /\ u[m].first = w[m].first /\ u[m].second = e
          /\ \A j \in 1 .. n : j # m => u[j] = w[j]
      BY <1>1, <1>2, <2>1, OneEnd DEF n
    <3> HIDE DEF u
    <3>3. \A j \in 1 .. n : m < j => e <= w[j].first
      <4> SUFFICES ASSUME NEW j \in 1 .. n, m < j PROVE e <= w[j].first
        OBVIOUS
      <4>1. Aligned(w[j].first) /\ b < w[j].first
        BY <1>1, <2>2, <2>5
      <4>2. b + BlockLength <= w[j].first
        BY <4>1, AlignedGap
      <4> QED BY <4>2
    <3>4. CASE m < n /\ e = w[m + 1].first
      <4>1. m + 1 \in 1 .. n /\ m + 1 # m
        BY <1>1, <2>1, <3>4
      <4>2. u[m + 1] = w[m + 1]
        BY <3>2, <4>1
      <4> DEFINE t == WithSecond(u, m, w[m + 1].second)
      <4>3. v = RemoveAt(t, m + 1)
        BY <3>1, <3>2, <3>4, <4>2 DEF MergeNextWriteBlock, WithSecond
      <4>4. /\ t \in Seq(WrittenRanges) /\ Len(t) = n
            /\ t[m].first = w[m].first /\ t[m].second = w[m + 1].second
            /\ \A j \in 1 .. n : j # m => t[j] = w[j]
        <5>1. w[m + 1].second \in Nat /\ m \in 1 .. Len(u)
          BY <1>1, <2>1, <3>2, <4>1
        <5> QED BY <3>2, <5>1, OneEnd
      <4> HIDE DEF t
      <4>5. RangesApart(v) /\ Covered(v) = Covered(w) \cup w[m].second .. w[m + 1].first - 1
        <5>1. m \in 1 .. Len(w) /\ m + 1 \in 1 .. Len(w) /\ Len(t) = Len(w)
              /\ \A j \in 1 .. Len(w) : j # m => t[j] = w[j]
          BY <2>1, <4>1, <4>4 DEF n
        <5> QED BY <4>3, <4>4, <5>1, RangesMerge
      <4> QED BY <2>5, <3>4, <4>5
    <3>5. CASE ~(m < n /\ e = w[m + 1].first)
      <4>1. v = u
        <5>1. m < n => u[m + 1] = w[m + 1]
          BY <1>1, <2>1, <3>2
        <5> QED BY <3>1, <3>2, <3>5, <5>1 DEF MergeNextWriteBlock
      <4>2. ASSUME NEW j \in 1 .. n, m < j PROVE e < w[j].first
        <5>1. m < n /\ m + 1 \in 1 .. n /\ e <= w[m + 1].first /\ e # w[m + 1].first
              /\ w[m + 1].first \in Nat
          BY <1>1, <2>1, <3>3, <3>5, <4>2
        <5>2. CASE j = m + 1
          BY <1>2, <5>1, <5>2
        <5>3. CASE j # m + 1
          <6>1. m + 1 < j
            BY <1>1, <2>1, <4>2, <5>3
          <6>2. /\ w[m + 1].second < w[j].first /\ w[m + 1].first < w[m + 1].second
                /\ w[m + 1].second \in Nat /\ w[j].first \in Nat
            BY <1>1, <5>1, <6>1
          <6> QED BY <1>2, <5>1, <6>2
        <5> QED BY <5>2, <5>3
      <4>3. /\ w[m].first \in Nat /\ Aligned(w[m].first) /\ w[m].first <= w[m].first
            /\ w[m].second <= e
        BY <1>1, <1>2, <2>1, <2>5
      <4>4. \A j \in 1 .. n : j < m => w[j].second < w[m].first
        BY <1>1, <2>1
      <4>5. RangesApart(v) /\ Covered(v) = Covered(w) \cup w[m].first .. e - 1
        <5>1. m \in 1 .. Len(w) /\ Len(v) = Len(w) /\ \A j \in 1 .. Len(w) : j # m => v[j] = w[j]
          BY <2>1, <3>2, <4>1 DEF n
        <5>2. /\ \A j \in 1 .. Len(w) : j < m => w[j].second < w[m].first
              /\ \A j \in 1 .. Len(w) : m < j => e < w[j].first
          BY <4>2, <4>4 DEF n
        <5>3. v \in Seq(WrittenRanges) /\ v[m].first = w[m].first /\ v[m].second = e
          BY <3>2, <4>1
        <5>4. PICK y \in Nat : y = w[m].first
          BY <4>3
        <5>5. RangesApart(v) /\ Covered(v) = Covered(w) \cup y .. e - 1
          <6>1. /\ v[m].first = y /\ Aligned(y) /\ y <= w[m].first /\ w[m].second <= e
                /\ \A j \in 1 .. Len(w) : j < m => w[j].second < y
            BY <4>3, <5>2, <5>3, <5>4
          <6>2. Grown(w, v, m, y, e)
            BY <5>1, <5>2, <5>3, <6>1 DEF Grown
          <6> QED BY <5>1, <6>2, RangeGrows
        <5> QED BY <5>4, <5>5
      <4>6. w[m].first .. w[m].second - 1 \subseteq Covered(w)
        <5>1. \A y \in w[m].first .. w[m].second - 1 :
                y \in Nat /\ w[m].first <= y /\ y < w[m].second
          BY <1>1, <2>1
        <5> QED BY <1>10, <5>1 DEF Covered
      <4>7. w[m].first .. e - 1 = w[m].first .. w[m].second - 1 \cup b .. e - 1
        <5>1. w[m].first \in Nat /\ w[m].first < b
          BY <1>1, <2>1, <2>5
        <5> QED BY <1>2, <2>5, <5>1
      <4> QED BY <4>5, <4>6, <4>7
    <3> QED BY <3>4, <3>5
  <2>6. CASE ~(w[m].first <= b /\ w[m].second >= e) /\ w[m].first # e /\ w[m].second # b
    <3>1. v = InsertAt(w, m, x) /\ e < w[m].first
      BY <1>3, <1>6, <1>10, <2>1, <2>6
    <3>2. ASSUME NEW j \in 1 .. n, m <= j PROVE e < w[j].first
      <4>1. CASE j = m
        BY <3>1, <4>1
      <4>2. CASE j # m
        <5>1. m < j
          BY <1>8, <3>2, <4>2
        <5>2. /\ w[m].second < w[j].first /\ w[m].first < w[m].second
              /\ w[m].first \in Nat /\ w[m].second \in Nat /\ w[j].first \in Nat
          BY <1>1, <2>1, <5>1
        <5> QED BY <1>2, <3>1, <5>2
      <4> QED BY <4>1, <4>2
    <3>3. m \in 1 .. Len(w) + 1
      BY <1>8 DEF n
    <3>4. \A j \in 1 .. Len(w) : j < m => w[j].second < b
      BY <1>8 DEF n
    <3>5. \A j \in 1 .. Len(w) : m <= j => e < w[j].first
      BY <3>2 DEF n
    <3>6. Inserted(w, m, b, e)
      BY <1>2, <3>3, <3>4, <3>5, RangeComes
    <3> QED BY <3>1, <3>6 DEF Inserted, x
  <2> QED BY <2>3, <2>4, <2>5, <2>6
<1> QED BY <1>9, <1>10

\* A piece is complete when all of its bytes are in ranges, and not before.
LEMMA CompleteIsCovered ==
  ASSUME NEW w, RangesApart(w)
  PROVE  IsComplete(w) <=> 0 .. PieceLength - 1 \subseteq Covered(w)
<1>1. /\ w \in Seq(WrittenRanges) /\ Len(w) \in Nat /\ DOMAIN w = 1 .. Len(w)
      /\ \A j \in 1 .. Len(w) :
           /\ w[j].first \in Nat /\ w[j].second \in Nat
           /\ w[j].first < w[j].second /\ w[j].second <= PieceLength
      /\ \A j, k \in 1 .. Len(w) : j < k => w[j].second < w[k].first
  BY RangeTypes
<1>2. PICK l \in Nat \ {0} : l = PieceLength
  BY BytesAssumption
<1>3. ASSUME IsComplete(w) PROVE 0 .. l - 1 \subseteq Covered(w)
  <2>1. 1 \in DOMAIN w /\ w[1].first = 0 /\ w[1].second = l
    BY <1>1, <1>2, <1>3, EmptySeq DEF IsComplete
  <2> QED BY <2>1 DEF Covered
<1>4. ASSUME 0 .. l - 1 \subseteq Covered(w) PROVE IsComplete(w)
  <2>1. 0 \in Covered(w)
    BY <1>4
  <2>2. PICK i \in 1 .. Len(w) : w[i].first <= 0 /\ 0 < w[i].second
    BY <1>1, <2>1 DEF Covered
  <2>3. 1 \in 1 .. Len(w)
    BY <1>1
  <2>4. i = 1
    <3> SUFFICES ASSUME 1 < i PROVE FALSE
      BY <1>1
    <3>1. w[1].second < w[i].first /\ w[1].second \in Nat /\ w[i].first \in Nat
      BY <1>1, <2>3
    <3> QED BY <2>2, <3>1
  <2>5. w[1].first = 0 /\ w[1].second \in Nat /\ w[1].second <= l
    BY <1>1, <1>2, <2>2, <2>4
  <2>6. w[1].second = l
    <3> SUFFICES ASSUME w[1].second < l PROVE FALSE
      BY <2>5
    <3>1. w[1].second \in 0 .. l - 1
      BY <2>5
    <3>2. PICK j \in 1 .. Len(w) : w[j].first <= w[1].second /\ w[1].second < w[j].second
      BY <1>1, <1>4, <3>1 DEF Covered
    <3>3. CASE j = 1
      BY <2>5, <3>2, <3>3
    <3>4. CASE j # 1
      <4>1. 1 < j
        BY <1>1, <3>4
      <4>2. w[1].second < w[j].first /\ w[j].first \in Nat
        BY <1>1, <2>3, <4>1
      <4> QED BY <2>5, <3>2, <4>2
    <3> QED BY <3>3, <3>4
  <2>7. w # <<>>
    BY <2>3, EmptySeq
  <2> QED BY <1>2, <2>5, <2>6, <2>7 DEF IsComplete
<1> QED BY <1>2, <1>3, <1>4

-----------------------------------------------------------------------------
(* The split over the files.                                               *)

PieceBegin == piece * PieceLength

\* The data is that of the written ranges.
Received ==
  /\ piece \in Nat /\ RangesApart(writed_)
  /\ data_ = [b \in 0 .. PieceLength - 1 |->
                IF b \in Covered(writed_) THEN PieceBegin + b ELSE NoByte]
  /\ state \in {"open", "receiving"} <=> ~IsComplete(writed_)
  /\ state = "open" => writed_ = <<>>

\* The bytes of the files that the operations have written so far.
Placed ==
  disk = [i \in DOMAIN file_size_ |-> [p \in 0 .. file_size_[i] - 1 |->
            LET b == file_boundary_[i - 1] + p
            IN  IF PieceBegin <= b /\ b < PieceBegin + op.pos_in_piece THEN b ELSE NoByte]]

\* The loop goes on where the bytes it has written end, until the piece ends.
InFile(f, pos, q) ==
  /\ f \in 1 .. Len(file_size_) + 1 /\ q \in Nat
  /\ \/ /\ file_boundary_[f - 1] < PieceBegin + PieceLength
        /\ file_boundary_[f - 1] + q = PieceBegin + pos
        /\ f <= Len(file_size_) => q <= file_size_[f]
     \/ file_boundary_[f - 1] >= PieceBegin + PieceLength /\ pos = PieceLength

Split ==
  /\ file_size_ \in Seq(Nat)
  /\ op.pos_in_piece \in 0 .. PieceLength
  /\ state \in {"open", "receiving"} => op.pos_in_piece = 0
  /\ state = "open" => file_size_ = <<>>
  /\ state = "receiving" => PieceBegin < Total
  /\ state = "splitting" => /\ op.left = PieceLength - op.pos_in_piece
                            /\ InFile(op.file_index, op.pos_in_piece, op.pos_in_file)
  /\ state = "done" => op.pos_in_piece = PieceLength /\ PieceBegin + PieceLength <= Total
  /\ state = "undefined" => Total < PieceBegin + PieceLength

BytesInv == Received /\ Placed /\ Split

\* The range of the piece.
LEMMA PieceRange ==
  ASSUME NEW k \in Nat
  PROVE  /\ k * PieceLength \in Nat /\ (k + 1) * PieceLength = k * PieceLength + PieceLength
         /\ \A b \in Nat : b \div PieceLength = k
                             <=> k * PieceLength <= b /\ b < k * PieceLength + PieceLength
<1>1. PICK l \in Nat \ {0} : l = PieceLength
  BY BytesAssumption
<1>2. k * l \in Nat /\ (k + 1) * l = k * l + l
  OBVIOUS
<1>3. ASSUME NEW b \in Nat PROVE b \div l = k <=> k * l <= b /\ b < k * l + l
  <2>1. PICK q \in Nat, r \in Nat : b \div l = q /\ r < l /\ b = l * q + r
    BY Quotient
  <2>2. q * l \in Nat /\ l * q = q * l
    OBVIOUS
  <2>3. CASE q = k
    BY <1>2, <2>1, <2>2, <2>3
  <2>4. CASE q < k
    <3>1. q * l + l <= k * l
      BY <2>4, Spacing
    <3> QED BY <1>2, <2>1, <2>2, <2>4, <3>1
  <2>5. CASE k < q
    <3>1. k * l + l <= q * l
      BY <2>5, Spacing
    <3> QED BY <1>2, <2>1, <2>2, <2>5, <3>1
  <2> QED BY <2>1, <2>3, <2>4, <2>5
<1> QED BY <1>1, <1>2, <1>3

\* The number that std::upper_bound gives is that of the file the byte is in.
LEMMA UpperBoundIs ==
  ASSUME file_size_ \in Seq(Nat), NEW byte \in Nat
  PROVE  /\ UpperBound(byte) \in 1 .. Len(file_size_) + 1
         /\ file_boundary_[UpperBound(byte) - 1] <= byte
         /\ UpperBound(byte) <= Len(file_size_) => byte < file_boundary_[UpperBound(byte)]
<1> DEFINE n == Len(file_size_)
           B == Boundaries(file_size_)
           S == {i \in 1 .. n + 1 : i = n + 1 \/ byte < B[i]}
<1>1. B \in [0 .. n -> Nat] /\ B[0] = 0
  BY BoundariesAdd
<1>2. n \in Nat /\ DOMAIN file_size_ = 1 .. n
  OBVIOUS
<1>3. \A i, j \in 0 .. n : i <= j => B[i] <= B[j]
  BY BoundariesGrow
<1>4. file_boundary_ = B
  BY DEF file_boundary_
<1> HIDE DEF B, n
<1>5. PICK u \in S : \A y \in S : u <= y
  <2>1. S \in SUBSET Nat /\ n + 1 \in S
    BY <1>2
  <2> HIDE DEF S
  <2> QED BY <2>1, LeastNumber
<1>6. u \in 1 .. n + 1 /\ (u = n + 1 \/ byte < B[u])
  OBVIOUS
<1>7. \A i \in 1 .. n + 1 : i < u => i <= n /\ B[i] <= byte
  <2> SUFFICES ASSUME NEW i \in 1 .. n + 1, i < u PROVE i <= n /\ B[i] <= byte
    OBVIOUS
  <2>1. i <= n /\ i \in 0 .. n
    BY <1>2, <1>6
  <2>2. i \notin S
    <3> HIDE DEF S
    <3>1. i \in Nat /\ u \in Nat
      BY <1>2, <1>6
    <3> QED BY <1>5, <3>1
  <2>3. B[i] \in Nat /\ ~(byte < B[i])
    BY <1>1, <2>1, <2>2
  <2> QED BY <2>1, <2>3
<1> HIDE DEF S
<1>8. {i \in DOMAIN file_size_ : B[i] <= byte} = 1 .. u - 1
  <2>1. ASSUME NEW i \in 1 .. n, B[i] <= byte PROVE i < u
    <3> SUFFICES ASSUME u <= i PROVE FALSE
      BY <1>2, <1>6
    <3>1. u \in 0 .. n /\ i \in 0 .. n /\ byte < B[u]
      BY <1>2, <1>6
    <3>2. B[u] <= B[i] /\ B[u] \in Nat /\ B[i] \in Nat
      BY <1>1, <1>3, <3>1
    <3> QED BY <2>1, <3>1, <3>2
  <2> QED BY <1>2, <1>6, <1>7, <2>1
<1>9. Cardinality(1 .. u - 1) = u - 1
  BY <1>2, <1>6, FS_Interval
<1>10. UpperBound(byte) = u
  <2>1. UpperBound(byte) = Cardinality({i \in DOMAIN file_size_ : file_boundary_[i] <= byte}) + 1
    BY DEF UpperBound
  <2>2. UpperBound(byte) = (u - 1) + 1
    BY <1>4, <1>8, <1>9, <2>1
  <2> QED BY <1>2, <1>6, <2>2
<1>11. B[u - 1] <= byte
  <2>1. CASE u = 1
    BY <1>1, <2>1
  <2>2. CASE u # 1
    BY <1>2, <1>6, <1>7, <2>2
  <2> QED BY <2>1, <2>2
<1>12. u <= n => byte < B[u]
  BY <1>2, <1>6
<1> QED BY <1>4, <1>6, <1>10, <1>11, <1>12 DEF n

\* The files and the boundaries between them.
LEMMA Files ==
  ASSUME file_size_ \in Seq(Nat)
  PROVE  /\ Len(file_size_) \in Nat /\ DOMAIN file_size_ = 1 .. Len(file_size_)
         /\ \A i \in 1 .. Len(file_size_) : file_size_[i] \in Nat
         /\ \A i \in 0 .. Len(file_size_) : file_boundary_[i] \in Nat
         /\ \A i \in 1 .. Len(file_size_) :
              file_boundary_[i] = file_boundary_[i - 1] + file_size_[i]
         /\ \A i, j \in 0 .. Len(file_size_) : i <= j => file_boundary_[i] <= file_boundary_[j]
         /\ Total = file_boundary_[Len(file_size_)]
<1>1. /\ Len(file_size_) \in Nat /\ DOMAIN file_size_ = 1 .. Len(file_size_)
      /\ \A i \in 1 .. Len(file_size_) : file_size_[i] \in Nat
  OBVIOUS
<1>2. /\ Boundaries(file_size_) \in [0 .. Len(file_size_) -> Nat]
      /\ \A i \in 1 .. Len(file_size_) :
           Boundaries(file_size_)[i] = Boundaries(file_size_)[i - 1] + file_size_[i]
  BY BoundariesAdd
<1>3. \A i, j \in 0 .. Len(file_size_) : i <= j => Boundaries(file_size_)[i] <= Boundaries(file_size_)[j]
  BY BoundariesGrow
<1> QED BY <1>1, <1>2, <1>3 DEF file_boundary_, Total

\* The file that comes next begins behind the piece when AddOperation's loop ends.
LEMMA LoopEnd ==
  ASSUME file_size_ \in Seq(Nat), piece \in Nat, NEW f \in 1 .. Len(file_size_) + 1
  PROVE  f <= GetFileIndexRange[2] <=> file_boundary_[f - 1] < PieceBegin + PieceLength
<1> DEFINE n == Len(file_size_)
<1>1. PICK l \in Nat \ {0} : l = PieceLength
  BY BytesAssumption
<1>2. PICK lo \in Nat : lo = PieceBegin /\ GetPieceByteRange[2] = lo + l
  BY <1>1, PieceRange DEF PieceBegin, GetPieceByteRange
<1>3. lo + l - 1 \in Nat /\ GetPieceByteRange[2] - 1 = lo + l - 1
  BY <1>1, <1>2
<1>4. PICK u \in 1 .. n + 1 : /\ u = GetFileIndexRange[2] /\ file_boundary_[u - 1] <= lo + l - 1
                              /\ u <= n => lo + l - 1 < file_boundary_[u]
  <2>1. GetFileIndexRange[2] = UpperBound(lo + l - 1)
    BY <1>3 DEF GetFileIndexRange
  <2> QED BY <1>3, <2>1, UpperBoundIs
<1>5. /\ n \in Nat /\ \A i \in 0 .. n : file_boundary_[i] \in Nat
      /\ \A i, j \in 0 .. n : i <= j => file_boundary_[i] <= file_boundary_[j]
  BY Files
<1> HIDE DEF n
<1>6. f \in 1 .. n + 1 /\ f - 1 \in 0 .. n /\ u - 1 \in 0 .. n
  BY <1>5 DEF n
<1>7. CASE f <= u
  <2>1. f - 1 <= u - 1
    BY <1>5, <1>6, <1>7
  <2>2. file_boundary_[f - 1] <= file_boundary_[u - 1]
    BY <1>5, <1>6, <2>1
  <2>3. file_boundary_[f - 1] \in Nat /\ file_boundary_[u - 1] \in Nat
    BY <1>5, <1>6
  <2> QED BY <1>1, <1>2, <1>4, <1>7, <2>2, <2>3
<1>8. CASE u < f
  <2>1. u <= n /\ u \in 0 .. n /\ u <= f - 1
    BY <1>5, <1>6, <1>8
  <2>2. file_boundary_[u] <= file_boundary_[f - 1]
    BY <1>5, <1>6, <2>1
  <2>3. file_boundary_[f - 1] \in Nat /\ file_boundary_[u] \in Nat
    BY <1>5, <1>6, <2>1
  <2>4. ~(f <= u)
    BY <1>5, <1>6, <1>8
  <2>5. ~(file_boundary_[f - 1] < lo + l)
    <3>1. lo + l - 1 < file_boundary_[u]
      BY <1>4, <2>1
    <3> QED BY <2>2, <2>3, <3>1
  <2> QED BY <1>1, <1>2, <1>4, <2>4, <2>5
<1> QED BY <1>5, <1>6, <1>7, <1>8

\* No range covers no byte, and the piece is not complete.
LEMMA NothingWritten ==
  RangesApart(<<>>) /\ Covered(<<>>) = {} /\ ~IsComplete(<<>>)
<1>1. <<>> \in Seq(WrittenRanges) /\ DOMAIN <<>> = {}
  OBVIOUS
<1> QED BY <1>1 DEF RangesApart, Covered, IsComplete

\* Before the torrent is open nothing is received and no file is there.
LEMMA BytesInitInv == BytesInit => BytesInv
<1> SUFFICES ASSUME BytesInit PROVE BytesInv
  OBVIOUS
<1>1. /\ file_size_ = <<>> /\ piece = 0 /\ state = "open" /\ writed_ = <<>> /\ disk = <<>>
      /\ data_ = [b \in 0 .. PieceLength - 1 |-> NoByte] /\ op.pos_in_piece = 0
  BY DEF BytesInit, NoOp
<1>2. Received
  BY <1>1, NothingWritten DEF Received
<1>3. Placed
  <2>1. DOMAIN file_size_ = {} /\ DOMAIN disk = {}
    BY <1>1
  <2> QED BY <1>1 DEF Placed
<1>4. Split
  <2>1. 0 \in 0 .. PieceLength
    BY BytesAssumption
  <2> QED BY <1>1, <2>1 DEF Split
<1> QED BY <1>2, <1>3, <1>4 DEF BytesInv

\* The files are made, empty of the piece, and the piece begins in one of them.
LEMMA PrepareStep == BytesInv /\ PrepareFiles => BytesInv'
<1> SUFFICES ASSUME BytesInv, PrepareFiles PROVE BytesInv'
  OBVIOUS
<1>1. /\ state = "open" /\ state' = "receiving" /\ writed_ = <<>> /\ writed_' = <<>>
      /\ data_' = data_ /\ op' = op /\ op.pos_in_piece = 0
  BY DEF PrepareFiles, BytesInv, Received, Split
<1> DEFINE sizes == file_size_'
           total == Boundaries(sizes)[Len(sizes)]
<1>2. PICK n \in 1 .. MaxFiles : sizes \in [1 .. n -> FileLengths]
  BY DEF PrepareFiles
<1>3. sizes \in Seq(Nat) /\ DOMAIN sizes = 1 .. Len(sizes) /\ Len(sizes) \in Nat
  <2> HIDE DEF sizes
  <2>0. n \in Nat /\ FileLengths \subseteq Nat
    BY BytesAssumption
  <2>1. sizes \in [1 .. n -> Nat]
    BY <1>2, <2>0
  <2>2. sizes \in Seq(Nat)
    BY <2>0, <2>1
  <2> QED BY <2>2
<1>4. /\ total > 0 /\ piece' \in 0 .. (total - 1) \div PieceLength
      /\ disk' = [i \in DOMAIN sizes |-> [p \in 0 .. sizes[i] - 1 |-> NoByte]]
  BY DEF PrepareFiles
<1>5. total \in Nat /\ Total' = total
  <2>1. Total' = total
    BY DEF Total
  <2> HIDE DEF sizes
  <2>2. Len(sizes) \in 0 .. Len(sizes)
    BY <1>3
  <2> QED BY <1>3, <2>1, <2>2, BoundariesAdd
<1> HIDE DEF total
<1>6. piece' \in Nat /\ PieceBegin' \in Nat /\ PieceBegin' < total
  <2>1. PICK l \in Nat \ {0} : l = PieceLength
    BY BytesAssumption
  <2>2. PICK t \in Nat : t = total - 1
    BY <1>4, <1>5
  <2>3. PICK q \in Nat, r \in Nat : t \div l = q /\ t = l * q + r
    BY <2>1, Quotient
  <2>4. piece' \in Nat /\ piece' <= q
    BY <1>4, <2>1, <2>2, <2>3
  <2>5. PICK k \in Nat : k = piece' /\ k <= q
    BY <2>4
  <2>6. k * l \in Nat /\ q * l \in Nat /\ k * l <= q * l /\ l * q = q * l
    <3>1. CASE k = q
      BY <3>1
    <3>2. CASE k < q
      <4>1. k * l \in Nat /\ q * l \in Nat /\ k * l + l <= q * l
        BY <3>2, Spacing
      <4> QED BY <4>1
    <3>3. q * l \in Nat /\ l * q = q * l
      OBVIOUS
    <3>4. k = q \/ k < q
      BY <2>5
    <3> QED BY <3>1, <3>2, <3>3, <3>4
  <2>7. k * l < total
    BY <1>4, <1>5, <2>2, <2>3, <2>6
  <2>8. PieceBegin' = k * l
    BY <2>1, <2>5 DEF PieceBegin
  <2> QED BY <2>4, <2>6, <2>7, <2>8
<1>7. Received'
  <2>1. \A b \in 0 .. PieceLength - 1 : b \notin Covered(writed_)
    BY <1>1, NothingWritten
  <2>2. data_ = [b \in 0 .. PieceLength - 1 |-> NoByte]
    BY <2>1 DEF BytesInv, Received
  <2>3. RangesApart(writed_') /\ Covered(writed_') = {} /\ ~IsComplete(writed_')
    BY <1>1, NothingWritten
  <2> QED BY <1>1, <1>6, <2>2, <2>3 DEF Received
<1>8. Placed'
  <2> DEFINE begins == file_boundary_'
             at == PieceBegin'
  <2>1. at \in Nat /\ op'.pos_in_piece = 0
    BY <1>1, <1>6
  <2>2. \A b \in Nat : ~(at <= b /\ b < at + 0)
    <3> HIDE DEF at
    <3> QED BY <2>1
  <2>3. ASSUME NEW i \in DOMAIN sizes, NEW p \in 0 .. sizes[i] - 1
        PROVE  begins[i - 1] + p \in Nat
    <3> HIDE DEF sizes
    <3>1. i - 1 \in 0 .. Len(sizes) /\ p \in Nat
      BY <1>3
    <3>2. begins = Boundaries(sizes)
      BY DEF file_boundary_, sizes
    <3> HIDE DEF begins
    <3>3. begins[i - 1] \in Nat
      BY <1>3, <3>1, <3>2, BoundariesAdd
    <3> QED BY <3>1, <3>3
  <2> HIDE DEF begins, at
  <2>4. \A i \in DOMAIN sizes : \A p \in 0 .. sizes[i] - 1 :
          NoByte = LET b == begins[i - 1] + p IN IF at <= b /\ b < at + 0 THEN b ELSE NoByte
    BY <2>2, <2>3
  <2>5. disk' = [i \in DOMAIN sizes |-> [p \in 0 .. sizes[i] - 1 |->
                   LET b == begins[i - 1] + p IN IF at <= b /\ b < at + 0 THEN b ELSE NoByte]]
    BY <1>4, <2>4
  <2> QED BY <2>1, <2>5 DEF Placed, begins, at
<1>9. Split'
  <2>1. 0 \in 0 .. PieceLength
    BY BytesAssumption
  <2> QED BY <1>1, <1>3, <1>5, <1>6, <2>1 DEF Split
<1> QED BY <1>7, <1>8, <1>9 DEF BytesInv

\* A block adds its bytes and its range; the last of them starts the split, in the
\* file the piece begins in.
LEMMA WriteStep ==
  ASSUME BytesInv, NEW k \in 0 .. PieceLength \div BlockLength - 1, WriteBlock(k * BlockLength)
  PROVE  BytesInv'
<1> DEFINE b0 == k * BlockLength
           e0 == b0 + BlockLength
<1>1. k \in Nat /\ b0 \in Nat /\ e0 \in Nat /\ Aligned(b0) /\ Aligned(e0)
  <2>1. PICK s \in Nat \ {0} : s = BlockLength
    BY BytesAssumption
  <2>2. k \in Nat
    BY BytesAssumption
  <2>3. k * s \in Nat /\ (k + 1) * s = k * s + s /\ k + 1 \in Nat
    BY <2>2
  <2> QED BY <2>1, <2>2, <2>3 DEF Aligned
<1>0. WriteBlock(b0)
  BY DEF b0
<1> HIDE DEF b0
<1>2. /\ state = "receiving" /\ e0 <= PieceLength
      /\ data_' = [b \in DOMAIN data_ |->
                     IF b \in b0 .. e0 - 1 THEN piece * PieceLength + b ELSE data_[b]]
      /\ writed_' = MarkWriteBlock(writed_, b0, e0)
      /\ file_size_' = file_size_ /\ piece' = piece /\ disk' = disk
  <2>1. /\ state = "receiving" /\ e0 <= PieceLength
        /\ writed_' = MarkWriteBlock(writed_, b0, e0)
        /\ file_size_' = file_size_ /\ piece' = piece /\ disk' = disk
    BY <1>0 DEF WriteBlock
  <2>2. data_' = [b \in DOMAIN data_ |->
                    IF b \in b0 .. e0 - 1 THEN piece * PieceLength + b ELSE data_[b]]
    <3>1. data_' = [b \in DOMAIN data_ |->
                      IF b \in b0 .. b0 + BlockLength - 1 THEN piece * PieceLength + b ELSE data_[b]]
      BY <1>0 DEF WriteBlock
    <3>2. b0 + BlockLength - 1 = e0 - 1
      BY <1>1, BytesAssumption
    <3> QED BY <3>1, <3>2
  <2> QED BY <2>1, <2>2
<1>3. IF IsComplete(writed_')
        THEN /\ state' = "splitting"
             /\ op' = [pos_in_piece |-> 0, file_index |-> GetFileIndexRange[1], left |-> PieceLength,
                       pos_in_file |-> GetPieceByteRange[1] - file_boundary_[GetFileIndexRange[1] - 1]]
        ELSE state' = state /\ op' = op
  BY <1>0 DEF WriteBlock
<1>4. /\ piece \in Nat /\ RangesApart(writed_) /\ file_size_ \in Seq(Nat)
      /\ data_ = [b \in 0 .. PieceLength - 1 |->
                    IF b \in Covered(writed_) THEN PieceBegin + b ELSE NoByte]
      /\ op.pos_in_piece = 0 /\ PieceBegin < Total /\ Placed
  BY <1>2 DEF BytesInv, Received, Split
<1> HIDE DEF e0
<1>5. RangesApart(writed_') /\ Covered(writed_') = Covered(writed_) \cup b0 .. e0 - 1
  <2>1. e0 = b0 + BlockLength
    BY DEF e0
  <2> QED BY <1>1, <1>2, <1>4, <2>1, BlockMarked
<1>6. PieceBegin' = PieceBegin /\ PieceBegin = piece * PieceLength
  BY <1>2 DEF PieceBegin
<1>7. state' \in {"open", "receiving"} <=> ~IsComplete(writed_')
  BY <1>2, <1>3
<1>8. state' # "open" /\ (IsComplete(writed_') => state' = "splitting")
      /\ (~IsComplete(writed_') => state' = "receiving" /\ op' = op)
  BY <1>2, <1>3
<1>9. Received'
  <2>1. data_' = [b \in 0 .. PieceLength - 1 |->
                    IF b \in Covered(writed_') THEN PieceBegin + b ELSE NoByte]
    BY <1>2, <1>4, <1>5, <1>6
  <2> QED BY <1>2, <1>4, <1>5, <1>6, <1>7, <1>8, <2>1 DEF Received
<1>10. op'.pos_in_piece = 0
  BY <1>3, <1>4
<1>11. Placed'
  BY <1>2, <1>4, <1>6, <1>10 DEF Placed, file_boundary_
<1>12. ASSUME IsComplete(writed_')
       PROVE  op'.left = PieceLength /\ InFile(op'.file_index, 0, op'.pos_in_file)
  <2>1. PICK l \in Nat \ {0} : l = PieceLength
    BY BytesAssumption
  <2>2. PICK lo \in Nat : lo = PieceBegin /\ GetPieceByteRange[1] = lo
    BY <1>4, PieceRange DEF PieceBegin, GetPieceByteRange
  <2>3. PICK f \in 1 .. Len(file_size_) + 1 :
          /\ f = GetFileIndexRange[1] /\ file_boundary_[f - 1] <= lo
          /\ f <= Len(file_size_) => lo < file_boundary_[f]
    <3>1. GetFileIndexRange[1] = UpperBound(lo)
      BY <2>2 DEF GetFileIndexRange
    <3> QED BY <1>4, <3>1, UpperBoundIs
  <2>4. /\ op'.file_index = f /\ op'.left = PieceLength
        /\ op'.pos_in_file = lo - file_boundary_[f - 1]
    BY <1>3, <1>12, <2>2, <2>3
  <2>5. file_boundary_[f - 1] \in Nat
        /\ (f <= Len(file_size_) => file_boundary_[f] = file_boundary_[f - 1] + file_size_[f]
                                    /\ file_size_[f] \in Nat)
    <3>1. f - 1 \in 0 .. Len(file_size_) /\ (f <= Len(file_size_) => f \in 1 .. Len(file_size_))
      BY <1>4
    <3> QED BY <1>4, <3>1, Files
  <2>6. lo - file_boundary_[f - 1] \in Nat
        /\ file_boundary_[f - 1] + (lo - file_boundary_[f - 1]) = lo + 0
        /\ (f <= Len(file_size_) => lo - file_boundary_[f - 1] <= file_size_[f])
        /\ file_boundary_[f - 1] < lo + l
    <3>1. PICK x \in Nat : x = file_boundary_[f - 1] /\ x <= lo
      BY <2>3, <2>5
    <3>2. f <= Len(file_size_) => lo - x <= file_size_[f]
      <4> SUFFICES ASSUME f <= Len(file_size_) PROVE lo - x <= file_size_[f]
        OBVIOUS
      <4>1. lo < file_boundary_[f] /\ file_boundary_[f] = x + file_size_[f] /\ file_size_[f] \in Nat
        BY <2>3, <2>5, <3>1
      <4> QED BY <4>1
    <3> QED BY <2>1, <3>1, <3>2
  <2>7. InFile(f, 0, lo - file_boundary_[f - 1])
    BY <2>1, <2>2, <2>6 DEF InFile
  <2> QED BY <2>4, <2>7
<1>13. Split'
  <2>1. 0 \in 0 .. PieceLength /\ PieceLength = PieceLength - 0
    BY BytesAssumption
  <2>2. Total' = Total
    BY <1>2 DEF Total
  <2>3. IsComplete(writed_') => InFile(op.file_index, 0, op.pos_in_file)'
    BY <1>2, <1>6, <1>12 DEF InFile, file_boundary_
  <2> QED BY <1>2, <1>4, <1>6, <1>8, <1>10, <1>12, <2>1, <2>2, <2>3 DEF Split
<1> QED BY <1>9, <1>11, <1>13 DEF BytesInv

\* An operation takes the bytes that the file and the piece both hold, to their
\* places in the file; none of them is in another file.
LEMMA AddOperationStep == BytesInv /\ AddOperation => BytesInv'
<1> SUFFICES ASSUME BytesInv, AddOperation PROVE BytesInv'
  OBVIOUS
<1> DEFINE n == Len(file_size_)
           B == file_boundary_
<1>1. /\ state = "splitting" /\ op.file_index <= GetFileIndexRange[2]
      /\ UNCHANGED <<file_size_, piece, data_, writed_>>
  BY DEF AddOperation
<1>2. /\ piece \in Nat /\ RangesApart(writed_) /\ IsComplete(writed_) /\ file_size_ \in Seq(Nat)
      /\ data_ = [b \in 0 .. PieceLength - 1 |->
                    IF b \in Covered(writed_) THEN PieceBegin + b ELSE NoByte]
      /\ op.left = PieceLength - op.pos_in_piece /\ op.pos_in_piece \in 0 .. PieceLength
      /\ InFile(op.file_index, op.pos_in_piece, op.pos_in_file)
      /\ Placed
  BY <1>1 DEF BytesInv, Received, Split
<1>3. /\ n \in Nat /\ DOMAIN file_size_ = 1 .. n
      /\ \A i \in 1 .. n : file_size_[i] \in Nat
      /\ \A i \in 0 .. n : B[i] \in Nat
      /\ \A i \in 1 .. n : B[i] = B[i - 1] + file_size_[i]
      /\ \A i, j \in 0 .. n : i <= j => B[i] <= B[j]
      /\ Total = B[n]
  BY <1>2, Files
<1>4. PieceBegin' = PieceBegin /\ B' = B /\ Total' = Total
      /\ file_size_' = file_size_ /\ writed_' = writed_ /\ data_' = data_ /\ piece' = piece
  BY <1>1 DEF PieceBegin, file_boundary_, Total
<1>5. PICK l \in Nat \ {0} : l = PieceLength
  BY BytesAssumption
<1>6. PICK lo \in Nat : lo = PieceBegin
  BY <1>2, PieceRange DEF PieceBegin
<1>7. PICK f \in 1 .. n + 1 : f = op.file_index
  BY <1>2 DEF InFile
<1>8. PICK q \in Nat : q = op.pos_in_file
  BY <1>2 DEF InFile
<1>9. PICK P \in 0 .. l : P = op.pos_in_piece
  BY <1>2, <1>5
<1>10. B[f - 1] < lo + l /\ B[f - 1] + q = lo + P /\ (f <= n => q <= file_size_[f])
  <2>1. B[f - 1] < lo + l
    <3>1. f <= GetFileIndexRange[2]
      BY <1>1, <1>7
    <3> QED BY <1>2, <1>5, <1>6, <1>7, <3>1, LoopEnd
  <2>2. f - 1 \in 0 .. n
    BY <1>3
  <2>3. B[f - 1] \in Nat
    BY <1>3, <2>2
  <2> QED BY <1>2, <1>5, <1>6, <1>7, <1>8, <1>9, <2>1, <2>3 DEF InFile
<1>11. Received'
  <2>1. state' # "open" /\ state' # "receiving"
    BY <1>1 DEF AddOperation
  <2> QED BY <1>2, <1>4, <2>1 DEF Received
<1> HIDE DEF n, B
<1>12. CASE f > n
  <2>1. state' = "undefined" /\ op' = op /\ disk' = disk
    BY <1>7, <1>12 DEF AddOperation, n
  <2>2. Total < lo + l
    <3>1. f - 1 = n
      BY <1>3, <1>12
    <3> QED BY <1>3, <1>10, <3>1
  <2>3. Split'
    BY <1>2, <1>4, <1>5, <1>6, <2>1, <2>2 DEF Split
  <2>4. Placed'
    BY <1>2, <1>4, <2>1 DEF Placed, B
  <2> QED BY <1>11, <2>3, <2>4 DEF BytesInv
<1>13. CASE f <= n
  <2>1. f \in 1 .. n /\ f - 1 \in 0 .. n /\ f \in 0 .. n
    BY <1>3, <1>13
  <2>2. PICK z \in Nat : z = file_size_[f]
    BY <1>3, <2>1
  <2>3. PICK x \in Nat : x = B[f - 1]
    BY <1>3, <2>1
  <2>4. x < lo + l /\ x + q = lo + P /\ q <= z /\ B[f] = x + z
    BY <1>3, <1>10, <1>13, <2>1, <2>2, <2>3
  <2> DEFINE m == Min({op.left, file_size_[f] - op.pos_in_file})
  <2>5. m \in Nat /\ ((m = l - P /\ m <= z - q) \/ (m = z - q /\ m <= l - P))
    <3>1. {op.left, file_size_[f] - op.pos_in_file} = {l - P, z - q}
      BY <1>2, <1>5, <1>8, <1>9, <2>2
    <3>2. l - P \in Nat /\ z - q \in Nat
      BY <2>4
    <3>3. Min({l - P, z - q}) \in {l - P, z - q} /\ \A y \in {l - P, z - q} : Min({l - P, z - q}) <= y
      <4>1. {l - P, z - q} \in SUBSET Nat /\ {l - P, z - q} # {}
        BY <3>2
      <4> QED BY <4>1, LeastOf
    <3> QED BY <3>1, <3>2, <3>3
  <2>6. /\ disk' = [disk EXCEPT ![f] = [p \in DOMAIN @ |->
                      IF p \in op.pos_in_file .. op.pos_in_file + m - 1
                        THEN data_[op.pos_in_piece + (p - op.pos_in_file)] ELSE @[p]]]
        /\ op' = [pos_in_piece |-> op.pos_in_piece + m, file_index |-> f + 1,
                  pos_in_file |-> 0, left |-> op.left - m]
        /\ state' = state
    BY <1>3, <1>7, <1>13 DEF AddOperation, n
  <2> HIDE DEF m
  <2>7. /\ op'.pos_in_piece = P + m /\ op'.file_index = f + 1 /\ op'.pos_in_file = 0
        /\ op'.left = l - (P + m)
    <3>1. op.left - m = l - (P + m)
      BY <1>2, <1>5, <1>9, <2>5
    <3> QED BY <1>9, <2>6, <3>1
  <2>8. P + m \in 0 .. l
    BY <2>4, <2>5
  <2>9. InFile(f + 1, P + m, 0)
    <3>1. f + 1 \in 1 .. n + 1 /\ 0 \in Nat /\ (f + 1) - 1 = f
      BY <1>3, <2>1
    <3>2. f + 1 <= n => 0 <= file_size_[f + 1]
      <4> SUFFICES ASSUME f + 1 <= n PROVE 0 <= file_size_[f + 1]
        OBVIOUS
      <4>1. f + 1 \in 1 .. n
        BY <1>3, <3>1
      <4>2. file_size_[f + 1] \in Nat
        BY <1>3, <4>1
      <4> QED BY <4>2
    <3>3. CASE m = z - q /\ x + z < lo + l
      <4>1. B[f] + 0 = lo + (P + m) /\ B[f] < lo + l
        BY <2>4, <3>3
      <4> QED BY <1>5, <1>6, <3>1, <3>2, <4>1 DEF InFile, B, n
    <3>4. CASE ~(m = z - q /\ x + z < lo + l)
      <4>1. B[f] >= lo + l /\ P + m = l
        BY <2>4, <2>5, <3>4
      <4> QED BY <1>5, <1>6, <3>1, <4>1 DEF InFile, B, n
    <3> QED BY <3>3, <3>4
  <2>10. Split'
    <3>1. InFile(op.file_index, op.pos_in_piece, op.pos_in_file)'
      BY <1>4, <2>7, <2>9 DEF InFile, B
    <3> QED BY <1>1, <1>2, <1>4, <1>5, <2>6, <2>7, <2>8, <3>1 DEF Split
  <2>11. ASSUME NEW b \in 0 .. l - 1 PROVE data_[b] = lo + b
    <3>1. b \in Covered(writed_)
      BY <1>2, <1>5, CompleteIsCovered
    <3> QED BY <1>2, <1>5, <1>6, <3>1
  <2> DEFINE at(i, p) == LET b == B[i - 1] + p IN IF lo <= b /\ b < lo + P THEN b ELSE NoByte
             after(i, p) == LET b == B[i - 1] + p IN IF lo <= b /\ b < lo + (P + m) THEN b ELSE NoByte
  <2>12. disk = [i \in 1 .. n |-> [p \in 0 .. file_size_[i] - 1 |-> at(i, p)]]
    BY <1>2, <1>3, <1>6, <1>9 DEF Placed, B
  <2>13. ASSUME NEW p \in 0 .. z - 1
         PROVE  (IF p \in q .. q + m - 1 THEN data_[P + (p - q)] ELSE at(f, p)) = after(f, p)
    <3>1. p \in Nat /\ B[f - 1] + p = x + p
      BY <2>3
    <3>2. CASE p \in q .. q + m - 1
      <4>1. P + (p - q) \in 0 .. l - 1 /\ lo + (P + (p - q)) = x + p
            /\ lo <= x + p /\ x + p < lo + (P + m)
        BY <2>4, <2>5, <2>8, <3>1, <3>2
      <4>2. data_[P + (p - q)] = x + p
        BY <2>11, <4>1
      <4> QED BY <3>1, <3>2, <4>1, <4>2
    <3>3. CASE p \notin q .. q + m - 1
      <4>1. x + p < lo + P <=> x + p < lo + (P + m)
        BY <2>4, <2>5, <3>1, <3>3
      <4> QED BY <3>1, <3>3, <4>1
    <3> QED BY <3>2, <3>3
  <2>14. ASSUME NEW i \in 1 .. n, i # f, NEW p \in 0 .. file_size_[i] - 1
         PROVE  at(i, p) = after(i, p)
    <3>0. i - 1 \in 0 .. n
      BY <1>3
    <3>1. PICK y \in Nat : y = B[i - 1]
      BY <1>3, <3>0
    <3>2. PICK s \in Nat : s = file_size_[i]
      BY <1>3
    <3>3. B[i] = y + s /\ p \in Nat /\ p < s
      BY <1>3, <3>1, <3>2
    <3>4. CASE i < f
      <4>1. B[i] <= x
        BY <1>3, <2>1, <2>3, <3>4
      <4>2. y + p < lo + P /\ y + p < lo + (P + m)
        BY <2>4, <2>5, <3>3, <4>1
      <4> QED BY <3>1, <4>2
    <3>5. CASE i > f
      <4>1. B[f] <= y
        <5>1. i - 1 \in 0 .. n /\ f <= i - 1
          BY <1>3, <2>1, <3>5
        <5> QED BY <1>3, <2>1, <3>1, <5>1
      <4>2. ~(y + p < lo + P) /\ ~(y + p < lo + (P + m))
        BY <2>4, <2>5, <3>3, <4>1
      <4> QED BY <3>1, <4>2
    <3> QED BY <2>1, <2>14, <3>4, <3>5
  <2> HIDE DEF at, after
  <2>15. disk' = [i \in 1 .. n |-> [p \in 0 .. file_size_[i] - 1 |-> after(i, p)]]
    <3> DEFINE new == [p \in 0 .. z - 1 |-> IF p \in q .. q + m - 1 THEN data_[P + (p - q)] ELSE at(f, p)]
               old(i) == [p \in 0 .. file_size_[i] - 1 |-> at(i, p)]
               all(i) == [p \in 0 .. file_size_[i] - 1 |-> after(i, p)]
    <3>1. disk[f] = [p \in 0 .. z - 1 |-> at(f, p)]
      BY <2>1, <2>2, <2>12
    <3>2. disk' = [disk EXCEPT ![f] = [p \in DOMAIN disk[f] |->
                     IF p \in q .. q + m - 1 THEN data_[P + (p - q)] ELSE disk[f][p]]]
      BY <1>8, <1>9, <2>6
    <3>3. [p \in DOMAIN disk[f] |->
             IF p \in q .. q + m - 1 THEN data_[P + (p - q)] ELSE disk[f][p]] = new
      BY <3>1
    <3>4. new = [p \in 0 .. z - 1 |-> after(f, p)]
      BY <2>13
    <3>5. new = all(f)
      BY <2>2, <3>4
    <3>6. \A i \in 1 .. n : i # f => old(i) = all(i)
      BY <2>14
    <3> HIDE DEF new, old, all
    <3>7. disk = [i \in 1 .. n |-> old(i)]
      BY <2>12 DEF old
    <3>8. disk' = [disk EXCEPT ![f] = all(f)]
      BY <3>2, <3>3, <3>5
    <3>9. disk' = [i \in 1 .. n |-> all(i)]
      BY <3>6, <3>7, <3>8
    <3> QED BY <3>9 DEF all
  <2>16. Placed'
    BY <1>3, <1>4, <1>6, <2>7, <2>15 DEF Placed, B, after
  <2> QED BY <1>11, <2>10, <2>16 DEF BytesInv
<1> QED BY <1>3, <1>12, <1>13

\* The loop ends behind the piece, and no file after the last was named.
LEMMA OperationsAddedStep == BytesInv /\ OperationsAdded => BytesInv'
<1> SUFFICES ASSUME BytesInv, OperationsAdded PROVE BytesInv'
  OBVIOUS
<1>1. /\ state = "splitting" /\ state' = "done" /\ op.file_index > GetFileIndexRange[2]
      /\ UNCHANGED <<file_size_, piece, data_, writed_, op, disk>>
  BY DEF OperationsAdded
<1>2. /\ PieceBegin' = PieceBegin /\ file_boundary_' = file_boundary_ /\ Total' = Total
  BY <1>1 DEF PieceBegin, file_boundary_, Total
<1>3. Received' /\ Placed'
  BY <1>1, <1>2 DEF BytesInv, Received, Placed
<1>4. /\ file_size_ \in Seq(Nat) /\ piece \in Nat /\ op.pos_in_piece \in 0 .. PieceLength
      /\ InFile(op.file_index, op.pos_in_piece, op.pos_in_file)
  BY <1>1 DEF BytesInv, Received, Split
<1>5. PICK f \in 1 .. Len(file_size_) + 1 : f = op.file_index
  BY <1>4 DEF InFile
<1>6. PICK l \in Nat \ {0} : l = PieceLength
  BY BytesAssumption
<1>7. PICK lo \in Nat : lo = PieceBegin
  BY <1>4, PieceRange DEF PieceBegin
<1>8. ~(file_boundary_[f - 1] < lo + l)
  <2>1. GetFileIndexRange[2] \in Nat
    <3>1. GetPieceByteRange[2] - 1 = lo + l - 1 /\ lo + l - 1 \in Nat
      <4>1. GetPieceByteRange[2] = lo + l
        BY <1>4, <1>6, <1>7, PieceRange DEF PieceBegin, GetPieceByteRange
      <4> QED BY <1>6, <4>1
    <3>2. UpperBound(lo + l - 1) \in 1 .. Len(file_size_) + 1
      BY <1>4, <3>1, UpperBoundIs
    <3> QED BY <1>4, <3>1, <3>2 DEF GetFileIndexRange
  <2>2. ~(f <= GetFileIndexRange[2])
    BY <1>1, <1>4, <1>5, <2>1
  <2> QED BY <1>4, <1>5, <1>6, <1>7, <2>2, LoopEnd
<1>9. op.pos_in_piece = PieceLength /\ lo + l <= Total
  <2>1. /\ f - 1 \in 0 .. Len(file_size_) /\ Len(file_size_) \in 0 .. Len(file_size_)
        /\ f - 1 <= Len(file_size_)
    BY <1>4
  <2>2. /\ file_boundary_[f - 1] \in Nat /\ Total \in Nat /\ file_boundary_[f - 1] <= Total
    BY <1>4, <2>1, Files
  <2>3. op.pos_in_piece = PieceLength
    BY <1>4, <1>5, <1>6, <1>7, <1>8 DEF InFile
  <2> QED BY <1>8, <2>2, <2>3
<1>10. Split'
  BY <1>1, <1>2, <1>4, <1>6, <1>7, <1>9 DEF Split
<1> QED BY <1>3, <1>10 DEF BytesInv

\* Every step keeps the invariant.
LEMMA BytesStep == BytesInv /\ [BytesNext]_byteVars => BytesInv'
<1> SUFFICES ASSUME BytesInv, [BytesNext]_byteVars PROVE BytesInv'
  OBVIOUS
<1>1. CASE PrepareFiles
  BY <1>1, PrepareStep
<1>2. CASE \E k \in 0 .. PieceLength \div BlockLength - 1 : WriteBlock(k * BlockLength)
  BY <1>2, WriteStep
<1>3. CASE AddOperation
  BY <1>3, AddOperationStep
<1>4. CASE OperationsAdded
  BY <1>4, OperationsAddedStep
<1>5. CASE UNCHANGED byteVars
  BY <1>5 DEF BytesInv, Received, Placed, Split, InFile, PieceBegin, file_boundary_, Total, byteVars
<1> QED BY <1>1, <1>2, <1>3, <1>4, <1>5 DEF BytesNext

\* What the invariant says of the data, and of the files when the piece is in them.
LEMMA BytesInvPlaced == BytesInv => BytesPlaced
<1> SUFFICES ASSUME BytesInv PROVE BytesPlaced
  OBVIOUS
<1>1. PICK l \in Nat \ {0} : l = PieceLength
  BY BytesAssumption
<1>2. /\ piece \in Nat /\ RangesApart(writed_) /\ file_size_ \in Seq(Nat)
      /\ data_ = [b \in 0 .. l - 1 |-> IF b \in Covered(writed_) THEN PieceBegin + b ELSE NoByte]
  BY <1>1 DEF BytesInv, Received, Split
<1>3. PICK lo \in Nat : /\ lo = PieceBegin /\ GetPieceByteRange[2] = lo + l
                        /\ \A b \in Nat : b \div PieceLength = piece <=> lo <= b /\ b < lo + l
  BY <1>1, <1>2, PieceRange DEF PieceBegin, GetPieceByteRange
<1>4. ASSUME NEW b \in DOMAIN data_
      PROVE  (\E r \in ToSet(writed_) : r.first <= b /\ b < r.second) <=> data_[b] # NoByte
  <2>1. b \in Nat /\ b \in 0 .. l - 1 /\ lo + b # -1
    BY <1>2
  <2>2. (\E r \in ToSet(writed_) : r.first <= b /\ b < r.second) <=> b \in Covered(writed_)
    BY <2>1 DEF ToSet, Covered
  <2> QED BY <1>2, <1>3, <2>1, <2>2 DEF NoByte
<1>5. \A i \in 1 .. Len(writed_) - 1 : writed_[i].second < writed_[i + 1].first
  <2> SUFFICES ASSUME NEW i \in 1 .. Len(writed_) - 1
               PROVE  writed_[i].second < writed_[i + 1].first
    OBVIOUS
  <2>1. Len(writed_) \in Nat /\ \A j, k \in 1 .. Len(writed_) : j < k => writed_[j].second < writed_[k].first
    BY <1>2, RangeTypes
  <2>2. i \in 1 .. Len(writed_) /\ i + 1 \in 1 .. Len(writed_) /\ i < i + 1
    BY <2>1
  <2> QED BY <2>1, <2>2
<1>6. ASSUME state = "receiving" PROVE \E b \in DOMAIN data_ : data_[b] = NoByte
  <2>1. ~IsComplete(writed_)
    BY <1>6 DEF BytesInv, Received
  <2>2. PICK b \in 0 .. l - 1 : b \notin Covered(writed_)
    BY <1>1, <1>2, <2>1, CompleteIsCovered
  <2> QED BY <1>2, <2>2
<1>7. Total \in Nat /\ \A i \in DOMAIN file_size_ : file_boundary_[i - 1] \in Nat
  <2>1. Len(file_size_) \in 0 .. Len(file_size_)
        /\ \A i \in 1 .. Len(file_size_) : i - 1 \in 0 .. Len(file_size_)
    BY <1>2
  <2> QED BY <1>2, <2>1, Files
<1>8. state = "undefined" => ~(GetPieceByteRange[2] <= Total)
  BY <1>1, <1>3, <1>7 DEF BytesInv, Split
<1>9. ASSUME state = "done"
      PROVE  /\ GetPieceByteRange[2] <= Total
             /\ \A i \in DOMAIN disk : \A p \in DOMAIN disk[i] :
                  LET b == file_boundary_[i - 1] + p
                  IN  disk[i][p] = IF b \div PieceLength = piece THEN b ELSE NoByte
  <2>1. op.pos_in_piece = l /\ lo + l <= Total
    BY <1>1, <1>3, <1>9 DEF BytesInv, Split
  <2>2. disk = [i \in DOMAIN file_size_ |-> [p \in 0 .. file_size_[i] - 1 |->
                  LET b == file_boundary_[i - 1] + p
                  IN  IF lo <= b /\ b < lo + l THEN b ELSE NoByte]]
    BY <1>3, <2>1 DEF BytesInv, Placed
  <2>3. ASSUME NEW i \in DOMAIN disk, NEW p \in DOMAIN disk[i]
        PROVE  disk[i][p] = IF (file_boundary_[i - 1] + p) \div PieceLength = piece
                            THEN file_boundary_[i - 1] + p ELSE NoByte
    <3>1. i \in DOMAIN file_size_ /\ p \in 0 .. file_size_[i] - 1 /\ p \in Nat
      BY <1>2, <2>2
    <3>2. PICK b \in Nat : b = file_boundary_[i - 1] + p
      BY <1>7, <3>1
    <3>3. disk[i][p] = IF lo <= b /\ b < lo + l THEN b ELSE NoByte
      BY <2>2, <3>1, <3>2
    <3> QED BY <1>3, <3>2, <3>3
  <2> QED BY <1>3, <2>1, <2>3
<1> QED BY <1>4, <1>5, <1>6, <1>8, <1>9 DEF BytesPlaced

\* In whatever order the blocks of a piece come, its bytes end in their places in the
\* files and nowhere else (BitPiece::MarkWriteBlock, FileService::AddOperation).
THEOREM BytesAlwaysPlaced == BytesSpec => []BytesPlaced
<1>1. BytesInit => BytesInv
  BY BytesInitInv
<1>2. BytesInv /\ [BytesNext]_byteVars => BytesInv'
  BY BytesStep
<1>3. BytesInv => BytesPlaced
  BY BytesInvPlaced
<1> QED BY <1>1, <1>2, <1>3, PTL DEF BytesSpec

-----------------------------------------------------------------------------
(* A stream and its messages, by positions.                                *)

\* What lies behind position a up to position b.
Part(s, a, b) == SubSeq(s, a + 1, b)

\* The elements of a part.
LEMMA PartIs ==
  ASSUME NEW X, NEW s \in Seq(X), NEW a \in Nat, NEW b \in Nat, a <= b, b <= Len(s)
  PROVE  /\ Part(s, a, b) \in Seq(X) /\ Len(Part(s, a, b)) = b - a
         /\ \A i \in 1 .. b - a : Part(s, a, b)[i] = s[a + i]
<1>1. Len(s) \in Nat
  BY LenProperties
<1>2. ASSUME NEW i \in a + 1 .. b PROVE s[i] \in X
  <2>1. i \in 1 .. Len(s)
    BY <1>1
  <2> QED BY <2>1, ElementOfSeq
<1>3. a + 1 \in Int /\ b \in Int
  OBVIOUS
<1>4. /\ SubSeq(s, a + 1, b) \in Seq(X)
      /\ Len(SubSeq(s, a + 1, b)) = IF a + 1 <= b THEN b - (a + 1) + 1 ELSE 0
      /\ \A i \in 1 .. b - (a + 1) + 1 : SubSeq(s, a + 1, b)[i] = s[(a + 1) + i - 1]
  BY <1>2, <1>3, SubSeqProperties
<1>5. b - (a + 1) + 1 = b - a /\ (a + 1 <= b \/ b - a = 0)
  OBVIOUS
<1>6. \A i \in 1 .. b - a : (a + 1) + i - 1 = a + i
  OBVIOUS
<1> QED BY <1>4, <1>5, <1>6 DEF Part

\* A part of a part.
LEMMA PartOfPart ==
  ASSUME NEW X, NEW s \in Seq(X), NEW a \in Nat, NEW b \in Nat, a <= b, b <= Len(s),
         NEW c \in Nat, NEW d \in Nat, c <= d, a + d <= b
  PROVE  Part(Part(s, a, b), c, d) = Part(s, a + c, a + d)
<1>0. ASSUME NEW x \in Nat, NEW y \in Nat, x <= y, y <= Len(s)
      PROVE  /\ Part(s, x, y) \in Seq(X) /\ Len(Part(s, x, y)) = y - x
             /\ \A i \in 1 .. y - x : Part(s, x, y)[i] = s[x + i]
  BY <1>0, PartIs
<1> DEFINE t == Part(s, a, b)
           u == Part(t, c, d)
           v == Part(s, a + c, a + d)
<1>1. Len(s) \in Nat
  BY LenProperties
<1>2. t \in Seq(X) /\ Len(t) = b - a /\ \A i \in 1 .. b - a : t[i] = s[a + i]
  BY PartIs
<1>3. d <= b - a /\ a + c \in Nat /\ a + d \in Nat /\ a + c <= a + d /\ a + d <= Len(s)
      /\ (a + d) - (a + c) = d - c
  BY <1>1
<1> HIDE DEF t
<1>4. u \in Seq(X) /\ Len(u) = d - c /\ \A i \in 1 .. d - c : u[i] = t[c + i]
  <2>1. t \in Seq(X) /\ d <= Len(t)
    BY <1>2, <1>3
  <2>2. /\ Part(t, c, d) \in Seq(X) /\ Len(Part(t, c, d)) = d - c
        /\ \A i \in 1 .. d - c : Part(t, c, d)[i] = t[c + i]
    BY <2>1, PartIs
  <2> QED BY <2>2
<1>5. v \in Seq(X) /\ Len(v) = d - c /\ \A i \in 1 .. d - c : v[i] = s[(a + c) + i]
  <2>1. PICK x \in Nat, y \in Nat : x = a + c /\ y = a + d
    <3>1. a + c \in Nat /\ a + d \in Nat
      OBVIOUS
    <3> QED BY <3>1
  <2>2. y <= Len(s)
    BY <1>3, <2>1
  <2>3. x <= y /\ y - x = d - c
    BY <2>1
  <2>4. /\ Part(s, x, y) \in Seq(X) /\ Len(Part(s, x, y)) = y - x
        /\ \A i \in 1 .. y - x : Part(s, x, y)[i] = s[x + i]
    BY <2>2, <2>3, <1>0
  <2> QED BY <2>1, <2>3, <2>4
<1> HIDE DEF u, v
<1>6. ASSUME NEW i \in 1 .. d - c PROVE u[i] = v[i]
  <2>1. c + i \in 1 .. b - a /\ a + (c + i) = (a + c) + i
    BY <1>3
  <2> QED BY <1>2, <1>4, <1>5, <2>1
<1>7. u = v
  BY <1>4, <1>5, <1>6, SeqEqual
<1> QED BY <1>7 DEF u, v, t

\* Two parts next to each other.
LEMMA PartsJoin ==
  ASSUME NEW X, NEW s \in Seq(X), NEW a \in Nat, NEW b \in Nat, NEW c \in Nat,
         a <= b, b <= c, c <= Len(s)
  PROVE  Part(s, a, b) \o Part(s, b, c) = Part(s, a, c)
<1>1. /\ Len(s) \in Nat /\ a + 1 \in 1 .. Len(s) + 1 /\ b \in (a + 1) - 1 .. Len(s)
      /\ c \in b .. Len(s)
  BY LenProperties
<1> QED BY <1>1, ConcatAdjacentSubSeq DEF Part

\* A part and the element behind it.
LEMMA PartGrows ==
  ASSUME NEW X, NEW s \in Seq(X), NEW a \in Nat, NEW b \in Nat, a <= b, b < Len(s)
  PROVE  Append(Part(s, a, b), s[b + 1]) = Part(s, a, b + 1)
<1> DEFINE p == Part(s, a, b)
           q == Part(s, a, b + 1)
           x == s[b + 1]
<1>1. Len(s) \in Nat /\ b <= Len(s) /\ b + 1 \in 1 .. Len(s)
  BY LenProperties
<1>2. p \in Seq(X) /\ Len(p) = b - a /\ \A i \in 1 .. b - a : p[i] = s[a + i]
  <2>1. s \in Seq(X) /\ a <= b /\ b <= Len(s)
    BY <1>1
  <2> QED BY <2>1, PartIs
<1>3. q \in Seq(X) /\ Len(q) = (b - a) + 1 /\ \A i \in 1 .. (b - a) + 1 : q[i] = s[a + i]
  <2>1. PICK c \in Nat : c = b + 1
    OBVIOUS
  <2>2. s \in Seq(X) /\ a <= c /\ c <= Len(s)
    BY <1>1, <2>1
  <2>3. /\ Part(s, a, c) \in Seq(X) /\ Len(Part(s, a, c)) = c - a
        /\ \A i \in 1 .. c - a : Part(s, a, c)[i] = s[a + i]
    BY <2>2, PartIs
  <2>4. c - a = (b - a) + 1
    BY <2>1
  <2> QED BY <2>1, <2>3, <2>4
<1>4. x \in X
  BY <1>1, ElementOfSeq
<1> HIDE DEF p, q
<1>5. /\ Append(p, x) \in Seq(X) /\ Len(Append(p, x)) = (b - a) + 1
      /\ \A i \in 1 .. b - a : Append(p, x)[i] = p[i]
      /\ Append(p, x)[(b - a) + 1] = x
  <2>1. /\ Append(p, x) \in Seq(X) /\ Len(Append(p, x)) = Len(p) + 1
        /\ \A i \in 1 .. Len(p) : Append(p, x)[i] = p[i]
        /\ Append(p, x)[Len(p) + 1] = x
    BY <1>2, <1>4, AppendProperties
  <2> QED BY <1>2, <2>1
<1>6. ASSUME NEW i \in 1 .. (b - a) + 1 PROVE Append(p, x)[i] = q[i]
  <2>1. CASE i = (b - a) + 1
    <3>1. a + i = b + 1
      BY <2>1
    <3> QED BY <1>3, <1>5, <2>1, <3>1
  <2>2. CASE i # (b - a) + 1
    <3>1. i \in 1 .. b - a
      BY <2>2
    <3> QED BY <1>2, <1>3, <1>5, <3>1
  <2> QED BY <2>1, <2>2
<1>7. Append(p, x) = q
  <2>1. Len(Append(p, x)) = Len(q) /\ \A i \in 1 .. Len(Append(p, x)) : Append(p, x)[i] = q[i]
    BY <1>3, <1>5, <1>6
  <2> QED BY <1>3, <1>5, <2>1, SeqEqual
<1> QED BY <1>7 DEF p, q

\* No part, and all of the sequence.
LEMMA PartEnds ==
  ASSUME NEW X, NEW s \in Seq(X)
  PROVE  Part(s, 0, Len(s)) = s /\ \A a \in 0 .. Len(s) : Part(s, a, a) = <<>>
<1>1. Len(s) \in Nat
  BY LenProperties
<1>2. Part(s, 0, Len(s)) = s
  <2>1. /\ Part(s, 0, Len(s)) \in Seq(X) /\ Len(Part(s, 0, Len(s))) = Len(s) - 0
        /\ \A i \in 1 .. Len(s) - 0 : Part(s, 0, Len(s))[i] = s[0 + i]
    <3>1. 0 \in Nat /\ 0 <= Len(s) /\ Len(s) <= Len(s)
      BY <1>1
    <3> QED BY <1>1, <3>1, PartIs
  <2>2. Len(s) - 0 = Len(s) /\ \A i \in 1 .. Len(s) : 0 + i = i
    BY <1>1
  <2> DEFINE t == Part(s, 0, Len(s))
  <2>3. t \in Seq(X) /\ Len(t) = Len(s) /\ \A i \in 1 .. Len(t) : t[i] = s[i]
    BY <2>1, <2>2
  <2> HIDE DEF t
  <2>4. t = s
    BY <2>3, SeqEqual
  <2> QED BY <2>4 DEF t
<1>3. ASSUME NEW a \in 0 .. Len(s) PROVE Part(s, a, a) = <<>>
  <2>1. a \in Nat /\ a <= a /\ a <= Len(s) /\ a - a = 0
    BY <1>1
  <2>2. Part(s, a, a) \in Seq(X) /\ Len(Part(s, a, a)) = a - a
    BY <2>1, PartIs
  <2> DEFINE t == Part(s, a, a)
  <2>3. t \in Seq(X) /\ Len(t) = 0
    BY <2>1, <2>2
  <2> HIDE DEF t
  <2>4. t = <<>>
    BY <2>3, EmptySeq
  <2> QED BY <2>4 DEF t
<1> QED BY <1>2, <1>3

\* Where the messages end in the stream.
Ends(s) == Boundaries([i \in DOMAIN s |-> Len(s[i])])

\* The ends of the messages.
LEMMA EndsAre ==
  ASSUME NEW X, NEW s \in Seq(Seq(X))
  PROVE  /\ Len(s) \in Nat /\ DOMAIN s = 1 .. Len(s)
         /\ \A i \in 1 .. Len(s) : s[i] \in Seq(X) /\ Len(s[i]) \in Nat
         /\ \A i \in 0 .. Len(s) : Ends(s)[i] \in Nat
         /\ Ends(s)[0] = 0
         /\ \A i \in 1 .. Len(s) : Ends(s)[i] = Ends(s)[i - 1] + Len(s[i])
         /\ \A i, j \in 0 .. Len(s) : i <= j => Ends(s)[i] <= Ends(s)[j]
<1> DEFINE lengths == [i \in DOMAIN s |-> Len(s[i])]
           n == Len(s)
<1>1. n \in Nat /\ DOMAIN s = 1 .. n
  BY LenProperties
<1>2. \A i \in 1 .. n : s[i] \in Seq(X) /\ Len(s[i]) \in Nat
  <2> TAKE i \in 1 .. n
  <2>1. s[i] \in Seq(X)
    BY ElementOfSeq
  <2> QED BY <2>1, LenProperties
<1>3. lengths \in Seq(Nat) /\ Len(lengths) = n /\ \A i \in 1 .. n : lengths[i] = Len(s[i])
  <2>1. lengths = [i \in 1 .. n |-> Len(s[i])]
    BY <1>1
  <2> QED BY <1>1, <1>2, <2>1
<1> HIDE DEF lengths, n
<1>4. /\ Boundaries(lengths) \in [0 .. n -> Nat] /\ Boundaries(lengths)[0] = 0
      /\ \A i \in 1 .. n : Boundaries(lengths)[i] = Boundaries(lengths)[i - 1] + lengths[i]
  <2>1. /\ Boundaries(lengths) \in [0 .. Len(lengths) -> Nat] /\ Boundaries(lengths)[0] = 0
        /\ \A i \in 1 .. Len(lengths) :
             Boundaries(lengths)[i] = Boundaries(lengths)[i - 1] + lengths[i]
    BY <1>3, BoundariesAdd
  <2> QED BY <1>3, <2>1
<1>5. \A i, j \in 0 .. n : i <= j => Boundaries(lengths)[i] <= Boundaries(lengths)[j]
  <2>1. \A i, j \in 0 .. Len(lengths) : i <= j => Boundaries(lengths)[i] <= Boundaries(lengths)[j]
    BY <1>3, BoundariesGrow
  <2> QED BY <1>3, <2>1
<1>6. Ends(s) = Boundaries(lengths)
  BY DEF Ends, lengths
<1> QED BY <1>1, <1>2, <1>3, <1>4, <1>5, <1>6 DEF n

\* The first messages end where they do in the whole stream.
LEMMA EndsOfFirst ==
  ASSUME NEW X, NEW s \in Seq(Seq(X)), NEW k \in 0 .. Len(s), NEW i \in 0 .. k
  PROVE  Ends(Part(s, 0, k))[i] = Ends(s)[i]
<1> DEFINE t == Part(s, 0, k)
           Bad == {j \in 0 .. k : Ends(t)[j] # Ends(s)[j]}
<1>1. /\ Len(s) \in Nat /\ Ends(s)[0] = 0
      /\ \A j \in 1 .. Len(s) : Ends(s)[j] = Ends(s)[j - 1] + Len(s[j])
  BY EndsAre
<1>2. t \in Seq(Seq(X)) /\ Len(t) = k /\ \A j \in 1 .. k : t[j] = s[j]
  <2>1. 0 \in Nat /\ k \in Nat /\ 0 <= k /\ k <= Len(s) /\ k - 0 = k
    BY <1>1
  <2>2. t \in Seq(Seq(X)) /\ Len(t) = k - 0 /\ \A j \in 1 .. k - 0 : t[j] = s[0 + j]
    BY <2>1, PartIs
  <2>3. \A j \in 1 .. k : 0 + j = j
    BY <2>1
  <2> QED BY <2>1, <2>2, <2>3
<1> HIDE DEF t
<1>3. /\ Ends(t)[0] = 0
      /\ \A j \in 1 .. k : Ends(t)[j] = Ends(t)[j - 1] + Len(t[j])
  <2>1. Ends(t)[0] = 0 /\ \A j \in 1 .. Len(t) : Ends(t)[j] = Ends(t)[j - 1] + Len(t[j])
    BY <1>2, EndsAre
  <2> QED BY <1>2, <2>1
<1>4. Bad = {}
  <2> SUFFICES ASSUME Bad # {} PROVE FALSE
    OBVIOUS
  <2>1. Bad \in SUBSET Nat
    BY <1>1
  <2>2. PICK m \in Bad : \A y \in Bad : m <= y
    <3> HIDE DEF Bad
    <3> QED BY <2>1, LeastNumber
  <2>3. m \in 0 .. k /\ Ends(t)[m] # Ends(s)[m]
    OBVIOUS
  <2>4. m # 0
    BY <1>1, <1>3, <2>3
  <2>5. m \in 1 .. k /\ m \in 1 .. Len(s) /\ m - 1 \in 0 .. k /\ m - 1 < m
    BY <1>1, <2>3, <2>4
  <2>6. m - 1 \notin Bad
    <3> HIDE DEF Bad
    <3> QED BY <2>2, <2>5
  <2>7. Ends(t)[m - 1] = Ends(s)[m - 1]
    BY <2>5, <2>6
  <2> QED BY <1>1, <1>2, <1>3, <2>3, <2>5, <2>7
<1> QED BY <1>4 DEF t

\* Every position lies in a message.
LEMMA InMessage ==
  ASSUME NEW X, NEW s \in Seq(Seq(X)), NEW k \in 0 .. Len(s), NEW q \in Nat \ {0}, q <= Ends(s)[k]
  PROVE  \E j \in 1 .. k : \E p \in 1 .. Len(s[j]) : q = Ends(s)[j - 1] + p
<1> DEFINE S == {j \in 0 .. k : q <= Ends(s)[j]}
<1>1. /\ Len(s) \in Nat /\ Ends(s)[0] = 0
      /\ \A i \in 1 .. Len(s) : Len(s[i]) \in Nat
      /\ \A i \in 0 .. Len(s) : Ends(s)[i] \in Nat
      /\ \A i \in 1 .. Len(s) : Ends(s)[i] = Ends(s)[i - 1] + Len(s[i])
  BY EndsAre
<1>2. PICK j \in S : \A y \in S : j <= y
  <2>1. S \in SUBSET Nat /\ k \in S
    BY <1>1
  <2> HIDE DEF S
  <2> QED BY <2>1, LeastNumber
<1>3. j \in 0 .. k /\ q <= Ends(s)[j]
  OBVIOUS
<1>4. j # 0
  BY <1>1, <1>3
<1>5. j \in 1 .. k /\ j - 1 \in 0 .. k /\ j \in 1 .. Len(s) /\ j - 1 \in 0 .. Len(s) /\ j - 1 < j
  BY <1>1, <1>3, <1>4
<1>6. j - 1 \notin S
  <2> HIDE DEF S
  <2> QED BY <1>2, <1>5
<1>7. PICK x \in Nat : x = Ends(s)[j - 1]
  BY <1>1, <1>5
<1>8. ~(q <= x) /\ q <= x + Len(s[j]) /\ Len(s[j]) \in Nat
  BY <1>1, <1>3, <1>5, <1>6, <1>7
<1>9. q - x \in 1 .. Len(s[j]) /\ q = x + (q - x)
  BY <1>8
<1> QED BY <1>5, <1>7, <1>9

\* The recursive definition of FlattenSeq, up to message m.
Flattens(f, s, m) == f = [i \in 1 .. m |-> IF i = 1 THEN s[i] ELSE f[i - 1] \o s[i]]

\* Such a function exists up to every m.
LEMMA FlattensExist ==
  ASSUME NEW X, NEW s \in Seq(Seq(X)), NEW n \in 0 .. Len(s)
  PROVE  \E f \in [1 .. n -> Seq(X)] : Flattens(f, s, n)
<1> DEFINE Bad == {m \in 0 .. Len(s) : ~ \E f \in [1 .. m -> Seq(X)] : Flattens(f, s, m)}
<1> SUFFICES ASSUME Bad # {} PROVE FALSE
  OBVIOUS
<1>0. Len(s) \in Nat /\ \A i \in 1 .. Len(s) : s[i] \in Seq(X)
  BY EndsAre
<1>1. PICK m \in Bad : \A y \in Bad : m <= y
  <2>1. Bad \in SUBSET Nat
    BY <1>0
  <2> HIDE DEF Bad
  <2> QED BY <2>1, LeastNumber
<1>2. m \in 0 .. Len(s) /\ ~ \E f \in [1 .. m -> Seq(X)] : Flattens(f, s, m)
  OBVIOUS
<1>3. CASE m = 0
  <2> DEFINE f == [i \in 1 .. 0 |-> s[i]]
  <2>1. f \in [1 .. 0 -> Seq(X)] /\ Flattens(f, s, 0)
    BY DEF Flattens
  <2> QED BY <1>2, <1>3, <2>1
<1>4. CASE m # 0
  <2>1. m \in 1 .. Len(s) /\ m - 1 \in 0 .. Len(s) /\ m \in Nat /\ m - 1 < m
    BY <1>0, <1>2, <1>4
  <2>2. m - 1 \notin Bad
    <3> HIDE DEF Bad
    <3> QED BY <1>1, <2>1
  <2>3. PICK f \in [1 .. m - 1 -> Seq(X)] : Flattens(f, s, m - 1)
    BY <2>1, <2>2
  <2> DEFINE last == IF m = 1 THEN s[m] ELSE f[m - 1] \o s[m]
             g == [i \in 1 .. m |-> IF i = m THEN last ELSE f[i]]
  <2>4. last \in Seq(X)
    <3>1. s[m] \in Seq(X)
      BY <1>0, <2>1
    <3>2. CASE m = 1
      BY <3>1, <3>2
    <3>3. CASE m # 1
      <4>1. f[m - 1] \in Seq(X)
        BY <2>1, <3>3
      <4>2. f[m - 1] \o s[m] \in Seq(X)
        BY <3>1, <4>1, ConcatProperties
      <4> QED BY <3>3, <4>2
    <3> QED BY <3>2, <3>3
  <2>5. \A i \in 1 .. m - 1 : f[i] = IF i = 1 THEN s[i] ELSE f[i - 1] \o s[i]
    BY <2>3 DEF Flattens
  <2>6. g \in [1 .. m -> Seq(X)]
    <3> HIDE DEF last
    <3> QED BY <2>1, <2>4
  <2>7. ASSUME NEW i \in 1 .. m PROVE g[i] = IF i = 1 THEN s[i] ELSE g[i - 1] \o s[i]
    <3>1. CASE i = m
      <4>1. g[i] = last /\ (m # 1 => g[m - 1] = f[m - 1])
        <5> HIDE DEF last
        <5> QED BY <2>1, <3>1
      <4> QED BY <3>1, <4>1
    <3>2. CASE i # m
      <4>1. i \in 1 .. m - 1 /\ (i # 1 => i - 1 \in 1 .. m - 1)
        BY <2>1, <3>2
      <4>2. g[i] = f[i] /\ (i # 1 => g[i - 1] = f[i - 1])
        <5> HIDE DEF last
        <5>1. i \in 1 .. m /\ (i # 1 => i - 1 \in 1 .. m /\ i - 1 # m)
          BY <2>1, <3>2
        <5> QED BY <3>2, <5>1
      <4> HIDE DEF g
      <4> QED BY <2>5, <4>1, <4>2
    <3> QED BY <3>1, <3>2
  <2> HIDE DEF g
  <2>8. Flattens(g, s, m)
    BY <2>6, <2>7 DEF Flattens
  <2> QED BY <1>2, <2>6, <2>8
<1> QED BY <1>3, <1>4

\* The flattened stream is as long as its messages are, and has each in its place.
LEMMA FlattenIs ==
  ASSUME NEW X, NEW s \in Seq(Seq(X))
  PROVE  /\ FlattenSeq(s) \in Seq(X) /\ Len(FlattenSeq(s)) = Ends(s)[Len(s)]
         /\ \A j \in 1 .. Len(s) : \A p \in 1 .. Len(s[j]) :
              FlattenSeq(s)[Ends(s)[j - 1] + p] = s[j][p]
<1> DEFINE n == Len(s)
           F == CHOOSE f : Flattens(f, s, n)
           E == Ends(s)
<1>1. /\ n \in Nat /\ E[0] = 0
      /\ \A i \in 1 .. n : s[i] \in Seq(X) /\ Len(s[i]) \in Nat
      /\ \A i \in 0 .. n : E[i] \in Nat
      /\ \A i \in 1 .. n : E[i] = E[i - 1] + Len(s[i])
      /\ \A i, j \in 0 .. n : i <= j => E[i] <= E[j]
  BY EndsAre
<1>2. CASE n = 0
  <2>1. s = <<>>
    BY <1>1, <1>2, EmptySeq
  <2>2. FlattenSeq(s) = <<>> /\ <<>> \in Seq(X) /\ Len(<<>>) = 0
    BY <2>1, EmptySeq DEF FlattenSeq
  <2>3. E[n] = 0 /\ 1 .. n = {}
    BY <1>1, <1>2
  <2> QED BY <2>2, <2>3
<1>3. CASE n # 0
  <2>1. FlattenSeq(s) = F[n]
    BY <1>3 DEF FlattenSeq, Flattens
  <2>2. PICK f \in [1 .. n -> Seq(X)] : Flattens(f, s, n)
    <3>1. n \in 0 .. Len(s)
      BY <1>1
    <3> QED BY <3>1, FlattensExist
  <2>3. Flattens(F, s, n)
    BY <2>2
  <2> HIDE DEF F, n, E
  <2>4. \A i \in 1 .. n : F[i] = IF i = 1 THEN s[i] ELSE F[i - 1] \o s[i]
    BY <2>3 DEF Flattens
  <2> DEFINE Flat(i) ==
               /\ F[i] \in Seq(X) /\ Len(F[i]) = E[i]
               /\ \A j \in 1 .. i : \A p \in 1 .. Len(s[j]) : F[i][E[j - 1] + p] = s[j][p]
             Bad == {i \in 1 .. n : ~Flat(i)}
  <2>5. Bad = {}
    <3> SUFFICES ASSUME Bad # {} PROVE FALSE
      OBVIOUS
    <3>1. PICK m \in Bad : \A y \in Bad : m <= y
      <4>1. Bad \in SUBSET Nat
        BY <1>1
      <4> HIDE DEF Bad
      <4> QED BY <4>1, LeastNumber
    <3>2. m \in 1 .. n /\ ~Flat(m)
      OBVIOUS
    <3>3. CASE m = 1
      <4>1. F[1] = s[1] /\ E[1] = Len(s[1]) /\ E[1 - 1] = 0 /\ s[1] \in Seq(X) /\ Len(s[1]) \in Nat
        <5>1. 1 \in 1 .. n /\ 1 - 1 = 0
          BY <3>2, <3>3
        <5>2. F[1] = s[1]
          BY <2>4, <5>1
        <5>3. E[0] = 0 /\ s[1] \in Seq(X) /\ Len(s[1]) \in Nat /\ E[1] = E[1 - 1] + Len(s[1])
          BY <1>1, <5>1
        <5> QED BY <5>1, <5>2, <5>3
      <4>2. \A p \in 1 .. Len(s[1]) : 0 + p = p
        BY <4>1
      <4>3. \A j \in 1 .. 1 : j = 1
        OBVIOUS
      <4>4. Flat(1)
        BY <4>1, <4>2, <4>3
      <4> QED BY <3>2, <3>3, <4>4
    <3>4. CASE m # 1
      <4>1. m - 1 \in 1 .. n /\ m - 1 < m /\ m \in Nat /\ m - 1 \in 0 .. n /\ m \in 0 .. n
        BY <1>1, <3>2, <3>4
      <4>2. m - 1 \notin Bad
        <5> HIDE DEF Bad
        <5> QED BY <3>1, <3>2, <4>1
      <4>3. Flat(m - 1)
        BY <4>1, <4>2
      <4>4. /\ F[m] = F[m - 1] \o s[m] /\ F[m - 1] \in Seq(X) /\ s[m] \in Seq(X)
            /\ Len(F[m - 1]) = E[m - 1] /\ E[m - 1] \in Nat /\ Len(s[m]) \in Nat
            /\ E[m] = E[m - 1] + Len(s[m])
        BY <1>1, <2>4, <3>2, <3>4, <4>1, <4>3
      <4>5. /\ F[m] \in Seq(X) /\ Len(F[m]) = E[m]
            /\ \A q \in 1 .. E[m] : F[m][q] = IF q <= E[m - 1] THEN F[m - 1][q] ELSE s[m][q - E[m - 1]]
        <5> DEFINE a == F[m - 1]
                   c == s[m]
        <5>1. a \in Seq(X) /\ c \in Seq(X)
          BY <4>4
        <5> HIDE DEF a, c
        <5>2. /\ a \o c \in Seq(X) /\ Len(a \o c) = Len(a) + Len(c)
              /\ \A q \in 1 .. Len(a) + Len(c) :
                   (a \o c)[q] = IF q <= Len(a) THEN a[q] ELSE c[q - Len(a)]
          BY <5>1, ConcatProperties
        <5>3. F[m] = a \o c /\ Len(a) = E[m - 1] /\ Len(a) + Len(c) = E[m]
          BY <4>4 DEF a, c
        <5> QED BY <5>2, <5>3 DEF a, c
      <4>6. ASSUME NEW j \in 1 .. m, NEW p \in 1 .. Len(s[j]) PROVE F[m][E[j - 1] + p] = s[j][p]
        <5>0. PICK c \in Nat, d \in Nat, l \in Nat :
                c = E[m - 1] /\ d = E[m] /\ l = Len(s[m]) /\ d = c + l
          BY <4>4
        <5>1. CASE j = m
          <6>1. p \in 1 .. l /\ d = c + l
            BY <5>0, <5>1
          <6>2. c + p \in 1 .. d /\ ~(c + p <= c) /\ (c + p) - c = p
            BY <6>1
          <6>3. F[m][c + p] = s[m][p]
            BY <4>5, <5>0, <6>2
          <6> QED BY <5>0, <5>1, <6>3
        <5>2. CASE j # m
          <6>1. j \in 1 .. m - 1 /\ j \in 1 .. n /\ j - 1 \in 0 .. n /\ j \in 0 .. n /\ j <= m - 1
            <7>1. n \in Nat
              BY <1>1
            <7>2. m \in Nat /\ m <= n /\ j \in Nat /\ 1 <= j /\ j <= m
              BY <4>1, <7>1
            <7> QED BY <5>2, <7>1, <7>2
          <6>2. PICK x \in Nat : x = E[j - 1]
            BY <1>1, <6>1
          <6>3. PICK y \in Nat : y = Len(s[j])
            BY <1>1, <6>1
          <6>4. E[j] = x + y /\ E[j] <= E[m - 1]
            BY <1>1, <4>1, <6>1, <6>2, <6>3
          <6>5. x + p \in 1 .. d /\ x + p <= c
            <7>1. PICK z \in Nat : z = p
              OBVIOUS
            <7>2. 1 <= z /\ z <= y
              BY <6>3, <7>1
            <7>3. x + y <= c /\ c <= d
              BY <5>0, <6>4
            <7>4. x + z \in 1 .. d /\ x + z <= c
              BY <7>2, <7>3
            <7> QED BY <7>1, <7>4
          <6>6. F[m - 1][x + p] = s[j][p]
            BY <4>3, <6>1, <6>2
          <6> QED BY <4>5, <5>0, <6>2, <6>5, <6>6
        <5> QED BY <5>1, <5>2
      <4>7. Flat(m)
        BY <4>5, <4>6
      <4> QED BY <3>2, <4>7
    <3> QED BY <3>3, <3>4
  <2>6. n \in 1 .. n
    BY <1>1, <1>3
  <2>7. Flat(n)
    BY <2>5, <2>6
  <2> QED BY <2>1, <2>7 DEF n, E
<1> QED BY <1>2, <1>3

\* The first messages are the first part of the stream, and each message is a part.
LEMMA FlattenFirst ==
  ASSUME NEW X, NEW s \in Seq(Seq(X)), NEW k \in 0 .. Len(s)
  PROVE  FlattenSeq(Part(s, 0, k)) = Part(FlattenSeq(s), 0, Ends(s)[k])
<1> DEFINE t == Part(s, 0, k)
           w == FlattenSeq(s)
           E == Ends(s)
           v == FlattenSeq(t)
           u == Part(w, 0, E[k])
<1>1. /\ Len(s) \in Nat /\ E[0] = 0
      /\ \A i \in 1 .. Len(s) : s[i] \in Seq(X) /\ Len(s[i]) \in Nat
      /\ \A i \in 0 .. Len(s) : E[i] \in Nat
      /\ \A i \in 1 .. Len(s) : E[i] = E[i - 1] + Len(s[i])
      /\ \A i, j \in 0 .. Len(s) : i <= j => E[i] <= E[j]
  BY EndsAre
<1>2. t \in Seq(Seq(X)) /\ Len(t) = k /\ \A j \in 1 .. k : t[j] = s[j]
  <2>1. 0 \in Nat /\ k \in Nat /\ 0 <= k /\ k <= Len(s) /\ k - 0 = k
    BY <1>1
  <2>2. t \in Seq(Seq(X)) /\ Len(t) = k - 0 /\ \A j \in 1 .. k - 0 : t[j] = s[0 + j]
    BY <2>1, PartIs
  <2>3. \A j \in 1 .. k : 0 + j = j
    BY <2>1
  <2> QED BY <2>1, <2>2, <2>3
<1>3. \A i \in 0 .. k : Ends(t)[i] = E[i]
  BY EndsOfFirst
<1>4. k \in Nat /\ k \in 0 .. k /\ k \in 0 .. Len(s) /\ Len(s) \in 0 .. Len(s) /\ k <= Len(s)
  BY <1>1
<1>5. /\ w \in Seq(X) /\ Len(w) = E[Len(s)]
      /\ \A j \in 1 .. Len(s) : \A p \in 1 .. Len(s[j]) : w[E[j - 1] + p] = s[j][p]
  BY FlattenIs
<1> HIDE DEF t, w, E
<1>6. /\ v \in Seq(X) /\ Len(v) = E[k]
      /\ \A j \in 1 .. k : \A p \in 1 .. Len(s[j]) : v[E[j - 1] + p] = s[j][p]
  <2>1. /\ v \in Seq(X) /\ Len(v) = Ends(t)[Len(t)]
        /\ \A j \in 1 .. Len(t) : \A p \in 1 .. Len(t[j]) : v[Ends(t)[j - 1] + p] = t[j][p]
    <3>1. t \in Seq(Seq(X))
      BY <1>2
    <3> QED BY <3>1, FlattenIs DEF v
  <2>2. \A j \in 1 .. k : j - 1 \in 0 .. k
    BY <1>4
  <2>3. ASSUME NEW j \in 1 .. k, NEW p \in 1 .. Len(s[j]) PROVE v[E[j - 1] + p] = s[j][p]
    <3>1. j \in 1 .. Len(t) /\ t[j] = s[j] /\ Ends(t)[j - 1] = E[j - 1]
      BY <1>2, <1>3, <2>2
    <3> QED BY <2>1, <3>1
  <2>4. Len(v) = E[k]
    BY <1>2, <1>3, <1>4, <2>1
  <2> QED BY <2>1, <2>3, <2>4
<1>7. PICK e \in Nat : e = E[k] /\ e <= Len(w)
  BY <1>1, <1>4, <1>5
<1>8. u \in Seq(X) /\ Len(u) = e /\ \A q \in 1 .. e : u[q] = w[q]
  <2>1. /\ Part(w, 0, e) \in Seq(X) /\ Len(Part(w, 0, e)) = e - 0
        /\ \A q \in 1 .. e - 0 : Part(w, 0, e)[q] = w[0 + q]
    <3>1. w \in Seq(X) /\ 0 \in Nat /\ 0 <= e /\ e <= Len(w)
      BY <1>5, <1>7
    <3> QED BY <3>1, PartIs
  <2>2. e - 0 = e /\ \A q \in 1 .. e : 0 + q = q
    OBVIOUS
  <2> QED BY <1>7, <2>1, <2>2
<1> HIDE DEF u, v
<1>9. ASSUME NEW q \in 1 .. e PROVE v[q] = u[q]
  <2>1. PICK j \in 1 .. k : \E p \in 1 .. Len(s[j]) : q = E[j - 1] + p
    <3>1. q \in Nat \ {0} /\ q <= Ends(s)[k]
      BY <1>7 DEF E
    <3> QED BY <3>1, InMessage DEF E
  <2>2. PICK p \in 1 .. Len(s[j]) : q = E[j - 1] + p
    BY <2>1
  <2>3. j \in 1 .. Len(s)
    BY <1>4
  <2>4. v[q] = s[j][p] /\ w[q] = s[j][p]
    BY <1>5, <1>6, <2>2, <2>3
  <2> QED BY <1>8, <2>4
<1>10. v = u
  <2>1. v \in Seq(X) /\ u \in Seq(X) /\ Len(v) = e /\ Len(u) = e
    BY <1>6, <1>7, <1>8
  <2>2. Len(v) = Len(u) /\ \A q \in 1 .. Len(v) : v[q] = u[q]
    BY <1>9, <2>1
  <2> QED BY <2>1, <2>2, SeqEqual
<1> QED BY <1>10 DEF v, u, t, w, E

\* A message is the part of the stream between two ends.
LEMMA MessageIsPart ==
  ASSUME NEW X, NEW s \in Seq(Seq(X)), NEW j \in 1 .. Len(s)
  PROVE  Part(FlattenSeq(s), Ends(s)[j - 1], Ends(s)[j]) = s[j]
<1> DEFINE w == FlattenSeq(s)
           E == Ends(s)
<1>1. /\ Len(s) \in Nat /\ s[j] \in Seq(X) /\ Len(s[j]) \in Nat
      /\ E[j] \in Nat /\ E[j - 1] \in Nat /\ E[j] = E[j - 1] + Len(s[j]) /\ E[j] <= E[Len(s)]
  <2>1. /\ Len(s) \in Nat /\ \A i \in 1 .. Len(s) : s[i] \in Seq(X) /\ Len(s[i]) \in Nat
        /\ \A i \in 0 .. Len(s) : E[i] \in Nat
        /\ \A i \in 1 .. Len(s) : E[i] = E[i - 1] + Len(s[i])
        /\ \A i, k \in 0 .. Len(s) : i <= k => E[i] <= E[k]
    BY EndsAre
  <2>2. /\ j \in 0 .. Len(s) /\ j - 1 \in 0 .. Len(s) /\ Len(s) \in 0 .. Len(s) /\ j <= Len(s)
    BY <2>1
  <2> QED BY <2>1, <2>2
<1>2. /\ w \in Seq(X) /\ Len(w) = E[Len(s)] /\ \A p \in 1 .. Len(s[j]) : w[E[j - 1] + p] = s[j][p]
  BY FlattenIs
<1> HIDE DEF w, E
<1>3. PICK a \in Nat : a = E[j - 1]
  BY <1>1
<1>4. PICK b \in Nat : b = E[j] /\ a <= b /\ b <= Len(w) /\ b - a = Len(s[j])
  <2>1. PICK b \in Nat, l \in Nat : b = E[j] /\ l = Len(s[j])
    BY <1>1
  <2>2. b = a + l /\ b <= Len(w)
    BY <1>1, <1>2, <1>3, <2>1
  <2>3. a <= b /\ b - a = l
    BY <2>2
  <2> QED BY <2>1, <2>2, <2>3
<1>5. /\ Part(w, a, b) \in Seq(X) /\ Len(Part(w, a, b)) = b - a
      /\ \A i \in 1 .. b - a : Part(w, a, b)[i] = w[a + i]
  <2>1. w \in Seq(X) /\ a <= b /\ b <= Len(w)
    BY <1>2, <1>4
  <2> QED BY <2>1, PartIs
<1>6. Part(w, a, b) = s[j]
  <2>1. \A i \in 1 .. Len(s[j]) : Part(w, a, b)[i] = s[j][i]
    BY <1>2, <1>3, <1>4, <1>5
  <2>2. Len(Part(w, a, b)) = Len(s[j])
    BY <1>4, <1>5
  <2>3. Part(w, a, b) \in Seq(X) /\ s[j] \in Seq(X)
    BY <1>1, <1>5
  <2> QED BY <2>1, <2>2, <2>3, SeqEqual
<1> QED BY <1>3, <1>4, <1>6 DEF w, E

-----------------------------------------------------------------------------
(* The rules: what CanUnpack finds at the beginning of a message.          *)

\* s begins as the message does, as far as both go.
Begins(s, msg) == \A p \in 1 .. Len(s) : p <= Len(msg) => s[p] = msg[p]

\* The bytes of a message of a peer.
LEMMA PeerMessageIs ==
  ASSUME NEW msg \in PeerMessages
  PROVE  /\ msg \in Seq(Nat) /\ Len(msg) \in Nat /\ Len(msg) >= 2
         /\ \/ Len(msg) = 4 /\ msg[1] = 19 /\ msg[2] = 66
            \/ \E n \in 0 .. MaxPayload :
                 msg[1] # 19 /\ msg[1] * 256 + msg[2] = n /\ n + 2 < 65536 /\ Len(msg) = n + 2
<1>1. CASE msg = Handshake
  <2>1. Handshake \in Seq(Nat) /\ Len(Handshake) = 4 /\ Handshake[1] = 19 /\ Handshake[2] = 66
    BY DEF Handshake, protocol_string_len, protocol_string
  <2> QED BY <1>1, <2>1
<1>2. CASE \E n \in 0 .. MaxPayload : msg = Framed(n)
  <2>1. PICK n \in 0 .. MaxPayload : msg = Framed(n)
    BY <1>2
  <2>2. n \in Nat /\ n < 4864
    BY StreamsAssumption DEF protocol_string_len
  <2>9. PICK x \in Nat, y \in Nat : x = n \div 256 /\ y = n % 256 /\ x * 256 + y = n /\ x < 19
    <3>1. PICK x \in Nat, y \in Nat : n \div 256 = x /\ n % 256 = y /\ n = 256 * x + y
      BY <2>2, Quotient
    <3> QED BY <2>2, <3>1
  <2> DEFINE a == <<x, y>>
             c == [i \in 1 .. n |-> protocol_string_len]
  <2>3. a \in Seq(Nat) /\ Len(a) = 2 /\ a[1] = x /\ a[2] = y
    OBVIOUS
  <2>4. c \in Seq(Nat) /\ Len(c) = n
    BY <2>2 DEF protocol_string_len
  <2> HIDE DEF a, c
  <2>5. /\ a \o c \in Seq(Nat) /\ Len(a \o c) = Len(a) + Len(c)
        /\ \A i \in 1 .. Len(a) + Len(c) : (a \o c)[i] = IF i <= Len(a) THEN a[i] ELSE c[i - Len(a)]
    BY <2>3, <2>4, ConcatProperties
  <2>6. Len(a) + Len(c) = n + 2 /\ 1 \in 1 .. Len(a) + Len(c) /\ 2 \in 1 .. Len(a) + Len(c)
        /\ 1 <= Len(a) /\ 2 <= Len(a)
    BY <2>2, <2>3, <2>4
  <2>7. (a \o c)[1] = x /\ (a \o c)[2] = y
    BY <2>3, <2>5, <2>6
  <2>8. msg = a \o c
    BY <2>1, <2>9 DEF Framed, a, c
  <2>10. x # 19 /\ n + 2 < 65536 /\ n + 2 >= 2
    BY <2>2, <2>9
  <2>11. msg \in Seq(Nat) /\ Len(msg) = n + 2 /\ msg[1] = x /\ msg[2] = y
    BY <2>5, <2>6, <2>7, <2>8
  <2>12. msg[1] # 19 /\ msg[1] * 256 + msg[2] = n
    BY <2>9, <2>10, <2>11
  <2>13. n + 2 \in Nat
    BY <2>2
  <2> QED BY <2>10, <2>11, <2>12, <2>13
<1> QED BY <1>1, <1>2 DEF PeerMessages

\* A message of a peer is unpacked as soon as it is there, and as long as it is.
LEMMA PeerPack ==
  ASSUME NEW msg \in PeerMessages, NEW s \in Seq(Nat), s # <<>>, Begins(s, msg)
  PROVE  PeerPackLen(s) = IF Len(msg) <= Len(s) THEN Len(msg) ELSE NoPack
<1>1. PICK l \in Nat : l = Len(s) /\ l # 0
  BY EmptySeq
<1>2. PICK m \in Nat : m = Len(msg) /\ m >= 2
  BY PeerMessageIs
<1>3. \A p \in 1 .. l : p <= m => s[p] = msg[p]
  BY <1>1, <1>2 DEF Begins
<1>4. s[1] = msg[1]
  BY <1>1, <1>2, <1>3
<1>5. handshake_size = 4
  BY DEF handshake_size, Handshake
<1> DEFINE pack_len == (s[1] * 256 + s[2] + PrefixSize) % 65536
<1>6. PeerPackLen(s) = IF l < 2 THEN NoPack
                       ELSE IF s[1] = 19 /\ l >= 4 /\ s[2] = 66 THEN 4
                       ELSE IF l >= pack_len THEN pack_len ELSE NoPack
  BY <1>1, <1>5 DEF PeerPackLen, PrefixSize, protocol_string_len, protocol_string
<1>7. CASE l < 2
  BY <1>1, <1>2, <1>6, <1>7
<1>8. CASE l >= 2
  <2>1. s[2] = msg[2]
    BY <1>2, <1>3, <1>8
  <2>2. CASE m = 4 /\ msg[1] = 19 /\ msg[2] = 66
    <3>1. pack_len = 4932
      BY <1>4, <2>1, <2>2 DEF PrefixSize
    <3> HIDE DEF pack_len
    <3> QED BY <1>1, <1>2, <1>4, <1>6, <1>8, <2>1, <2>2, <3>1
  <2>3. CASE \E n \in 0 .. MaxPayload :
               msg[1] # 19 /\ msg[1] * 256 + msg[2] = n /\ n + 2 < 65536 /\ m = n + 2
    <3>1. PICK n \in Nat : msg[1] # 19 /\ msg[1] * 256 + msg[2] = n /\ n + 2 < 65536 /\ m = n + 2
      BY <2>3
    <3>2. pack_len = m
      <4>1. pack_len = (n + 2) % 65536
        BY <1>4, <2>1, <3>1 DEF PrefixSize
      <4> HIDE DEF pack_len
      <4>2. (n + 2) % 65536 = n + 2
        <5>1. n + 2 < 65536
          BY <3>1
        <5> QED BY <5>1
      <4> QED BY <3>1, <4>1, <4>2
    <3> HIDE DEF pack_len
    <3> QED BY <1>1, <1>2, <1>4, <1>6, <1>8, <3>1, <3>2
  <2>4. \/ m = 4 /\ msg[1] = 19 /\ msg[2] = 66
        \/ \E n \in 0 .. MaxPayload :
             msg[1] # 19 /\ msg[1] * 256 + msg[2] = n /\ n + 2 < 65536 /\ m = n + 2
    <3>1. \/ Len(msg) = 4 /\ msg[1] = 19 /\ msg[2] = 66
          \/ \E n \in 0 .. MaxPayload :
               msg[1] # 19 /\ msg[1] * 256 + msg[2] = n /\ n + 2 < 65536 /\ Len(msg) = n + 2
      BY PeerMessageIs
    <3> QED BY <1>2, <3>1
  <2> HIDE DEF pack_len
  <2> QED BY <2>2, <2>3, <2>4
<1> QED BY <1>1, <1>7, <1>8

LineKinds == {"status", "length", "other", "blank", "body"}
Lines == [kind : LineKinds, n : Nat]

\* A status line, the h lines of the head, a blank line and n lines of body.
InLines(m, head, h, n) ==
  /\ m \in Seq(Lines) /\ Len(m) = h + 2 + n
  /\ m[1].kind = "status" /\ m[h + 2].kind = "blank"
  /\ \A i \in 1 .. h : m[i + 1] = head[i]
  /\ \A i \in 1 .. n : m[h + 2 + i].kind = "body"

\* The lines of a response, behind each other.
LEMMA ResponseLines ==
  ASSUME NEW head \in Seq(Lines), NEW n \in Nat, NEW h \in Nat, Len(head) = h
  PROVE  InLines(Response(head, n), head, h, n)
<1> DEFINE body == [i \in 1 .. n |-> Line("body", 0)]
           status == Line("status", 0)
           blank == Line("blank", 0)
           t == <<status>> \o head
           u == t \o <<blank>>
           m == u \o body
<1>1. status \in Lines /\ status.kind = "status" /\ blank \in Lines /\ blank.kind = "blank"
  BY DEF Line, Lines, LineKinds
<1>2. body \in Seq(Lines) /\ Len(body) = n /\ \A i \in 1 .. n : body[i].kind = "body"
  <2>1. Line("body", 0) \in Lines /\ Line("body", 0).kind = "body"
    BY DEF Line, Lines, LineKinds
  <2> HIDE DEF Lines
  <2> QED BY <2>1
<1>3. m = Response(head, n)
  BY DEF Response
<1> HIDE DEF body, status, blank, Lines
<1>4. <<status>> \in Seq(Lines) /\ Len(<<status>>) = 1 /\ <<status>>[1] = status
      /\ <<blank>> \in Seq(Lines) /\ Len(<<blank>>) = 1 /\ <<blank>>[1] = blank
  BY <1>1
<1>5. /\ t \in Seq(Lines) /\ Len(t) = 1 + h
      /\ \A i \in 1 .. 1 + h : t[i] = IF i <= 1 THEN <<status>>[i] ELSE head[i - 1]
  <2>1. /\ t \in Seq(Lines) /\ Len(t) = Len(<<status>>) + Len(head)
        /\ \A i \in 1 .. Len(<<status>>) + Len(head) :
             t[i] = IF i <= Len(<<status>>) THEN <<status>>[i] ELSE head[i - Len(<<status>>)]
    BY <1>4, ConcatProperties
  <2> QED BY <1>4, <2>1
<1>6. /\ t[1] = status /\ \A i \in 1 .. h : t[i + 1] = head[i]
  <2>1. t[1] = status
    BY <1>4, <1>5
  <2>2. ASSUME NEW i \in 1 .. h PROVE t[i + 1] = head[i]
    <3>1. i + 1 \in 1 .. 1 + h /\ ~(i + 1 <= 1) /\ (i + 1) - 1 = i
      OBVIOUS
    <3> QED BY <1>5, <3>1
  <2> QED BY <2>1, <2>2
<1> HIDE DEF t
<1>7. /\ u \in Seq(Lines) /\ Len(u) = h + 2 /\ u[h + 2] = blank
      /\ \A i \in 1 .. 1 + h : u[i] = t[i]
  <2>1. /\ u \in Seq(Lines) /\ Len(u) = Len(t) + Len(<<blank>>)
        /\ \A i \in 1 .. Len(t) + Len(<<blank>>) :
             u[i] = IF i <= Len(t) THEN t[i] ELSE <<blank>>[i - Len(t)]
    BY <1>4, <1>5, ConcatProperties
  <2>2. Len(u) = h + 2 /\ \A i \in 1 .. h + 2 : u[i] = IF i <= 1 + h THEN t[i] ELSE <<blank>>[i - (1 + h)]
    BY <1>4, <1>5, <2>1
  <2>3. h + 2 \in 1 .. h + 2 /\ ~(h + 2 <= 1 + h) /\ (h + 2) - (1 + h) = 1
        /\ \A i \in 1 .. 1 + h : i \in 1 .. h + 2 /\ i <= 1 + h
    OBVIOUS
  <2> QED BY <1>4, <2>1, <2>2, <2>3
<1> HIDE DEF u
<1>8. /\ m \in Seq(Lines) /\ Len(m) = h + 2 + n
      /\ \A i \in 1 .. h + 2 : m[i] = u[i]
      /\ \A i \in 1 .. n : m[h + 2 + i] = body[i]
  <2>1. /\ m \in Seq(Lines) /\ Len(m) = Len(u) + Len(body)
        /\ \A i \in 1 .. Len(u) + Len(body) :
             m[i] = IF i <= Len(u) THEN u[i] ELSE body[i - Len(u)]
    BY <1>2, <1>7, ConcatProperties
  <2>2. Len(m) = h + 2 + n
        /\ \A i \in 1 .. h + 2 + n : m[i] = IF i <= h + 2 THEN u[i] ELSE body[i - (h + 2)]
    BY <1>2, <1>7, <2>1
  <2>3. /\ \A i \in 1 .. h + 2 : i \in 1 .. h + 2 + n /\ i <= h + 2
        /\ \A i \in 1 .. n : /\ h + 2 + i \in 1 .. h + 2 + n /\ ~(h + 2 + i <= h + 2)
                             /\ (h + 2 + i) - (h + 2) = i
    OBVIOUS
  <2> HIDE DEF m
  <2>4. \A i \in 1 .. h + 2 : m[i] = u[i]
    BY <2>2, <2>3
  <2>5. ASSUME NEW i \in 1 .. n PROVE m[h + 2 + i] = body[i]
    <3>1. /\ h + 2 + i \in 1 .. h + 2 + n /\ ~(h + 2 + i <= h + 2)
          /\ (h + 2 + i) - (h + 2) = i
      BY <2>3
    <3> QED BY <2>2, <3>1
  <2> QED BY <2>1, <2>2, <2>4, <2>5
<1> HIDE DEF m
<1>9. 1 \in 1 .. h + 2 /\ 1 \in 1 .. 1 + h /\ h + 2 \in 1 .. h + 2
      /\ \A i \in 1 .. h : i + 1 \in 1 .. h + 2 /\ i + 1 \in 1 .. 1 + h
  OBVIOUS
<1>10. m[1] = status /\ m[h + 2] = blank
  BY <1>6, <1>7, <1>8, <1>9
<1>11. \A i \in 1 .. h : m[i + 1] = head[i]
  BY <1>6, <1>7, <1>8, <1>9
<1>12. \A i \in 1 .. n : m[h + 2 + i].kind = "body"
  BY <1>2, <1>8
<1> QED BY <1>1, <1>3, <1>8, <1>10, <1>11, <1>12 DEF InLines

\* What the head of a response says of it: where its blank line is, and the one line
\* that names the length of the body, if it has a body.
Framing(msg, b, n) ==
  /\ b > 1 /\ Len(msg) = b + n /\ msg[1].kind = "status"
  /\ \A i \in 1 .. Len(msg) : msg[i].kind = "blank" <=> i = b
  /\ \/ n = 0 /\ \A i \in 1 .. Len(msg) : msg[i].kind # "length"
     \/ \E h \in Nat : /\ 1 < h /\ h < b /\ msg[h].n = n
                       /\ \A i \in 1 .. Len(msg) : msg[i].kind = "length" <=> i = h

\* Each response is framed.
LEMMA ResponseIs ==
  ASSUME NEW msg \in Responses
  PROVE  msg \in Seq(Lines) /\ \E b \in Nat, n \in Nat : Framing(msg, b, n)
<1> DEFINE first(n) == <<Line("length", n), Line("other", 0)>>
           second(n) == <<Line("other", 0), Line("length", n)>>
<1>1. \/ msg = Response(<<>>, 0)
      \/ \E n \in 0 .. MaxPayload : msg = Response(first(n), n)
      \/ \E n \in 0 .. MaxPayload : msg = Response(second(n), n)
  BY DEF Responses
<1>2. CASE msg = Response(<<>>, 0)
  <2>1. <<>> \in Seq(Lines) /\ Len(<<>>) = 0 /\ 0 \in Nat
    BY EmptySeq
  <2>2. InLines(msg, <<>>, 0, 0)
    BY <1>2, <2>1, ResponseLines
  <2>3. msg \in Seq(Lines) /\ msg[1].kind = "status"
    BY <2>2 DEF InLines
  <2>6. Len(msg) = 2 /\ msg[2].kind = "blank"
    BY <2>2 DEF InLines
  <2>4. \A i \in 1 .. 2 : i = 1 \/ i = 2
    OBVIOUS
  <2>5. Framing(msg, 2, 0)
    <3>1. \A i \in 1 .. Len(msg) : msg[i].kind = "blank" <=> i = 2
      BY <2>3, <2>4, <2>6
    <3>2. \A i \in 1 .. Len(msg) : msg[i].kind # "length"
      BY <2>3, <2>4, <2>6
    <3> QED BY <2>3, <2>6, <3>1, <3>2 DEF Framing
  <2> QED BY <2>3, <2>5
<1>3. ASSUME NEW n \in 0 .. MaxPayload, NEW head, msg = Response(head, n),
             head = first(n) \/ head = second(n)
      PROVE  msg \in Seq(Lines) /\ Framing(msg, 4, n) /\ n \in Nat
  <2>1. n \in Nat
    BY StreamsAssumption
  <2>2. head \in Seq(Lines) /\ Len(head) = 2
    <3>1. Line("length", n) \in Lines /\ Line("other", 0) \in Lines
      BY <2>1 DEF Line, Lines, LineKinds
    <3>2. \A x, y \in Lines : <<x, y>> \in Seq(Lines) /\ Len(<<x, y>>) = 2
      OBVIOUS
    <3>3. first(n) \in Seq(Lines) /\ Len(first(n)) = 2 /\ second(n) \in Seq(Lines) /\ Len(second(n)) = 2
      BY <3>1, <3>2
    <3> HIDE DEF first, second
    <3> QED BY <1>3, <3>3
  <2>3. \/ head[1].kind = "length" /\ head[1].n = n /\ head[2].kind = "other"
        \/ head[1].kind = "other" /\ head[2].kind = "length" /\ head[2].n = n
    BY <1>3 DEF Line
  <2>4. /\ msg \in Seq(Lines) /\ Len(msg) = 2 + 2 + n
        /\ msg[1].kind = "status" /\ msg[2 + 2].kind = "blank"
        /\ \A i \in 1 .. 2 : msg[i + 1] = head[i]
        /\ \A i \in 1 .. n : msg[2 + 2 + i].kind = "body"
    <3>1. InLines(msg, head, 2, n)
      BY <1>3, <2>1, <2>2, ResponseLines
    <3> QED BY <3>1 DEF InLines
  <2>5. Len(msg) = 4 + n /\ msg[4].kind = "blank" /\ msg[2] = head[1] /\ msg[3] = head[2]
    BY <2>1, <2>4
  <2>6. ASSUME NEW i \in 1 .. Len(msg), i # 1, i # 2, i # 3, i # 4 PROVE msg[i].kind = "body"
    <3>1. i - 4 \in 1 .. n /\ 2 + 2 + (i - 4) = i
      BY <2>1, <2>5, <2>6
    <3> QED BY <2>4, <3>1
  <2>7. \A i \in 1 .. Len(msg) : msg[i].kind = "blank" <=> i = 4
    BY <2>3, <2>4, <2>5, <2>6
  <2>8. \E h \in Nat : /\ 1 < h /\ h < 4 /\ msg[h].n = n
                       /\ \A i \in 1 .. Len(msg) : msg[i].kind = "length" <=> i = h
    <3>1. CASE head[1].kind = "length" /\ head[1].n = n /\ head[2].kind = "other"
      <4>1. \A i \in 1 .. Len(msg) : msg[i].kind = "length" <=> i = 2
        BY <2>4, <2>5, <2>6, <3>1
      <4> QED BY <2>5, <3>1, <4>1
    <3>2. CASE head[1].kind = "other" /\ head[2].kind = "length" /\ head[2].n = n
      <4>1. \A i \in 1 .. Len(msg) : msg[i].kind = "length" <=> i = 3
        BY <2>4, <2>5, <2>6, <3>2
      <4> QED BY <2>5, <3>2, <4>1
    <3> QED BY <2>3, <3>1, <3>2
  <2> QED BY <2>1, <2>4, <2>5, <2>7, <2>8 DEF Framing
<1> HIDE DEF first, second
<1>4. ASSUME NEW n \in 0 .. MaxPayload, msg = Response(first(n), n) \/ msg = Response(second(n), n)
      PROVE  msg \in Seq(Lines) /\ \E b \in Nat, m \in Nat : Framing(msg, b, m)
  <2>1. 4 \in Nat
    OBVIOUS
  <2> QED BY <1>3, <1>4, <2>1
<1> QED BY <1>1, <1>2, <1>4

\* A response is unpacked as soon as it is there, and as long as it is.
LEMMA ResponsePack ==
  ASSUME NEW msg \in Responses, NEW s \in Seq(Lines), s # <<>>, Begins(s, msg), Len(s) <= Len(msg)
  PROVE  ResponsePackLen(s) = IF Len(msg) <= Len(s) THEN Len(msg) ELSE NoPack
<1>1. PICK l \in Nat : l = Len(s) /\ l # 0
  BY EmptySeq
<1>2. PICK b \in Nat, n \in Nat : Framing(msg, b, n)
  BY ResponseIs
<1>3. /\ b > 1 /\ Len(msg) = b + n /\ msg[1].kind = "status"
      /\ \A i \in 1 .. b + n : msg[i].kind = "blank" <=> i = b
      /\ \/ n = 0 /\ \A i \in 1 .. b + n : msg[i].kind # "length"
         \/ \E h \in Nat : /\ 1 < h /\ h < b /\ msg[h].n = n
                           /\ \A i \in 1 .. b + n : msg[i].kind = "length" <=> i = h
  BY <1>2 DEF Framing
<1>4. l <= b + n /\ \A i \in 1 .. l : s[i] = msg[i] /\ i \in 1 .. b + n
  <2>1. l <= b + n
    BY <1>1, <1>3
  <2>2. \A i \in 1 .. l : i \in 1 .. b + n /\ i <= Len(msg)
    BY <1>3, <2>1
  <2> QED BY <1>1, <2>1, <2>2 DEF Begins
<1> DEFINE blanks == {i \in DOMAIN s : s[i].kind = "blank"}
           lengths == {i \in DOMAIN s : s[i].kind = "length"}
           content == IF lengths = {} THEN 0 ELSE s[Min(lengths)].n
           response == Min(blanks) + content
<1>5. DOMAIN s = 1 .. l
  BY <1>1, LenProperties
<1>6. Head(s).kind = "status"
  <2>1. Head(s) = s[1]
    BY <1>1
  <2> QED BY <1>1, <1>3, <1>4, <2>1
<1>7. ResponsePackLen(s) = IF blanks = {} THEN NoPack ELSE IF response > l THEN NoPack ELSE response
  BY <1>1, <1>6 DEF ResponsePackLen
<1>8. blanks = IF b <= l THEN {b} ELSE {}
  BY <1>3, <1>4, <1>5
<1>9. \A i \in Nat : Min({i}) = i
  <2> TAKE i \in Nat
  <2>1. {i} \in SUBSET Nat /\ {i} # {}
    OBVIOUS
  <2>2. Min({i}) \in {i}
    BY <2>1, LeastOf
  <2> QED BY <2>2
<1>10. CASE b > l
  <2>1. ResponsePackLen(s) = NoPack
    BY <1>1, <1>7, <1>8, <1>10
  <2> QED BY <1>1, <1>3, <1>10, <2>1
<1>11. CASE b <= l
  <2>1. blanks # {} /\ Min(blanks) = b
    BY <1>8, <1>9, <1>11
  <2>2. content = n
    <3>1. CASE n = 0 /\ \A i \in 1 .. b + n : msg[i].kind # "length"
      <4>1. lengths = {}
        BY <1>4, <1>5, <3>1
      <4> QED BY <3>1, <4>1
    <3>2. CASE \E h \in Nat : /\ 1 < h /\ h < b /\ msg[h].n = n
                              /\ \A i \in 1 .. b + n : msg[i].kind = "length" <=> i = h
      <4>1. PICK h \in Nat : /\ 1 < h /\ h < b /\ msg[h].n = n
                             /\ \A i \in 1 .. b + n : msg[i].kind = "length" <=> i = h
        BY <3>2
      <4>2. h \in 1 .. l
        BY <1>11, <4>1
      <4>3. lengths = {h} /\ s[h].n = n
        BY <1>4, <1>5, <4>1, <4>2
      <4> HIDE DEF lengths
      <4> QED BY <1>9, <4>3
    <3> QED BY <1>3, <3>1, <3>2
  <2>3. response = b + n
    BY <2>1, <2>2
  <2> HIDE DEF blanks, response
  <2> QED BY <1>1, <1>3, <1>7, <2>1, <2>3
<1> QED BY <1>1, <1>10, <1>11

\* What is sent, and what it is made of.
Messages == IF rule = "peer" THEN PeerMessages ELSE Responses
Elements == IF rule = "peer" THEN Nat ELSE Lines

\* No message is empty.
LEMMA MessageIs ==
  ASSUME NEW msg \in Messages
  PROVE  msg \in Seq(Elements) /\ Len(msg) \in Nat \ {0}
<1>1. CASE rule = "peer"
  <2>1. msg \in PeerMessages
    BY <1>1 DEF Messages
  <2>2. msg \in Seq(Nat) /\ Len(msg) \in Nat /\ Len(msg) >= 2
    BY <2>1, PeerMessageIs
  <2> QED BY <1>1, <2>2 DEF Elements
<1>2. CASE rule # "peer"
  <2>1. msg \in Responses
    BY <1>2 DEF Messages
  <2>2. msg \in Seq(Lines)
    BY <2>1, ResponseIs
  <2>3. PICK b \in Nat, n \in Nat : b > 1 /\ Len(msg) = b + n
    BY <2>1, ResponseIs DEF Framing
  <2>4. b + n \in Nat \ {0}
    BY <2>3
  <2> QED BY <1>2, <2>2, <2>3, <2>4 DEF Elements
<1> QED BY <1>1, <1>2

\* CanUnpack finds a message as soon as it is there.  (What follows a response would
\* be searched too.)
LEMMA PackOfMessage ==
  ASSUME NEW msg \in Messages, NEW s \in Seq(Elements), s # <<>>, Begins(s, msg),
         rule # "peer" => Len(s) <= Len(msg)
  PROVE  PackLen(s) = IF Len(msg) <= Len(s) THEN Len(msg) ELSE NoPack
<1>1. CASE rule = "peer"
  <2>1. msg \in PeerMessages /\ s \in Seq(Nat) /\ PackLen(s) = PeerPackLen(s)
    BY <1>1 DEF Messages, Elements, PackLen
  <2> QED BY <2>1, PeerPack
<1>2. CASE rule # "peer"
  <2>1. msg \in Responses /\ s \in Seq(Lines) /\ PackLen(s) = ResponsePackLen(s) /\ Len(s) <= Len(msg)
    BY <1>2 DEF Messages, Elements, PackLen
  <2> QED BY <2>1, ResponsePack
<1> QED BY <1>1, <1>2

-----------------------------------------------------------------------------
(* The turns of StreamDataArrive.                                          *)

\* Messages of the rule; a response is alone, for its connection has one request.
Sent ==
  /\ sent \in Seq(Messages)
  /\ rule # "peer" => Len(sent) <= 1

Whole == FlattenSeq(sent)

\* The stream and the messages in it.
LEMMA WholeIs ==
  ASSUME Sent
  PROVE  /\ sent \in Seq(Seq(Elements)) /\ Len(sent) \in Nat
         /\ Whole \in Seq(Elements) /\ Len(Whole) = Ends(sent)[Len(sent)]
         /\ \A i \in 0 .. Len(sent) : Ends(sent)[i] \in Nat
         /\ Ends(sent)[0] = 0
         /\ \A i, j \in 0 .. Len(sent) : i <= j => Ends(sent)[i] <= Ends(sent)[j]
         /\ \A i \in 1 .. Len(sent) :
              /\ sent[i] \in Messages /\ sent[i] \in Seq(Elements) /\ Len(sent[i]) \in Nat \ {0}
              /\ Ends(sent)[i] = Ends(sent)[i - 1] + Len(sent[i])
              /\ Part(Whole, Ends(sent)[i - 1], Ends(sent)[i]) = sent[i]
<1>1. sent \in Seq(Messages)
  BY DEF Sent
<1>2. \A i \in 1 .. Len(sent) : sent[i] \in Messages
  BY <1>1, ElementOfSeq
<1>3. \A i \in 1 .. Len(sent) : sent[i] \in Seq(Elements) /\ Len(sent[i]) \in Nat \ {0}
  BY <1>2, MessageIs
<1>4. sent \in Seq(Seq(Elements))
  <2>1. Messages \subseteq Seq(Elements)
    BY MessageIs
  <2> QED BY <1>1, <2>1, SeqMonotonic
<1>5. /\ Len(sent) \in Nat
      /\ \A i \in 0 .. Len(sent) : Ends(sent)[i] \in Nat
      /\ Ends(sent)[0] = 0
      /\ \A i \in 1 .. Len(sent) : Ends(sent)[i] = Ends(sent)[i - 1] + Len(sent[i])
      /\ \A i, j \in 0 .. Len(sent) : i <= j => Ends(sent)[i] <= Ends(sent)[j]
  BY <1>4, EndsAre
<1>6. Whole \in Seq(Elements) /\ Len(Whole) = Ends(sent)[Len(sent)]
  BY <1>4, FlattenIs DEF Whole
<1>7. \A i \in 1 .. Len(sent) : Part(Whole, Ends(sent)[i - 1], Ends(sent)[i]) = sent[i]
  BY <1>4, MessageIsPart DEF Whole
<1> QED BY <1>2, <1>3, <1>4, <1>5, <1>6, <1>7

\* What is unpacked of the stream from the end of message k on: the messages up to j.
Unpacked(k, j) == [packs |-> Part(sent, k, j), end |-> Ends(sent)[j] - Ends(sent)[k]]

\* A turn unpacks the next message if all of it is there, up to position r.
LEMMA TurnIs ==
  ASSUME Sent, NEW k \in 0 .. Len(sent), NEW j \in 0 .. Len(sent), k <= j,
         NEW r \in Nat, Ends(sent)[j] <= r, r <= Len(Whole)
  PROVE  Turn(Part(Whole, Ends(sent)[k], r), Unpacked(k, j))
           = IF j < Len(sent) /\ Ends(sent)[j + 1] <= r THEN Unpacked(k, j + 1) ELSE Unpacked(k, j)
<1> DEFINE n == Len(sent)
           E == Ends(sent)
           w == Whole
           stream == Part(w, E[k], r)
<1>1. /\ sent \in Seq(Seq(Elements)) /\ n \in Nat /\ w \in Seq(Elements) /\ Len(w) = E[n]
      /\ \A i \in 0 .. n : E[i] \in Nat
      /\ \A i, h \in 0 .. n : i <= h => E[i] <= E[h]
      /\ \A i \in 1 .. n :
           /\ sent[i] \in Messages /\ sent[i] \in Seq(Elements) /\ Len(sent[i]) \in Nat \ {0}
           /\ E[i] = E[i - 1] + Len(sent[i])
           /\ Part(w, E[i - 1], E[i]) = sent[i]
  BY WholeIs
<1>2. Ends(sent)[j] <= r /\ r <= Len(Whole) /\ k \in 0 .. n /\ j \in 0 .. n /\ k <= j
  OBVIOUS
<1> HIDE DEF n
<1>3. PICK a \in Nat, e \in Nat : a = E[k] /\ e = E[j] /\ a <= e /\ e <= r
  BY <1>1, <1>2
<1>4. r <= Len(w) /\ Len(w) \in Nat
  BY <1>1, <1>2, LenProperties
<1> HIDE DEF E, w
<1> DEFINE rest == Part(w, e, r)
<1>5. stream \in Seq(Elements) /\ Len(stream) = r - a
  <2>1. w \in Seq(Elements) /\ a <= r /\ r <= Len(w)
    BY <1>1, <1>3, <1>4
  <2>2. Part(w, a, r) \in Seq(Elements) /\ Len(Part(w, a, r)) = r - a
    BY <2>1, PartIs
  <2> QED BY <1>3, <2>2
<1>6. SubSeq(stream, (e - a) + 1, Len(stream)) = rest
  <2>1. /\ w \in Seq(Elements) /\ a <= r /\ r <= Len(w) /\ e - a \in Nat /\ r - a \in Nat
        /\ e - a <= r - a /\ a + (r - a) <= r /\ a + (e - a) = e /\ a + (r - a) = r
    <3>1. w \in Seq(Elements) /\ r <= Len(w)
      BY <1>1, <1>4
    <3>2. a <= e /\ e <= r
      BY <1>3
    <3>3. /\ a <= r /\ e - a \in Nat /\ r - a \in Nat /\ e - a <= r - a
          /\ a + (r - a) <= r /\ a + (e - a) = e /\ a + (r - a) = r
      BY <3>2
    <3> QED BY <3>1, <3>3
  <2>2. Part(Part(w, a, r), e - a, r - a) = Part(w, a + (e - a), a + (r - a))
    BY <2>1, PartOfPart
  <2>3. SubSeq(Part(w, a, r), (e - a) + 1, r - a) = rest
    BY <2>1, <2>2 DEF Part
  <2> QED BY <1>3, <1>5, <2>3
<1>7. rest \in Seq(Elements) /\ Len(rest) = r - e /\ \A i \in 1 .. r - e : rest[i] = w[e + i]
  <2>1. w \in Seq(Elements) /\ e <= r /\ r <= Len(w)
    BY <1>1, <1>3, <1>4
  <2> QED BY <2>1, PartIs
<1>8. ASSUME NEW c \in Nat, e <= c, c <= Len(w)
       PROVE  \A i \in 1 .. c - e : Part(w, e, c)[i] = w[e + i]
  <2>1. w \in Seq(Elements)
    BY <1>1
  <2>2. /\ Part(w, e, c) \in Seq(Elements) /\ Len(Part(w, e, c)) = c - e
        /\ \A i \in 1 .. c - e : Part(w, e, c)[i] = w[e + i]
    BY <1>8, <2>1, PartIs
  <2> QED BY <2>2
<1> HIDE DEF stream, rest
<1>9. Unpacked(k, j).packs = Part(sent, k, j) /\ Unpacked(k, j).end = e - a
  BY <1>3 DEF Unpacked, E
<1> DEFINE pack_len == IF rest = <<>> THEN NoPack ELSE PackLen(rest)
<1>10. Turn(stream, Unpacked(k, j)) =
        IF pack_len = NoPack THEN Unpacked(k, j)
        ELSE [packs |-> Append(Part(sent, k, j), SubSeq(rest, 1, pack_len)), end |-> (e - a) + pack_len]
  BY <1>6, <1>9 DEF Turn
<1>11. CASE rest = <<>>
  <2>1. r = e
    BY <1>3, <1>7, <1>11, EmptySeq
  <2>2. ~(j < n /\ E[j + 1] <= r)
    <3> SUFFICES ASSUME j < n, E[j + 1] <= r PROVE FALSE
      OBVIOUS
    <3>1. j + 1 \in 1 .. n /\ (j + 1) - 1 = j
      BY <1>1, <1>2
    <3>2. E[j + 1] = E[j] + Len(sent[j + 1]) /\ Len(sent[j + 1]) \in Nat \ {0}
      BY <1>1, <3>1
    <3> QED BY <1>3, <2>1, <3>2
  <2>3. Turn(stream, Unpacked(k, j)) = Unpacked(k, j)
    BY <1>10, <1>11
  <2> QED BY <2>2, <2>3 DEF stream, E, w, n
<1>12. CASE rest # <<>>
  <2>1. e < r
    BY <1>3, <1>7, <1>12, EmptySeq
  <2>2. j < n
    <3> SUFFICES ASSUME j = n PROVE FALSE
      BY <1>1, <1>2
    <3> QED BY <1>1, <1>3, <1>4, <2>1
  <2>3. j + 1 \in 1 .. n /\ (j + 1) - 1 = j
    BY <1>1, <1>2, <2>2
  <2> DEFINE msg == sent[j + 1]
  <2>4. PICK l \in Nat \ {0} : l = Len(msg) /\ E[j + 1] = e + l
    BY <1>1, <1>3, <2>3
  <2>5. msg \in Messages /\ msg \in Seq(Elements) /\ Part(w, e, e + l) = msg /\ e + l <= Len(w)
    <3>1. /\ msg \in Messages /\ msg \in Seq(Elements) /\ Part(w, E[(j + 1) - 1], E[j + 1]) = msg
      BY <1>1, <2>3
    <3>2. j + 1 \in 0 .. n /\ n \in 0 .. n /\ j + 1 <= n
      BY <1>1, <2>3
    <3>3. E[j + 1] <= E[n]
      BY <1>1, <3>2
    <3> QED BY <1>1, <1>3, <2>3, <2>4, <3>1, <3>3
  <2> HIDE DEF msg
  <2>6. \A i \in 1 .. l : msg[i] = w[e + i]
    <3>1. PICK c \in Nat : c = e + l /\ e <= c /\ c - e = l
      OBVIOUS
    <3>2. w \in Seq(Elements) /\ e <= c /\ c <= Len(w)
      BY <1>1, <2>5, <3>1
    <3>3. \A i \in 1 .. c - e : Part(w, e, c)[i] = w[e + i]
      BY <1>8, <3>2
    <3> QED BY <2>5, <3>1, <3>3
  <2>7. Begins(rest, msg)
    <3> SUFFICES ASSUME NEW i \in 1 .. Len(rest), i <= Len(msg) PROVE rest[i] = msg[i]
      BY DEF Begins
    <3>1. i \in 1 .. r - e /\ i \in 1 .. l
      BY <1>7, <2>4
    <3> QED BY <1>7, <2>6, <3>1
  <2>8. rule # "peer" => Len(rest) <= Len(msg)
    <3> SUFFICES ASSUME rule # "peer" PROVE Len(rest) <= Len(msg)
      OBVIOUS
    <3>1. n <= 1
      BY DEF Sent, n
    <3>2. n = j + 1
      BY <1>1, <2>3, <3>1
    <3>3. Len(w) = e + l
      BY <1>1, <2>4, <3>2
    <3> QED BY <1>4, <1>7, <2>4, <3>3
  <2>9. PackLen(rest) = IF l <= Len(rest) THEN l ELSE NoPack
    BY <1>7, <1>12, <2>4, <2>5, <2>7, <2>8, PackOfMessage
  <2>10. pack_len = IF e + l <= r THEN l ELSE NoPack
    <3>1. l <= Len(rest) <=> e + l <= r
      BY <1>3, <1>7
    <3> QED BY <1>12, <2>9, <3>1
  <2> HIDE DEF pack_len
  <2>11. CASE ~(e + l <= r)
    <3>1. Turn(stream, Unpacked(k, j)) = Unpacked(k, j)
      BY <1>10, <2>10, <2>11
    <3>2. ~(E[j + 1] <= r)
      BY <2>4, <2>11
    <3> QED BY <3>1, <3>2 DEF stream, E, w, n
  <2>12. CASE e + l <= r
    <3>1. pack_len = l /\ pack_len # NoPack
      BY <2>10, <2>12 DEF NoPack
    <3>2. SubSeq(rest, 1, l) = msg
      <4>1. /\ w \in Seq(Elements) /\ e <= r /\ r <= Len(w) /\ 0 \in Nat /\ 0 <= l /\ e + l <= r
            /\ e + 0 = e
        BY <1>1, <1>3, <1>4, <2>12
      <4>2. Part(Part(w, e, r), 0, l) = Part(w, e + 0, e + l)
        BY <4>1, PartOfPart
      <4>3. Part(rest, 0, l) = SubSeq(rest, 1, l)
        <5>1. 0 + 1 = 1
          OBVIOUS
        <5> QED BY <5>1 DEF Part
      <4> QED BY <2>5, <4>1, <4>2, <4>3 DEF rest
    <3>3. Append(Part(sent, k, j), msg) = Part(sent, k, j + 1)
      <4>1. sent \in Seq(Seq(Elements)) /\ k \in Nat /\ j \in Nat /\ k <= j /\ j < Len(sent)
        BY <1>1, <1>2, <2>2 DEF n
      <4> QED BY <4>1, PartGrows DEF msg
    <3>4. (e - a) + l = E[j + 1] - E[k]
      BY <1>3, <2>4
    <3>5. Turn(stream, Unpacked(k, j)) = Unpacked(k, j + 1)
      <4>1. Turn(stream, Unpacked(k, j)) =
              [packs |-> Append(Part(sent, k, j), SubSeq(rest, 1, l)), end |-> (e - a) + l]
        BY <1>10, <3>1
      <4> QED BY <3>2, <3>3, <3>4, <4>1 DEF Unpacked, E
    <3>6. E[j + 1] <= r
      BY <2>4, <2>12
    <3> QED BY <2>2, <3>5, <3>6 DEF stream, E, w, n
  <2> QED BY <2>11, <2>12
<1> QED BY <1>11, <1>12

\* The function of the recursion of Unpack, up to m turns.
Turned(f, s, m) == f = [i \in 0 .. m |-> IF i = 0 THEN NoPacks ELSE Turn(s, f[i - 1])]

\* Such a function exists up to every m.
LEMMA TurnsExist ==
  ASSUME NEW s, NEW n \in Nat
  PROVE  \E f : Turned(f, s, n)
<1> DEFINE Bad == {m \in Nat : ~ \E f : Turned(f, s, m)}
<1> SUFFICES ASSUME Bad # {} PROVE FALSE
  OBVIOUS
<1>1. PICK m \in Bad : \A y \in Bad : m <= y
  <2>1. Bad \in SUBSET Nat
    OBVIOUS
  <2> HIDE DEF Bad
  <2> QED BY <2>1, LeastNumber
<1>2. m \in Nat /\ ~ \E f : Turned(f, s, m)
  OBVIOUS
<1>3. CASE m = 0
  <2> DEFINE f == [i \in 0 .. 0 |-> NoPacks]
  <2>1. f = [i \in 0 .. 0 |-> IF i = 0 THEN NoPacks ELSE Turn(s, f[i - 1])]
    <3>1. \A i \in 0 .. 0 : i = 0
      OBVIOUS
    <3> QED BY <3>1
  <2>2. Turned(f, s, 0)
    BY <2>1 DEF Turned
  <2> QED BY <1>2, <1>3, <2>2
<1>4. CASE m # 0
  <2>1. m - 1 \in Nat /\ m - 1 < m
    BY <1>2, <1>4
  <2>2. m - 1 \notin Bad
    <3> HIDE DEF Bad
    <3>1. ASSUME m - 1 \in Bad PROVE FALSE
      <4>1. m <= m - 1
        BY <1>1, <3>1
      <4> QED BY <1>2, <4>1
    <3> QED BY <3>1
  <2>3. PICK f : Turned(f, s, m - 1)
    BY <2>1, <2>2
  <2>4. \A i \in 0 .. m - 1 : f[i] = IF i = 0 THEN NoPacks ELSE Turn(s, f[i - 1])
    BY <2>3 DEF Turned
  <2> DEFINE last == Turn(s, f[m - 1])
             g == [i \in 0 .. m |-> IF i = m THEN last ELSE f[i]]
  <2> HIDE DEF last
  <2>5. g[m] = last /\ \A i \in 0 .. m - 1 : g[i] = f[i]
    <3>1. m \in 0 .. m /\ \A i \in 0 .. m - 1 : i \in 0 .. m /\ i # m
      BY <1>2
    <3> QED BY <3>1
  <2>6. g = [i \in 0 .. m |-> g[i]]
    OBVIOUS
  <2> HIDE DEF g
  <2>7. ASSUME NEW i \in 0 .. m PROVE g[i] = IF i = 0 THEN NoPacks ELSE Turn(s, g[i - 1])
    <3>1. CASE i = m
      <4>1. m - 1 \in 0 .. m - 1 /\ i # 0
        BY <1>4, <2>1, <3>1
      <4>2. g[m - 1] = f[m - 1]
        BY <2>5, <4>1
      <4> QED BY <2>5, <3>1, <4>1, <4>2 DEF last
    <3>2. CASE i # m
      <4>1. i \in 0 .. m - 1 /\ (i # 0 => i - 1 \in 0 .. m - 1)
        BY <1>2, <3>2
      <4>2. g[i] = f[i] /\ (i # 0 => g[i - 1] = f[i - 1])
        BY <2>5, <4>1
      <4> QED BY <2>4, <4>1, <4>2
    <3> QED BY <3>1, <3>2
  <2>8. Turned(g, s, m)
    BY <2>6, <2>7 DEF Turned
  <2> QED BY <1>2, <2>8
<1> QED BY <1>3, <1>4

\* What Unpack computes, turn by turn.
LEMMA TurnsAre ==
  ASSUME NEW s, Len(s) \in Nat
  PROVE  \E f : /\ f[0] = NoPacks /\ Unpack(s) = f[Len(s)]
                /\ \A i \in 1 .. Len(s) : f[i] = Turn(s, f[i - 1])
<1> DEFINE n == Len(s)
           f == CHOOSE f : f = [i \in 0 .. n |-> IF i = 0 THEN NoPacks ELSE Turn(s, f[i - 1])]
<1>1. Unpack(s) = f[n]
  BY DEF Unpack
<1>2. f = [i \in 0 .. n |-> IF i = 0 THEN NoPacks ELSE Turn(s, f[i - 1])]
  <2>1. \E h : h = [i \in 0 .. n |-> IF i = 0 THEN NoPacks ELSE Turn(s, h[i - 1])]
    BY TurnsExist DEF Turned
  <2> QED BY <2>1
<1> HIDE DEF f
<1>3. \A i \in 0 .. n : f[i] = IF i = 0 THEN NoPacks ELSE Turn(s, f[i - 1])
  BY <1>2
<1>4. 0 \in 0 .. n /\ \A i \in 1 .. n : i \in 0 .. n /\ i # 0
  OBVIOUS
<1>5. f[0] = NoPacks /\ \A i \in 1 .. n : f[i] = Turn(s, f[i - 1])
  BY <1>3, <1>4
<1> QED BY <1>1, <1>5

\* Every message has a byte or a line.
LEMMA EndsRise ==
  ASSUME Sent, NEW k \in 0 .. Len(sent), NEW j \in k .. Len(sent)
  PROVE  Ends(sent)[k] + (j - k) <= Ends(sent)[j]
<1> DEFINE n == Len(sent)
           E == Ends(sent)
           Bad == {h \in k .. n : ~(E[k] + (h - k) <= E[h])}
<1>1. /\ n \in Nat /\ \A i \in 0 .. n : E[i] \in Nat
      /\ \A i \in 1 .. n : Len(sent[i]) \in Nat \ {0} /\ E[i] = E[i - 1] + Len(sent[i])
  BY WholeIs
<1> HIDE DEF E
<1> SUFFICES ASSUME Bad # {} PROVE FALSE
  BY DEF E
<1>2. PICK m \in Bad : \A y \in Bad : m <= y
  <2>1. Bad \in SUBSET Nat
    BY <1>1
  <2> HIDE DEF Bad
  <2> QED BY <2>1, LeastNumber
<1>3. m \in k .. n /\ ~(E[k] + (m - k) <= E[m])
  OBVIOUS
<1>4. PICK a \in Nat : a = E[k]
  BY <1>1
<1>5. m # k
  BY <1>3, <1>4
<1>6. m - 1 \in k .. n /\ m \in 1 .. n /\ m - 1 \in 0 .. n /\ m - 1 < m
  BY <1>1, <1>3, <1>5
<1>7. m - 1 \notin Bad
  <2> HIDE DEF Bad
  <2>1. ASSUME m - 1 \in Bad PROVE FALSE
    <3>1. m <= m - 1
      BY <1>2, <2>1
    <3> QED BY <1>6, <3>1
  <2> QED BY <2>1
<1>8. E[k] + ((m - 1) - k) <= E[m - 1]
  BY <1>6, <1>7
<1>9. PICK b \in Nat, l \in Nat \ {0} : b = E[m - 1] /\ l = Len(sent[m]) /\ E[m] = b + l
  BY <1>1, <1>6
<1>10. a + ((m - 1) - k) <= b /\ ~(a + (m - k) <= b + l)
  BY <1>3, <1>4, <1>8, <1>9
<1>11. m \in Nat /\ k \in Nat
  BY <1>1, <1>3
<1> QED BY <1>10, <1>11

\* From the end of message k on, Unpack finds the messages that are there as a whole
\* up to position r, and no more.
UnpackedUpTo(k, j, r) ==
  /\ Unpack(Part(Whole, Ends(sent)[k], r)) = Unpacked(k, j)
  /\ Ends(sent)[j] <= r
  /\ j < Len(sent) => r < Ends(sent)[j + 1]

\* After t turns: j messages, as many as the turns unless there is no more.
AfterTurns(f, k, j, r, t) ==
  /\ f[t] = Unpacked(k, j) /\ Ends(sent)[j] <= r
  /\ k + t <= j \/ j = Len(sent) \/ r < Ends(sent)[j + 1]

\* Whatever is there of the stream, Unpack is whole.
LEMMA UnpackIs ==
  ASSUME Sent, NEW k \in 0 .. Len(sent), NEW r \in Nat, Ends(sent)[k] <= r, r <= Len(Whole)
  PROVE  \E j \in k .. Len(sent) : UnpackedUpTo(k, j, r)
<1> DEFINE n == Len(sent)
           E == Ends(sent)
           stream == Part(Whole, E[k], r)
<1>1. /\ sent \in Seq(Seq(Elements)) /\ n \in Nat /\ Whole \in Seq(Elements)
      /\ \A i \in 0 .. n : E[i] \in Nat
      /\ \A i \in 1 .. n : Len(sent[i]) \in Nat \ {0} /\ E[i] = E[i - 1] + Len(sent[i])
  BY WholeIs
<1>2. PICK a \in Nat : a = E[k] /\ a <= r
  BY <1>1
<1>3. Len(stream) = r - a /\ Len(stream) \in Nat
  <2>1. Whole \in Seq(Elements) /\ a <= r /\ r <= Len(Whole)
    BY <1>1, <1>2
  <2>2. Len(Part(Whole, a, r)) = r - a
    BY <2>1, PartIs
  <2> QED BY <1>2, <2>2
<1> HIDE DEF stream
<1>4. PICK f : /\ f[0] = NoPacks /\ Unpack(stream) = f[Len(stream)]
               /\ \A i \in 1 .. Len(stream) : f[i] = Turn(stream, f[i - 1])
  BY <1>3, TurnsAre
<1> DEFINE Reached(t) == \E j \in k .. n : AfterTurns(f, k, j, r, t)
           Bad == {t \in 0 .. Len(stream) : ~Reached(t)}
<1>5. ASSUME NEW t \in 0 .. Len(stream) PROVE Reached(t)
  <2> SUFFICES ASSUME ~Reached(t) PROVE FALSE
    OBVIOUS
  <2>1. PICK m \in Bad : \A y \in Bad : m <= y
    <3>1. Bad \in SUBSET Nat /\ Bad # {}
      <4> HIDE DEF Reached
      <4> QED BY <1>3
    <3> HIDE DEF Bad
    <3> QED BY <3>1, LeastNumber
  <2>2. m \in 0 .. Len(stream) /\ ~Reached(m)
    <3> HIDE DEF Reached
    <3> QED OBVIOUS
  <2>3. CASE m = 0
    <3>1. k \in k .. n /\ k + 0 <= k
      BY <1>1
    <3>2. Part(sent, k, k) = <<>>
      BY <1>1, PartEnds
    <3>3. E[k] - E[k] = 0
      BY <1>2
    <3>4. Unpacked(k, k) = NoPacks
      BY <3>2, <3>3 DEF Unpacked, NoPacks
    <3>5. AfterTurns(f, k, k, r, 0)
      BY <1>4, <3>1, <3>4 DEF AfterTurns
    <3> QED BY <2>2, <2>3, <3>1, <3>5
  <2>4. CASE m # 0
    <3>1. m \in 1 .. Len(stream) /\ m - 1 \in 0 .. Len(stream) /\ m \in Nat
      BY <1>3, <2>2, <2>4
    <3>2. Reached(m - 1)
      <4> SUFFICES ASSUME ~Reached(m - 1) PROVE FALSE
        OBVIOUS
      <4>1. m - 1 \in Bad
        <5> HIDE DEF Reached
        <5> QED BY <3>1
      <4> HIDE DEF Bad, Reached
      <4>2. m <= m - 1
        BY <2>1, <4>1
      <4> QED BY <3>1, <4>2
    <3>3. PICK j \in k .. n : AfterTurns(f, k, j, r, m - 1)
      BY <3>2
    <3>4. /\ f[m - 1] = Unpacked(k, j) /\ E[j] <= r
          /\ k + (m - 1) <= j \/ j = n \/ r < E[j + 1]
      BY <3>3 DEF AfterTurns
    <3>5. j \in 0 .. n /\ k <= j
      BY <1>1
    <3>6. f[m] = Turn(stream, Unpacked(k, j))
      BY <1>4, <3>1, <3>4
    <3>7. f[m] = IF j < n /\ E[j + 1] <= r THEN Unpacked(k, j + 1) ELSE Unpacked(k, j)
      <4>1. Turn(Part(Whole, Ends(sent)[k], r), Unpacked(k, j))
              = IF j < Len(sent) /\ Ends(sent)[j + 1] <= r THEN Unpacked(k, j + 1) ELSE Unpacked(k, j)
        BY <3>4, <3>5, TurnIs
      <4> QED BY <3>6, <4>1 DEF stream
    <3>8. CASE j < n /\ E[j + 1] <= r
      <4>1. j + 1 \in k .. n /\ j + 1 \in 0 .. n
        BY <1>1, <3>5, <3>8
      <4>2. ~(r < E[j + 1])
        <5>1. E[j + 1] \in Nat
          BY <1>1, <4>1
        <5> HIDE DEF E
        <5> QED BY <3>8, <5>1
      <4>3. j # n
        BY <1>1, <3>8
      <4>4. k + m <= j + 1
        <5>1. k + (m - 1) <= j
          BY <3>4, <4>2, <4>3
        <5> QED BY <1>1, <3>1, <5>1
      <4>5. f[m] = Unpacked(k, j + 1)
        BY <3>7, <3>8
      <4>6. AfterTurns(f, k, j + 1, r, m)
        BY <3>8, <4>4, <4>5 DEF AfterTurns
      <4> QED BY <2>2, <4>1, <4>6
    <3>9. CASE ~(j < n /\ E[j + 1] <= r)
      <4>1. f[m] = Unpacked(k, j)
        BY <3>7, <3>9
      <4>2. j = n \/ r < E[j + 1]
        <5> SUFFICES ASSUME j # n PROVE r < E[j + 1]
          OBVIOUS
        <5>1. j < n /\ j + 1 \in 0 .. n
          BY <1>1, <3>5
        <5>2. E[j + 1] \in Nat /\ ~(E[j + 1] <= r)
          BY <1>1, <3>9, <5>1
        <5> HIDE DEF E
        <5> QED BY <5>2
      <4>3. AfterTurns(f, k, j, r, m)
        BY <3>4, <4>1, <4>2 DEF AfterTurns
      <4> QED BY <2>2, <4>3
    <3> QED BY <3>8, <3>9
  <2> QED BY <2>3, <2>4
<1>6. PICK j \in k .. n : AfterTurns(f, k, j, r, Len(stream))
  <2>1. Len(stream) \in 0 .. Len(stream)
    BY <1>3
  <2> HIDE DEF Bad
  <2> QED BY <1>5, <2>1
<1>7. /\ Unpack(stream) = Unpacked(k, j) /\ E[j] <= r
      /\ k + Len(stream) <= j \/ j = n \/ r < E[j + 1]
  BY <1>4, <1>6 DEF AfterTurns
<1>8. ASSUME j < n PROVE r < E[j + 1]
  <2> SUFFICES ASSUME k + Len(stream) <= j PROVE r < E[j + 1]
    BY <1>1, <1>7, <1>8
  <2>1. j + 1 \in 1 .. n /\ (j + 1) - 1 = j /\ j \in 0 .. n /\ j \in Nat
    BY <1>1, <1>8
  <2>2. E[k] + (j - k) <= E[j]
    BY EndsRise
  <2>3. PICK b \in Nat, l \in Nat \ {0} : b = E[j] /\ l = Len(sent[j + 1]) /\ E[j + 1] = b + l
    BY <1>1, <2>1
  <2>4. a + (j - k) <= b /\ k + (r - a) <= j /\ k \in Nat
    BY <1>1, <1>2, <1>3, <2>2, <2>3
  <2>5. r < b + l
    <3> HIDE DEF E, n
    <3> QED BY <2>1, <2>4
  <2> QED BY <2>3, <2>5
<1>9. UnpackedUpTo(k, j, r)
  BY <1>7, <1>8 DEF UnpackedUpTo, stream
<1> QED BY <1>9

-----------------------------------------------------------------------------
(* The invariant of the stream: r bytes or lines have been received, the   *)
(* first k messages are unpacked, and the next is not there as a whole.    *)

ReceivedUpTo(k, r) ==
  /\ r <= Len(Whole) /\ Ends(sent)[k] <= r
  /\ k < Len(sent) => r < Ends(sent)[k + 1]
  /\ packs = Part(sent, 0, k)
  /\ stream_buffer_ = Part(Whole, Ends(sent)[k], r)
  /\ coming = Part(Whole, r, Len(Whole))

Unconnected == sent = <<>> /\ coming = <<>> /\ stream_buffer_ = <<>> /\ packs = <<>>

StreamInv ==
  /\ rule \in {"none", "peer", "http"}
  /\ rule = "none" => Unconnected
  /\ Sent
  /\ \E k \in 0 .. Len(sent), r \in Nat : ReceivedUpTo(k, r)

\* The stream before the first receive.
Unreceived ==
  /\ rule \in {"none", "peer", "http"}
  /\ rule = "none" => Unconnected
  /\ Sent /\ coming = Whole /\ stream_buffer_ = <<>> /\ packs = <<>>

\* Nothing is received of a stream yet: no message is there as a whole.
LEMMA UnreceivedInv == Unreceived => StreamInv
<1> SUFFICES ASSUME Unreceived PROVE StreamInv
  OBVIOUS
<1>1. Sent /\ coming = Whole /\ stream_buffer_ = <<>> /\ packs = <<>>
  BY DEF Unreceived
<1>2. /\ sent \in Seq(Seq(Elements)) /\ Len(sent) \in Nat /\ Whole \in Seq(Elements)
      /\ Ends(sent)[0] = 0
      /\ \A i \in 1 .. Len(sent) :
           Len(sent[i]) \in Nat \ {0} /\ Ends(sent)[i] = Ends(sent)[i - 1] + Len(sent[i])
  BY <1>1, WholeIs
<1>3. 0 \in 0 .. Len(sent) /\ 0 \in Nat /\ Len(Whole) \in Nat /\ 0 \in 0 .. Len(Whole)
  BY <1>2, LenProperties
<1>4. 0 < Len(sent) => 0 < Ends(sent)[0 + 1]
  <2> SUFFICES ASSUME 0 < Len(sent) PROVE 0 < Ends(sent)[1]
    OBVIOUS
  <2>1. 1 \in 1 .. Len(sent) /\ 1 - 1 = 0
    BY <1>2
  <2> QED BY <1>2, <2>1
<1>5. Part(sent, 0, 0) = <<>>
  BY <1>2, <1>3, PartEnds
<1>6. Part(Whole, 0, 0) = <<>> /\ Part(Whole, 0, Len(Whole)) = Whole
  BY <1>2, <1>3, PartEnds
<1>7. ReceivedUpTo(0, 0)
  BY <1>1, <1>2, <1>3, <1>4, <1>5, <1>6 DEF ReceivedUpTo
<1> QED BY <1>3, <1>7 DEF StreamInv, Unreceived

\* There is no stream in the beginning.
LEMMA StreamsInitInv == StreamsInit => StreamInv
<1> SUFFICES ASSUME StreamsInit PROVE Unreceived
  BY UnreceivedInv
<1>1. Sent
  <2>1. sent = <<>> /\ rule = "none"
    BY DEF StreamsInit
  <2> QED BY <2>1 DEF Sent
<1>2. Whole = <<>>
  <2>1. sent \in Seq(Seq(Elements)) /\ Whole \in Seq(Elements) /\ Len(Whole) = Ends(sent)[Len(sent)]
        /\ Ends(sent)[0] = 0
    BY <1>1, WholeIs
  <2>2. Len(sent) = 0
    BY DEF StreamsInit
  <2> QED BY <2>1, <2>2, EmptySeq
<1> QED BY <1>1, <1>2 DEF StreamsInit, Unreceived, Unconnected

\* The messages of a new connection are ones of its rule.
LEMMA ConnectStep == StreamInv /\ Connect => StreamInv'
<1> SUFFICES ASSUME StreamInv, Connect PROVE StreamInv'
  OBVIOUS
<1>1. Unconnected
  BY DEF StreamInv, Connect
<1>2. stream_buffer_' = <<>> /\ packs' = <<>> /\ coming' = FlattenSeq(sent')
  BY <1>1 DEF Connect, Unconnected
<1>3. Unreceived'
  <2>1. CASE rule' = "peer" /\ \E n \in 1 .. MaxMessages : sent' \in [1 .. n -> PeerMessages]
    <3>1. PICK n \in 1 .. MaxMessages : sent' \in [1 .. n -> PeerMessages]
      BY <2>1
    <3>2. n \in Nat
      BY StreamsAssumption
    <3>3. sent' \in Seq(PeerMessages)
      BY <3>1, <3>2
    <3>4. Sent'
      BY <2>1, <3>3 DEF Sent, Messages
    <3> QED BY <1>2, <2>1, <3>4 DEF Unreceived, Whole
  <2>2. CASE rule' = "http" /\ sent' \in [1 .. 1 -> Responses]
    <3>1. sent' \in Seq(Responses) /\ Len(sent') <= 1
      <4>1. PICK n \in Nat : n = 1
        OBVIOUS
      <4>2. sent' \in [1 .. n -> Responses]
        BY <2>2, <4>1
      <4>3. sent' \in Seq(Responses)
        BY <4>2
      <4>4. DOMAIN sent' = 1 .. n
        BY <4>2
      <4>5. Len(sent') \in Nat /\ DOMAIN sent' = 1 .. Len(sent')
        BY <4>3, LenProperties
      <4> QED BY <4>1, <4>3, <4>4, <4>5
    <3>2. Sent'
      BY <2>2, <3>1 DEF Sent, Messages
    <3> QED BY <1>2, <2>2, <3>2 DEF Unreceived, Whole
  <2> QED BY <2>1, <2>2 DEF Connect
<1>4. Unreceived' => StreamInv'
  BY UnreceivedInv, PTL
<1> QED BY <1>3, <1>4

\* A receive moves r on, and k with it.
LEMMA ReceiveStep ==
  ASSUME StreamInv, NEW size \in 1 .. Len(coming), StreamDataArrive(size)
  PROVE  StreamInv'
<1> DEFINE n == Len(sent)
           E == Ends(sent)
           w == Whole
           X == Elements
<1>1. Sent /\ rule \in {"none", "peer", "http"} /\ rule' = rule /\ sent' = sent
  BY DEF StreamInv, StreamDataArrive
<1>2. PICK k \in 0 .. n, r \in Nat : ReceivedUpTo(k, r)
  BY DEF StreamInv
<1>3. /\ r <= Len(w) /\ E[k] <= r
      /\ packs = Part(sent, 0, k) /\ stream_buffer_ = Part(w, E[k], r) /\ coming = Part(w, r, Len(w))
  BY <1>2 DEF ReceivedUpTo
<1>4. /\ sent \in Seq(Seq(X)) /\ n \in Nat /\ w \in Seq(X) /\ Len(w) \in Nat
      /\ \A i \in 0 .. n : E[i] \in Nat
      /\ \A i, h \in 0 .. n : i <= h => E[i] <= E[h]
  BY <1>1, WholeIs, LenProperties
<1>5. PICK a \in Nat : a = E[k] /\ a <= r
  BY <1>3, <1>4
<1>6. PICK m \in Nat : m = Len(w) /\ r <= m
  BY <1>3, <1>4
<1>7. Len(coming) = m - r /\ size \in Nat \ {0} /\ r + size <= m
  <2>1. w \in Seq(X) /\ r <= m /\ m <= Len(w)
    BY <1>4, <1>6
  <2>2. Len(Part(w, r, m)) = m - r
    BY <2>1, PartIs
  <2>3. Len(coming) = m - r
    BY <1>3, <1>6, <2>2
  <2> QED BY <1>6, <2>3
<1>8. PICK q \in Nat : q = r + size /\ r <= q /\ q <= m
  BY <1>7
<1> HIDE DEF E, w, X, n
<1> DEFINE stream == stream_buffer_ \o SubSeq(coming, 1, size)
<1>9. stream = Part(w, a, q)
  <2>1. w \in Seq(X) /\ r <= m /\ m <= Len(w) /\ 0 \in Nat /\ size \in Nat /\ 0 <= size /\ r + size <= m
    BY <1>4, <1>6, <1>7
  <2>2. Part(Part(w, r, m), 0, size) = Part(w, r + 0, r + size)
    BY <2>1, PartOfPart
  <2>3. r + 0 = r /\ 0 + 1 = 1
    OBVIOUS
  <2>4. SubSeq(Part(w, r, m), 1, size) = Part(w, r, q)
    <3>1. SubSeq(Part(w, r, m), 1, size) = Part(Part(w, r, m), 0, size)
      BY <2>3 DEF Part
    <3> QED BY <1>8, <2>2, <2>3, <3>1
  <2>5. w \in Seq(X) /\ a <= r /\ r <= q /\ q <= Len(w)
    BY <1>4, <1>5, <1>6, <1>8
  <2>6. Part(w, a, r) \o Part(w, r, q) = Part(w, a, q)
    BY <2>5, PartsJoin
  <2> QED BY <1>3, <1>5, <1>6, <2>4, <2>6
<1>10. PICK j \in k .. n : UnpackedUpTo(k, j, q)
  <2>1. Ends(sent)[k] <= q /\ q <= Len(Whole) /\ k \in 0 .. Len(sent)
    BY <1>2, <1>5, <1>6, <1>8 DEF E, w, n
  <2> QED BY <1>1, <2>1, UnpackIs DEF n
<1>11. /\ Unpack(stream) = Unpacked(k, j) /\ E[j] <= q /\ (j < n => q < E[j + 1])
  BY <1>5, <1>9, <1>10 DEF UnpackedUpTo, E, w, n
<1>12. j \in 0 .. n /\ k \in 0 .. n /\ k <= j /\ j \in Nat /\ k \in Nat
  BY <1>2, <1>4
<1>13. PICK e \in Nat : e = E[j] /\ a <= e /\ e <= q
  BY <1>4, <1>5, <1>11, <1>12
<1>14. Unpacked(k, j).packs = Part(sent, k, j) /\ Unpacked(k, j).end = e - a
  BY <1>5, <1>13 DEF Unpacked, E
<1>15. packs' = Part(sent, 0, j)
  <2>1. packs' = packs \o Unpacked(k, j).packs
    BY <1>11 DEF StreamDataArrive
  <2>2. sent \in Seq(Seq(X)) /\ 0 \in Nat /\ 0 <= k /\ k <= j /\ j <= Len(sent)
    BY <1>4, <1>12 DEF n
  <2>3. Part(sent, 0, k) \o Part(sent, k, j) = Part(sent, 0, j)
    BY <1>12, <2>2, PartsJoin
  <2> QED BY <1>3, <1>14, <2>1, <2>3
<1>16. stream_buffer_' = Part(w, e, q)
  <2>1. stream_buffer_' = SubSeq(stream, (e - a) + 1, Len(stream))
    BY <1>11, <1>14 DEF StreamDataArrive
  <2>2. /\ w \in Seq(X) /\ a <= q /\ q <= Len(w)
    BY <1>4, <1>5, <1>6, <1>8
  <2>3. Len(stream) = q - a
    <3>1. Len(Part(w, a, q)) = q - a
      BY <2>2, PartIs
    <3> QED BY <1>9, <3>1
  <2>4. PICK c \in Nat, d \in Nat : c = e - a /\ d = q - a /\ c <= d /\ a + d <= q /\ a + c = e /\ a + d = q
    <3>1. a <= e /\ e <= q
      BY <1>13
    <3> QED BY <3>1
  <2>5. Part(Part(w, a, q), c, d) = Part(w, a + c, a + d)
    BY <2>2, <2>4, PartOfPart
  <2>6. SubSeq(stream, c + 1, d) = Part(w, e, q)
    BY <1>9, <2>4, <2>5 DEF Part
  <2> QED BY <2>1, <2>3, <2>4, <2>6
<1>17. coming' = Part(w, q, m)
  <2>1. coming' = SubSeq(coming, size + 1, Len(coming))
    BY DEF StreamDataArrive
  <2>2. w \in Seq(X) /\ r <= m /\ m <= Len(w) /\ size \in Nat
    BY <1>4, <1>6, <1>7
  <2>3. PICK d \in Nat : d = m - r /\ size <= d /\ r + d <= m /\ r + d = m
    BY <1>6, <1>7
  <2>4. Part(Part(w, r, m), size, d) = Part(w, r + size, r + d)
    BY <2>2, <2>3, PartOfPart
  <2>5. SubSeq(Part(w, r, m), size + 1, d) = Part(w, q, m)
    BY <1>8, <2>3, <2>4 DEF Part
  <2> QED BY <1>3, <1>6, <1>7, <2>1, <2>3, <2>5
<1>18. Whole' = w /\ Ends(sent)' = E /\ Sent'
  BY <1>1 DEF Whole, w, E, Sent, Messages, Ends
<1>19. ReceivedUpTo(j, q)'
  BY <1>1, <1>6, <1>8, <1>11, <1>13, <1>15, <1>16, <1>17, <1>18 DEF ReceivedUpTo, n
<1>20. rule # "none"
  <2>1. Len(coming) # 0
    BY <1>7
  <2>2. coming # <<>>
    BY <2>1
  <2> QED BY <2>2 DEF StreamInv, Unconnected
<1> QED BY <1>1, <1>8, <1>12, <1>18, <1>19, <1>20 DEF StreamInv, n

\* Every step keeps the invariant of the stream.
LEMMA StreamsStep == StreamInv /\ [StreamsNext]_streamVars => StreamInv'
<1> SUFFICES ASSUME StreamInv, [StreamsNext]_streamVars PROVE StreamInv'
  OBVIOUS
<1>1. CASE Connect
  BY <1>1, ConnectStep
<1>2. CASE \E size \in 1 .. Len(coming) : StreamDataArrive(size)
  <2>1. PICK size \in 1 .. Len(coming) : StreamDataArrive(size)
    BY <1>2
  <2> QED BY <2>1, ReceiveStep
<1>3. CASE UNCHANGED streamVars
  BY <1>3 DEF streamVars, StreamInv, Unconnected, Sent, Messages, ReceivedUpTo, Whole
<1> QED BY <1>1, <1>2, <1>3 DEF StreamsNext

\* The invariant is more than FramesWhole.
LEMMA StreamInvFrames == StreamInv => FramesWhole
<1> SUFFICES ASSUME StreamInv PROVE FramesWhole
  OBVIOUS
<1> DEFINE n == Len(sent)
           E == Ends(sent)
           w == Whole
           X == Elements
<1>1. Sent
  BY DEF StreamInv
<1>2. PICK k \in 0 .. n, r \in Nat : ReceivedUpTo(k, r)
  BY DEF StreamInv
<1>3. /\ r <= Len(w) /\ E[k] <= r /\ (k < n => r < E[k + 1])
      /\ packs = Part(sent, 0, k) /\ stream_buffer_ = Part(w, E[k], r) /\ coming = Part(w, r, Len(w))
  BY <1>2 DEF ReceivedUpTo
<1>4. /\ sent \in Seq(Seq(X)) /\ n \in Nat /\ w \in Seq(X) /\ Len(w) \in Nat
      /\ \A i \in 0 .. n : E[i] \in Nat
      /\ \A i \in 1 .. n : Len(sent[i]) \in Nat \ {0} /\ E[i] = E[i - 1] + Len(sent[i])
  BY <1>1, WholeIs, LenProperties
<1>5. PICK a \in Nat : a = E[k] /\ a <= r
  BY <1>3, <1>4
<1>6. PICK m \in Nat : m = Len(w) /\ r <= m
  BY <1>3, <1>4
<1>7. FlattenSeq(packs) = Part(w, 0, a)
  <2>1. FlattenSeq(Part(sent, 0, k)) = Part(FlattenSeq(sent), 0, Ends(sent)[k])
    BY <1>4, FlattenFirst
  <2> QED BY <1>3, <1>5, <2>1 DEF Whole
<1>8. k \in Nat /\ k <= n /\ k \in 0 .. n
  BY <1>4
<1> HIDE DEF E, w, X, n
<1>9. Len(packs) = k
  <2>1. sent \in Seq(Seq(X)) /\ 0 \in Nat /\ 0 <= k /\ k <= Len(sent)
    BY <1>4, <1>8 DEF n
  <2>2. Len(Part(sent, 0, k)) = k - 0
    BY <1>8, <2>1, PartIs
  <2> QED BY <1>3, <1>8, <2>2
<1>10. IsPrefix(packs, sent)
  <2>1. packs \in Seq(Seq(X))
    <3>1. sent \in Seq(Seq(X)) /\ 0 \in Nat /\ 0 <= k /\ k <= Len(sent)
      BY <1>4, <1>8 DEF n
    <3>2. Part(sent, 0, k) \in Seq(Seq(X))
      BY <1>8, <3>1, PartIs
    <3> QED BY <1>3, <3>2
  <2>2. SubSeq(packs, 1, Len(packs)) = packs
    <3>1. Part(packs, 0, Len(packs)) = packs
      BY <2>1, PartEnds
    <3>2. 0 + 1 = 1
      OBVIOUS
    <3> QED BY <3>1, <3>2 DEF Part
  <2>3. SubSeq(sent, 1, Len(packs)) = packs
    <3>1. 0 + 1 = 1
      OBVIOUS
    <3> QED BY <1>3, <1>9, <3>1 DEF Part
  <2> QED BY <1>8, <1>9, <2>2, <2>3 DEF IsPrefix, n
<1>11. FlattenSeq(packs) \o stream_buffer_ \o coming = FlattenSeq(sent)
  <2>1. w \in Seq(X) /\ 0 \in Nat /\ 0 <= a /\ a <= r /\ r <= Len(w)
    BY <1>4, <1>5, <1>6
  <2>2. Part(w, 0, a) \o Part(w, a, r) = Part(w, 0, r)
    BY <2>1, PartsJoin
  <2>3. w \in Seq(X) /\ 0 \in Nat /\ 0 <= r /\ r <= m /\ m <= Len(w)
    BY <1>4, <1>6
  <2>4. Part(w, 0, r) \o Part(w, r, m) = Part(w, 0, m)
    BY <2>3, PartsJoin
  <2>5. Part(w, 0, Len(w)) = w
    BY <1>4, PartEnds
  <2> QED BY <1>3, <1>5, <1>6, <1>7, <2>2, <2>4, <2>5 DEF w, Whole
<1>12. ASSUME k < n PROVE Len(stream_buffer_) < Len(sent[k + 1])
  <2>1. Len(stream_buffer_) = r - a
    <3>1. w \in Seq(X) /\ a <= r /\ r <= Len(w)
      BY <1>4, <1>5, <1>6
    <3>2. Len(Part(w, a, r)) = r - a
      BY <3>1, PartIs
    <3> QED BY <1>3, <1>5, <3>2
  <2>2. k + 1 \in 1 .. n /\ (k + 1) - 1 = k
    BY <1>4, <1>8, <1>12
  <2>3. PICK l \in Nat : l = Len(sent[k + 1]) /\ E[k + 1] = a + l
    BY <1>4, <1>5, <2>2
  <2>4. r < a + l
    BY <1>3, <1>12, <2>3
  <2>5. r - a < l
    BY <2>4
  <2> QED BY <2>1, <2>3, <2>5
<1> QED BY <1>9, <1>10, <1>11, <1>12 DEF FramesWhole, n

\* Wherever the receives cut a stream of a peer or of a tracker, the packs are its
\* messages, in order and whole, and what is kept begins the next (StreamUnpacker).
THEOREM FramesAlwaysWhole == StreamsSpec => []FramesWhole
<1>1. StreamsInit => StreamInv
  BY StreamsInitInv
<1>2. StreamInv /\ [StreamsNext]_streamVars => StreamInv'
  BY StreamsStep
<1>3. StreamInv => FramesWhole
  BY StreamInvFrames
<1> QED BY <1>1, <1>2, <1>3, PTL DEF StreamsSpec

-----------------------------------------------------------------------------
(* The bencode reader.  The induction is over the length of what an object *)
(* is written as, and within a list or a dictionary over its items.        *)

\* The characters s stand in b from p on, as far as b goes.
At(b, p, s) ==
  /\ p \in 1 .. Len(b) + 1
  /\ \A i \in 1 .. Len(s) : p + i <= Len(b) + 1 => b[(p - 1) + i] = s[i]

\* They are all there.
AllAt(b, p, s) == p + Len(s) <= Len(b) + 1

\* What a reader returns at p of a value that is written as s: the value, or
\* nothing if the buffer ends before.
Reads(result, b, p, s, v) ==
  result = IF AllAt(b, p, s) THEN {[value |-> v, end |-> p + Len(s)]} ELSE {}

\* The first part of what stands at p stands there, and the second behind it.
LEMMA AtParts ==
  ASSUME NEW X, NEW b \in Seq(X), NEW s \in Seq(X), NEW t \in Seq(X), NEW p, At(b, p, s \o t)
  PROVE  /\ At(b, p, s)
         /\ AllAt(b, p, s) => At(b, p + Len(s), t)
         /\ AllAt(b, p, s \o t) <=> AllAt(b, p, s) /\ AllAt(b, p + Len(s), t)
         /\ Len(s \o t) = Len(s) + Len(t)
<1>1. /\ Len(s \o t) = Len(s) + Len(t)
      /\ \A i \in 1 .. Len(s) + Len(t) : (s \o t)[i] = IF i <= Len(s) THEN s[i] ELSE t[i - Len(s)]
  BY ConcatProperties
<1>2. Len(b) \in Nat /\ Len(s) \in Nat /\ Len(t) \in Nat
  BY LenProperties
<1>3. p \in 1 .. Len(b) + 1
      /\ \A i \in 1 .. Len(s) + Len(t) : p + i <= Len(b) + 1 => b[(p - 1) + i] = (s \o t)[i]
  BY <1>1 DEF At
<1>4. At(b, p, s)
  <2>1. ASSUME NEW i \in 1 .. Len(s), p + i <= Len(b) + 1 PROVE b[(p - 1) + i] = s[i]
    <3>1. i \in 1 .. Len(s) + Len(t) /\ i <= Len(s)
      BY <1>2
    <3> QED BY <1>1, <1>3, <2>1, <3>1
  <2> QED BY <1>3, <2>1 DEF At
<1>5. ASSUME AllAt(b, p, s) PROVE At(b, p + Len(s), t)
  <2>1. p + Len(s) \in 1 .. Len(b) + 1
    BY <1>2, <1>3, <1>5 DEF AllAt
  <2>2. ASSUME NEW i \in 1 .. Len(t), (p + Len(s)) + i <= Len(b) + 1
        PROVE  b[((p + Len(s)) - 1) + i] = t[i]
    <3>1. PICK j \in Nat : j = Len(s) + i
      BY <1>2
    <3>2. /\ j \in 1 .. Len(s) + Len(t) /\ ~(j <= Len(s)) /\ j - Len(s) = i
          /\ p + j <= Len(b) + 1 /\ ((p + Len(s)) - 1) + i = (p - 1) + j
      BY <1>2, <1>3, <2>2, <3>1
    <3> QED BY <1>1, <1>3, <3>2
  <2> QED BY <2>1, <2>2 DEF At
<1>6. AllAt(b, p, s \o t) <=> AllAt(b, p, s) /\ AllAt(b, p + Len(s), t)
  BY <1>1, <1>2, <1>3 DEF AllAt
<1> QED BY <1>1, <1>4, <1>5, <1>6

\* What is there as a whole is what a reader cuts out.
LEMMA RawIs ==
  ASSUME NEW X, NEW b \in Seq(X), NEW s \in Seq(X), NEW p, At(b, p, s), AllAt(b, p, s)
  PROVE  Raw(b, p, p + Len(s)) = s
<1>1. PICK n \in Nat : n = Len(s)
  BY LenProperties
<1>2. Len(b) \in Nat /\ p \in 1 .. Len(b) + 1 /\ p \in Nat /\ p + n <= Len(b) + 1
  BY <1>1, LenProperties DEF At, AllAt
<1>3. PICK a \in Nat, e \in Nat : p = a + 1 /\ e = a + n
  <2>1. p - 1 \in Nat /\ (p - 1) + n \in Nat /\ p = (p - 1) + 1
    BY <1>2
  <2> QED BY <2>1
<1>4. a <= e /\ e <= Len(b) /\ e - a = n /\ (p + n) - 1 = e /\ p - 1 = a
  BY <1>2, <1>3
<1>5. /\ Part(b, a, e) \in Seq(X) /\ Len(Part(b, a, e)) = e - a
      /\ \A i \in 1 .. e - a : Part(b, a, e)[i] = b[a + i]
  <2>1. a <= e /\ e <= Len(b)
    BY <1>4
  <2> QED BY <2>1, PartIs
<1>6. \A i \in 1 .. n : b[a + i] = s[i]
  <2> SUFFICES ASSUME NEW i \in 1 .. n PROVE b[a + i] = s[i]
    OBVIOUS
  <2>1. i \in 1 .. Len(s) /\ p + i <= Len(b) + 1
    BY <1>1, <1>2
  <2>2. b[(p - 1) + i] = s[i]
    BY <2>1 DEF At
  <2> QED BY <1>4, <2>2
<1>7. Part(b, a, e) = s
  <2>1. Len(Part(b, a, e)) = Len(s)
    BY <1>1, <1>4, <1>5
  <2>2. \A i \in 1 .. Len(Part(b, a, e)) : Part(b, a, e)[i] = s[i]
    BY <1>4, <1>5, <1>6
  <2>3. Part(b, a, e) \in Seq(X)
    BY <1>5
  <2> HIDE DEF Part
  <2> QED BY <2>1, <2>2, <2>3, SeqEqual
<1>8. Raw(b, p, p + Len(s)) = SubSeq(b, a + 1, e)
  BY <1>1, <1>3, <1>4 DEF Raw
<1> QED BY <1>7, <1>8 DEF Part

\* Where the digits end is the first position that has none.
LEMMA DigitsEndIs ==
  ASSUME NEW X, NEW b \in Seq(X), NEW p \in 1 .. Len(b) + 1, NEW q \in p .. Len(b) + 1,
         q > Len(b) \/ b[q] \notin Range(Digits),
         \A r \in p .. q - 1 : b[r] \in Range(Digits)
  PROVE  DigitsEnd(b, p) = q
<1> DEFINE S == {r \in p .. Len(b) + 1 : r > Len(b) \/ b[r] \notin Range(Digits)}
<1>1. Len(b) \in Nat
  BY LenProperties
<1>2. S \in SUBSET Nat /\ q \in S
  BY <1>1
<1>3. \A r \in S : q <= r
  <2> SUFFICES ASSUME NEW r \in S, r < q PROVE FALSE
    BY <1>1
  <2>1. r \in p .. q - 1 /\ r <= Len(b)
    BY <1>1
  <2> QED BY <1>1, <2>1
<1>4. DigitsEnd(b, p) = Min(S)
  BY DEF DigitsEnd
<1> HIDE DEF S
<1>5. Min(S) \in S /\ \A y \in S : Min(S) <= y
  <2>1. S # {}
    BY <1>2
  <2> QED BY <1>2, <2>1, LeastOf
<1>6. Min(S) = q
  <2>1. Min(S) <= q /\ q <= Min(S) /\ Min(S) \in Nat /\ q \in Nat
    BY <1>2, <1>3, <1>5
  <2> QED BY <2>1
<1> QED BY <1>4, <1>6

\* The digits of a numeral end behind it, or with the buffer.
LEMMA NumeralEnd ==
  ASSUME NEW b \in Seq(Characters), NEW d \in Seq(Characters), IsNumeral(d), NEW p, At(b, p, d),
         AllAt(b, p, d) => p + Len(d) > Len(b) \/ b[p + Len(d)] \notin Range(Digits)
  PROVE  DigitsEnd(b, p) = IF AllAt(b, p, d) THEN p + Len(d) ELSE Len(b) + 1
<1>1. Len(b) \in Nat /\ Len(d) \in Nat /\ p \in 1 .. Len(b) + 1
  BY LenProperties DEF At
<1>2. \A i \in 1 .. Len(d) : d[i] \in Range(Digits)
  <2>1. DOMAIN d = 1 .. Len(d)
    BY LenProperties
  <2>2. Range(d) \subseteq Range(Digits)
    BY DEF IsNumeral
  <2>3. \A i \in DOMAIN d : d[i] \in Range(d)
    BY DEF Range
  <2> QED BY <2>1, <2>2, <2>3
<1>3. ASSUME NEW r \in p .. Len(b), r < p + Len(d) PROVE b[r] \in Range(Digits)
  <2>1. PICK i \in Nat : i = (r - p) + 1
    BY <1>1
  <2>2. i \in 1 .. Len(d) /\ p + i <= Len(b) + 1 /\ (p - 1) + i = r
    BY <1>1, <1>3, <2>1
  <2>3. b[r] = d[i]
    BY <2>2 DEF At
  <2> QED BY <1>2, <2>2, <2>3
<1>4. CASE AllAt(b, p, d)
  <2>1. PICK q \in Nat : q = p + Len(d)
    BY <1>1
  <2>2. q \in p .. Len(b) + 1 /\ \A r \in p .. q - 1 : r \in p .. Len(b) /\ r < p + Len(d)
    BY <1>1, <1>4, <2>1 DEF AllAt
  <2>3. \A r \in p .. q - 1 : b[r] \in Range(Digits)
    BY <1>3, <2>2
  <2>4. q > Len(b) \/ b[q] \notin Range(Digits)
    BY <1>4, <2>1
  <2>5. DigitsEnd(b, p) = q
    BY <1>1, <2>2, <2>3, <2>4, DigitsEndIs
  <2> QED BY <1>4, <2>1, <2>5
<1>5. CASE ~AllAt(b, p, d)
  <2>1. PICK q \in Nat : q = Len(b) + 1
    BY <1>1
  <2>2. q \in p .. Len(b) + 1 /\ \A r \in p .. q - 1 : r \in p .. Len(b) /\ r < p + Len(d)
    BY <1>1, <1>5, <2>1 DEF AllAt
  <2>3. \A r \in p .. q - 1 : b[r] \in Range(Digits)
    BY <1>3, <2>2
  <2>4. q > Len(b)
    BY <1>1, <2>1
  <2>5. DigitsEnd(b, p) = q
    BY <1>1, <2>2, <2>3, <2>4, DigitsEndIs
  <2> QED BY <1>5, <2>1, <2>5
<1> QED BY <1>4, <1>5

\* Neither the colon nor the letters of bencode are digits.
LEMMA NoDigits ==
  /\ Range(Digits) = {"0", "1", "2", "3", "4", "5", "6", "7", "8", "9"}
  /\ \A c \in {":", "e", "i", "l", "d"} : c \notin Range(Digits) /\ c \in Characters
<1>1. DOMAIN Digits = 1 .. 10
  BY DEF Digits
<1>2. Range(Digits) = {Digits[i] : i \in 1 .. 10}
  BY <1>1 DEF Range
<1>3. 1 .. 10 = {1, 2, 3, 4, 5, 6, 7, 8, 9, 10}
  OBVIOUS
<1>4. Range(Digits) = {"0", "1", "2", "3", "4", "5", "6", "7", "8", "9"}
  BY <1>2, <1>3 DEF Digits
<1> QED BY <1>4, MetainfoAssumption

\* One character.
LEMMA OneElement ==
  ASSUME NEW X, NEW x \in X
  PROVE  <<x>> \in Seq(X) /\ Len(<<x>>) = 1 /\ <<x>>[1] = x
OBVIOUS

\* A string is read as it is written.
LEMMA StringRead ==
  ASSUME NEW b \in Seq(Characters), NEW length \in Seq(Characters), NEW s \in Seq(Characters), s # <<>>,
         IsNumeral(length), Value(length) = Len(s), NEW p, At(b, p, Str(length, s).raw)
  PROVE  Reads(BenString(b, p), b, p, Str(length, s).raw, Str(length, s))
<1> DEFINE o == Str(length, s)
           n == Len(length)
           colon == DigitsEnd(b, p)
<1>1. o.raw = (length \o <<":">>) \o s /\ o = [type |-> "string", string |-> s, raw |-> o.raw]
  <2>1. o.raw = length \o <<":">> \o s
    BY DEF Str
  <2> QED BY <2>1 DEF Str
<1>2. <<":">> \in Seq(Characters) /\ Len(<<":">>) = 1 /\ <<":">>[1] = ":"
  <2>1. ":" \in Characters
    BY MetainfoAssumption
  <2> QED BY <2>1, OneElement
<1>3. length \o <<":">> \in Seq(Characters)
  BY <1>2, ConcatProperties
<1>4. Len(b) \in Nat /\ n \in Nat /\ Len(s) \in Nat \ {0} /\ p \in 1 .. Len(b) + 1
  BY LenProperties, EmptySeq DEF At
<1>5. /\ At(b, p, length \o <<":">>)
      /\ AllAt(b, p, length \o <<":">>) => At(b, p + Len(length \o <<":">>), s)
      /\ AllAt(b, p, o.raw) <=> AllAt(b, p, length \o <<":">>) /\ AllAt(b, p + Len(length \o <<":">>), s)
      /\ Len(o.raw) = Len(length \o <<":">>) + Len(s)
  <2>1. PICK c \in Seq(Characters) : c = length \o <<":">> /\ o.raw = c \o s
    BY <1>1, <1>3
  <2>2. At(b, p, c \o s)
    BY <2>1
  <2> HIDE DEF o
  <2>3. /\ At(b, p, c)
        /\ AllAt(b, p, c) => At(b, p + Len(c), s)
        /\ AllAt(b, p, c \o s) <=> AllAt(b, p, c) /\ AllAt(b, p + Len(c), s)
        /\ Len(c \o s) = Len(c) + Len(s)
    BY <2>2, AtParts
  <2> QED BY <2>1, <2>3
<1>6. /\ At(b, p, length)
      /\ AllAt(b, p, length) => At(b, p + n, <<":">>)
      /\ AllAt(b, p, length \o <<":">>) <=> AllAt(b, p, length) /\ AllAt(b, p + n, <<":">>)
      /\ Len(length \o <<":">>) = n + 1
  BY <1>2, <1>5, AtParts
<1>7. AllAt(b, p, length) /\ p + n <= Len(b) => b[p + n] = ":"
  <2> SUFFICES ASSUME AllAt(b, p, length), p + n <= Len(b) PROVE b[p + n] = ":"
    OBVIOUS
  <2>1. PICK q \in Nat : q = p + n
    BY <1>4
  <2>2. At(b, q, <<":">>) /\ 1 \in 1 .. Len(<<":">>) /\ q + 1 <= Len(b) + 1 /\ (q - 1) + 1 = q
    BY <1>2, <1>4, <1>6, <2>1
  <2>3. b[(q - 1) + 1] = <<":">>[1]
    BY <2>2 DEF At
  <2> QED BY <1>2, <2>1, <2>2, <2>3
<1>8. colon = IF AllAt(b, p, length) THEN p + n ELSE Len(b) + 1
  <2>1. AllAt(b, p, length) => p + n > Len(b) \/ b[p + n] \notin Range(Digits)
    BY <1>4, <1>7, NoDigits
  <2> QED BY <1>6, <2>1, NumeralEnd
<1> HIDE DEF colon, o, n
<1>9. CASE ~AllAt(b, p, length) \/ p + n > Len(b)
  <2>1. ~(colon <= Len(b))
    BY <1>4, <1>8, <1>9
  <2>2. BenString(b, p) = {}
    BY <2>1 DEF BenString, colon
  <2>3. ~AllAt(b, p, o.raw)
    BY <1>2, <1>4, <1>5, <1>6, <1>9 DEF AllAt
  <2> QED BY <2>2, <2>3 DEF Reads, o
<1>10. CASE AllAt(b, p, length) /\ p + n <= Len(b)
  <2>1. PICK q \in Nat : q = p + n
    BY <1>4
  <2>2. colon = q /\ colon <= Len(b) /\ b[colon] = ":" /\ q = p + n
    BY <1>7, <1>8, <1>10, <2>1
  <2>3. SubSeq(b, p, colon - 1) = length
    <3>1. Raw(b, p, p + Len(length)) = length
      BY <1>6, <1>10, RawIs
    <3> QED BY <2>2, <3>1 DEF Raw, n
  <2>4. AllAt(b, p, length \o <<":">>) /\ p + Len(length \o <<":">>) = q + 1
    <3>1. Len(length \o <<":">>) = n + 1 /\ n \in Nat
      BY <1>4, <1>6
    <3>2. p + (n + 1) = q + 1 /\ p + (n + 1) <= Len(b) + 1
      BY <1>4, <1>10, <2>1
    <3> QED BY <3>1, <3>2 DEF AllAt
  <2>5. AllAt(b, p, o.raw) <=> AllAt(b, q + 1, s)
    BY <1>5, <2>4
  <2>6. AllAt(b, p, o.raw) <=> Len(s) \in 1 .. Len(b) - colon
    BY <1>4, <2>1, <2>2, <2>5 DEF AllAt
  <2>7. CASE ~AllAt(b, p, o.raw)
    <3>1. BenString(b, p) = {}
      BY <2>2, <2>3, <2>6, <2>7 DEF BenString, colon
    <3> QED BY <2>7, <3>1 DEF Reads, o
  <2>8. CASE AllAt(b, p, o.raw)
    <3>1. PICK e \in Nat : e = q + Len(s) + 1 /\ e = (q + 1) + Len(s) /\ e = p + Len(o.raw)
      <4>1. PICK m \in Nat : m = Len(s)
        BY <1>4
      <4>2. Len(o.raw) = (n + 1) + m
        BY <1>5, <1>6, <4>1
      <4>3. q + m + 1 = (q + 1) + m /\ q + m + 1 = p + ((n + 1) + m) /\ q + m + 1 \in Nat
        BY <1>4, <2>1
      <4> QED BY <4>1, <4>2, <4>3
    <3>2. Raw(b, colon + 1, e) = s
      <4>1. At(b, q + 1, s) /\ AllAt(b, q + 1, s)
        BY <1>5, <2>4, <2>5, <2>8
      <4>2. Raw(b, q + 1, (q + 1) + Len(s)) = s
        BY <4>1, RawIs
      <4> QED BY <2>2, <3>1, <4>2
    <3>3. Raw(b, p, e) = o.raw
      <4>1. o.raw \in Seq(Characters)
        BY <1>1, <1>3, ConcatProperties
      <4>2. Raw(b, p, p + Len(o.raw)) = o.raw
        BY <2>8, <4>1, RawIs DEF o
      <4> QED BY <3>1, <4>2
    <3>4. BenString(b, p) = {[value |-> [type |-> "string", string |-> Raw(b, colon + 1, e), raw |-> Raw(b, p, e)],
                              end |-> e]}
      <4>1. colon + Value(SubSeq(b, p, colon - 1)) + 1 = e
        BY <2>2, <2>3, <3>1
      <4>2. Value(SubSeq(b, p, colon - 1)) \in 1 .. Len(b) - colon
        BY <2>3, <2>6, <2>8
      <4> QED BY <2>2, <4>1, <4>2 DEF BenString, colon
    <3>5. BenString(b, p) = {[value |-> o, end |-> p + Len(o.raw)]}
      BY <1>1, <3>1, <3>2, <3>3, <3>4
    <3> QED BY <2>8, <3>5 DEF Reads, o
  <2> QED BY <2>7, <2>8
<1> QED BY <1>4, <1>9, <1>10

\* An integer is read as it is written.
LEMMA IntegerRead ==
  ASSUME NEW b \in Seq(Characters), NEW d \in Seq(Characters), IsNumeral(d), NEW p,
         At(b, p, Num(d).raw)
  PROVE  Reads(BenInteger(b, p), b, p, Num(d).raw, Num(d))
<1> DEFINE o == Num(d)
           E == {q \in p + 1 .. Len(b) : b[q] = "e" /\ \A r \in p + 1 .. q - 1 : b[r] # "e"}
<1>1. o.raw = <<"i">> \o (d \o <<"e">>) /\ o = [type |-> "integer", number |-> Value(d), raw |-> o.raw]
  <2>1. "i" \in Characters /\ "e" \in Characters
    BY NoDigits
  <2>2. <<"i">> \in Seq(Characters) /\ <<"e">> \in Seq(Characters)
    BY <2>1, OneElement
  <2>3. (<<"i">> \o d) \o <<"e">> = <<"i">> \o (d \o <<"e">>)
    BY <2>2, ConcatAssociative
  <2>4. o.raw = (<<"i">> \o d) \o <<"e">>
    BY DEF Num
  <2> QED BY <2>3, <2>4 DEF Num
<1>2. PICK ci \in Seq(Characters), ce \in Seq(Characters) :
        ci = <<"i">> /\ ce = <<"e">> /\ Len(ci) = 1 /\ Len(ce) = 1 /\ ce[1] = "e"
  <2>1. "i" \in Characters /\ "e" \in Characters
    BY NoDigits
  <2>2. <<"i">> \in Seq(Characters) /\ Len(<<"i">>) = 1
    BY <2>1, OneElement
  <2>3. <<"e">> \in Seq(Characters) /\ Len(<<"e">>) = 1 /\ <<"e">>[1] = "e"
    BY <2>1, OneElement
  <2> QED BY <2>2, <2>3
<1>3. PICK n \in Nat : n = Len(d)
  BY LenProperties
<1>4. PICK de \in Seq(Characters) : de = d \o ce /\ o.raw = ci \o de
  <2>1. d \o ce \in Seq(Characters)
    BY ConcatProperties
  <2> QED BY <1>1, <1>2, <2>1
<1>5. Len(b) \in Nat /\ p \in 1 .. Len(b) + 1 /\ p \in Nat
  BY LenProperties DEF At
<1>6. /\ At(b, p, ci)
      /\ AllAt(b, p, ci) => At(b, p + Len(ci), de)
      /\ AllAt(b, p, ci \o de) <=> AllAt(b, p, ci) /\ AllAt(b, p + Len(ci), de)
      /\ Len(ci \o de) = Len(ci) + Len(de)
  <2>1. At(b, p, ci \o de)
    BY <1>4
  <2> HIDE DEF o, E
  <2> QED BY <2>1, AtParts
<1> HIDE DEF o
<1>7. Len(de) = n + 1 /\ Len(o.raw) = n + 2
  <2>1. Len(d \o ce) = Len(d) + Len(ce)
    BY ConcatProperties
  <2>2. Len(de) = n + 1
    BY <1>2, <1>3, <1>4, <2>1
  <2>3. Len(o.raw) = 1 + Len(de)
    BY <1>2, <1>4, <1>6
  <2> QED BY <2>2, <2>3
<1>8. BenInteger(b, p) =
        {[value |-> [type |-> "integer", number |-> Value(SubSeq(b, p + 1, Min({DigitsEnd(b, p + 1), e}) - 1)),
                     raw |-> Raw(b, p, e + 1)],
          end |-> e + 1] : e \in E}
  BY DEF BenInteger
<1> HIDE DEF E
<1>9. CASE ~AllAt(b, p, ci)
  <2>1. p = Len(b) + 1
    BY <1>2, <1>5, <1>9 DEF AllAt
  <2>2. E = {}
    BY <1>5, <2>1 DEF E
  <2>3. BenInteger(b, p) = {}
    BY <1>8, <2>2
  <2>4. ~AllAt(b, p, o.raw)
    BY <1>5, <1>7, <2>1 DEF AllAt
  <2> QED BY <2>3, <2>4 DEF Reads, o
<1>10. CASE AllAt(b, p, ci)
  <2>1. PICK f \in Nat : f = p + 1
    BY <1>5
  <2>2. At(b, f, de)
    BY <1>2, <1>6, <1>10, <2>1
  <2>3. /\ At(b, f, d)
        /\ AllAt(b, f, d) => At(b, f + Len(d), ce)
        /\ AllAt(b, f, d \o ce) <=> AllAt(b, f, d) /\ AllAt(b, f + Len(d), ce)
    <3>1. At(b, f, d \o ce)
      BY <1>4, <2>2
    <3> QED BY <3>1, AtParts
  <2>4. f \in 1 .. Len(b) + 1
    BY <2>2 DEF At
  <2>5. AllAt(b, f, d) /\ f + n <= Len(b) => b[f + n] = "e"
    <3> SUFFICES ASSUME AllAt(b, f, d), f + n <= Len(b) PROVE b[f + n] = "e"
      OBVIOUS
    <3>1. PICK q \in Nat : q = f + n
      BY <1>3, <2>1
    <3>2. At(b, q, ce) /\ 1 \in 1 .. Len(ce) /\ q + 1 <= Len(b) + 1 /\ (q - 1) + 1 = q
      BY <1>2, <1>3, <1>5, <2>3, <3>1
    <3>3. b[(q - 1) + 1] = ce[1]
      BY <3>2 DEF At
    <3> QED BY <1>2, <3>1, <3>2, <3>3
  <2>6. \A r \in f .. Len(b) : r < f + n => b[r] # "e"
    <3> SUFFICES ASSUME NEW r \in f .. Len(b), r < f + n PROVE b[r] # "e"
      OBVIOUS
    <3>1. PICK i \in Nat : i = (r - f) + 1
      BY <1>5, <2>1
    <3>2. i \in 1 .. Len(d) /\ f + i <= Len(b) + 1 /\ (f - 1) + i = r
      BY <1>3, <1>5, <2>1, <3>1
    <3>3. b[r] = d[i]
      BY <2>3, <3>2 DEF At
    <3>4. d[i] \in Range(Digits)
      <4>1. i \in DOMAIN d
        BY <3>2, LenProperties
      <4>2. d[i] \in Range(d)
        BY <4>1 DEF Range
      <4> QED BY <4>2 DEF IsNumeral
    <3> QED BY <3>3, <3>4, NoDigits
  <2>7. CASE ~AllAt(b, f, d) \/ f + n > Len(b)
    <3>1. \A q \in f .. Len(b) : q < f + n
      BY <1>3, <1>5, <2>1, <2>7 DEF AllAt
    <3>2. E = {}
      BY <2>1, <2>6, <3>1 DEF E
    <3>3. BenInteger(b, p) = {}
      BY <1>8, <3>2
    <3>4. ~AllAt(b, p, o.raw)
      BY <1>3, <1>5, <1>7, <2>1, <2>7 DEF AllAt
    <3> QED BY <3>3, <3>4 DEF Reads, o
  <2>8. CASE AllAt(b, f, d) /\ f + n <= Len(b)
    <3>1. PICK q \in Nat : q = f + n
      BY <2>1
    <3>2. q \in f .. Len(b) /\ b[q] = "e" /\ \A r \in f .. q - 1 : b[r] # "e"
      BY <1>5, <2>1, <2>5, <2>6, <2>8, <3>1
    <3>3. q \in E
      BY <2>1, <3>2 DEF E
    <3>4. \A x \in E : x = q
      <4> SUFFICES ASSUME NEW x \in E PROVE x = q
        OBVIOUS
      <4>1. x \in f .. Len(b) /\ b[x] = "e" /\ \A r \in f .. x - 1 : b[r] # "e"
        BY <2>1 DEF E
      <4>2. ~(x < q) /\ ~(q < x)
        <5>1. ASSUME x < q PROVE FALSE
          <6>1. x \in f .. q - 1
            BY <1>5, <2>1, <3>1, <4>1, <5>1
          <6> QED BY <3>2, <4>1, <6>1
        <5>2. ASSUME q < x PROVE FALSE
          <6>1. q \in f .. x - 1
            BY <1>5, <2>1, <3>2, <4>1, <5>2
          <6> QED BY <3>2, <4>1, <6>1
        <5> QED BY <5>1, <5>2
      <4> QED BY <1>5, <2>1, <3>1, <4>1, <4>2
    <3>5. E = {q}
      BY <3>3, <3>4
    <3>6. DigitsEnd(b, f) = q
      <4>1. f + Len(d) = q /\ b[q] \notin Range(Digits)
        BY <1>3, <3>1, <3>2, NoDigits
      <4>2. AllAt(b, f, d) => f + Len(d) > Len(b) \/ b[f + Len(d)] \notin Range(Digits)
        BY <4>1
      <4>3. DigitsEnd(b, f) = IF AllAt(b, f, d) THEN f + Len(d) ELSE Len(b) + 1
        BY <2>3, <4>2, NumeralEnd
      <4> QED BY <2>8, <4>1, <4>3
    <3>7. Min({DigitsEnd(b, f), q}) = q
      <4>1. {DigitsEnd(b, f), q} = {q}
        BY <3>6
      <4>2. {q} \in SUBSET Nat /\ {q} # {}
        OBVIOUS
      <4>3. Min({q}) \in {q}
        BY <4>2, LeastOf
      <4> QED BY <4>1, <4>3
    <3>8. SubSeq(b, f, q - 1) = d
      <4>1. Raw(b, f, f + Len(d)) = d
        BY <2>3, <2>8, RawIs
      <4> QED BY <1>3, <3>1, <4>1 DEF Raw
    <3>9. AllAt(b, p, o.raw) /\ p + Len(o.raw) = q + 1
      BY <1>3, <1>5, <1>7, <2>1, <3>1, <3>2 DEF AllAt
    <3>10. Raw(b, p, q + 1) = o.raw
      <4>1. o.raw \in Seq(Characters)
        BY <1>4, ConcatProperties
      <4>2. At(b, p, o.raw)
        BY DEF o
      <4>3. Raw(b, p, p + Len(o.raw)) = o.raw
        BY <3>9, <4>1, <4>2, RawIs
      <4> QED BY <3>9, <4>3
    <3>11. BenInteger(b, p) =
             {[value |-> [type |-> "integer", number |-> Value(SubSeq(b, p + 1, Min({DigitsEnd(b, p + 1), q}) - 1)),
                          raw |-> Raw(b, p, q + 1)],
               end |-> q + 1]}
      BY <1>8, <3>5
    <3>12. BenInteger(b, p) = {[value |-> o, end |-> p + Len(o.raw)]}
      BY <1>1, <2>1, <3>7, <3>8, <3>9, <3>10, <3>11
    <3> QED BY <3>9, <3>12 DEF Reads, o
  <2> QED BY <1>5, <2>7, <2>8
<1> QED BY <1>9, <1>10

\* How a list or a dictionary is written: a letter, its items, and an "e".
Enclosed(c, parts) == <<c>> \o FlattenSeq(parts) \o <<"e">>

\* Its characters are those of its parts, each in its place.
LEMMA EnclosedIs ==
  ASSUME NEW c \in Characters, NEW parts \in Seq(Seq(Characters))
  PROVE  /\ Enclosed(c, parts) \in Seq(Characters)
         /\ Len(Enclosed(c, parts)) = Ends(parts)[Len(parts)] + 2
         /\ Enclosed(c, parts)[1] = c
         /\ Enclosed(c, parts)[Ends(parts)[Len(parts)] + 2] = "e"
         /\ \A j \in 1 .. Len(parts) : \A i \in 1 .. Len(parts[j]) :
              Enclosed(c, parts)[(1 + Ends(parts)[j - 1]) + i] = parts[j][i]
<1>1. /\ Len(parts) \in Nat
      /\ \A j \in 1 .. Len(parts) : parts[j] \in Seq(Characters) /\ Len(parts[j]) \in Nat
      /\ \A j \in 0 .. Len(parts) : Ends(parts)[j] \in Nat
      /\ \A j \in 1 .. Len(parts) : Ends(parts)[j] = Ends(parts)[j - 1] + Len(parts[j])
      /\ \A i, j \in 0 .. Len(parts) : i <= j => Ends(parts)[i] <= Ends(parts)[j]
  BY EndsAre
<1>2. PICK m \in Nat : m = Ends(parts)[Len(parts)]
  <2>1. Len(parts) \in 0 .. Len(parts)
    BY <1>1
  <2> QED BY <1>1, <2>1
<1>3. PICK f \in Seq(Characters) :
        /\ f = FlattenSeq(parts) /\ Len(f) = m
        /\ \A j \in 1 .. Len(parts) : \A i \in 1 .. Len(parts[j]) : f[Ends(parts)[j - 1] + i] = parts[j][i]
  BY <1>2, FlattenIs
<1>4. PICK first \in Seq(Characters) : first = <<c>> /\ Len(first) = 1 /\ first[1] = c
  BY OneElement
<1>5. PICK last \in Seq(Characters) : last = <<"e">> /\ Len(last) = 1 /\ last[1] = "e"
  <2>1. "e" \in Characters
    BY NoDigits
  <2> QED BY <2>1, OneElement
<1>6. PICK g \in Seq(Characters) :
        /\ g = first \o f /\ Len(g) = 1 + m
        /\ \A i \in 1 .. 1 + m : g[i] = IF i <= 1 THEN first[i] ELSE f[i - 1]
  <2>1. /\ first \o f \in Seq(Characters) /\ Len(first \o f) = Len(first) + Len(f)
        /\ \A i \in 1 .. Len(first) + Len(f) :
             (first \o f)[i] = IF i <= Len(first) THEN first[i] ELSE f[i - Len(first)]
    BY ConcatProperties
  <2> QED BY <1>3, <1>4, <2>1
<1>7. PICK h \in Seq(Characters) :
        /\ h = g \o last /\ Len(h) = m + 2
        /\ \A i \in 1 .. m + 2 : h[i] = IF i <= 1 + m THEN g[i] ELSE last[i - (1 + m)]
  <2>1. /\ g \o last \in Seq(Characters) /\ Len(g \o last) = Len(g) + Len(last)
        /\ \A i \in 1 .. Len(g) + Len(last) :
             (g \o last)[i] = IF i <= Len(g) THEN g[i] ELSE last[i - Len(g)]
    BY ConcatProperties
  <2>2. Len(g) = 1 + m /\ Len(g) + Len(last) = m + 2
    <3>1. Len(g) = 1 + m /\ Len(last) = 1 /\ (1 + m) + 1 = m + 2
      BY <1>5, <1>6
    <3> QED BY <3>1
  <2> QED BY <2>1, <2>2
<1>8. Enclosed(c, parts) = h
  BY <1>3, <1>4, <1>5, <1>6, <1>7 DEF Enclosed
<1>9. h[1] = c
  <2>1. 1 \in 1 .. m + 2 /\ 1 \in 1 .. 1 + m /\ 1 <= 1 + m
    OBVIOUS
  <2> QED BY <1>4, <1>6, <1>7, <2>1
<1>10. h[m + 2] = "e"
  <2>1. m + 2 \in 1 .. m + 2 /\ ~(m + 2 <= 1 + m) /\ (m + 2) - (1 + m) = 1
    OBVIOUS
  <2> QED BY <1>5, <1>7, <2>1
<1>11. ASSUME NEW j \in 1 .. Len(parts), NEW i \in 1 .. Len(parts[j])
       PROVE  h[(1 + Ends(parts)[j - 1]) + i] = parts[j][i]
  <2>1. j - 1 \in 0 .. Len(parts) /\ j \in 0 .. Len(parts) /\ Len(parts) \in 0 .. Len(parts) /\ j <= Len(parts)
    BY <1>1
  <2>2. PICK a \in Nat, l \in Nat : a = Ends(parts)[j - 1] /\ l = Len(parts[j]) /\ a + l <= m
    BY <1>1, <1>2, <2>1
  <2>3. i \in 1 .. l /\ i \in Nat
    BY <2>2
  <2>4. PICK x \in Nat : x = (1 + a) + i
    <3>1. i \in Nat
      BY <2>3
    <3>2. (1 + a) + i \in Nat
      BY <3>1
    <3> QED BY <3>2
  <2>5. x \in 1 .. m + 2 /\ x <= 1 + m /\ x \in 1 .. 1 + m /\ ~(x <= 1) /\ x - 1 = a + i
    <3>1. i >= 1 /\ i <= l /\ i \in Nat
      BY <2>3
    <3>2. a + l <= m
      BY <2>2
    <3>3. a + i <= m
      BY <3>1, <3>2
    <3>4. x = 1 + (a + i) /\ x - 1 = a + i
      BY <2>4, <3>1
    <3> QED BY <3>1, <3>3, <3>4
  <2>6. h[x] = f[a + i]
    BY <1>6, <1>7, <2>5
  <2> QED BY <1>3, <2>2, <2>4, <2>6
<1> QED BY <1>2, <1>7, <1>8, <1>9, <1>10, <1>11

\* Where the part behind the first k begins, if the whole stands at p.
PartAt(parts, p, k) == (p + 1) + Ends(parts)[k]

\* The parts stand where they begin, and behind them an "e".
LEMMA EnclosedAt ==
  ASSUME NEW c \in Characters, NEW parts \in Seq(Seq(Characters)), NEW b \in Seq(Characters), NEW p,
         At(b, p, Enclosed(c, parts))
  PROVE  /\ p \in Nat \ {0} /\ Len(b) \in Nat
         /\ p <= Len(b) => b[p] = c
         /\ \A k \in 0 .. Len(parts) : PartAt(parts, p, k) \in Nat \ {0}
         /\ \A j \in 1 .. Len(parts) :
              PartAt(parts, p, j - 1) <= Len(b) + 1 => At(b, PartAt(parts, p, j - 1), parts[j])
         /\ PartAt(parts, p, Len(parts)) <= Len(b) => b[PartAt(parts, p, Len(parts))] = "e"
<1>1. /\ Len(parts) \in Nat
      /\ \A j \in 1 .. Len(parts) : parts[j] \in Seq(Characters) /\ Len(parts[j]) \in Nat
      /\ \A j \in 0 .. Len(parts) : Ends(parts)[j] \in Nat
      /\ \A j \in 1 .. Len(parts) : Ends(parts)[j] = Ends(parts)[j - 1] + Len(parts[j])
      /\ \A i, j \in 0 .. Len(parts) : i <= j => Ends(parts)[i] <= Ends(parts)[j]
  BY EndsAre
<1>2. PICK m \in Nat : m = Ends(parts)[Len(parts)]
  <2>1. Len(parts) \in 0 .. Len(parts)
    BY <1>1
  <2> QED BY <1>1, <2>1
<1>3. PICK h \in Seq(Characters) :
        /\ h = Enclosed(c, parts) /\ Len(h) = m + 2 /\ h[1] = c /\ h[m + 2] = "e"
        /\ \A j \in 1 .. Len(parts) : \A i \in 1 .. Len(parts[j]) :
              h[(1 + Ends(parts)[j - 1]) + i] = parts[j][i]
  BY <1>2, EnclosedIs
<1>4. Len(b) \in Nat
  BY LenProperties
<1>5. /\ p \in 1 .. Len(b) + 1
      /\ \A i \in 1 .. m + 2 : p + i <= Len(b) + 1 => b[(p - 1) + i] = h[i]
  BY <1>3 DEF At
<1>6. PICK a \in Nat : p = a + 1
  <2>1. p - 1 \in Nat /\ p = (p - 1) + 1
    BY <1>4, <1>5
  <2> QED BY <2>1
<1>7. p <= Len(b) => b[p] = c
  <2> SUFFICES ASSUME p <= Len(b) PROVE b[p] = c
    OBVIOUS
  <2>1. 1 \in 1 .. m + 2 /\ p + 1 <= Len(b) + 1 /\ (p - 1) + 1 = p
    BY <1>4, <1>6
  <2> QED BY <1>3, <1>5, <2>1
<1>8. \A k \in 0 .. Len(parts) : PartAt(parts, p, k) \in Nat \ {0}
  BY <1>1, <1>6 DEF PartAt
<1>9. ASSUME NEW j \in 1 .. Len(parts), PartAt(parts, p, j - 1) <= Len(b) + 1
      PROVE  At(b, PartAt(parts, p, j - 1), parts[j])
  <2>1. j - 1 \in 0 .. Len(parts) /\ j \in 0 .. Len(parts) /\ Len(parts) \in 0 .. Len(parts) /\ j <= Len(parts)
    BY <1>1
  <2>2. PICK e \in Nat, l \in Nat : e = Ends(parts)[j - 1] /\ l = Len(parts[j]) /\ e + l <= m
    BY <1>1, <1>2, <2>1
  <2>3. PICK q \in Nat : q = PartAt(parts, p, j - 1) /\ q = (p + 1) + e
    BY <1>6, <2>2 DEF PartAt
  <2>4. q \in 1 .. Len(b) + 1
    BY <1>4, <1>6, <1>9, <2>3
  <2>5. ASSUME NEW i \in 1 .. l, q + i <= Len(b) + 1 PROVE b[(q - 1) + i] = parts[j][i]
    <3>1. PICK x \in Nat : x = (1 + e) + i
      BY <2>2
    <3>2. x \in 1 .. m + 2 /\ p + x <= Len(b) + 1 /\ (p - 1) + x = (q - 1) + i
      <4>1. p = a + 1 /\ q = (a + 2) + e /\ i \in Nat /\ i >= 1 /\ i <= l /\ e + l <= m
        BY <1>6, <2>2, <2>3
      <4>2. x \in 1 .. m + 2 /\ p + x = q + i /\ (p - 1) + x = (q - 1) + i
        BY <3>1, <4>1
      <4> QED BY <2>5, <4>2
    <3>3. h[x] = parts[j][i]
      BY <1>3, <2>2, <3>1
    <3> QED BY <1>5, <3>2, <3>3
  <2> QED BY <2>2, <2>3, <2>4, <2>5 DEF At
<1>10. ASSUME PartAt(parts, p, Len(parts)) <= Len(b) PROVE b[PartAt(parts, p, Len(parts))] = "e"
  <2>1. PartAt(parts, p, Len(parts)) = (p + 1) + m
    BY <1>2 DEF PartAt
  <2>2. PICK x \in Nat : x = m + 2
    OBVIOUS
  <2>3. x \in 1 .. m + 2 /\ p + x <= Len(b) + 1 /\ (p - 1) + x = (p + 1) + m
    BY <1>4, <1>6, <1>10, <2>1, <2>2
  <2> QED BY <1>3, <1>5, <2>1, <2>2, <2>3
<1> QED BY <1>4, <1>6, <1>7, <1>8, <1>9, <1>10

\* Nothing else is read than a value, or than items.
ItemIs(result, v, e) == result = {[value |-> v, end |-> e]}
ItemsAre(result, items, e) == result = {[items |-> items, end |-> e]}

\* One item more.
LEMMA OneItem ==
  ASSUME NEW b, NEW Items, NEW kind, NEW q, ~(q > Len(b) \/ b[q] = "e"), NEW v, NEW e,
         ItemIs(ItemAt(b, Items, kind, q), v, e), NEW items, NEW f, ItemsAre(Items[e][kind], items, f)
  PROVE  ItemsAre(ItemsAt(b, Items, kind, q), <<v>> \o items, f)
<1>1. ItemsAt(b, Items, kind, q) =
        UNION {{[items |-> <<item.value>> \o rest.items, end |-> rest.end] : rest \in Items[item.end][kind]} :
                 item \in {[value |-> v, end |-> e]}}
  BY DEF ItemsAt, ItemIs
<1> DEFINE Rests(item) ==
             {[items |-> <<item.value>> \o rest.items, end |-> rest.end] : rest \in Items[item.end][kind]}
           one == [value |-> v, end |-> e]
<1>2. Rests(one) = {[items |-> <<v>> \o items, end |-> f]}
  <2>1. one.value = v /\ one.end = e
    OBVIOUS
  <2> HIDE DEF one
  <2>2. Rests(one) = {[items |-> <<v>> \o rest.items, end |-> rest.end] : rest \in {[items |-> items, end |-> f]}}
    BY <2>1 DEF ItemsAre
  <2> QED BY <2>2
<1>3. UNION {Rests(item) : item \in {one}} = Rests(one)
  <2> HIDE DEF Rests, one
  <2> QED OBVIOUS
<1> QED BY <1>1, <1>2, <1>3 DEF ItemsAre

\* No item, or nothing behind it.
LEMMA NoItem ==
  ASSUME NEW b, NEW Items, NEW kind, NEW q, ~(q > Len(b) \/ b[q] = "e"),
         \A item \in ItemAt(b, Items, kind, q) : Items[item.end][kind] = {}
  PROVE  ItemsAt(b, Items, kind, q) = {}
<1>1. ItemsAt(b, Items, kind, q) =
        UNION {{[items |-> <<item.value>> \o rest.items, end |-> rest.end] : rest \in Items[item.end][kind]} :
                 item \in ItemAt(b, Items, kind, q)}
  BY DEF ItemsAt
<1>2. \A item \in ItemAt(b, Items, kind, q) :
        {[items |-> <<item.value>> \o rest.items, end |-> rest.end] : rest \in Items[item.end][kind]} = {}
  OBVIOUS
<1> QED BY <1>1, <1>2

\* The items are read one after another, and the "e" behind them.
LEMMA ItemsRead ==
  ASSUME NEW V, NEW vals \in Seq(V), NEW parts \in Seq(Seq(Characters)), Len(vals) = Len(parts),
         NEW c \in Characters, NEW b \in Seq(Characters), NEW p, At(b, p, Enclosed(c, parts)), p <= Len(b),
         NEW Items, NEW kind,
         \A q \in 1 .. Len(b) + 1 : Items[q][kind] = ItemsAt(b, Items, kind, q),
         \A j \in 1 .. Len(parts) : parts[j] # <<>> /\ parts[j][1] # "e",
         \A j \in 1 .. Len(parts) : \A q \in Nat :
           At(b, q, parts[j]) => Reads(ItemAt(b, Items, kind, q), b, q, parts[j], vals[j])
  PROVE  Items[p + 1][kind] =
           IF AllAt(b, p, Enclosed(c, parts))
             THEN {[items |-> vals, end |-> p + Len(Enclosed(c, parts))]} ELSE {}
<1> DEFINE n == Len(parts)
           whole == AllAt(b, p, Enclosed(c, parts))
           stop == p + Len(Enclosed(c, parts))
           Pos(k) == PartAt(parts, p, k)
           Right(k) == Pos(k) <= Len(b) + 1 =>
                         Items[Pos(k)][kind] =
                           IF whole THEN {[items |-> Part(vals, k, n), end |-> stop]} ELSE {}
           Bad == {k \in 0 .. n : ~Right(n - k)}
<1>1. /\ n \in Nat /\ Ends(parts)[0] = 0
      /\ \A j \in 1 .. n : parts[j] \in Seq(Characters) /\ Len(parts[j]) \in Nat
      /\ \A j \in 0 .. n : Ends(parts)[j] \in Nat
      /\ \A j \in 1 .. n : Ends(parts)[j] = Ends(parts)[j - 1] + Len(parts[j])
      /\ \A i, j \in 0 .. n : i <= j => Ends(parts)[i] <= Ends(parts)[j]
  BY EndsAre
<1>2. /\ Len(b) \in Nat /\ p \in Nat \ {0}
      /\ \A k \in 0 .. n : Pos(k) \in Nat \ {0}
      /\ \A j \in 1 .. n : Pos(j - 1) <= Len(b) + 1 => At(b, Pos(j - 1), parts[j])
      /\ Pos(n) <= Len(b) => b[Pos(n)] = "e"
  BY EnclosedAt
<1>3. /\ Pos(0) = p + 1
      /\ \A j \in 1 .. n : Pos(j) = Pos(j - 1) + Len(parts[j])
      /\ \A k \in 0 .. n : Pos(k) <= Pos(n)
  <2>1. Pos(0) = p + 1
    BY <1>1, <1>2 DEF PartAt
  <2>2. ASSUME NEW j \in 1 .. n PROVE Pos(j) = Pos(j - 1) + Len(parts[j])
    <3>1. PICK e \in Nat, l \in Nat : e = Ends(parts)[j - 1] /\ l = Len(parts[j]) /\ Ends(parts)[j] = e + l
      <4>1. j - 1 \in 0 .. n
        BY <1>1
      <4> QED BY <1>1, <4>1
    <3>2. (p + 1) + (e + l) = ((p + 1) + e) + l
      BY <1>2, <3>1
    <3> QED BY <3>1, <3>2 DEF PartAt
  <2>3. ASSUME NEW k \in 0 .. n PROVE Pos(k) <= Pos(n)
    <3>1. n \in 0 .. n /\ k <= n
      BY <1>1
    <3>2. PICK e \in Nat, f \in Nat : e = Ends(parts)[k] /\ f = Ends(parts)[n] /\ e <= f
      BY <1>1, <3>1
    <3>3. (p + 1) + e <= (p + 1) + f
      BY <1>2, <3>2
    <3> QED BY <3>2, <3>3 DEF PartAt
  <2> QED BY <2>1, <2>2, <2>3
<1>4. stop = Pos(n) + 1 /\ (whole <=> Pos(n) <= Len(b))
  <2>1. n \in 0 .. n
    BY <1>1
  <2>2. PICK m \in Nat : m = Ends(parts)[n]
    BY <1>1, <2>1
  <2>3. Len(Enclosed(c, parts)) = m + 2 /\ Pos(n) = (p + 1) + m
    BY <2>2, EnclosedIs DEF PartAt
  <2>4. stop = p + (m + 2) /\ p + (m + 2) = ((p + 1) + m) + 1
    BY <1>2, <2>3
  <2>5. whole <=> p + (m + 2) <= Len(b) + 1
    BY <2>3 DEF AllAt
  <2> QED BY <1>2, <2>3, <2>4, <2>5
<1> HIDE DEF whole, stop, Pos
<1>5. ASSUME NEW k \in 0 .. n, k = n PROVE Right(k)
  <2> SUFFICES ASSUME Pos(n) <= Len(b) + 1
               PROVE  Items[Pos(n)][kind] = IF whole THEN {[items |-> Part(vals, n, n), end |-> stop]} ELSE {}
    BY <1>5
  <2>1. n \in 0 .. n
    BY <1>1
  <2>2. PICK q \in Nat \ {0} : q = Pos(n)
    BY <1>2, <2>1
  <2>3. q \in 1 .. Len(b) + 1
    BY <1>2, <2>2
  <2>4. Items[q][kind] = ItemsAt(b, Items, kind, q)
    BY <2>3
  <2>5. ItemsAt(b, Items, kind, q) = Close(b, q)
    <3>1. q > Len(b) \/ b[q] = "e"
      BY <1>2, <2>2
    <3> QED BY <3>1 DEF ItemsAt
  <2>6. CASE q > Len(b)
    <3>1. Close(b, q) = {} /\ ~whole
      BY <1>2, <1>4, <2>2, <2>6 DEF Close
    <3> QED BY <2>2, <2>4, <2>5, <3>1
  <2>7. CASE ~(q > Len(b))
    <3>1. Min({q, Len(b)}) = q
      <4>1. {q, Len(b)} \in SUBSET Nat /\ {q, Len(b)} # {}
        BY <1>2
      <4>2. Min({q, Len(b)}) \in {q, Len(b)} /\ Min({q, Len(b)}) <= q
        BY <4>1, LeastOf
      <4>3. q <= Len(b)
        BY <1>2, <2>7
      <4> QED BY <1>2, <4>2, <4>3
    <3>2. Close(b, q) = {[items |-> <<>>, end |-> q + 1]}
      BY <2>7, <3>1 DEF Close, Closed
    <3>3. Part(vals, n, n) = <<>>
      <4>1. n \in Nat /\ n + 1 \in Int /\ n \in Int /\ n < n + 1
        BY <1>1
      <4> QED BY <4>1, SubSeqEmpty DEF Part
    <3>4. whole /\ stop = q + 1
      BY <1>2, <1>4, <2>2, <2>7
    <3> QED BY <2>2, <2>4, <2>5, <3>2, <3>3, <3>4
  <2> QED BY <2>6, <2>7
<1>6. ASSUME NEW k \in 0 .. n, k # n, Right(k + 1) PROVE Right(k)
  <2> SUFFICES ASSUME Pos(k) <= Len(b) + 1
               PROVE  Items[Pos(k)][kind] = IF whole THEN {[items |-> Part(vals, k, n), end |-> stop]} ELSE {}
    BY DEF Right
  <2>1. k + 1 \in 1 .. n /\ k + 1 \in 0 .. n /\ (k + 1) - 1 = k /\ n \in 0 .. n
    BY <1>1, <1>6
  <2>2. PICK q \in Nat \ {0}, l \in Nat : q = Pos(k) /\ l = Len(parts[k + 1]) /\ Pos(k + 1) = q + l
    <3>1. Pos(k) \in Nat \ {0}
      BY <1>2
    <3>2. Len(parts[k + 1]) \in Nat
      BY <1>1, <2>1
    <3>3. Pos(k + 1) = Pos(k) + Len(parts[k + 1])
      BY <1>3, <2>1
    <3> QED BY <3>1, <3>2, <3>3
  <2>3. q \in 1 .. Len(b) + 1 /\ q <= Pos(n) /\ q + l <= Pos(n) /\ Pos(n) \in Nat
    <3>1. Pos(n) \in Nat
      BY <1>2, <2>1
    <3>2. q <= Pos(n) /\ q + l <= Pos(n)
      BY <1>3, <2>1, <2>2
    <3>3. Len(b) \in Nat
      BY <1>2
    <3> QED BY <2>2, <3>1, <3>2, <3>3
  <2>4. Items[q][kind] = ItemsAt(b, Items, kind, q)
    BY <2>3
  <2>5. At(b, q, parts[k + 1])
    BY <1>2, <2>1, <2>2
  <2>6. Reads(ItemAt(b, Items, kind, q), b, q, parts[k + 1], vals[k + 1])
    BY <2>1, <2>5
  <2>7. l # 0
    <3>1. parts[k + 1] # <<>> /\ parts[k + 1] \in Seq(Characters)
      BY <1>1, <2>1
    <3> QED BY <2>2, <3>1, EmptySeq
  <2>8. CASE q > Len(b)
    <3>1. ItemsAt(b, Items, kind, q) = {}
      BY <2>8 DEF ItemsAt, Close
    <3>2. ~whole
      BY <1>2, <1>4, <2>3, <2>8
    <3> QED BY <2>2, <2>4, <3>1, <3>2
  <2>9. CASE ~(q > Len(b))
    <3>1. ~(q > Len(b) \/ b[q] = "e")
      <4>1. 1 \in 1 .. Len(parts[k + 1]) /\ q + 1 <= Len(b) + 1 /\ (q - 1) + 1 = q
        BY <1>2, <2>2, <2>7, <2>9
      <4>2. b[(q - 1) + 1] = parts[k + 1][1]
        BY <2>5, <4>1 DEF At
      <4> QED BY <2>1, <2>9, <4>1, <4>2
    <3>2. CASE ~AllAt(b, q, parts[k + 1])
      <4>1. ItemAt(b, Items, kind, q) = {}
        BY <2>6, <3>2 DEF Reads
      <4>2. ItemsAt(b, Items, kind, q) = {}
        BY <3>1, <4>1, NoItem
      <4>3. ~whole
        <5>1. ~(q + l <= Len(b) + 1)
          BY <2>2, <3>2 DEF AllAt
        <5>2. q + l <= Pos(n) /\ Pos(n) \in Nat /\ Len(b) \in Nat
          BY <1>2, <2>3
        <5>3. ~(Pos(n) <= Len(b))
          BY <5>1, <5>2
        <5> QED BY <1>4, <5>3
      <4> QED BY <2>2, <2>4, <4>2, <4>3
    <3>3. CASE AllAt(b, q, parts[k + 1])
      <4>1. ItemAt(b, Items, kind, q) = {[value |-> vals[k + 1], end |-> q + l]}
        BY <2>2, <2>6, <3>3 DEF Reads
      <4>2. q + l <= Len(b) + 1
        BY <2>2, <3>3 DEF AllAt
      <4>3. Items[q + l][kind] = IF whole THEN {[items |-> Part(vals, k + 1, n), end |-> stop]} ELSE {}
        BY <1>6, <2>2, <4>2 DEF Right
      <4>4. CASE whole
        <5>1. Items[q + l][kind] = {[items |-> Part(vals, k + 1, n), end |-> stop]}
          BY <4>3, <4>4
        <5>2. ItemsAt(b, Items, kind, q) = {[items |-> <<vals[k + 1]>> \o Part(vals, k + 1, n), end |-> stop]}
          <6>1. PICK v, e, items : v = vals[k + 1] /\ e = q + l /\ items = Part(vals, k + 1, n)
            OBVIOUS
          <6>2. ItemIs(ItemAt(b, Items, kind, q), v, e)
            BY <4>1, <6>1 DEF ItemIs
          <6>3. ItemsAre(Items[e][kind], items, stop)
            BY <5>1, <6>1 DEF ItemsAre
          <6> HIDE DEF Right
          <6>4. ItemsAre(ItemsAt(b, Items, kind, q), <<v>> \o items, stop)
            BY <3>1, <6>2, <6>3, OneItem
          <6> QED BY <6>1, <6>4 DEF ItemsAre
        <5>3. <<vals[k + 1]>> \o Part(vals, k + 1, n) = Part(vals, k, n)
          <6>1. k + 1 \in 1 .. Len(vals) /\ n \in k + 1 .. Len(vals)
            BY <1>1, <2>1
          <6>2. SubSeq(vals, k + 1, n) = <<vals[k + 1]>> \o SubSeq(vals, (k + 1) + 1, n)
            BY <6>1, SubSeqRecursiveFirst
          <6> QED BY <6>2 DEF Part
        <5> QED BY <2>2, <2>4, <4>4, <5>2, <5>3
      <4>5. CASE ~whole
        <5>1. \A item \in ItemAt(b, Items, kind, q) : Items[item.end][kind] = {}
          BY <4>1, <4>3, <4>5
        <5>2. ItemsAt(b, Items, kind, q) = {}
          BY <3>1, <5>1, NoItem
        <5> QED BY <2>2, <2>4, <4>5, <5>2
      <4> QED BY <4>4, <4>5
    <3> QED BY <3>2, <3>3
  <2> QED BY <2>8, <2>9
<1> HIDE DEF Right
<1>7. Bad = {}
  <2> SUFFICES ASSUME Bad # {} PROVE FALSE
    OBVIOUS
  <2>1. PICK k \in Bad : \A y \in Bad : k <= y
    <3>1. Bad \in SUBSET Nat
      BY <1>1
    <3> HIDE DEF Bad
    <3> QED BY <3>1, LeastNumber
  <2>2. k \in 0 .. n /\ ~Right(n - k)
    OBVIOUS
  <2>3. CASE k = 0
    <3>1. n - k = n /\ n \in 0 .. n
      BY <1>1, <2>3
    <3> QED BY <1>5, <2>2, <3>1
  <2>4. CASE k # 0
    <3>1. /\ k - 1 \in 0 .. n /\ ~(k <= k - 1) /\ n - (k - 1) = (n - k) + 1
          /\ n - k \in 0 .. n /\ n - k # n
      <4>1. n \in Nat
        BY <1>1
      <4>2. k \in 0 .. n /\ k # 0
        BY <2>2, <2>4
      <4> QED BY <4>1, <4>2
    <3>2. Right(n - (k - 1))
      BY <2>1, <3>1
    <3>3. Right((n - k) + 1)
      BY <3>1, <3>2
    <3> QED BY <1>6, <2>2, <3>1, <3>3
  <2> QED BY <2>3, <2>4
<1>8. Right(0)
  <2>1. n \in 0 .. n /\ n - n = 0
    BY <1>1
  <2> QED BY <1>7, <2>1
<1>9. Part(vals, 0, n) = vals
  <2>1. Part(vals, 0, Len(vals)) = vals
    BY PartEnds
  <2> QED BY <2>1
<1>10. Pos(0) <= Len(b) + 1
  BY <1>2, <1>3
<1>11. Items[Pos(0)][kind] = IF whole THEN {[items |-> Part(vals, 0, n), end |-> stop]} ELSE {}
  BY <1>8, <1>10 DEF Right
<1> QED BY <1>3, <1>9, <1>11 DEF whole, stop

\* What the readers of one position need to know of the function: lists and
\* dictionaries read from q on end in the buffer.
Ending(b, Items, q) ==
  \A kind \in {"list", "dictionary"} : \A rest \in Items[q][kind] : rest.end \in q .. Len(b) + 1

\* A string ends behind its first character.
LEMMA StringEnds ==
  ASSUME NEW b, Len(b) \in Nat, NEW p \in 1 .. Len(b) + 1, NEW o \in BenString(b, p)
  PROVE  o.end \in p + 1 .. Len(b) + 1
<1> DEFINE colon == DigitsEnd(b, p)
           length == Value(SubSeq(b, p, colon - 1))
<1>1. colon <= Len(b) /\ length \in 1 .. Len(b) - colon /\ o.end = colon + length + 1
  <2> HIDE DEF colon
  <2> QED BY DEF BenString, colon
<1>2. colon \in p .. Len(b) + 1
  <2> DEFINE S == {q \in p .. Len(b) + 1 : q > Len(b) \/ b[q] \notin Range(Digits)}
  <2>1. S \in SUBSET Nat /\ Len(b) + 1 \in S
    OBVIOUS
  <2>2. colon = Min(S)
    BY DEF DigitsEnd
  <2>3. \A x \in S : x \in p .. Len(b) + 1
    OBVIOUS
  <2> HIDE DEF S, colon
  <2>4. S # {}
    BY <2>1
  <2>5. Min(S) \in S
    BY <2>1, <2>4, LeastOf
  <2> QED BY <2>2, <2>3, <2>5
<1> HIDE DEF colon, length
<1>3. PICK x \in Nat, y \in Nat : x = colon /\ y = length
  BY <1>1, <1>2
<1>4. p <= x /\ x <= Len(b) /\ 1 <= y /\ y <= Len(b) - x
  BY <1>1, <1>2, <1>3
<1>5. x + y + 1 \in p + 1 .. Len(b) + 1
  BY <1>3, <1>4
<1> QED BY <1>1, <1>3, <1>5

\* So does every object.
LEMMA ObjectEnds ==
  ASSUME NEW b, Len(b) \in Nat, NEW Items, NEW p \in 1 .. Len(b) + 1,
         p <= Len(b) => Ending(b, Items, p + 1), NEW o \in ObjectAt(b, Items, p)
  PROVE  o.end \in p + 1 .. Len(b) + 1
<1>1. p <= Len(b)
  BY DEF ObjectAt
<1>2. CASE b[p] = "i"
  <2>1. o \in BenInteger(b, p)
    BY <1>1, <1>2 DEF ObjectAt
  <2>2. PICK e \in p + 1 .. Len(b) : o.end = e + 1
    <3> DEFINE Read(e) ==
          [type |-> "integer", number |-> Value(SubSeq(b, p + 1, Min({DigitsEnd(b, p + 1), e}) - 1)),
           raw |-> Raw(b, p, e + 1)]
    <3>1. PICK e \in p + 1 .. Len(b) : o = [value |-> Read(e), end |-> e + 1]
      BY <2>1 DEF BenInteger
    <3> HIDE DEF Read
    <3>2. o.end = e + 1
      BY <3>1
    <3> QED BY <3>2
  <2> QED BY <2>2
<1>3. CASE b[p] = "l"
  <2>1. PICK l \in Items[p + 1]["list"] : o.end = l.end
    BY <1>1, <1>3 DEF ObjectAt
  <2>2. l.end \in p + 1 .. Len(b) + 1
    BY <1>1, <2>1 DEF Ending
  <2> QED BY <2>1, <2>2
<1>4. CASE b[p] = "d"
  <2>1. PICK d \in Items[p + 1]["dictionary"] : o.end = d.end
    BY <1>1, <1>4 DEF ObjectAt
  <2>2. d.end \in p + 1 .. Len(b) + 1
    BY <1>1, <2>1 DEF Ending
  <2> QED BY <2>1, <2>2
<1>5. CASE b[p] \notin {"i", "l", "d"}
  <2>1. o \in BenString(b, p)
    BY <1>1, <1>5 DEF ObjectAt
  <2> QED BY <2>1, StringEnds
<1> QED BY <1>2, <1>3, <1>4, <1>5

\* And every item.
LEMMA ItemEnds ==
  ASSUME NEW b, Len(b) \in Nat, NEW Items, NEW p \in 1 .. Len(b) + 1,
         \A q \in p + 1 .. Len(b) + 1 : Ending(b, Items, q),
         NEW kind \in {"list", "dictionary"}, NEW item \in ItemAt(b, Items, kind, p)
  PROVE  item.end \in p + 1 .. Len(b) + 1
<1>1. \A q \in p .. Len(b) + 1 : q <= Len(b) => Ending(b, Items, q + 1)
  OBVIOUS
<1>2. CASE kind = "list"
  <2>1. item \in ObjectAt(b, Items, p)
    BY <1>2 DEF ItemAt
  <2>2. p <= Len(b) => Ending(b, Items, p + 1)
    BY <1>1
  <2> QED BY <2>1, <2>2, ObjectEnds
<1>3. CASE kind = "dictionary"
  <2>0. PICK key \in BenString(b, p) : \E o \in ObjectAt(b, Items, key.end) : item.end = o.end
    BY <1>3 DEF ItemAt
  <2>1. PICK o \in ObjectAt(b, Items, key.end) : item.end = o.end
    BY <2>0
  <2>2. key.end \in p + 1 .. Len(b) + 1
    BY <2>1, StringEnds
  <2>3. PICK q \in 1 .. Len(b) + 1 : q = key.end /\ q \in p + 1 .. Len(b) + 1
    BY <2>2
  <2>4. q <= Len(b) => Ending(b, Items, q + 1)
    BY <1>1, <2>3
  <2>5. o \in ObjectAt(b, Items, q)
    BY <2>1, <2>3
  <2>6. o.end \in q + 1 .. Len(b) + 1
    BY <2>4, <2>5, ObjectEnds
  <2> QED BY <2>1, <2>3, <2>6
<1> QED BY <1>2, <1>3

\* And all the items there are.
LEMMA ItemsEnd ==
  ASSUME NEW b, Len(b) \in Nat, NEW Items, NEW p \in 1 .. Len(b) + 1,
         \A q \in p + 1 .. Len(b) + 1 : Ending(b, Items, q),
         NEW kind \in {"list", "dictionary"}, NEW items \in ItemsAt(b, Items, kind, p)
  PROVE  items.end \in p .. Len(b) + 1
<1>1. CASE p > Len(b) \/ b[p] = "e"
  <2>1. items \in Close(b, p)
    BY <1>1 DEF ItemsAt
  <2>2. p <= Len(b) /\ items.end = Min({p, Len(b)}) + 1
    BY <2>1 DEF Close, Closed
  <2>3. Min({p, Len(b)}) \in {p, Len(b)}
    <3>1. {p, Len(b)} \in SUBSET Nat /\ {p, Len(b)} # {}
      OBVIOUS
    <3> QED BY <3>1, LeastOf
  <2> QED BY <2>2, <2>3
<1>2. CASE ~(p > Len(b) \/ b[p] = "e")
  <2>0. PICK item \in ItemAt(b, Items, kind, p) :
          \E rest \in Items[item.end][kind] : items.end = rest.end
    <3> DEFINE Rests(item) ==
          {[items |-> <<item.value>> \o rest.items, end |-> rest.end] : rest \in Items[item.end][kind]}
    <3>1. items \in UNION {Rests(item) : item \in ItemAt(b, Items, kind, p)}
      BY <1>2 DEF ItemsAt
    <3>2. PICK item \in ItemAt(b, Items, kind, p) : items \in Rests(item)
      <4> HIDE DEF Rests
      <4> QED BY <3>1
    <3>3. PICK rest \in Items[item.end][kind] : items = [items |-> <<item.value>> \o rest.items, end |-> rest.end]
      BY <3>2
    <3>4. items.end = rest.end
      BY <3>3
    <3> QED BY <3>2, <3>4
  <2>1. PICK rest \in Items[item.end][kind] : items.end = rest.end
    BY <2>0
  <2>2. PICK q \in p + 1 .. Len(b) + 1 : q = item.end
    BY <2>1, ItemEnds
  <2>3. rest.end \in q .. Len(b) + 1
    BY <2>1, <2>2 DEF Ending
  <2> QED BY <2>1, <2>2, <2>3
<1> QED BY <1>1, <1>2

\* What is read at p depends on what the function has behind p only.
LEMMA ObjectLocal ==
  ASSUME NEW b, Len(b) \in Nat, NEW f, NEW g, NEW p \in 1 .. Len(b) + 1,
         p <= Len(b) => f[p + 1] = g[p + 1]
  PROVE  ObjectAt(b, f, p) = ObjectAt(b, g, p)
<1>1. CASE p > Len(b)
  BY <1>1 DEF ObjectAt
<1>2. CASE ~(p > Len(b))
  <2>1. f[p + 1] = g[p + 1]
    BY <1>2
  <2> QED BY <1>2, <2>1 DEF ObjectAt
<1> QED BY <1>1, <1>2

\* The same of an item.
LEMMA ItemLocal ==
  ASSUME NEW b, Len(b) \in Nat, NEW f, NEW g, NEW p \in 1 .. Len(b) + 1,
         \A q \in p + 1 .. Len(b) + 1 : f[q] = g[q], NEW kind \in {"list", "dictionary"}
  PROVE  ItemAt(b, f, kind, p) = ItemAt(b, g, kind, p)
<1>1. \A q \in p .. Len(b) + 1 : q <= Len(b) => f[q + 1] = g[q + 1]
  OBVIOUS
<1>2. CASE kind = "list"
  <2>1. p <= Len(b) => f[p + 1] = g[p + 1]
    BY <1>1
  <2>2. ObjectAt(b, f, p) = ObjectAt(b, g, p)
    BY <2>1, ObjectLocal
  <2> QED BY <1>2, <2>2 DEF ItemAt
<1>3. CASE kind = "dictionary"
  <2>1. ASSUME NEW key \in BenString(b, p) PROVE ObjectAt(b, f, key.end) = ObjectAt(b, g, key.end)
    <3>1. PICK q \in 1 .. Len(b) + 1 : q = key.end /\ q \in p + 1 .. Len(b) + 1
      <4>1. key.end \in p + 1 .. Len(b) + 1
        BY StringEnds
      <4> QED BY <4>1
    <3>2. q <= Len(b) => f[q + 1] = g[q + 1]
      BY <1>1, <3>1
    <3>3. ObjectAt(b, f, q) = ObjectAt(b, g, q)
      BY <3>2, ObjectLocal
    <3> QED BY <3>1, <3>3
  <2> DEFINE Of(h, key) == {[value |-> <<key.value, o.value>>, end |-> o.end] : o \in ObjectAt(b, h, key.end)}
  <2>2. /\ ItemAt(b, f, kind, p) = UNION {Of(f, key) : key \in BenString(b, p)}
        /\ ItemAt(b, g, kind, p) = UNION {Of(g, key) : key \in BenString(b, p)}
    BY <1>3 DEF ItemAt
  <2>3. \A key \in BenString(b, p) : Of(f, key) = Of(g, key)
    BY <2>1
  <2> HIDE DEF Of
  <2> QED BY <2>2, <2>3
<1> QED BY <1>2, <1>3

\* The same of the items from p on, of which the first ends behind p.
LEMMA ItemsLocal ==
  ASSUME NEW b, Len(b) \in Nat, NEW f, NEW g, NEW p \in 1 .. Len(b) + 1,
         \A q \in p + 1 .. Len(b) + 1 : f[q] = g[q] /\ Ending(b, f, q), NEW kind \in {"list", "dictionary"}
  PROVE  ItemsAt(b, f, kind, p) = ItemsAt(b, g, kind, p)
<1>1. CASE p > Len(b) \/ b[p] = "e"
  BY <1>1 DEF ItemsAt
<1>2. CASE ~(p > Len(b) \/ b[p] = "e")
  <2> DEFINE Of(h, item) ==
               {[items |-> <<item.value>> \o rest.items, end |-> rest.end] : rest \in h[item.end][kind]}
  <2>1. /\ ItemsAt(b, f, kind, p) = UNION {Of(f, item) : item \in ItemAt(b, f, kind, p)}
        /\ ItemsAt(b, g, kind, p) = UNION {Of(g, item) : item \in ItemAt(b, g, kind, p)}
    BY <1>2 DEF ItemsAt
  <2>2. ItemAt(b, f, kind, p) = ItemAt(b, g, kind, p)
    BY ItemLocal
  <2>3. ASSUME NEW item \in ItemAt(b, f, kind, p) PROVE Of(f, item) = Of(g, item)
    <3>1. item.end \in p + 1 .. Len(b) + 1
      BY ItemEnds
    <3>2. f[item.end] = g[item.end]
      BY <3>1
    <3> QED BY <3>2
  <2> HIDE DEF Of
  <2> QED BY <2>1, <2>2, <2>3
<1> QED BY <1>1, <1>2

\* The function of the recursion of BenItems, from position k on.
ReadsFrom(f, b, k) ==
  f = [p \in k .. Len(b) + 1 |-> [kind \in {"list", "dictionary"} |-> ItemsAt(b, f, kind, p)]]

\* Such a function has its values in the buffer.
LEMMA FromEnds ==
  ASSUME NEW b, Len(b) \in Nat, NEW k \in Nat \ {0}, NEW f, ReadsFrom(f, b, k),
         NEW p \in k .. Len(b) + 1
  PROVE  Ending(b, f, p)
<1> DEFINE N == Len(b) + 1
           Bad == {m \in 0 .. N : N - m \in k .. N /\ ~Ending(b, f, N - m)}
<1>1. Bad = {}
  <2> SUFFICES ASSUME Bad # {} PROVE FALSE
    OBVIOUS
  <2>1. PICK m \in Bad : \A y \in Bad : m <= y
    <3>1. Bad \in SUBSET Nat
      OBVIOUS
    <3> HIDE DEF Bad
    <3> QED BY <3>1, LeastNumber
  <2>2. m \in 0 .. N /\ N - m \in k .. N /\ ~Ending(b, f, N - m)
    OBVIOUS
  <2>3. PICK q \in Nat \ {0} : q = N - m /\ q \in 1 .. N /\ q \in k .. N
    BY <2>2
  <2>4. ASSUME NEW r \in q + 1 .. Len(b) + 1 PROVE Ending(b, f, r)
    <3>1. N - r \in 0 .. N /\ ~(m <= N - r) /\ N - (N - r) = r /\ r \in k .. N
      <4>1. r \in Nat /\ q + 1 <= r /\ r <= N /\ k <= q
        BY <2>3
      <4>2. m \in Nat /\ N \in Nat /\ q = N - m
        BY <2>2, <2>3
      <4> HIDE DEF N, Bad
      <4> QED BY <4>1, <4>2
    <3>2. N - r \notin Bad
      BY <2>1, <3>1
    <3> QED BY <3>1, <3>2
  <2>5. f[q] = [kind \in {"list", "dictionary"} |-> ItemsAt(b, f, kind, q)]
    BY <2>3 DEF ReadsFrom
  <2>6. ASSUME NEW kind \in {"list", "dictionary"}, NEW rest \in f[q][kind]
        PROVE  rest.end \in q .. Len(b) + 1
    <3>1. rest \in ItemsAt(b, f, kind, q)
      BY <2>5
    <3>2. q \in 1 .. Len(b) + 1
      BY <2>3
    <3> HIDE DEF Bad
    <3> QED BY <2>4, <3>1, <3>2, ItemsEnd
  <2> QED BY <2>2, <2>3, <2>6 DEF Ending
<1>2. N - p \in 0 .. N /\ N - (N - p) = p
  OBVIOUS
<1> QED BY <1>1, <1>2

\* There is such a function from every position on.
LEMMA ItemsExist ==
  ASSUME NEW b, Len(b) \in Nat
  PROVE  \E f : ReadsFrom(f, b, 1)
<1> DEFINE N == Len(b) + 1
           Bad == {m \in 0 .. N : ~ \E f : ReadsFrom(f, b, (N - m) + 1)}
<1>1. Bad = {}
  <2> SUFFICES ASSUME Bad # {} PROVE FALSE
    OBVIOUS
  <2>1. PICK m \in Bad : \A y \in Bad : m <= y
    <3>1. Bad \in SUBSET Nat
      OBVIOUS
    <3> HIDE DEF Bad
    <3> QED BY <3>1, LeastNumber
  <2>2. m \in 0 .. N /\ ~ \E f : ReadsFrom(f, b, (N - m) + 1)
    OBVIOUS
  <2>3. CASE m = 0
    <3> DEFINE f == [p \in N + 1 .. N |-> 0]
    <3>1. N + 1 .. N = {}
      OBVIOUS
    <3>2. f = [p \in N + 1 .. N |-> [kind \in {"list", "dictionary"} |-> ItemsAt(b, f, kind, p)]]
      BY <3>1
    <3>3. ReadsFrom(f, b, (N - m) + 1)
      BY <2>3, <3>2 DEF ReadsFrom
    <3> QED BY <2>2, <3>3
  <2>4. CASE m # 0
    <3>1. PICK k \in Nat \ {0} : k = (N - m) + 1 /\ k <= N
      BY <2>2, <2>4
    <3>2. (N - (m - 1)) + 1 = k + 1 /\ m - 1 \in 0 .. N /\ ~(m <= m - 1)
      BY <2>2, <2>4, <3>1
    <3>3. PICK f : ReadsFrom(f, b, k + 1)
      <4>1. m - 1 \notin Bad
        BY <2>1, <3>2
      <4> QED BY <3>2, <4>1
    <3>4. \A q \in k + 1 .. N : Ending(b, f, q)
      <4>1. k + 1 \in Nat \ {0}
        BY <3>1
      <4> QED BY <3>3, <4>1, FromEnds
    <3>5. \A p \in k + 1 .. N : f[p] = [kind \in {"list", "dictionary"} |-> ItemsAt(b, f, kind, p)]
      BY <3>3 DEF ReadsFrom
    <3> DEFINE first == [kind \in {"list", "dictionary"} |-> ItemsAt(b, f, kind, k)]
               g == [p \in k .. N |-> IF p = k THEN first ELSE f[p]]
    <3> HIDE DEF first
    <3>6. g[k] = first /\ \A p \in k + 1 .. N : g[p] = f[p]
      <4>1. k \in k .. N /\ \A p \in k + 1 .. N : p \in k .. N /\ p # k
        BY <3>1
      <4> QED BY <4>1
    <3>7. g = [p \in k .. N |-> g[p]]
      OBVIOUS
    <3> HIDE DEF g, Bad
    <3>8. ASSUME NEW p \in k .. N, NEW kind \in {"list", "dictionary"}
          PROVE  ItemsAt(b, f, kind, p) = ItemsAt(b, g, kind, p)
      <4>1. p \in 1 .. Len(b) + 1 /\ \A q \in p + 1 .. Len(b) + 1 : q \in k + 1 .. N
        BY <3>1
      <4>2. \A q \in p + 1 .. Len(b) + 1 : f[q] = g[q] /\ Ending(b, f, q)
        BY <3>4, <3>6, <4>1
      <4>3. p \in 1 .. Len(b) + 1
        BY <4>1
      <4> QED BY <4>2, <4>3, ItemsLocal
    <3>9. ASSUME NEW p \in k .. N
          PROVE  g[p] = [kind \in {"list", "dictionary"} |-> ItemsAt(b, g, kind, p)]
      <4>1. g[p] = [kind \in {"list", "dictionary"} |-> ItemsAt(b, f, kind, p)]
        <5>1. CASE p = k
          BY <3>6, <5>1 DEF first
        <5>2. CASE p # k
          <6>1. p \in k + 1 .. N
            BY <3>1, <5>2
          <6> QED BY <3>5, <3>6, <6>1
        <5> QED BY <5>1, <5>2
      <4>2. \A kind \in {"list", "dictionary"} : ItemsAt(b, f, kind, p) = ItemsAt(b, g, kind, p)
        BY <3>8
      <4> QED BY <4>1, <4>2
    <3>10. ReadsFrom(g, b, k)
      BY <3>7, <3>9 DEF ReadsFrom
    <3> QED BY <2>2, <3>1, <3>10
  <2> QED BY <2>3, <2>4
<1>2. N \in 0 .. N /\ (N - N) + 1 = 1
  OBVIOUS
<1> QED BY <1>1, <1>2

\* What BenItems computes.
LEMMA BenItemsAre ==
  ASSUME NEW b, Len(b) \in Nat, NEW kind \in {"list", "dictionary"}, NEW p \in 1 .. Len(b) + 1
  PROVE  BenItems(b)[p][kind] = ItemsAt(b, BenItems(b), kind, p)
<1> DEFINE f == CHOOSE f :
             f = [q \in 1 .. Len(b) + 1 |-> [k \in {"list", "dictionary"} |-> ItemsAt(b, f, k, q)]]
<1>1. BenItems(b) = f
  BY DEF BenItems
<1>2. f = [q \in 1 .. Len(b) + 1 |-> [k \in {"list", "dictionary"} |-> ItemsAt(b, f, k, q)]]
  <2>1. \E h : h = [q \in 1 .. Len(b) + 1 |-> [k \in {"list", "dictionary"} |-> ItemsAt(b, h, k, q)]]
    BY ItemsExist DEF ReadsFrom
  <2> QED BY <2>1
<1> HIDE DEF f
<1>3. f[p] = [k \in {"list", "dictionary"} |-> ItemsAt(b, f, k, p)]
  BY <1>2
<1>4. f[p][kind] = ItemsAt(b, f, kind, p)
  BY <1>3
<1> QED BY <1>1, <1>4

-----------------------------------------------------------------------------
\* The four kinds of objects.
IsString(o) ==
  \E length, s \in Seq(Characters) :
    s # <<>> /\ IsNumeral(length) /\ Value(length) = Len(s) /\ o = Str(length, s)
IsInteger(o) == \E d \in Seq(Characters) : IsNumeral(d) /\ o = Num(d)
IsList(o) == \E items \in Seq(Objects) : o = BList(items)
IsDictionary(o) == \E pairs \in Seq(StringObjects \X Objects) : o = Dict(pairs)

\* Every object is of one of the kinds, and a string of the first.
LEMMA ObjectIs ==
  ASSUME NEW o \in Objects
  PROVE  /\ o.raw \in Seq(Characters)
         /\ IsString(o) \/ IsInteger(o) \/ IsList(o) \/ IsDictionary(o)
         /\ o.type = "string" => IsString(o)
<1>1. IsObject(o)
  BY MetainfoAssumption
<1>2. PICK raw \in Seq(Characters) : raw = o.raw
  BY <1>1 DEF IsObject
<1>3. CASE o.type = "string"
  <2>1. PICK n \in 1 .. Len(raw) :
          /\ IsNumeral(SubSeq(raw, 1, n)) /\ Value(SubSeq(raw, 1, n)) = Len(o.string)
          /\ o = Str(SubSeq(raw, 1, n), o.string)
    BY <1>1, <1>2, <1>3 DEF IsObject
  <2>2. o.string \in Seq(Characters) /\ o.string # <<>>
    BY <1>1, <1>3 DEF IsObject
  <2>3. SubSeq(raw, 1, n) \in Seq(Characters)
    <3>1. n \in Nat /\ 0 \in Nat /\ 0 <= n /\ n <= Len(raw) /\ 0 + 1 = 1
      BY LenProperties
    <3>2. Part(raw, 0, n) \in Seq(Characters)
      BY <3>1, PartIs
    <3> QED BY <3>1, <3>2 DEF Part
  <2>4. IsString(o)
    BY <2>1, <2>2, <2>3 DEF IsString
  <2> QED BY <1>2, <2>4
<1>4. CASE o.type = "integer"
  <2> DEFINE d == SubSeq(raw, 2, Len(raw) - 1)
  <2>1. IsNumeral(d) /\ o = Num(d)
    BY <1>1, <1>2, <1>4 DEF IsObject
  <2>2. d \in Seq(Characters)
    <3>1. 2 \in Int /\ Len(raw) \in Nat /\ Len(raw) - 1 \in Int
      BY LenProperties
    <3>2. ASSUME NEW i \in 2 .. Len(raw) - 1 PROVE raw[i] \in Characters
      <4>1. i \in 1 .. Len(raw)
        BY <3>1
      <4> QED BY <4>1, ElementOfSeq
    <3> QED BY <3>1, <3>2, SubSeqProperties
  <2>3. IsInteger(o)
    BY <2>1, <2>2 DEF IsInteger
  <2> QED BY <1>2, <1>4, <2>3
<1>5. CASE o.type = "list"
  BY <1>1, <1>2, <1>5 DEF IsObject, IsList
<1>6. CASE o.type = "dictionary"
  BY <1>1, <1>2, <1>6 DEF IsObject, IsDictionary
<1> QED BY <1>1, <1>3, <1>4, <1>5, <1>6 DEF IsObject

\* What the items of a list and the pairs of a dictionary are written as.
ItemRaws(items) == [i \in DOMAIN items |-> items[i].raw]
PairRaws(pairs) == [i \in DOMAIN pairs |-> pairs[i][1].raw \o pairs[i][2].raw]

\* Each item is written as a part.
LEMMA ItemRawsAre ==
  ASSUME NEW items \in Seq(Objects)
  PROVE  /\ ItemRaws(items) \in Seq(Seq(Characters)) /\ Len(ItemRaws(items)) = Len(items)
         /\ \A j \in 1 .. Len(items) : items[j] \in Objects /\ ItemRaws(items)[j] = items[j].raw
         /\ BList(items) = [type |-> "list", items |-> items, raw |-> Enclosed("l", ItemRaws(items))]
<1>1. PICK n \in Nat : n = Len(items) /\ DOMAIN items = 1 .. n
  BY LenProperties
<1>2. \A j \in 1 .. n : items[j] \in Objects
  BY <1>1, ElementOfSeq
<1>3. \A j \in 1 .. n : items[j].raw \in Seq(Characters)
  BY <1>2, ObjectIs
<1>4. ItemRaws(items) = [j \in 1 .. n |-> items[j].raw]
  BY <1>1 DEF ItemRaws
<1>5. /\ ItemRaws(items) \in Seq(Seq(Characters)) /\ Len(ItemRaws(items)) = n
      /\ \A j \in 1 .. n : ItemRaws(items)[j] = items[j].raw
  BY <1>3, <1>4
<1>6. BList(items) = [type |-> "list", items |-> items, raw |-> Enclosed("l", ItemRaws(items))]
  BY DEF BList, Enclosed, ItemRaws
<1> QED BY <1>1, <1>2, <1>5, <1>6

\* The same for the pairs of a dictionary.
LEMMA PairRawsAre ==
  ASSUME NEW pairs \in Seq(StringObjects \X Objects)
  PROVE  /\ PairRaws(pairs) \in Seq(Seq(Characters)) /\ Len(PairRaws(pairs)) = Len(pairs)
         /\ \A j \in 1 .. Len(pairs) :
              /\ pairs[j][1] \in StringObjects /\ pairs[j][2] \in Objects
              /\ pairs[j] = <<pairs[j][1], pairs[j][2]>>
              /\ PairRaws(pairs)[j] = pairs[j][1].raw \o pairs[j][2].raw
         /\ Dict(pairs) = [type |-> "dictionary", pairs |-> pairs, raw |-> Enclosed("d", PairRaws(pairs))]
<1>1. PICK n \in Nat : n = Len(pairs) /\ DOMAIN pairs = 1 .. n
  BY LenProperties
<1>2. \A j \in 1 .. n : pairs[j] \in StringObjects \X Objects
  BY <1>1, ElementOfSeq
<1>3. \A j \in 1 .. n : /\ pairs[j][1] \in StringObjects /\ pairs[j][2] \in Objects
                        /\ pairs[j] = <<pairs[j][1], pairs[j][2]>>
  BY <1>2
<1>4. \A j \in 1 .. n : pairs[j][1].raw \in Seq(Characters) /\ pairs[j][2].raw \in Seq(Characters)
  <2>1. StringObjects \subseteq Objects
    BY DEF StringObjects
  <2> QED BY <1>3, <2>1, ObjectIs
<1>5. \A j \in 1 .. n : pairs[j][1].raw \o pairs[j][2].raw \in Seq(Characters)
  BY <1>4, ConcatProperties
<1>6. PairRaws(pairs) = [j \in 1 .. n |-> pairs[j][1].raw \o pairs[j][2].raw]
  BY <1>1 DEF PairRaws
<1>7. /\ PairRaws(pairs) \in Seq(Seq(Characters)) /\ Len(PairRaws(pairs)) = n
      /\ \A j \in 1 .. n : PairRaws(pairs)[j] = pairs[j][1].raw \o pairs[j][2].raw
  <2> DEFINE Both(j) == pairs[j][1].raw \o pairs[j][2].raw
  <2>1. \A j \in 1 .. n : Both(j) \in Seq(Characters)
    BY <1>5
  <2>2. PairRaws(pairs) = [j \in 1 .. n |-> Both(j)]
    BY <1>6
  <2> HIDE DEF Both
  <2>3. /\ PairRaws(pairs) \in Seq(Seq(Characters)) /\ Len(PairRaws(pairs)) = n
        /\ \A j \in 1 .. n : PairRaws(pairs)[j] = Both(j)
    BY <2>1, <2>2
  <2> QED BY <2>3 DEF Both
<1>8. Dict(pairs) = [type |-> "dictionary", pairs |-> pairs, raw |-> Enclosed("d", PairRaws(pairs))]
  BY DEF Dict, Enclosed, PairRaws
<1> QED BY <1>1, <1>3, <1>7, <1>8

\* A part is shorter than what it is a part of.
LEMMA PartShorter ==
  ASSUME NEW c \in Characters, NEW parts \in Seq(Seq(Characters)), NEW j \in 1 .. Len(parts)
  PROVE  Len(parts[j]) \in Nat /\ Len(Enclosed(c, parts)) \in Nat /\ Len(parts[j]) < Len(Enclosed(c, parts))
<1>1. /\ Len(parts) \in Nat
      /\ \A k \in 1 .. Len(parts) : parts[k] \in Seq(Characters) /\ Len(parts[k]) \in Nat
      /\ \A k \in 0 .. Len(parts) : Ends(parts)[k] \in Nat
      /\ \A k \in 1 .. Len(parts) : Ends(parts)[k] = Ends(parts)[k - 1] + Len(parts[k])
      /\ \A i, k \in 0 .. Len(parts) : i <= k => Ends(parts)[i] <= Ends(parts)[k]
  BY EndsAre
<1>2. j - 1 \in 0 .. Len(parts) /\ j \in 0 .. Len(parts) /\ Len(parts) \in 0 .. Len(parts) /\ j <= Len(parts)
  BY <1>1
<1>3. PICK e \in Nat, l \in Nat, m \in Nat :
        l = Len(parts[j]) /\ e = Ends(parts)[j - 1] /\ m = Ends(parts)[Len(parts)] /\ e + l <= m
  BY <1>1, <1>2
<1>4. Len(Enclosed(c, parts)) = m + 2
  <2>1. Len(Enclosed(c, parts)) = Ends(parts)[Len(parts)] + 2
    BY EnclosedIs
  <2> QED BY <1>3, <2>1
<1>5. l < m + 2 /\ m + 2 \in Nat
  <2>1. e + l <= m
    BY <1>3
  <2> QED BY <2>1
<1> QED BY <1>3, <1>4, <1>5

\* The first character of an object tells its kind, and is not the "e" of a list's end.
LEMMA FirstOfObject ==
  ASSUME NEW o \in Objects
  PROVE  /\ Len(o.raw) \in Nat \ {0} /\ o.raw[1] # "e"
         /\ IsString(o) => o.raw[1] \notin {"i", "l", "d"}
         /\ IsInteger(o) => o.raw[1] = "i"
         /\ IsList(o) => o.raw[1] = "l"
         /\ IsDictionary(o) => o.raw[1] = "d"
<1>1. PICK raw \in Seq(Characters) : raw = o.raw
  BY ObjectIs
<1>2. Len(raw) \in Nat
  BY LenProperties
<1>3. ASSUME IsString(o) PROVE Len(raw) # 0 /\ raw[1] \in Range(Digits)
  <2>1. PICK length \in Seq(Characters), s \in Seq(Characters) : IsNumeral(length) /\ o = Str(length, s)
    BY <1>3 DEF IsString
  <2>2. PICK colon \in Seq(Characters) : colon = <<":">>
    <3>1. ":" \in Characters
      BY NoDigits
    <3> QED BY <3>1, OneElement
  <2>3. PICK ls \in Seq(Characters) : /\ ls = length \o colon /\ Len(ls) = Len(length) + Len(colon)
                                      /\ \A i \in 1 .. Len(length) + Len(colon) :
                                           ls[i] = IF i <= Len(length) THEN length[i] ELSE colon[i - Len(length)]
    <3>1. /\ length \o colon \in Seq(Characters) /\ Len(length \o colon) = Len(length) + Len(colon)
          /\ \A i \in 1 .. Len(length) + Len(colon) :
               (length \o colon)[i] = IF i <= Len(length) THEN length[i] ELSE colon[i - Len(length)]
      BY ConcatProperties
    <3> QED BY <3>1
  <2>4. /\ Len(ls \o s) = Len(ls) + Len(s)
        /\ \A i \in 1 .. Len(ls) + Len(s) : (ls \o s)[i] = IF i <= Len(ls) THEN ls[i] ELSE s[i - Len(ls)]
    BY ConcatProperties
  <2>5. raw = ls \o s
    BY <1>1, <2>1, <2>2, <2>3 DEF Str
  <2>6. Len(length) \in Nat \ {0} /\ DOMAIN length = 1 .. Len(length) /\ Len(s) \in Nat /\ Len(colon) \in Nat
    BY <2>1, LenProperties, EmptySeq DEF IsNumeral
  <2>7. /\ 1 \in 1 .. Len(length) + Len(colon) /\ 1 \in 1 .. Len(ls) + Len(s) /\ 1 <= Len(ls)
        /\ 1 <= Len(length) /\ 1 \in DOMAIN length /\ Len(ls) + Len(s) # 0
    BY <2>3, <2>6
  <2>8. raw[1] = length[1]
    <3>1. ls[1] = length[1]
      BY <2>3, <2>7
    <3> QED BY <2>4, <2>5, <2>7, <3>1
  <2>9. length[1] \in Range(Digits)
    <3>1. length[1] \in Range(length)
      BY <2>7 DEF Range
    <3> QED BY <2>1, <3>1 DEF IsNumeral
  <2>10. Len(raw) # 0
    BY <2>4, <2>5, <2>7
  <2> QED BY <2>8, <2>9, <2>10
<1>4. ASSUME IsInteger(o) PROVE Len(raw) # 0 /\ raw[1] = "i"
  <2>1. PICK d \in Seq(Characters) : o = Num(d)
    BY <1>4 DEF IsInteger
  <2>2. PICK ci \in Seq(Characters), ce \in Seq(Characters) :
          ci = <<"i">> /\ ce = <<"e">> /\ Len(ci) = 1 /\ Len(ce) = 1 /\ ci[1] = "i"
    <3>1. "i" \in Characters /\ "e" \in Characters
      BY NoDigits
    <3>2. <<"i">> \in Seq(Characters) /\ Len(<<"i">>) = 1 /\ <<"i">>[1] = "i"
      BY <3>1, OneElement
    <3>3. <<"e">> \in Seq(Characters) /\ Len(<<"e">>) = 1
      BY <3>1, OneElement
    <3> QED BY <3>2, <3>3
  <2>3. PICK n \in Nat : n = Len(d)
    BY LenProperties
  <2>4. /\ ci \o d \in Seq(Characters) /\ Len(ci \o d) = 1 + n /\ (ci \o d)[1] = "i"
    <3>1. /\ ci \o d \in Seq(Characters) /\ Len(ci \o d) = Len(ci) + Len(d)
          /\ \A i \in 1 .. Len(ci) + Len(d) : (ci \o d)[i] = IF i <= Len(ci) THEN ci[i] ELSE d[i - Len(ci)]
      BY ConcatProperties
    <3>2. 1 \in 1 .. Len(ci) + Len(d) /\ 1 <= Len(ci)
      BY <2>2, <2>3
    <3> QED BY <2>2, <2>3, <3>1, <3>2
  <2>5. PICK id \in Seq(Characters) : id = ci \o d /\ Len(id) = 1 + n /\ id[1] = "i"
    BY <2>4
  <2>6. /\ Len(id \o ce) = Len(id) + Len(ce)
        /\ \A i \in 1 .. Len(id) + Len(ce) : (id \o ce)[i] = IF i <= Len(id) THEN id[i] ELSE ce[i - Len(id)]
    BY ConcatProperties
  <2>7. 1 \in 1 .. Len(id) + Len(ce) /\ 1 <= Len(id) /\ Len(id) + Len(ce) # 0
    BY <2>2, <2>5
  <2>8. raw = id \o ce
    BY <1>1, <2>1, <2>2, <2>5 DEF Num
  <2> QED BY <2>5, <2>6, <2>7, <2>8
<1>5. ASSUME NEW c \in Characters, NEW parts \in Seq(Seq(Characters)), raw = Enclosed(c, parts)
      PROVE  Len(raw) # 0 /\ raw[1] = c
  <2>1. PICK m \in Nat : m = Ends(parts)[Len(parts)]
    <3>1. Len(parts) \in 0 .. Len(parts) /\ \A k \in 0 .. Len(parts) : Ends(parts)[k] \in Nat
      BY EndsAre
    <3> QED BY <3>1
  <2>2. Len(raw) = m + 2 /\ raw[1] = c
    BY <1>5, <2>1, EnclosedIs
  <2> QED BY <2>2
<1>6. ASSUME IsList(o) PROVE Len(raw) # 0 /\ raw[1] = "l"
  <2>1. PICK items \in Seq(Objects) : o = BList(items)
    BY <1>6 DEF IsList
  <2>2. PICK parts \in Seq(Seq(Characters)) : o.raw = Enclosed("l", parts)
    <3>1. ItemRaws(items) \in Seq(Seq(Characters)) /\ BList(items).raw = Enclosed("l", ItemRaws(items))
      BY ItemRawsAre
    <3> QED BY <2>1, <3>1
  <2>3. PICK c \in Characters : c = "l"
    BY NoDigits
  <2>4. raw = Enclosed(c, parts)
    BY <1>1, <2>2, <2>3
  <2> QED BY <1>5, <2>3, <2>4
<1>7. ASSUME IsDictionary(o) PROVE Len(raw) # 0 /\ raw[1] = "d"
  <2>1. PICK pairs \in Seq(StringObjects \X Objects) : o = Dict(pairs)
    BY <1>7 DEF IsDictionary
  <2>2. PICK parts \in Seq(Seq(Characters)) : o.raw = Enclosed("d", parts)
    <3>1. PairRaws(pairs) \in Seq(Seq(Characters))
      BY PairRawsAre
    <3>2. Dict(pairs) = [type |-> "dictionary", pairs |-> pairs, raw |-> Enclosed("d", PairRaws(pairs))]
      BY PairRawsAre
    <3>3. Dict(pairs).raw = Enclosed("d", PairRaws(pairs))
      BY <3>2
    <3> QED BY <2>1, <3>1, <3>3
  <2>3. PICK c \in Characters : c = "d"
    BY NoDigits
  <2>4. raw = Enclosed(c, parts)
    BY <1>1, <2>2, <2>3
  <2> QED BY <1>5, <2>3, <2>4
<1>8. IsString(o) \/ IsInteger(o) \/ IsList(o) \/ IsDictionary(o)
  BY ObjectIs
<1>9. ASSUME IsString(o) PROVE raw[1] \notin {"i", "l", "d", "e"}
  BY <1>3, <1>9, NoDigits
<1> QED BY <1>1, <1>2, <1>3, <1>4, <1>6, <1>7, <1>8, <1>9

\* The reader reads o wherever it stands.
ReadAt(b, o) ==
  \A q \in Nat : At(b, q, o.raw) => Reads(ObjectAt(b, BenItems(b), q), b, q, o.raw, o)

\* One pair more.
LEMMA OnePair ==
  ASSUME NEW b, NEW Items, NEW q, NEW k, NEW e, ItemIs(BenString(b, q), k, e), NEW v, NEW f,
         ItemIs(ObjectAt(b, Items, e), v, f)
  PROVE  ItemIs(ItemAt(b, Items, "dictionary", q), <<k, v>>, f)
<1> DEFINE key == [value |-> k, end |-> e]
           object == [value |-> v, end |-> f]
<1>1. key.value = k /\ key.end = e /\ object.value = v /\ object.end = f
  OBVIOUS
<1>2. BenString(b, q) = {key} /\ ObjectAt(b, Items, e) = {object}
  BY DEF ItemIs
<1> HIDE DEF key, object
<1>3. ItemAt(b, Items, "dictionary", q) =
        UNION {{[value |-> <<c.value, o.value>>, end |-> o.end] : o \in ObjectAt(b, Items, c.end)} : c \in {key}}
  BY <1>2 DEF ItemAt
<1>4. ItemAt(b, Items, "dictionary", q) =
        {[value |-> <<key.value, o.value>>, end |-> o.end] : o \in ObjectAt(b, Items, key.end)}
  BY <1>3
<1>5. ItemAt(b, Items, "dictionary", q) =
        {[value |-> <<key.value, o.value>>, end |-> o.end] : o \in {object}}
  BY <1>1, <1>2, <1>4
<1>6. ItemAt(b, Items, "dictionary", q) = {[value |-> <<key.value, object.value>>, end |-> object.end]}
  BY <1>5
<1> QED BY <1>1, <1>6 DEF ItemIs

\* No pair, for its key or its value is cut off.
LEMMA NoPair ==
  ASSUME NEW b, NEW Items, NEW q, \A key \in BenString(b, q) : ObjectAt(b, Items, key.end) = {}
  PROVE  ItemAt(b, Items, "dictionary", q) = {}
<1>1. ItemAt(b, Items, "dictionary", q) =
        UNION {{[value |-> <<key.value, o.value>>, end |-> o.end] : o \in ObjectAt(b, Items, key.end)} :
                 key \in BenString(b, q)}
  BY DEF ItemAt
<1>2. \A key \in BenString(b, q) :
        {[value |-> <<key.value, o.value>>, end |-> o.end] : o \in ObjectAt(b, Items, key.end)} = {}
  OBVIOUS
<1> QED BY <1>1, <1>2

\* A pair is read if its value is.
LEMMA PairRead ==
  ASSUME NEW b \in Seq(Characters), NEW Items, NEW key \in StringObjects, NEW o \in Objects,
         NEW q, At(b, q, key.raw \o o.raw),
         \A r \in Nat : At(b, r, o.raw) => Reads(ObjectAt(b, Items, r), b, r, o.raw, o)
  PROVE  Reads(ItemAt(b, Items, "dictionary", q), b, q, key.raw \o o.raw, <<key, o>>)
<1>1. PICK k \in Seq(Characters), r \in Seq(Characters) : k = key.raw /\ r = o.raw
  <2>1. key \in Objects
    BY DEF StringObjects
  <2>2. key.raw \in Seq(Characters) /\ o.raw \in Seq(Characters)
    BY <2>1, ObjectIs
  <2> QED BY <2>2
<1>2. At(b, q, k \o r)
  BY <1>1
<1>3. /\ At(b, q, k)
      /\ AllAt(b, q, k) => At(b, q + Len(k), r)
      /\ AllAt(b, q, k \o r) <=> AllAt(b, q, k) /\ AllAt(b, q + Len(k), r)
      /\ Len(k \o r) = Len(k) + Len(r)
  BY <1>2, AtParts
<1>4. Len(k) \in Nat /\ Len(r) \in Nat /\ Len(b) \in Nat /\ q \in Nat
  BY <1>2, LenProperties DEF At
<1>5. Reads(BenString(b, q), b, q, k, key)
  <2>1. key \in Objects /\ key.type = "string"
    BY DEF StringObjects
  <2>2. IsString(key)
    BY <2>1, ObjectIs
  <2>3. PICK length \in Seq(Characters), s \in Seq(Characters) :
          s # <<>> /\ IsNumeral(length) /\ Value(length) = Len(s) /\ key = Str(length, s)
    BY <2>2 DEF IsString
  <2>4. At(b, q, Str(length, s).raw)
    BY <1>1, <1>3, <2>3
  <2>5. Reads(BenString(b, q), b, q, Str(length, s).raw, Str(length, s))
    BY <2>3, <2>4, StringRead
  <2> QED BY <1>1, <2>3, <2>5
<1>6. CASE ~AllAt(b, q, k)
  <2>1. BenString(b, q) = {}
    BY <1>5, <1>6 DEF Reads
  <2>2. ItemAt(b, Items, "dictionary", q) = {}
    BY <2>1, NoPair
  <2>3. ~AllAt(b, q, k \o r)
    BY <1>3, <1>6
  <2> QED BY <1>1, <2>2, <2>3 DEF Reads
<1>7. CASE AllAt(b, q, k)
  <2>1. PICK e \in Nat : e = q + Len(k)
    BY <1>4
  <2>2. ItemIs(BenString(b, q), key, e)
    BY <1>5, <1>7, <2>1 DEF Reads, ItemIs
  <2>3. At(b, e, r)
    BY <1>3, <1>7, <2>1
  <2>4. Reads(ObjectAt(b, Items, e), b, e, r, o)
    BY <1>1, <2>3
  <2>5. CASE AllAt(b, e, r)
    <3>1. PICK f \in Nat : f = e + Len(r)
      BY <1>4, <2>1
    <3>2. ItemIs(ObjectAt(b, Items, e), o, f)
      BY <2>4, <2>5, <3>1 DEF Reads, ItemIs
    <3>3. ItemIs(ItemAt(b, Items, "dictionary", q), <<key, o>>, f)
      BY <2>2, <3>2, OnePair
    <3>4. AllAt(b, q, k \o r) /\ f = q + Len(k \o r)
      BY <1>3, <1>4, <1>7, <2>1, <2>5, <3>1
    <3> QED BY <1>1, <3>3, <3>4 DEF Reads, ItemIs
  <2>6. CASE ~AllAt(b, e, r)
    <3>1. ObjectAt(b, Items, e) = {}
      BY <2>4, <2>6 DEF Reads
    <3>2. \A c \in BenString(b, q) : c.end = e
      BY <2>2 DEF ItemIs
    <3>3. ItemAt(b, Items, "dictionary", q) = {}
      BY <3>1, <3>2, NoPair
    <3>4. ~AllAt(b, q, k \o r)
      BY <1>3, <2>1, <2>6
    <3> QED BY <1>1, <3>3, <3>4 DEF Reads
  <2> QED BY <2>5, <2>6
<1> QED BY <1>6, <1>7

\* So does what begins with it.
LEMMA FirstOfPair ==
  ASSUME NEW key \in Objects, NEW o \in Objects
  PROVE  key.raw \o o.raw # <<>> /\ (key.raw \o o.raw)[1] # "e"
<1>1. PICK k \in Seq(Characters), r \in Seq(Characters) : k = key.raw /\ r = o.raw
  BY ObjectIs
<1>2. Len(k) \in Nat \ {0} /\ k[1] # "e" /\ Len(r) \in Nat
  <2>1. Len(key.raw) \in Nat \ {0} /\ key.raw[1] # "e"
    BY FirstOfObject
  <2> QED BY <1>1, <2>1, LenProperties
<1>3. /\ k \o r \in Seq(Characters) /\ Len(k \o r) = Len(k) + Len(r)
      /\ \A i \in 1 .. Len(k) + Len(r) : (k \o r)[i] = IF i <= Len(k) THEN k[i] ELSE r[i - Len(k)]
  BY ConcatProperties
<1>4. 1 \in 1 .. Len(k) + Len(r) /\ 1 <= Len(k) /\ Len(k) + Len(r) # 0
  BY <1>2
<1>5. (k \o r)[1] # "e"
  BY <1>2, <1>3, <1>4
<1>6. k \o r # <<>>
  BY <1>3, <1>4, EmptySeq
<1> QED BY <1>1, <1>5, <1>6

\* A list is read if its items are.
LEMMA ListRead ==
  ASSUME NEW b \in Seq(Characters), NEW items \in Seq(Objects), NEW q,
         At(b, q, BList(items).raw), q <= Len(b), \A j \in 1 .. Len(items) : ReadAt(b, items[j])
  PROVE  Reads(ObjectAt(b, BenItems(b), q), b, q, BList(items).raw, BList(items))
<1>1. PICK parts \in Seq(Seq(Characters)) :
        /\ parts = ItemRaws(items) /\ Len(items) = Len(parts)
        /\ \A j \in 1 .. Len(items) : items[j] \in Objects /\ parts[j] = items[j].raw
  BY ItemRawsAre
<1>2. PICK c \in Characters : c = "l"
  BY NoDigits
<1>3. PICK s \in Seq(Characters) :
        s = Enclosed(c, parts) /\ BList(items) = [type |-> "list", items |-> items, raw |-> s]
  <2>1. BList(items) = [type |-> "list", items |-> items, raw |-> Enclosed("l", ItemRaws(items))]
    BY ItemRawsAre
  <2>2. Enclosed(c, parts) \in Seq(Characters)
    BY EnclosedIs
  <2> QED BY <1>1, <1>2, <2>1, <2>2
<1>4. BList(items).raw = s
  BY <1>3
<1>5. At(b, q, Enclosed(c, parts))
  BY <1>3, <1>4
<1>6. q \in Nat \ {0} /\ Len(b) \in Nat /\ b[q] = c
  BY <1>5, EnclosedAt
<1>7. \A r \in 1 .. Len(b) + 1 : BenItems(b)[r]["list"] = ItemsAt(b, BenItems(b), "list", r)
  BY <1>6, BenItemsAre
<1>8. \A j \in 1 .. Len(parts) : parts[j] # <<>> /\ parts[j][1] # "e"
  <2> SUFFICES ASSUME NEW j \in 1 .. Len(parts) PROVE parts[j] # <<>> /\ parts[j][1] # "e"
    OBVIOUS
  <2>1. items[j] \in Objects /\ parts[j] = items[j].raw
    BY <1>1
  <2>2. Len(items[j].raw) \in Nat \ {0} /\ items[j].raw[1] # "e"
    BY <2>1, FirstOfObject
  <2> QED BY <2>1, <2>2, EmptySeq
<1>9. ASSUME NEW j \in 1 .. Len(parts), NEW r \in Nat, At(b, r, parts[j])
      PROVE  Reads(ItemAt(b, BenItems(b), "list", r), b, r, parts[j], items[j])
  <2>1. j \in 1 .. Len(items) /\ parts[j] = items[j].raw /\ ReadAt(b, items[j])
    BY <1>1
  <2>2. Reads(ObjectAt(b, BenItems(b), r), b, r, items[j].raw, items[j])
    BY <1>9, <2>1 DEF ReadAt
  <2> QED BY <2>1, <2>2 DEF ItemAt
<1> DEFINE Items == BenItems(b)
<1>10. Items[q + 1]["list"] =
         IF AllAt(b, q, Enclosed(c, parts))
           THEN {[items |-> items, end |-> q + Len(Enclosed(c, parts))]} ELSE {}
  <2> HIDE DEF Items
  <2>1. \A r \in 1 .. Len(b) + 1 : Items[r]["list"] = ItemsAt(b, Items, "list", r)
    BY <1>7 DEF Items
  <2>2. \A j \in 1 .. Len(parts) : \A r \in Nat :
          At(b, r, parts[j]) => Reads(ItemAt(b, Items, "list", r), b, r, parts[j], items[j])
    BY <1>9 DEF Items
  <2>3. Len(items) = Len(parts)
    BY <1>1
  <2> QED BY <1>5, <1>8, <2>1, <2>2, <2>3, ItemsRead
<1> HIDE DEF Items
<1>11. ObjectAt(b, Items, q) =
         {[value |-> [type |-> "list", items |-> l.items, raw |-> Raw(b, q, l.end)], end |-> l.end] :
            l \in Items[q + 1]["list"]}
  <2>1. ~(q > Len(b)) /\ b[q] = "l" /\ b[q] # "i"
    BY <1>2, <1>6
  <2> QED BY <2>1 DEF ObjectAt
<1>12. CASE AllAt(b, q, s)
  <2>1. PICK e \in Nat : e = q + Len(s)
    BY <1>6, LenProperties
  <2>2. Raw(b, q, e) = s
    <3>1. Raw(b, q, q + Len(s)) = s
      BY <1>3, <1>5, <1>12, RawIs
    <3> QED BY <2>1, <3>1
  <2>3. Items[q + 1]["list"] = {[items |-> items, end |-> e]}
    BY <1>3, <1>10, <1>12, <2>1
  <2>4. ObjectAt(b, Items, q) =
          {[value |-> [type |-> "list", items |-> items, raw |-> Raw(b, q, e)], end |-> e]}
    <3> DEFINE one == [items |-> items, end |-> e]
    <3>1. one.items = items /\ one.end = e
      OBVIOUS
    <3> HIDE DEF one
    <3>2. ObjectAt(b, Items, q) =
            {[value |-> [type |-> "list", items |-> l.items, raw |-> Raw(b, q, l.end)], end |-> l.end] :
               l \in {one}}
      BY <1>11, <2>3 DEF one
    <3> QED BY <3>1, <3>2
  <2>5. ObjectAt(b, Items, q) = {[value |-> BList(items), end |-> e]}
    BY <1>3, <2>2, <2>4
  <2> QED BY <1>4, <1>12, <2>1, <2>5 DEF Reads, Items
<1>13. CASE ~AllAt(b, q, s)
  <2>1. Items[q + 1]["list"] = {}
    BY <1>3, <1>10, <1>13
  <2>2. ObjectAt(b, Items, q) = {}
    BY <1>11, <2>1
  <2> QED BY <1>4, <1>13, <2>2 DEF Reads, Items
<1> QED BY <1>12, <1>13

\* A dictionary is read if its pairs are.
LEMMA DictionaryRead ==
  ASSUME NEW b \in Seq(Characters), NEW pairs \in Seq(StringObjects \X Objects), NEW q,
         At(b, q, Dict(pairs).raw), q <= Len(b), \A j \in 1 .. Len(pairs) : ReadAt(b, pairs[j][2])
  PROVE  Reads(ObjectAt(b, BenItems(b), q), b, q, Dict(pairs).raw, Dict(pairs))
<1>1. PICK parts \in Seq(Seq(Characters)) :
        /\ parts = PairRaws(pairs) /\ Len(pairs) = Len(parts)
        /\ \A j \in 1 .. Len(pairs) :
             /\ pairs[j][1] \in StringObjects /\ pairs[j][2] \in Objects
             /\ pairs[j] = <<pairs[j][1], pairs[j][2]>>
             /\ parts[j] = pairs[j][1].raw \o pairs[j][2].raw
  BY PairRawsAre
<1>2. PICK c \in Characters : c = "d"
  BY NoDigits
<1>3. PICK s \in Seq(Characters) :
        s = Enclosed(c, parts) /\ Dict(pairs) = [type |-> "dictionary", pairs |-> pairs, raw |-> s]
  <2>1. Dict(pairs) = [type |-> "dictionary", pairs |-> pairs, raw |-> Enclosed("d", PairRaws(pairs))]
    BY PairRawsAre
  <2>2. Enclosed(c, parts) \in Seq(Characters)
    BY EnclosedIs
  <2> QED BY <1>1, <1>2, <2>1, <2>2
<1>4. Dict(pairs).raw = s
  BY <1>3
<1>5. At(b, q, Enclosed(c, parts))
  BY <1>3, <1>4
<1>6. q \in Nat \ {0} /\ Len(b) \in Nat /\ b[q] = c
  BY <1>5, EnclosedAt
<1>7. \A r \in 1 .. Len(b) + 1 : BenItems(b)[r]["dictionary"] = ItemsAt(b, BenItems(b), "dictionary", r)
  BY <1>6, BenItemsAre
<1>8. \A j \in 1 .. Len(parts) : parts[j] # <<>> /\ parts[j][1] # "e"
  <2> SUFFICES ASSUME NEW j \in 1 .. Len(parts) PROVE parts[j] # <<>> /\ parts[j][1] # "e"
    OBVIOUS
  <2>1. PICK key \in Objects, o \in Objects : parts[j] = key.raw \o o.raw
    <3>1. /\ pairs[j][1] \in Objects /\ pairs[j][2] \in Objects
          /\ parts[j] = pairs[j][1].raw \o pairs[j][2].raw
      BY <1>1 DEF StringObjects
    <3> QED BY <3>1
  <2> QED BY <2>1, FirstOfPair
<1>9. ASSUME NEW j \in 1 .. Len(parts), NEW r \in Nat, At(b, r, parts[j])
      PROVE  Reads(ItemAt(b, BenItems(b), "dictionary", r), b, r, parts[j], pairs[j])
  <2>1. PICK key \in StringObjects, o \in Objects :
          parts[j] = key.raw \o o.raw /\ pairs[j] = <<key, o>> /\ ReadAt(b, o)
    <3>1. j \in 1 .. Len(pairs)
      BY <1>1
    <3> QED BY <1>1, <3>1
  <2>2. Reads(ItemAt(b, BenItems(b), "dictionary", r), b, r, key.raw \o o.raw, <<key, o>>)
    <3>1. At(b, r, key.raw \o o.raw)
      BY <1>9, <2>1
    <3>2. \A t \in Nat : At(b, t, o.raw) => Reads(ObjectAt(b, BenItems(b), t), b, t, o.raw, o)
      BY <2>1 DEF ReadAt
    <3> QED BY <3>1, <3>2, PairRead
  <2> QED BY <2>1, <2>2
<1> DEFINE Items == BenItems(b)
<1>10. Items[q + 1]["dictionary"] =
         IF AllAt(b, q, Enclosed(c, parts))
           THEN {[items |-> pairs, end |-> q + Len(Enclosed(c, parts))]} ELSE {}
  <2> HIDE DEF Items
  <2>1. \A r \in 1 .. Len(b) + 1 : Items[r]["dictionary"] = ItemsAt(b, Items, "dictionary", r)
    BY <1>7 DEF Items
  <2>2. \A j \in 1 .. Len(parts) : \A r \in Nat :
          At(b, r, parts[j]) => Reads(ItemAt(b, Items, "dictionary", r), b, r, parts[j], pairs[j])
    BY <1>9 DEF Items
  <2>3. Len(pairs) = Len(parts)
    BY <1>1
  <2> QED BY <1>5, <1>8, <2>1, <2>2, <2>3, ItemsRead
<1> HIDE DEF Items
<1>11. ObjectAt(b, Items, q) =
         {[value |-> [type |-> "dictionary", pairs |-> l.items, raw |-> Raw(b, q, l.end)], end |-> l.end] :
            l \in Items[q + 1]["dictionary"]}
  <2>1. ~(q > Len(b)) /\ b[q] = "d" /\ b[q] # "i" /\ b[q] # "l"
    BY <1>2, <1>6
  <2> QED BY <2>1 DEF ObjectAt
<1>12. CASE AllAt(b, q, s)
  <2>1. PICK e \in Nat : e = q + Len(s)
    BY <1>6, LenProperties
  <2>2. Raw(b, q, e) = s
    <3>1. Raw(b, q, q + Len(s)) = s
      BY <1>3, <1>5, <1>12, RawIs
    <3> QED BY <2>1, <3>1
  <2>3. Items[q + 1]["dictionary"] = {[items |-> pairs, end |-> e]}
    BY <1>3, <1>10, <1>12, <2>1
  <2>4. ObjectAt(b, Items, q) =
          {[value |-> [type |-> "dictionary", pairs |-> pairs, raw |-> Raw(b, q, e)], end |-> e]}
    <3> DEFINE one == [items |-> pairs, end |-> e]
    <3>1. one.items = pairs /\ one.end = e
      OBVIOUS
    <3> HIDE DEF one
    <3>2. ObjectAt(b, Items, q) =
            {[value |-> [type |-> "dictionary", pairs |-> l.items, raw |-> Raw(b, q, l.end)], end |-> l.end] :
               l \in {one}}
      BY <1>11, <2>3 DEF one
    <3> QED BY <3>1, <3>2
  <2>5. ObjectAt(b, Items, q) = {[value |-> Dict(pairs), end |-> e]}
    BY <1>3, <2>2, <2>4
  <2> QED BY <1>4, <1>12, <2>1, <2>5 DEF Reads, Items
<1>13. CASE ~AllAt(b, q, s)
  <2>1. Items[q + 1]["dictionary"] = {}
    BY <1>3, <1>10, <1>13
  <2>2. ObjectAt(b, Items, q) = {}
    BY <1>11, <2>1
  <2> QED BY <1>4, <1>13, <2>2 DEF Reads, Items
<1> QED BY <1>12, <1>13

\* The reader reads every object there is: it would read a shortest one that it does
\* not, for what that one is made of is shorter.
LEMMA ObjectRead ==
  ASSUME NEW b \in Seq(Characters), NEW o \in Objects
  PROVE  ReadAt(b, o)
<1> DEFINE Unread == {n \in Nat : \E x \in Objects : Len(x.raw) = n /\ ~ReadAt(b, x)}
<1> SUFFICES ASSUME Unread # {} PROVE FALSE
  <2>1. Len(o.raw) \in Nat
    BY FirstOfObject
  <2> QED BY <2>1
<1>1. PICK n \in Nat : n \in Unread /\ \A m \in Unread : n <= m
  BY LeastNumber
<1>2. PICK x \in Objects : Len(x.raw) = n /\ ~ReadAt(b, x)
  BY <1>1
<1>3. ASSUME NEW y \in Objects, Len(y.raw) < n PROVE ReadAt(b, y)
  <2> SUFFICES ASSUME ~ReadAt(b, y) PROVE FALSE
    OBVIOUS
  <2>1. PICK m \in Nat : m = Len(y.raw)
    BY FirstOfObject
  <2>2. m \in Unread
    BY <2>1
  <2>3. n <= m /\ m < n
    BY <1>1, <1>3, <2>1, <2>2
  <2> QED BY <2>3
<1> HIDE DEF Unread
<1>4. PICK q \in Nat : At(b, q, x.raw) /\ ~Reads(ObjectAt(b, BenItems(b), q), b, q, x.raw, x)
  BY <1>2 DEF ReadAt
<1> DEFINE Items == BenItems(b)
<1> HIDE DEF Items
<1>5. ~Reads(ObjectAt(b, Items, q), b, q, x.raw, x)
  BY <1>4 DEF Items
<1>6. q \in 1 .. Len(b) + 1 /\ Len(b) \in Nat
  BY <1>4, LenProperties DEF At
<1>7. n \in Nat \ {0}
  BY <1>2, FirstOfObject
<1>8. q <= Len(b)
  <2> SUFFICES ASSUME q > Len(b) PROVE FALSE
    BY <1>6
  <2>1. ObjectAt(b, Items, q) = {}
    BY DEF ObjectAt
  <2>2. ~AllAt(b, q, x.raw)
    BY <1>2, <1>6, <1>7 DEF AllAt
  <2> QED BY <1>5, <2>1, <2>2 DEF Reads
<1>9. b[q] = x.raw[1]
  <2>1. \A i \in 1 .. n : q + i <= Len(b) + 1 => b[(q - 1) + i] = x.raw[i]
    BY <1>2, <1>4 DEF At
  <2>2. 1 \in 1 .. n /\ q + 1 <= Len(b) + 1 /\ (q - 1) + 1 = q
    BY <1>6, <1>7, <1>8
  <2> QED BY <2>1, <2>2
<1>10. CASE IsString(x)
  <2>1. PICK length \in Seq(Characters), s \in Seq(Characters) :
          s # <<>> /\ IsNumeral(length) /\ Value(length) = Len(s) /\ x = Str(length, s)
    BY <1>10 DEF IsString
  <2>2. At(b, q, Str(length, s).raw)
    BY <1>4, <2>1
  <2>3. Reads(BenString(b, q), b, q, Str(length, s).raw, Str(length, s))
    BY <2>1, <2>2, StringRead
  <2>4. x.raw[1] \notin {"i", "l", "d"}
    BY <1>10, FirstOfObject
  <2>5. b[q] # "i" /\ b[q] # "l" /\ b[q] # "d"
    BY <1>9, <2>4
  <2>6. ObjectAt(b, Items, q) = BenString(b, q)
    BY <1>6, <1>8, <2>5 DEF ObjectAt
  <2> QED BY <1>5, <2>1, <2>3, <2>6
<1>11. CASE IsInteger(x)
  <2>1. PICK d \in Seq(Characters) : IsNumeral(d) /\ x = Num(d)
    BY <1>11 DEF IsInteger
  <2>2. At(b, q, Num(d).raw)
    BY <1>4, <2>1
  <2>3. Reads(BenInteger(b, q), b, q, Num(d).raw, Num(d))
    BY <2>1, <2>2, IntegerRead
  <2>4. b[q] = "i"
    BY <1>9, <1>11, FirstOfObject
  <2>5. ObjectAt(b, Items, q) = BenInteger(b, q)
    BY <1>6, <1>8, <2>4 DEF ObjectAt
  <2> QED BY <1>5, <2>1, <2>3, <2>5
<1>12. CASE IsList(x)
  <2>1. PICK items \in Seq(Objects) : x = BList(items)
    BY <1>12 DEF IsList
  <2>2. PICK c \in Characters : c = "l"
    BY NoDigits
  <2>3. PICK parts \in Seq(Seq(Characters)) :
          /\ Len(items) = Len(parts) /\ x.raw = Enclosed(c, parts)
          /\ \A j \in 1 .. Len(items) : items[j] \in Objects /\ parts[j] = items[j].raw
    <3>1. /\ ItemRaws(items) \in Seq(Seq(Characters)) /\ Len(ItemRaws(items)) = Len(items)
          /\ \A j \in 1 .. Len(items) : items[j] \in Objects /\ ItemRaws(items)[j] = items[j].raw
      BY ItemRawsAre
    <3>2. BList(items) = [type |-> "list", items |-> items, raw |-> Enclosed("l", ItemRaws(items))]
      BY ItemRawsAre
    <3>3. x.raw = Enclosed(c, ItemRaws(items))
      BY <2>1, <2>2, <3>2
    <3> QED BY <3>1, <3>3
  <2>4. ASSUME NEW j \in 1 .. Len(items) PROVE ReadAt(b, items[j])
    <3>1. j \in 1 .. Len(parts) /\ items[j] \in Objects /\ parts[j] = items[j].raw
      BY <2>3
    <3>2. Len(parts[j]) < Len(Enclosed(c, parts))
      BY <3>1, PartShorter
    <3>3. Len(items[j].raw) < n
      BY <1>2, <2>3, <3>1, <3>2
    <3> QED BY <1>3, <3>1, <3>3
  <2>5. At(b, q, BList(items).raw)
    BY <1>4, <2>1
  <2>6. Reads(ObjectAt(b, BenItems(b), q), b, q, BList(items).raw, BList(items))
    BY <1>8, <2>4, <2>5, ListRead
  <2> QED BY <1>4, <2>1, <2>6
<1>13. CASE IsDictionary(x)
  <2>1. PICK pairs \in Seq(StringObjects \X Objects) : x = Dict(pairs)
    BY <1>13 DEF IsDictionary
  <2>2. PICK c \in Characters : c = "d"
    BY NoDigits
  <2>3. PICK parts \in Seq(Seq(Characters)) :
          /\ Len(pairs) = Len(parts) /\ x.raw = Enclosed(c, parts)
          /\ \A j \in 1 .. Len(pairs) : /\ pairs[j][1] \in Objects /\ pairs[j][2] \in Objects
                                        /\ parts[j] = pairs[j][1].raw \o pairs[j][2].raw
    <3>1. /\ PairRaws(pairs) \in Seq(Seq(Characters)) /\ Len(PairRaws(pairs)) = Len(pairs)
          /\ \A j \in 1 .. Len(pairs) : /\ pairs[j][1] \in StringObjects /\ pairs[j][2] \in Objects
                                        /\ PairRaws(pairs)[j] = pairs[j][1].raw \o pairs[j][2].raw
      BY PairRawsAre
    <3>2. Dict(pairs) = [type |-> "dictionary", pairs |-> pairs, raw |-> Enclosed("d", PairRaws(pairs))]
      BY PairRawsAre
    <3>3. x.raw = Enclosed(c, PairRaws(pairs))
      BY <2>1, <2>2, <3>2
    <3>4. StringObjects \subseteq Objects
      BY DEF StringObjects
    <3> QED BY <3>1, <3>3, <3>4
  <2>4. ASSUME NEW j \in 1 .. Len(pairs) PROVE ReadAt(b, pairs[j][2])
    <3>1. PICK k \in Objects, y \in Objects : k = pairs[j][1] /\ y = pairs[j][2]
      BY <2>3
    <3>2. j \in 1 .. Len(parts) /\ parts[j] = k.raw \o y.raw
      BY <2>3, <3>1
    <3>3. Len(parts[j]) < Len(Enclosed(c, parts)) /\ Len(parts[j]) \in Nat
      BY <3>2, PartShorter
    <3>4. PICK s \in Seq(Characters), t \in Seq(Characters) : s = k.raw /\ t = y.raw
      BY ObjectIs
    <3>5. Len(s \o t) = Len(s) + Len(t) /\ Len(s) \in Nat /\ Len(t) \in Nat
      BY ConcatProperties, LenProperties
    <3>6. Len(parts[j]) = Len(s) + Len(t) /\ Len(parts[j]) < n
      BY <1>2, <2>3, <3>2, <3>3, <3>4, <3>5
    <3>7. Len(t) < n
      BY <3>5, <3>6
    <3> QED BY <1>3, <3>1, <3>4, <3>7
  <2>5. At(b, q, Dict(pairs).raw)
    BY <1>4, <2>1
  <2>6. Reads(ObjectAt(b, BenItems(b), q), b, q, Dict(pairs).raw, Dict(pairs))
    BY <1>8, <2>4, <2>5, DictionaryRead
  <2> QED BY <1>4, <2>1, <2>6
<1> QED BY <1>10, <1>11, <1>12, <1>13, ObjectIs

\* A buffer that is cut off anywhere is read as nothing, a whole one as the object.
LEMMA BufferRead ==
  ASSUME NEW o \in Objects, NEW n \in 0 .. Len(o.raw)
  PROVE  GetBenObject(SubSeq(o.raw, 1, n)) = IF SubSeq(o.raw, 1, n) = o.raw THEN {o} ELSE {}
<1>1. PICK s \in Seq(Characters) : s = o.raw
  BY ObjectIs
<1>2. Len(s) \in Nat /\ n \in 0 .. Len(s) /\ n \in Nat
  BY <1>1, LenProperties
<1>3. PICK b \in Seq(Characters) :
        b = SubSeq(s, 1, n) /\ Len(b) = n /\ \A i \in 1 .. n : b[i] = s[i]
  <2>1. \A i \in 1 .. n : s[i] \in Characters
    <3> SUFFICES ASSUME NEW i \in 1 .. n PROVE s[i] \in Characters
      OBVIOUS
    <3>1. i \in 1 .. Len(s)
      BY <1>2
    <3> QED BY <3>1, ElementOfSeq
  <2>2. /\ SubSeq(s, 1, n) \in Seq(Characters)
        /\ Len(SubSeq(s, 1, n)) = IF 1 <= n THEN n - 1 + 1 ELSE 0
        /\ \A i \in 1 .. n - 1 + 1 : SubSeq(s, 1, n)[i] = s[1 + i - 1]
    <3>1. 1 \in Int /\ n \in Int
      BY <1>2
    <3> QED BY <2>1, <3>1, SubSeqProperties
  <2>3. n - 1 + 1 = n /\ (~(1 <= n) => n = 0) /\ \A i \in 1 .. n : 1 + i - 1 = i
    BY <1>2
  <2> QED BY <2>2, <2>3
<1>4. At(b, 1, s)
  <2>1. 1 \in 1 .. Len(b) + 1
    BY <1>2, <1>3
  <2>2. ASSUME NEW i \in 1 .. Len(s), 1 + i <= Len(b) + 1 PROVE b[(1 - 1) + i] = s[i]
    <3>1. i \in 1 .. n /\ (1 - 1) + i = i
      BY <1>2, <1>3, <2>2
    <3> QED BY <1>3, <3>1
  <2> QED BY <2>1, <2>2 DEF At
<1>5. Reads(ObjectAt(b, BenItems(b), 1), b, 1, s, o)
  <2>1. ReadAt(b, o)
    BY ObjectRead
  <2> QED BY <1>1, <1>4, <2>1 DEF ReadAt
<1>6. AllAt(b, 1, s) <=> b = s
  <2>1. AllAt(b, 1, s) <=> n = Len(s)
    BY <1>2, <1>3 DEF AllAt
  <2>2. ASSUME n = Len(s) PROVE b = s
    BY <1>3, <2>2, SubSeqFull
  <2> QED BY <1>3, <2>1, <2>2
<1>7. CASE b = s
  <2>1. ObjectAt(b, BenItems(b), 1) = {[value |-> o, end |-> 1 + Len(s)]}
    BY <1>5, <1>6, <1>7 DEF Reads
  <2>2. GetBenObject(b) = {o}
    <3> DEFINE one == [value |-> o, end |-> 1 + Len(s)]
    <3>1. one.value = o
      OBVIOUS
    <3>2. ObjectAt(b, BenItems(b), 1) = {one}
      BY <2>1
    <3> HIDE DEF one
    <3> QED BY <3>1, <3>2 DEF GetBenObject
  <2> QED BY <1>1, <1>3, <1>7, <2>2
<1>8. CASE b # s
  <2>1. ObjectAt(b, BenItems(b), 1) = {}
    BY <1>5, <1>6, <1>8 DEF Reads
  <2>2. GetBenObject(b) = {}
    BY <2>1 DEF GetBenObject
  <2> QED BY <1>1, <1>3, <1>8, <2>2
<1> QED BY <1>7, <1>8

\* What a torrent's info hash is taken of.
LEMMA InfoOfTorrent ==
  ASSUME NEW dic, IsTorrent(dic)
  PROVE  \E i \in DOMAIN dic.pairs :
           /\ dic.pairs[i][1].string = <<"info">>
           /\ \A j \in 1 .. i - 1 : dic.pairs[j][1].string # <<"info">>
           /\ BitData(dic).info_data = dic.pairs[i][2].raw
<1> DEFINE infos == ValueBenTypeCast(dic, "info", "dictionary")
<1>1. infos # {}
  BY DEF IsTorrent
<1>2. The(infos) \in infos
  BY <1>1 DEF The
<1>3. The(infos) \in BenMap(dic, "info")
  BY <1>2 DEF ValueBenTypeCast
<1>4. PICK i \in DOMAIN dic.pairs :
        /\ dic.pairs[i][1].string = <<"info">>
        /\ \A j \in 1 .. i - 1 : dic.pairs[j][1].string # <<"info">>
        /\ The(infos) = dic.pairs[i][2]
  <2> HIDE DEF infos
  <2> QED BY <1>3 DEF BenMap
<1>5. BitData(dic).info_data = The(infos).raw
  BY DEF BitData, GetRawInfoValue
<1> QED BY <1>4, <1>5

\* A task is made of a torrent in the buffer, and an answer of what the buffer is read as.
TaskOf(b, d) == d \in {Nothing, Refused} \/ \E dic \in GetBenObject(b) : IsTorrent(dic) /\ d = BitData(dic)
AnswerOf(b, a) == a \in {Nothing, Refused} \/ \E dic \in GetBenObject(b) : a = TrackerResponse(dic)

\* The buffer is the beginning of an object, and nothing else is made of it.
MetainfoInv ==
  /\ source = "none" => bitdata = Nothing /\ answer = Nothing
  /\ source # "none" => /\ written \in Objects
                        /\ \E n \in 0 .. Len(written.raw) : buffer = SubSeq(written.raw, 1, n)
  /\ TaskOf(buffer, bitdata) /\ AnswerOf(buffer, answer)

\* The invariant gives the property.
LEMMA InvReadAsWritten == MetainfoInv => ReadAsWritten
<1> SUFFICES ASSUME MetainfoInv, source # "none" PROVE ReadAsWritten
  BY DEF ReadAsWritten
<1>1. PICK o \in Objects : o = written
  BY DEF MetainfoInv
<1>2. PICK n \in 0 .. Len(o.raw) : buffer = SubSeq(o.raw, 1, n)
  BY <1>1 DEF MetainfoInv
<1>3. GetBenObject(buffer) = IF buffer = o.raw THEN {o} ELSE {}
  BY <1>2, BufferRead
<1>4. TaskOf(buffer, bitdata) /\ AnswerOf(buffer, answer)
  BY DEF MetainfoInv
<1>5. ASSUME buffer # o.raw PROVE bitdata \in {Nothing, Refused} /\ answer \in {Nothing, Refused}
  BY <1>3, <1>4, <1>5 DEF TaskOf, AnswerOf
<1>6. ASSUME bitdata.type = "bitdata" PROVE IsTorrent(o) /\ bitdata = BitData(o)
  <2>1. bitdata # Nothing /\ bitdata # Refused
    BY <1>6 DEF Nothing, Refused
  <2>2. PICK dic \in GetBenObject(buffer) : IsTorrent(dic) /\ bitdata = BitData(dic)
    BY <1>4, <2>1 DEF TaskOf
  <2>3. dic = o
    BY <1>3, <2>2
  <2> QED BY <2>2, <2>3
<1>7. ASSUME bitdata.type = "bitdata"
      PROVE  \E i \in DOMAIN written.pairs :
               /\ written.pairs[i][1].string = <<"info">>
               /\ \A j \in 1 .. i - 1 : written.pairs[j][1].string # <<"info">>
               /\ bitdata.info_data = written.pairs[i][2].raw
  <2>1. IsTorrent(o) /\ bitdata = BitData(o)
    BY <1>6, <1>7
  <2>2. \E i \in DOMAIN o.pairs :
          /\ o.pairs[i][1].string = <<"info">>
          /\ \A j \in 1 .. i - 1 : o.pairs[j][1].string # <<"info">>
          /\ BitData(o).info_data = o.pairs[i][2].raw
    BY <2>1, InfoOfTorrent
  <2> QED BY <1>1, <2>1, <2>2
<1> QED BY <1>1, <1>3, <1>5, <1>7 DEF ReadAsWritten

\* Nothing is made of a buffer before there is one.
LEMMA MetainfoInitInv == MetainfoInit => MetainfoInv
BY DEF MetainfoInit, MetainfoInv, TaskOf, AnswerOf

\* Every step keeps the invariant.
LEMMA MetainfoNextInv == MetainfoInv /\ [MetainfoNext]_metainfoVars => MetainfoInv'
<1> SUFFICES ASSUME MetainfoInv, [MetainfoNext]_metainfoVars PROVE MetainfoInv'
  OBVIOUS
<1>1. /\ source = "none" => bitdata = Nothing /\ answer = Nothing
      /\ source # "none" => /\ written \in Objects
                            /\ \E n \in 0 .. Len(written.raw) : buffer = SubSeq(written.raw, 1, n)
      /\ TaskOf(buffer, bitdata) /\ AnswerOf(buffer, answer)
  BY DEF MetainfoInv
<1>2. CASE BenTypesStreamBuf
  <2>1. source' = "torrent" /\ written' \in Objects /\ bitdata' = Nothing /\ answer' = Nothing
    BY <1>1, <1>2, MetainfoAssumption DEF BenTypesStreamBuf
  <2>2. \E n \in 0 .. Len(written'.raw) : buffer' = SubSeq(written'.raw, 1, n)
    BY <1>2 DEF BenTypesStreamBuf
  <2> QED BY <2>1, <2>2 DEF MetainfoInv, TaskOf, AnswerOf
<1>3. CASE Body
  <2>1. source' = "tracker" /\ written' \in Objects /\ bitdata' = Nothing /\ answer' = Nothing
    BY <1>1, <1>3, MetainfoAssumption DEF Body
  <2>2. \E n \in 0 .. Len(written'.raw) : buffer' = SubSeq(written'.raw, 1, n)
    <3>1. PICK n \in 1 .. Len(written'.raw) : buffer' = SubSeq(written'.raw, 1, n)
      BY <1>3 DEF Body
    <3>2. Len(written'.raw) \in Nat
      BY <2>1, FirstOfObject
    <3>3. n \in 0 .. Len(written'.raw)
      BY <3>2
    <3> QED BY <3>1, <3>3
  <2> QED BY <2>1, <2>2 DEF MetainfoInv, TaskOf, AnswerOf
<1>4. CASE CreateTask
  <2>1. /\ source' = source /\ source = "torrent" /\ written' = written /\ buffer' = buffer /\ answer' = answer
        /\ bitdata' \in Made({BitData(dic) : dic \in MetainfoFile})
    BY <1>4 DEF CreateTask
  <2>2. TaskOf(buffer, bitdata')
    BY <2>1 DEF Made, MetainfoFile, TaskOf
  <2> QED BY <1>1, <2>1, <2>2 DEF MetainfoInv
<1>5. CASE ProcessProtocol
  <2>1. /\ source' = source /\ source = "tracker" /\ written' = written /\ buffer' = buffer /\ bitdata' = bitdata
        /\ answer' \in Made({TrackerResponse(dic) : dic \in GetBenObject(buffer)})
    BY <1>5 DEF ProcessProtocol
  <2>2. AnswerOf(buffer, answer')
    BY <2>1 DEF Made, AnswerOf
  <2> QED BY <1>1, <2>1, <2>2 DEF MetainfoInv
<1>6. CASE UNCHANGED metainfoVars
  BY <1>1, <1>6 DEF metainfoVars, MetainfoInv
<1> QED BY <1>2, <1>3, <1>4, <1>5, <1>6 DEF MetainfoNext

\* A buffer is read as the object that was written to it (BenTypes.cpp:43-181) and as
\* nothing where it is cut off, so no task, peer or interval comes of a part of it, and
\* the info hash is taken of the first info dictionary as it was written.
THEOREM AlwaysReadAsWritten == MetainfoSpec => []ReadAsWritten
BY MetainfoInitInv, MetainfoNextInv, InvReadAsWritten, PTL DEF MetainfoSpec
=============================================================================
