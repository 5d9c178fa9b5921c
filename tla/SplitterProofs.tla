--------------------------- MODULE SplitterProofs ---------------------------
(***************************************************************************)
(* Theorems about Splitter, for every text, every target, overlap and      *)
(* shortest section: how its texts, Markdown and sheets are cut up.        *)
(***************************************************************************)
EXTENDS Splitter, FiniteSetTheorems, SequenceTheorems, WellFoundedInduction, TLAPS

-----------------------------------------------------------------------------
(* Numbers and finite sets. *)

(* A set of numbers that is not empty has a least member. *)
LEMMA LeastNumber ==
    ASSUME NEW S \in SUBSET Nat, S # {}
    PROVE  \E m \in S : \A y \in S : m <= y
<1>1. PICK m \in S : \A y \in S : <<y, m>> \notin OpToRel(<, Nat)
  BY NatLessThanWellFounded, WFMin, Zenon
<1>2. \A y \in S : y \in Nat /\ m \in Nat /\ ~(y < m)
  BY <1>1, Zenon DEF OpToRel
<1>3. \A y \in S : m <= y
  BY <1>2
<1> QED
  BY <1>3

(* Min of an interval's subset is its least member. *)
LEMMA Least ==
    ASSUME NEW a \in Int, NEW b \in Int, NEW S \in SUBSET (a .. b), S # {}
    PROVE  Min(S) \in S /\ \A y \in S : Min(S) <= y
<1> DEFINE T == {x - a : x \in S}
<1>1. T \in SUBSET Nat /\ T # {}
  <2>1. \A x \in S : x \in a .. b
    OBVIOUS
  <2>2. \A x \in a .. b : x - a \in Nat
    OBVIOUS
  <2>3. \A x \in S : x - a \in Nat
    BY ONLY <2>1, <2>2
  <2> QED
    BY ONLY <2>3, S # {}
<1>2. PICK m \in T : \A y \in T : m <= y
  BY <1>1, LeastNumber
<1>3. PICK x \in S : m = x - a
  OBVIOUS
<1>4. ASSUME NEW y \in S PROVE x <= y
  <2>1. y - a \in T /\ x \in Int /\ y \in Int
    OBVIOUS
  <2>2. m <= y - a
    BY <1>2, <2>1
  <2> QED
    BY ONLY <1>3, <2>1, <2>2, a \in Int
<1> QED
  BY <1>4 DEF Min

(* Max of an interval's subset is its greatest member. *)
LEMMA Greatest ==
    ASSUME NEW a \in Int, NEW b \in Int, NEW S \in SUBSET (a .. b), S # {}
    PROVE  Max(S) \in S /\ \A y \in S : Max(S) >= y
<1> DEFINE T == {b - x : x \in S}
<1>1. T \in SUBSET Nat /\ T # {}
  <2>1. \A x \in S : x \in a .. b
    OBVIOUS
  <2>2. \A x \in a .. b : b - x \in Nat
    OBVIOUS
  <2>3. \A x \in S : b - x \in Nat
    BY ONLY <2>1, <2>2
  <2> QED
    BY ONLY <2>3, S # {}
<1>2. PICK m \in T : \A y \in T : m <= y
  BY <1>1, LeastNumber
<1>3. PICK x \in S : m = b - x
  OBVIOUS
<1>4. ASSUME NEW y \in S PROVE x >= y
  <2>1. b - y \in T /\ x \in Int /\ y \in Int
    OBVIOUS
  <2>2. m <= b - y
    BY <1>2, <2>1
  <2> QED
    BY ONLY <1>3, <2>1, <2>2, b \in Int
<1> QED
  BY <1>4 DEF Max

(* What holds of 0 and, with n, of n + 1. *)
LEMMA Induction ==
    ASSUME NEW S, 0 \in S, \A n \in Nat : n \in S => n + 1 \in S
    PROVE  Nat \subseteq S
<1> SUFFICES ASSUME Nat \ S # {} PROVE FALSE
  OBVIOUS
<1>1. PICK m \in Nat \ S : \A y \in Nat \ S : m <= y
  BY LeastNumber
<1>2. m # 0 /\ m - 1 \in Nat
  OBVIOUS
<1>3. m - 1 \in S
  BY <1>1, <1>2
<1> QED
  BY <1>2, <1>3

(* The subsets of an interval are finite. *)
LEMMA IntervalFinite ==
    ASSUME NEW a \in Int, NEW b \in Int, NEW S \in SUBSET (a .. b)
    PROVE  IsFiniteSet(S) /\ Cardinality(S) \in Nat
<1>1. IsFiniteSet(a .. b)
  BY ONLY a \in Int, b \in Int, FS_Interval
<1> QED
  BY <1>1, FS_Subset, FS_CardinalityType

(* Ranks. *)
LEMMA AscendingIs ==
    ASSUME NEW S \in SUBSET Int, IsFiniteSet(S)
    PROVE  /\ Cardinality(S) \in Nat
           /\ Ascending(S) \in [1 .. Cardinality(S) -> S]
           /\ \A i, j \in 1 .. Cardinality(S) : i < j => Ascending(S)[i] < Ascending(S)[j]
           /\ \A x \in S : \E i \in 1 .. Cardinality(S) : Ascending(S)[i] = x
<1> DEFINE n == Cardinality(S)
           Below(x) == {y \in S : y < x}
           rank == [x \in S |-> Cardinality(Below(x)) + 1]
<1>1. n \in Nat
  BY FS_CardinalityType
<1>2. ASSUME NEW x \in S
      PROVE  /\ IsFiniteSet(Below(x)) /\ Cardinality(Below(x)) \in Nat
             /\ Cardinality(Below(x)) < n
  <2>1. Below(x) \in SUBSET S /\ x \notin Below(x)
    OBVIOUS
  <2>2. /\ IsFiniteSet(Below(x)) /\ Cardinality(Below(x)) <= n
        /\ (n = Cardinality(Below(x)) => S = Below(x))
    BY <2>1, FS_Subset
  <2>3. Cardinality(Below(x)) \in Nat
    BY <2>2, FS_CardinalityType
  <2> QED
    BY <1>1, <2>1, <2>2, <2>3
<1>3. ASSUME NEW x \in S, NEW y \in S, x < y
      PROVE  Cardinality(Below(x)) < Cardinality(Below(y))
  <2>0. x < y /\ ~(x < x) /\ \A z \in S : z < x => z < y
    BY <1>3
  <2>1. Below(x) \in SUBSET Below(y) /\ x \in Below(y) /\ x \notin Below(x)
    BY ONLY <2>0, x \in S, y \in S
  <2>2. /\ Cardinality(Below(x)) <= Cardinality(Below(y))
        /\ (Cardinality(Below(y)) = Cardinality(Below(x)) => Below(y) = Below(x))
    BY <1>2, <2>1, FS_Subset
  <2>3. Cardinality(Below(x)) # Cardinality(Below(y))
    BY ONLY <2>1, <2>2
  <2>4. Cardinality(Below(x)) \in Nat /\ Cardinality(Below(y)) \in Nat
    BY <1>2
  <2> QED
    BY ONLY <2>2, <2>3, <2>4
<1> HIDE DEF Below
<1>4. ASSUME NEW x \in S
      PROVE  rank[x] = Cardinality(Below(x)) + 1 /\ rank[x] \in 1 .. n
  <2>1. rank[x] = Cardinality(Below(x)) + 1
    OBVIOUS
  <2> QED
    BY ONLY <1>1, <1>2, <2>1
<1>5. ASSUME NEW x \in S, NEW y \in S, x < y PROVE rank[x] < rank[y]
  BY ONLY <1>2, <1>3, <1>4, <1>5
<1>6. rank \in [S -> 1 .. n]
  BY <1>4
<1> HIDE DEF rank, n
<1>7. \A x, y \in S : rank[x] = rank[y] => x = y
  <2>1. \A x \in S : rank[x] \in Int
    BY ONLY <1>1, <1>4
  <2>2. \A x, y \in S : x = y \/ x < y \/ y < x
    OBVIOUS
  <2> QED
    BY ONLY <1>5, <2>1, <2>2
<1>8. rank \in Injection(S, 1 .. n)
  BY <1>6, <1>7 DEF Injection, IsInjective
<1>9. IsFiniteSet(1 .. n) /\ Cardinality(1 .. n) = n
  <2>1. 1 \in Int /\ n \in Int
    BY <1>1
  <2>2. /\ IsFiniteSet(1 .. n)
        /\ Cardinality(1 .. n) = IF 1 > n THEN 0 ELSE n - 1 + 1
    BY ONLY <2>1, FS_Interval
  <2> QED
    BY <1>1, <2>2
<1>10. rank \in Surjection(S, 1 .. n)
  BY <1>8, <1>9, FS_Injection DEF n
<1>11. \A i \in 1 .. n : \E x \in S : rank[x] = i
  BY <1>10 DEF Surjection
<1> DEFINE s == [i \in 1 .. n |-> CHOOSE x \in S : Cardinality(Below(x)) = i - 1]
<1>12. Ascending(S) = s
  BY DEF Ascending, Below, n
<1>13. ASSUME NEW i \in 1 .. n PROVE s[i] \in S /\ rank[s[i]] = i
  <2>1. PICK x \in S : rank[x] = i
    BY <1>11
  <2>2. Cardinality(Below(x)) = i - 1
    BY <1>1, <1>2, <1>4, <2>1
  <2>3. s[i] = CHOOSE z \in S : Cardinality(Below(z)) = i - 1
    OBVIOUS
  <2>4. s[i] \in S /\ Cardinality(Below(s[i])) = i - 1
    BY ONLY <2>2, <2>3, x \in S
  <2>5. i \in Int
    BY <1>1
  <2>6. rank[s[i]] = Cardinality(Below(s[i])) + 1
    BY <1>4, <2>4
  <2> QED
    BY ONLY <2>4, <2>5, <2>6
<1> HIDE DEF s
<1>14. ASSUME NEW i \in 1 .. n, NEW j \in 1 .. n, i < j PROVE s[i] < s[j]
  <2>1. s[i] \in S /\ s[j] \in S /\ rank[s[i]] = i /\ rank[s[j]] = j
    BY <1>13
  <2>2. s[i] \in Int /\ s[j] \in Int /\ i \in Int /\ j \in Int
    <3>1. i \in Int /\ j \in Int
      BY ONLY <1>1, i \in 1 .. n, j \in 1 .. n
    <3> QED
      BY ONLY <2>1, <3>1, S \in SUBSET Int
  <2>3. s[i] # s[j]
    BY ONLY <1>14, <2>1, <2>2
  <2>4. ~(s[j] < s[i])
    BY ONLY <1>5, <1>14, <2>1, <2>2
  <2> QED
    BY ONLY <2>2, <2>3, <2>4
<1>15. ASSUME NEW x \in S PROVE \E i \in 1 .. n : s[i] = x
  <2>1. rank[x] \in 1 .. n
    BY <1>4
  <2>2. s[rank[x]] \in S /\ rank[s[rank[x]]] = rank[x]
    BY <1>13, <2>1
  <2> QED
    BY <1>7, <2>1, <2>2
<1>16. s \in [1 .. n -> S]
  BY <1>13 DEF s
<1> QED
  BY <1>1, <1>12, <1>14, <1>15, <1>16 DEF n

-----------------------------------------------------------------------------
(* Spans, and what a set of them tiles. *)

Spans == [start : Nat, end : Nat]

(* A span has the start and the end it was made with. *)
LEMMA SpanIs ==
    ASSUME NEW a \in Nat, NEW b \in Nat
    PROVE  /\ Span(a, b) \in Spans
           /\ Span(a, b).start = a /\ Span(a, b).end = b
BY DEF Span, Spans

(* Spans with the same start and the same end are one. *)
LEMMA SpanEqual ==
    ASSUME NEW p \in Spans, NEW q \in Spans, p.start = q.start, p.end = q.end
    PROVE  p = q
BY DEF Spans

(* p lies within s and is not empty. *)
Inside(p, s) == s.start <= p.start /\ p.start < p.end /\ p.end <= s.end

(* Spans of s that are apart and hold all of its ink. *)
Tiles(t, P, s) ==
    /\ P \subseteq Spans
    /\ \A p \in P : Inside(p, s)
    /\ \A p, q \in P : p = q \/ p.end <= q.start \/ q.end <= p.start
    /\ \A i \in s.start .. s.end - 1 :
          t[i + 1] \notin White => \E p \in P : p.start <= i /\ i < p.end

(* Spans of s without ink. *)
Breaks(t, B, s) ==
    /\ B \subseteq Spans
    /\ \A k \in B : Inside(k, s)
    /\ \A k \in B : \A i \in k.start .. k.end - 1 : t[i + 1] \in White

(* Stretches of white space have no ink. *)
LEMMA WhiteRunsBreak ==
    ASSUME NEW t, NEW s \in Spans
    PROVE  Breaks(t, WhiteRuns(t, s), s)
<1>1. ASSUME NEW r \in WhiteRuns(t, s)
      PROVE  /\ r \in Spans /\ Inside(r, s)
             /\ \A i \in r.start .. r.end - 1 : t[i + 1] \in White
  <2>1. PICK i \in s.start .. s.end, j \in s.start .. s.end : r = Span(i, j)
    BY DEF WhiteRuns
  <2>2. r.start < r.end /\ \A k \in r.start .. r.end - 1 : t[k + 1] \in White
    BY DEF WhiteRuns
  <2>3. s.start \in Nat /\ s.end \in Nat
    BY DEF Spans
  <2>4. i \in Nat /\ j \in Nat /\ s.start <= i /\ j <= s.end
    BY ONLY <2>3, i \in s.start .. s.end, j \in s.start .. s.end
  <2>5. r \in Spans /\ r.start = i /\ r.end = j
    BY <2>1, <2>4, SpanIs
  <2> QED
    BY <2>2, <2>4, <2>5 DEF Inside
<1> QED
  BY <1>1 DEF Breaks

(* Nor has what separates sentences. *)
LEMMA SentenceBreaksBreak ==
    ASSUME NEW t, NEW s \in Spans
    PROVE  Breaks(t, SentenceBreaks(t, s), s)
BY WhiteRunsBreak DEF Breaks, SentenceBreaks

(* Nor has what separates paragraphs: it lies between two newlines of one   *)
(* stretch of white space.                                                  *)
LEMMA ParagraphBreaksBreak ==
    ASSUME NEW t, NEW s \in Spans
    PROVE  Breaks(t, ParagraphBreaks(t, s), s)
<1>1. ASSUME NEW k \in ParagraphBreaks(t, s)
      PROVE  /\ k \in Spans /\ Inside(k, s)
             /\ \A i \in k.start .. k.end - 1 : t[i + 1] \in White
  <2>1. PICK r \in WhiteRuns(t, s) :
            /\ Cardinality(Newlines(t, r)) > 1
            /\ k = Span(Min(Newlines(t, r)), Max(Newlines(t, r)) + 1)
    BY DEF ParagraphBreaks
  <2>2. /\ r \in Spans /\ Inside(r, s)
        /\ \A i \in r.start .. r.end - 1 : t[i + 1] \in White
    BY WhiteRunsBreak DEF Breaks
  <2> DEFINE N == Newlines(t, r)
             a == Min(N)
             b == Max(N)
  <2>3. r.start \in Nat /\ r.end \in Nat /\ s.start \in Nat /\ s.end \in Nat
    BY <2>2 DEF Spans
  <2>4. N \in SUBSET (r.start .. r.end - 1)
    BY DEF Newlines
  <2>5. N # {}
    BY <2>1, FS_EmptySet
  <2> HIDE DEF N
  <2>6. a \in N /\ b \in N /\ a <= b
    <3>1. r.start \in Int /\ r.end - 1 \in Int
      BY <2>3
    <3> QED
      BY <2>4, <2>5, <3>1, Least, Greatest
  <2>7. a \in r.start .. r.end - 1 /\ b \in r.start .. r.end - 1
    BY <2>4, <2>6
  <2> HIDE DEF a, b
  <2>8. a \in Nat /\ b + 1 \in Nat /\ r.start <= a /\ a < b + 1 /\ b + 1 <= r.end
    BY ONLY <2>3, <2>6, <2>7
  <2>9. k \in Spans /\ k.start = a /\ k.end = b + 1
    BY <2>1, <2>8, SpanIs DEF a, b, N
  <2>10. Inside(k, s)
    BY <2>2, <2>3, <2>8, <2>9 DEF Inside
  <2>11. \A i \in k.start .. k.end - 1 : i \in r.start .. r.end - 1
    BY ONLY <2>3, <2>7, <2>8, <2>9
  <2> QED
    BY <2>2, <2>9, <2>10, <2>11
<1> QED
  BY <1>1 DEF Breaks

(* What the breaks leave of a span is apart and holds all of its ink. *)
LEMMA PiecesTile ==
    ASSUME NEW t, NEW s \in Spans, NEW B, Breaks(t, B, s)
    PROVE  Tiles(t, Pieces(t, s, B), s)
<1> DEFINE P == Pieces(t, s, B)
           from == {s.start} \cup {k.end : k \in B}
           to == {s.end} \cup {k.start : k \in B}
<1>1. s.start \in Nat /\ s.end \in Nat
  BY DEF Spans
<1>2. ASSUME NEW k \in B
      PROVE  /\ k.start \in Nat /\ k.end \in Nat
             /\ s.start <= k.start /\ k.start < k.end /\ k.end <= s.end
  BY DEF Breaks, Spans, Inside
<1>3. ASSUME NEW p \in P
      PROVE  /\ p \in Spans /\ p.start \in Nat /\ p.end \in Nat /\ Inside(p, s)
             /\ p.start \in from /\ p.end \in to
             /\ \A k \in B : k.end <= p.start \/ k.start >= p.end
  <2>1. PICK i \in from, j \in to : p = Span(i, j)
    BY DEF Pieces
  <2>2. i \in Nat /\ j \in Nat /\ s.start <= i /\ j <= s.end
    BY <1>1, <1>2
  <2>3. p \in Spans /\ p.start = i /\ p.end = j
    BY <2>1, <2>2, SpanIs
  <2>4. p.start < p.end /\ \A k \in B : k.end <= p.start \/ k.start >= p.end
    BY DEF Pieces
  <2> QED
    BY <2>2, <2>3, <2>4 DEF Inside
<1>4. ASSUME NEW p \in P, NEW q \in P, p.start < q.start PROVE p.end <= q.start
  <2>1. PICK k \in B : q.start = k.end
    BY <1>1, <1>3, <1>4 DEF Inside
  <2>2. k.end <= p.start \/ k.start >= p.end
    BY <1>3
  <2> QED
    BY <1>2, <1>3, <1>4, <2>1, <2>2
<1>5. ASSUME NEW p \in P, NEW q \in P, p.start = q.start PROVE ~(p.end < q.end)
  <2> SUFFICES ASSUME p.end < q.end PROVE FALSE
    OBVIOUS
  <2>1. PICK k \in B : p.end = k.start
    BY <1>1, <1>3, <1>5 DEF Inside
  <2>2. k.end <= q.start \/ k.start >= q.end
    BY <1>3
  <2>3. p.start < p.end
    BY <1>3 DEF Inside
  <2> QED
    BY <1>2, <1>3, <1>5, <2>1, <2>2, <2>3
<1>6. ASSUME NEW i \in s.start .. s.end - 1, t[i + 1] \notin White
      PROVE  \E p \in P : p.start <= i /\ i < p.end
  <2>1. ASSUME NEW k \in B PROVE k.end <= i \/ k.start > i
    <3>1. i \in k.start .. k.end - 1 => t[i + 1] \in White
      BY DEF Breaks
    <3> QED
      BY <1>1, <1>2, <1>6, <3>1
  <2> DEFINE F == {x \in from : x <= i}
             T == {x \in to : x > i}
             a == Max(F)
             b == Min(T)
  <2>2. i \in Int /\ s.start <= i /\ i < s.end
    BY <1>1
  <2>3. F \in SUBSET (0 .. i) /\ F # {}
    BY <1>1, <1>2, <2>2
  <2>4. T \in SUBSET (0 .. s.end) /\ T # {}
    BY <1>1, <1>2, <2>2
  <2>5. a \in F /\ \A y \in F : a >= y
    <3> HIDE DEF F
    <3> QED
      BY ONLY <2>2, <2>3, 0 \in Int, Greatest
  <2>6. b \in T /\ \A y \in T : b <= y
    <3> HIDE DEF T
    <3>1. s.end \in Int
      BY <1>1
    <3> QED
      BY ONLY <2>4, <3>1, 0 \in Int, Least
  <2> HIDE DEF a, b
  <2>7. /\ a \in from /\ b \in to /\ a <= i /\ b > i
        /\ a \in Nat /\ b \in Nat
    BY <2>2, <2>3, <2>4, <2>5, <2>6
  <2>8. ASSUME NEW k \in B PROVE k.end <= a \/ k.start >= b
    <3>1. CASE k.end <= i
      <4>1. k.end \in F
        BY <3>1
      <4>2. a >= k.end
        BY <2>5, <4>1
      <4> QED
        BY <1>2, <2>7, <4>2
    <3>2. CASE k.start > i
      <4>1. k.start \in T
        BY <3>2
      <4> QED
        BY <2>6, <4>1, <1>2, <2>7
    <3> QED
      BY <2>1, <3>1, <3>2
  <2>9. Span(a, b).start = a /\ Span(a, b).end = b
    BY <2>7, SpanIs
  <2>10. HasInk(t, Span(a, b))
    <3>1. i + 1 \in a + 1 .. b
      BY ONLY <2>2, <2>7
    <3> QED
      BY <1>6, <2>9, <3>1 DEF HasInk, Positions
  <2>11. a < b
    BY ONLY <2>2, <2>7
  <2>12. Span(a, b) \in P
    BY ONLY <2>7, <2>8, <2>9, <2>10, <2>11 DEF Pieces
  <2> QED
    BY <2>7, <2>9, <2>12
<1> HIDE DEF P
<1>7. ASSUME NEW p \in P, NEW q \in P
      PROVE  p = q \/ p.end <= q.start \/ q.end <= p.start
  <2>1. CASE p.start = q.start
    <3>1. p.end = q.end
      BY <1>3, <1>5, <2>1
    <3> QED
      BY <1>3, <2>1, <3>1, SpanEqual
  <2>2. CASE p.start # q.start
    BY <1>3, <1>4, <2>2
  <2> QED
    BY <2>1, <2>2
<1> QED
  BY <1>3, <1>6, <1>7 DEF Tiles, P

(* Multiples of Target are Target apart. *)
LEMMA MultiplesApart ==
    ASSUME NEW x \in Nat, NEW y \in Nat, x % Target = 0, y % Target = 0, x < y
    PROVE  x + Target <= y
<1>1. Target \in Nat /\ Target > 0
  BY SizeAssumption
<1>2. PICK m \in Int : x = Target * m
  <2>1. x = Target * (x \div Target) + (x % Target) /\ x \div Target \in Int
    BY <1>1
  <2> QED
    BY <1>1, <2>1
<1>3. PICK n \in Int : y = Target * n
  <2>1. y = Target * (y \div Target) + (y % Target) /\ y \div Target \in Int
    BY <1>1
  <2> QED
    BY <1>1, <2>1
<1>4. m < n
  BY ONLY <1>1, <1>2, <1>3, x < y
<1>5. Target * (m + 1) <= Target * n
  BY ONLY <1>1, <1>4, m \in Int, n \in Int
<1> QED
  BY ONLY <1>1, <1>2, <1>3, <1>5, m \in Int, n \in Int

(* Below every number, less than Target away, there is a multiple of        *)
(* Target.                                                                  *)
LEMMA Remainder ==
    ASSUME NEW x \in Nat
    PROVE  \E r \in 0 .. Target - 1 : x - r \in Nat /\ (x - r) % Target = 0
<1>1. Target \in Nat /\ Target > 0
  BY SizeAssumption
<1>2. x % Target \in 0 .. Target - 1
  BY <1>1
<1>3. x = Target * (x \div Target) + (x % Target) /\ x \div Target \in Nat
  BY <1>1
<1>4. PICK q \in Nat : q = x \div Target
  BY <1>3
<1>5. PICK r \in 0 .. Target - 1 : r = x % Target
  BY <1>2
<1>6. x - r = Target * q
  BY ONLY <1>1, <1>3, <1>4, <1>5, x \in Nat
<1>7. (Target * q) % Target = 0 /\ Target * q \in Nat
  BY ONLY <1>1, q \in Nat
<1> WITNESS r \in 0 .. Target - 1
<1> QED
  BY ONLY <1>6, <1>7

(* A hard cut leaves nothing out, and its parts are within the target. *)
LEMMA HardCutTiles ==
    ASSUME NEW t, NEW s \in Spans
    PROVE  /\ Tiles(t, HardCut(s), s)
           /\ \A p \in HardCut(s) : Size(p) <= Target
<1> DEFINE P == HardCut(s)
           C == {j \in s.start .. s.end - 1 : (j - s.start) % Target = 0}
           E(i) == Min({i + Target, s.end})
<1>1. s.start \in Nat /\ s.end \in Nat /\ Target \in Nat /\ Target > 0
  BY SizeAssumption DEF Spans
<1>2. ASSUME NEW i \in C
      PROVE  /\ E(i) \in {i + Target, s.end} /\ E(i) <= i + Target /\ E(i) <= s.end
             /\ E(i) \in Nat /\ i \in Nat /\ i < E(i) /\ i >= s.start
  <2>1. i \in Nat /\ s.start <= i /\ i < s.end
    BY <1>1
  <2>2. {i + Target, s.end} \in SUBSET (0 .. (i + Target + s.end)) /\ {i + Target, s.end} # {}
    BY <1>1, <2>1
  <2>3. 0 \in Int /\ i + Target + s.end \in Int
    BY <1>1, <2>1
  <2>4. E(i) \in {i + Target, s.end} /\ \A y \in {i + Target, s.end} : E(i) <= y
    BY ONLY <2>2, <2>3, Least
  <2> QED
    BY ONLY <1>1, <2>1, <2>4
<1> HIDE DEF E
<1>3. ASSUME NEW p \in P
      PROVE  \E i \in C : p = Span(i, E(i)) /\ p \in Spans /\ p.start = i /\ p.end = E(i)
  <2>1. PICK i \in C : p = Span(i, E(i))
    BY DEF HardCut, E
  <2>2. p \in Spans /\ p.start = i /\ p.end = E(i)
    BY <1>2, <2>1, SpanIs
  <2> QED
    BY <2>1, <2>2
<1>4. ASSUME NEW p \in P, NEW q \in P, p.start < q.start PROVE p.end <= q.start
  <2>1. PICK i \in C : p.start = i /\ p.end = E(i)
    BY <1>3
  <2>2. PICK j \in C : q.start = j
    BY <1>3
  <2>3. i - s.start \in Nat /\ j - s.start \in Nat /\ i - s.start < j - s.start
    BY <1>1, <1>4, <2>1, <2>2
  <2>4. (i - s.start) % Target = 0 /\ (j - s.start) % Target = 0
    OBVIOUS
  <2>5. i - s.start + Target <= j - s.start
    BY ONLY <2>3, <2>4, MultiplesApart
  <2> QED
    BY <1>1, <1>2, <2>1, <2>2, <2>5
<1>5. ASSUME NEW p \in P, NEW q \in P
      PROVE  p = q \/ p.end <= q.start \/ q.end <= p.start
  <2>1. p.start \in Nat /\ q.start \in Nat
    BY <1>2, <1>3
  <2>2. CASE p.start = q.start
    BY <1>3, <2>2
  <2> QED
    BY ONLY <1>4, <2>1, <2>2, p \in P, q \in P
<1>6. ASSUME NEW i \in s.start .. s.end - 1 PROVE \E p \in P : p.start <= i /\ i < p.end
  <2>1. i \in Nat /\ i - s.start \in Nat
    BY <1>1
  <2>2. PICK x \in Nat : x = i - s.start
    BY <2>1
  <2>3. PICK r \in 0 .. Target - 1 : x - r \in Nat /\ (x - r) % Target = 0
    BY Remainder
  <2>4. PICK j \in Nat : j = s.start + (x - r)
    BY <1>1, <2>3
  <2>5. /\ j - s.start = x - r /\ j <= i /\ i < j + Target /\ j >= s.start
        /\ j \in s.start .. s.end - 1
    BY ONLY <1>1, <2>1, <2>2, <2>3, <2>4, i \in s.start .. s.end - 1
  <2>6. j \in C
    BY ONLY <2>3, <2>5
  <2>7. i < E(j)
    <3>1. E(j) \in {j + Target, s.end}
      BY <1>2, <2>6
    <3> QED
      BY ONLY <1>1, <2>1, <2>5, <3>1, i \in s.start .. s.end - 1
  <2>8. Span(j, E(j)) \in P
    BY <2>6 DEF HardCut, E
  <2>9. Span(j, E(j)).start = j /\ Span(j, E(j)).end = E(j)
    BY <1>2, <2>6, SpanIs
  <2> QED
    BY <2>5, <2>7, <2>8, <2>9
<1>7. ASSUME NEW p \in P PROVE p \in Spans /\ Inside(p, s) /\ Size(p) <= Target
  <2>1. PICK i \in C : p \in Spans /\ p.start = i /\ p.end = E(i)
    BY <1>3
  <2>2. i \in Nat /\ E(i) \in Nat /\ i < E(i) /\ E(i) <= i + Target /\ E(i) <= s.end /\ i >= s.start
    BY <1>2
  <2> QED
    BY ONLY <1>1, <2>1, <2>2 DEF Inside, Size
<1> HIDE DEF P
<1> QED
  BY <1>5, <1>6, <1>7 DEF Tiles, P

(* Tiles of tiles. *)
LEMMA TilesOfTiles ==
    ASSUME NEW t, NEW s \in Spans, NEW P, Tiles(t, P, s),
           NEW D, \A p \in P : Tiles(t, D[p], p)
    PROVE  Tiles(t, UNION {D[p] : p \in P}, s)
<1> DEFINE U == UNION {D[p] : p \in P}
<1>1. ASSUME NEW u \in U PROVE \E p \in P : u \in D[p] /\ u \in Spans /\ Inside(u, p)
  BY DEF Tiles
<1>2. s.start \in Nat /\ s.end \in Nat
  BY DEF Spans
<1>3. ASSUME NEW p \in P PROVE p.start \in Nat /\ p.end \in Nat /\ Inside(p, s)
  BY DEF Tiles, Spans
<1>4. ASSUME NEW u \in U PROVE u \in Spans /\ u.start \in Nat /\ u.end \in Nat /\ Inside(u, s)
  <2>1. PICK p \in P : u \in Spans /\ Inside(u, p)
    BY <1>1
  <2>2. u.start \in Nat /\ u.end \in Nat
    BY <2>1 DEF Spans
  <2> QED
    BY <1>2, <1>3, <2>1, <2>2 DEF Inside
<1>5. ASSUME NEW u \in U, NEW v \in U PROVE u = v \/ u.end <= v.start \/ v.end <= u.start
  <2>1. PICK p \in P : u \in D[p] /\ Inside(u, p)
    BY <1>1
  <2>2. PICK q \in P : v \in D[q] /\ Inside(v, q)
    BY <1>1
  <2>3. CASE p = q
    BY <2>1, <2>2, <2>3 DEF Tiles
  <2>4. CASE p # q
    <3>1. p.end <= q.start \/ q.end <= p.start
      BY <2>4 DEF Tiles
    <3> QED
      BY <1>3, <1>4, <2>1, <2>2, <3>1 DEF Inside
  <2> QED
    BY <2>3, <2>4
<1>6. ASSUME NEW i \in s.start .. s.end - 1, t[i + 1] \notin White
      PROVE  \E u \in U : u.start <= i /\ i < u.end
  <2>1. PICK p \in P : p.start <= i /\ i < p.end
    BY <1>6 DEF Tiles
  <2>2. i \in p.start .. p.end - 1
    BY <1>2, <1>3, <2>1
  <2>3. PICK u \in D[p] : u.start <= i /\ i < u.end
    BY <1>6, <2>2 DEF Tiles
  <2> QED
    BY <2>3
<1> HIDE DEF U
<1> QED
  BY <1>4, <1>5, <1>6 DEF Tiles, U

(* A span tiles itself. *)
LEMMA ItselfTiles ==
    ASSUME NEW t, NEW s \in Spans, s.start < s.end
    PROVE  Tiles(t, {s}, s)
<1>1. s.start \in Nat /\ s.end \in Nat
  BY DEF Spans
<1> QED
  BY <1>1 DEF Tiles, Inside

(* What plain text is packed from. *)
LEMMA PresplitTiles ==
    ASSUME NEW t, NEW s \in Spans
    PROVE  /\ Tiles(t, Presplit(t, Pieces(t, s, ParagraphBreaks(t, s))), s)
           /\ \A p \in Presplit(t, Pieces(t, s, ParagraphBreaks(t, s))) : Size(p) <= Target
<1> DEFINE A == Pieces(t, s, ParagraphBreaks(t, s))
           B(a) == Pieces(t, a, SentenceBreaks(t, a))
           E(b) == IF Size(b) <= Target THEN {b} ELSE HardCut(b)
           D(a) == IF Size(a) <= Target THEN {a} ELSE UNION {E(b) : b \in B(a)}
<1>1. Tiles(t, A, s)
  BY ParagraphBreaksBreak, PiecesTile
<1>2. ASSUME NEW b \in Spans, b.start < b.end
      PROVE  Tiles(t, E(b), b) /\ \A p \in E(b) : Size(p) <= Target
  BY <1>2, ItselfTiles, HardCutTiles
<1>3. ASSUME NEW a \in Spans, a.start < a.end
      PROVE  Tiles(t, D(a), a) /\ \A p \in D(a) : Size(p) <= Target
  <2>1. CASE Size(a) <= Target
    BY <1>3, <2>1, ItselfTiles
  <2>2. CASE ~(Size(a) <= Target)
    <3>1. Tiles(t, B(a), a)
      BY SentenceBreaksBreak, PiecesTile
    <3>2. \A b \in B(a) : b \in Spans /\ b.start < b.end
      BY <3>1 DEF Tiles, Inside
    <3> DEFINE F == [b \in B(a) |-> E(b)]
    <3> HIDE DEF E, B
    <3>3. \A b \in B(a) : Tiles(t, F[b], b) /\ \A p \in F[b] : Size(p) <= Target
      BY <1>2, <3>2
    <3>4. D(a) = UNION {F[b] : b \in B(a)}
      BY <2>2
    <3> HIDE DEF F, D
    <3>5. Tiles(t, D(a), a)
      BY <3>1, <3>3, <3>4, TilesOfTiles
    <3> QED
      BY <3>3, <3>4, <3>5
  <2> QED
    BY <2>1, <2>2
<1>4. Presplit(t, A) = UNION {D(a) : a \in A}
  BY DEF Presplit, Refine
<1>5. \A a \in A : a \in Spans /\ a.start < a.end
  BY <1>1 DEF Tiles, Inside
<1> DEFINE F == [a \in A |-> D(a)]
<1> HIDE DEF D, A
<1>6. \A a \in A : Tiles(t, F[a], a) /\ \A p \in F[a] : Size(p) <= Target
  BY <1>3, <1>5
<1>7. Presplit(t, A) = UNION {F[a] : a \in A}
  BY <1>4
<1> HIDE DEF F
<1>8. Tiles(t, Presplit(t, A), s)
  BY <1>1, <1>6, <1>7, TilesOfTiles
<1> QED
  BY <1>6, <1>7, <1>8 DEF A

(* Spans that follow each other. *)
Chain(q, s) ==
    /\ q \in Seq(Spans)
    /\ \A i \in DOMAIN q : Inside(q[i], s)
    /\ \A i, j \in DOMAIN q : i < j => q[i].end <= q[j].start

(* The members of a sequence. *)
Members(q) == {q[i] : i \in DOMAIN q}

(* Tiles, in order, follow each other. *)
LEMMA InOrderChains ==
    ASSUME NEW t, NEW s \in Spans, NEW P, Tiles(t, P, s)
    PROVE  Chain(InOrder(P), s) /\ Members(InOrder(P)) = P
<1> DEFINE S == {p.start : p \in P}
           n == Cardinality(S)
           at == Ascending(S)
           q == InOrder(P)
<1>1. s.start \in Nat /\ s.end \in Nat
  BY DEF Spans
<1>2. ASSUME NEW p \in P PROVE p \in Spans /\ p.start \in Nat /\ p.end \in Nat /\ Inside(p, s)
  BY DEF Tiles, Spans
<1>3. S \in SUBSET (s.start .. s.end)
  BY <1>1, <1>2 DEF Inside
<1>4. IsFiniteSet(S) /\ S \in SUBSET Int
  <2>1. IsFiniteSet(S)
    <3> HIDE DEF S
    <3>1. s.start \in Int /\ s.end \in Int
      BY <1>1
    <3> QED
      BY ONLY <1>3, <3>1, IntervalFinite
  <2>2. S \in SUBSET Int
    BY <1>2
  <2> QED
    BY <2>1, <2>2
<1>5. /\ n \in Nat /\ at \in [1 .. n -> S]
      /\ \A i, j \in 1 .. n : i < j => at[i] < at[j]
      /\ \A x \in S : \E i \in 1 .. n : at[i] = x
  <2> HIDE DEF S
  <2> QED
    BY <1>4, AscendingIs
<1>6. ASSUME NEW x \in S, NEW p \in P, NEW r \in P, p.start = x, r.start = x PROVE p = r
  <2>1. p.start \in Nat /\ r.start \in Nat /\ p.end \in Nat /\ r.end \in Nat
        /\ p.start < p.end /\ r.start < r.end
    BY <1>2 DEF Inside
  <2>2. p = r \/ p.end <= r.start \/ r.end <= p.start
    BY DEF Tiles
  <2> QED
    BY ONLY <1>6, <2>1, <2>2
<1>7. q = [i \in 1 .. n |-> CHOOSE p \in P : p.start = at[i]]
  <2>1. DOMAIN at = 1 .. n
    BY <1>5
  <2>2. q = [i \in DOMAIN at |-> CHOOSE p \in P : p.start = at[i]]
    BY DEF InOrder
  <2> QED
    BY ONLY <2>1, <2>2
<1>8. ASSUME NEW i \in 1 .. n PROVE q[i] \in P /\ q[i].start = at[i]
  <2>1. at[i] \in S
    BY <1>5
  <2>2. PICK p \in P : p.start = at[i]
    BY <2>1
  <2>3. q[i] = CHOOSE r \in P : r.start = at[i]
    BY ONLY <1>7, i \in 1 .. n
  <2> QED
    BY ONLY <2>2, <2>3
<1>9. q \in Seq(Spans) /\ DOMAIN q = 1 .. n
  <2>1. q \in [1 .. n -> Spans]
    <3>1. \A i \in 1 .. n : q[i] \in Spans
      BY <1>2, <1>8
    <3> QED
      BY ONLY <1>7, <3>1
  <2> QED
    BY ONLY <1>5, <2>1
<1> HIDE DEF q, at, S, n
<1>10. ASSUME NEW i \in 1 .. n, NEW j \in 1 .. n, i < j PROVE q[i].end <= q[j].start
  <2>1. at[i] < at[j]
    BY <1>5, <1>10
  <2>2. q[i] \in P /\ q[j] \in P /\ q[i].start < q[j].start
    BY <1>8, <2>1
  <2>3. PICK p \in P : p = q[i]
    BY <2>2
  <2>4. PICK r \in P : r = q[j]
    BY <2>2
  <2>5. p.start \in Nat /\ r.start \in Nat /\ p.end \in Nat /\ r.end \in Nat
        /\ p.start < p.end /\ r.start < r.end
    BY <1>2 DEF Inside
  <2>6. p = r \/ p.end <= r.start \/ r.end <= p.start
    BY DEF Tiles
  <2> QED
    BY ONLY <2>2, <2>3, <2>4, <2>5, <2>6
<1>11. Members(q) = P
  <2>1. \A p \in P : \E i \in 1 .. n : q[i] = p
    <3> SUFFICES ASSUME NEW p \in P PROVE \E i \in 1 .. n : q[i] = p
      OBVIOUS
    <3>1. p.start \in S
      BY DEF S
    <3>2. PICK i \in 1 .. n : at[i] = p.start
      BY <1>5, <3>1
    <3>3. q[i] \in P /\ q[i].start = p.start
      BY <1>8, <3>2
    <3>4. q[i] = p
      BY <1>6, <3>1, <3>3
    <3> QED
      BY <3>4
  <2> QED
    BY <1>8, <1>9, <2>1 DEF Members
<1>12. \A i \in 1 .. n : Inside(q[i], s)
  BY <1>2, <1>8
<1> QED
  BY <1>9, <1>10, <1>11, <1>12 DEF Chain, q

-----------------------------------------------------------------------------
(* Recursion: what is defined from the previous member. *)

(* What holds of b and is handed on from every number to the next, up to L, *)
(* holds from b to L.                                                       *)
LEMMA InductionFrom ==
    ASSUME NEW b \in Nat, NEW L \in Nat, NEW S,
           b \in S, \A n \in b + 1 .. L : n - 1 \in S => n \in S
    PROVE  \A n \in b .. L : n \in S
<1> DEFINE K == {k \in Nat : b + k <= L => b + k \in S}
<1>1. 0 \in K
  OBVIOUS
<1>2. ASSUME NEW k \in Nat, k \in K PROVE k + 1 \in K
  <2>1. CASE b + (k + 1) <= L
    <3>1. b + k \in S /\ b + (k + 1) \in b + 1 .. L
      BY <1>2, <2>1
    <3>2. b + (k + 1) - 1 = b + k
      OBVIOUS
    <3> QED
      BY <3>1, <3>2
  <2> QED
    BY <2>1
<1>3. Nat \subseteq K
  <2> HIDE DEF K
  <2> QED
    BY <1>1, <1>2, Induction
<1> TAKE n \in b .. L
<1>4. n - b \in K /\ b + (n - b) = n /\ n <= L
  BY <1>3
<1> QED
  BY <1>4

(* Recursion from b to L: F[n] takes the value before n to the one at n. *)
Closed(F, b, L, A) == F \in [b + 1 .. L -> [A -> A]]

Iterates(f, b, L, a, F) ==
    f[b] = a /\ \A n \in b + 1 .. L : f[n] = F[n][f[n - 1]]

(* A function that is defined, from b to L, by its previous value exists. *)
LEMMA Recursion ==
    ASSUME NEW b \in Nat, NEW L \in Nat, b <= L, NEW A, NEW a \in A,
           NEW F, Closed(F, b, L, A)
    PROVE  \E f \in [b .. L -> A] : Iterates(f, b, L, a, F)
<1> DEFINE Upto(k) == \E f \in [b .. k -> A] :
                         f[b] = a /\ \A n \in b + 1 .. k : f[n] = F[n][f[n - 1]]
           S == {k \in b .. L : Upto(k)}
<1>1. b \in S
  <2> DEFINE f == [n \in b .. b |-> a]
  <2>1. f \in [b .. b -> A] /\ f[b] = a
    OBVIOUS
  <2>2. b + 1 .. b = {}
    OBVIOUS
  <2>3. Upto(b)
    BY <2>1, <2>2
  <2> QED
    BY <2>3
<1>2. ASSUME NEW m \in b + 1 .. L, m - 1 \in S PROVE m \in S
  <2>0. PICK k \in b .. L - 1 : k = m - 1 /\ m = k + 1
    OBVIOUS
  <2>1. PICK f \in [b .. k -> A] :
            f[b] = a /\ \A n \in b + 1 .. k : f[n] = F[n][f[n - 1]]
    BY <1>2, <2>0
  <2> DEFINE g == [n \in b .. k + 1 |-> IF n <= k THEN f[n] ELSE F[k + 1][f[k]]]
  <2>2. k \in Nat /\ k + 1 \in b + 1 .. L /\ k \in b .. k
    OBVIOUS
  <2>3. f[k] \in A /\ F[k + 1][f[k]] \in A
    <3>1. F[k + 1] \in [A -> A]
      BY <2>2 DEF Closed
    <3> QED
      BY <2>2, <3>1
  <2>4. \A n \in b .. k : g[n] = f[n] /\ f[n] \in A
    BY <2>2
  <2>5. g[k + 1] = F[k + 1][f[k]]
    BY <2>2
  <2>6. \A n \in b .. k + 1 : g[n] \in A
    BY ONLY <2>2, <2>3, <2>4, <2>5, b \in Nat
  <2>7. g \in [b .. k + 1 -> A]
    BY <2>6
  <2> HIDE DEF g
  <2>8. g[b] = a
    BY <2>1, <2>2, <2>4
  <2>9. ASSUME NEW n \in b + 1 .. k + 1 PROVE g[n] = F[n][g[n - 1]]
    <3>1. CASE n \in b + 1 .. k
      <4>1. n \in b .. k /\ n - 1 \in b .. k
        BY <2>2, <3>1
      <4> QED
        BY <2>1, <2>4, <3>1, <4>1
    <3>2. CASE n = k + 1
      <4>1. n - 1 = k /\ k \in b .. k
        BY <2>2, <3>2
      <4> QED
        BY <2>4, <2>5, <3>2, <4>1
    <3> QED
      BY <2>2, <3>1, <3>2
  <2>10. Upto(k + 1)
    BY <2>7, <2>8, <2>9
  <2> QED
    BY <2>0, <2>2, <2>10
<1>3. L \in S
  <2> HIDE DEF S
  <2>1. \A k \in b .. L : k \in S
    BY <1>1, <1>2, InductionFrom
  <2> QED
    BY <2>1
<1> QED
  BY <1>3 DEF Iterates

(* FlattenSeq puts the members together one after the other: the fold of    *)
(* the library is such a function.                                          *)
LEMMA FlattenSteps ==
    ASSUME NEW A, NEW q \in Seq(Seq(A)), q # <<>>
    PROVE  \E f \in [1 .. Len(q) -> Seq(A)] :
               /\ f[1] = q[1]
               /\ \A n \in 2 .. Len(q) : f[n] = f[n - 1] \o q[n]
               /\ FlattenSeq(q) = f[Len(q)]
<1> DEFINE L == Len(q)
           Step(f) == [i \in 1 .. L |-> IF i = 1 THEN q[i] ELSE f[i - 1] \o q[i]]
           F == [i \in 1 + 1 .. L |-> [x \in Seq(A) |-> x \o q[i]]]
           g == CHOOSE g : g = Step(g)
<1>1. L \in Nat /\ L >= 1 /\ L # 0 /\ \A i \in 1 .. L : q[i] \in Seq(A)
  BY EmptySeq, LenProperties, ElementOfSeq
<1>2. \A x \in Seq(A), i \in 1 + 1 .. L : F[i][x] = x \o q[i] /\ x \o q[i] \in Seq(A)
  <2>1. \A i \in 1 + 1 .. L : i \in 1 .. L
    BY <1>1
  <2> QED
    BY <1>1, <2>1, ConcatProperties
<1>3. F \in [1 + 1 .. L -> [Seq(A) -> Seq(A)]]
  BY <1>2
<1> HIDE DEF F, L
<1>4. PICK f \in [1 .. L -> Seq(A)] :
          f[1] = q[1] /\ \A n \in 1 + 1 .. L : f[n] = F[n][f[n - 1]]
  <2>1. 1 \in Nat /\ L \in Nat /\ 1 <= L /\ q[1] \in Seq(A)
    BY <1>1
  <2>2. Closed(F, 1, L, Seq(A))
    BY <1>3 DEF Closed
  <2>3. \E f \in [1 .. L -> Seq(A)] : Iterates(f, 1, L, q[1], F)
    BY ONLY <2>1, <2>2, Recursion
  <2> QED
    BY <2>3 DEF Iterates
<1>5. \A n \in 2 .. L : f[n] = f[n - 1] \o q[n]
  <2> TAKE n \in 2 .. L
  <2>1. n \in 1 + 1 .. L /\ n - 1 \in 1 .. L
    BY <1>1
  <2> QED
    BY <1>2, <1>4, <2>1
<1>6. f = Step(f)
  <2>1. \A i \in 1 .. L : f[i] = IF i = 1 THEN q[i] ELSE f[i - 1] \o q[i]
    <3> TAKE i \in 1 .. L
    <3>1. CASE i = 1
      BY <1>4, <3>1
    <3>2. CASE i # 1
      <4>1. i \in 2 .. L
        BY <1>1, <3>2
      <4> QED
        BY <1>5, <3>2, <4>1
    <3> QED
      BY <3>1, <3>2
  <2> QED
    BY <2>1
<1> HIDE DEF Step
<1>7. g = Step(g)
  BY <1>6
<1> HIDE DEF g
<1>8. \A i \in 1 .. L : g[i] = IF i = 1 THEN q[i] ELSE g[i - 1] \o q[i]
  <2>1. \A i \in 1 .. L : Step(g)[i] = IF i = 1 THEN q[i] ELSE g[i - 1] \o q[i]
    BY DEF Step
  <2> QED
    BY ONLY <1>7, <2>1
<1> DEFINE S == {n \in 1 .. L : g[n] \in Seq(A)}
<1>9. 1 \in S
  <2>1. 1 \in 1 .. L /\ q[1] \in Seq(A)
    BY <1>1
  <2>2. g[1] = q[1]
    BY <1>8, <2>1
  <2> QED
    BY <2>1, <2>2
<1>10. ASSUME NEW n \in 1 + 1 .. L, n - 1 \in S PROVE n \in S
  <2>1. n \in 1 .. L /\ n # 1
    BY <1>1
  <2>2. g[n] = g[n - 1] \o q[n]
    BY <1>8, <2>1
  <2>3. g[n - 1] \o q[n] \in Seq(A)
    BY <1>1, <1>10, <2>1, ConcatProperties
  <2> QED
    BY <2>1, <2>2, <2>3
<1>11. \A n \in 1 .. L : g[n] \in Seq(A)
  <2> HIDE DEF S
  <2>1. \A n \in 1 .. L : n \in S
    BY ONLY <1>1, <1>9, <1>10, InductionFrom
  <2> QED
    BY <2>1 DEF S
<1>12. g \in [1 .. L -> Seq(A)]
  <2>1. \A i \in 1 .. L : (IF i = 1 THEN q[i] ELSE g[i - 1] \o q[i]) \in Seq(A)
    BY <1>8, <1>11
  <2>2. Step(g) \in [1 .. L -> Seq(A)]
    BY <2>1 DEF Step
  <2> QED
    BY ONLY <1>7, <2>2
<1>13. g[1] = q[1] /\ \A n \in 2 .. L : g[n] = g[n - 1] \o q[n]
  <2>1. 1 \in 1 .. L /\ \A n \in 2 .. L : n \in 1 .. L /\ n # 1
    BY <1>1
  <2> QED
    BY <1>8, <2>1
<1>14. FlattenSeq(q) = g[L]
  BY <1>1 DEF FlattenSeq, g, Step, L
<1> QED
  BY <1>12, <1>13, <1>14 DEF L

-----------------------------------------------------------------------------
(* Packing. *)

(* Whatever satisfies a recursive definition is that function. *)
LEMMA IteratesOnly ==
    ASSUME NEW b \in Nat, NEW L \in Nat, b <= L, NEW A, NEW a \in A,
           NEW F, Closed(F, b, L, A), NEW g, g[b] = a,
           \A n \in b + 1 .. L : g[n - 1] \in A => g[n] = F[n][g[n - 1]]
    PROVE  Iterates(g, b, L, a, F) /\ \A n \in b .. L : g[n] \in A
<1> DEFINE S == {n \in b .. L : g[n] \in A}
<1>1. b \in S
  OBVIOUS
<1>2. ASSUME NEW n \in b + 1 .. L, n - 1 \in S PROVE n \in S
  <2>1. F[n] \in [A -> A] /\ g[n - 1] \in A
    BY <1>2 DEF Closed
  <2>2. n \in b .. L
    OBVIOUS
  <2> QED
    BY <2>1, <2>2
<1>3. \A n \in b .. L : n \in S
  <2> HIDE DEF S
  <2> QED
    BY ONLY <1>1, <1>2, b \in Nat, L \in Nat, InductionFrom
<1>4. \A n \in b + 1 .. L : n - 1 \in b .. L
  OBVIOUS
<1> QED
  BY <1>3, <1>4 DEF Iterates

(* Sums adds up sizes from the left. *)
LEMMA SumsIs ==
    ASSUME NEW sizes \in Seq(Nat)
    PROVE  /\ Sums(sizes)[0] = 0
           /\ \A n \in 0 .. Len(sizes) : Sums(sizes)[n] \in Nat
           /\ \A n \in 1 .. Len(sizes) : Sums(sizes)[n] = Sums(sizes)[n - 1] + sizes[n]
<1> DEFINE L == Len(sizes)
           Step(f) == [n \in 0 .. L |-> IF n = 0 THEN 0 ELSE f[n - 1] + sizes[n]]
           F == [n \in 0 + 1 .. L |-> [x \in Nat |-> x + sizes[n]]]
           g == CHOOSE g : g = Step(g)
<1>1. L \in Nat /\ \A n \in 1 .. L : sizes[n] \in Nat
  OBVIOUS
<1> DEFINE N == Nat
<1>2. Closed(F, 0, L, N) /\ 0 \in N
  BY <1>1 DEF Closed
<1>3. \A n \in 0 + 1 .. L, x \in Nat : F[n][x] = x + sizes[n] /\ n \in 1 .. L
  OBVIOUS
<1> HIDE DEF F, L, N
<1>4. PICK f \in [0 .. L -> N] : Iterates(f, 0, L, 0, F)
  <2>1. 0 \in Nat /\ 0 <= L
    BY <1>1
  <2> QED
    BY ONLY <1>1, <1>2, <2>1, Recursion
<1>5. f[0] = 0 /\ \A n \in 1 .. L : f[n] = f[n - 1] + sizes[n]
  <2>1. \A n \in 1 .. L : n \in 0 + 1 .. L /\ n - 1 \in 0 .. L
    BY <1>1
  <2>2. \A n \in 1 .. L : f[n - 1] \in Nat
    BY <2>1 DEF N
  <2>3. \A n \in 1 .. L : f[n] = F[n][f[n - 1]]
    BY <1>4, <2>1 DEF Iterates
  <2> QED
    BY <1>3, <1>4, <2>1, <2>2, <2>3 DEF Iterates
<1>6. f = Step(f)
  <2>1. \A n \in 0 .. L : f[n] = IF n = 0 THEN 0 ELSE f[n - 1] + sizes[n]
    BY <1>1, <1>5
  <2> QED
    BY <2>1
<1> HIDE DEF Step
<1>7. g = Step(g)
  BY <1>6
<1> HIDE DEF g
<1>8. \A n \in 0 .. L : g[n] = IF n = 0 THEN 0 ELSE g[n - 1] + sizes[n]
  <2>1. \A n \in 0 .. L : Step(g)[n] = IF n = 0 THEN 0 ELSE g[n - 1] + sizes[n]
    BY DEF Step
  <2> QED
    BY ONLY <1>7, <2>1
<1>9. g[0] = 0 /\ \A n \in 1 .. L : g[n] = g[n - 1] + sizes[n]
  BY <1>1, <1>8
<1>10. \A n \in 0 .. L : g[n] \in N
  <2>1. \A n \in 0 + 1 .. L : g[n - 1] \in N => g[n] = F[n][g[n - 1]]
    BY <1>3, <1>9 DEF N
  <2>2. 0 \in Nat /\ 0 <= L
    BY <1>1
  <2>3. g[0] = 0
    BY <1>9
  <2> QED
    BY ONLY <1>1, <1>2, <2>1, <2>2, <2>3, IteratesOnly
<1>11. Sums(sizes) = g
  BY DEF Sums, g, Step, L
<1> QED
  BY <1>9, <1>10, <1>11 DEF L, N

(* What a stretch of sizes adds up to. *)
LEMMA TotalIs ==
    ASSUME NEW sizes \in Seq(Nat), NEW i \in Nat, NEW j \in Nat, 1 <= i, j <= Len(sizes)
    PROVE  /\ i <= j + 1 => Total(sizes, i, j) \in Int
           /\ i = j + 1 => Total(sizes, i, j) = 0
           /\ i <= j => Total(sizes, i, j) = Total(sizes, i, j - 1) + sizes[j]
<1> DEFINE s == Sums(sizes)
<1>1. Len(sizes) \in Nat /\ \A n \in 1 .. Len(sizes) : sizes[n] \in Nat
  OBVIOUS
<1>2. /\ \A n \in 0 .. Len(sizes) : s[n] \in Nat
      /\ \A n \in 1 .. Len(sizes) : s[n] = s[n - 1] + sizes[n]
  BY SumsIs
<1> HIDE DEF s
<1>3. Total(sizes, i, j) = s[j] - s[i - 1] /\ Total(sizes, i, j - 1) = s[j - 1] - s[i - 1]
  BY DEF Total, s
<1>4. s[j] \in Nat
  BY <1>1, <1>2
<1>5. CASE i <= j
  <2>1. s[i - 1] \in Nat /\ s[j - 1] \in Nat /\ s[j] = s[j - 1] + sizes[j] /\ sizes[j] \in Nat
    BY <1>1, <1>2, <1>5
  <2> QED
    BY ONLY <1>3, <1>4, <1>5, <2>1, i \in Nat, j \in Nat
<1>6. CASE i = j + 1
  <2>1. i - 1 = j
    BY <1>6
  <2> QED
    BY <1>3, <1>4, <1>6, <2>1
<1> QED
  BY <1>5, <1>6

(* What is carried over is a tail of the group, and within the overlap. *)
LEMMA CarryIs ==
    ASSUME NEW sizes \in Seq(Nat), NEW i \in Nat, NEW j \in Nat,
           1 <= i, i <= j, j <= Len(sizes), NEW overlap \in Nat
    PROVE  /\ Carry(sizes, i, j, overlap) \in i .. j + 1
           /\ Total(sizes, Carry(sizes, i, j, overlap), j) <= overlap
<1> DEFINE C == {k \in i .. j + 1 : Total(sizes, k, j) <= overlap}
<1>1. C \in SUBSET (i .. j + 1)
  OBVIOUS
<1>2. j + 1 \in C
  <2>1. PICK k \in Nat : k = j + 1
    OBVIOUS
  <2>2. Total(sizes, k, j) = 0
    BY ONLY <2>1, sizes \in Seq(Nat), 1 <= i, i <= j, j <= Len(sizes), i \in Nat, j \in Nat, TotalIs
  <2>3. k \in i .. j + 1
    BY <2>1
  <2> QED
    BY <2>1, <2>2, <2>3
<1>3. Carry(sizes, i, j, overlap) = Min(C)
  BY DEF Carry
<1> HIDE DEF C
<1>4. Min(C) \in C
  <2>1. i \in Int /\ j + 1 \in Int
    OBVIOUS
  <2> QED
    BY ONLY <1>1, <1>2, <2>1, Least
<1> QED
  BY <1>1, <1>3, <1>4 DEF C

Groupings == [first : Nat, last : Nat]

(* One group: a single one, or within the room, or the carried ones and one more. *)
Fits(sizes, room, overlap, g) ==
    \/ g.first = g.last
    \/ Total(sizes, g.first, g.last) <= room
    \/ Total(sizes, g.first, g.last - 1) <= overlap

(* One group after another. *)
Continues(sizes, overlap, g, h) ==
    /\ g.first <= h.first /\ h.first <= g.last + 1 /\ g.last < h.last
    /\ Total(sizes, h.first, g.last) <= overlap

(* The groups q of the first n sizes: they begin with the first and end     *)
(* with the n-th, each fits, and each continues the one before it.          *)
Grouped(sizes, room, overlap, q, n) ==
    /\ q \in Seq(Groupings) /\ q # <<>>
    /\ q[1].first = 1 /\ q[Len(q)].last = n
    /\ \A k \in 1 .. Len(q) :
          /\ 1 <= q[k].first /\ q[k].first <= q[k].last /\ q[k].last <= n
          /\ Fits(sizes, room, overlap, q[k])
    /\ \A k \in 2 .. Len(q) : Continues(sizes, overlap, q[k - 1], q[k])

(* The first group. *)
LEMMA GroupedFirst ==
    ASSUME NEW sizes \in Seq(Nat), NEW room \in Int, NEW overlap \in Nat
    PROVE  Grouped(sizes, room, overlap, Append(<<>>, [first |-> 1, last |-> 1]), 1)
<1> DEFINE g == [first |-> 1, last |-> 1]
           q == Append(<<>>, g)
<1>1. g \in Groupings /\ g.first = 1 /\ g.last = 1
  BY DEF Groupings
<1>2. Fits(sizes, room, overlap, g)
  BY <1>1 DEF Fits
<1> HIDE DEF g
<1>3. q \in Seq(Groupings) /\ Len(q) = 1 /\ q[1] = g /\ q # <<>>
  BY <1>1
<1> HIDE DEF q
<1>4. \A k \in 1 .. Len(q) : q[k] = g
  BY <1>3
<1>5. 2 .. Len(q) = {}
  BY <1>3
<1>6. Grouped(sizes, room, overlap, q, 1)
  BY <1>1, <1>2, <1>3, <1>4, <1>5 DEF Grouped
<1> QED
  BY <1>6 DEF q, g

(* The last group takes one more. *)
LEMMA GroupedStays ==
    ASSUME NEW sizes \in Seq(Nat), NEW room \in Int, NEW overlap \in Nat,
           NEW done \in Seq(Groupings), NEW first \in Nat, NEW n \in Nat, NEW m \in Nat, n = m + 1,
           Grouped(sizes, room, overlap, Append(done, [first |-> first, last |-> m]), m),
           Total(sizes, first, n) <= room
    PROVE  Grouped(sizes, room, overlap, Append(done, [first |-> first, last |-> n]), n)
<1> DEFINE g == [first |-> first, last |-> m]
           h == [first |-> first, last |-> n]
           q == Append(done, g)
           r == Append(done, h)
           L == Len(done) + 1
<1>1. /\ g \in Groupings /\ g.first = first /\ g.last = m
      /\ h \in Groupings /\ h.first = first /\ h.last = n
  BY DEF Groupings
<1>2. Fits(sizes, room, overlap, h)
  BY <1>1 DEF Fits
<1> HIDE DEF g, h
<1>3. L \in Nat /\ L >= 1
  OBVIOUS
<1>4. /\ q \in Seq(Groupings) /\ Len(q) = L /\ q[L] = g
      /\ \A k \in 1 .. L - 1 : q[k] = done[k]
  BY <1>1
<1>5. /\ r \in Seq(Groupings) /\ Len(r) = L /\ r[L] = h
      /\ \A k \in 1 .. L - 1 : r[k] = done[k]
  BY <1>1
<1>6. Grouped(sizes, room, overlap, q, m)
  BY DEF g
<1> HIDE DEF q, r, L
<1>7. \A k \in 1 .. L : k = L \/ k \in 1 .. L - 1
  BY <1>3
<1>8. \A k \in 1 .. L - 1 : r[k] = q[k] /\ q[k] \in Groupings
  BY <1>3, <1>4, <1>5
<1>9. \A k \in 1 .. L : r[k].first = q[k].first
  <2> SUFFICES ASSUME NEW k \in 1 .. L PROVE r[k].first = q[k].first
    OBVIOUS
  <2>1. CASE k = L
    BY <1>1, <1>4, <1>5, <2>1
  <2>2. CASE k \in 1 .. L - 1
    BY <1>8, <2>2
  <2> QED
    BY <1>7, <2>1, <2>2
<1>10. \A k \in 1 .. L : q[k].last \in Nat /\ q[k].first \in Nat
  <2>1. \A k \in 1 .. L : q[k] \in Groupings
    BY <1>3, <1>4
  <2> QED
    BY <2>1 DEF Groupings
<1>11. r[1].first = 1 /\ r # <<>>
  <2>1. 1 \in 1 .. L
    BY <1>3
  <2> QED
    BY <1>3, <1>5, <1>6, <1>9, <2>1 DEF Grouped
<1>12. \A k \in 1 .. L :
          /\ 1 <= r[k].first /\ r[k].first <= r[k].last /\ r[k].last <= n
          /\ Fits(sizes, room, overlap, r[k])
  <2> SUFFICES ASSUME NEW k \in 1 .. L
               PROVE  /\ 1 <= r[k].first /\ r[k].first <= r[k].last /\ r[k].last <= n
                      /\ Fits(sizes, room, overlap, r[k])
    OBVIOUS
  <2>1. /\ 1 <= q[k].first /\ q[k].first <= q[k].last /\ q[k].last <= m
        /\ Fits(sizes, room, overlap, q[k])
    BY <1>4, <1>6 DEF Grouped
  <2>2. CASE k = L
    <3>1. 1 <= first /\ first <= m
      BY <1>1, <1>4, <2>1, <2>2
    <3> QED
      BY <1>1, <1>2, <1>5, <2>2, <3>1
  <2>3. CASE k \in 1 .. L - 1
    <3>1. r[k] = q[k] /\ q[k].last \in Nat
      BY <1>8, <1>10, <2>3
    <3> QED
      BY <2>1, <3>1
  <2> QED
    BY <1>7, <2>2, <2>3
<1>13. \A k \in 2 .. L : Continues(sizes, overlap, r[k - 1], r[k])
  <2> SUFFICES ASSUME NEW k \in 2 .. L PROVE Continues(sizes, overlap, r[k - 1], r[k])
    OBVIOUS
  <2>1. Continues(sizes, overlap, q[k - 1], q[k])
    BY <1>4, <1>6 DEF Grouped
  <2>2. k - 1 \in 1 .. L - 1 /\ k \in 1 .. L
    BY <1>3
  <2>3. r[k - 1] = q[k - 1]
    BY <1>8, <2>2
  <2>4. CASE k = L
    <3>1. PICK p \in Groupings : p = q[k - 1]
      BY <1>8, <2>2
    <3>2. Continues(sizes, overlap, p, g)
      BY <1>4, <2>1, <2>4, <3>1
    <3>3. p.last \in Nat
      BY DEF Groupings
    <3>4. Continues(sizes, overlap, p, h)
      BY <1>1, <3>2, <3>3 DEF Continues
    <3> QED
      BY <1>5, <2>3, <2>4, <3>1, <3>4
  <2>5. CASE k \in 1 .. L - 1
    BY <1>8, <2>1, <2>3, <2>5
  <2> QED
    BY <1>7, <2>2, <2>4, <2>5
<1>14. Grouped(sizes, room, overlap, r, n)
  BY <1>1, <1>5, <1>11, <1>12, <1>13 DEF Grouped
<1> QED
  BY <1>14 DEF r, h

(* A group is finished and the next one begins. *)
LEMMA GroupedMoves ==
    ASSUME NEW sizes \in Seq(Nat), NEW room \in Int, NEW overlap \in Nat,
           NEW q, NEW first \in Nat, NEW n \in Nat, NEW m \in Nat, n = m + 1,
           Grouped(sizes, room, overlap, q, m),
           first \in q[Len(q)].first .. m + 1, Total(sizes, first, m) <= overlap
    PROVE  Grouped(sizes, room, overlap, Append(q, [first |-> first, last |-> n]), n)
<1> DEFINE h == [first |-> first, last |-> n]
           r == Append(q, h)
           L == Len(q)
<1>1. h \in Groupings /\ h.first = first /\ h.last = n
  BY DEF Groupings
<1>2. Fits(sizes, room, overlap, h)
  <2>1. h.last - 1 = m
    BY <1>1
  <2> QED
    BY <1>1, <2>1 DEF Fits
<1> HIDE DEF h
<1>3. q \in Seq(Groupings) /\ L \in Nat /\ L >= 1
  <2>1. q \in Seq(Groupings) /\ q # <<>>
    BY DEF Grouped
  <2> QED
    BY <2>1, EmptySeq, LenProperties
<1>4. /\ r \in Seq(Groupings) /\ Len(r) = L + 1 /\ r[L + 1] = h
      /\ \A k \in 1 .. L : r[k] = q[k] /\ q[k] \in Groupings
  BY <1>1, <1>3
<1> HIDE DEF r, L
<1>5. PICK g \in Groupings : g = q[L] /\ g = r[L]
  BY <1>3, <1>4
<1>6. /\ g.first \in Nat /\ g.last \in Nat
      /\ 1 <= g.first /\ g.last = m /\ first \in g.first .. m + 1
  <2>1. L \in 1 .. Len(q)
    BY <1>3 DEF L
  <2> QED
    BY <1>5, <2>1 DEF Grouped, Groupings, L
<1>7. Continues(sizes, overlap, g, h)
  BY <1>1, <1>6 DEF Continues
<1>8. \A k \in 1 .. L + 1 :
          /\ 1 <= r[k].first /\ r[k].first <= r[k].last /\ r[k].last <= n
          /\ Fits(sizes, room, overlap, r[k])
  <2> SUFFICES ASSUME NEW k \in 1 .. L + 1
               PROVE  /\ 1 <= r[k].first /\ r[k].first <= r[k].last /\ r[k].last <= n
                      /\ Fits(sizes, room, overlap, r[k])
    OBVIOUS
  <2>1. CASE k = L + 1
    <3>1. 1 <= first /\ first <= n
      BY <1>6
    <3> QED
      BY <1>1, <1>2, <1>4, <2>1, <3>1
  <2>2. CASE k \in 1 .. L
    <3>1. /\ 1 <= q[k].first /\ q[k].first <= q[k].last /\ q[k].last <= m
          /\ Fits(sizes, room, overlap, q[k])
      BY <2>2 DEF Grouped, L
    <3>2. r[k] = q[k] /\ q[k].last \in Nat
      BY <1>4, <2>2 DEF Groupings
    <3> QED
      BY <3>1, <3>2
  <2> QED
    BY <1>3, <2>1, <2>2
<1>9. \A k \in 2 .. L + 1 : Continues(sizes, overlap, r[k - 1], r[k])
  <2> SUFFICES ASSUME NEW k \in 2 .. L + 1 PROVE Continues(sizes, overlap, r[k - 1], r[k])
    OBVIOUS
  <2>1. CASE k = L + 1
    <3>1. k - 1 = L
      BY <1>3, <2>1
    <3> QED
      BY <1>4, <1>5, <1>7, <2>1, <3>1
  <2>2. CASE k \in 2 .. L
    <3>1. Continues(sizes, overlap, q[k - 1], q[k])
      BY <2>2 DEF Grouped, L
    <3>2. k - 1 \in 1 .. L /\ k \in 1 .. L
      BY <1>3, <2>2
    <3> QED
      BY <1>4, <3>1, <3>2
  <2> QED
    BY <1>3, <2>1, <2>2
<1>10. r[1].first = 1 /\ r # <<>>
  <2>1. 1 \in 1 .. L
    BY <1>3
  <2> QED
    BY <1>3, <1>4, <2>1 DEF Grouped
<1>11. Grouped(sizes, room, overlap, r, n)
  BY <1>1, <1>3, <1>4, <1>8, <1>9, <1>10 DEF Grouped
<1> QED
  BY <1>11 DEF r, h

PackingStates == [done : Seq(Groupings), first : Nat]

(* One step of Packing, with the n-th size. *)
PackingNext(sizes, room, overlap, p, n) ==
    IF Total(sizes, p.first, n) > room
    THEN [done |-> Append(p.done, [first |-> p.first, last |-> n - 1]),
          first |-> Carry(sizes, p.first, n - 1, overlap)]
    ELSE p

(* Its invariant: the finished groups and the one under way are groups. *)
Packed(sizes, room, overlap, p, n) ==
    /\ p \in PackingStates /\ p.first \in 1 .. n
    /\ Grouped(sizes, room, overlap, Append(p.done, [first |-> p.first, last |-> n]), n)

(* The first size is a group under way. *)
LEMMA PackedFirst ==
    ASSUME NEW sizes \in Seq(Nat), NEW room \in Int, NEW overlap \in Nat
    PROVE  Packed(sizes, room, overlap, [done |-> <<>>, first |-> 1], 1)
<1> DEFINE p == [done |-> <<>>, first |-> 1]
<1>1. p \in PackingStates /\ p.done = <<>> /\ p.first = 1
  BY DEF PackingStates
<1> HIDE DEF p
<1>2. Grouped(sizes, room, overlap, Append(p.done, [first |-> p.first, last |-> 1]), 1)
  BY <1>1, GroupedFirst
<1>3. Packed(sizes, room, overlap, p, 1)
  BY <1>1, <1>2 DEF Packed
<1> QED
  BY <1>3 DEF p

(* A step of Packing keeps its invariant: the group under way takes the     *)
(* next size, or is finished and a new one begins with what is carried      *)
(* over.                                                                    *)
LEMMA PackedNext ==
    ASSUME NEW sizes \in Seq(Nat), NEW room \in Int, NEW overlap \in Nat,
           NEW n \in 2 .. Len(sizes), NEW p, Packed(sizes, room, overlap, p, n - 1)
    PROVE  Packed(sizes, room, overlap, PackingNext(sizes, room, overlap, p, n), n)
<1> DEFINE g == [first |-> p.first, last |-> n - 1]
           c == Carry(sizes, p.first, n - 1, overlap)
           x == PackingNext(sizes, room, overlap, p, n)
<1>1. n \in Nat /\ n - 1 \in Nat /\ n = (n - 1) + 1
  OBVIOUS
<1>2. /\ p.done \in Seq(Groupings) /\ p.first \in Nat /\ p.first \in 1 .. n - 1 /\ p \in PackingStates
      /\ Grouped(sizes, room, overlap, Append(p.done, g), n - 1)
  BY <1>1 DEF Packed, PackingStates
<1>3. PICK m \in Nat : m = n - 1
  BY <1>1
<1>4. Total(sizes, p.first, n) \in Int
  <2>1. 1 <= p.first /\ n <= Len(sizes) /\ p.first <= n + 1
    BY <1>1, <1>2
  <2> QED
    BY ONLY <1>1, <1>2, <2>1, sizes \in Seq(Nat), TotalIs
<1>5. CASE Total(sizes, p.first, n) > room
  <2>1. c \in p.first .. m + 1 /\ Total(sizes, c, m) <= overlap
    <3>1. 1 <= p.first /\ p.first <= m /\ m <= Len(sizes)
      BY <1>1, <1>2, <1>3
    <3> QED
      BY <1>2, <1>3, <3>1, CarryIs
  <2> DEFINE y == [done |-> Append(p.done, g), first |-> c]
  <2>2. x = y
    BY <1>5 DEF PackingNext
  <2>3. g \in Groupings /\ g.first = p.first
    BY <1>1, <1>2 DEF Groupings
  <2> HIDE DEF g, c
  <2>4. c \in Nat /\ c \in 1 .. n
    BY <1>1, <1>2, <1>3, <2>1
  <2>5. Append(p.done, g) \in Seq(Groupings)
    BY <1>2, <2>3
  <2>6. y \in PackingStates /\ y.done = Append(p.done, g) /\ y.first = c
    BY <2>4, <2>5 DEF PackingStates
  <2> DEFINE q == Append(p.done, g)
  <2>7. q[Len(q)] = g
    BY <1>2, <2>3
  <2>8. Grouped(sizes, room, overlap, Append(q, [first |-> c, last |-> n]), n)
    <3>1. c \in q[Len(q)].first .. m + 1
      BY <2>1, <2>3, <2>7
    <3>2. Grouped(sizes, room, overlap, q, m) /\ n = m + 1
      BY <1>1, <1>2, <1>3
    <3> HIDE DEF q
    <3> QED
      BY ONLY <1>1, <1>3, <2>1, <2>4, <3>1, <3>2, GroupedMoves,
              sizes \in Seq(Nat), room \in Int, overlap \in Nat
  <2> HIDE DEF y, q
  <2> QED
    BY <2>2, <2>4, <2>6, <2>8 DEF Packed, q
<1>6. CASE ~(Total(sizes, p.first, n) > room)
  <2>1. x = p
    BY <1>6 DEF PackingNext
  <2>2. Total(sizes, p.first, n) <= room
    BY <1>4, <1>6
  <2>3. Grouped(sizes, room, overlap, Append(p.done, [first |-> p.first, last |-> n]), n)
    BY <1>1, <1>2, <2>2, GroupedStays
  <2>4. p.first \in 1 .. n
    BY <1>1, <1>2
  <2> QED
    BY <1>2, <2>1, <2>3, <2>4 DEF Packed
<1> QED
  BY <1>5, <1>6

(* At the end of Packing the finished groups and the one under way group    *)
(* all the sizes.                                                           *)
LEMMA PackingIs ==
    ASSUME NEW sizes \in Seq(Nat), sizes # <<>>, NEW room \in Int, NEW overlap \in Nat
    PROVE  Packed(sizes, room, overlap, Packing(sizes, room, overlap), Len(sizes))
<1> DEFINE L == Len(sizes)
           a == [done |-> <<>>, first |-> 1]
           Step(f) == [n \in 1 .. L |->
                         IF n = 1 THEN a
                         ELSE LET p == f[n - 1]
                              IN  IF Total(sizes, p.first, n) > room
                                  THEN [done |-> Append(p.done, [first |-> p.first, last |-> n - 1]),
                                        first |-> Carry(sizes, p.first, n - 1, overlap)]
                                  ELSE p]
           Good(p, n) == Packed(sizes, room, overlap, p, n)
           Go(p, n) == PackingNext(sizes, room, overlap, p, n)
           F == [n \in 1 + 1 .. L |-> [x \in PackingStates |-> IF Good(x, n - 1) THEN Go(x, n) ELSE x]]
           g == CHOOSE g : g = Step(g)
<1>1. L \in Nat /\ L >= 1
  BY EmptySeq, LenProperties
<1>2. Good(a, 1)
  BY PackedFirst
<1>3. a \in PackingStates
  BY <1>2 DEF Packed
<1> HIDE DEF a
<1>4. \A n \in 2 .. L : \A p : Good(p, n - 1) => Good(Go(p, n), n)
  BY PackedNext
<1>5. \A p, n : Good(p, n) => p \in PackingStates
  BY DEF Packed
<1> HIDE DEF Good, Go
<1>6. \A n \in 1 + 1 .. L, x \in PackingStates : F[n][x] = (IF Good(x, n - 1) THEN Go(x, n) ELSE x)
  OBVIOUS
<1>7. Closed(F, 1, L, PackingStates)
  <2>1. \A n \in 1 + 1 .. L, x \in PackingStates :
            (IF Good(x, n - 1) THEN Go(x, n) ELSE x) \in PackingStates
    BY <1>4, <1>5
  <2> QED
    BY <2>1 DEF Closed
<1> HIDE DEF F
<1>8. PICK f \in [1 .. L -> PackingStates] : Iterates(f, 1, L, a, F)
  <2>1. 1 \in Nat /\ 1 <= L
    BY <1>1
  <2> HIDE DEF L
  <2> QED
    BY ONLY <1>1, <1>3, <1>7, <2>1, Recursion
<1>9. \A n \in 1 .. L : Good(f[n], n)
  <2> DEFINE S == {n \in 1 .. L : Good(f[n], n)}
  <2>1. 1 \in S
    BY <1>1, <1>2, <1>8 DEF Iterates
  <2>2. ASSUME NEW n \in 1 + 1 .. L, n - 1 \in S PROVE n \in S
    <3>1. f[n] = F[n][f[n - 1]]
      BY <1>8 DEF Iterates
    <3>2. Good(f[n - 1], n - 1) /\ f[n - 1] \in PackingStates
      BY <1>5, <2>2
    <3>3. n \in 2 .. L /\ n \in 1 .. L
      BY <1>1
    <3>4. f[n] = Go(f[n - 1], n)
      BY <1>6, <3>1, <3>2
    <3> QED
      BY <1>4, <3>2, <3>3, <3>4
  <2> HIDE DEF S, L
  <2>3. \A n \in 1 .. L : n \in S
    BY ONLY <1>1, <2>1, <2>2, 1 \in Nat, InductionFrom
  <2> QED
    BY <2>3 DEF S
<1>10. f = Step(f)
  <2>1. \A n \in 1 .. L : f[n] = IF n = 1 THEN a ELSE Go(f[n - 1], n)
    <3> SUFFICES ASSUME NEW n \in 1 .. L PROVE f[n] = IF n = 1 THEN a ELSE Go(f[n - 1], n)
      OBVIOUS
    <3>1. CASE n = 1
      BY <1>8, <3>1 DEF Iterates
    <3>2. CASE n # 1
      <4>1. n \in 1 + 1 .. L /\ n - 1 \in 1 .. L
        BY <1>1, <3>2
      <4>2. f[n] = F[n][f[n - 1]] /\ f[n - 1] \in PackingStates
        BY <1>8, <4>1 DEF Iterates
      <4> QED
        BY <1>6, <1>9, <3>2, <4>1, <4>2
    <3> QED
      BY <3>1, <3>2
  <2>2. Step(f) = [n \in 1 .. L |-> IF n = 1 THEN a ELSE Go(f[n - 1], n)]
    BY DEF Go, PackingNext
  <2> HIDE DEF Step
  <2> QED
    BY <2>1, <2>2
<1>11. \A h : Step(h) = [n \in 1 .. L |-> IF n = 1 THEN a ELSE Go(h[n - 1], n)]
  BY DEF Go, PackingNext
<1> HIDE DEF Step
<1>12. g = Step(g)
  BY <1>10
<1> HIDE DEF g
<1>13. \A n \in 1 .. L : g[n] = IF n = 1 THEN a ELSE Go(g[n - 1], n)
  <2>1. \A n \in 1 .. L : Step(g)[n] = IF n = 1 THEN a ELSE Go(g[n - 1], n)
    BY <1>11
  <2> QED
    BY ONLY <1>12, <2>1
<1>14. \A n \in 1 .. L : Good(g[n], n)
  <2> DEFINE S == {n \in 1 .. L : Good(g[n], n)}
  <2>1. 1 \in S
    BY <1>1, <1>2, <1>13
  <2>2. ASSUME NEW n \in 1 + 1 .. L, n - 1 \in S PROVE n \in S
    <3>1. n \in 2 .. L /\ n \in 1 .. L /\ n # 1
      BY <1>1
    <3>2. g[n] = Go(g[n - 1], n)
      BY <1>13, <3>1
    <3> QED
      BY <1>4, <2>2, <3>1, <3>2
  <2> HIDE DEF S, L
  <2>3. \A n \in 1 .. L : n \in S
    BY ONLY <1>1, <2>1, <2>2, 1 \in Nat, InductionFrom
  <2> QED
    BY <2>3 DEF S
<1>15. Packing(sizes, room, overlap) = g[L]
  BY DEF Packing, g, Step, a
<1> QED
  BY <1>1, <1>14, <1>15 DEF Good

(* What the groups are. *)
LEMMA GroupsAre ==
    ASSUME NEW sizes \in Seq(Nat), sizes # <<>>, NEW room \in Int, NEW overlap \in Nat
    PROVE  Grouped(sizes, room, overlap, Groups(sizes, room, overlap), Len(sizes))
BY PackingIs DEF Packed, Groups

(* Every place is in a group. *)
LEMMA GroupsCover ==
    ASSUME NEW sizes \in Seq(Nat), NEW room \in Int, NEW overlap \in Nat,
           NEW q, NEW n \in Nat, Grouped(sizes, room, overlap, q, n), NEW m \in 1 .. n
    PROVE  \E k \in 1 .. Len(q) : q[k].first <= m /\ m <= q[k].last
<1>1. q \in Seq(Groupings) /\ Len(q) \in Nat /\ Len(q) >= 1
  <2>1. q \in Seq(Groupings) /\ q # <<>>
    BY DEF Grouped
  <2> QED
    BY <2>1, EmptySeq, LenProperties
<1>2. \A k \in 1 .. Len(q) : q[k].first \in Nat /\ q[k].last \in Nat
  <2>1. \A k \in 1 .. Len(q) : q[k] \in Groupings
    BY <1>1
  <2> QED
    BY <2>1 DEF Groupings
<1> DEFINE S == {k \in 1 .. Len(q) : m <= q[k].last}
<1>3. Len(q) \in S
  BY <1>1 DEF Grouped
<1>4. PICK k \in S : \A y \in S : k <= y
  <2>1. S \in SUBSET Nat /\ S # {}
    BY <1>3
  <2> HIDE DEF S
  <2> QED
    BY <2>1, LeastNumber
<1>5. CASE k = 1
  BY <1>5 DEF Grouped
<1>6. CASE k # 1
  <2>1. k \in 2 .. Len(q) /\ k - 1 \in 1 .. Len(q)
    BY <1>1, <1>6
  <2>2. k - 1 \notin S
    BY <1>4
  <2>3. ~(m <= q[k - 1].last)
    BY <2>1, <2>2
  <2>4. q[k].first <= q[k - 1].last + 1
    BY <2>1 DEF Grouped, Continues
  <2>5. q[k].first \in Nat /\ q[k - 1].last \in Nat /\ m \in Int
    BY <1>2, <2>1
  <2>6. q[k].first <= m
    BY ONLY <2>3, <2>4, <2>5
  <2> QED
    BY <2>1, <2>6
<1> QED
  BY <1>5, <1>6

-----------------------------------------------------------------------------
(* How much ink a group has. *)

(* The places of S with ink. *)
InkAt(t, S) == {p \in S : t[p] \notin White}

(* All ink of s is in spans of q. *)
Holds(t, q, s) ==
    \A x \in s.start .. s.end - 1 :
        t[x + 1] \notin White => \E m \in DOMAIN q : q[m].start <= x /\ x < q[m].end

(* Between a and b there are at most b - a places. *)
LEMMA FewPlaces ==
    ASSUME NEW a \in Nat, NEW b \in Nat, a <= b, NEW S, S \subseteq a + 1 .. b
    PROVE  IsFiniteSet(S) /\ Cardinality(S) \in Nat /\ Cardinality(S) <= b - a
<1>1. PICK c \in Int : c = a + 1
  OBVIOUS
<1>2. b \in Int
  OBVIOUS
<1>3. /\ IsFiniteSet(c .. b)
      /\ Cardinality(c .. b) = IF c > b THEN 0 ELSE b - c + 1
  BY ONLY <1>2, c \in Int, FS_Interval
<1>4. Cardinality(c .. b) = b - a
  BY <1>1, <1>3
<1> QED
  BY <1>1, <1>3, <1>4, FS_Subset, FS_CardinalityType

(* A subset of a union has no more members than both sets together. *)
LEMMA SmallUnion ==
    ASSUME NEW A, NEW B, IsFiniteSet(A), IsFiniteSet(B), NEW S, S \subseteq A \cup B
    PROVE  /\ IsFiniteSet(S) /\ Cardinality(S) \in Nat
           /\ Cardinality(S) <= Cardinality(A) + Cardinality(B)
<1>1. /\ IsFiniteSet(A \cup B) /\ IsFiniteSet(A \cap B)
      /\ Cardinality(A \cup B) = Cardinality(A) + Cardinality(B) - Cardinality(A \cap B)
  BY FS_Union, FS_Intersection
<1>2. /\ IsFiniteSet(S) /\ Cardinality(S) <= Cardinality(A \cup B)
  BY <1>1, FS_Subset
<1>3. /\ Cardinality(S) \in Nat /\ Cardinality(A) \in Nat /\ Cardinality(B) \in Nat
      /\ Cardinality(A \cup B) \in Nat /\ Cardinality(A \cap B) \in Nat
  BY <1>1, <1>2, FS_CardinalityType
<1> QED
  BY <1>1, <1>2, <1>3

(* What a chain says of its members and of any two of them. *)
LEMMA ChainIs ==
    ASSUME NEW s \in Spans, NEW q, Chain(q, s)
    PROVE  /\ Len(q) \in Nat /\ DOMAIN q = 1 .. Len(q)
           /\ s.start \in Nat /\ s.end \in Nat
           /\ \A m \in 1 .. Len(q) :
                 /\ q[m] \in Spans /\ q[m].start \in Nat /\ q[m].end \in Nat
                 /\ s.start <= q[m].start /\ q[m].start < q[m].end /\ q[m].end <= s.end
                 /\ Size(q[m]) \in Nat /\ Size(q[m]) = q[m].end - q[m].start
           /\ \A m, n \in 1 .. Len(q) : m < n => q[m].end <= q[n].start
           /\ \A m, n \in 1 .. Len(q) : m <= n => q[m].end <= q[n].end /\ q[m].start <= q[n].start
           /\ \A m, n \in 1 .. Len(q) : m < n => q[m].end < q[n].end
<1>1. q \in Seq(Spans)
  BY DEF Chain
<1>2. Len(q) \in Nat /\ DOMAIN q = 1 .. Len(q) /\ s.start \in Nat /\ s.end \in Nat
  BY <1>1 DEF Spans
<1>3. ASSUME NEW m \in 1 .. Len(q)
      PROVE  /\ q[m] \in Spans /\ q[m].start \in Nat /\ q[m].end \in Nat
             /\ s.start <= q[m].start /\ q[m].start < q[m].end /\ q[m].end <= s.end
             /\ Size(q[m]) \in Nat /\ Size(q[m]) = q[m].end - q[m].start
  <2>1. q[m] \in Spans
    BY <1>1
  <2>2. q[m].start \in Nat /\ q[m].end \in Nat
    BY <2>1 DEF Spans
  <2>3. Inside(q[m], s)
    BY <1>2 DEF Chain
  <2> QED
    BY <2>1, <2>2, <2>3 DEF Inside, Size
<1>4. ASSUME NEW m \in 1 .. Len(q), NEW n \in 1 .. Len(q), m < n PROVE q[m].end <= q[n].start
  BY <1>2, <1>4 DEF Chain
<1>5. ASSUME NEW m \in 1 .. Len(q), NEW n \in 1 .. Len(q), m < n
      PROVE  q[m].end < q[n].end /\ q[m].start <= q[n].start
  BY <1>3, <1>4, <1>5
<1>6. ASSUME NEW m \in 1 .. Len(q), NEW n \in 1 .. Len(q), m <= n
      PROVE  q[m].end <= q[n].end /\ q[m].start <= q[n].start
  <2>1. CASE m < n
    <3>1. q[m].end < q[n].end /\ q[m].start <= q[n].start
      BY <1>5, <2>1
    <3>2. q[m].end \in Nat /\ q[n].end \in Nat
      BY <1>3
    <3> QED
      BY ONLY <3>1, <3>2
  <2>2. CASE m = n
    <3>1. q[m].end \in Nat /\ q[m].start \in Nat
      BY <1>3
    <3> QED
      BY <2>2, <3>1
  <2> QED
    BY <1>2, <1>6, <2>1, <2>2
<1> QED
  BY ONLY <1>2, <1>3, <1>4, <1>5, <1>6

(* What Pack counts spans with. *)
SizesOf(q, more) == [i \in DOMAIN q |-> Size(q[i]) + more]

(* The sizes of spans, each counted with so much more. *)
LEMMA SizesAre ==
    ASSUME NEW q, NEW n \in Nat, DOMAIN q = 1 .. n, NEW more \in Nat,
           \A m \in 1 .. n : Size(q[m]) \in Nat
    PROVE  /\ SizesOf(q, more) \in Seq(Nat) /\ Len(SizesOf(q, more)) = n
           /\ \A m \in 1 .. n : SizesOf(q, more)[m] = Size(q[m]) + more
<1>1. \A m \in 1 .. n : Size(q[m]) + more \in Nat
  OBVIOUS
<1>2. SizesOf(q, more) = [m \in 1 .. n |-> Size(q[m]) + more]
  BY DEF SizesOf
<1> QED
  BY <1>1, <1>2

(* The ink of neighbours, with what is between them, is within their sizes. *)
LEMMA InkOfStretch ==
    ASSUME NEW t, NEW s \in Spans, NEW q, Chain(q, s), Holds(t, q, s),
           NEW i \in 1 .. Len(q)
    PROVE  \A j \in i .. Len(q) :
               Cardinality(InkAt(t, q[i].start + 1 .. q[j].end)) <= Total(SizesOf(q, 0), i, j)
<1> DEFINE sizes == SizesOf(q, 0)
           A(j) == InkAt(t, q[i].start + 1 .. q[j].end)
           L == Len(q)
           S == {j \in i .. L : Cardinality(A(j)) <= Total(sizes, i, j)}
<1>1. L \in Nat /\ DOMAIN q = 1 .. L /\ s.start \in Nat /\ s.end \in Nat
  BY ChainIs
<1>a. \A m \in 1 .. L :
         /\ q[m].start \in Nat /\ q[m].end \in Nat
         /\ s.start <= q[m].start /\ q[m].start < q[m].end /\ q[m].end <= s.end
  BY ChainIs
<1>b. \A m \in 1 .. L : Size(q[m]) \in Nat /\ Size(q[m]) = q[m].end - q[m].start
  BY ChainIs
<1>c. \A m, n \in 1 .. L : m < n => q[m].end <= q[n].start
  BY ChainIs
<1>d. \A m, n \in 1 .. L : m <= n => q[m].end <= q[n].end /\ q[m].start <= q[n].start
  BY ChainIs
<1>2. sizes \in Seq(Nat) /\ Len(sizes) = L /\ \A m \in 1 .. L : sizes[m] = Size(q[m])
  <2>1. sizes \in Seq(Nat) /\ Len(sizes) = L /\ \A m \in 1 .. L : sizes[m] = Size(q[m]) + 0
    <3>1. 0 \in Nat /\ \A m \in 1 .. L : Size(q[m]) \in Nat
      BY <1>b
    <3> HIDE DEF L
    <3> QED
      BY ONLY <1>1, <3>1, SizesAre
  <2> QED
    BY <1>b, <2>1
<1>3. i \in Nat /\ 1 <= i /\ i <= L /\ L \in Nat /\ i \in 1 .. L
  BY <1>1
<1> HIDE DEF sizes, L
<1>4. i \in S
  <2>1. i <= Len(sizes)
    BY <1>2, <1>3
  <2>2. Total(sizes, i, i) = Total(sizes, i, i - 1) + sizes[i]
    <3>1. PICK j \in Nat : j = i
      BY <1>3
    <3>2. i <= j /\ j <= Len(sizes)
      BY <1>3, <2>1, <3>1
    <3>3. Total(sizes, i, j) = Total(sizes, i, j - 1) + sizes[j]
      BY ONLY <1>2, <1>3, <3>2, j \in Nat, TotalIs
    <3> QED
      BY <3>1, <3>3
  <2>3. Total(sizes, i, i - 1) = 0
    <3>1. PICK k \in Nat : k = i - 1
      BY <1>3
    <3>2. i = k + 1 /\ k <= Len(sizes)
      BY ONLY <1>2, <1>3, <3>1
    <3>3. Total(sizes, i, k) = 0
      BY ONLY <1>2, <1>3, <3>2, k \in Nat, TotalIs
    <3> QED
      BY <3>1, <3>3
  <2>4. PICK a \in Nat : a = q[i].start
    BY <1>a, <1>3
  <2>5. PICK b \in Nat : b = q[i].end
    BY <1>a, <1>3
  <2>6. a <= b /\ sizes[i] = b - a
    BY <1>2, <1>3, <1>a, <1>b, <2>4, <2>5
  <2>7. A(i) \subseteq a + 1 .. b
    BY <2>4, <2>5 DEF InkAt
  <2> HIDE DEF A
  <2>8. Cardinality(A(i)) <= b - a
    BY ONLY <2>6, <2>7, a \in Nat, b \in Nat, FewPlaces
  <2> QED
    BY <1>3, <2>2, <2>3, <2>6, <2>8
<1>5. ASSUME NEW j \in i + 1 .. L, j - 1 \in S PROVE j \in S
  <2>1. /\ j \in 1 .. L /\ j - 1 \in 1 .. L /\ j \in Nat /\ i \in 1 .. L
        /\ i <= j - 1 /\ i <= j /\ j - 1 < j
    BY <1>1, <1>3
  <2>a. PICK a \in Nat : a = q[i].start
    BY <1>a, <1>3
  <2>b. PICK b \in Nat : b = q[j - 1].end
    BY <1>a, <2>1
  <2>c. PICK c \in Nat : c = q[j].start
    BY <1>a, <2>1
  <2>d. PICK d \in Nat : d = q[j].end
    BY <1>a, <2>1
  <2>e. a <= b /\ s.start <= a /\ d <= s.end /\ c < d
    <3>1. q[i].end <= q[j - 1].end
      BY <1>d, <2>1
    <3>2. a < q[i].end /\ q[i].end \in Nat
      BY <1>a, <2>1, <2>a
    <3>3. s.start <= a /\ d <= s.end /\ c < d
      BY <1>a, <2>1, <2>a, <2>c, <2>d
    <3> QED
      BY <2>b, <3>1, <3>2, <3>3
  <2>2. A(j) \subseteq A(j - 1) \cup (q[j].start + 1 .. q[j].end)
    <3> SUFFICES ASSUME NEW p \in A(j), p \notin q[j].start + 1 .. q[j].end
                 PROVE  p \in A(j - 1)
      OBVIOUS
    <3>1. p \in a + 1 .. d /\ t[p] \notin White
      BY <2>a, <2>d DEF InkAt
    <3>2. p - 1 \in s.start .. s.end - 1 /\ p = (p - 1) + 1
      BY ONLY <1>1, <2>e, <3>1, a \in Nat, d \in Nat
    <3>3. PICK x \in s.start .. s.end - 1 : p = x + 1
      BY <3>2
    <3>4. PICK m \in 1 .. L : q[m].start <= x /\ x < q[m].end
      <4>1. t[x + 1] \notin White
        BY <3>1, <3>3
      <4>2. \E m \in DOMAIN q : q[m].start <= x /\ x < q[m].end
        BY ONLY <4>1, Holds(t, q, s), x \in s.start .. s.end - 1 DEF Holds
      <4> QED
        BY <1>1, <4>2
    <3>5. x \in Int /\ m \in Int
      BY <1>1
    <3>6. PICK u \in Nat : u = q[m].start
      BY <1>a
    <3>7. PICK v \in Nat : v = q[m].end
      BY <1>a
    <3>8. u <= x /\ x < v
      BY <3>4, <3>6, <3>7
    <3>9. ~(j < m)
      <4>1. j < m => d <= u
        BY <1>c, <2>1, <2>d, <3>6
      <4> QED
        BY ONLY <3>1, <3>3, <3>5, <3>8, <4>1, a \in Nat, d \in Nat, u \in Nat
    <3>10. m # j
      <4>1. m = j => u = c /\ v = d
        BY <2>c, <2>d, <3>6, <3>7
      <4>2. p \notin c + 1 .. d
        BY <2>c, <2>d
      <4> QED
        BY ONLY <3>3, <3>5, <3>8, <4>1, <4>2, c \in Nat, d \in Nat
    <3>11. m <= j - 1
      BY ONLY <2>1, <3>5, <3>9, <3>10
    <3>12. v <= b
      BY <1>d, <2>1, <2>b, <3>7, <3>11
    <3>13. p \in a + 1 .. b
      BY ONLY <3>1, <3>3, <3>5, <3>8, <3>12, a \in Nat, b \in Nat, d \in Nat, v \in Nat
    <3> QED
      BY <2>a, <2>b, <3>1, <3>13 DEF InkAt
  <2>3. IsFiniteSet(A(j - 1)) /\ Cardinality(A(j - 1)) \in Nat
    <3>1. A(j - 1) \subseteq a + 1 .. b
      BY <2>a, <2>b DEF InkAt
    <3> HIDE DEF A
    <3> QED
      BY ONLY <2>e, <3>1, a \in Nat, b \in Nat, FewPlaces
  <2>4. LET B == c + 1 .. d
        IN  IsFiniteSet(B) /\ Cardinality(B) \in Nat /\ Cardinality(B) <= d - c
    <3>1. c <= d
      BY <2>e
    <3> QED
      BY ONLY <3>1, c \in Nat, d \in Nat, FewPlaces
  <2>5. PICK B : B = c + 1 .. d
    OBVIOUS
  <2>6. /\ Cardinality(A(j)) \in Nat
        /\ Cardinality(A(j)) <= Cardinality(A(j - 1)) + Cardinality(B)
    <3>1. A(j) \subseteq A(j - 1) \cup B
      BY <2>2, <2>5, <2>c, <2>d
    <3> HIDE DEF A
    <3> QED
      BY <2>3, <2>4, <2>5, <3>1, SmallUnion
  <2>7. Cardinality(A(j - 1)) <= Total(sizes, i, j - 1)
    BY <1>5
  <2>8. Total(sizes, i, j) = Total(sizes, i, j - 1) + sizes[j] /\ Total(sizes, i, j - 1) \in Int
    <3>0. j <= Len(sizes)
      BY <1>1, <1>2, <2>1
    <3>1. Total(sizes, i, j) = Total(sizes, i, j - 1) + sizes[j]
      BY ONLY <1>2, <1>3, <2>1, <3>0, TotalIs
    <3>2. PICK k \in Nat : k = j - 1
      BY <2>1
    <3>4. k <= Len(sizes) /\ i <= k + 1
      BY ONLY <1>2, <1>3, <2>1, <3>0, <3>2
    <3>3. Total(sizes, i, k) \in Int
      BY ONLY <1>2, <1>3, <3>4, k \in Nat, TotalIs
    <3> QED
      BY <3>1, <3>2, <3>3
  <2>9. sizes[j] = d - c /\ sizes[j] \in Nat
    BY <1>2, <1>b, <2>1, <2>c, <2>d
  <2>10. Cardinality(B) \in Nat /\ Cardinality(B) <= sizes[j]
    BY <2>4, <2>5, <2>9
  <2>11. Cardinality(A(j)) <= Total(sizes, i, j)
    <3> HIDE DEF A
    <3> QED
      BY ONLY <2>3, <2>6, <2>7, <2>8, <2>9, <2>10
  <2>12. j \in i .. L
    BY <1>3, <2>1
  <2> QED
    BY <2>11, <2>12
<1>6. \A j \in i .. L : j \in S
  <2> HIDE DEF S
  <2> QED
    BY ONLY <1>1, <1>3, <1>4, <1>5, InductionFrom
<1> QED
  BY <1>6 DEF sizes, L

(* The next span starts later, ends later, and shares little ink. *)
Advances(t, a, b) ==
    /\ a.start <= b.start /\ a.end < b.end
    /\ Cardinality(InkAt(t, Positions(a) \cap Positions(b))) <= Overlap

(* What a stretch of text is split into. *)
Splits(t, r, s) ==
    /\ r \in Seq(Spans)
    /\ \A k \in 1 .. Len(r) :
          /\ Inside(r[k], s)
          /\ Cardinality(InkAt(t, Positions(r[k]))) <= Target + Overlap
    /\ \A k \in 2 .. Len(r) : Advances(t, r[k - 1], r[k])
    /\ Holds(t, r, s)

(* A group of text spans is small. *)
LEMMA GroupInk ==
    ASSUME NEW t, NEW s \in Spans, NEW q, Chain(q, s), Holds(t, q, s),
           \A m \in 1 .. Len(q) : Size(q[m]) <= Target,
           NEW overlap \in 0 .. Overlap,
           NEW g \in Groupings, 1 <= g.first, g.first <= g.last, g.last <= Len(q),
           Fits(SizesOf(q, 0), Target, overlap, g)
    PROVE  Cardinality(InkAt(t, q[g.first].start + 1 .. q[g.last].end)) <= Target + Overlap
<1> DEFINE sizes == SizesOf(q, 0)
<1>1. PICK i \in Nat : i = g.first
  BY DEF Groupings
<1>2. PICK j \in Nat : j = g.last
  BY DEF Groupings
<1>3. Len(q) \in Nat /\ 1 <= i /\ i <= j /\ j <= Len(q) /\ i \in 1 .. Len(q) /\ j \in 1 .. Len(q)
  BY <1>1, <1>2, ChainIs
<1>4. /\ Target \in Nat /\ Overlap \in Nat /\ overlap \in Nat /\ overlap <= Overlap /\ Target \in Int
      /\ Target + Overlap \in Nat
  BY SizeAssumption
<1>5. sizes \in Seq(Nat) /\ Len(sizes) = Len(q) /\ sizes[j] <= Target /\ sizes[j] \in Nat
  <2>1. DOMAIN q = 1 .. Len(q) /\ \A m \in 1 .. Len(q) : Size(q[m]) \in Nat
    BY ChainIs
  <2>2. 0 \in Nat
    OBVIOUS
  <2>3. sizes \in Seq(Nat) /\ Len(sizes) = Len(q) /\ \A m \in 1 .. Len(q) : sizes[m] = Size(q[m]) + 0
    BY ONLY <1>3, <2>1, <2>2, SizesAre
  <2>4. sizes[j] = Size(q[j]) /\ Size(q[j]) <= Target /\ Size(q[j]) \in Nat
    BY <1>3, <2>1, <2>3
  <2> QED
    BY <2>3, <2>4
<1> HIDE DEF sizes
<1>6. Cardinality(InkAt(t, q[i].start + 1 .. q[j].end)) <= Total(sizes, i, j)
  BY <1>3, InkOfStretch DEF sizes
<1>7. j <= Len(sizes)
  BY <1>3, <1>5
<1>8. Total(sizes, i, j) \in Int /\ Total(sizes, i, j) = Total(sizes, i, j - 1) + sizes[j]
  <2>1. i <= j + 1
    BY <1>3
  <2> QED
    BY ONLY <1>3, <1>5, <1>7, <2>1, i \in Nat, j \in Nat, TotalIs
<1>9. PICK k \in Nat : k = j - 1
  BY <1>3
<1>10. Total(sizes, i, k) \in Int /\ (i = j => Total(sizes, i, k) = 0)
  <2>1. i <= k + 1 /\ k <= Len(sizes)
    BY ONLY <1>3, <1>7, <1>9, <1>5
  <2>2. i = j => i = k + 1
    BY <1>9
  <2> QED
    BY ONLY <1>3, <1>5, <2>1, <2>2, i \in Nat, k \in Nat, TotalIs
<1>11. Total(sizes, i, j) = Total(sizes, i, k) + sizes[j]
  BY <1>8, <1>9
<1>12. i = j \/ Total(sizes, i, j) <= Target \/ Total(sizes, i, k) <= overlap
  BY <1>1, <1>2, <1>9 DEF Fits, sizes
<1>13. Total(sizes, i, j) <= Target + Overlap
  BY ONLY <1>4, <1>5, <1>8, <1>10, <1>11, <1>12
<1>14. Cardinality(InkAt(t, q[i].start + 1 .. q[j].end)) \in Nat
  <2>1. q[i].start \in Nat /\ q[j].end \in Nat /\ q[i].start <= q[j].end
    <3>1. q[i].start < q[i].end /\ q[i].end <= q[j].end
          /\ q[i].start \in Nat /\ q[j].end \in Nat /\ q[i].end \in Nat
      BY <1>3, ChainIs
    <3> QED
      BY ONLY <3>1
  <2>2. InkAt(t, q[i].start + 1 .. q[j].end) \subseteq q[i].start + 1 .. q[j].end
    BY DEF InkAt
  <2> QED
    BY ONLY <2>1, <2>2, FewPlaces
<1>15. Cardinality(InkAt(t, q[i].start + 1 .. q[j].end)) <= Target + Overlap
  BY ONLY <1>4, <1>6, <1>8, <1>13, <1>14
<1> QED
  BY <1>1, <1>2, <1>15

(* Two neighbouring groups of text spans share little. *)
LEMMA GroupsAdvance ==
    ASSUME NEW t, NEW s \in Spans, NEW q, Chain(q, s), Holds(t, q, s),
           NEW overlap \in 0 .. Overlap,
           NEW g \in Groupings, 1 <= g.first, g.first <= g.last, g.last <= Len(q),
           NEW h \in Groupings, 1 <= h.first, h.first <= h.last, h.last <= Len(q),
           Continues(SizesOf(q, 0), overlap, g, h)
    PROVE  Advances(t, Span(q[g.first].start, q[g.last].end), Span(q[h.first].start, q[h.last].end))
<1> DEFINE a == Span(q[g.first].start, q[g.last].end)
           b == Span(q[h.first].start, q[h.last].end)
           A == InkAt(t, Positions(a) \cap Positions(b))
<1>1. PICK i \in Nat : i = g.first
  BY DEF Groupings
<1>2. PICK j \in Nat : j = g.last
  BY DEF Groupings
<1>3. PICK k \in Nat : k = h.first
  BY DEF Groupings
<1>4. PICK l \in Nat : l = h.last
  BY DEF Groupings
<1>5. /\ Len(q) \in Nat /\ i \in 1 .. Len(q) /\ j \in 1 .. Len(q) /\ k \in 1 .. Len(q) /\ l \in 1 .. Len(q)
      /\ i <= j /\ k <= l /\ i <= k /\ k <= j + 1 /\ j < l
      /\ Total(SizesOf(q, 0), k, j) <= overlap
  <2>1. Len(q) \in Nat
    BY ChainIs
  <2>2. 1 <= i /\ i <= j /\ j <= Len(q) /\ 1 <= k /\ k <= l /\ l <= Len(q)
    BY <1>1, <1>2, <1>3, <1>4
  <2>3. i <= k /\ k <= j + 1 /\ j < l /\ Total(SizesOf(q, 0), k, j) <= overlap
    BY <1>1, <1>2, <1>3, <1>4 DEF Continues
  <2>4. i \in 1 .. Len(q) /\ j \in 1 .. Len(q) /\ k \in 1 .. Len(q) /\ l \in 1 .. Len(q)
    BY ONLY <2>1, <2>2, i \in Nat, j \in Nat, k \in Nat, l \in Nat
  <2> QED
    BY ONLY <2>1, <2>2, <2>3, <2>4
<1>6. PICK x \in Nat : x = q[i].start
  BY <1>5, ChainIs
<1>7. PICK y \in Nat : y = q[j].end
  BY <1>5, ChainIs
<1>8. PICK u \in Nat : u = q[k].start
  BY <1>5, ChainIs
<1>9. PICK v \in Nat : v = q[l].end
  BY <1>5, ChainIs
<1>10. a.start = x /\ a.end = y /\ b.start = u /\ b.end = v
  BY <1>1, <1>2, <1>3, <1>4, <1>6, <1>7, <1>8, <1>9 DEF Span
<1>11. x <= u /\ y < v
  BY <1>5, <1>6, <1>7, <1>8, <1>9, ChainIs
<1>12. overlap \in Nat /\ overlap <= Overlap /\ Overlap \in Nat
  BY SizeAssumption
<1>13. A \subseteq InkAt(t, u + 1 .. y)
  BY <1>10, <1>11 DEF InkAt, Positions
<1>14. Cardinality(A) <= Overlap
  <2> HIDE DEF A
  <2>1. CASE k <= j
    <3>1. u <= y
      <4>1. q[k].start < q[k].end /\ q[k].end <= q[j].end /\ q[k].end \in Nat
        BY <1>5, <2>1, ChainIs
      <4> QED
        BY ONLY <1>7, <1>8, <4>1
    <3>2. IsFiniteSet(InkAt(t, u + 1 .. y)) /\ Cardinality(InkAt(t, u + 1 .. y)) \in Nat
      <4>1. InkAt(t, u + 1 .. y) \subseteq u + 1 .. y
        BY DEF InkAt
      <4> QED
        BY ONLY <3>1, <4>1, u \in Nat, y \in Nat, FewPlaces
    <3>3. Cardinality(A) <= Cardinality(InkAt(t, u + 1 .. y)) /\ Cardinality(A) \in Nat
      BY <1>13, <3>2, FS_Subset, FS_CardinalityType
    <3>4. Cardinality(InkAt(t, u + 1 .. y)) <= Total(SizesOf(q, 0), k, j)
      <4>1. j \in k .. Len(q)
        BY <1>5, <2>1
      <4> QED
        BY <1>5, <1>7, <1>8, <4>1, InkOfStretch
    <3>5. Total(SizesOf(q, 0), k, j) \in Int
      <4>1. DOMAIN q = 1 .. Len(q) /\ \A m \in 1 .. Len(q) : Size(q[m]) \in Nat
        BY ChainIs
      <4>2. 0 \in Nat /\ 1 <= k /\ k <= j + 1
        BY <1>5
      <4>3. SizesOf(q, 0) \in Seq(Nat) /\ Len(SizesOf(q, 0)) = Len(q)
        BY ONLY <1>5, <4>1, <4>2, SizesAre
      <4>4. j <= Len(SizesOf(q, 0))
        BY <1>5, <4>3
      <4> QED
        BY ONLY <4>2, <4>3, <4>4, k \in Nat, j \in Nat, TotalIs
    <3> QED
      BY ONLY <1>5, <1>12, <3>2, <3>3, <3>4, <3>5
  <2>2. CASE ~(k <= j)
    <3>1. j < k
      BY <2>2
    <3>2. y <= u
      BY <1>5, <1>7, <1>8, <3>1, ChainIs
    <3>3. u + 1 .. y = {}
      BY <3>2
    <3>4. A = {}
      BY <1>13, <3>3 DEF InkAt
    <3> QED
      BY <1>12, <3>4, FS_EmptySet
  <2> QED
    BY <2>1, <2>2
<1> QED
  BY <1>10, <1>11, <1>14 DEF Advances

(* Spans that follow each other and are within the target, once packed, are *)
(* chunks: small, going forward, sharing no more than the overlap, and with *)
(* all of the ink.                                                          *)
LEMMA PackSplits ==
    ASSUME NEW t, NEW s \in Spans, NEW q, Chain(q, s), Holds(t, q, s),
           \A m \in 1 .. Len(q) : Size(q[m]) <= Target,
           NEW overlap \in 0 .. Overlap
    PROVE  Splits(t, Pack(q, 0, Target, overlap), s)
<1> DEFINE sizes == SizesOf(q, 0)
           g == Groups(sizes, Target, overlap)
           r == Pack(q, 0, Target, overlap)
<1>1. r = [k \in DOMAIN g |-> Span(q[g[k].first].start, q[g[k].last].end)]
  BY DEF Pack, SizesOf
<1>2. q \in Seq(Spans) /\ Len(q) \in Nat /\ DOMAIN q = 1 .. Len(q)
  BY ChainIs DEF Chain
<1>3. Target \in Int /\ overlap \in Nat
  BY SizeAssumption
<1>4. sizes \in Seq(Nat) /\ Len(sizes) = Len(q)
  <2>1. 0 \in Nat /\ \A m \in 1 .. Len(q) : Size(q[m]) \in Nat
    BY ChainIs
  <2> QED
    BY ONLY <1>2, <2>1, SizesAre
<1> HIDE DEF r
<1>5. CASE q = <<>>
  <2>1. sizes = <<>>
    BY <1>5 DEF SizesOf
  <2>2. g = <<>>
    BY <2>1 DEF Groups
  <2>3. r = <<>>
    BY <1>1, <2>2
  <2>4. Holds(t, r, s)
    BY <1>5, <2>3
  <2>5. r \in Seq(Spans) /\ 1 .. Len(r) = {} /\ 2 .. Len(r) = {}
    BY <2>3
  <2>6. Splits(t, r, s)
    BY ONLY <2>4, <2>5 DEF Splits
  <2> QED
    BY <2>6 DEF r
<1>6. CASE q # <<>>
  <2>1. Grouped(sizes, Target, overlap, g, Len(q))
    <3>1. sizes # <<>>
      BY <1>2, <1>4, <1>6, EmptySeq
    <3> HIDE DEF sizes
    <3> QED
      BY ONLY <1>3, <1>4, <3>1, GroupsAre
  <2> HIDE DEF g
  <2>2. g \in Seq(Groupings) /\ Len(g) \in Nat /\ DOMAIN g = 1 .. Len(g)
    BY <2>1 DEF Grouped
  <2>3. ASSUME NEW k \in 1 .. Len(g)
        PROVE  /\ g[k] \in Groupings /\ g[k].first \in 1 .. Len(q) /\ g[k].last \in 1 .. Len(q)
               /\ 1 <= g[k].first /\ g[k].first <= g[k].last /\ g[k].last <= Len(q)
               /\ Fits(sizes, Target, overlap, g[k])
    <3>1. g[k] \in Groupings
      BY <2>2
    <3>2. /\ 1 <= g[k].first /\ g[k].first <= g[k].last /\ g[k].last <= Len(q)
          /\ Fits(sizes, Target, overlap, g[k])
      BY <2>1 DEF Grouped
    <3>3. g[k].first \in Nat /\ g[k].last \in Nat
      BY <3>1 DEF Groupings
    <3> QED
      BY <1>2, <3>1, <3>2, <3>3
  <2>4. ASSUME NEW k \in 1 .. Len(g)
        PROVE  /\ r[k] \in Spans /\ Inside(r[k], s)
               /\ r[k].start = q[g[k].first].start /\ r[k].end = q[g[k].last].end
    <3>1. r[k] = Span(q[g[k].first].start, q[g[k].last].end)
      BY <1>1, <2>2
    <3>2. PICK i \in 1 .. Len(q) : i = g[k].first
      BY <2>3
    <3>3. PICK j \in 1 .. Len(q) : j = g[k].last
      BY <2>3
    <3>4. i <= j
      BY <2>3, <3>2, <3>3
    <3>5. q[i].start \in Nat /\ q[j].end \in Nat /\ s.start <= q[i].start /\ q[j].end <= s.end
      BY ChainIs
    <3>6. q[i].start < q[i].end /\ q[i].end <= q[j].end /\ q[i].end \in Nat
      <4>1. q[i].start < q[i].end /\ q[i].end \in Nat
        BY ChainIs
      <4>2. q[i].end <= q[j].end
        BY <3>4, ChainIs
      <4> QED
        BY <4>1, <4>2
    <3>7. r[k] \in Spans /\ r[k].start = q[i].start /\ r[k].end = q[j].end
      <4>1. PICK a \in Nat : a = q[i].start
        BY <3>5
      <4>2. PICK b \in Nat : b = q[j].end
        BY <3>5
      <4>3. r[k] = Span(a, b)
        BY <3>1, <3>2, <3>3, <4>1, <4>2
      <4> QED
        BY <4>1, <4>2, <4>3, SpanIs
    <3>8. q[i].start < q[j].end
      BY ONLY <3>5, <3>6
    <3> QED
      BY <3>2, <3>3, <3>5, <3>7, <3>8 DEF Inside
  <2>5. r \in Seq(Spans) /\ Len(r) = Len(g) /\ DOMAIN r = 1 .. Len(g)
    <3>1. \A k \in 1 .. Len(g) : r[k] \in Spans
      BY <2>4
    <3>2. DOMAIN r = 1 .. Len(g) /\ r = [k \in 1 .. Len(g) |-> r[k]]
      BY <1>1, <2>2
    <3>3. r \in [1 .. Len(g) -> Spans]
      BY <3>1, <3>2
    <3> QED
      BY ONLY <2>2, <3>3
  <2>6. ASSUME NEW k \in 1 .. Len(g)
        PROVE  Cardinality(InkAt(t, Positions(r[k]))) <= Target + Overlap
    <3>1. Cardinality(InkAt(t, q[g[k].first].start + 1 .. q[g[k].last].end)) <= Target + Overlap
      BY <2>3, GroupInk
    <3> QED
      BY <2>4, <3>1 DEF Positions
  <2>7. ASSUME NEW k \in 2 .. Len(g) PROVE Advances(t, r[k - 1], r[k])
    <3>1. k \in 1 .. Len(g) /\ k - 1 \in 1 .. Len(g)
      BY <2>2
    <3>2. PICK a \in Groupings : a = g[k - 1]
      BY <2>3, <3>1
    <3>3. PICK b \in Groupings : b = g[k]
      BY <2>3, <3>1
    <3>4. Continues(sizes, overlap, a, b)
      BY <2>1, <3>2, <3>3 DEF Grouped
    <3>5. /\ 1 <= a.first /\ a.first <= a.last /\ a.last <= Len(q)
          /\ 1 <= b.first /\ b.first <= b.last /\ b.last <= Len(q)
      BY <2>3, <3>1, <3>2, <3>3
    <3>6. Advances(t, Span(q[a.first].start, q[a.last].end), Span(q[b.first].start, q[b.last].end))
      BY <3>4, <3>5, GroupsAdvance
    <3>7. /\ r[k - 1] = Span(q[a.first].start, q[a.last].end)
          /\ r[k] = Span(q[b.first].start, q[b.last].end)
      BY <1>1, <2>2, <3>1, <3>2, <3>3
    <3> QED
      BY <3>6, <3>7
  <2>8. Holds(t, r, s)
    <3> SUFFICES ASSUME NEW x \in s.start .. s.end - 1, t[x + 1] \notin White
                 PROVE  \E k \in DOMAIN r : r[k].start <= x /\ x < r[k].end
      BY DEF Holds
    <3>1. PICK m \in 1 .. Len(q) : q[m].start <= x /\ x < q[m].end
      BY <1>2 DEF Holds
    <3>2. PICK k \in 1 .. Len(g) : g[k].first <= m /\ m <= g[k].last
      BY <1>2, <1>3, <1>4, <2>1, GroupsCover
    <3>3. PICK i \in 1 .. Len(q) : i = g[k].first
      BY <2>3
    <3>4. PICK j \in 1 .. Len(q) : j = g[k].last
      BY <2>3
    <3>5. q[i].start <= q[m].start /\ q[m].end <= q[j].end
      BY <3>2, <3>3, <3>4, ChainIs
    <3>6. /\ q[i].start \in Nat /\ q[m].start \in Nat /\ q[m].end \in Nat /\ q[j].end \in Nat
          /\ s.start \in Nat /\ s.end \in Nat
      <4>1. q[i].start \in Nat /\ q[m].start \in Nat
        BY ChainIs
      <4>2. q[m].end \in Nat /\ q[j].end \in Nat
        BY ChainIs
      <4>3. s.start \in Nat /\ s.end \in Nat
        BY ChainIs
      <4> QED
        BY <4>1, <4>2, <4>3
    <3>7. q[i].start <= x /\ x < q[j].end
      <4>1. x \in Int
        BY <3>6
      <4>2. PICK a \in Nat : a = q[i].start
        BY <3>6
      <4>3. PICK b \in Nat : b = q[j].end
        BY <3>6
      <4>4. PICK c \in Nat : c = q[m].start
        BY <3>6
      <4>5. PICK d \in Nat : d = q[m].end
        BY <3>6
      <4>6. a <= c /\ c <= x /\ x < d /\ d <= b
        BY <3>1, <3>5, <4>2, <4>3, <4>4, <4>5
      <4>7. a <= x /\ x < b
        BY ONLY <4>1, <4>6, a \in Nat, b \in Nat, c \in Nat, d \in Nat
      <4> QED
        BY <4>2, <4>3, <4>7
    <3> QED
      BY <2>4, <2>5, <3>3, <3>4, <3>7
  <2> HIDE DEF sizes
  <2>9. Splits(t, r, s)
    BY ONLY <2>4, <2>5, <2>6, <2>7, <2>8 DEF Splits
  <2> QED
    BY <2>9 DEF r
<1> QED
  BY <1>5, <1>6

(* Plain text, of any length and however its white space and its stops      *)
(* fall, is cut into chunks that lie within it, hold all of its ink, have   *)
(* no more of it than the target and the overlap, and go forward: of two    *)
(* neighbours the later starts no earlier and ends later, and what both     *)
(* contain is within the overlap (_presplit, _pack_spans and                *)
(* split_plain_text of splitters.py).                                       *)
THEOREM PlainTextSplits ==
    ASSUME NEW t, NEW s \in Spans, NEW overlap \in 0 .. Overlap
    PROVE  Splits(t, PlainTextSpans(t, s, overlap), s)
<1> DEFINE P == Presplit(t, Pieces(t, s, ParagraphBreaks(t, s)))
           q == InOrder(P)
<1>1. Tiles(t, P, s) /\ \A p \in P : Size(p) <= Target
  BY PresplitTiles
<1> HIDE DEF P
<1>2. Chain(q, s) /\ Members(q) = P
  BY <1>1, InOrderChains
<1> HIDE DEF q
<1>3. \A m \in DOMAIN q : q[m] \in P
  BY <1>2 DEF Members
<1>4. \A p \in P : \E m \in DOMAIN q : q[m] = p
  BY <1>2 DEF Members
<1>5. Holds(t, q, s)
  BY <1>1, <1>4 DEF Tiles, Holds
<1>6. \A m \in 1 .. Len(q) : Size(q[m]) <= Target
  BY <1>1, <1>2, <1>3, ChainIs
<1>7. Splits(t, Pack(q, 0, Target, overlap), s)
  BY <1>2, <1>5, <1>6, PackSplits
<1> QED
  BY <1>7 DEF PlainTextSpans, q, P

-----------------------------------------------------------------------------
(* Sequences put together. *)

(* Where the members of r, the first n sequences of q after each other, come from: *)
(* r[i] is the J[i]-th member of the K[i]-th sequence.                             *)
ComesFrom(q, n, r, K, J) ==
    /\ \A i \in 1 .. Len(r) :
          /\ K[i] \in 1 .. n /\ J[i] \in Nat /\ 1 <= J[i] /\ J[i] <= Len(q[K[i]])
          /\ r[i] = q[K[i]][J[i]]
    /\ \A i, j \in 1 .. Len(r) :
          i < j => K[i] < K[j] \/ (K[i] = K[j] /\ J[j] - J[i] = j - i)
    /\ \A k \in 1 .. n : \A j \in 1 .. Len(q[k]) :
          \E i \in 1 .. Len(r) : K[i] = k /\ J[i] = j

(* One more sequence put together with the others. *)
LEMMA ComesFromNext ==
    ASSUME NEW A, NEW q \in Seq(Seq(A)), NEW n \in Nat, NEW m \in Nat, m = n - 1, m < Len(q),
           NEW r \in Seq(A), NEW K, NEW J, ComesFrom(q, m, r, K, J)
    PROVE  \E KK, JJ : ComesFrom(q, n, r \o q[n], KK, JJ)
<1> DEFINE l == Len(r)
           c == Len(q[n])
           u == r \o q[n]
           KK == [i \in 1 .. l + c |-> IF i <= l THEN K[i] ELSE n]
           JJ == [i \in 1 .. l + c |-> IF i <= l THEN J[i] ELSE i - l]
<1>1. n \in 1 .. Len(q) /\ q[n] \in Seq(A)
  BY ElementOfSeq, LenProperties
<1>2. l \in Nat /\ c \in Nat
  BY <1>1
<1>3. /\ Len(u) = l + c
      /\ \A i \in 1 .. l : u[i] = r[i]
      /\ \A i \in 1 .. l + c : i > l => u[i] = q[n][i - l]
  BY <1>1
<1>4. \A i \in 1 .. l :
         /\ K[i] \in 1 .. m /\ J[i] \in Nat /\ 1 <= J[i] /\ J[i] <= Len(q[K[i]])
         /\ r[i] = q[K[i]][J[i]]
  BY DEF ComesFrom
<1>5. \A i, j \in 1 .. l : i < j => K[i] < K[j] \/ (K[i] = K[j] /\ J[j] - J[i] = j - i)
  BY DEF ComesFrom
<1>6. \A k \in 1 .. m : \A j \in 1 .. Len(q[k]) : \E i \in 1 .. l : K[i] = k /\ J[i] = j
  BY DEF ComesFrom
<1> HIDE DEF l, c, u
<1>7. \A i \in 1 .. l : i \in 1 .. l + c /\ KK[i] = K[i] /\ JJ[i] = J[i]
  BY <1>2
<1>8. \A i \in 1 .. l + c : i > l => KK[i] = n /\ JJ[i] = i - l
  BY <1>2
<1> HIDE DEF KK, JJ
<1>9. \A i \in 1 .. l + c : i \in 1 .. l \/ i > l
  BY <1>2
<1>10. ASSUME NEW i \in 1 .. l + c
       PROVE  /\ KK[i] \in 1 .. n /\ JJ[i] \in Nat /\ 1 <= JJ[i] /\ JJ[i] <= Len(q[KK[i]])
              /\ u[i] = q[KK[i]][JJ[i]]
  <2>1. CASE i \in 1 .. l
    <3>1. K[i] \in 1 .. n
      BY <1>4, <2>1
    <3> QED
      BY <1>3, <1>4, <1>7, <2>1, <3>1
  <2>2. CASE i > l
    <3>1. KK[i] = n /\ JJ[i] = i - l
      BY <1>8, <2>2
    <3>2. i - l \in Nat /\ 1 <= i - l /\ i - l <= c /\ n \in 1 .. n
      BY <1>1, <1>2, <2>2
    <3> QED
      BY <1>3, <2>2, <3>1, <3>2 DEF c
  <2> QED
    BY <1>9, <2>1, <2>2
<1>11. ASSUME NEW i \in 1 .. l + c, NEW j \in 1 .. l + c, i < j
       PROVE  KK[i] < KK[j] \/ (KK[i] = KK[j] /\ JJ[j] - JJ[i] = j - i)
  <2>1. CASE j \in 1 .. l
    <3>1. i \in 1 .. l
      BY <1>2, <1>11, <2>1
    <3> QED
      BY <1>5, <1>7, <1>11, <2>1, <3>1
  <2>2. CASE i > l
    <3>1. j > l
      BY <1>2, <1>11, <2>2
    <3>2. KK[i] = n /\ JJ[i] = i - l /\ KK[j] = n /\ JJ[j] = j - l
      BY <1>8, <2>2, <3>1
    <3>3. (j - l) - (i - l) = j - i
      BY <1>2
    <3> QED
      BY <3>2, <3>3
  <2>3. CASE i \in 1 .. l /\ j > l
    <3>1. KK[i] \in 1 .. m /\ KK[j] = n
      BY <1>4, <1>7, <1>8, <2>3
    <3> QED
      BY <3>1
  <2> QED
    BY <1>9, <2>1, <2>2, <2>3
<1>12. ASSUME NEW k \in 1 .. n, NEW j \in 1 .. Len(q[k])
       PROVE  \E i \in 1 .. l + c : KK[i] = k /\ JJ[i] = j
  <2>1. CASE k \in 1 .. m
    <3>1. PICK i \in 1 .. l : K[i] = k /\ J[i] = j
      BY <1>6, <2>1
    <3> QED
      BY <1>7, <3>1
  <2>2. CASE k = n
    <3>1. j \in 1 .. c /\ l + j \in 1 .. l + c /\ l + j > l /\ (l + j) - l = j
      <4>1. j \in 1 .. c
        BY <2>2 DEF c
      <4> QED
        BY <1>2, <4>1
    <3>2. PICK i \in 1 .. l + c : i = l + j
      BY <3>1
    <3>3. KK[i] = n /\ JJ[i] = j
      BY <1>8, <3>1, <3>2
    <3> QED
      BY <2>2, <3>3
  <2> QED
    BY <2>1, <2>2
<1>13. ComesFrom(q, n, u, KK, JJ)
  BY <1>3, <1>10, <1>11, <1>12 DEF ComesFrom
<1> QED
  BY <1>13 DEF u

(* Every member of sequences put together is a member of one of them, in    *)
(* their order.                                                             *)
LEMMA FlattenIs ==
    ASSUME NEW A, NEW q \in Seq(Seq(A))
    PROVE  /\ FlattenSeq(q) \in Seq(A)
           /\ \E K, J : ComesFrom(q, Len(q), FlattenSeq(q), K, J)
<1>1. CASE q = <<>>
  <2>1. FlattenSeq(q) = <<>>
    BY <1>1 DEF FlattenSeq
  <2>2. 1 .. Len(q) = {} /\ <<>> \in Seq(A) /\ Len(<<>>) = 0 /\ 1 .. 0 = {}
    BY <1>1
  <2>3. ComesFrom(q, Len(q), <<>>, <<>>, <<>>)
    BY <2>2 DEF ComesFrom
  <2> QED
    BY <2>1, <2>2, <2>3
<1>2. CASE q # <<>>
  <2> DEFINE L == Len(q)
  <2>1. L \in Nat /\ L >= 1 /\ q[1] \in Seq(A)
    BY <1>2, EmptySeq, LenProperties, ElementOfSeq
  <2>2. PICK f \in [1 .. L -> Seq(A)] :
            /\ f[1] = q[1]
            /\ \A n \in 2 .. L : f[n] = f[n - 1] \o q[n]
            /\ FlattenSeq(q) = f[L]
    BY <1>2, FlattenSteps
  <2> DEFINE S == {n \in 1 .. L : \E K, J : ComesFrom(q, n, f[n], K, J)}
  <2>3. 1 \in S
    <3> DEFINE c == Len(q[1])
               K == [i \in 1 .. c |-> 1]
               J == [i \in 1 .. c |-> i]
    <3>1. c \in Nat
      BY <2>1
    <3>2. Len(f[1]) = c
      BY <2>2
    <3> HIDE DEF c
    <3>3. \A i \in 1 .. c : K[i] = 1 /\ J[i] = i /\ i \in Nat
      BY <3>1
    <3> HIDE DEF K, J
    <3>4. ASSUME NEW i \in 1 .. c
          PROVE  /\ K[i] \in 1 .. 1 /\ J[i] \in Nat /\ 1 <= J[i] /\ J[i] <= Len(q[K[i]])
                 /\ f[1][i] = q[K[i]][J[i]]
      BY <2>2, <3>1, <3>3 DEF c
    <3>5. ASSUME NEW i \in 1 .. c, NEW j \in 1 .. c, i < j
          PROVE  K[i] < K[j] \/ (K[i] = K[j] /\ J[j] - J[i] = j - i)
      BY <3>3
    <3>6. ASSUME NEW k \in 1 .. 1, NEW j \in 1 .. Len(q[k])
          PROVE  \E i \in 1 .. c : K[i] = k /\ J[i] = j
      <4>1. k = 1 /\ j \in 1 .. c
        BY DEF c
      <4> QED
        BY <3>3, <4>1
    <3>7. ComesFrom(q, 1, f[1], K, J)
      BY <3>2, <3>4, <3>5, <3>6 DEF ComesFrom
    <3> QED
      BY <2>1, <3>7
  <2>4. ASSUME NEW n \in 1 + 1 .. L, n - 1 \in S PROVE n \in S
    <3>1. PICK m \in Nat : m = n - 1
      BY <2>1
    <3>2. PICK K, J : ComesFrom(q, m, f[m], K, J)
      BY <2>4, <3>1
    <3>3. n \in Nat /\ m < Len(q) /\ f[m] \in Seq(A) /\ n \in 1 .. L /\ n \in 2 .. L
      <4>1. n \in Nat /\ n \in 1 .. L /\ n \in 2 .. L /\ m < Len(q) /\ m \in 1 .. L
        BY <2>1, <3>1
      <4> QED
        BY <2>2, <4>1
    <3>4. f[n] = f[m] \o q[n]
      BY <2>2, <3>1, <3>3
    <3>5. \E KK, JJ : ComesFrom(q, n, f[m] \o q[n], KK, JJ)
      BY <3>1, <3>2, <3>3, ComesFromNext
    <3> QED
      BY <3>3, <3>4, <3>5
  <2>5. \A n \in 1 .. L : n \in S
    <3> HIDE DEF S, L
    <3> QED
      BY ONLY <2>1, <2>3, <2>4, 1 \in Nat, InductionFrom
  <2>6. L \in S /\ f[L] \in Seq(A)
    <3>1. L \in 1 .. L
      BY <2>1
    <3>2. L \in S
      BY ONLY <2>5, <3>1
    <3> QED
      BY <2>2, <3>1, <3>2
  <2> QED
    BY <2>2, <2>6
<1> QED
  BY <1>1, <1>2

(* What is split part by part. *)
LEMMA SplitsInParts ==
    ASSUME NEW t, NEW s \in Spans, NEW q, Chain(q, s), Holds(t, q, s),
           NEW w, DOMAIN w = 1 .. Len(q), w \in Seq(Seq(Spans)),
           \A k \in 1 .. Len(q) : Splits(t, w[k], q[k])
    PROVE  Splits(t, FlattenSeq(w), s)
<1> DEFINE r == FlattenSeq(w)
<1>1. Len(q) \in Nat /\ Len(w) = Len(q) /\ DOMAIN q = 1 .. Len(q)
  BY ChainIs
<1>2. PICK K, J : r \in Seq(Spans) /\ ComesFrom(w, Len(q), r, K, J)
  BY <1>1, FlattenIs
<1> HIDE DEF r
<1>3. Len(r) \in Nat /\ DOMAIN r = 1 .. Len(r)
  BY <1>2
<1>4. \A i \in 1 .. Len(r) :
         /\ K[i] \in 1 .. Len(q) /\ J[i] \in Nat /\ 1 <= J[i] /\ J[i] <= Len(w[K[i]])
         /\ r[i] = w[K[i]][J[i]]
  BY <1>2 DEF ComesFrom
<1>5. ASSUME NEW k \in 1 .. Len(q)
      PROVE  /\ w[k] \in Seq(Spans) /\ Len(w[k]) \in Nat /\ DOMAIN w[k] = 1 .. Len(w[k])
             /\ Splits(t, w[k], q[k])
  BY <1>1
<1>6. ASSUME NEW i \in 1 .. Len(r) PROVE J[i] \in 1 .. Len(w[K[i]])
  <2>1. K[i] \in 1 .. Len(q) /\ J[i] \in Nat /\ 1 <= J[i] /\ J[i] <= Len(w[K[i]])
    BY <1>4
  <2>2. Len(w[K[i]]) \in Nat
    BY <1>5, <2>1
  <2> QED
    BY <2>1, <2>2
<1>7. ASSUME NEW i \in 1 .. Len(r)
      PROVE  /\ Inside(r[i], s) /\ Inside(r[i], q[K[i]])
             /\ Cardinality(InkAt(t, Positions(r[i]))) <= Target + Overlap
             /\ r[i].start \in Nat /\ r[i].end \in Nat
  <2>1. PICK k \in 1 .. Len(q) : k = K[i]
    BY <1>4
  <2>2. PICK j \in 1 .. Len(w[k]) : j = J[i]
    BY <1>6, <2>1
  <2>3. r[i] = w[k][j]
    BY <1>4, <2>1, <2>2
  <2>4. Inside(w[k][j], q[k]) /\ Cardinality(InkAt(t, Positions(w[k][j]))) <= Target + Overlap
    BY <1>5 DEF Splits
  <2>5. r[i] \in Spans
    BY <1>2
  <2>6. r[i].start \in Nat /\ r[i].end \in Nat
    BY <2>5 DEF Spans
  <2>7. /\ q[k].start \in Nat /\ q[k].end \in Nat /\ s.start <= q[k].start /\ q[k].end <= s.end
    BY ChainIs
  <2>8. s.start \in Nat /\ s.end \in Nat
    BY ChainIs
  <2>9. Inside(r[i], s)
    <3>1. q[k].start <= r[i].start /\ r[i].start < r[i].end /\ r[i].end <= q[k].end
      BY <2>3, <2>4 DEF Inside
    <3>2. s.start <= r[i].start /\ r[i].start < r[i].end /\ r[i].end <= s.end
      BY ONLY <2>6, <2>7, <2>8, <3>1
    <3> QED
      BY <3>2 DEF Inside
  <2> QED
    BY <2>1, <2>3, <2>4, <2>6, <2>9
<1>8. ASSUME NEW i \in 2 .. Len(r) PROVE Advances(t, r[i - 1], r[i])
  <2>1. i - 1 \in 1 .. Len(r) /\ i \in 1 .. Len(r) /\ i - 1 < i /\ i - (i - 1) = 1
    BY <1>3
  <2>2. PICK m \in 1 .. Len(r) : m = i - 1
    BY <2>1
  <2>3. K[m] < K[i] \/ (K[m] = K[i] /\ J[i] - J[m] = 1)
    <3>1. K[m] < K[i] \/ (K[m] = K[i] /\ J[i] - J[m] = i - m)
      BY <1>2, <2>1, <2>2 DEF ComesFrom
    <3> QED
      BY <2>1, <2>2, <3>1
  <2>4. PICK k \in 1 .. Len(q) : k = K[i]
    BY <1>4, <2>1
  <2>5. PICK h \in 1 .. Len(q) : h = K[m]
    BY <1>4
  <2>6. CASE h = k /\ J[i] - J[m] = 1
    <3>1. PICK j \in 1 .. Len(w[k]) : j = J[i]
      BY <1>6, <2>1, <2>4
    <3>2. PICK l \in 1 .. Len(w[k]) : l = J[m]
      BY <1>6, <2>4, <2>5, <2>6
    <3>3. j \in 2 .. Len(w[k]) /\ l = j - 1
      BY <1>5, <2>6, <3>1, <3>2
    <3>4. r[i] = w[k][j] /\ r[m] = w[k][j - 1]
      BY <1>4, <2>1, <2>4, <2>5, <2>6, <3>1, <3>2, <3>3
    <3>5. Advances(t, w[k][j - 1], w[k][j])
      BY <1>5, <3>3 DEF Splits
    <3> QED
      BY <2>2, <3>4, <3>5
  <2>7. CASE h < k
    <3>1. PICK a \in Nat : a = r[m].start
      BY <1>7
    <3>2. PICK b \in Nat : b = r[m].end
      BY <1>7
    <3>3. PICK c \in Nat : c = r[i].start
      BY <1>7, <2>1
    <3>4. PICK d \in Nat : d = r[i].end
      BY <1>7, <2>1
    <3>5. PICK x \in Nat : x = q[h].end
      BY ChainIs
    <3>6. PICK y \in Nat : y = q[k].start
      BY ChainIs
    <3>7. x <= y
      BY <2>7, <3>5, <3>6, ChainIs
    <3>8. a < b /\ b <= x
      BY <1>7, <2>5, <3>1, <3>2, <3>5 DEF Inside
    <3>9. c < d /\ y <= c
      BY <1>7, <2>1, <2>4, <3>3, <3>4, <3>6 DEF Inside
    <3>10. a <= c /\ b < d /\ b <= c
      BY ONLY <3>7, <3>8, <3>9, a \in Nat, b \in Nat, c \in Nat, d \in Nat, x \in Nat, y \in Nat
    <3>11. Positions(r[m]) \cap Positions(r[i]) = {}
      BY <3>1, <3>2, <3>3, <3>4, <3>10 DEF Positions
    <3>12. Cardinality(InkAt(t, Positions(r[m]) \cap Positions(r[i]))) <= Overlap
      <4>1. PICK Z : Z = InkAt(t, Positions(r[m]) \cap Positions(r[i]))
        OBVIOUS
      <4>2. Z = {}
        BY <3>11, <4>1 DEF InkAt
      <4>3. Cardinality(Z) = 0
        BY <4>2, FS_EmptySet
      <4>4. Overlap \in Nat
        BY SizeAssumption
      <4>5. Cardinality(Z) <= Overlap
        BY ONLY <4>3, <4>4
      <4> QED
        BY ONLY <4>1, <4>5
    <3> QED
      BY <2>2, <3>1, <3>2, <3>3, <3>4, <3>10, <3>12 DEF Advances
  <2> QED
    BY <2>3, <2>4, <2>5, <2>6, <2>7
<1>9. Holds(t, r, s)
  <2> SUFFICES ASSUME NEW x \in s.start .. s.end - 1, t[x + 1] \notin White
               PROVE  \E i \in DOMAIN r : r[i].start <= x /\ x < r[i].end
    BY DEF Holds
  <2>1. PICK k \in 1 .. Len(q) : q[k].start <= x /\ x < q[k].end
    BY <1>1 DEF Holds
  <2>2. x \in q[k].start .. q[k].end - 1
    <3>1. q[k].start \in Nat /\ q[k].end \in Nat /\ x \in Int
      <4>1. s.start \in Nat /\ s.end \in Nat
        BY ChainIs
      <4>2. q[k].start \in Nat /\ q[k].end \in Nat
        BY ChainIs
      <4> QED
        BY <4>1, <4>2
    <3> QED
      BY ONLY <2>1, <3>1
  <2>3. PICK j \in DOMAIN w[k] : w[k][j].start <= x /\ x < w[k][j].end
    BY <1>5, <2>2 DEF Splits, Holds
  <2>4. j \in 1 .. Len(w[k])
    BY <1>5
  <2>5. PICK i \in 1 .. Len(r) : K[i] = k /\ J[i] = j
    BY <1>2, <2>4 DEF ComesFrom
  <2>6. r[i] = w[k][j]
    BY <1>4, <2>5
  <2> QED
    BY <1>3, <2>3, <2>6
<1>10. Splits(t, r, s)
  BY <1>2, <1>7, <1>8, <1>9 DEF Splits
<1> QED
  BY <1>10 DEF r

(* A small enough span need not be split. *)
LEMMA WholeSplits ==
    ASSUME NEW t, NEW s \in Spans, s.start < s.end, Size(s) <= Target
    PROVE  Splits(t, <<s>>, s)
<1> DEFINE r == <<s>>
<1>1. r \in Seq(Spans) /\ Len(r) = 1 /\ r[1] = s /\ DOMAIN r = 1 .. 1
  OBVIOUS
<1>2. s.start \in Nat /\ s.end \in Nat
  BY DEF Spans
<1>3. Inside(s, s)
  BY <1>2 DEF Inside
<1>4. Cardinality(InkAt(t, Positions(s))) <= Target + Overlap
  <2>1. InkAt(t, Positions(s)) \subseteq s.start + 1 .. s.end
    BY DEF InkAt, Positions
  <2>2. s.start <= s.end
    BY <1>2
  <2>3. /\ Cardinality(InkAt(t, Positions(s))) \in Nat
        /\ Cardinality(InkAt(t, Positions(s))) <= s.end - s.start
    BY ONLY <1>2, <2>1, <2>2, FewPlaces
  <2>4. s.end - s.start <= Target /\ Target \in Nat /\ Overlap \in Nat
    BY SizeAssumption DEF Size
  <2> QED
    BY ONLY <1>2, <2>3, <2>4
<1>5. Holds(t, r, s)
  <2> SUFFICES ASSUME NEW x \in s.start .. s.end - 1
               PROVE  \E m \in DOMAIN r : r[m].start <= x /\ x < r[m].end
    BY DEF Holds
  <2>1. s.start <= x /\ x < s.end
    BY <1>2
  <2> QED
    BY <1>1, <2>1
<1> HIDE DEF r
<1>6. \A k \in 1 .. Len(r) : r[k] = s
  BY <1>1
<1>7. 2 .. Len(r) = {}
  BY <1>1
<1>8. Splits(t, r, s)
  BY <1>1, <1>3, <1>4, <1>5, <1>6, <1>7 DEF Splits
<1> QED
  BY <1>8 DEF r

-----------------------------------------------------------------------------
(* Sections, and Markdown. *)

(* Spans of s that follow each other and leave nothing out. *)
Divides(q, s) ==
    /\ Chain(q, s) /\ q # <<>>
    /\ \A x \in s.start .. s.end - 1 :
          \E k \in 1 .. Len(q) : q[k].start <= x /\ x < q[k].end

(* Each begins where the one before it ends. *)
Adjoin(q) ==
    /\ q \in Seq(Spans) /\ q # <<>>
    /\ \A k \in 1 .. Len(q) : q[k].start < q[k].end
    /\ \A k \in 2 .. Len(q) : q[k].start = q[k - 1].end

(* Spans that divide a span hold all of its ink. *)
LEMMA DividesHolds ==
    ASSUME NEW t, NEW s \in Spans, NEW q, Divides(q, s)
    PROVE  Holds(t, q, s)
<1>1. DOMAIN q = 1 .. Len(q)
  BY ChainIs DEF Divides
<1> QED
  BY <1>1 DEF Divides, Holds

(* Sections adjoin, begin and end at the given starts, and divide what      *)
(* follows the first of them.                                               *)
LEMMA SectionsAre ==
    ASSUME NEW a \in Nat, NEW b \in Nat, NEW S \in SUBSET (a .. b - 1), S # {}
    PROVE  LET q == Sections(S, b)
           IN  /\ Adjoin(q)
               /\ q[1].start \in S /\ \A y \in S : q[1].start <= y
               /\ Divides(q, Span(q[1].start, b))
               /\ \A k \in 1 .. Len(q) :
                     /\ q[k].start \in S /\ q[k].end \in S \cup {b}
                     /\ \A y \in S : y <= q[k].start \/ q[k].end <= y
<1> DEFINE n == Cardinality(S)
           f == Ascending(S)
           q == Sections(S, b)
<1>1. S \in SUBSET Nat /\ \A y \in S : y < b
  OBVIOUS
<1>2. IsFiniteSet(S) /\ S \in SUBSET Int
  <2>1. a \in Int /\ b - 1 \in Int
    OBVIOUS
  <2>2. IsFiniteSet(S)
    BY ONLY <2>1, S \in SUBSET (a .. b - 1), IntervalFinite
  <2>3. S \in SUBSET Int
    BY <1>1
  <2> QED
    BY <2>2, <2>3
<1>3. /\ n \in Nat /\ f \in [1 .. n -> S]
      /\ \A i, j \in 1 .. n : i < j => f[i] < f[j]
      /\ \A x \in S : \E i \in 1 .. n : f[i] = x
  BY <1>2, AscendingIs
<1>4. n >= 1
  <2>1. PICK x \in S : TRUE
    OBVIOUS
  <2>2. PICK i \in 1 .. n : f[i] = x
    BY <1>3
  <2> QED
    BY <1>3
<1> HIDE DEF f, n
<1>5. Len(f) = n /\ DOMAIN f = 1 .. n /\ \A i \in 1 .. n : f[i] \in S /\ f[i] \in Nat /\ f[i] < b
  <2>1. \A i \in 1 .. n : f[i] \in S
    BY <1>3
  <2>2. Len(f) = n /\ DOMAIN f = 1 .. n
    BY ONLY <1>3
  <2> QED
    BY <1>1, <2>1, <2>2
<1> DEFINE e(i) == IF i = n THEN b ELSE f[i + 1]
<1>6. ASSUME NEW i \in 1 .. n
      PROVE  e(i) \in Nat /\ f[i] < e(i) /\ e(i) \in S \cup {b} /\ e(i) <= b
  <2>1. CASE i = n
    BY <1>5, <2>1
  <2>2. CASE i # n
    <3>1. i + 1 \in 1 .. n /\ i < i + 1
      BY <1>3, <2>2
    <3>2. PICK j \in 1 .. n : j = i + 1
      BY <3>1
    <3>3. e(i) = f[j] /\ i < j
      BY <2>2, <3>1, <3>2
    <3> QED
      BY <1>3, <1>5, <3>3
  <2> QED
    BY <2>1, <2>2
<1>7. q = [i \in 1 .. n |-> Span(f[i], e(i))]
  BY <1>5 DEF Sections, f
<1>8. ASSUME NEW i \in 1 .. n
      PROVE  q[i] \in Spans /\ q[i].start = f[i] /\ q[i].end = e(i)
  <2>1. q[i] = Span(f[i], e(i))
    BY <1>7
  <2> HIDE DEF q, e
  <2> QED
    BY <1>5, <1>6, <2>1, SpanIs
<1>9. q \in Seq(Spans) /\ Len(q) = n /\ q # <<>> /\ DOMAIN q = 1 .. n
  <2>1. q \in [1 .. n -> Spans]
    <3>1. \A i \in 1 .. n : q[i] \in Spans
      BY <1>8
    <3> QED
      BY ONLY <1>7, <3>1
  <2>2. q \in Seq(Spans) /\ Len(q) = n
    BY ONLY <1>3, <2>1
  <2> HIDE DEF q
  <2> QED
    BY <1>4, <2>1, <2>2
<1> HIDE DEF q
<1>10. \A y \in S : f[1] <= y
  <2> TAKE y \in S
  <2>1. PICK i \in 1 .. n : f[i] = y
    BY <1>3
  <2>2. 1 \in 1 .. n /\ (i = 1 \/ 1 < i)
    BY <1>3, <1>4
  <2>3. CASE i = 1
    BY <1>5, <2>1, <2>2, <2>3
  <2>4. CASE 1 < i
    BY <1>3, <1>5, <2>1, <2>2, <2>4
  <2> QED
    BY <2>2, <2>3, <2>4
<1>11. ASSUME NEW k \in 2 .. n PROVE q[k].start = q[k - 1].end
  <2>1. PICK j \in 1 .. n : j = k - 1
    BY <1>3
  <2>2. j # n /\ j + 1 = k /\ k \in 1 .. n
    BY <1>3, <2>1
  <2>3. e(j) = f[k]
    BY <2>2
  <2> HIDE DEF e
  <2> QED
    BY <1>8, <2>1, <2>2, <2>3
<1>12. Adjoin(q)
  <2>1. \A k \in 1 .. n : q[k].start < q[k].end
    BY <1>6, <1>8
  <2> QED
    BY <1>9, <1>11, <2>1 DEF Adjoin
<1>13. ASSUME NEW i \in 1 .. n, NEW j \in 1 .. n, i < j PROVE e(i) <= f[j]
  <2>1. i # n /\ i + 1 \in 1 .. n /\ i + 1 <= j
    BY <1>3, <1>13
  <2>2. PICK k \in 1 .. n : k = i + 1
    BY <2>1
  <2>3. e(i) = f[k]
    BY <2>1, <2>2
  <2>4. k = j \/ k < j
    BY <2>1, <2>2
  <2>5. f[k] \in Nat /\ f[j] \in Nat
    BY <1>5
  <2>6. CASE k = j
    BY <2>3, <2>5, <2>6
  <2>7. CASE k < j
    <3>1. f[k] < f[j]
      BY <1>3, <2>7
    <3> QED
      BY ONLY <2>3, <2>5, <3>1
  <2> QED
    BY <2>4, <2>6, <2>7
<1>14. ASSUME NEW x \in f[1] .. b - 1 PROVE \E k \in 1 .. n : f[k] <= x /\ x < e(k)
  <2> DEFINE T == {y \in S : y <= x}
  <2>1. 1 \in 1 .. n /\ f[1] \in S /\ f[1] \in Nat /\ x \in Int /\ f[1] <= x /\ x < b
    <3>1. 1 \in 1 .. n
      BY <1>3, <1>4
    <3> QED
      BY <1>5, <3>1
  <2>2. T \in SUBSET (0 .. x) /\ T # {}
    <3>1. f[1] \in T
      BY <2>1
    <3>2. \A y \in T : y \in Nat /\ y <= x
      BY <1>1
    <3> HIDE DEF T
    <3> QED
      BY <2>1, <3>1, <3>2
  <2>3. Max(T) \in T /\ \A y \in T : Max(T) >= y
    <3>1. 0 \in Int /\ x \in Int
      BY <2>1
    <3> HIDE DEF T
    <3> QED
      BY ONLY <2>2, <3>1, Greatest
  <2>4. PICK k \in 1 .. n : f[k] = Max(T)
    BY <1>3, <2>3
  <2>5. f[k] <= x
    BY <2>3, <2>4
  <2>6. x < e(k)
    <3>1. CASE k = n
      BY <2>1, <3>1
    <3>2. CASE k # n
      <4>1. k + 1 \in 1 .. n
        BY <1>3, <3>2
      <4>2. PICK j \in 1 .. n : j = k + 1
        BY <4>1
      <4>3. k < j /\ e(k) = f[j]
        BY <3>2, <4>1, <4>2
      <4>4. f[k] < f[j] /\ f[k] \in Nat /\ f[j] \in Nat /\ f[j] \in S
        BY <1>3, <1>5, <4>3
      <4>5. f[j] <= x => FALSE
        <5>1. f[j] <= x => f[j] \in T
          BY <4>4
        <5>2. f[j] \in T => f[k] >= f[j]
          BY <2>3, <2>4
        <5> QED
          BY ONLY <4>4, <5>1, <5>2
      <4> QED
        BY ONLY <2>1, <4>3, <4>4, <4>5
    <3> QED
      BY <3>1, <3>2
  <2> QED
    BY <2>5, <2>6
<1>15. q[1].start = f[1] /\ f[1] \in S /\ f[1] \in Nat
  <2>1. 1 \in 1 .. n
    BY <1>3, <1>4
  <2> QED
    BY <1>5, <1>8, <2>1
<1>16. Divides(q, Span(q[1].start, b))
  <2> DEFINE s == Span(q[1].start, b)
  <2>1. s.start = f[1] /\ s.end = b
    BY <1>15 DEF Span
  <2> HIDE DEF s, e
  <2>2. \A k \in 1 .. n : Inside(q[k], s)
    <3> SUFFICES ASSUME NEW k \in 1 .. n PROVE Inside(q[k], s)
      OBVIOUS
    <3>1. f[1] <= f[k]
      BY <1>5, <1>10
    <3> QED
      BY <1>6, <1>8, <2>1, <3>1 DEF Inside
  <2>3. \A i, j \in 1 .. n : i < j => q[i].end <= q[j].start
    BY <1>8, <1>13
  <2>4. Chain(q, s)
    BY <1>9, <2>2, <2>3 DEF Chain
  <2>5. \A x \in s.start .. s.end - 1 : \E k \in 1 .. n : q[k].start <= x /\ x < q[k].end
    BY <1>8, <1>14, <2>1
  <2>6. Divides(q, s)
    BY <1>9, <2>4, <2>5 DEF Divides
  <2> QED
    BY <2>6 DEF s
<1>17. ASSUME NEW k \in 1 .. n
       PROVE  /\ q[k].start \in S /\ q[k].end \in S \cup {b}
              /\ \A y \in S : y <= q[k].start \/ q[k].end <= y
  <2>1. q[k].start \in S /\ q[k].end \in S \cup {b}
    BY <1>5, <1>6, <1>8
  <2>2. ASSUME NEW y \in S PROVE y <= f[k] \/ e(k) <= y
    <3>1. PICK j \in 1 .. n : f[j] = y
      BY <1>3
    <3>2. j = k \/ j < k \/ k < j
      OBVIOUS
    <3>3. CASE j = k
      BY <1>5, <3>1, <3>3
    <3>4. CASE j < k
      BY <1>3, <1>5, <3>1, <3>4
    <3>5. CASE k < j
      BY <1>13, <3>1, <3>5
    <3> QED
      BY <3>2, <3>3, <3>4, <3>5
  <2> QED
    BY <1>8, <2>1, <2>2
<1> QED
  BY <1>9, <1>10, <1>12, <1>15, <1>16, <1>17 DEF q

(* A span divides itself. *)
LEMMA DividesFirst ==
    ASSUME NEW p \in Spans, p.start < p.end
    PROVE  Divides(Append(<<>>, p), p)
<1> DEFINE q == Append(<<>>, p)
<1>1. q \in Seq(Spans) /\ Len(q) = 1 /\ q[1] = p /\ q # <<>> /\ DOMAIN q = 1 .. 1
  OBVIOUS
<1> HIDE DEF q
<1>2. p.start \in Nat /\ p.end \in Nat
  BY DEF Spans
<1>3. Inside(p, p)
  BY <1>2 DEF Inside
<1>4. \A i \in DOMAIN q : q[i] = p
  BY <1>1
<1>5. \A i, j \in DOMAIN q : ~(i < j)
  BY <1>1
<1>6. Chain(q, p)
  BY <1>1, <1>3, <1>4, <1>5 DEF Chain
<1>7. \A x \in p.start .. p.end - 1 : \E k \in 1 .. Len(q) : q[k].start <= x /\ x < q[k].end
  <2> TAKE x \in p.start .. p.end - 1
  <2>1. p.start <= x /\ x < p.end
    BY <1>2
  <2> QED
    BY <1>1, <2>1
<1>8. Divides(q, p)
  BY <1>1, <1>6, <1>7 DEF Divides
<1> QED
  BY <1>8 DEF q

(* A span that begins where the others end divides, with them, the longer   *)
(* span.                                                                    *)
LEMMA DividesAppend ==
    ASSUME NEW a \in Nat, NEW b \in Nat, NEW q, Divides(q, Span(a, b)),
           NEW p \in Spans, p.start = b, p.start < p.end
    PROVE  Divides(Append(q, p), Span(a, p.end))
<1> DEFINE s == Span(a, b)
           u == Span(a, p.end)
           r == Append(q, p)
           n == Len(q)
<1>1. PICK c \in Nat : c = p.end
  BY DEF Spans
<1>2. /\ s \in Spans /\ s.start = a /\ s.end = b
      /\ u \in Spans /\ u.start = a /\ u.end = c
  BY <1>1, SpanIs
<1> HIDE DEF s, u
<1>3. Chain(q, s) /\ Divides(q, s)
  BY DEF Divides, s
<1>4. /\ n \in Nat /\ q \in Seq(Spans) /\ DOMAIN q = 1 .. n
      /\ \A m \in 1 .. n : /\ q[m] \in Spans /\ q[m].start \in Nat /\ q[m].end \in Nat
                           /\ a <= q[m].start /\ q[m].start < q[m].end /\ q[m].end <= b
  <2>1. n \in Nat /\ DOMAIN q = 1 .. n
    BY <1>2, <1>3, ChainIs
  <2>2. q \in Seq(Spans)
    BY <1>3 DEF Chain
  <2>3. \A m \in 1 .. n : /\ q[m] \in Spans /\ q[m].start \in Nat /\ q[m].end \in Nat
                          /\ a <= q[m].start /\ q[m].start < q[m].end /\ q[m].end <= b
    BY <1>2, <1>3, ChainIs
  <2> QED
    BY <2>1, <2>2, <2>3
<1>5. \A i, j \in 1 .. n : i < j => q[i].end <= q[j].start
  BY <1>2, <1>3, ChainIs
<1>6. b < c /\ a <= b
  <2>1. n >= 1
    BY <1>3, <1>4, EmptySeq DEF Divides
  <2>2. 1 \in 1 .. n
    BY <1>4, <2>1
  <2>3. /\ q[1].start \in Nat /\ q[1].end \in Nat
        /\ a <= q[1].start /\ q[1].start < q[1].end /\ q[1].end <= b
    BY <1>4, <2>2
  <2>4. a <= b
    BY ONLY <2>3, a \in Nat, b \in Nat
  <2> QED
    BY <1>1, <2>4
<1> HIDE DEF n
<1>7. /\ r \in Seq(Spans) /\ Len(r) = n + 1 /\ r[n + 1] = p /\ DOMAIN r = 1 .. n + 1 /\ r # <<>>
      /\ \A m \in 1 .. n : r[m] = q[m]
  <2>1. r \in Seq(Spans) /\ Len(r) = Len(q) + 1 /\ r[Len(q) + 1] = p /\ \A m \in 1 .. Len(q) : r[m] = q[m]
    BY <1>4, AppendProperties
  <2>2. Len(q) = n
    BY DEF n
  <2> HIDE DEF r
  <2> QED
    BY <1>4, <2>1, <2>2
<1> HIDE DEF r
<1>8. \A k \in 1 .. n + 1 : k = n + 1 \/ k \in 1 .. n
  BY <1>4
<1>9. ASSUME NEW k \in 1 .. n + 1 PROVE Inside(r[k], u)
  <2>1. CASE k = n + 1
    BY <1>1, <1>2, <1>6, <1>7, <2>1 DEF Inside
  <2>2. CASE k \in 1 .. n
    BY <1>2, <1>4, <1>6, <1>7, <2>2 DEF Inside
  <2> QED
    BY <1>8, <2>1, <2>2
<1>10. ASSUME NEW i \in 1 .. n + 1, NEW j \in 1 .. n + 1, i < j PROVE r[i].end <= r[j].start
  <2>1. i \in 1 .. n
    BY <1>4, <1>10
  <2>2. CASE j = n + 1
    BY <1>4, <1>7, <2>1, <2>2
  <2>3. CASE j \in 1 .. n
    BY <1>5, <1>7, <1>10, <2>1, <2>3
  <2> QED
    BY <1>8, <2>2, <2>3
<1>11. ASSUME NEW x \in a .. c - 1 PROVE \E k \in 1 .. n + 1 : r[k].start <= x /\ x < r[k].end
  <2>1. CASE x < b
    <3>1. x \in s.start .. s.end - 1
      BY <1>2, <2>1
    <3>2. PICK k \in 1 .. n : q[k].start <= x /\ x < q[k].end
      BY <1>3, <3>1 DEF Divides, n
    <3>3. k \in 1 .. n + 1 /\ r[k] = q[k]
      BY <1>4, <1>7
    <3> QED
      BY <3>2, <3>3
  <2>2. CASE ~(x < b)
    <3>1. b <= x /\ x < c /\ n + 1 \in 1 .. n + 1
      BY <1>4, <2>2
    <3> QED
      BY <1>1, <1>7, <3>1
  <2> QED
    BY <2>1, <2>2
<1>12. Chain(r, u)
  BY <1>7, <1>9, <1>10 DEF Chain
<1>13. Divides(r, u)
  BY <1>2, <1>7, <1>11, <1>12 DEF Divides
<1> QED
  BY <1>13 DEF r, u

(* So does the last of them when it is stretched. *)
LEMMA DividesStretch ==
    ASSUME NEW a \in Nat, NEW b \in Nat, NEW q, Divides(q, Span(a, b)),
           NEW c \in Nat, b < c
    PROVE  Divides(Append(Front(q), Span(Last(q).start, c)), Span(a, c))
<1> DEFINE s == Span(a, b)
           u == Span(a, c)
           n == Len(q)
           p == Span(Last(q).start, c)
           r == Append(Front(q), p)
<1>2. /\ s \in Spans /\ s.start = a /\ s.end = b
      /\ u \in Spans /\ u.start = a /\ u.end = c
  BY SpanIs
<1> HIDE DEF s, u
<1>3. Chain(q, s) /\ Divides(q, s)
  BY DEF Divides, s
<1>4. /\ n \in Nat /\ q \in Seq(Spans) /\ DOMAIN q = 1 .. n
      /\ \A m \in 1 .. n : /\ q[m] \in Spans /\ q[m].start \in Nat /\ q[m].end \in Nat
                           /\ a <= q[m].start /\ q[m].start < q[m].end /\ q[m].end <= b
  <2>1. n \in Nat /\ DOMAIN q = 1 .. n
    BY <1>2, <1>3, ChainIs
  <2>2. q \in Seq(Spans)
    BY <1>3 DEF Chain
  <2>3. \A m \in 1 .. n : /\ q[m] \in Spans /\ q[m].start \in Nat /\ q[m].end \in Nat
                          /\ a <= q[m].start /\ q[m].start < q[m].end /\ q[m].end <= b
    BY <1>2, <1>3, ChainIs
  <2> QED
    BY <2>1, <2>2, <2>3
<1>5. \A i, j \in 1 .. n : i < j => q[i].end <= q[j].start
  BY <1>2, <1>3, ChainIs
<1>6. n >= 1 /\ n \in 1 .. n
  <2>1. n >= 1
    BY <1>3, <1>4, EmptySeq DEF Divides
  <2> QED
    BY <1>4, <2>1
<1>7. PICK d \in Nat : d = q[n].start
  BY <1>4, <1>6
<1>8. p \in Spans /\ p.start = d /\ p.end = c /\ a <= d /\ d < b
  <2>1. p = Span(d, c)
    BY <1>7 DEF Last
  <2>2. a <= d /\ d < q[n].end /\ q[n].end <= b /\ q[n].end \in Nat
    BY <1>4, <1>6, <1>7
  <2>3. d < b
    BY ONLY <2>2, b \in Nat, d \in Nat
  <2> HIDE DEF p
  <2> QED
    BY <2>1, <2>2, <2>3, SpanIs
<1> HIDE DEF n, p
<1>9. Front(q) \in Seq(Spans) /\ Len(Front(q)) = n - 1 /\ \A m \in 1 .. n - 1 : Front(q)[m] = q[m]
  <2>1. Front(q) = SubSeq(q, 1, n - 1)
    BY DEF Front, n
  <2>2. \A m \in 1 .. n - 1 : m \in 1 .. n /\ q[m] \in Spans
    BY <1>4
  <2>3. n - 1 \in Nat /\ 1 .. n - 1 \subseteq DOMAIN q
    BY <1>4, <1>6
  <2> QED
    BY <1>4, <1>6, <2>1, <2>2, <2>3
<1>10. /\ r \in Seq(Spans) /\ Len(r) = n /\ r[n] = p /\ DOMAIN r = 1 .. n /\ r # <<>>
       /\ \A m \in 1 .. n - 1 : r[m] = q[m]
  <2> DEFINE f == Front(q)
  <2> HIDE DEF f
  <2>1. f \in Seq(Spans) /\ Len(f) = n - 1 /\ \A m \in 1 .. n - 1 : f[m] = q[m]
    BY <1>9 DEF f
  <2> DEFINE g == Append(f, p)
  <2>2. g \in Seq(Spans) /\ Len(g) = n /\ g[n] = p /\ \A m \in 1 .. n - 1 : g[m] = f[m]
    BY <1>4, <1>6, <1>8, <2>1
  <2>3. r = g
    BY DEF f
  <2> HIDE DEF g, r
  <2> QED
    BY <1>6, <2>1, <2>2, <2>3
<1> HIDE DEF r
<1>11. \A k \in 1 .. n : k = n \/ k \in 1 .. n - 1
  BY <1>4
<1>12. ASSUME NEW k \in 1 .. n PROVE Inside(r[k], u)
  <2>1. CASE k = n
    <3>1. d < c
      BY <1>8
    <3> QED
      BY <1>2, <1>8, <1>10, <2>1, <3>1 DEF Inside
  <2>2. CASE k \in 1 .. n - 1
    BY <1>2, <1>4, <1>10, <2>2 DEF Inside
  <2> QED
    BY <1>11, <2>1, <2>2
<1>13. ASSUME NEW i \in 1 .. n, NEW j \in 1 .. n, i < j PROVE r[i].end <= r[j].start
  <2>1. i \in 1 .. n - 1
    BY <1>4, <1>13
  <2>2. q[i].end <= q[j].start
    BY <1>5, <1>13
  <2>3. CASE j = n
    BY <1>7, <1>8, <1>10, <2>1, <2>2, <2>3
  <2>4. CASE j \in 1 .. n - 1
    BY <1>10, <2>1, <2>2, <2>4
  <2> QED
    BY <1>11, <2>3, <2>4
<1>14. ASSUME NEW x \in a .. c - 1 PROVE \E k \in 1 .. n : r[k].start <= x /\ x < r[k].end
  <2>1. CASE x < d
    <3>1. x \in s.start .. s.end - 1
      BY <1>2, <1>8, <2>1
    <3>2. PICK k \in 1 .. n : q[k].start <= x /\ x < q[k].end
      BY <1>3, <3>1 DEF Divides, n
    <3>3. k # n
      BY <1>7, <2>1, <3>2
    <3>4. r[k] = q[k]
      BY <1>10, <1>11, <3>3
    <3> QED
      BY <3>2, <3>4
  <2>2. CASE ~(x < d)
    <3>1. d <= x /\ x < c
      BY <2>2
    <3> QED
      BY <1>6, <1>8, <1>10, <3>1
  <2> QED
    BY <2>1, <2>2
<1>15. Chain(r, u)
  BY <1>10, <1>12, <1>13 DEF Chain
<1>16. Divides(r, u)
  BY <1>2, <1>10, <1>14, <1>15 DEF Divides
<1> QED
  BY <1>16 DEF r, u, p

(* One step of Merged. *)
MergedNext(m, p) ==
    IF m # <<>> /\ Size(Last(m)) < MinSection
    THEN Append(Front(m), Span(Last(m).start, p.end))
    ELSE Append(m, p)

(* A step of Merged keeps a sequence of spans. *)
LEMMA MergedNextIs ==
    ASSUME NEW m \in Seq(Spans), NEW p \in Spans
    PROVE  MergedNext(m, p) \in Seq(Spans)
<1>1. Append(m, p) \in Seq(Spans)
  BY AppendProperties
<1>2. CASE m # <<>>
  <2> DEFINE n == Len(m)
  <2>1. n \in Nat /\ n >= 1 /\ m[n] \in Spans
    BY <1>2, EmptySeq, LenProperties, ElementOfSeq
  <2>2. \A k \in 1 .. n - 1 : m[k] \in Spans
    BY <2>1
  <2>3. Front(m) \in Seq(Spans)
    <3>1. Front(m) = SubSeq(m, 1, n - 1)
      BY DEF Front
    <3> QED
      BY <2>1, <2>2, <3>1
  <2>4. Span(Last(m).start, p.end) \in Spans
    <3>1. Last(m) = m[n]
      BY DEF Last
    <3>2. m[n].start \in Nat /\ p.end \in Nat
      BY <2>1 DEF Spans
    <3> QED
      BY <3>1, <3>2, SpanIs
  <2>5. Append(Front(m), Span(Last(m).start, p.end)) \in Seq(Spans)
    BY <2>3, <2>4, AppendProperties
  <2> QED
    BY <1>1, <2>5 DEF MergedNext
<1>3. CASE m = <<>>
  BY <1>1, <1>3 DEF MergedNext
<1> QED
  BY <1>2, <1>3

(* Sections merged while they are short still divide what they did. *)
LEMMA MergedDivides ==
    ASSUME NEW q, Adjoin(q)
    PROVE  Divides(Merged(q), Span(q[1].start, q[Len(q)].end))
<1> DEFINE L == Len(q)
           Step(f) == [n \in 0 .. L |->
                         IF n = 0 THEN <<>>
                         ELSE LET m == f[n - 1]
                              IN  IF m # <<>> /\ Size(Last(m)) < MinSection
                                  THEN Append(Front(m), Span(Last(m).start, q[n].end))
                                  ELSE Append(m, q[n])]
           T == Seq(Spans)
           none == <<>>
           F == [n \in 0 + 1 .. L |-> [x \in T |-> MergedNext(x, q[n])]]
           g == CHOOSE g : g = Step(g)
           a == q[1].start
<1>1. q \in Seq(Spans) /\ L \in Nat /\ L >= 1 /\ \A k \in 1 .. L : q[k] \in Spans
  <2>1. q \in Seq(Spans) /\ q # <<>>
    BY DEF Adjoin
  <2> QED
    BY <2>1, EmptySeq, LenProperties, ElementOfSeq
<1>2. \A k \in 1 .. L : q[k].start \in Nat /\ q[k].end \in Nat /\ q[k].start < q[k].end
  BY <1>1 DEF Spans, Adjoin
<1>3. \A k \in 2 .. L : q[k].start = q[k - 1].end
  BY DEF Adjoin
<1>4. \A n \in 1 .. L : \A x \in T : MergedNext(x, q[n]) \in T
  BY <1>1, MergedNextIs
<1>5. none \in T
  OBVIOUS
<1>6. \A n \in 0 + 1 .. L : n \in 1 .. L /\ \A x \in T : F[n][x] = MergedNext(x, q[n])
  OBVIOUS
<1>7. Closed(F, 0, L, T)
  <2>1. \A n \in 0 + 1 .. L : [x \in T |-> MergedNext(x, q[n])] \in [T -> T]
    BY <1>4, <1>6
  <2> HIDE DEF T
  <2> QED
    BY <2>1 DEF Closed
<1>8. \A h : Step(h) = [n \in 0 .. L |-> IF n = 0 THEN none ELSE MergedNext(h[n - 1], q[n])]
  BY DEF MergedNext
<1>9. Merged(q) = g[L]
  BY DEF Merged
<1> HIDE DEF L, T, F, Step, none
<1>10. PICK f \in [0 .. L -> T] : Iterates(f, 0, L, none, F)
  <2>1. 0 \in Nat /\ 0 <= L
    BY <1>1
  <2> QED
    BY ONLY <1>1, <1>5, <1>7, <2>1, Recursion
<1>11. f = Step(f)
  <2>1. \A n \in 0 .. L : f[n] = IF n = 0 THEN none ELSE MergedNext(f[n - 1], q[n])
    <3> SUFFICES ASSUME NEW n \in 0 .. L
                 PROVE  f[n] = IF n = 0 THEN none ELSE MergedNext(f[n - 1], q[n])
      OBVIOUS
    <3>1. CASE n = 0
      BY <1>10, <3>1 DEF Iterates
    <3>2. CASE n # 0
      <4>1. n \in 0 + 1 .. L /\ n - 1 \in 0 .. L
        BY <1>1, <3>2
      <4>2. f[n] = F[n][f[n - 1]] /\ f[n - 1] \in T
        BY <1>10, <4>1 DEF Iterates
      <4> QED
        BY <1>6, <3>2, <4>1, <4>2
    <3> QED
      BY <3>1, <3>2
  <2>2. f = [n \in 0 .. L |-> IF n = 0 THEN none ELSE MergedNext(f[n - 1], q[n])]
    BY <2>1
  <2> QED
    BY ONLY <1>8, <2>2
<1>12. g = Step(g)
  BY <1>11
<1> HIDE DEF g
<1>13. \A n \in 0 .. L : g[n] = IF n = 0 THEN none ELSE MergedNext(g[n - 1], q[n])
  <2>1. \A n \in 0 .. L : Step(g)[n] = IF n = 0 THEN none ELSE MergedNext(g[n - 1], q[n])
    BY <1>8
  <2> QED
    BY ONLY <1>12, <2>1
<1>14. a \in Nat
  <2>1. 1 \in 1 .. L
    BY <1>1
  <2> QED
    BY <1>2, <2>1
<1> DEFINE S == {n \in 1 .. L : Divides(g[n], Span(a, q[n].end))}
<1>15. 1 \in S
  <2>1. 1 \in 0 .. L /\ 1 # 0 /\ 0 \in 0 .. L /\ 1 \in 1 .. L
    BY <1>1
  <2>2. g[1] = MergedNext(none, q[1])
    <3>1. g[1] = MergedNext(g[1 - 1], q[1]) /\ g[0] = none
      BY <1>13, <2>1
    <3>2. 1 - 1 = 0
      OBVIOUS
    <3> QED
      BY ONLY <3>1, <3>2
  <2>3. g[1] = Append(<<>>, q[1])
    BY <2>2 DEF MergedNext, none
  <2>4. q[1] \in Spans /\ q[1].start < q[1].end
    BY <1>1, <1>2, <2>1
  <2>5. Divides(Append(<<>>, q[1]), q[1])
    BY ONLY <2>4, DividesFirst
  <2>6. Span(a, q[1].end) = q[1]
    <3>1. q[1].start \in Nat /\ q[1].end \in Nat
      BY <1>2, <2>1
    <3>2. Span(a, q[1].end) \in Spans /\ Span(a, q[1].end).start = a /\ Span(a, q[1].end).end = q[1].end
      BY <3>1, SpanIs
    <3> QED
      BY <2>4, <3>2, SpanEqual
  <2> QED
    BY <2>1, <2>3, <2>5, <2>6
<1>16. ASSUME NEW n \in 1 + 1 .. L, n - 1 \in S PROVE n \in S
  <2>1. n \in 0 .. L /\ n # 0 /\ n \in 2 .. L /\ n \in 1 .. L /\ n - 1 \in 1 .. L
    BY <1>1
  <2>2. g[n] = MergedNext(g[n - 1], q[n])
    BY <1>13, <2>1
  <2>3. PICK m : m = g[n - 1]
    OBVIOUS
  <2>4. PICK b \in Nat : b = q[n - 1].end
    BY <1>2, <2>1
  <2>5. PICK c \in Nat : c = q[n].end
    BY <1>2, <2>1
  <2>6. Divides(m, Span(a, b))
    BY <1>16, <2>3, <2>4
  <2>7. q[n].start = b /\ b < c /\ q[n] \in Spans
    BY <1>1, <1>2, <1>3, <2>1, <2>4, <2>5
  <2>8. m # <<>>
    BY <2>6 DEF Divides
  <2>9. Divides(MergedNext(m, q[n]), Span(a, c))
    <3>1. CASE Size(Last(m)) < MinSection
      <4>1. MergedNext(m, q[n]) = Append(Front(m), Span(Last(m).start, c))
        BY <2>5, <2>8, <3>1 DEF MergedNext
      <4>2. Divides(Append(Front(m), Span(Last(m).start, c)), Span(a, c))
        BY ONLY <1>14, <2>6, <2>7, b \in Nat, c \in Nat, DividesStretch
      <4> QED
        BY <4>1, <4>2
    <3>2. CASE ~(Size(Last(m)) < MinSection)
      <4>1. MergedNext(m, q[n]) = Append(m, q[n])
        BY <3>2 DEF MergedNext
      <4>2. q[n].start < q[n].end
        BY <2>5, <2>7
      <4>3. Divides(Append(m, q[n]), Span(a, q[n].end))
        BY ONLY <1>14, <2>6, <2>7, <4>2, b \in Nat, DividesAppend
      <4> QED
        BY <2>5, <4>1, <4>3
    <3> QED
      BY <3>1, <3>2
  <2> QED
    BY <2>1, <2>2, <2>3, <2>5, <2>9
<1>17. \A n \in 1 .. L : n \in S
  <2> HIDE DEF S
  <2> QED
    BY ONLY <1>1, <1>15, <1>16, 1 \in Nat, InductionFrom
<1>18. L \in S
  <2>1. L \in 1 .. L
    BY <1>1
  <2> HIDE DEF S
  <2> QED
    BY ONLY <1>17, <2>1
<1> QED
  BY <1>9, <1>18 DEF L

(* White space before a span that is split adds nothing to be held. *)
LEMMA SplitsWider ==
    ASSUME NEW t, NEW r, NEW s \in Spans, NEW u \in Spans, Splits(t, r, s),
           u.start <= s.start, s.end = u.end,
           \A x \in u.start .. s.start - 1 : t[x + 1] \in White
    PROVE  Splits(t, r, u)
<1>1. s.start \in Nat /\ s.end \in Nat /\ u.start \in Nat /\ u.end \in Nat
  BY DEF Spans
<1>2. ASSUME NEW k \in 1 .. Len(r) PROVE Inside(r[k], u)
  <2>1. r[k] \in Spans /\ Inside(r[k], s)
    BY DEF Splits
  <2>2. r[k].start \in Nat /\ r[k].end \in Nat
    BY <2>1 DEF Spans
  <2> QED
    BY <1>1, <2>1, <2>2 DEF Inside
<1>3. Holds(t, r, u)
  <2> SUFFICES ASSUME NEW x \in u.start .. u.end - 1, t[x + 1] \notin White
               PROVE  \E m \in DOMAIN r : r[m].start <= x /\ x < r[m].end
    BY DEF Holds
  <2>1. x \notin u.start .. s.start - 1
    OBVIOUS
  <2>2. x \in s.start .. s.end - 1
    BY ONLY <1>1, <2>1, x \in u.start .. u.end - 1, s.end = u.end
  <2> QED
    BY <2>2 DEF Splits, Holds
<1> QED
  BY <1>2, <1>3 DEF Splits

(* Where the body of a Markdown text starts is within the text. *)
LEMMA BodyStartIs ==
    ASSUME NEW A, NEW t \in Seq(A)
    PROVE  BodyStart(t) \in 0 .. Len(t)
<1> DEFINE C == {j \in 3 .. Len(t) - 2 :
                    SubSeq(t, j, j + 2) = <<"newline", "fence", "newline">>}
           L == Len(t)
<1>1. L \in Nat
  OBVIOUS
<1>2. CASE C # {} /\ SubSeq(t, 1, 2) = <<"fence", "newline">>
  <2>1. BodyStart(t) = Min(C) + 2
    BY <1>2 DEF BodyStart
  <2>2. C \in SUBSET (3 .. L - 2) /\ C # {}
    BY <1>2
  <2>3. L - 2 \in Int
    BY <1>1
  <2> HIDE DEF C, L
  <2>4. Min(C) \in C
    BY ONLY <2>2, <2>3, 3 \in Int, Least
  <2>5. PICK m : m = Min(C)
    OBVIOUS
  <2>6. m \in 3 .. L - 2
    BY <2>2, <2>4, <2>5
  <2>7. m + 2 \in 0 .. L
    BY ONLY <1>1, <2>6
  <2> QED
    BY <2>1, <2>5, <2>7 DEF L
<1>3. CASE ~(C # {} /\ SubSeq(t, 1, 2) = <<"fence", "newline">>)
  <2>1. BodyStart(t) = 0
    BY <1>3 DEF BodyStart
  <2> QED
    BY <1>1, <2>1
<1> QED
  BY <1>2, <1>3

(* The last of the spans that divide a span ends where it ends. *)
LEMMA DividesLast ==
    ASSUME NEW a \in Nat, NEW b \in Nat, a < b, NEW q, Divides(q, Span(a, b))
    PROVE  q[Len(q)].end = b
<1> DEFINE s == Span(a, b)
           L == Len(q)
<1>1. s \in Spans /\ s.start = a /\ s.end = b
  BY SpanIs
<1>2. Chain(q, s)
  BY DEF Divides
<1> HIDE DEF s
<1>3. /\ L \in Nat
      /\ \A m \in 1 .. L : /\ q[m].start \in Nat /\ q[m].end \in Nat
                           /\ q[m].end <= b
  BY <1>1, <1>2, ChainIs
<1>4. \A m, n \in 1 .. L : m <= n => q[m].end <= q[n].end
  BY <1>1, <1>2, ChainIs
<1>5. b - 1 \in s.start .. s.end - 1
  BY <1>1
<1>6. PICK k \in 1 .. L : q[k].start <= b - 1 /\ b - 1 < q[k].end
  BY <1>5 DEF Divides, s
<1>7. L \in 1 .. L /\ k <= L
  BY <1>3
<1>8. PICK x \in Nat : x = q[k].end
  BY <1>3
<1>9. PICK y \in Nat : y = q[L].end
  BY <1>3, <1>7
<1>10. y <= b /\ b - 1 < x /\ x <= y
  BY <1>3, <1>4, <1>6, <1>7, <1>8, <1>9
<1>11. y = b
  BY ONLY <1>10, x \in Nat, y \in Nat, b \in Nat
<1> QED
  BY <1>9, <1>11 DEF L

(* The parts of a divided span, split where they are too large. *)
LEMMA PartsSplit ==
    ASSUME NEW t, NEW s \in Spans, NEW m, Divides(m, s)
    PROVE  Splits(t, FlattenSeq([i \in DOMAIN m |->
                        IF Size(m[i]) <= Target THEN <<m[i]>>
                        ELSE PlainTextSpans(t, m[i], Overlap)]), s)
<1> DEFINE w == [i \in DOMAIN m |-> IF Size(m[i]) <= Target THEN <<m[i]>>
                                    ELSE PlainTextSpans(t, m[i], Overlap)]
<1>1. Chain(m, s)
  BY DEF Divides
<1>2. Holds(t, m, s)
  BY DividesHolds
<1>3. DOMAIN m = 1 .. Len(m) /\ Len(m) \in Nat
  BY <1>1, ChainIs
<1>4. ASSUME NEW k \in 1 .. Len(m) PROVE Splits(t, w[k], m[k])
  <2>1. m[k] \in Spans /\ m[k].start < m[k].end
    BY <1>1, ChainIs
  <2>2. w[k] = IF Size(m[k]) <= Target THEN <<m[k]>> ELSE PlainTextSpans(t, m[k], Overlap)
    BY <1>3
  <2>3. Overlap \in 0 .. Overlap
    BY SizeAssumption
  <2> QED
    BY <2>1, <2>2, <2>3, WholeSplits, PlainTextSplits
<1>5. DOMAIN w = 1 .. Len(m)
  BY <1>3
<1> HIDE DEF w
<1>6. \A k \in 1 .. Len(m) : w[k] \in Seq(Spans)
  BY <1>4 DEF Splits
<1>7. w \in Seq(Seq(Spans))
  <2>1. w = [k \in 1 .. Len(m) |-> w[k]]
    BY <1>5 DEF w
  <2> QED
    BY <1>3, <1>6, <2>1
<1>8. Splits(t, FlattenSeq(w), s)
  BY <1>1, <1>2, <1>4, <1>5, <1>7, SplitsInParts
<1> QED
  BY <1>8 DEF w

(* So is the body of a Markdown text, with or without headings: what        *)
(* precedes the first heading, the sections between headings, the short     *)
(* ones merged and the long ones split like plain text, hold all of the ink *)
(* behind the front matter, in chunks as small that go forward              *)
(* (_split_markdown of splitters.py).                                       *)
THEOREM MarkdownSplits ==
    ASSUME NEW A, NEW t \in Seq(A)
    PROVE  Splits(t, MarkdownSpans(t), Span(BodyStart(t), Len(t)))
<1> DEFINE a == BodyStart(t)
           b == Len(t)
           body == Span(a, b)
           H == LinesThatAre("heading", t, body) \cup LinesThatAre("sheet", t, body)
           pre == Span(body.start, Min(H))
           S == IF HasInk(t, pre) THEN H \cup {body.start} ELSE H
           q == Sections(S, body.end)
           m == Merged(q)
           r == FlattenSeq([i \in DOMAIN m |->
                    IF Size(m[i]) <= Target THEN <<m[i]>>
                    ELSE PlainTextSpans(t, m[i], Overlap)])
<1>1. MarkdownSpans(t) = IF H = {} THEN PlainTextSpans(t, body, Overlap) ELSE r
  BY DEF MarkdownSpans
<1>2. a \in 0 .. b
  BY BodyStartIs
<1>b. b \in Nat
  OBVIOUS
<1>3. a \in Nat /\ b \in Nat
  BY <1>2, <1>b
<1>4. body \in Spans /\ body.start = a /\ body.end = b
  BY <1>3, SpanIs
<1>5. H \in SUBSET (a .. b - 1)
  BY <1>4 DEF LinesThatAre
<1> HIDE DEF a, b, H, body
<1>6. CASE H = {}
  <2>1. Overlap \in 0 .. Overlap
    BY SizeAssumption
  <2>2. Splits(t, PlainTextSpans(t, body, Overlap), body)
    BY <1>4, <2>1, PlainTextSplits
  <2> QED
    BY <1>1, <1>6, <2>2 DEF body, a, b
<1>7. CASE H # {}
  <2>0. b - 1 \in Int /\ a \in Int
    BY <1>3
  <2>1. Min(H) \in H /\ \A y \in H : Min(H) <= y
    BY ONLY <1>5, <1>7, <2>0, Least
  <2>2. PICK h : h = Min(H)
    OBVIOUS
  <2>3. h \in a .. b - 1 /\ h \in H /\ \A y \in H : h <= y
    BY <1>5, <2>1, <2>2
  <2>4. h \in Nat /\ a <= h /\ h < b /\ a \in a .. b - 1 /\ a < b
    BY ONLY <1>3, <2>3
  <2>5. pre \in Spans /\ pre.start = a /\ pre.end = h
    BY <1>3, <1>4, <2>2, <2>4, SpanIs
  <2> HIDE DEF pre
  <2>6. S \in SUBSET (a .. b - 1) /\ S # {} /\ body.end = b
    BY <1>4, <1>5, <1>7, <2>4
  <2> DEFINE c == q[1].start
             u == Span(c, b)
  <2>7. /\ Adjoin(q)
        /\ c \in S /\ \A y \in S : c <= y
        /\ Divides(q, u)
    <3> HIDE DEF S
    <3> QED
      BY <1>3, <2>6, SectionsAre
  <2>8. c \in Nat /\ a <= c /\ c < b /\ c \in a .. b - 1
    <3>1. c \in a .. b - 1
      BY <2>6, <2>7
    <3> HIDE DEF c
    <3> QED
      BY ONLY <1>3, <3>1
  <2>9. \A x \in a .. c - 1 : t[x + 1] \in White
    <3>1. CASE HasInk(t, pre)
      <4>1. a \in S
        BY <1>4, <3>1
      <4>2. c <= a
        BY <2>7, <4>1
      <4> HIDE DEF c
      <4> QED
        BY ONLY <1>3, <2>8, <4>2
    <3>2. CASE ~HasInk(t, pre)
      <4>1. S = H
        BY <3>2
      <4>2. c <= h /\ h <= c
        BY <2>3, <2>7, <4>1
      <4>3. c = h
        BY ONLY <2>4, <2>8, <4>2
      <4>4. \A i \in a + 1 .. h : t[i] \in White
        BY <2>5, <3>2 DEF HasInk, Positions
      <4> HIDE DEF c
      <4> SUFFICES ASSUME NEW x \in a .. c - 1 PROVE t[x + 1] \in White
        OBVIOUS
      <4>5. x + 1 \in a + 1 .. h
        BY ONLY <1>3, <2>4, <4>3, x \in a .. c - 1
      <4> QED
        BY <4>4, <4>5
    <3> QED
      BY <3>1, <3>2
  <2> HIDE DEF S, q
  <2>10. Divides(m, u)
    <3>1. q[Len(q)].end = b
      BY <1>3, <2>7, <2>8, DividesLast
    <3>2. Divides(m, Span(c, q[Len(q)].end))
      BY <2>7, MergedDivides
    <3> QED
      BY <3>1, <3>2
  <2>11. u \in Spans /\ u.start = c /\ u.end = b
    BY <1>3, <2>8, SpanIs
  <2> HIDE DEF m, u, c
  <2>12. Splits(t, r, u)
    BY <2>10, <2>11, PartsSplit
  <2>13. Splits(t, r, body)
    <3> HIDE DEF r
    <3>1. /\ body.start <= u.start /\ u.end = body.end
          /\ \A x \in body.start .. u.start - 1 : t[x + 1] \in White
      BY <1>4, <2>8, <2>9, <2>11
    <3> QED
      BY <1>4, <2>11, <2>12, <3>1, SplitsWider
  <2> QED
    BY <1>1, <1>7, <2>13 DEF body, a, b
<1> QED
  BY <1>6, <1>7

-----------------------------------------------------------------------------
(* Lines and rows. *)

(* Spans from a to b with one newline between two of them and none within. *)
Ruled(t, q, a, b) ==
    /\ q \in Seq(Spans) /\ q # <<>>
    /\ q[1].start = a /\ q[Len(q)].end = b
    /\ \A k \in 1 .. Len(q) :
          /\ q[k].start <= q[k].end
          /\ \A p \in q[k].start + 1 .. q[k].end : t[p] # "newline"
    /\ \A k \in 2 .. Len(q) :
          /\ q[k].start = q[k - 1].end + 1
          /\ t[q[k].start] = "newline"

(* The lines of a span, with the newlines between them, are that span. *)
LEMMA LinesAreRuled ==
    ASSUME NEW t, NEW a \in Nat, NEW b \in Nat, a <= b
    PROVE  Ruled(t, Lines(t, Span(a, b)), a, b)
<1> DEFINE s == Span(a, b)
           S == Newlines(t, s)
           n == Cardinality(S)
           f == Ascending(S)
           q == Lines(t, s)
           from(i) == IF i = 1 THEN a ELSE f[i - 1] + 1
           to(i) == IF i > n THEN b ELSE f[i]
<1>1. s.start = a /\ s.end = b
  BY SpanIs
<1>2. S = {i \in a .. b - 1 : t[i + 1] = "newline"}
  BY <1>1 DEF Newlines
<1> HIDE DEF S
<1>3. S \in SUBSET (a .. b - 1) /\ S \in SUBSET Nat /\ S \in SUBSET Int
  <2>1. S \in SUBSET (a .. b - 1)
    BY <1>2
  <2> QED
    BY <2>1
<1>4. IsFiniteSet(S)
  <2>1. a \in Int /\ b - 1 \in Int
    OBVIOUS
  <2> QED
    BY ONLY <1>3, <2>1, IntervalFinite
<1>5. /\ n \in Nat /\ f \in [1 .. n -> S]
      /\ \A i, j \in 1 .. n : i < j => f[i] < f[j]
      /\ \A x \in S : \E i \in 1 .. n : f[i] = x
  BY <1>3, <1>4, AscendingIs
<1>6. Len(f) = n
  <2> HIDE DEF f, n
  <2> QED
    BY ONLY <1>5
<1>7. q = [i \in 1 .. n + 1 |-> Span(from(i), to(i))]
  BY <1>1, <1>6 DEF Lines, S
<1> HIDE DEF f, n, q, s
<1>8. ASSUME NEW i \in 1 .. n
      PROVE  /\ f[i] \in Nat /\ f[i] \in S /\ a <= f[i] /\ f[i] < b /\ t[f[i] + 1] = "newline"
  <2>1. f[i] \in S
    BY <1>5
  <2>2. f[i] \in a .. b - 1 /\ t[f[i] + 1] = "newline"
    BY <1>2, <2>1
  <2> QED
    BY <2>1, <2>2
<1>9. ASSUME NEW i \in 1 .. n + 1
      PROVE  /\ from(i) \in Nat /\ to(i) \in Nat /\ from(i) <= to(i) /\ a <= from(i) /\ to(i) <= b
             /\ \A p \in from(i) + 1 .. to(i) : t[p] # "newline"
  <2>0. i \in Nat /\ 1 <= i /\ i <= n + 1
    BY <1>5
  <2>1. i # 1 => i - 1 \in 1 .. n /\ f[i - 1] \in Nat /\ a <= f[i - 1] /\ f[i - 1] < b
    <3>1. i # 1 => i - 1 \in 1 .. n
      BY <1>5, <2>0
    <3> QED
      BY <1>8, <3>1
  <2>2. ~(i > n) => i \in 1 .. n /\ f[i] \in Nat /\ a <= f[i] /\ f[i] < b
    BY <1>5, <1>8, <2>0
  <2>3. from(i) \in Nat /\ a <= from(i)
    BY <2>1
  <2>4. to(i) \in Nat /\ to(i) <= b
    BY <2>2
  <2>5. from(i) <= to(i)
    <3>1. i # 1 /\ ~(i > n) => f[i - 1] < f[i]
      BY <1>5, <2>0, <2>1, <2>2
    <3> QED
      BY <2>1, <2>2, <3>1
  <2>6. ASSUME NEW p \in from(i) + 1 .. to(i), t[p] = "newline" PROVE FALSE
    <3> DEFINE x == p - 1
    <3>1. x \in a .. b - 1 /\ x + 1 = p /\ from(i) <= x /\ x < to(i) /\ x \in Nat
      BY <2>3, <2>4
    <3>2. x \in S
      BY <1>2, <2>6, <3>1
    <3>3. PICK j \in 1 .. n : f[j] = x
      BY <1>5, <3>2
    <3>4. i # 1 => i - 1 < j
      <4>1. CASE i # 1
        <5>1. PICK k \in 1 .. n : k = i - 1
          BY <2>1, <4>1
        <5>2. f[k] \in Nat /\ f[k] < x
          BY <1>8, <3>1, <4>1, <5>1
        <5>3. ~(j < k) /\ j # k
          <6>1. PICK y \in Nat : y = f[k]
            BY <5>2
          <6>2. y < x /\ ~(x < y) /\ x # y
            BY ONLY <3>1, <5>2, <6>1, y \in Nat
          <6>3. j < k => x < y
            BY <1>5, <3>3, <6>1
          <6> QED
            BY <3>3, <6>1, <6>2, <6>3
        <5> QED
          BY <1>5, <5>1, <5>3
      <4> QED
        BY <4>1
    <3>5. ~(i > n) => j < i
      <4>1. CASE ~(i > n)
        <5>1. i \in 1 .. n /\ f[i] \in Nat /\ x < f[i]
          BY <2>2, <3>1, <4>1
        <5>2. ~(i < j) /\ j # i
          BY <1>5, <3>1, <3>3, <5>1
        <5> QED
          BY <1>5, <5>1, <5>2
      <4> QED
        BY <4>1
    <3> QED
      BY <1>5, <2>0, <3>4, <3>5
  <2> QED
    BY <2>3, <2>4, <2>5, <2>6
<1>10. ASSUME NEW i \in 2 .. n + 1
       PROVE  from(i) = to(i - 1) + 1 /\ t[from(i)] = "newline"
  <2>1. i - 1 \in 1 .. n /\ i # 1 /\ ~(i - 1 > n)
    BY <1>5
  <2>2. from(i) = f[i - 1] + 1 /\ to(i - 1) = f[i - 1]
    BY <2>1
  <2>3. t[f[i - 1] + 1] = "newline"
    BY <1>8, <2>1
  <2> QED
    BY <2>2, <2>3
<1>11. from(1) = a /\ to(n + 1) = b
  BY <1>5
<1> HIDE DEF from, to
<1>12. ASSUME NEW i \in 1 .. n + 1
       PROVE  q[i] \in Spans /\ q[i].start = from(i) /\ q[i].end = to(i)
  <2>1. q[i] = Span(from(i), to(i))
    BY <1>7
  <2> QED
    BY ONLY <1>9, <2>1, SpanIs, i \in 1 .. n + 1
<1>13. q \in Seq(Spans) /\ Len(q) = n + 1 /\ q # <<>> /\ DOMAIN q = 1 .. n + 1
  <2>1. q \in [1 .. n + 1 -> Spans]
    <3>1. \A i \in 1 .. n + 1 : q[i] \in Spans
      BY <1>12
    <3> QED
      BY ONLY <1>7, <3>1
  <2>2. n + 1 \in Nat /\ n + 1 >= 1
    BY <1>5
  <2>3. q \in Seq(Spans) /\ Len(q) = n + 1
    BY ONLY <2>1, <2>2
  <2> QED
    BY <2>1, <2>2, <2>3, EmptySeq
<1>14. 1 \in 1 .. n + 1 /\ n + 1 \in 1 .. n + 1
  BY <1>5
<1>15. \A k \in 2 .. n + 1 : k \in 1 .. n + 1 /\ k - 1 \in 1 .. n + 1
  BY <1>5
<1>16. Ruled(t, q, a, b)
  <2>1. q[1].start = a /\ q[Len(q)].end = b
    BY <1>11, <1>12, <1>13, <1>14
  <2>2. ASSUME NEW k \in 1 .. Len(q)
        PROVE  /\ q[k].start <= q[k].end
               /\ \A p \in q[k].start + 1 .. q[k].end : t[p] # "newline"
    <3>1. k \in 1 .. n + 1
      BY <1>13
    <3>2. q[k].start = from(k) /\ q[k].end = to(k)
      BY <1>12, <3>1
    <3>3. from(k) <= to(k) /\ \A p \in from(k) + 1 .. to(k) : t[p] # "newline"
      BY <1>9, <3>1
    <3> QED
      BY <3>2, <3>3
  <2>3. ASSUME NEW k \in 2 .. Len(q)
        PROVE  q[k].start = q[k - 1].end + 1 /\ t[q[k].start] = "newline"
    <3>1. k \in 2 .. n + 1 /\ k \in 1 .. n + 1 /\ k - 1 \in 1 .. n + 1
      BY <1>13, <1>15
    <3>2. q[k].start = from(k) /\ q[k - 1].end = to(k - 1)
      BY <1>12, <3>1
    <3>3. from(k) = to(k - 1) + 1 /\ t[from(k)] = "newline"
      BY <1>10, <3>1
    <3> QED
      BY <3>2, <3>3
  <2> QED
    BY <1>13, <2>1, <2>2, <2>3 DEF Ruled
<1> QED
  BY <1>16 DEF q, s

(* What lines say of any two of them. *)
LEMMA RuledIs ==
    ASSUME NEW t, NEW q, NEW a, NEW b, Ruled(t, q, a, b)
    PROVE  /\ Len(q) \in Nat /\ Len(q) >= 1 /\ DOMAIN q = 1 .. Len(q)
           /\ a \in Nat /\ b \in Nat
           /\ \A k \in 1 .. Len(q) : /\ q[k] \in Spans /\ q[k].start \in Nat /\ q[k].end \in Nat
                                     /\ Size(q[k]) \in Nat /\ Size(q[k]) = q[k].end - q[k].start
           /\ \A i \in 1 .. Len(q) : \A j \in i .. Len(q) :
                 q[i].end <= q[j].end /\ q[i].start <= q[j].start
<1> DEFINE L == Len(q)
<1>1. q \in Seq(Spans) /\ q # <<>>
  BY DEF Ruled
<1>2. L \in Nat /\ L >= 1 /\ DOMAIN q = 1 .. L
  BY <1>1, EmptySeq, LenProperties
<1>3. \A k \in 1 .. L : q[k] \in Spans
  BY <1>1
<1>4. \A k \in 1 .. L : q[k].start \in Nat /\ q[k].end \in Nat
  BY <1>3 DEF Spans
<1>5. \A k \in 1 .. L : q[k].start <= q[k].end
  BY DEF Ruled
<1>6. \A k \in 2 .. L : q[k].start = q[k - 1].end + 1
  BY DEF Ruled
<1>7. a \in Nat /\ b \in Nat
  <2>1. q[1].start = a /\ q[L].end = b
    BY DEF Ruled
  <2>2. 1 \in 1 .. L /\ L \in 1 .. L
    BY <1>2
  <2> QED
    BY <1>4, <2>1, <2>2
<1>8. \A k \in 1 .. L : Size(q[k]) \in Nat /\ Size(q[k]) = q[k].end - q[k].start
  BY <1>4, <1>5 DEF Size
<1> HIDE DEF L
<1>9. ASSUME NEW i \in 1 .. L
      PROVE  \A j \in i .. L : q[i].end <= q[j].end /\ q[i].start <= q[j].start
  <2> DEFINE S == {j \in i .. L : q[i].end <= q[j].end /\ q[i].start <= q[j].start}
  <2>0. i \in Nat /\ i \in i .. L
    BY <1>2
  <2>1. i \in S
    BY <1>4, <2>0
  <2>2. ASSUME NEW j \in i + 1 .. L, j - 1 \in S PROVE j \in S
    <3>1. j \in 2 .. L /\ j \in 1 .. L /\ j - 1 \in 1 .. L /\ j \in i .. L
      BY <1>2
    <3>2. PICK k \in 1 .. L : k = j - 1
      BY <3>1
    <3>3. q[i].end <= q[k].end /\ q[i].start <= q[k].start
      BY <2>2, <3>2
    <3>4. q[j].start = q[k].end + 1
      BY <1>6, <3>1, <3>2
    <3>5. q[j].start <= q[j].end /\ q[k].start <= q[k].end
      BY <1>5, <3>1
    <3>6. PICK x \in Nat : x = q[i].start
      BY <1>4
    <3>7. PICK y \in Nat : y = q[i].end
      BY <1>4
    <3>8. PICK u \in Nat : u = q[k].start
      BY <1>4
    <3>9. PICK v \in Nat : v = q[k].end
      BY <1>4
    <3>10. PICK w \in Nat : w = q[j].start
      BY <1>4, <3>1
    <3>11. PICK z \in Nat : z = q[j].end
      BY <1>4, <3>1
    <3>12. y <= v /\ x <= u /\ w = v + 1 /\ w <= z /\ u <= v
      BY <3>3, <3>4, <3>5, <3>6, <3>7, <3>8, <3>9, <3>10, <3>11
    <3>13. y <= z /\ x <= w
      BY ONLY <3>12, x \in Nat, y \in Nat, u \in Nat, v \in Nat, w \in Nat, z \in Nat
    <3> QED
      BY <3>1, <3>6, <3>7, <3>10, <3>11, <3>13
  <2> HIDE DEF S
  <2>3. \A j \in i .. L : j \in S
    BY ONLY <1>2, <2>0, <2>1, <2>2, InductionFrom
  <2> QED
    BY <2>3 DEF S
<1> QED
  BY <1>2, <1>3, <1>4, <1>7, <1>8, <1>9 DEF L

(* The lines after the first two. *)
LEMMA RuledRest ==
    ASSUME NEW t, NEW q, NEW a, NEW b, Ruled(t, q, a, b), Len(q) >= 3
    PROVE  LET d == SubSeq(q, 3, Len(q))
           IN  /\ Ruled(t, d, d[1].start, b) /\ d[1].start \in Nat /\ d[1].start >= a + 2
               /\ t[d[1].start] = "newline"
               /\ \E m \in a .. d[1].start - 2 :
                     Newlines(t, Span(a, d[1].start)) = {m, d[1].start - 1}
               /\ \A x \in a .. b - 1 : t[x + 1] \notin White =>
                     \/ x < d[1].start
                     \/ \E k \in 1 .. Len(d) : d[k].start <= x /\ x < d[k].end
<1> DEFINE L == Len(q)
           d == SubSeq(q, 3, L)
<1>1. /\ L \in Nat /\ L >= 3 /\ DOMAIN q = 1 .. L /\ a \in Nat /\ b \in Nat
      /\ \A k \in 1 .. L : /\ q[k] \in Spans /\ q[k].start \in Nat /\ q[k].end \in Nat
  BY RuledIs
<1>2. q \in Seq(Spans) /\ q[1].start = a /\ q[L].end = b
  BY DEF Ruled
<1>3. \A k \in 1 .. L : /\ q[k].start <= q[k].end
                        /\ \A p \in q[k].start + 1 .. q[k].end : t[p] # "newline"
  BY DEF Ruled
<1>4. \A k \in 2 .. L : /\ q[k].start = q[k - 1].end + 1 /\ t[q[k].start] = "newline"
  BY DEF Ruled
<1> HIDE DEF L
<1>5. d \in Seq(Spans) /\ Len(d) = L - 2 /\ \A k \in 1 .. L - 2 : d[k] = q[k + 2]
  BY ONLY <1>1, <1>2 DEF L
<1> HIDE DEF d
<1>6. d # <<>> /\ 1 \in 1 .. L - 2 /\ L - 2 \in 1 .. L - 2 /\ L - 2 \in Nat
  BY <1>1, <1>5, EmptySeq, LenProperties
<1>7. ASSUME NEW k \in 1 .. L - 2
      PROVE  \E m \in 3 .. L : m = k + 2 /\ d[k] = q[m] /\ m \in 1 .. L /\ m \in 2 .. L
  <2>1. k + 2 \in 3 .. L /\ k + 2 \in 1 .. L /\ k + 2 \in 2 .. L
    BY <1>1
  <2> QED
    BY <1>5, <2>1
<1>8. Ruled(t, d, d[1].start, b)
  <2>1. d[Len(d)].end = b
    <3>1. PICK m \in 3 .. L : m = (L - 2) + 2 /\ d[L - 2] = q[m]
      BY <1>6, <1>7
    <3>2. m = L
      BY <1>1, <3>1
    <3> QED
      BY <1>2, <1>5, <3>1, <3>2
  <2>2. ASSUME NEW k \in 1 .. Len(d)
        PROVE  /\ d[k].start <= d[k].end
               /\ \A p \in d[k].start + 1 .. d[k].end : t[p] # "newline"
    <3>1. PICK m \in 3 .. L : d[k] = q[m] /\ m \in 1 .. L
      BY <1>5, <1>7
    <3> QED
      BY <1>3, <3>1
  <2>3. ASSUME NEW k \in 2 .. Len(d)
        PROVE  d[k].start = d[k - 1].end + 1 /\ t[d[k].start] = "newline"
    <3>1. k \in 1 .. L - 2 /\ k - 1 \in 1 .. L - 2
      BY <1>1, <1>5
    <3>2. PICK m \in 3 .. L : d[k] = q[m] /\ m = k + 2 /\ m \in 2 .. L
      BY <1>7, <3>1
    <3>3. PICK l \in 3 .. L : d[k - 1] = q[l] /\ l = k - 1 + 2
      BY <1>7, <3>1
    <3>4. l = m - 1
      BY <1>1, <3>1, <3>2, <3>3
    <3> QED
      BY <1>4, <3>2, <3>3, <3>4
  <2> QED
    BY <1>5, <1>6, <2>1, <2>2, <2>3 DEF Ruled
<1>9. 1 \in 1 .. L /\ 2 \in 1 .. L /\ 3 \in 1 .. L /\ 2 \in 2 .. L /\ 3 \in 2 .. L /\ d[1] = q[3]
  BY <1>1, <1>5, <1>6
<1>10. PICK x1 \in Nat : x1 = q[1].end
  BY <1>1, <1>9
<1>11. PICK x2 \in Nat : x2 = q[2].end
  BY <1>1, <1>9
<1>12. PICK y2 \in Nat : y2 = q[2].start
  BY <1>1, <1>9
<1>13. PICK y3 \in Nat : y3 = q[3].start
  BY <1>1, <1>9
<1>14. a <= x1 /\ y2 = x1 + 1 /\ y2 <= x2 /\ y3 = x2 + 1 /\ t[y2] = "newline" /\ t[y3] = "newline"
  <2>1. q[1].start <= q[1].end /\ q[2].start <= q[2].end
    BY <1>3, <1>9
  <2>2. q[2].start = q[2 - 1].end + 1 /\ q[3].start = q[3 - 1].end + 1
    BY <1>4, <1>9
  <2>3. t[q[2].start] = "newline" /\ t[q[3].start] = "newline"
    BY <1>4, <1>9
  <2> QED
    BY <1>2, <1>10, <1>11, <1>12, <1>13, <2>1, <2>2, <2>3
<1>15. y3 >= a + 2
  BY ONLY <1>1, <1>14, x1 \in Nat, x2 \in Nat, y2 \in Nat, y3 \in Nat
<1>16. ASSUME NEW x \in a .. b - 1, t[x + 1] \notin White, ~(x < d[1].start)
       PROVE  \E k \in 1 .. Len(d) : d[k].start <= x /\ x < d[k].end
  <2> DEFINE M == Len(d)
             S == {k \in 1 .. M : x < d[k].start \/ (\E j \in 1 .. M : d[j].start <= x /\ x < d[j].end)
                                     \/ d[k].end <= x}
  <2>0. /\ M \in Nat /\ M >= 1
        /\ \A k \in 1 .. M : d[k].start \in Nat /\ d[k].end \in Nat
    BY <1>8, RuledIs
  <2>1. x \in Nat /\ x < b
    BY <1>1
  <2> SUFFICES ASSUME \A j \in 1 .. M : ~(d[j].start <= x /\ x < d[j].end) PROVE FALSE
    OBVIOUS
  <2> DEFINE R == {k \in 1 .. M : d[k].start <= x}
  <2>2. 1 \in R
    BY <1>6, <1>9, <1>13, <1>16, <2>0, <2>1
  <2>3. ASSUME NEW k \in 1 + 1 .. M, k - 1 \in R PROVE k \in R
    <3>1. k \in 2 .. M /\ k \in 1 .. M /\ k - 1 \in 1 .. M
      BY <2>0
    <3>2. d[k - 1].start <= x /\ ~(x < d[k - 1].end)
      BY <2>3, <3>1
    <3>3. d[k].start = d[k - 1].end + 1 /\ t[d[k].start] = "newline"
      BY <1>8, <3>1 DEF Ruled
    <3>4. PICK u \in Nat : u = d[k - 1].end
      BY <2>0, <3>1
    <3>5. PICK v \in Nat : v = d[k].start
      BY <2>0, <3>1
    <3>6. v = u + 1 /\ u <= x /\ t[v] \in White
      BY <2>1, <3>2, <3>3, <3>4, <3>5 DEF White
    <3>7. u # x
      BY <1>16, <3>6
    <3>8. v <= x
      BY ONLY <2>1, <3>6, <3>7, u \in Nat, v \in Nat
    <3> QED
      BY <3>1, <3>5, <3>8
  <2> HIDE DEF R, M
  <2>4. \A k \in 1 .. M : k \in R
    BY ONLY <2>0, <2>2, <2>3, 1 \in Nat, InductionFrom
  <2>5. M \in R /\ M \in 1 .. M
    BY <2>0, <2>4
  <2>6. d[M].start <= x
    BY <2>5 DEF R
  <2>7. d[M].end = b
    BY <1>8 DEF Ruled, M
  <2>8. ~(d[M].start <= x /\ x < d[M].end)
    BY <2>5
  <2> QED
    BY <2>1, <2>6, <2>7, <2>8
<1>17. d[1].start \in Nat /\ d[1].start >= a + 2 /\ t[d[1].start] = "newline"
  BY <1>9, <1>13, <1>14, <1>15
<1>18. x1 \in a .. y3 - 2 /\ Newlines(t, Span(a, y3)) = {x1, y3 - 1}
  <2>1. x1 \in a .. y3 - 2 /\ x1 \in a .. y3 - 1 /\ y3 - 1 = x2 /\ x2 \in a .. y3 - 1
    BY ONLY <1>1, <1>14, x1 \in Nat, x2 \in Nat, y2 \in Nat, y3 \in Nat
  <2>2. Newlines(t, Span(a, y3)) = {i \in a .. y3 - 1 : t[i + 1] = "newline"}
    BY <1>1, SpanIs DEF Newlines
  <2>3. t[x1 + 1] = "newline" /\ t[x2 + 1] = "newline"
    BY <1>14
  <2>4. /\ \A p \in a + 1 .. x1 : t[p] # "newline"
        /\ \A p \in y2 + 1 .. x2 : t[p] # "newline"
    BY <1>2, <1>3, <1>9, <1>10, <1>11, <1>12
  <2>5. ASSUME NEW i \in a .. y3 - 1, t[i + 1] = "newline" PROVE i \in {x1, x2}
    <3>1. CASE i < x1
      <4>1. i + 1 \in a + 1 .. x1
        BY ONLY <1>1, <3>1, i \in a .. y3 - 1, x1 \in Nat, y3 \in Nat
      <4> QED
        BY <2>4, <2>5, <4>1
    <3>2. CASE x1 < i /\ i < x2
      <4>1. i + 1 \in y2 + 1 .. x2
        BY ONLY <1>1, <1>14, <3>2, i \in a .. y3 - 1, x1 \in Nat, x2 \in Nat, y2 \in Nat, y3 \in Nat
      <4> QED
        BY <2>4, <2>5, <4>1
    <3>3. i < x1 \/ (x1 < i /\ i < x2) \/ i = x1 \/ i = x2
      BY ONLY <1>1, <1>14, i \in a .. y3 - 1, x1 \in Nat, x2 \in Nat, y2 \in Nat, y3 \in Nat
    <3> QED
      BY <3>1, <3>2, <3>3
  <2>6. Newlines(t, Span(a, y3)) = {x1, x2}
    BY <2>1, <2>2, <2>3, <2>5
  <2> QED
    BY <2>1, <2>6
<1>19. \E m \in a .. d[1].start - 2 : Newlines(t, Span(a, d[1].start)) = {m, d[1].start - 1}
  BY <1>9, <1>13, <1>18
<1> QED
  BY <1>8, <1>16, <1>17, <1>19 DEF d, L

(* With one more for each newline the sizes of lines sum up to the stretch. *)
LEMMA TotalOfLines ==
    ASSUME NEW t, NEW q, NEW a, NEW b, Ruled(t, q, a, b), NEW i \in 1 .. Len(q)
    PROVE  \A j \in i .. Len(q) :
               Total(SizesOf(q, 1), i, j) = q[j].end - q[i].start + 1
<1> DEFINE L == Len(q)
           sizes == SizesOf(q, 1)
           S == {j \in i .. L : Total(sizes, i, j) = q[j].end - q[i].start + 1}
<1>1. /\ L \in Nat /\ DOMAIN q = 1 .. L
      /\ \A k \in 1 .. L : /\ q[k].start \in Nat /\ q[k].end \in Nat
                           /\ Size(q[k]) \in Nat /\ Size(q[k]) = q[k].end - q[k].start
  BY RuledIs
<1>2. \A k \in 2 .. L : q[k].start = q[k - 1].end + 1
  BY DEF Ruled
<1> HIDE DEF L
<1>3. sizes \in Seq(Nat) /\ Len(sizes) = L /\ \A m \in 1 .. L : sizes[m] = Size(q[m]) + 1
  <2>1. \A m \in 1 .. L : Size(q[m]) \in Nat
    BY <1>1
  <2> QED
    BY ONLY <1>1, <2>1, 1 \in Nat, SizesAre
<1> HIDE DEF sizes
<1>4. i \in Nat /\ 1 <= i /\ i <= L /\ i \in 1 .. L /\ i \in i .. L /\ i - 1 \in Nat
  BY <1>1 DEF L
<1>5. PICK x \in Nat : x = q[i].start
  BY <1>1, <1>4
<1>6. Total(sizes, i, i) = q[i].end - x + 1
  <2>1. Total(sizes, i, i) = Total(sizes, i, i - 1) + sizes[i]
    <3>1. i <= Len(sizes) /\ i <= i
      BY <1>3, <1>4
    <3> QED
      BY ONLY <1>3, <1>4, <3>1, TotalIs
  <2>2. Total(sizes, i, i - 1) = 0
    <3>1. i = i - 1 + 1 /\ i - 1 <= L
      BY <1>1, <1>4
    <3> QED
      BY ONLY <1>3, <1>4, <3>1, TotalIs
  <2>3. sizes[i] = q[i].end - x + 1
    BY <1>1, <1>3, <1>4, <1>5
  <2>4. q[i].end \in Nat
    BY <1>1, <1>4
  <2> QED
    BY ONLY <2>1, <2>2, <2>3, <2>4, x \in Nat
<1>7. i \in S
  BY <1>4, <1>5, <1>6
<1>8. ASSUME NEW j \in i + 1 .. L, j - 1 \in S PROVE j \in S
  <2>1. j \in Nat /\ j \in 2 .. L /\ j \in 1 .. L /\ j - 1 \in 1 .. L /\ j \in i .. L /\ i <= j /\ j <= L
    BY <1>1, <1>4
  <2>2. PICK u \in Nat : u = q[j - 1].end
    BY <1>1, <2>1
  <2>3. PICK v \in Nat : v = q[j].start
    BY <1>1, <2>1
  <2>4. PICK w \in Nat : w = q[j].end
    BY <1>1, <2>1
  <2>5. v = u + 1
    BY <1>2, <2>1, <2>2, <2>3
  <2>6. Total(sizes, i, j - 1) = u - x + 1
    BY <1>5, <1>8, <2>2
  <2>7. sizes[j] = w - v + 1
    BY <1>1, <1>3, <2>1, <2>3, <2>4
  <2>8. Total(sizes, i, j) = Total(sizes, i, j - 1) + sizes[j]
    BY ONLY <1>3, <1>4, <2>1, TotalIs
  <2>9. Total(sizes, i, j) = w - x + 1
    BY ONLY <2>5, <2>6, <2>7, <2>8, u \in Nat, v \in Nat, w \in Nat, x \in Nat
  <2> QED
    BY <1>5, <2>1, <2>4, <2>9
<1> HIDE DEF S
<1>9. \A j \in i .. L : j \in S
  BY ONLY <1>1, <1>4, <1>7, <1>8, InductionFrom
<1> QED
  BY <1>9 DEF S, sizes, L

(* Stretches of whole lines, apart, each within the room or a single line. *)
Rowed(t, r, a, b, room) ==
    /\ r \in Seq(Spans) /\ r # <<>>
    /\ \A k \in 1 .. Len(r) :
          /\ a <= r[k].start /\ r[k].start <= r[k].end /\ r[k].end <= b
          /\ \/ Size(r[k]) + 1 <= room
             \/ \A p \in r[k].start + 1 .. r[k].end : t[p] # "newline"
          /\ r[k].start = a \/ t[r[k].start] = "newline"
          /\ r[k].end = b \/ t[r[k].end + 1] = "newline"
    /\ \A k \in 2 .. Len(r) : r[k - 1].end < r[k].start

(* Without an overlap nothing is carried: the sizes of lines are positive. *)
LEMMA LinesTakeRoom ==
    ASSUME NEW t, NEW q, NEW a, NEW b, Ruled(t, q, a, b),
           NEW i \in 1 .. Len(q), NEW j \in i .. Len(q)
    PROVE  /\ Total(SizesOf(q, 1), i, j) = Size(Span(q[i].start, q[j].end)) + 1
           /\ ~(Total(SizesOf(q, 1), i, j) <= 0)
<1>1. Total(SizesOf(q, 1), i, j) = q[j].end - q[i].start + 1
  BY TotalOfLines
<1>2. j \in 1 .. Len(q) /\ i \in i .. Len(q)
  BY RuledIs
<1>3. PICK x \in Nat : x = q[i].start
  BY RuledIs
<1>4. PICK y \in Nat : y = q[i].end
  BY RuledIs
<1>5. PICK z \in Nat : z = q[j].end
  BY <1>2, RuledIs
<1>6. x <= y
  BY <1>3, <1>4 DEF Ruled
<1>7. y <= z
  BY <1>4, <1>5, RuledIs
<1>8. Span(x, z).start = x /\ Span(x, z).end = z
  BY SpanIs
<1>9. Total(SizesOf(q, 1), i, j) = z - x + 1
  BY <1>1, <1>3, <1>5
<1>10. Size(Span(x, z)) = z - x
  BY <1>8 DEF Size
<1>11. ~(z - x + 1 <= 0)
  BY ONLY <1>6, <1>7, x \in Nat, y \in Nat, z \in Nat
<1> QED
  BY <1>3, <1>5, <1>9, <1>10, <1>11

(* Rows packed without overlap: each group is within the room or is one     *)
(* row, and every row is in a group.                                        *)
LEMMA RowsPacked ==
    ASSUME NEW t, NEW q, NEW a, NEW b, Ruled(t, q, a, b), NEW room \in Int
    PROVE  /\ Rowed(t, Pack(q, 1, room, 0), a, b, room)
           /\ \A m \in 1 .. Len(q) : \E k \in 1 .. Len(Pack(q, 1, room, 0)) :
                  /\ Pack(q, 1, room, 0)[k].start <= q[m].start
                  /\ q[m].end <= Pack(q, 1, room, 0)[k].end
<1> DEFINE sizes == SizesOf(q, 1)
           g == Groups(sizes, room, 0)
           r == Pack(q, 1, room, 0)
           L == Len(q)
<1>1. r = [k \in DOMAIN g |-> Span(q[g[k].first].start, q[g[k].last].end)]
  BY DEF Pack, SizesOf
<1>2. /\ L \in Nat /\ L >= 1 /\ DOMAIN q = 1 .. L /\ a \in Nat /\ b \in Nat
      /\ \A k \in 1 .. L : /\ q[k].start \in Nat /\ q[k].end \in Nat /\ Size(q[k]) \in Nat
  BY RuledIs
<1>a. \A i, j \in 1 .. L : i <= j => j \in i .. L
  BY <1>2
<1>3. \A i, j \in 1 .. L : i <= j => q[i].end <= q[j].end /\ q[i].start <= q[j].start
  <2>1. \A i \in 1 .. L : \A j \in i .. L : q[i].end <= q[j].end /\ q[i].start <= q[j].start
    BY RuledIs
  <2> QED
    BY <1>a, <2>1
<1>4. /\ q[1].start = a /\ q[L].end = b
      /\ \A k \in 1 .. L : /\ q[k].start <= q[k].end
                           /\ \A p \in q[k].start + 1 .. q[k].end : t[p] # "newline"
      /\ \A k \in 2 .. L : q[k].start = q[k - 1].end + 1 /\ t[q[k].start] = "newline"
  BY DEF Ruled
<1>5. sizes \in Seq(Nat) /\ Len(sizes) = L
  <2>1. \A m \in 1 .. L : Size(q[m]) \in Nat
    BY <1>2
  <2> HIDE DEF L
  <2>2. L = Len(q)
    BY DEF L
  <2> QED
    BY ONLY <1>2, <2>1, 1 \in Nat, SizesAre
<1>6. \A i, j \in 1 .. L : i <= j =>
          /\ Total(sizes, i, j) = Size(Span(q[i].start, q[j].end)) + 1
          /\ ~(Total(sizes, i, j) <= 0)
  BY <1>a, LinesTakeRoom
<1> HIDE DEF r, L
<1>7. Grouped(sizes, room, 0, g, L)
  <2>1. sizes # <<>>
    BY <1>2, <1>5, EmptySeq
  <2> HIDE DEF sizes
  <2>2. Grouped(sizes, room, 0, g, Len(sizes))
    BY ONLY <1>5, <2>1, GroupsAre, room \in Int, 0 \in Nat
  <2> QED
    BY <1>5, <2>2
<1> HIDE DEF g, sizes
<1>8. g \in Seq(Groupings) /\ Len(g) \in Nat /\ DOMAIN g = 1 .. Len(g) /\ g # <<>>
  BY <1>7 DEF Grouped
<1>9. ASSUME NEW k \in 1 .. Len(g)
      PROVE  \E i, j \in 1 .. L :
                 /\ i <= j /\ g[k].first = i /\ g[k].last = j
                 /\ i = j \/ Total(sizes, i, j) <= room
  <2>1. g[k] \in Groupings
    BY <1>8
  <2>2. /\ 1 <= g[k].first /\ g[k].first <= g[k].last /\ g[k].last <= L
        /\ Fits(sizes, room, 0, g[k])
    BY <1>7 DEF Grouped
  <2>3. g[k].first \in Nat /\ g[k].last \in Nat
    BY <2>1 DEF Groupings
  <2>4. PICK i \in 1 .. L : i = g[k].first
    BY <1>2, <2>2, <2>3
  <2>5. PICK j \in 1 .. L : j = g[k].last
    BY <1>2, <2>2, <2>3, <2>4
  <2>6. i <= j
    BY <2>2, <2>4, <2>5
  <2>7. i = j \/ Total(sizes, i, j) <= room \/ Total(sizes, i, j - 1) <= 0
    BY <2>2, <2>4, <2>5 DEF Fits
  <2>8. i # j => ~(Total(sizes, i, j - 1) <= 0)
    <3>1. ASSUME i # j PROVE j - 1 \in 1 .. L /\ i <= j - 1
      BY ONLY <1>2, <2>6, <3>1, i \in 1 .. L, j \in 1 .. L
    <3>2. i # j => \E l \in 1 .. L : l = j - 1 /\ i <= l
      BY <3>1
    <3> QED
      BY <1>6, <3>2
  <2> QED
    BY <2>4, <2>5, <2>6, <2>7, <2>8
<1>10. ASSUME NEW k \in 1 .. Len(g)
       PROVE  /\ r[k] \in Spans
              /\ \E i, j \in 1 .. L :
                    /\ i <= j /\ g[k].first = i /\ g[k].last = j
                    /\ r[k].start = q[i].start /\ r[k].end = q[j].end
                    /\ i = j \/ Size(r[k]) + 1 <= room
  <2>1. PICK i \in 1 .. L, j \in 1 .. L :
           /\ i <= j /\ g[k].first = i /\ g[k].last = j
           /\ i = j \/ Total(sizes, i, j) <= room
    BY <1>9
  <2>2. r[k] = Span(q[i].start, q[j].end)
    BY <1>1, <1>8, <2>1
  <2>3. PICK x \in Nat : x = q[i].start
    BY <1>2
  <2>4. PICK y \in Nat : y = q[j].end
    BY <1>2, <2>1
  <2>5. r[k] = Span(x, y)
    BY <2>2, <2>3, <2>4
  <2>6. r[k] \in Spans /\ r[k].start = x /\ r[k].end = y
    BY <2>5, SpanIs
  <2>7. Total(sizes, i, j) = Size(r[k]) + 1
    BY <1>6, <2>1, <2>2
  <2> QED
    BY <2>1, <2>3, <2>4, <2>6, <2>7
<1>11. r \in Seq(Spans) /\ Len(r) = Len(g) /\ r # <<>> /\ DOMAIN r = 1 .. Len(g)
  <2>1. \A k \in 1 .. Len(g) : r[k] \in Spans
    BY <1>10
  <2>2. DOMAIN r = 1 .. Len(g) /\ r = [k \in 1 .. Len(g) |-> r[k]]
    BY <1>1, <1>8
  <2>3. r \in [1 .. Len(g) -> Spans]
    BY <2>1, <2>2
  <2>4. r \in Seq(Spans) /\ Len(r) = Len(g)
    BY ONLY <1>8, <2>3
  <2>5. Len(g) # 0
    BY <1>8, EmptySeq
  <2>6. r # <<>>
    BY <2>4, <2>5
  <2> QED
    BY <2>2, <2>4, <2>6
<1>12. ASSUME NEW k \in 1 .. Len(g)
       PROVE  /\ a <= r[k].start /\ r[k].start <= r[k].end /\ r[k].end <= b
              /\ \/ Size(r[k]) + 1 <= room
                 \/ \A p \in r[k].start + 1 .. r[k].end : t[p] # "newline"
              /\ r[k].start = a \/ t[r[k].start] = "newline"
              /\ r[k].end = b \/ t[r[k].end + 1] = "newline"
  <2>1. PICK i \in 1 .. L, j \in 1 .. L :
           /\ i <= j
           /\ r[k].start = q[i].start /\ r[k].end = q[j].end
           /\ i = j \/ Size(r[k]) + 1 <= room
    BY <1>10
  <2>2. 1 \in 1 .. L /\ L \in 1 .. L /\ 1 <= i /\ j <= L
    BY <1>2, <2>1
  <2>3. q[1].start <= q[i].start /\ q[i].start <= q[i].end /\ q[i].end <= q[j].end /\ q[j].end <= q[L].end
    BY <1>3, <1>4, <2>1, <2>2
  <2>4. PICK x \in Nat : x = q[i].start
    BY <1>2
  <2>5. PICK u \in Nat : u = q[i].end
    BY <1>2
  <2>6. PICK y \in Nat : y = q[j].end
    BY <1>2, <2>1
  <2>7. a <= x /\ x <= u /\ u <= y /\ y <= b
    BY <1>4, <2>3, <2>4, <2>5, <2>6
  <2>8. x <= y
    BY ONLY <2>7, x \in Nat, u \in Nat, y \in Nat
  <2>9. i = j => \A p \in x + 1 .. y : t[p] # "newline"
    BY <1>4, <2>1, <2>4, <2>6
  <2>a. x = a \/ t[x] = "newline"
    <3>1. CASE i = 1
      BY <1>4, <2>4, <3>1
    <3>2. CASE i # 1
      <4>1. i \in 2 .. L
        BY <3>2
      <4> QED
        BY <1>4, <2>4, <4>1
    <3> QED
      BY <3>1, <3>2
  <2>10. y = b \/ t[y + 1] = "newline"
    <3>1. CASE j = L
      BY <1>4, <2>6, <3>1
    <3>2. CASE j # L
      <4>1. PICK l \in 2 .. L : l = j + 1 /\ l - 1 = j
        BY <1>2, <2>1, <3>2
      <4>2. q[l].start = q[l - 1].end + 1 /\ t[q[l].start] = "newline"
        BY <1>4
      <4> QED
        BY <2>6, <4>1, <4>2
    <3> QED
      BY <3>1, <3>2
  <2> QED
    BY <2>1, <2>4, <2>6, <2>7, <2>8, <2>9, <2>10, <2>a
<1>13. ASSUME NEW k \in 2 .. Len(g) PROVE r[k - 1].end < r[k].start
  <2>1. k \in 1 .. Len(g) /\ k - 1 \in 1 .. Len(g)
    BY <1>8
  <2>2. PICK i \in 1 .. L, j \in 1 .. L :
           i <= j /\ g[k - 1].last = j /\ r[k - 1].end = q[j].end
    BY <1>10, <2>1
  <2>3. PICK m \in 1 .. L, n \in 1 .. L :
           m <= n /\ g[k].first = m /\ r[k].start = q[m].start
    BY <1>10, <2>1
  <2>4. m <= j + 1 /\ Total(sizes, m, j) <= 0
    BY <1>7, <2>2, <2>3 DEF Grouped, Continues
  <2>5. ~(m <= j)
    BY <1>6, <2>4
  <2>6. m \in 2 .. L /\ m - 1 = j
    BY ONLY <1>2, <2>4, <2>5, j \in 1 .. L, m \in 1 .. L
  <2>7. q[m].start = q[m - 1].end + 1
    BY <1>4, <2>6
  <2>8. q[j].end \in Nat
    BY <1>2, <2>2
  <2> QED
    BY <2>2, <2>3, <2>6, <2>7, <2>8
<1>14. ASSUME NEW m \in 1 .. L
       PROVE  \E k \in 1 .. Len(r) : r[k].start <= q[m].start /\ q[m].end <= r[k].end
  <2>1. PICK k \in 1 .. Len(g) : g[k].first <= m /\ m <= g[k].last
    BY ONLY <1>2, <1>5, <1>7, GroupsCover, room \in Int, 0 \in Nat, m \in 1 .. L
  <2>2. PICK i \in 1 .. L, j \in 1 .. L :
           /\ i <= j /\ g[k].first = i /\ g[k].last = j
           /\ r[k].start = q[i].start /\ r[k].end = q[j].end
    BY <1>10
  <2>3. i <= m /\ m <= j
    BY <2>1, <2>2
  <2> QED
    BY <1>3, <1>11, <2>2, <2>3
<1>15. Rowed(t, r, a, b, room)
  BY <1>11, <1>12, <1>13 DEF Rowed
<1> QED
  BY <1>14, <1>15 DEF r, L

-----------------------------------------------------------------------------
(* Sheets and workbooks. *)

SheetParts == [head : Spans, rows : Spans]

(* A chunk has the head and the rows it was made with. *)
LEMMA PartIs ==
    ASSUME NEW h \in Spans, NEW r \in Spans
    PROVE  /\ [head |-> h, rows |-> r] \in SheetParts
           /\ [head |-> h, rows |-> r].head = h /\ [head |-> h, rows |-> r].rows = r
BY DEF SheetParts

(* A sheet is one chunk, or its title and column names go before each group *)
(* of its other rows.                                                       *)
OneOfSheet(t, c, s) ==
    /\ s.start <= c.rows.start /\ c.rows.start <= c.rows.end
    /\ s.start < c.rows.end /\ c.rows.end <= s.end
    /\ \/ c.head = NoHead /\ c.rows = s
       \/ /\ c.head # NoHead /\ c.head.start = s.start
          /\ \E m \in c.head.start .. c.head.end - 2 : Newlines(t, c.head) = {m, c.head.end - 1}
          /\ c.head.end <= c.rows.start /\ t[c.rows.start] = "newline"
          /\ Size(c.head) + Size(c.rows) <= Target \/ Newlines(t, c.rows) = {}
    /\ c.rows.end = s.end \/ t[c.rows.end + 1] = "newline"

(* A chunk shows the place x. *)
Shows(c, x) ==
    \/ c.head.start <= x /\ x < c.head.end
    \/ c.rows.start <= x /\ x < c.rows.end

(* The chunks u of a sheet s. *)
SheetSplit(t, u, s) ==
    /\ u \in Seq(SheetParts) /\ u # <<>>
    /\ \A k \in 1 .. Len(u) : OneOfSheet(t, u[k], s)
    /\ \A k \in 2 .. Len(u) :
          u[k - 1].rows.end <= u[k].rows.start /\ u[k - 1].rows.end < u[k].rows.end
    /\ \A x \in s.start .. s.end - 1 :
          t[x + 1] \notin White => \E k \in 1 .. Len(u) : Shows(u[k], x)

(* A bare chunk has no head. *)
LEMMA BareIs ==
    ASSUME NEW r \in Seq(Spans)
    PROVE  /\ Bare(r) \in Seq(SheetParts) /\ Len(Bare(r)) = Len(r) /\ Len(r) \in Nat
           /\ DOMAIN Bare(r) = 1 .. Len(r)
           /\ \A k \in 1 .. Len(r) : /\ r[k] \in Spans
                                     /\ Bare(r)[k].head = NoHead /\ Bare(r)[k].rows = r[k]
<1>1. Len(r) \in Nat /\ DOMAIN r = 1 .. Len(r)
  OBVIOUS
<1>2. Bare(r) = [i \in 1 .. Len(r) |-> [head |-> NoHead, rows |-> r[i]]]
  BY <1>1 DEF Bare
<1>3. NoHead \in Spans
  BY SpanIs DEF NoHead
<1>4. ASSUME NEW k \in 1 .. Len(r)
      PROVE  /\ r[k] \in Spans /\ Bare(r)[k] \in SheetParts
             /\ Bare(r)[k].head = NoHead /\ Bare(r)[k].rows = r[k]
  <2>1. r[k] \in Spans
    OBVIOUS
  <2>2. Bare(r)[k] = [head |-> NoHead, rows |-> r[k]]
    BY <1>2
  <2> QED
    BY <1>3, <2>1, <2>2, PartIs
<1>5. Bare(r) \in [1 .. Len(r) -> SheetParts]
  <2>1. \A k \in 1 .. Len(r) : Bare(r)[k] \in SheetParts
    BY <1>4
  <2> QED
    BY ONLY <1>2, <2>1
<1>6. Bare(r) \in Seq(SheetParts) /\ Len(Bare(r)) = Len(r)
  BY ONLY <1>1, <1>5
<1> QED
  BY <1>1, <1>4, <1>5, <1>6

(* The chunks of a sheet: the whole of it, or its head with groups of its   *)
(* rows.                                                                    *)
LEMMA SheetSplits ==
    ASSUME NEW t, NEW a \in Nat, NEW b \in Nat, a < b
    PROVE  SheetSplit(t, SheetChunks(t, Span(a, b)), Span(a, b))
<1> DEFINE s == Span(a, b)
           q == Lines(t, s)
           d == SubSeq(q, 3, Len(q))
           c == d[1].start
           head == Span(s.start, c)
           room == Target - Size(head)
           p == Pack(d, 1, room, 0)
           u == SheetChunks(t, s)
           w == [i \in DOMAIN p |-> [head |-> head, rows |-> p[i]]]
           blank == \A i \in DOMAIN d : ~HasInk(t, d[i])
<1>1. u = IF blank THEN Bare(<<s>>) ELSE w
  BY DEF SheetChunks
<1>2. s \in Spans /\ s.start = a /\ s.end = b
  BY SpanIs
<1>3. Ruled(t, q, a, b)
  BY LinesAreRuled
<1> HIDE DEF s, q, u
<1>4. CASE blank
  <2> DEFINE r == <<s>>
  <2>1. r \in Seq(Spans) /\ Len(r) = 1 /\ r[1] = s /\ r # <<>>
    BY <1>2
  <2> HIDE DEF r
  <2>2. /\ Bare(r) \in Seq(SheetParts) /\ Len(Bare(r)) = 1
        /\ Bare(r)[1].head = NoHead /\ Bare(r)[1].rows = s
    BY <2>1, BareIs
  <2>3. u = Bare(r)
    BY <1>1, <1>4 DEF r
  <2>4. u \in Seq(SheetParts) /\ Len(u) = 1 /\ u[1].head = NoHead /\ u[1].rows = s
    BY <2>2, <2>3
  <2>5. OneOfSheet(t, u[1], s)
    BY <1>2, <2>4 DEF OneOfSheet
  <2>6. \A x \in s.start .. s.end - 1 : Shows(u[1], x)
    BY <1>2, <2>4 DEF Shows
  <2>7. u # <<>>
    BY <2>4
  <2>8. \A k \in 1 .. Len(u) : k = 1
    BY <2>4
  <2>9. 2 .. Len(u) = {} /\ 1 \in 1 .. Len(u)
    BY <2>4
  <2>10. SheetSplit(t, u, s)
    BY <2>4, <2>5, <2>6, <2>7, <2>8, <2>9 DEF SheetSplit
  <2> QED
    BY <2>10 DEF u, s
<1>5. CASE ~blank
  <2>1. Len(q) >= 3
    <3>1. q \in Seq(Spans) /\ Len(q) \in Nat
      BY <1>3, RuledIs DEF Ruled
    <3>2. Len(q) < 3 => DOMAIN d = {}
      BY <3>1
    <3> QED
      BY <1>5, <3>1, <3>2
  <2>2. /\ Ruled(t, d, c, b) /\ c \in Nat /\ c >= a + 2
        /\ t[c] = "newline"
        /\ \E m \in a .. c - 2 : Newlines(t, Span(a, c)) = {m, c - 1}
        /\ \A x \in a .. b - 1 : t[x + 1] \notin White =>
              x < c \/ \E k \in 1 .. Len(d) : d[k].start <= x /\ x < d[k].end
    BY <1>3, <2>1, RuledRest
  <2> HIDE DEF d, c
  <2>3. head \in Spans /\ head.start = a /\ head.end = c
    BY <1>2, <2>2, SpanIs
  <2>a. \E m \in head.start .. head.end - 2 : Newlines(t, head) = {m, head.end - 1}
    <3>1. head = Span(a, c)
      BY <1>2 DEF head
    <3> QED
      BY <2>2, <2>3, <3>1
  <2>4. Size(head) = c - a /\ Size(head) \in Nat
    BY <2>2, <2>3 DEF Size
  <2>5. room \in Int
    BY <2>4, SizeAssumption
  <2>6. head # NoHead
    <3>1. NoHead.end = 0
      BY SpanIs DEF NoHead
    <3> QED
      BY <2>2, <2>3, <3>1
  <2> HIDE DEF head, room
  <2>7. /\ Rowed(t, p, c, b, room)
        /\ \A m \in 1 .. Len(d) : \E k \in 1 .. Len(p) :
              p[k].start <= d[m].start /\ d[m].end <= p[k].end
    BY <2>2, <2>5, RowsPacked
  <2> HIDE DEF p
  <2>8. p \in Seq(Spans) /\ Len(p) \in Nat /\ Len(p) >= 1 /\ DOMAIN p = 1 .. Len(p)
    <3>1. p \in Seq(Spans) /\ p # <<>>
      BY <2>7 DEF Rowed
    <3> QED
      BY <3>1, EmptySeq, LenProperties
  <2>9. ASSUME NEW k \in 1 .. Len(p)
        PROVE  /\ p[k] \in Spans /\ p[k].start \in Nat /\ p[k].end \in Nat
               /\ c <= p[k].start /\ p[k].start <= p[k].end /\ p[k].end <= b
               /\ \/ Size(p[k]) + 1 <= room
                  \/ \A y \in p[k].start + 1 .. p[k].end : t[y] # "newline"
               /\ t[p[k].start] = "newline"
               /\ p[k].end = b \/ t[p[k].end + 1] = "newline"
    <3>1. p[k] \in Spans
      BY <2>8
    <3> QED
      BY <2>2, <2>7, <3>1 DEF Rowed, Spans
  <2>10. ASSUME NEW k \in 1 .. Len(p)
         PROVE  /\ w[k] \in SheetParts /\ w[k].head = head /\ w[k].rows = p[k]
    <3>1. w[k] = [head |-> head, rows |-> p[k]]
      BY <2>8
    <3> HIDE DEF w
    <3> QED
      BY <2>3, <2>9, <3>1, PartIs
  <2>11. u = w
    BY <1>1, <1>5
  <2>12. u \in Seq(SheetParts) /\ u # <<>> /\ Len(u) = Len(p)
    <3>1. \A k \in 1 .. Len(p) : w[k] \in SheetParts
      BY <2>10
    <3>2. w \in [1 .. Len(p) -> SheetParts]
      BY <2>8, <3>1
    <3> HIDE DEF w
    <3>3. w \in Seq(SheetParts) /\ Len(w) = Len(p)
      BY ONLY <2>8, <3>2
    <3> QED
      BY <2>8, <2>11, <3>3
  <2> HIDE DEF w
  <2>13. ASSUME NEW k \in 1 .. Len(p)
         PROVE  u[k].head = head /\ u[k].rows = p[k] /\ OneOfSheet(t, u[k], s)
    <3>1. u[k].head = head /\ u[k].rows = p[k]
      BY <2>10, <2>11
    <3>2. PICK x \in Nat : x = p[k].start
      BY <2>9
    <3>3. PICK y \in Nat : y = p[k].end
      BY <2>9
    <3>4. c <= x /\ x <= y /\ y <= b /\ c >= a + 2 /\ c \in Nat
      BY <2>2, <2>9, <3>2, <3>3
    <3>5. a <= x /\ x <= y /\ a < y /\ y <= b
      BY ONLY <3>4, a \in Nat, b \in Nat, x \in Nat, y \in Nat
    <3>6. Size(p[k]) + 1 <= room => Size(head) + Size(p[k]) <= Target
      <4>1. PICK m \in Int : m = Size(p[k])
        BY <2>9 DEF Size
      <4>2. PICK n \in Nat : n = Size(head)
        BY <2>4
      <4>3. room = Target - n /\ Target \in Int
        BY <4>2, SizeAssumption DEF room
      <4>4. m + 1 <= room => n + m <= Target
        BY ONLY <4>3, m \in Int, n \in Nat
      <4> QED
        BY <4>1, <4>2, <4>4
    <3>7. (\A z \in x + 1 .. y : t[z] # "newline") => Newlines(t, p[k]) = {}
      <4> SUFFICES ASSUME \A z \in x + 1 .. y : t[z] # "newline",
                          NEW i \in x .. y - 1, t[i + 1] = "newline"
                   PROVE  FALSE
        BY <3>2, <3>3 DEF Newlines
      <4>1. i + 1 \in x + 1 .. y
        OBVIOUS
      <4> QED
        BY <4>1
    <3>8. Size(head) + Size(p[k]) <= Target \/ Newlines(t, p[k]) = {}
      BY <2>9, <3>2, <3>3, <3>6, <3>7
    <3>9. OneOfSheet(t, u[k], s)
      BY <1>2, <2>3, <2>6, <2>9, <2>a, <3>1, <3>2, <3>3, <3>5, <3>8 DEF OneOfSheet
    <3> QED
      BY <3>1, <3>9
  <2>14. ASSUME NEW k \in 2 .. Len(p)
         PROVE  u[k - 1].rows.end <= u[k].rows.start /\ u[k - 1].rows.end < u[k].rows.end
    <3>1. k \in 1 .. Len(p) /\ k - 1 \in 1 .. Len(p)
      BY <2>8
    <3>2. PICK x \in Nat : x = p[k - 1].end
      BY <2>9, <3>1
    <3>3. PICK y \in Nat : y = p[k].start
      BY <2>9, <3>1
    <3>4. PICK z \in Nat : z = p[k].end
      BY <2>9, <3>1
    <3>5. x < y /\ y <= z
      BY <2>7, <2>9, <3>1, <3>2, <3>3, <3>4 DEF Rowed
    <3>6. x <= y /\ x < z
      BY ONLY <3>5, x \in Nat, y \in Nat, z \in Nat
    <3> QED
      BY <2>13, <3>1, <3>2, <3>3, <3>4, <3>6
  <2>15. ASSUME NEW x \in s.start .. s.end - 1, t[x + 1] \notin White
         PROVE  \E k \in 1 .. Len(u) : Shows(u[k], x)
    <3>1. x \in a .. b - 1 /\ a <= x
      BY <1>2
    <3>2. CASE x < c
      <4>1. 1 \in 1 .. Len(p)
        BY <2>8
      <4>2. Shows(u[1], x)
        BY <2>3, <2>13, <3>1, <3>2, <4>1 DEF Shows
      <4> QED
        BY <2>12, <4>1, <4>2
    <3>3. CASE ~(x < c)
      <4>1. PICK m \in 1 .. Len(d) : d[m].start <= x /\ x < d[m].end
        BY <2>2, <2>15, <3>1, <3>3
      <4>2. PICK k \in 1 .. Len(p) : p[k].start <= d[m].start /\ d[m].end <= p[k].end
        BY <2>7
      <4>3. d[m].start \in Nat /\ d[m].end \in Nat
        BY <2>2, RuledIs
      <4>4. PICK i \in Nat : i = d[m].start
        BY <4>3
      <4>5. PICK j \in Nat : j = d[m].end
        BY <4>3
      <4>6. PICK y \in Nat : y = p[k].start
        BY <2>9
      <4>7. PICK z \in Nat : z = p[k].end
        BY <2>9
      <4>8. i <= x /\ x < j /\ y <= i /\ j <= z
        BY <4>1, <4>2, <4>4, <4>5, <4>6, <4>7
      <4>9. y <= x /\ x < z
        <5>1. PICK v \in Int : v = x
          BY <3>1
        <5>2. y <= v /\ v < z
          BY ONLY <4>8, <5>1, i \in Nat, j \in Nat, y \in Nat, z \in Nat
        <5> QED
          BY <5>1, <5>2
      <4>10. Shows(u[k], x)
        BY <2>13, <4>6, <4>7, <4>9 DEF Shows
      <4> QED
        BY <2>12, <4>10
    <3> QED
      BY <3>2, <3>3
  <2>16. SheetSplit(t, u, s)
    BY <2>12, <2>13, <2>14, <2>15 DEF SheetSplit
  <2> QED
    BY <2>16 DEF u, s
<1> QED
  BY <1>4, <1>5

(* Stretches from one sheet title that begins a line to the next. *)
SheetOf(t, a, b) ==
    /\ a \in Nat /\ b \in Nat /\ a < b /\ b <= Len(t)
    /\ t[a + 1] = "sheet" /\ \A p \in a + 2 .. b : t[p] = "sheet" => t[p - 1] # "newline"
    /\ b = Len(t) \/ t[b + 1] = "sheet"

(* The chunks u of the text t of a workbook. *)
WorkbookSplit(t, u) ==
    /\ u \in Seq(SheetParts)
    /\ \A k \in 1 .. Len(u) : \E a, b \in Nat :
          SheetOf(t, a, b) /\ OneOfSheet(t, u[k], Span(a, b))
    /\ \A k \in 2 .. Len(u) :
          u[k - 1].rows.end <= u[k].rows.start /\ u[k - 1].rows.end < u[k].rows.end
    /\ \A x \in 0 .. Len(t) - 1 :
          t[x + 1] \notin White => \E k \in 1 .. Len(u) : Shows(u[k], x)

(* Where a title begins the text, the sections are sheets. *)
LEMMA SectionsAreSheets ==
    ASSUME NEW A, NEW t \in Seq(A), t # <<>>, t[1] = "sheet"
    PROVE  LET q == Sections(LinesThatAre("sheet", t, Span(0, Len(t))), Len(t))
           IN  /\ q # <<>> /\ Divides(q, Span(0, Len(t)))
               /\ \A k \in 1 .. Len(q) : SheetOf(t, q[k].start, q[k].end)
<1> DEFINE L == Len(t)
           S == LinesThatAre("sheet", t, Span(0, L))
           q == Sections(S, L)
<1>1. L \in Nat /\ L >= 1
  BY EmptySeq, LenProperties
<1>2. S = {i \in 0 .. L - 1 : t[i + 1] = "sheet" /\ (i = 0 \/ t[i] = "newline")}
  BY <1>1, SpanIs DEF LinesThatAre
<1> HIDE DEF L, S
<1>4. 0 \in S
  BY <1>1, <1>2
<1>5. S \in SUBSET (0 .. L - 1) /\ S # {}
  BY <1>2, <1>4
<1>6. /\ Adjoin(q)
      /\ q[1].start \in S /\ \A y \in S : q[1].start <= y
      /\ Divides(q, Span(q[1].start, L))
      /\ \A k \in 1 .. Len(q) :
            /\ q[k].start \in S /\ q[k].end \in S \cup {L}
            /\ \A y \in S : y <= q[k].start \/ q[k].end <= y
  BY ONLY <1>1, <1>5, 0 \in Nat, SectionsAre
<1> HIDE DEF q
<1>7. q[1].start = 0
  <2>1. q[1].start <= 0 /\ q[1].start \in 0 .. L - 1
    BY <1>4, <1>5, <1>6
  <2> QED
    BY <1>1, <2>1
<1>8. q # <<>> /\ Divides(q, Span(0, L))
  BY <1>6, <1>7 DEF Adjoin
<1>9. ASSUME NEW k \in 1 .. Len(q) PROVE SheetOf(t, q[k].start, q[k].end)
  <2>1. q[k] \in Spans /\ q[k].start < q[k].end
    BY <1>6 DEF Adjoin
  <2>2. PICK a \in Nat : a = q[k].start
    BY <2>1 DEF Spans
  <2>3. PICK b \in Nat : b = q[k].end
    BY <2>1 DEF Spans
  <2>4. a < b /\ a \in S /\ b \in S \cup {L} /\ \A y \in S : y <= a \/ b <= y
    BY <1>6, <2>1, <2>2, <2>3
  <2>5. b <= L /\ t[a + 1] = "sheet" /\ (b = L \/ t[b + 1] = "sheet")
    BY <1>1, <1>2, <2>4
  <2>6. ASSUME NEW p \in a + 2 .. b, t[p] = "sheet", t[p - 1] = "newline" PROVE FALSE
    <3>1. p \in 1 .. L /\ p - 1 \in 0 .. L - 1 /\ (p - 1) + 1 = p /\ p # 1 /\ a < p - 1 /\ p - 1 < b
      BY <1>1, <2>5
    <3>3. PICK y \in 0 .. L - 1 : y = p - 1 /\ y + 1 = p
      BY <3>1
    <3>4. y \in S
      BY <1>2, <2>6, <3>3
    <3> QED
      BY <2>4, <3>1, <3>3, <3>4
  <2> QED
    BY <2>2, <2>3, <2>4, <2>5, <2>6 DEF SheetOf, L
<1> QED
  BY <1>8, <1>9 DEF q, S, L

(* The chunks of one sheet after those of another. *)
LEMMA SheetsFollow ==
    ASSUME NEW t, NEW a \in Nat, NEW b \in Nat, NEW c \in Nat, NEW d \in Nat, b <= c,
           NEW x \in SheetParts, NEW y \in SheetParts,
           OneOfSheet(t, x, Span(a, b)), OneOfSheet(t, y, Span(c, d))
    PROVE  x.rows.end <= y.rows.start /\ x.rows.end < y.rows.end
<1>1. x.rows \in Spans /\ y.rows \in Spans
  BY DEF SheetParts
<1>2. PICK i \in Nat : i = x.rows.end
  BY <1>1 DEF Spans
<1>3. PICK j \in Nat : j = y.rows.start
  BY <1>1 DEF Spans
<1>4. PICK k \in Nat : k = y.rows.end
  BY <1>1 DEF Spans
<1>5. Span(a, b).end = b /\ Span(c, d).start = c
  BY SpanIs
<1>6. i <= b /\ c <= j /\ c < k
  BY <1>2, <1>3, <1>4, <1>5 DEF OneOfSheet
<1>7. i <= j /\ i < k
  BY ONLY <1>6, i \in Nat, j \in Nat, k \in Nat, b \in Nat, c \in Nat, b <= c
<1> QED
  BY <1>2, <1>3, <1>4, <1>7

(* The text of a workbook, where a title begins the text, is cut into       *)
(* chunks that belong to one sheet each, from a title that begins a line to *)
(* the next; are the whole sheet or its first two lines over whole lines    *)
(* below them, are within the target or have one line, share no line, and   *)
(* show all of the ink (chunk_spreadsheet of splitters.py).                 *)
THEOREM WorkbookSplits ==
    ASSUME NEW A, NEW t \in Seq(A), t # <<>>, t[1] = "sheet"
    PROVE  WorkbookSplit(t, SpreadsheetChunks(t))
<1> DEFINE all == Span(0, Len(t))
           q == Sections(LinesThatAre("sheet", t, all), Len(t))
           w == [i \in DOMAIN q |-> SheetChunks(t, q[i])]
           r == FlattenSeq(w)
           N == Len(q)
<1>1. q # <<>> /\ Divides(q, all) /\ \A k \in 1 .. Len(q) : SheetOf(t, q[k].start, q[k].end)
  BY SectionsAreSheets
<1>2. SpreadsheetChunks(t) = r
  BY <1>1 DEF SpreadsheetChunks
<1>3. all \in Spans /\ all.start = 0 /\ all.end = Len(t)
  BY SpanIs
<1> HIDE DEF q, all
<1>4. Chain(q, all)
  BY <1>1 DEF Divides
<1>5. N \in Nat /\ DOMAIN q = 1 .. N
  BY <1>3, <1>4, ChainIs
<1>6. \A k \in 1 .. N : q[k] \in Spans /\ q[k].start \in Nat /\ q[k].end \in Nat /\ q[k].start < q[k].end
  BY <1>3, <1>4, ChainIs
<1>7. \A k, l \in 1 .. N : k < l => q[k].end <= q[l].start
  BY <1>3, <1>4, ChainIs
<1>8. \A k \in 1 .. N : SheetOf(t, q[k].start, q[k].end)
  BY <1>1
<1>9. \A x \in 0 .. Len(t) - 1 : \E k \in 1 .. N : q[k].start <= x /\ x < q[k].end
  BY <1>1, <1>3 DEF Divides
<1>10. DOMAIN w = 1 .. N /\ \A k \in 1 .. N : w[k] = SheetChunks(t, q[k])
  BY <1>5
<1> HIDE DEF w, N
<1>11. ASSUME NEW k \in 1 .. N
       PROVE  SheetSplit(t, w[k], q[k]) /\ q[k] = Span(q[k].start, q[k].end)
  <2>1. PICK a \in Nat : a = q[k].start
    BY <1>6
  <2>2. PICK b \in Nat : b = q[k].end
    BY <1>6
  <2>3. a < b
    BY <1>6, <2>1, <2>2
  <2>4. Span(a, b) \in Spans /\ Span(a, b).start = a /\ Span(a, b).end = b
    BY SpanIs
  <2>5. q[k] = Span(a, b)
    BY <1>6, <2>1, <2>2, <2>4, SpanEqual
  <2>6. SheetSplit(t, SheetChunks(t, Span(a, b)), Span(a, b))
    BY <2>3, SheetSplits
  <2> QED
    BY <1>10, <2>1, <2>2, <2>5, <2>6
<1>12. w \in Seq(Seq(SheetParts)) /\ Len(w) = N
  <2>1. \A k \in 1 .. N : w[k] \in Seq(SheetParts)
    BY <1>11 DEF SheetSplit
  <2>2. w = [k \in 1 .. N |-> w[k]]
    BY <1>10 DEF w
  <2>3. w \in [1 .. N -> Seq(SheetParts)]
    BY <2>1, <2>2
  <2> QED
    BY ONLY <1>5, <2>3
<1>13. PICK K, J : r \in Seq(SheetParts) /\ ComesFrom(w, N, r, K, J)
  <2>1. FlattenSeq(w) \in Seq(SheetParts)
        /\ \E K, J : ComesFrom(w, Len(w), FlattenSeq(w), K, J)
    BY ONLY <1>12, FlattenIs
  <2> QED
    BY <1>12, <2>1
<1> HIDE DEF r
<1>14. ASSUME NEW i \in 1 .. Len(r)
       PROVE  /\ K[i] \in 1 .. N /\ J[i] \in 1 .. Len(w[K[i]]) /\ r[i] = w[K[i]][J[i]]
              /\ r[i] \in SheetParts /\ OneOfSheet(t, r[i], q[K[i]])
  <2>1. /\ K[i] \in 1 .. N /\ J[i] \in Nat /\ 1 <= J[i] /\ J[i] <= Len(w[K[i]])
        /\ r[i] = w[K[i]][J[i]]
    BY <1>13 DEF ComesFrom
  <2>2. w[K[i]] \in Seq(SheetParts) /\ SheetSplit(t, w[K[i]], q[K[i]])
    BY <1>11, <2>1 DEF SheetSplit
  <2>3. J[i] \in 1 .. Len(w[K[i]])
    BY <2>1, <2>2
  <2>4. OneOfSheet(t, w[K[i]][J[i]], q[K[i]])
    BY <2>2, <2>3 DEF SheetSplit
  <2> QED
    BY <1>13, <2>1, <2>3, <2>4
<1>15. ASSUME NEW i \in 1 .. Len(r)
       PROVE  \E a, b \in Nat : SheetOf(t, a, b) /\ OneOfSheet(t, r[i], Span(a, b))
  <2>1. K[i] \in 1 .. N /\ OneOfSheet(t, r[i], q[K[i]])
    BY <1>14
  <2>2. /\ q[K[i]].start \in Nat /\ q[K[i]].end \in Nat
        /\ SheetOf(t, q[K[i]].start, q[K[i]].end)
        /\ q[K[i]] = Span(q[K[i]].start, q[K[i]].end)
    BY <1>6, <1>8, <1>11, <2>1
  <2> QED
    BY <2>1, <2>2
<1>16. Len(r) \in Nat
  BY <1>13
<1>17. ASSUME NEW i \in 2 .. Len(r)
       PROVE  r[i - 1].rows.end <= r[i].rows.start /\ r[i - 1].rows.end < r[i].rows.end
  <2>1. PICK h \in 1 .. Len(r) : h = i - 1 /\ h < i /\ i - h = 1
    BY <1>16
  <2>2. i \in 1 .. Len(r)
    BY <1>16
  <2>3. K[h] < K[i] \/ (K[h] = K[i] /\ J[i] - J[h] = i - h)
    BY <1>13, <2>1, <2>2 DEF ComesFrom
  <2>4. /\ K[h] \in 1 .. N /\ J[h] \in 1 .. Len(w[K[h]]) /\ r[h] = w[K[h]][J[h]]
        /\ r[h] \in SheetParts /\ OneOfSheet(t, r[h], q[K[h]])
    BY <1>14
  <2>5. /\ K[i] \in 1 .. N /\ J[i] \in 1 .. Len(w[K[i]]) /\ r[i] = w[K[i]][J[i]]
        /\ r[i] \in SheetParts /\ OneOfSheet(t, r[i], q[K[i]])
    BY <1>14, <2>2
  <2>6. CASE K[h] < K[i]
    <3>1. q[K[h]].end <= q[K[i]].start
      BY <1>7, <2>4, <2>5, <2>6
    <3>2. PICK a \in Nat : a = q[K[h]].start
      BY <1>6, <2>4
    <3>3. PICK b \in Nat : b = q[K[h]].end
      BY <1>6, <2>4
    <3>4. PICK c \in Nat : c = q[K[i]].start
      BY <1>6, <2>5
    <3>5. PICK d \in Nat : d = q[K[i]].end
      BY <1>6, <2>5
    <3>6. q[K[h]] = Span(a, b) /\ q[K[i]] = Span(c, d)
      BY <1>11, <2>4, <2>5, <3>2, <3>3, <3>4, <3>5
    <3>7. OneOfSheet(t, r[h], Span(a, b)) /\ OneOfSheet(t, r[i], Span(c, d)) /\ b <= c
      BY <2>4, <2>5, <3>1, <3>3, <3>4, <3>6
    <3>8. r[h].rows.end <= r[i].rows.start /\ r[h].rows.end < r[i].rows.end
      BY <2>4, <2>5, <3>7, SheetsFollow
    <3> QED
      BY <2>1, <3>8
  <2>7. CASE K[h] = K[i] /\ J[i] - J[h] = i - h
    <3>1. PICK v : v = w[K[i]]
      OBVIOUS
    <3>2. SheetSplit(t, v, q[K[i]]) /\ Len(v) \in Nat
      <4>1. SheetSplit(t, w[K[i]], q[K[i]])
        BY <1>11, <2>5
      <4>2. SheetSplit(t, v, q[K[i]])
        BY ONLY <3>1, <4>1
      <4>3. v \in Seq(SheetParts)
        BY ONLY <4>2 DEF SheetSplit
      <4> QED
        BY <4>2, <4>3
    <3>a. J[i] \in 1 .. Len(v) /\ J[h] \in 1 .. Len(v)
      BY <2>4, <2>5, <2>7, <3>1
    <3>b. PICK j \in 1 .. Len(v) : j = J[i]
      BY <3>a
    <3>c. PICK l \in 1 .. Len(v) : l = J[h]
      BY <3>a
    <3>d. j - l = 1
      BY <2>1, <2>7, <3>b, <3>c
    <3>e. j \in 2 .. Len(v) /\ l = j - 1
      BY ONLY <3>2, <3>d, j \in 1 .. Len(v), l \in 1 .. Len(v)
    <3>3. j \in 2 .. Len(v) /\ j = J[i] /\ j - 1 = J[h]
      BY <3>b, <3>c, <3>e
    <3>4. v[j - 1].rows.end <= v[j].rows.start /\ v[j - 1].rows.end < v[j].rows.end
      BY <3>2, <3>e DEF SheetSplit
    <3> QED
      BY <2>1, <2>4, <2>5, <2>7, <3>1, <3>3, <3>4
  <2> QED
    BY <2>3, <2>6, <2>7
<1>18. ASSUME NEW x \in 0 .. Len(t) - 1, t[x + 1] \notin White
       PROVE  \E i \in 1 .. Len(r) : Shows(r[i], x)
  <2>1. PICK k \in 1 .. N : q[k].start <= x /\ x < q[k].end
    BY <1>9
  <2>2. q[k].start \in Nat /\ q[k].end \in Nat
    BY <1>6
  <2>3. x \in q[k].start .. q[k].end - 1
    BY <2>1, <2>2
  <2>4. PICK j \in 1 .. Len(w[k]) : Shows(w[k][j], x)
    BY <1>11, <1>18, <2>3 DEF SheetSplit
  <2>5. PICK i \in 1 .. Len(r) : K[i] = k /\ J[i] = j
    BY <1>13 DEF ComesFrom
  <2> QED
    BY <1>14, <2>4, <2>5
<1>19. WorkbookSplit(t, r)
  BY <1>13, <1>15, <1>17, <1>18 DEF WorkbookSplit
<1> QED
  BY <1>2, <1>19

(* Without a title there is nothing but text. *)
LEMMA UntitledSplits ==
    ASSUME NEW A, NEW t \in Seq(A), \A p \in 1 .. Len(t) : t[p] # "sheet"
    PROVE  SpreadsheetChunks(t) = Bare(PlainTextSpans(t, Span(0, Len(t)), 0))
<1> DEFINE all == Span(0, Len(t))
           S == LinesThatAre("sheet", t, all)
           q == Sections(S, Len(t))
<1>1. S = {}
  <2>1. all.start = 0 /\ all.end = Len(t) /\ Len(t) \in Nat
    BY SpanIs
  <2>2. ASSUME NEW i \in 0 .. Len(t) - 1 PROVE t[i + 1] # "sheet"
    <3>1. i + 1 \in 1 .. Len(t)
      BY <2>1
    <3> QED
      BY <3>1
  <2> HIDE DEF all
  <2> QED
    BY <2>1, <2>2 DEF LinesThatAre
<1> HIDE DEF S
<1>2. Ascending(S) = <<>>
  <2>1. Cardinality(S) = 0
    BY <1>1, FS_EmptySet
  <2>2. 1 .. Cardinality(S) = {}
    BY <2>1
  <2> QED
    BY <2>2 DEF Ascending
<1>3. q = <<>>
  <2>1. DOMAIN Ascending(S) = {}
    BY <1>2
  <2> QED
    BY <2>1 DEF Sections
<1> QED
  BY <1>3 DEF SpreadsheetChunks, S

-----------------------------------------------------------------------------
(* Some of the members of a sequence. *)

(* Only(q, S) has one member of q for every place in S. *)
LEMMA OnlyIs ==
    ASSUME NEW A, NEW q \in Seq(A), NEW S \in SUBSET (1 .. Len(q))
    PROVE  /\ Only(q, S) \in Seq(A) /\ Len(Only(q, S)) = Cardinality(S) /\ Cardinality(S) \in Nat
           /\ \A i \in 1 .. Cardinality(S) :
                 /\ Ascending(S)[i] \in S
                 /\ Only(q, S)[i] = q[Ascending(S)[i]] /\ Only(q, S)[i] \in A
<1> DEFINE n == Cardinality(S)
           f == Ascending(S)
           r == Only(q, S)
<1>1. Len(q) \in Nat /\ \A i \in 1 .. Len(q) : q[i] \in A
  OBVIOUS
<1>2. S \in SUBSET Int /\ IsFiniteSet(S)
  <2>1. 1 \in Int /\ Len(q) \in Int
    BY <1>1
  <2>2. IsFiniteSet(S)
    BY ONLY <2>1, S \in SUBSET (1 .. Len(q)), IntervalFinite
  <2> QED
    BY <2>2
<1>3. n \in Nat /\ f \in [1 .. n -> S]
  BY <1>2, AscendingIs
<1>4. r = [i \in DOMAIN f |-> q[f[i]]]
  BY DEF Only
<1> HIDE DEF n, f, r
<1>5. DOMAIN f = 1 .. n /\ \A i \in 1 .. n : f[i] \in S
  BY <1>3
<1>6. \A i \in 1 .. n : r[i] = q[f[i]] /\ r[i] \in A
  <2> TAKE i \in 1 .. n
  <2>1. f[i] \in 1 .. Len(q)
    BY <1>5
  <2> QED
    BY <1>1, <1>4, <1>5, <2>1
<1>7. r \in [1 .. n -> A]
  BY <1>4, <1>5, <1>6
<1>8. r \in Seq(A) /\ Len(r) = n
  BY ONLY <1>3, <1>7
<1> QED
  BY <1>3, <1>5, <1>6, <1>8 DEF n, f, r

(* A place in a flattened sequence, and the one before it. *)
LEMMA FlattenPlace ==
    ASSUME NEW A, NEW q \in Seq(Seq(A)), NEW p \in 1 .. Len(FlattenSeq(q))
    PROVE  \E k \in 1 .. Len(q) : \E j \in 1 .. Len(q[k]) :
               /\ FlattenSeq(q)[p] = q[k][j]
               /\ j > 1 => p > 1 /\ FlattenSeq(q)[p - 1] = q[k][j - 1]
               /\ k = 1 /\ j = 1 => p = 1
<1> DEFINE r == FlattenSeq(q)
<1>1. PICK K, J : r \in Seq(A) /\ ComesFrom(q, Len(q), r, K, J)
  BY FlattenIs
<1> HIDE DEF r
<1>2. /\ K[p] \in 1 .. Len(q) /\ J[p] \in Nat /\ 1 <= J[p] /\ J[p] <= Len(q[K[p]])
      /\ r[p] = q[K[p]][J[p]]
  BY <1>1 DEF ComesFrom, r
<1>3. PICK k \in 1 .. Len(q) : k = K[p]
  BY <1>2
<1>4. q[k] \in Seq(A) /\ Len(q[k]) \in Nat
  OBVIOUS
<1>5. PICK j \in 1 .. Len(q[k]) : j = J[p]
  BY <1>2, <1>3, <1>4
<1>6. r[p] = q[k][j]
  BY <1>2, <1>3, <1>5
<1>0. k = 1 /\ j = 1 => p = 1
  <2>1. p \in 1 .. Len(r) /\ Len(r) \in Nat /\ 1 \in 1 .. Len(r)
    BY <1>1 DEF r
  <2>2. 1 < p => K[1] < K[p] \/ (K[1] = K[p] /\ J[p] - J[1] = p - 1)
    BY <1>1, <2>1 DEF ComesFrom
  <2>3. K[1] \in 1 .. Len(q) /\ J[1] \in Nat /\ 1 <= J[1]
    BY <1>1, <2>1 DEF ComesFrom
  <2>4. PICK m \in Nat : m = J[1]
    BY <2>3
  <2>5. ~(K[1] < 1) /\ 1 <= m
    BY <2>3, <2>4
  <2>6. k = 1 /\ j = 1 /\ 1 < p => 1 - m = p - 1
    BY <1>3, <1>5, <2>2, <2>4, <2>5
  <2> QED
    BY ONLY <2>1, <2>5, <2>6, m \in Nat
<1>7. CASE j > 1
  <2>1. PICK h \in 1 .. Len(q[k]) : h = j - 1
    BY <1>4, <1>7
  <2>2. PICK i \in 1 .. Len(r) : K[i] = k /\ J[i] = h
    BY <1>1 DEF ComesFrom
  <2>3. p \in 1 .. Len(r) /\ Len(r) \in Nat
    BY <1>1 DEF r
  <2>4. ~(p < i)
    <3>1. p < i => J[i] - J[p] = i - p
      <4>1. p < i => K[p] < K[i] \/ (K[p] = K[i] /\ J[i] - J[p] = i - p)
        BY <1>1, <2>3 DEF ComesFrom
      <4>2. ~(k < k)
        BY <1>4
      <4> QED
        BY <1>3, <2>2, <4>1, <4>2
    <3>2. p < i => h - j = i - p
      BY <1>5, <2>2, <3>1
    <3> QED
      BY ONLY <1>4, <2>1, <2>3, <3>2, h \in 1 .. Len(q[k]), j \in 1 .. Len(q[k]), i \in 1 .. Len(r)
  <2>5. i # p
    BY <1>4, <1>5, <2>1, <2>2
  <2>6. i < p
    BY ONLY <2>3, <2>4, <2>5, i \in 1 .. Len(r)
  <2>7. j - h = p - i
    <3>1. K[i] < K[p] \/ (K[i] = K[p] /\ J[p] - J[i] = p - i)
      BY <1>1, <2>3, <2>6 DEF ComesFrom
    <3>2. ~(k < k)
      BY <1>4
    <3> QED
      BY <1>3, <1>5, <2>2, <3>1, <3>2
  <2>8. i = p - 1
    BY ONLY <1>4, <2>1, <2>3, <2>7, h \in 1 .. Len(q[k]), j \in 1 .. Len(q[k]), i \in 1 .. Len(r)
  <2>9. r[i] = q[k][h]
    BY <1>1, <2>2 DEF ComesFrom
  <2>10. p > 1 /\ r[p - 1] = q[k][j - 1]
    BY <2>1, <2>3, <2>8, <2>9
  <2> QED
    BY <1>0, <1>6, <2>10 DEF r
<1>8. CASE ~(j > 1)
  BY <1>0, <1>6, <1>8 DEF r
<1> QED
  BY <1>7, <1>8

(* Sequences put together begin with the first of them. *)
LEMMA FlattenFirst ==
    ASSUME NEW A, NEW q \in Seq(Seq(A)), q # <<>>, q[1] # <<>>
    PROVE  FlattenSeq(q) # <<>> /\ FlattenSeq(q)[1] = q[1][1]
<1> DEFINE r == FlattenSeq(q)
<1>1. PICK K, J : r \in Seq(A) /\ ComesFrom(q, Len(q), r, K, J)
  BY FlattenIs
<1> HIDE DEF r
<1>2. Len(q) \in Nat /\ Len(q) >= 1 /\ 1 \in 1 .. Len(q)
  BY EmptySeq, LenProperties
<1>3. q[1] \in Seq(A) /\ Len(q[1]) \in Nat
  BY <1>2
<1>4. Len(q[1]) >= 1 /\ 1 \in 1 .. Len(q[1])
  BY <1>3, EmptySeq, LenProperties
<1>5. PICK i \in 1 .. Len(r) : K[i] = 1 /\ J[i] = 1
  BY <1>1, <1>2, <1>4 DEF ComesFrom
<1>6. Len(r) \in Nat /\ 1 \in 1 .. Len(r)
  BY <1>1
<1>7. i = 1
  <2>1. 1 < i => K[1] < K[i] \/ (K[1] = K[i] /\ J[i] - J[1] = i - 1)
    BY <1>1, <1>6 DEF ComesFrom
  <2>2. K[1] \in 1 .. Len(q) /\ J[1] \in Nat /\ 1 <= J[1]
    BY <1>1, <1>6 DEF ComesFrom
  <2>3. PICK m \in Nat : m = J[1]
    BY <2>2
  <2>4. ~(K[1] < 1)
    BY <1>2, <2>2
  <2>5. 1 < i => 1 - m = i - 1
    BY <1>5, <2>1, <2>3, <2>4
  <2>6. 1 <= m
    BY <2>2, <2>3
  <2> QED
    BY ONLY <1>6, <2>5, <2>6, i \in 1 .. Len(r), m \in Nat
<1>8. r[1] = q[1][1]
  BY <1>1, <1>5, <1>7 DEF ComesFrom
<1>9. r # <<>>
  BY <1>6
<1> QED
  BY <1>8, <1>9 DEF r

(* A sequence of one. *)
LEMMA SingleIs ==
    ASSUME NEW A, NEW x \in A
    PROVE  <<x>> \in Seq(A) /\ Len(<<x>>) = 1 /\ <<x>>[1] = x /\ <<x>> # <<>>
OBVIOUS

(* Two sequences put together, place by place. *)
LEMMA ConcatIs ==
    ASSUME NEW A, NEW u \in Seq(A), NEW r \in Seq(A), NEW c, c = u \o r
    PROVE  /\ c \in Seq(A) /\ Len(u) \in Nat /\ Len(r) \in Nat
           /\ Len(c) = Len(u) + Len(r)
           /\ \A i \in 1 .. Len(u) : c[i] = u[i]
           /\ \A i \in 1 .. Len(r) : c[Len(u) + i] = r[i]
           /\ \A i \in 1 .. Len(c) :
                 \/ i \in 1 .. Len(u)
                 \/ \E j \in 1 .. Len(r) : i = Len(u) + j
<1>1. Len(u) \in Nat /\ Len(r) \in Nat
  OBVIOUS
<1>2. /\ u \o r \in Seq(A) /\ Len(u \o r) = Len(u) + Len(r)
      /\ \A i \in 1 .. Len(u) + Len(r) : (u \o r)[i] = IF i <= Len(u) THEN u[i] ELSE r[i - Len(u)]
  BY ConcatProperties
<1>3. PICK m \in Nat : m = Len(u)
  BY <1>1
<1>4. PICK n \in Nat : n = Len(r)
  BY <1>1
<1>5. c = u \o r
  OBVIOUS
<1>6. \A i \in 1 .. m + n : c[i] = IF i <= m THEN u[i] ELSE r[i - m]
  BY <1>2, <1>3, <1>4, <1>5
<1>7. \A i \in 1 .. m : i \in 1 .. m + n /\ i <= m
  OBVIOUS
<1>8. \A i \in 1 .. m : c[i] = u[i]
  BY ONLY <1>6, <1>7
<1>9. \A i \in 1 .. n : m + i \in 1 .. m + n /\ ~(m + i <= m) /\ (m + i) - m = i
  BY ONLY m \in Nat, n \in Nat
<1>10. ASSUME NEW i \in 1 .. n PROVE c[m + i] = r[i]
  <2>1. PICK j : j = m + i
    OBVIOUS
  <2>2. j \in 1 .. m + n /\ ~(j <= m) /\ j - m = i
    BY ONLY <1>9, <2>1, i \in 1 .. n
  <2>3. c[j] = r[j - m]
    BY ONLY <1>6, <2>2
  <2> QED
    BY ONLY <2>1, <2>2, <2>3
<1>11. ASSUME NEW i \in 1 .. m + n PROVE i \in 1 .. m \/ \E j \in 1 .. n : i = m + j
  <2>1. CASE i <= m
    BY <2>1
  <2>2. CASE ~(i <= m)
    <3>1. i - m \in 1 .. n /\ i = m + (i - m)
      BY <2>2
    <3> QED
      BY <3>1
  <2> QED
    BY <2>1, <2>2
<1> QED
  BY <1>2, <1>3, <1>4, <1>5, <1>8, <1>10, <1>11

(* f lists the numbers of S as they follow. *)
Lists(f, n, S) ==
    /\ f \in [1 .. n -> S]
    /\ \A i, j \in 1 .. n : i < j => f[i] < f[j]
    /\ \A x \in S : \E i \in 1 .. n : f[i] = x

(* Of two lists of the same numbers in ascending order neither is longer,   *)
(* and they agree.                                                          *)
LEMMA ListsUnique ==
    ASSUME NEW S \in SUBSET Int, NEW n \in Nat, NEW m \in Nat, NEW f, NEW g,
           Lists(f, n, S), Lists(g, m, S), n <= m
    PROVE  n = m /\ \A i \in 1 .. n : f[i] = g[i]
<1> DEFINE Same(i) == i \in 1 .. n => f[i] = g[i]
           Bad == {i \in Nat : ~Same(i)}
<1>1. \A i \in 1 .. n : f[i] \in S /\ f[i] \in Int
  BY DEF Lists
<1>2. \A i \in 1 .. m : g[i] \in S /\ g[i] \in Int
  BY DEF Lists
<1>3. \A i \in 1 .. n : i \in 1 .. m
  OBVIOUS
<1>4. ASSUME NEW i \in 1 .. n, \A j \in 1 .. n : j < i => f[j] = g[j] PROVE f[i] = g[i]
  <2>1. PICK k \in 1 .. m : g[k] = f[i]
    BY <1>1 DEF Lists
  <2>2. PICK l \in 1 .. n : f[l] = g[i]
    BY <1>2, <1>3 DEF Lists
  <2>3. ~(k < i)
    <3>1. SUFFICES ASSUME k < i PROVE FALSE
      OBVIOUS
    <3>2. k \in 1 .. n /\ f[k] = g[k]
      BY <1>4, <3>1
    <3>3. f[k] < f[i]
      BY <3>1, <3>2 DEF Lists
    <3> QED
      BY <1>1, <2>1, <3>2, <3>3
  <2>4. ~(l < i)
    <3>1. SUFFICES ASSUME l < i PROVE FALSE
      OBVIOUS
    <3>2. f[l] = g[l]
      BY <1>4, <3>1
    <3>3. g[l] < g[i]
      BY <1>3, <3>1 DEF Lists
    <3> QED
      BY <1>2, <1>3, <2>2, <3>2, <3>3
  <2>5. PICK a \in Int : a = f[i]
    BY <1>1
  <2>6. PICK b \in Int : b = g[i]
    BY <1>2, <1>3
  <2>7. b <= a
    <3>1. CASE k = i
      BY <2>1, <2>5, <2>6, <3>1
    <3>2. CASE i < k
      <4>1. g[i] < g[k]
        BY <1>3, <3>2 DEF Lists
      <4> QED
        BY <2>1, <2>5, <2>6, <4>1
    <3> QED
      BY <2>3, <3>1, <3>2
  <2>8. a <= b
    <3>1. CASE l = i
      BY <2>2, <2>5, <2>6, <3>1
    <3>2. CASE i < l
      <4>1. f[i] < f[l]
        BY <3>2 DEF Lists
      <4> QED
        BY <2>2, <2>5, <2>6, <4>1
    <3> QED
      BY <2>4, <3>1, <3>2
  <2>9. a = b
    BY ONLY <2>7, <2>8, a \in Int, b \in Int
  <2> QED
    BY <2>5, <2>6, <2>9
<1>5. \A i \in 1 .. n : f[i] = g[i]
  <2>1. Bad = {}
    <3> SUFFICES ASSUME Bad # {} PROVE FALSE
      OBVIOUS
    <3>1. Bad \in SUBSET Nat
      OBVIOUS
    <3> HIDE DEF Bad
    <3>2. PICK i \in Bad : \A y \in Bad : i <= y
      BY ONLY <3>1, Bad # {}, LeastNumber
    <3>3. i \in 1 .. n /\ f[i] # g[i]
      BY <3>2 DEF Bad
    <3>4. ASSUME NEW j \in 1 .. n, j < i PROVE f[j] = g[j]
      <4>1. j \notin Bad
        BY <3>2, <3>3, <3>4
      <4> QED
        BY <4>1 DEF Bad
    <3> QED
      BY <1>4, <3>3, <3>4
  <2> QED
    BY <2>1
<1>6. n = m
  <2>1. SUFFICES ASSUME n < m PROVE FALSE
    OBVIOUS
  <2>2. m \in 1 .. m
    BY <2>1
  <2>3. PICK i \in 1 .. n : f[i] = g[m]
    BY <1>2, <2>2 DEF Lists
  <2>4. g[i] < g[m]
    BY <1>3, <2>1, <2>2 DEF Lists
  <2> QED
    BY <1>2, <1>3, <1>5, <2>2, <2>3, <2>4
<1> QED
  BY <1>5, <1>6

(* Ascending is that list. *)
LEMMA ListedIsAscending ==
    ASSUME NEW S \in SUBSET Int, IsFiniteSet(S), NEW n \in Nat, NEW f, Lists(f, n, S)
    PROVE  n = Cardinality(S) /\ \A i \in 1 .. n : f[i] = Ascending(S)[i]
<1> DEFINE m == Cardinality(S)
           g == Ascending(S)
<1>1. m \in Nat /\ Lists(g, m, S)
  BY AscendingIs DEF Lists
<1> HIDE DEF m, g
<1>2. CASE n <= m
  <2>1. n = m /\ \A i \in 1 .. n : f[i] = g[i]
    BY ONLY <1>1, <1>2, S \in SUBSET Int, n \in Nat, Lists(f, n, S), ListsUnique
  <2> QED
    BY <2>1 DEF m, g
<1>3. CASE m <= n
  <2>1. m = n /\ \A i \in 1 .. m : g[i] = f[i]
    BY ONLY <1>1, <1>3, S \in SUBSET Int, n \in Nat, Lists(f, n, S), ListsUnique
  <2> QED
    BY <2>1 DEF m, g
<1> QED
  BY <1>1, <1>2, <1>3

(* Of every member itself, or nothing when its place is not in S. *)
Masked(q, S) == [i \in DOMAIN q |-> IF i \in S THEN <<q[i]>> ELSE <<>>]

(* Of every member itself or nothing. *)
LEMMA MaskedIs ==
    ASSUME NEW A, NEW q \in Seq(A), NEW S
    PROVE  /\ Masked(q, S) \in Seq(Seq(A)) /\ Len(Masked(q, S)) = Len(q) /\ Len(q) \in Nat
           /\ \A i \in 1 .. Len(q) : Masked(q, S)[i] = IF i \in S THEN <<q[i]>> ELSE <<>>
<1>1. PICK n \in Nat : n = Len(q)
  OBVIOUS
<1>2. \A i \in 1 .. n : <<q[i]>> \in Seq(A) /\ <<>> \in Seq(A)
  BY <1>1, SingleIs
<1>3. Masked(q, S) = [i \in 1 .. n |-> IF i \in S THEN <<q[i]>> ELSE <<>>]
  BY <1>1 DEF Masked
<1>4. Masked(q, S) \in [1 .. n -> Seq(A)]
  BY <1>2, <1>3
<1>5. Masked(q, S) \in Seq(Seq(A)) /\ Len(Masked(q, S)) = n
  BY <1>4
<1> QED
  BY <1>1, <1>3, <1>5

(* To keep some members is to put together, for every member, itself or nothing. *)
LEMMA OnlyFlattens ==
    ASSUME NEW A, NEW q \in Seq(A), NEW S \in SUBSET (1 .. Len(q))
    PROVE  Only(q, S) = FlattenSeq(Masked(q, S))
<1> DEFINE w == Masked(q, S)
           r == FlattenSeq(w)
           n == Len(q)
           m == Len(r)
           p == Only(q, S)
<1>1. /\ w \in Seq(Seq(A)) /\ Len(w) = n /\ n \in Nat
      /\ \A i \in 1 .. n : w[i] = IF i \in S THEN <<q[i]>> ELSE <<>>
  BY MaskedIs
<1> HIDE DEF w
<1>2. PICK K, J : r \in Seq(A) /\ ComesFrom(w, Len(w), r, K, J)
  BY <1>1, FlattenIs
<1>3. m \in Nat
  BY <1>2
<1> HIDE DEF r, m, n
<1>4. ASSUME NEW i \in 1 .. m
      PROVE  K[i] \in S /\ K[i] \in 1 .. n /\ J[i] = 1 /\ r[i] = q[K[i]]
  <2>1. /\ K[i] \in 1 .. n /\ J[i] \in Nat /\ 1 <= J[i] /\ J[i] <= Len(w[K[i]])
        /\ r[i] = w[K[i]][J[i]]
    BY <1>1, <1>2 DEF ComesFrom, m
  <2>2. PICK k \in 1 .. n : k = K[i]
    BY <2>1
  <2>3. PICK j \in Nat : j = J[i]
    BY <2>1
  <2>4. 1 <= j /\ j <= Len(w[k])
    BY <2>1, <2>2, <2>3
  <2>5. k \in S
    <3>1. k \notin S => w[k] = <<>>
      BY <1>1
    <3>2. Len(<<>>) = 0
      OBVIOUS
    <3>3. k \notin S => 1 <= j /\ j <= 0
      BY <2>4, <3>1, <3>2
    <3> QED
      BY <3>3
  <2>6. w[k] = <<q[k]>>
    BY <1>1, <2>5
  <2>7. Len(w[k]) = 1 /\ w[k][1] = q[k]
    BY <2>6
  <2>8. j = 1
    BY <2>4, <2>7
  <2> QED
    BY <2>1, <2>2, <2>3, <2>5, <2>7, <2>8
<1> DEFINE f == [i \in 1 .. m |-> K[i]]
<1>5. Lists(f, m, S)
  <2>1. f \in [1 .. m -> S]
    BY <1>4
  <2>2. ASSUME NEW i \in 1 .. m, NEW j \in 1 .. m, i < j PROVE f[i] < f[j]
    <3>1. K[i] < K[j] \/ (K[i] = K[j] /\ J[j] - J[i] = j - i)
      BY <1>2, <2>2 DEF ComesFrom, m
    <3>2. J[j] - J[i] = 0
      BY <1>4
    <3>3. j - i # 0
      BY <1>3, <2>2
    <3>4. K[i] < K[j]
      BY <3>1, <3>2, <3>3
    <3> QED
      BY <3>4
  <2>3. ASSUME NEW x \in S PROVE \E i \in 1 .. m : f[i] = x
    <3>1. x \in 1 .. n
      BY DEF n
    <3>2. w[x] = <<q[x]>>
      BY <1>1, <3>1
    <3>3. 1 \in 1 .. Len(w[x])
      BY <3>2
    <3>4. PICK i \in 1 .. m : K[i] = x
      BY <1>1, <1>2, <3>1, <3>3 DEF ComesFrom, m
    <3> QED
      BY <3>4
  <2> HIDE DEF f
  <2> QED
    BY <2>1, <2>2, <2>3 DEF Lists
<1> HIDE DEF f
<1>6. S \in SUBSET Int /\ IsFiniteSet(S)
  <2>1. 1 \in Int /\ n \in Int
    BY <1>1
  <2>2. IsFiniteSet(S)
    BY ONLY <2>1, S \in SUBSET (1 .. Len(q)), IntervalFinite DEF n
  <2> QED
    BY <2>2
<1>7. m = Cardinality(S) /\ \A i \in 1 .. m : f[i] = Ascending(S)[i]
  BY ONLY <1>3, <1>5, <1>6, ListedIsAscending
<1>8. /\ p \in Seq(A) /\ Len(p) = Cardinality(S)
      /\ \A i \in 1 .. Cardinality(S) : p[i] = q[Ascending(S)[i]]
  BY OnlyIs
<1> HIDE DEF p
<1>9. \A i \in 1 .. m : r[i] = p[i]
  BY <1>4, <1>7, <1>8 DEF f
<1>10. r = p
  BY ONLY <1>2, <1>7, <1>8, <1>9, SeqEqual DEF m
<1> QED
  BY <1>10 DEF r, p, w

(* All the members are the sequence. *)
LEMMA OnlyAll ==
    ASSUME NEW A, NEW q \in Seq(A), NEW S, S = 1 .. Len(q)
    PROVE  Only(q, S) = q
<1>1. PICK n \in Nat : n = Len(q)
  OBVIOUS
<1> DEFINE f == [i \in 1 .. n |-> i]
           p == Only(q, S)
<1>2. S = 1 .. n /\ S \in SUBSET Int /\ S \in SUBSET (1 .. Len(q)) /\ IsFiniteSet(S)
  <2>1. 1 \in Int /\ n \in Int /\ S \in SUBSET (1 .. n)
    BY <1>1
  <2>2. IsFiniteSet(S)
    BY ONLY <2>1, IntervalFinite
  <2> QED
    BY <1>1, <2>1, <2>2
<1>3. Lists(f, n, S)
  BY <1>2 DEF Lists
<1>4. \A i \in 1 .. n : f[i] = i
  OBVIOUS
<1> HIDE DEF f
<1>5. n = Cardinality(S) /\ \A i \in 1 .. n : f[i] = Ascending(S)[i]
  BY ONLY <1>2, <1>3, n \in Nat, ListedIsAscending
<1>6. /\ p \in Seq(A) /\ Len(p) = Cardinality(S)
      /\ \A i \in 1 .. Cardinality(S) : p[i] = q[Ascending(S)[i]]
  BY <1>2, OnlyIs
<1> HIDE DEF p
<1>7. Len(p) = Len(q) /\ \A i \in 1 .. Len(p) : p[i] = q[i]
  BY <1>1, <1>4, <1>5, <1>6
<1>8. p = q
  BY ONLY <1>6, <1>7, q \in Seq(A), SeqEqual
<1> QED
  BY <1>8 DEF p

(* No members are no sequence. *)
LEMMA OnlyNone ==
    ASSUME NEW A, NEW q \in Seq(A), NEW S, S = {}
    PROVE  Only(q, S) = <<>>
<1>1. S \in SUBSET (1 .. Len(q))
  OBVIOUS
<1>2. Only(q, S) \in Seq(A) /\ Len(Only(q, S)) = Cardinality(S)
  BY <1>1, OnlyIs
<1>3. Cardinality(S) = 0
  BY FS_EmptySet
<1> QED
  BY <1>2, <1>3, EmptySeq

(* No sequences put together are empty. *)
LEMMA FlattenNone ==
    ASSUME NEW A, NEW q \in Seq(Seq(A)), Len(q) = 0
    PROVE  FlattenSeq(q) \in Seq(A) /\ Len(FlattenSeq(q)) = 0
<1>1. FlattenSeq(q) \in Seq(A)
  BY FlattenIs
<1>2. \A p \in 1 .. Len(FlattenSeq(q)) : FALSE
  <2>1. ASSUME NEW p \in 1 .. Len(FlattenSeq(q)) PROVE FALSE
    <3>0. PICK i : i = p
      OBVIOUS
    <3>a. i \in 1 .. Len(FlattenSeq(q)) /\ q \in Seq(Seq(A))
      BY <3>0
    <3>1. \E k \in 1 .. Len(q) : \E j \in 1 .. Len(q[k]) :
             /\ FlattenSeq(q)[i] = q[k][j]
             /\ j > 1 => i > 1 /\ FlattenSeq(q)[i - 1] = q[k][j - 1]
             /\ k = 1 /\ j = 1 => i = 1
      BY ONLY <3>a, FlattenPlace
    <3>2. \E k \in 1 .. Len(q) : TRUE
      BY <3>1
    <3> QED
      BY <3>2
  <2> QED
    BY <2>1
<1>3. PICK n \in Nat : n = Len(FlattenSeq(q))
  BY <1>1
<1>4. n = 0
  <2>1. \A p \in 1 .. n : FALSE
    BY <1>2, <1>3
  <2>2. n # 0 => 1 \in 1 .. n
    OBVIOUS
  <2> QED
    BY <2>1, <2>2
<1> QED
  BY <1>1, <1>3, <1>4

(* g puts the members of q together one by one. *)
Accumulates(g, q, A) ==
    /\ g \in [0 .. Len(q) -> Seq(A)]
    /\ g[0] = <<>>
    /\ \A n \in 1 .. Len(q) : g[n] = g[n - 1] \o q[n]

(* FlattenSeq accumulates its members. *)
LEMMA FlattenBy ==
    ASSUME NEW A, NEW q \in Seq(Seq(A))
    PROVE  \E g : Accumulates(g, q, A) /\ g[Len(q)] = FlattenSeq(q)
<1>1. CASE q = <<>>
  <2> DEFINE g == [n \in 0 .. 0 |-> <<>>]
  <2>1. Len(q) = 0
    BY <1>1
  <2>2. FlattenSeq(q) = <<>>
    <3>1. FlattenSeq(q) \in Seq(A) /\ Len(FlattenSeq(q)) = 0
      BY <2>1, FlattenNone
    <3> QED
      BY <3>1, EmptySeq
  <2>3. g \in [0 .. 0 -> Seq(A)] /\ g[0] = <<>>
    OBVIOUS
  <2> HIDE DEF g
  <2>4. Accumulates(g, q, A)
    BY <2>1, <2>3 DEF Accumulates
  <2> QED
    BY <2>1, <2>2, <2>3, <2>4
<1>2. CASE q # <<>>
  <2>1. PICK f \in [1 .. Len(q) -> Seq(A)] :
               /\ f[1] = q[1]
               /\ \A n \in 2 .. Len(q) : f[n] = f[n - 1] \o q[n]
               /\ FlattenSeq(q) = f[Len(q)]
    BY <1>2, FlattenSteps
  <2>2. PICK N \in Nat : N = Len(q)
    OBVIOUS
  <2>3. N >= 1 /\ q[1] \in Seq(A)
    BY <1>2, <2>2, EmptySeq, LenProperties, ElementOfSeq
  <2> DEFINE g == [n \in 0 .. N |-> IF n = 0 THEN <<>> ELSE f[n]]
  <2>4. g[0] = <<>> /\ \A n \in 1 .. N : g[n] = f[n]
    OBVIOUS
  <2>5. g \in [0 .. N -> Seq(A)]
    <3>1. \A n \in 1 .. N : f[n] \in Seq(A)
      BY <2>1, <2>2
    <3>2. <<>> \in Seq(A)
      OBVIOUS
    <3> QED
      BY <3>1, <3>2
  <2> HIDE DEF g
  <2>6. ASSUME NEW n \in 1 .. N PROVE g[n] = g[n - 1] \o q[n]
    <3>1. CASE n = 1
      <4>1. <<>> \o q[1] = q[1]
        BY <2>3, ConcatEmptySeq
      <4>2. g[1] = q[1] /\ g[1 - 1] = <<>>
        BY <2>1, <2>3, <2>4
      <4> QED
        BY <3>1, <4>1, <4>2
    <3>2. CASE n # 1
      <4>1. n \in 2 .. Len(q) /\ n - 1 \in 1 .. N
        BY <2>2, <3>2
      <4> QED
        BY <2>1, <2>4, <4>1
    <3> QED
      BY <3>1, <3>2
  <2>7. Accumulates(g, q, A)
    BY <2>2, <2>4, <2>5, <2>6 DEF Accumulates
  <2>8. g[Len(q)] = FlattenSeq(q)
    <3>1. N \in 1 .. N
      BY <2>3
    <3> QED
      BY <2>1, <2>2, <2>4, <3>1
  <2> QED
    BY <2>7, <2>8
<1> QED
  BY <1>1, <1>2

(* Whatever accumulates them arrives at FlattenSeq. *)
LEMMA FlattenTo ==
    ASSUME NEW A, NEW q \in Seq(Seq(A)), NEW g, Accumulates(g, q, A)
    PROVE  g[Len(q)] = FlattenSeq(q)
<1>1. PICK h : Accumulates(h, q, A) /\ h[Len(q)] = FlattenSeq(q)
  BY FlattenBy
<1>2. PICK N \in Nat : N = Len(q)
  OBVIOUS
<1> DEFINE S == {n \in 0 .. N : g[n] = h[n]}
<1>3. 0 \in S
  BY <1>1, <1>2 DEF Accumulates
<1>4. ASSUME NEW n \in 0 + 1 .. N, n - 1 \in S PROVE n \in S
  <2>1. n \in 1 .. Len(q) /\ n \in 0 .. N
    BY <1>2
  <2>2. g[n] = g[n - 1] \o q[n] /\ h[n] = h[n - 1] \o q[n]
    BY <1>1, <2>1 DEF Accumulates
  <2> QED
    BY <1>4, <2>1, <2>2
<1>5. \A n \in 0 .. N : n \in S
  <2> HIDE DEF S
  <2> QED
    BY ONLY <1>3, <1>4, N \in Nat, 0 \in Nat, InductionFrom
<1>6. N \in S
  BY <1>5
<1> QED
  BY <1>1, <1>2, <1>6

(* Nothing put together is nothing. *)
LEMMA FlattenEmpty ==
    ASSUME NEW A
    PROVE  FlattenSeq(<<>>) = <<>>
<1>1. PICK q \in Seq(Seq(A)) : q = <<>>
  <2> DEFINE T == Seq(A)
  <2> HIDE DEF T
  <2>1. <<>> \in Seq(T)
    OBVIOUS
  <2> QED
    BY <2>1 DEF T
<1>2. Len(q) = 0
  BY <1>1
<1>3. FlattenSeq(q) \in Seq(A) /\ Len(FlattenSeq(q)) = 0
  BY <1>2, FlattenNone
<1> QED
  BY <1>1, <1>3, EmptySeq

(* A single sequence put together is itself. *)
LEMMA FlattenOne ==
    ASSUME NEW A, NEW x \in Seq(A)
    PROVE  FlattenSeq(<<x>>) = x
<1> DEFINE T == Seq(A)
           q == <<x>>
<1>1. q \in Seq(T) /\ Len(q) = 1 /\ q[1] = x /\ q # <<>>
  <2> HIDE DEF T
  <2>1. x \in T
    BY DEF T
  <2> QED
    BY <2>1, SingleIs
<1> HIDE DEF q
<1>2. PICK f \in [1 .. Len(q) -> Seq(A)] :
             /\ f[1] = q[1]
             /\ \A n \in 2 .. Len(q) : f[n] = f[n - 1] \o q[n]
             /\ FlattenSeq(q) = f[Len(q)]
  BY ONLY <1>1, FlattenSteps DEF T
<1>3. FlattenSeq(q) = x
  BY <1>1, <1>2
<1> QED
  BY <1>3 DEF q

(* To put together two sequences of sequences is to put each together       *)
(* first.                                                                   *)
LEMMA FlattenConcat ==
    ASSUME NEW A, NEW u \in Seq(Seq(A)), NEW v \in Seq(Seq(A)), NEW c, c = u \o v
    PROVE  FlattenSeq(c) = FlattenSeq(u) \o FlattenSeq(v)
<1> DEFINE T == Seq(A)
<1>1. PICK m \in Nat : m = Len(u)
  OBVIOUS
<1>2. PICK n \in Nat : n = Len(v)
  OBVIOUS
<1>3. /\ c \in Seq(T) /\ Len(c) = m + n
      /\ \A i \in 1 .. m : c[i] = u[i]
      /\ \A i \in 1 .. n : c[m + i] = v[i]
  <2> HIDE DEF T
  <2>0. u \in Seq(T) /\ v \in Seq(T)
    BY DEF T
  <2>1. /\ c \in Seq(T) /\ Len(c) = Len(u) + Len(v)
        /\ \A i \in 1 .. Len(u) : c[i] = u[i]
        /\ \A i \in 1 .. Len(v) : c[Len(u) + i] = v[i]
    BY ONLY <2>0, c = u \o v, ConcatIs
  <2> QED
    BY <1>1, <1>2, <2>1
<1>4. PICK g : Accumulates(g, u, A) /\ g[m] = FlattenSeq(u)
  BY <1>1, FlattenBy
<1>5. PICK h : Accumulates(h, v, A) /\ h[n] = FlattenSeq(v)
  BY <1>2, FlattenBy
<1>6. PICK x \in Seq(A) : x = FlattenSeq(u)
  BY FlattenIs
<1>7. /\ \A i \in 0 .. m : g[i] \in Seq(A)
      /\ \A i \in 0 .. n : h[i] \in Seq(A)
      /\ g[0] = <<>> /\ h[0] = <<>>
      /\ \A i \in 1 .. m : g[i] = g[i - 1] \o u[i]
      /\ \A i \in 1 .. n : h[i] = h[i - 1] \o v[i]
  BY <1>1, <1>2, <1>4, <1>5 DEF Accumulates
<1> DEFINE f == [i \in 0 .. m + n |-> IF i <= m THEN g[i] ELSE x \o h[i - m]]
<1>8. \A i \in 0 .. m : f[i] = g[i]
  OBVIOUS
<1>9. \A i \in 0 .. n : x \o h[i] \in Seq(A) /\ f[m + i] = x \o h[i]
  <2> TAKE i \in 0 .. n
  <2>1. x \o h[i] \in Seq(A)
    BY <1>7, ConcatProperties
  <2>2. CASE i = 0
    <3>1. x \o h[0] = x
      BY <1>7, ConcatEmptySeq
    <3>2. f[m + 0] = g[m]
      BY <1>8
    <3> QED
      BY <1>4, <1>6, <2>1, <2>2, <3>1, <3>2
  <2>3. CASE i # 0
    <3>1. m + i \in 0 .. m + n /\ ~(m + i <= m) /\ (m + i) - m = i
      BY <2>3
    <3> QED
      BY <2>1, <3>1
  <2> QED
    BY <2>2, <2>3
<1>10. \A i \in 0 .. m + n : f[i] \in Seq(A)
  <2> TAKE i \in 0 .. m + n
  <2>1. CASE i <= m
    <3>1. i \in 0 .. m
      BY <2>1
    <3> QED
      BY <1>7, <1>8, <3>1
  <2>2. CASE ~(i <= m)
    <3>1. PICK k \in 0 .. n : i = m + k
      <4>1. i - m \in 0 .. n /\ i = m + (i - m)
        BY <2>2
      <4> QED
        BY <4>1
    <3> QED
      BY <1>9, <3>1
  <2> QED
    BY <2>1, <2>2
<1>11. f \in [0 .. m + n -> Seq(A)]
  BY <1>10
<1> HIDE DEF f
<1>12. ASSUME NEW i \in 1 .. m + n PROVE f[i] = f[i - 1] \o c[i]
  <2>1. CASE i <= m
    <3>1. i \in 1 .. m /\ i \in 0 .. m /\ i - 1 \in 0 .. m
      BY <2>1
    <3> QED
      BY <1>3, <1>7, <1>8, <3>1
  <2>2. CASE ~(i <= m)
    <3>1. PICK k \in 1 .. n : i = m + k
      <4>1. i - m \in 1 .. n /\ i = m + (i - m)
        BY <2>2
      <4> QED
        BY <4>1
    <3>2. PICK l \in 0 .. n : l = k - 1
      OBVIOUS
    <3>3. i - 1 = m + l /\ k \in 0 .. n
      BY <3>1, <3>2
    <3>4. f[i] = x \o h[k] /\ f[i - 1] = x \o h[l] /\ c[i] = v[k]
      BY <1>3, <1>9, <3>1, <3>3
    <3>5. h[k] = h[l] \o v[k]
      BY <1>7, <3>2
    <3>6. h[l] \in Seq(A) /\ v[k] \in Seq(A)
      BY <1>2, <1>7
    <3>7. x \o (h[l] \o v[k]) = (x \o h[l]) \o v[k]
      <4>1. PICK y \in Seq(A) : y = h[l]
        BY <3>6
      <4>2. PICK z \in Seq(A) : z = v[k]
        BY <3>6
      <4>3. (x \o y) \o z = x \o (y \o z)
        BY ONLY x \in Seq(A), y \in Seq(A), z \in Seq(A), ConcatAssociative
      <4> QED
        BY <4>1, <4>2, <4>3
    <3> QED
      BY <3>4, <3>5, <3>7
  <2> QED
    BY <2>1, <2>2
<1>13. Accumulates(f, c, A)
  <2>1. f[0] = <<>>
    BY <1>7, <1>8
  <2> QED
    BY <1>3, <1>11, <1>12, <2>1 DEF Accumulates
<1>14. f[Len(c)] = FlattenSeq(c)
  <2>1. c \in Seq(Seq(A))
    BY <1>3
  <2> QED
    BY ONLY <1>13, <2>1, FlattenTo
<1>15. f[m + n] = x \o h[n]
  <2>1. n \in 0 .. n
    OBVIOUS
  <2> QED
    BY <1>9, <2>1
<1> QED
  BY <1>3, <1>5, <1>6, <1>14, <1>15

(* To put together twice is to put the parts together first. *)
LEMMA FlattenFlatten ==
    ASSUME NEW A, NEW b \in Seq(Seq(Seq(A))), NEW e \in Seq(Seq(A)), Len(e) = Len(b),
           \A i \in 1 .. Len(b) : e[i] = FlattenSeq(b[i])
    PROVE  FlattenSeq(FlattenSeq(b)) = FlattenSeq(e)
<1> DEFINE T == Seq(A)
<1>1. PICK N \in Nat : N = Len(b)
  OBVIOUS
<1>2. PICK G : Accumulates(G, b, T) /\ G[N] = FlattenSeq(b)
  <2>1. b \in Seq(Seq(T))
    OBVIOUS
  <2> HIDE DEF T
  <2>2. \E G : Accumulates(G, b, T) /\ G[Len(b)] = FlattenSeq(b)
    BY ONLY <2>1, FlattenBy
  <2> QED
    BY <1>1, <2>2
<1>3. /\ \A n \in 0 .. N : G[n] \in Seq(T)
      /\ G[0] = <<>>
      /\ \A n \in 1 .. N : G[n] = G[n - 1] \o b[n]
  BY <1>1, <1>2 DEF Accumulates
<1>4. \A n \in 1 .. N : b[n] \in Seq(T)
  BY <1>1
<1> DEFINE g == [n \in 0 .. N |-> FlattenSeq(G[n])]
<1>5. \A n \in 0 .. N : g[n] = FlattenSeq(G[n]) /\ g[n] \in Seq(A)
  <2> TAKE n \in 0 .. N
  <2>1. PICK x \in Seq(Seq(A)) : x = G[n]
    BY <1>3
  <2>2. FlattenSeq(x) \in Seq(A)
    BY FlattenIs
  <2> QED
    BY <2>1, <2>2
<1>6. g \in [0 .. N -> Seq(A)]
  BY <1>5
<1> HIDE DEF g
<1>7. g[0] = <<>>
  BY <1>3, <1>5, FlattenEmpty
<1>8. ASSUME NEW n \in 1 .. N PROVE g[n] = g[n - 1] \o e[n]
  <2>1. PICK l \in 0 .. N : l = n - 1
    OBVIOUS
  <2>2. PICK x \in Seq(Seq(A)) : x = G[l]
    BY <1>3
  <2>3. PICK y \in Seq(Seq(A)) : y = b[n]
    BY <1>4
  <2>4. PICK z : z = G[n]
    OBVIOUS
  <2>5. z = x \o y
    BY <1>3, <2>1, <2>2, <2>3, <2>4
  <2>6. FlattenSeq(z) = FlattenSeq(x) \o FlattenSeq(y)
    BY ONLY <2>5, x \in Seq(Seq(A)), y \in Seq(Seq(A)), FlattenConcat
  <2>7. e[n] = FlattenSeq(y)
    BY <1>1, <2>3
  <2>8. g[l] = FlattenSeq(x) /\ g[n] = FlattenSeq(z)
    BY <1>5, <2>2, <2>4
  <2> QED
    BY <2>1, <2>6, <2>7, <2>8
<1>9. Accumulates(g, e, A)
  BY <1>1, <1>6, <1>7, <1>8 DEF Accumulates
<1>10. g[Len(e)] = FlattenSeq(e)
  BY ONLY <1>9, e \in Seq(Seq(A)), FlattenTo
<1>11. g[N] = FlattenSeq(G[N])
  BY <1>5
<1> QED
  BY <1>1, <1>2, <1>10, <1>11
=============================================================================
