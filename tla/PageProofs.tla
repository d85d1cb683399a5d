----------------------------- MODULE PageProofs -----------------------------
(***************************************************************************)
(* Pages of the console that show lists and figures, for every value of    *)
(* the constants: the pickers show what is stored, the rows are the tree   *)
(* of the keys, the history drawer tells what changed between two          *)
(* versions, and the figures of the Maintenance and Metrics pages are      *)
(* those of the samples.                                                   *)
(***************************************************************************)
EXTENDS Console, SequenceTheorems, FiniteSetTheorems,
        WellFoundedInduction, TLAPS

----------------------------------------------------------------------------
(***************************************************************************)
(* Numbers: a set of them that is not empty has a least one.  It stands in *)
(* for induction.                                                          *)
(***************************************************************************)
LEMMA LeastExists ==
  ASSUME NEW S \in SUBSET Nat, S # {}
  PROVE  \E x \in S: \A y \in S: x <= y
<1> DEFINE R == OpToRel(<, Nat)
<1>1. \E x \in S: \A y \in S: <<y, x>> \notin R
  BY WFMin, NatLessThanWellFounded
<1>2. \A x, y \in Nat: y < x => <<y, x>> \in R
  BY DEF OpToRel
<1> HIDE DEF R
<1>3. PICK x \in S: \A y \in S: <<y, x>> \notin R
  BY <1>1, Zenon
<1>4. \A y \in S: ~(y < x)
  BY <1>2, <1>3, Zenon
<1>5. \A y \in S: x <= y
  BY <1>4
<1> QED
  BY <1>5

\* A page stays the one that is mounted.
LEMMA RouteStays == [ConsoleNext]_consoleVars => route' = route
BY DEF ConsoleNext, KeyPages, OtherPages, FormPages, Cards, Widgets, consoleVars

----------------------------------------------------------------------------
(***************************************************************************)
(* Orders.  Where each member of a finite set that is ordered has so many  *)
(* before it, the members can be taken by that number; so the numbers of a *)
(* set in their order, and the entries of a sequence that are in a set.    *)
(***************************************************************************)
\* An order of a set, the number of members that each has before it, and what that
\* is of a finite set: as many members as there are numbers, each with its own.
Ordered(S, R) ==
  /\ \A x \in S: <<x, x>> \notin R
  /\ \A x, y, z \in S: <<x, y>> \in R /\ <<y, z>> \in R => <<x, z>> \in R
  /\ \A x, y \in S: x = y \/ <<x, y>> \in R \/ <<y, x>> \in R

Rank(S, R) == [x \in S |-> Cardinality({y \in S : <<y, x>> \in R})]

Ranked(S, R, n, rank) ==
  /\ n \in Nat /\ \A x \in S: rank[x] \in 0..(n - 1)
  /\ \A z \in 1..n: \E x \in S: rank[x] = z - 1
  /\ \A x, y \in S: <<x, y>> \in R => rank[x] < rank[y]
  /\ \A x, y \in S: rank[x] = rank[y] => x = y

LEMMA RankOK ==
  ASSUME NEW S, IsFiniteSet(S), NEW R, Ordered(S, R)
  PROVE  Ranked(S, R, Cardinality(S), Rank(S, R))
<1> DEFINE rank == Rank(S, R)
<1> DEFINE n == Cardinality(S)
           Fewer(x) == {y \in S : <<y, x>> \in R}
<1>1. n \in Nat
  BY FS_CardinalityType
<1>2. ASSUME NEW x \in S PROVE IsFiniteSet(Fewer(x)) /\ Cardinality(Fewer(x)) \in 0..(n - 1)
  <2>1. Fewer(x) \in SUBSET (S \ {x})
    BY DEF Ordered
  <2>2. IsFiniteSet(S \ {x}) /\ Cardinality(S \ {x}) = n - 1
    BY FS_RemoveElement
  <2> HIDE DEF Fewer
  <2>3. IsFiniteSet(Fewer(x)) /\ Cardinality(Fewer(x)) <= n - 1
    BY <2>1, <2>2, FS_Subset
  <2>4. Cardinality(Fewer(x)) \in Nat
    BY <2>3, FS_CardinalityType
  <2> QED
    BY <1>1, <2>3, <2>4
<1>3. rank = [x \in S |-> Cardinality(Fewer(x))] /\ \A x \in S: rank[x] = Cardinality(Fewer(x))
  BY DEF Rank
<1> HIDE DEF rank
<1>4. \A x \in S: rank[x] \in 0..(n - 1)
  BY <1>2, <1>3
<1>5. ASSUME NEW x \in S, NEW y \in S, <<x, y>> \in R PROVE rank[x] < rank[y]
  <2>1. x \in Fewer(y) /\ x \notin Fewer(x)
    BY <1>5 DEF Ordered
  <2>2. Fewer(x) \in SUBSET Fewer(y)
    BY <1>5 DEF Ordered
  <2> HIDE DEF Fewer
  <2>3. IsFiniteSet(Fewer(y))
    BY <1>2
  <2>4. /\ Cardinality(Fewer(x)) <= Cardinality(Fewer(y))
        /\ Cardinality(Fewer(x)) # Cardinality(Fewer(y))
    BY <2>1, <2>2, <2>3, FS_Subset
  <2>5. PICK a \in Nat, b \in Nat: a = Cardinality(Fewer(x)) /\ b = Cardinality(Fewer(y))
    BY <1>2
  <2> QED
    BY <1>3, <2>4, <2>5
<1>6. ASSUME NEW x \in S, NEW y \in S, rank[x] = rank[y] PROVE x = y
  <2>1. rank[x] \in 0..(n - 1) /\ rank[y] \in 0..(n - 1)
    BY <1>4
  <2>2. ~(<<x, y>> \in R) /\ ~(<<y, x>> \in R)
    BY <1>5, <1>6, <2>1
  <2> QED
    BY <2>2 DEF Ordered
<1>7. rank \in [S -> 0..(n - 1)] /\ DOMAIN rank = S
  BY <1>3, <1>4
<1> HIDE DEF Fewer
<1>8. ASSUME NEW z \in 1..n PROVE \E x \in S: rank[x] = z - 1
  <2>1. rank \in Injection(S, 0..(n - 1))
    BY <1>6, <1>7, Zenon DEF Injection, IsInjective
  <2>2. IsFiniteSet(0..(n - 1)) /\ Cardinality(0..(n - 1)) = n
    <3>1. 0 \in Int /\ n - 1 \in Int
      BY <1>1
    <3>2. /\ IsFiniteSet(0..(n - 1))
          /\ Cardinality(0..(n - 1)) = IF 0 > n - 1 THEN 0 ELSE (n - 1) - 0 + 1
      BY <3>1, FS_Interval
    <3> QED
      BY <1>1, <3>2
  <2>3. rank \in Surjection(S, 0..(n - 1))
    BY <2>1, <2>2, FS_Injection
  <2>4. z - 1 \in 0..(n - 1)
    BY <1>1
  <2> QED
    BY <2>3, <2>4 DEF Surjection
<1> HIDE DEF n
<1>9. /\ n \in Nat /\ \A x \in S: rank[x] \in 0..(n - 1)
      /\ \A z \in 1..n: \E x \in S: rank[x] = z - 1
  BY <1>1, <1>4, <1>8
<1> QED
  BY <1>5, <1>6, <1>9 DEF n, rank, Ranked

LEMMA AscendingOK ==
  ASSUME NEW S \in SUBSET Int, IsFiniteSet(S)
  PROVE  LET n == Cardinality(S)
             all == Ascending(S)
         IN /\ n \in Nat /\ all \in [1..n -> S]
            /\ \A x \in S: \E z \in 1..n: all[z] = x
            /\ \A y, z \in 1..n: y < z => all[y] < all[z]
<1> DEFINE n == Cardinality(S)
           R == {p \in S \X S : p[1] < p[2]}
           rank == Rank(S, R)
           At(z) == CHOOSE i \in S: Cardinality({j \in S : j < i}) = z - 1
<1>1. \A x, y \in S: <<x, y>> \in R <=> x < y
  OBVIOUS
<1>2. \A x \in S: {y \in S : <<y, x>> \in R} = {j \in S : j < x}
  BY <1>1
<1>3. \A x \in S: rank[x] = Cardinality({j \in S : j < x})
  BY <1>2 DEF Rank
<1>4. \A x \in S: <<x, x>> \notin R
  BY <1>1
<1>5. \A x, y, z \in S: <<x, y>> \in R /\ <<y, z>> \in R => <<x, z>> \in R
  BY <1>1
<1>6. \A x, y \in S: x = y \/ <<x, y>> \in R \/ <<y, x>> \in R
  <2> HIDE DEF R
  <2> TAKE x, y \in S
  <2>1. x \in Int /\ y \in Int
    OBVIOUS
  <2>2. x = y \/ x < y \/ y < x
    BY <2>1
  <2> QED
    BY <1>1, <2>2
<1> HIDE DEF R, rank
<1>7. /\ n \in Nat /\ \A x \in S: rank[x] \in 0..(n - 1)
      /\ \A z \in 1..n: \E x \in S: rank[x] = z - 1
      /\ \A x, y \in S: <<x, y>> \in R => rank[x] < rank[y]
      /\ \A x, y \in S: rank[x] = rank[y] => x = y
  <2>1. Ordered(S, R)
    BY <1>4, <1>5, <1>6, Zenon DEF Ordered
  <2>2. Ranked(S, R, n, rank)
    BY <2>1, RankOK DEF rank
  <2> QED
    BY <2>2, Zenon DEF Ranked
<1> HIDE DEF n
<1>8. Ascending(S) = [z \in 1..n |-> At(z)]
  BY Zenon DEF Ascending, n
<1>9. ASSUME NEW z \in 1..n PROVE At(z) \in S /\ rank[At(z)] = z - 1
  <2>1. \E i \in S: Cardinality({j \in S : j < i}) = z - 1
    BY <1>3, <1>7
  <2>2. At(z) \in S /\ Cardinality({j \in S : j < At(z)}) = z - 1
    BY <2>1
  <2> QED
    BY <1>3, <2>2
<1> HIDE DEF At
<1> DEFINE all == Ascending(S)
<1>10. all \in [1..n -> S] /\ \A z \in 1..n: all[z] \in S /\ rank[all[z]] = z - 1
  BY <1>8, <1>9
<1> HIDE DEF all
<1>11. ASSUME NEW x \in S PROVE \E z \in 1..n: all[z] = x
  <2>1. PICK z \in 1..n: rank[x] = z - 1
    <3>1. PICK c \in 0..(n - 1): c = rank[x]
      BY <1>7
    <3>2. c + 1 \in 1..n /\ c = (c + 1) - 1
      BY <1>7
    <3> QED
      BY <3>1, <3>2
  <2>2. all[z] \in S /\ rank[all[z]] = rank[x]
    BY <1>10, <2>1
  <2> QED
    BY <1>7, <2>2
<1>12. ASSUME NEW y \in 1..n, NEW z \in 1..n, y < z PROVE all[y] < all[z]
  <2>1. /\ all[y] \in S /\ all[z] \in S
        /\ rank[all[y]] = y - 1 /\ rank[all[z]] = z - 1
    BY <1>10
  <2>2. CASE all[y] < all[z]
    BY <2>2
  <2>3. CASE all[z] < all[y]
    <3>1. <<all[z], all[y]>> \in R
      BY <1>1, <2>1, <2>3
    <3>2. rank[all[z]] < rank[all[y]]
      BY <1>7, <2>1, <3>1
    <3>3. z - 1 < y - 1
      BY <2>1, <3>2
    <3> QED
      BY <1>12, <3>3
  <2>4. CASE all[y] = all[z]
    BY <1>12, <2>1, <2>4
  <2>5. PICK a \in Int, b \in Int: a = all[y] /\ b = all[z]
    BY <2>1
  <2>6. a < b \/ b < a \/ a = b
    OBVIOUS
  <2> QED
    BY <2>2, <2>3, <2>4, <2>5, <2>6
<1> QED
  BY <1>7, <1>10, <1>11, <1>12 DEF n, all

\* The highest of some numbers.
LEMMA MaxOK ==
  ASSUME NEW S \in SUBSET Int, IsFiniteSet(S), S # {}
  PROVE  Max(S) \in S /\ \A x \in S: x <= Max(S)
<1> DEFINE n == Cardinality(S)
           all == Ascending(S)
<1>1. /\ n \in Nat /\ all \in [1..n -> S]
      /\ \A x \in S: \E z \in 1..n: all[z] = x
      /\ \A y, z \in 1..n: y < z => all[y] < all[z]
  BY AscendingOK
<1> HIDE DEF all, n
<1>2. n \in 1..n
  <2>1. PICK x: x \in S
    OBVIOUS
  <2>2. \E z \in 1..n: all[z] = x
    BY <1>1, <2>1
  <2> QED
    BY <1>1, <2>2
<1>3. \A x \in S: x <= all[n]
  <2> TAKE x \in S
  <2>1. PICK z \in 1..n: all[z] = x
    BY <1>1
  <2>2. z = n \/ z < n
    BY <1>1
  <2>3. all[z] \in Int /\ all[n] \in Int
    BY <1>1, <1>2
  <2> QED
    BY <1>1, <1>2, <2>1, <2>2, <2>3
<1>4. \E x \in S: \A y \in S: x >= y
  <2>1. all[n] \in S
    BY <1>1, <1>2
  <2>2. \A y \in S: all[n] >= y
    BY <1>3, <2>1
  <2> QED
    BY <2>1, <2>2
<1>5. Max(S) \in S /\ \A y \in S: Max(S) >= y
  BY <1>4, Zenon DEF Max
<1> QED
  BY <1>5

LEMMA MaxMinOfTwo ==
  ASSUME NEW a \in Int, NEW b \in Int
  PROVE  /\ Max({a, b}) = (IF a < b THEN b ELSE a)
         /\ Min({a, b}) = (IF a < b THEN a ELSE b)
<1>1. \E x \in {a, b}: \A y \in {a, b}: x >= y
  OBVIOUS
<1>2. \E x \in {a, b}: \A y \in {a, b}: x =< y
  OBVIOUS
<1>3. Max({a, b}) \in {a, b} /\ \A y \in {a, b}: Max({a, b}) >= y
  BY <1>1, Zenon DEF Max
<1>4. Min({a, b}) \in {a, b} /\ \A y \in {a, b}: Min({a, b}) =< y
  BY <1>2, Zenon DEF Min
<1> QED
  BY <1>3, <1>4

\* Entries i of one sequence that are entries at[i] of another, in their order.
Picked(part, seq, at) ==
  /\ at \in [1..Len(part) -> 1..Len(seq)]
  /\ \A i \in 1..Len(part): part[i] = seq[at[i]]
  /\ \A i, j \in 1..Len(part): i < j => at[i] < at[j]

Selected(part, seq, set) ==
  /\ \E at: Picked(part, seq, at)
  /\ \A i \in 1..Len(part): part[i] \in set
  /\ \A i \in 1..Len(seq): seq[i] \in set => \E j \in 1..Len(part): part[j] = seq[i]

LEMMA OnlyOK ==
  ASSUME NEW T, NEW seq \in Seq(T), NEW set
  PROVE  Only(seq, set) \in Seq(T) /\ Selected(Only(seq, set), seq, set)
<1> DEFINE S == {i \in 1..Len(seq) : seq[i] \in set}
           n == Cardinality(S)
           at == Ascending(S)
           part == Only(seq, set)
<1>1. S \in SUBSET (1..Len(seq)) /\ S \in SUBSET Int /\ Len(seq) \in Nat
  OBVIOUS
<1>2. IsFiniteSet(S)
  <2>1. IsFiniteSet(1..Len(seq))
    <3>1. 1 \in Int /\ Len(seq) \in Int
      OBVIOUS
    <3> QED
      BY <3>1, FS_Interval
  <2> HIDE DEF S
  <2> QED
    BY <1>1, <2>1, FS_Subset
<1>3. /\ n \in Nat /\ at \in [1..n -> S]
      /\ \A x \in S: \E z \in 1..n: at[z] = x
      /\ \A y, z \in 1..n: y < z => at[y] < at[z]
  <2> HIDE DEF S
  <2> QED
    BY <1>1, <1>2, AscendingOK
<1>4. part = [i \in DOMAIN at |-> seq[at[i]]]
  BY DEF Only
<1>5. \A i \in S: seq[i] \in T /\ seq[i] \in set
  OBVIOUS
<1>6. \A i \in 1..Len(seq): seq[i] \in set => i \in S
  OBVIOUS
<1> HIDE DEF at, n, S
<1>7. DOMAIN at = 1..n
  BY <1>3
<1>8. part = [i \in 1..n |-> seq[at[i]]]
  BY <1>4, <1>7
<1> HIDE DEF part
<1>9. /\ part \in [1..n -> T]
      /\ \A i \in 1..n: at[i] \in S /\ part[i] = seq[at[i]] /\ part[i] \in set
  BY <1>3, <1>5, <1>8
<1>10. part \in Seq(T) /\ Len(part) = n
  <2>1. part \in Seq(T)
    BY <1>3, <1>9, SeqDef, Zenon
  <2>2. DOMAIN part = 1..n
    BY <1>9
  <2> QED
    BY <1>3, <2>1, <2>2, LenProperties
<1>11. Picked(part, seq, at)
  <2>1. at \in [1..n -> 1..Len(seq)]
    BY <1>1, <1>3
  <2> QED
    BY <1>3, <1>9, <1>10, <2>1 DEF Picked
<1>12. ASSUME NEW i \in 1..Len(seq), seq[i] \in set PROVE \E j \in 1..n: part[j] = seq[i]
  BY <1>3, <1>6, <1>9, <1>12
<1> QED
  BY <1>9, <1>10, <1>11, <1>12 DEF part, Selected

LEMMA RemoveAtOK ==
  ASSUME NEW S, NEW s \in Seq(S), NEW i \in 1..Len(s)
  PROVE  LET r == RemoveAt(s, i) IN
           /\ r \in Seq(S) /\ Len(r) = Len(s) - 1
           /\ \A k \in 1..(Len(s) - 1): r[k] = IF k < i THEN s[k] ELSE s[k + 1]
<1> DEFINE a == SubSeq(s, 1, i - 1)
           b == SubSeq(s, i + 1, Len(s))
<1>1. /\ i \in Int /\ Len(s) \in Int /\ Len(s) \in Nat /\ i - 1 \in Int /\ i + 1 \in Int
      /\ 1 \in Int /\ i >= 1 /\ i <= Len(s)
  OBVIOUS
<1>2. (\A k \in 1..i - 1: s[k] \in S) /\ (\A k \in i + 1..Len(s): s[k] \in S)
  OBVIOUS
<1>3. /\ a \in Seq(S) /\ Len(a) = i - 1 /\ \A k \in 1..(i - 1): a[k] = s[k]
  <2>1. /\ a \in Seq(S) /\ Len(a) = (IF 1 <= i - 1 THEN i - 1 - 1 + 1 ELSE 0)
        /\ \A k \in 1..(i - 1 - 1 + 1): a[k] = s[1 + k - 1]
    BY <1>1, <1>2, SubSeqProperties
  <2> HIDE DEF a
  <2> QED
    BY <1>1, <2>1
<1>4. /\ b \in Seq(S) /\ Len(b) = Len(s) - i /\ \A k \in 1..(Len(s) - i): b[k] = s[i + k]
  <2>1. /\ b \in Seq(S) /\ Len(b) = (IF i + 1 <= Len(s) THEN Len(s) - (i + 1) + 1 ELSE 0)
        /\ \A k \in 1..(Len(s) - (i + 1) + 1): b[k] = s[(i + 1) + k - 1]
    BY <1>1, <1>2, SubSeqProperties
  <2> HIDE DEF b
  <2>2. Len(b) = Len(s) - i
    BY <1>1, <2>1
  <2>3. ASSUME NEW k \in 1..(Len(s) - i) PROVE b[k] = s[i + k]
    <3>1. k \in 1..(Len(s) - (i + 1) + 1) /\ (i + 1) + k - 1 = i + k
      BY <1>1
    <3>2. b[k] = s[(i + 1) + k - 1]
      BY <2>1, <3>1
    <3> QED
      BY <3>1, <3>2
  <2> QED
    BY <2>1, <2>2, <2>3
<1>5. RemoveAt(s, i) = a \o b
  BY DEF RemoveAt
<1> HIDE DEF a, b
<1>6. /\ a \o b \in Seq(S) /\ Len(a \o b) = Len(a) + Len(b)
      /\ \A k \in 1..(Len(a) + Len(b)): (a \o b)[k] = IF k <= Len(a) THEN a[k] ELSE b[k - Len(a)]
  BY <1>3, <1>4, ConcatProperties
<1>7. Len(a) + Len(b) = Len(s) - 1
  BY <1>1, <1>3, <1>4
<1>8. ASSUME NEW k \in 1..(Len(s) - 1)
      PROVE  (a \o b)[k] = IF k < i THEN s[k] ELSE s[k + 1]
  <2>1. CASE k < i
    <3>1. k \in 1..(i - 1) /\ k <= Len(a)
      BY <1>1, <1>3, <2>1
    <3> QED
      BY <1>3, <1>6, <1>7, <2>1, <3>1
  <2>2. CASE ~(k < i)
    <3> DEFINE l == k - (i - 1)
    <3>1. l \in 1..(Len(s) - i) /\ ~(k <= i - 1) /\ i + l = k + 1
      BY <1>1, <2>2
    <3>2. (a \o b)[k] = b[l]
      BY <1>3, <1>6, <1>7, <3>1
    <3> HIDE DEF l
    <3>3. b[l] = s[k + 1]
      BY <1>4, <3>1
    <3> QED
      BY <2>2, <3>2, <3>3
  <2> QED
    BY <2>1, <2>2
<1> QED
  BY <1>5, <1>6, <1>7, <1>8

Inserted(r, s, i, e) ==
  /\ Len(r) = Len(s) + 1
  /\ \A k \in 1..(Len(s) + 1):
       r[k] = IF k < i THEN s[k] ELSE IF k = i THEN e ELSE s[k - 1]

LEMMA InsertAtOK ==
  ASSUME NEW S, NEW s \in Seq(S), NEW e \in S, NEW i \in 1..(Len(s) + 1)
  PROVE  InsertAt(s, i, e) \in Seq(S) /\ Inserted(InsertAt(s, i, e), s, i, e)
<1> DEFINE a == SubSeq(s, 1, i - 1)
           b == SubSeq(s, i, Len(s))
           c == a \o <<e>>
<1>1. /\ i \in Int /\ Len(s) \in Int /\ Len(s) \in Nat /\ i - 1 \in Int
      /\ 1 \in Int /\ i >= 1 /\ i <= Len(s) + 1
  OBVIOUS
<1>2. (\A k \in 1..i - 1: s[k] \in S) /\ (\A k \in i..Len(s): s[k] \in S)
  OBVIOUS
<1>3. /\ a \in Seq(S) /\ Len(a) = i - 1 /\ \A k \in 1..(i - 1): a[k] = s[k]
  <2>1. /\ a \in Seq(S) /\ Len(a) = (IF 1 <= i - 1 THEN i - 1 - 1 + 1 ELSE 0)
        /\ \A k \in 1..(i - 1 - 1 + 1): a[k] = s[1 + k - 1]
    BY <1>1, <1>2, SubSeqProperties
  <2> HIDE DEF a
  <2> QED
    BY <1>1, <2>1
<1>4. /\ b \in Seq(S) /\ Len(b) = Len(s) - i + 1
      /\ \A k \in 1..(Len(s) - i + 1): b[k] = s[i + k - 1]
  <2>1. /\ b \in Seq(S) /\ Len(b) = (IF i <= Len(s) THEN Len(s) - i + 1 ELSE 0)
        /\ \A k \in 1..(Len(s) - i + 1): b[k] = s[i + k - 1]
    BY <1>1, <1>2, SubSeqProperties
  <2> HIDE DEF b
  <2> QED
    BY <1>1, <2>1
<1>5. InsertAt(s, i, e) = c \o b
  BY DEF InsertAt
<1> HIDE DEF a, b
<1>6. /\ c \in Seq(S) /\ Len(c) = i /\ c[i] = e /\ \A k \in 1..(i - 1): c[k] = a[k]
  <2>1. <<e>> \in Seq(S) /\ Len(<<e>>) = 1 /\ <<e>>[1] = e
    OBVIOUS
  <2>2. /\ c \in Seq(S) /\ Len(c) = Len(a) + Len(<<e>>)
        /\ \A k \in 1..(Len(a) + Len(<<e>>)): c[k] = IF k <= Len(a) THEN a[k] ELSE <<e>>[k - Len(a)]
    BY <1>3, <2>1, ConcatProperties
  <2>3. Len(a) + Len(<<e>>) = i
    BY <1>1, <1>3, <2>1
  <2> HIDE DEF c
  <2>4. i \in 1..i /\ ~(i <= i - 1) /\ i - (i - 1) = 1
    BY <1>1
  <2>5. c[i] = e
    BY <1>3, <2>1, <2>2, <2>3, <2>4
  <2>6. ASSUME NEW k \in 1..(i - 1) PROVE c[k] = a[k]
    <3>1. k \in 1..i /\ k <= i - 1
      BY <1>1
    <3> QED
      BY <1>3, <2>2, <2>3, <3>1
  <2> QED
    BY <2>2, <2>3, <2>5, <2>6
<1> HIDE DEF c
<1>7. /\ c \o b \in Seq(S) /\ Len(c \o b) = Len(c) + Len(b)
      /\ \A k \in 1..(Len(c) + Len(b)): (c \o b)[k] = IF k <= Len(c) THEN c[k] ELSE b[k - Len(c)]
  BY <1>4, <1>6, ConcatProperties
<1>8. Len(c) + Len(b) = Len(s) + 1
  BY <1>1, <1>4, <1>6
<1>9. ASSUME NEW k \in 1..(Len(s) + 1)
      PROVE  (c \o b)[k] = IF k < i THEN s[k] ELSE IF k = i THEN e ELSE s[k - 1]
  <2>1. CASE k < i
    <3>1. k \in 1..(i - 1) /\ k <= i
      BY <1>1, <2>1
    <3> QED
      BY <1>3, <1>6, <1>7, <1>8, <2>1, <3>1
  <2>2. CASE k = i
    BY <1>1, <1>6, <1>7, <1>8, <2>2
  <2>3. CASE i < k
    <3>1. k - i \in 1..(Len(s) - i + 1) /\ ~(k <= i) /\ i + (k - i) - 1 = k - 1
      BY <1>1, <2>3
    <3> QED
      BY <1>4, <1>6, <1>7, <1>8, <2>3, <3>1
  <2>4. k < i \/ k = i \/ i < k
    BY <1>1
  <2> QED
    BY <2>1, <2>2, <2>3, <2>4
<1> QED
  BY <1>5, <1>7, <1>8, <1>9 DEF Inserted

----------------------------------------------------------------------------
(***************************************************************************)
(* The pickers.  A cluster is pinned once, since only what is not pinned is *)
(* added and a drop moves an entry or puts one in that is no cluster; names *)
(* of views differ; the limit stays below the highest.                     *)
(***************************************************************************)
PkId == ToSet(PkCluster) \cup {"undefined"}
PkView == [name: ViewName, query: {""} \cup ViewName]

PinsOnce(pins) ==
  \A i, j \in 1..Len(pins): pins[i] = pins[j] /\ pins[i] # "undefined" => i = j
NamesOnce(views) ==
  \A i, j \in 1..Len(views): views[i].name = views[j].name => i = j

PickersInv ==
  /\ PickersTypeOK /\ PinsOnce(pkPins) /\ NamesOnce(pkViews) /\ pkLimit <= MaxLimit

SortedLists(sorted, data, pins) ==
  /\ NoRepeats(sorted) /\ ToSet(sorted) = data
  /\ \A i, j \in 1..Len(sorted):
       i < j /\ sorted[j] \in ToSet(pins) => sorted[i] \in ToSet(pins)

LEMMA ClustersOK ==
  /\ PkCluster \in Seq(PkId) /\ Len(PkCluster) \in Nat
  /\ ToSet(PkCluster) = {PkCluster[i] : i \in 1..Len(PkCluster)}
  /\ \A c \in ToSet(PkCluster): c \notin {"", "undefined"}
<1>1. PICK S: S = STRING \ {"", "undefined"}
  OBVIOUS
<1>2. PkCluster \in Seq(S)
  BY <1>1, PickersNames, Zenon
<1>8. \A c \in S: c \notin {"", "undefined"}
  BY <1>1, Zenon
<1>3. Len(PkCluster) \in Nat /\ DOMAIN PkCluster = 1..Len(PkCluster)
  BY <1>2
<1>4. ToSet(PkCluster) = {PkCluster[i] : i \in 1..Len(PkCluster)}
  BY <1>3 DEF ToSet
<1>5. PkCluster \in [1..Len(PkCluster) -> PkId]
  <2>1. PkCluster = [i \in 1..Len(PkCluster) |-> PkCluster[i]]
    BY <1>2
  <2>2. \A i \in 1..Len(PkCluster): PkCluster[i] \in PkId
    BY <1>4 DEF PkId
  <2> QED
    BY <2>1, <2>2
<1>6. PkCluster \in Seq(PkId)
  BY <1>3, <1>5, SeqDef, Zenon
<1>7. \A i \in 1..Len(PkCluster): PkCluster[i] \in S
  BY <1>2
<1> QED
  BY <1>3, <1>4, <1>6, <1>7, <1>8

LEMMA ToSetOK ==
  ASSUME NEW S, NEW s \in Seq(S)
  PROVE  \A x: x \in ToSet(s) <=> \E i \in 1..Len(s): s[i] = x
<1>1. DOMAIN s = 1..Len(s)
  OBVIOUS
<1> QED
  BY <1>1 DEF ToSet

LEMMA SortedOK ==
  ASSUME NEW data \in SUBSET ToSet(PkCluster), NEW pins \in Seq(PkId), PinsOnce(pins)
  PROVE  SortedLists(Sorted(data, pins), data, pins)
<1> DEFINE rest == data \ ToSet(pins)
           a == Only(pins, data)
           b == Only(PkCluster, rest)
           s == a \o b
<1>3. a \in Seq(PkId) /\ Selected(a, pins, data)
  BY OnlyOK
<1>4. b \in Seq(PkId) /\ Selected(b, PkCluster, rest)
  BY ClustersOK, OnlyOK
<1>5. Sorted(data, pins) = s
  BY DEF Sorted
<1> HIDE DEF a, b, rest
<1>1. PICK at: Picked(a, pins, at)
  BY <1>3 DEF Selected
<1>2. PICK bt: Picked(b, PkCluster, bt)
  BY <1>4 DEF Selected
<1>6. Len(a) \in Nat /\ Len(b) \in Nat
  BY <1>3, <1>4
<1>7. /\ s \in Seq(PkId) /\ Len(s) = Len(a) + Len(b)
      /\ \A i \in 1..(Len(a) + Len(b)): s[i] = IF i <= Len(a) THEN a[i] ELSE b[i - Len(a)]
  BY <1>3, <1>4, ConcatProperties
<1> HIDE DEF s
<1>8. ASSUME NEW i \in 1..Len(s)
      PROVE  /\ i <= Len(a) => /\ i \in 1..Len(a) /\ s[i] = a[i]
                               /\ s[i] \in data /\ s[i] \in ToSet(pins)
             /\ ~(i <= Len(a)) => /\ i - Len(a) \in 1..Len(b) /\ s[i] = b[i - Len(a)]
                                  /\ s[i] \in data /\ s[i] \notin ToSet(pins)
  <2>1. CASE i <= Len(a)
    <3>1. i \in 1..Len(a) /\ s[i] = a[i]
      BY <1>6, <1>7, <2>1
    <3>2. at[i] \in 1..Len(pins) /\ a[i] = pins[at[i]]
      BY <1>1, <3>1 DEF Picked
    <3>3. a[i] \in ToSet(pins)
      BY <3>2, ToSetOK
    <3> QED
      BY <1>3, <2>1, <3>1, <3>3 DEF Selected
  <2>2. CASE ~(i <= Len(a))
    <3>1. i - Len(a) \in 1..Len(b) /\ s[i] = b[i - Len(a)]
      BY <1>6, <1>7, <2>2
    <3>2. b[i - Len(a)] \in rest
      BY <1>4, <3>1 DEF Selected
    <3> QED
      BY <2>2, <3>1, <3>2 DEF rest
  <2> QED
    BY <2>1, <2>2
<1>9. ASSUME NEW i \in 1..Len(s), NEW j \in 1..Len(s), s[i] = s[j] PROVE i = j
  <2>1. CASE i <= Len(a)
    <3>1. j <= Len(a) /\ j \in 1..Len(a) /\ i \in 1..Len(a) /\ a[i] = a[j] /\ a[i] \in data
      BY <1>8, <1>9, <2>1
    <3>2. /\ at[i] \in 1..Len(pins) /\ at[j] \in 1..Len(pins)
          /\ pins[at[i]] = a[i] /\ pins[at[j]] = a[j]
      BY <1>1, <3>1 DEF Picked
    <3>3. a[i] # "undefined"
      BY <3>1, ClustersOK
    <3>4. at[i] = at[j]
      BY <3>1, <3>2, <3>3 DEF PinsOnce
    <3>5. ~(i < j) /\ ~(j < i)
      <4>1. i < j => at[i] < at[j]
        BY <1>1, <3>1 DEF Picked
      <4>2. j < i => at[j] < at[i]
        BY <1>1, <3>1 DEF Picked
      <4> QED
        BY <3>2, <3>4, <4>1, <4>2
    <3> QED
      BY <3>5
  <2>2. CASE ~(i <= Len(a))
    <3> DEFINE k == i - Len(a)
               l == j - Len(a)
    <3>1. k \in 1..Len(b) /\ l \in 1..Len(b) /\ b[k] = b[l]
      BY <1>8, <1>9, <2>2
    <3> HIDE DEF k, l
    <3>2. /\ bt[k] \in 1..Len(PkCluster) /\ bt[l] \in 1..Len(PkCluster)
          /\ PkCluster[bt[k]] = b[k] /\ PkCluster[bt[l]] = b[l]
      BY <1>2, <3>1 DEF Picked
    <3>3. bt[k] = bt[l]
      BY <3>1, <3>2, PickersNames DEF NoRepeats
    <3>4. ~(k < l) /\ ~(l < k)
      <4>1. k < l => bt[k] < bt[l]
        BY <1>2, <3>1 DEF Picked
      <4>2. l < k => bt[l] < bt[k]
        BY <1>2, <3>1 DEF Picked
      <4> QED
        BY <3>2, <3>3, <4>1, <4>2
    <3>5. k = l
      BY <3>1, <3>4
    <3> QED
      BY <1>6, <3>5 DEF k, l
  <2> QED
    BY <2>1, <2>2
<1>10. ToSet(s) = data
  <2>1. ASSUME NEW x \in data PROVE \E i \in 1..Len(s): s[i] = x
    <3>1. CASE x \in ToSet(pins)
      <4>1. PICK i \in 1..Len(pins): pins[i] = x
        BY <3>1, ToSetOK
      <4>2. PICK j \in 1..Len(a): a[j] = x
        BY <1>3, <4>1 DEF Selected
      <4>3. j \in 1..Len(s) /\ j <= Len(a)
        BY <1>6, <1>7
      <4>4. s[j] = x
        BY <1>8, <4>2, <4>3
      <4> QED
        BY <4>3, <4>4
    <3>2. CASE x \notin ToSet(pins)
      <4>1. PICK i \in 1..Len(PkCluster): PkCluster[i] = x
        BY ClustersOK
      <4>2. PICK j \in 1..Len(b): b[j] = x
        BY <1>4, <3>2, <4>1 DEF rest, Selected
      <4> DEFINE k == Len(a) + j
      <4>3. k \in 1..Len(s) /\ ~(k <= Len(a)) /\ k - Len(a) = j
        BY <1>6, <1>7
      <4> HIDE DEF k
      <4>4. s[k] = x
        BY <1>8, <4>2, <4>3
      <4> QED
        BY <4>3, <4>4
    <3> QED
      BY <3>1, <3>2
  <2>2. \A i \in 1..Len(s): s[i] \in data
    BY <1>8
  <2>3. \A x: x \in ToSet(s) <=> \E i \in 1..Len(s): s[i] = x
    BY <1>7, ToSetOK
  <2>4. \A x: x \in ToSet(s) <=> x \in data
    BY <2>1, <2>2, <2>3
  <2> QED
    BY <2>4
<1>11. ASSUME NEW i \in 1..Len(s), NEW j \in 1..Len(s), i < j, s[j] \in ToSet(pins)
       PROVE  s[i] \in ToSet(pins)
  <2>1. j <= Len(a)
    BY <1>8, <1>11
  <2>2. i <= Len(a)
    BY <1>6, <1>11, <2>1
  <2> QED
    BY <1>8, <2>2
<1> QED
  BY <1>5, <1>9, <1>10, <1>11 DEF SortedLists, NoRepeats

\* The entries of one sequence in another order.
Permuted(m, seq) ==
  /\ Len(m) = Len(seq)
  /\ \E p \in [1..Len(seq) -> 1..Len(seq)]:
       /\ \A i, j \in 1..Len(seq): p[i] = p[j] => i = j
       /\ \A i \in 1..Len(seq): m[i] = seq[p[i]]

\* An entry is moved, or one that is none is put in.
LEMMA MovedOK ==
  ASSUME NEW S, NEW seq \in Seq(S), NEW none \in S, NEW to \in 1..Len(seq), NEW from \in Nat
  PROVE  LET m == Moved(seq, from, to, none) IN
           /\ m \in Seq(S)
           /\ from \in 1..Len(seq) => Permuted(m, seq)
           /\ from \notin 1..Len(seq) => Inserted(m, seq, to, none)
<1> DEFINE m == Moved(seq, from, to, none)
           n == Len(seq)
<1>1. n \in Nat
  OBVIOUS
<1>2. CASE from \in 1..n
  <2> DEFINE r == RemoveAt(seq, from)
             p == [i \in 1..n |-> IF i = to THEN from
                                  ELSE LET k == IF i < to THEN i ELSE i - 1
                                       IN IF k < from THEN k ELSE k + 1]
  <2>1. /\ r \in Seq(S) /\ Len(r) = n - 1
        /\ \A k \in 1..(n - 1): r[k] = IF k < from THEN seq[k] ELSE seq[k + 1]
    BY <1>2, RemoveAtOK
  <2>2. seq[from] \in S
    BY <1>2
  <2>3. m = InsertAt(r, to, seq[from])
    BY <1>2 DEF Moved
  <2> HIDE DEF r, m
  <2>4. Len(r) + 1 = n
    BY <1>1, <2>1
  <2>5. /\ m \in Seq(S) /\ Len(m) = n
        /\ \A k \in 1..n: m[k] = IF k < to THEN r[k] ELSE IF k = to THEN seq[from] ELSE r[k - 1]
    <3>1. to \in 1..(Len(r) + 1)
      BY <2>4
    <3>2. m \in Seq(S) /\ Inserted(m, r, to, seq[from])
      BY <2>1, <2>2, <2>3, <3>1, InsertAtOK
    <3> QED
      BY <2>4, <3>2 DEF Inserted
  <2>6. ASSUME NEW i \in 1..n
        PROVE  /\ p[i] \in 1..n /\ m[i] = seq[p[i]]
               /\ i = to => p[i] = from
               /\ i < to => p[i] = IF i < from THEN i ELSE i + 1
               /\ i > to => p[i] = IF i - 1 < from THEN i - 1 ELSE i
    <3>1. CASE i = to
      BY <1>2, <2>5, <3>1
    <3>2. CASE i < to
      <4>1. i \in 1..(n - 1) /\ i # to
        BY <1>1, <3>2
      <4>2. p[i] = IF i < from THEN i ELSE i + 1
        BY <3>2, <4>1
      <4>3. p[i] \in 1..n
        BY <1>1, <4>1, <4>2
      <4> HIDE DEF p
      <4> QED
        BY <2>1, <2>5, <3>2, <4>1, <4>2, <4>3
    <3>3. CASE i > to
      <4>1. i - 1 \in 1..(n - 1) /\ i # to /\ ~(i < to) /\ (i - 1) + 1 = i
        BY <1>1, <3>3
      <4>2. p[i] = IF i - 1 < from THEN i - 1 ELSE i
        BY <3>3, <4>1
      <4>3. p[i] \in 1..n
        BY <1>1, <4>1, <4>2
      <4> HIDE DEF p
      <4>4. m[i] = r[i - 1]
        BY <2>5, <4>1
      <4>5. r[i - 1] = IF i - 1 < from THEN seq[i - 1] ELSE seq[i]
        BY <2>1, <4>1
      <4> QED
        BY <3>3, <4>1, <4>2, <4>3, <4>4, <4>5
    <3> QED
      BY <3>1, <3>2, <3>3
  <2>7. p \in [1..n -> 1..n]
    BY <2>6
  <2> HIDE DEF p
  <2>8. ASSUME NEW i \in 1..n, NEW j \in 1..n, p[i] = p[j] PROVE i = j
    <3>1. from \in Int /\ to \in Int /\ i \in Int /\ j \in Int /\ n \in Int
      BY <1>1, <1>2
    <3>2. PICK x \in Int: x = p[i] /\ x = p[j]
      BY <2>6, <2>8
    <3>3. /\ i = to => x = from
          /\ i < to => x = IF i < from THEN i ELSE i + 1
          /\ i > to => x = IF i - 1 < from THEN i - 1 ELSE i
      BY <2>6, <3>2
    <3>4. /\ j = to => x = from
          /\ j < to => x = IF j < from THEN j ELSE j + 1
          /\ j > to => x = IF j - 1 < from THEN j - 1 ELSE j
      BY <2>6, <3>2
    <3> QED
      BY <3>1, <3>2, <3>3, <3>4
  <2> QED
    <3>1. \A i, j \in 1..n: p[i] = p[j] => i = j
      BY <2>8
    <3>2. \A i \in 1..n: m[i] = seq[p[i]]
      BY <2>6
    <3>3. Permuted(m, seq)
      BY <2>5, <2>7, <3>1, <3>2, Zenon DEF Permuted
    <3> QED
      BY <1>2, <2>5, <3>3 DEF m
<1>3. CASE from \notin 1..n
  <2>1. m = InsertAt(seq, to, none) /\ to \in 1..(Len(seq) + 1)
    BY <1>1, <1>3 DEF Moved
  <2>2. m \in Seq(S) /\ Inserted(m, seq, to, none)
    BY <2>1, InsertAtOK
  <2> QED
    BY <1>3, <2>2
<1> QED
  BY <1>2, <1>3

LEMMA PickersTypes ==
  PickersTypeOK <=>
    /\ pkData \in SUBSET ToSet(PkCluster) /\ pkSelected \in ToSet(PkCluster) \cup {""}
    /\ pkPins \in Seq(PkId) /\ Len(pkPins) <= MaxPins
    /\ pkViews \in Seq(PkView) /\ pkQuery \in {""} \cup ViewName
    /\ pkLimit \in Nat /\ pkMenu \in [open: BOOLEAN, cursor: Nat \ {0}]
    /\ pkCustom \in [on: BOOLEAN, typed: CustomLimit \cup {NoLimit}]
    /\ pkOpen \in BOOLEAN
    /\ pkWidth \in [state: MinWidth..MaxWidth, shown: MinWidth..MaxWidth,
                    stored: MinWidth..MaxWidth, current: MinWidth..MaxWidth, drag: BOOLEAN]
BY DEF PickersTypeOK, PkId, PkView

LEMMA OptionsOK ==
  /\ LimitOption \in SUBSET (Nat \ {0}) /\ IsFiniteSet(LimitOption)
  /\ LimitOption \in SUBSET Int /\ LimitOption # {} /\ FirstLimit \in LimitOption
  /\ MaxLimit \in LimitOption /\ MaxLimit \in Nat /\ MaxLimit >= 1
  /\ \A l \in LimitOption: l <= MaxLimit
<1>1. /\ LimitOption \in SUBSET (Nat \ {0}) /\ IsFiniteSet(LimitOption)
      /\ LimitOption \in SUBSET Int /\ LimitOption # {} /\ FirstLimit \in LimitOption
  BY PickersAssumption
<1>2. MaxLimit \in LimitOption /\ \A l \in LimitOption: l <= MaxLimit
  BY <1>1, MaxOK DEF MaxLimit
<1> QED
  BY <1>1, <1>2

\* The rows of the dropdown have every option, no limit, custom, and a limit of its
\* own once.
LEMMA ItemsOK ==
  ASSUME pkLimit \in Nat
  PROVE  /\ Items \in Seq(Int) /\ NoRepeats(Items)
         /\ \A i \in 1..Len(Items): Items[i] \in LimitOption \cup {0, NoLimit, pkLimit}
         /\ \E i \in 1..Len(Items): Items[i] = pkLimit
<1> DEFINE own == pkLimit > 0 /\ pkLimit \notin LimitOption
           a == IF own THEN <<pkLimit>> ELSE <<>>
           b == Ascending(LimitOption)
           c == <<0, NoLimit>>
           n == Cardinality(LimitOption)
           ab == a \o b
<1>1. /\ n \in Nat /\ b \in [1..n -> LimitOption]
      /\ \A x \in LimitOption: \E z \in 1..n: b[z] = x
      /\ \A y, z \in 1..n: y < z => b[y] < b[z]
  BY OptionsOK, AscendingOK
<1>2. /\ a \in Seq(Int) /\ Len(a) = (IF own THEN 1 ELSE 0)
      /\ own => a[1] = pkLimit
  OBVIOUS
<1>3. /\ c \in Seq(Int) /\ Len(c) = 2 /\ c[1] = 0 /\ c[2] = NoLimit /\ NoLimit \in Int
      /\ NoLimit = -1
  BY DEF NoLimit
<1>4. own \in BOOLEAN
  OBVIOUS
<1>5. Items = ab \o c
  BY DEF Items
<1> HIDE DEF a, b, c, n
<1>6. b \in Seq(Int) /\ Len(b) = n
  <2>1. b \in [1..n -> Int] /\ DOMAIN b = 1..n
    BY <1>1, OptionsOK
  <2>2. b \in Seq(Int)
    BY <1>1, <2>1, SeqDef, Zenon
  <2> QED
    BY <1>1, <2>1, <2>2, LenProperties
<1>7. /\ ab \in Seq(Int) /\ Len(ab) = Len(a) + n
      /\ \A i \in 1..(Len(a) + n): ab[i] = IF i <= Len(a) THEN a[i] ELSE b[i - Len(a)]
  BY <1>2, <1>6, ConcatProperties
<1> HIDE DEF ab
<1>8. /\ ab \o c \in Seq(Int) /\ Len(ab \o c) = Len(ab) + 2
      /\ \A i \in 1..(Len(ab) + 2): (ab \o c)[i] = IF i <= Len(ab) THEN ab[i] ELSE c[i - Len(ab)]
  <2>1. /\ ab \o c \in Seq(Int) /\ Len(ab \o c) = Len(ab) + Len(c)
        /\ \A i \in 1..(Len(ab) + Len(c)):
             (ab \o c)[i] = IF i <= Len(ab) THEN ab[i] ELSE c[i - Len(ab)]
    <3>1. ab \in Seq(Int) /\ c \in Seq(Int)
      BY <1>3, <1>7
    <3> QED
      BY <3>1, ConcatProperties
  <2>2. Len(ab) + Len(c) = Len(ab) + 2
    BY <1>3, <1>7
  <2> QED
    BY <2>1, <2>2, Zenon
<1> DEFINE m == Len(a)
           all == Items
<1>9. m \in {0, 1} /\ (m = 1 <=> own)
  BY <1>2, <1>4
<1>10. all \in Seq(Int) /\ Len(all) = m + n + 2
  BY <1>1, <1>5, <1>7, <1>8, <1>9
<1>11. \A i \in 1..(m + n + 2):
         all[i] = IF i <= m + n THEN ab[i] ELSE c[i - (m + n)]
  BY <1>5, <1>7, <1>8
<1> HIDE DEF m, all, own
<1>12. ASSUME NEW i \in 1..(m + n + 2)
       PROVE  /\ i <= m => own /\ i = 1 /\ all[i] = pkLimit
              /\ i > m /\ i <= m + n => /\ i - m \in 1..n /\ all[i] = b[i - m]
                                       /\ all[i] \in LimitOption
              /\ i = m + n + 1 => all[i] = 0
              /\ i = m + n + 2 => all[i] = NoLimit
              /\ i <= m \/ (i > m /\ i <= m + n) \/ i = m + n + 1 \/ i = m + n + 2
  <2>0. /\ i <= m => ~(i > m) /\ i # m + n + 1 /\ i # m + n + 2
        /\ i <= m + n => i # m + n + 1 /\ i # m + n + 2
        /\ m + n + 1 # m + n + 2 /\ i \in Int
    BY <1>1, <1>9
  <2>1. CASE i <= m
    <3>1. i = 1 /\ own /\ i <= m + n /\ i \in 1..(m + n)
      BY <1>1, <1>9, <2>1
    <3>2. all[i] = a[1]
      BY <1>7, <1>11, <2>1, <3>1 DEF m
    <3> QED
      BY <1>2, <2>0, <2>1, <3>1, <3>2 DEF own
  <2>2. CASE i > m /\ i <= m + n
    <3> DEFINE j == i - m
    <3>1. j \in 1..n /\ i \in 1..(m + n) /\ ~(i <= m)
      BY <1>1, <1>9, <2>2
    <3>2. all[i] = b[j]
      BY <1>7, <1>11, <2>2, <3>1 DEF m
    <3> HIDE DEF j
    <3>3. b[j] \in LimitOption
      BY <1>1, <3>1
    <3> QED
      BY <2>0, <2>2, <3>1, <3>2, <3>3 DEF j
  <2>3. CASE i = m + n + 1
    <3>1. ~(i <= m + n) /\ i - (m + n) = 1
      BY <1>1, <1>9, <2>3
    <3> QED
      BY <1>3, <1>11, <2>0, <2>3, <3>1
  <2>4. CASE i = m + n + 2
    <3>1. ~(i <= m + n) /\ i - (m + n) = 2
      BY <1>1, <1>9, <2>4
    <3> QED
      BY <1>3, <1>11, <2>0, <2>4, <3>1
  <2>5. i <= m \/ (i > m /\ i <= m + n) \/ i = m + n + 1 \/ i = m + n + 2
    BY <1>1, <1>9
  <2> QED
    BY <2>0, <2>1, <2>2, <2>3, <2>4, <2>5
<1>13. \A l \in LimitOption: l # 0 /\ l # NoLimit /\ l \in Int
  BY <1>3, OptionsOK
<1>14. pkLimit # NoLimit /\ (own => pkLimit # 0 /\ pkLimit \notin LimitOption)
  BY <1>3 DEF own
<1>15. ASSUME NEW i \in 1..(m + n + 2), NEW j \in 1..(m + n + 2), i < j, all[i] = all[j]
       PROVE  FALSE
  <2>1. CASE i <= m
    <3>1. all[i] = pkLimit /\ own /\ i = 1 /\ m = 1
      BY <1>9, <1>12, <2>1
    <3>2. ~(j <= m)
      BY <1>15, <3>1
    <3>3. all[j] \in LimitOption \/ all[j] = 0 \/ all[j] = NoLimit
      BY <1>12, <3>2
    <3> QED
      BY <1>14, <1>15, <3>1, <3>3
  <2>2. CASE i > m /\ i <= m + n
    <3>1. i - m \in 1..n /\ all[i] = b[i - m] /\ all[i] \in LimitOption
      BY <1>1, <1>9, <1>12, <2>2
    <3>2. all[j] # 0 /\ all[j] # NoLimit
      BY <1>13, <1>15, <3>1
    <3>3. j > m
      BY <1>9, <1>15, <2>2
    <3>4. j - m \in 1..n /\ all[j] = b[j - m]
      BY <1>9, <1>12, <3>2, <3>3
    <3>5. i - m < j - m
      BY <1>9, <1>15
    <3>6. b[i - m] < b[j - m]
      BY <1>1, <3>1, <3>4, <3>5
    <3>7. PICK x \in Int: x = all[i] /\ x = all[j]
      BY <1>13, <1>15, <3>1
    <3>8. x < x
      BY <3>1, <3>4, <3>6, <3>7, Zenon
    <3> QED
      BY <3>8
  <2>3. CASE i = m + n + 1
    <3>1. j = m + n + 2
      BY <1>1, <1>9, <1>15, <2>3
    <3>2. all[i] = 0 /\ all[j] = NoLimit
      BY <1>1, <1>3, <1>9, <1>11, <2>3, <3>1
    <3>3. 0 = NoLimit
      BY <1>15, <3>2
    <3> QED
      BY <3>3 DEF NoLimit
  <2>4. i <= m \/ (i > m /\ i <= m + n) \/ i = m + n + 1
    BY <1>1, <1>9, <1>15
  <2> QED
    BY <2>1, <2>2, <2>3, <2>4
<1>16. \A i \in 1..(m + n + 2): all[i] \in LimitOption \cup {0, NoLimit, pkLimit}
  BY <1>12
<1>17. \E i \in 1..(m + n + 2): all[i] = pkLimit
  <2>1. CASE own
    <3>1. 1 \in 1..(m + n + 2) /\ 1 <= m
      BY <1>1, <1>9, <2>1
    <3>2. all[1] = pkLimit
      BY <1>9, <1>12, <3>1
    <3> QED
      BY <3>1, <3>2
  <2>2. CASE pkLimit \in LimitOption
    <3>1. PICK z \in 1..n: b[z] = pkLimit
      BY <1>1, <2>2
    <3> DEFINE i == m + z
    <3>2. i \in 1..(m + n + 2) /\ i > m /\ i <= m + n /\ i - m = z
      BY <1>1, <1>9
    <3> HIDE DEF i
    <3>3. all[i] = pkLimit
      BY <1>1, <1>9, <1>12, <3>1, <3>2
    <3> QED
      BY <3>2, <3>3
  <2>3. CASE pkLimit = 0
    <3> DEFINE i == m + n + 1
    <3>1. i \in 1..(m + n + 2) /\ i = m + n + 1 /\ ~(i <= m) /\ ~(i <= m + n)
          /\ i # m + n + 2
      BY <1>1, <1>9
    <3> HIDE DEF i
    <3>2. all[i] = 0
      BY <1>12, <3>1
    <3> QED
      BY <2>3, <3>1, <3>2
  <2>4. own \/ pkLimit \in LimitOption \/ pkLimit = 0
    BY DEF own
  <2> QED
    BY <2>1, <2>2, <2>3, <2>4
<1>18. \A i, j \in 1..(m + n + 2): all[i] = all[j] => i = j
  <2> SUFFICES ASSUME NEW i \in 1..(m + n + 2), NEW j \in 1..(m + n + 2), all[i] = all[j]
               PROVE  i = j
    OBVIOUS
  <2>1. ~(i < j) /\ ~(j < i)
    BY <1>15
  <2>2. i \in Int /\ j \in Int
    BY <1>1, <1>9
  <2> QED
    BY <2>1, <2>2
<1> QED
  BY <1>10, <1>16, <1>17, <1>18, Zenon DEF all, NoRepeats

\* The invariant implies what the pickers promise.
LEMMA PickersInvHolds == PickersInv => PickersTypeOK /\ PickersShowWhatIs
<1> SUFFICES ASSUME PickersInv PROVE PickersTypeOK /\ PickersShowWhatIs
  OBVIOUS
<1>1. /\ PickersTypeOK /\ pkData \in SUBSET ToSet(PkCluster) /\ pkPins \in Seq(PkId)
      /\ pkViews \in Seq(PkView) /\ pkLimit \in Nat
      /\ PinsOnce(pkPins) /\ NamesOnce(pkViews) /\ pkLimit <= MaxLimit
  BY PickersTypes DEF PickersInv
<1>2. SortedLists(Sorted(pkData, pkPins), pkData, pkPins)
  BY <1>1, SortedOK
<1>3. NoRepeats(Items) /\ ItemOf(pkLimit) # {}
  BY <1>1, ItemsOK DEF ItemOf
<1>4. NoRepeats([i \in 1..Len(pkViews) |-> pkViews[i].name])
  <2> DEFINE names == [i \in 1..Len(pkViews) |-> pkViews[i].name]
             S == {names[i] : i \in 1..Len(pkViews)}
  <2>1. Len(pkViews) \in Nat
    BY <1>1
  <2>2. names \in [1..Len(pkViews) -> S] /\ DOMAIN names = 1..Len(pkViews)
    OBVIOUS
  <2>3. \A i \in 1..Len(pkViews): names[i] = pkViews[i].name
    OBVIOUS
  <2> HIDE DEF names, S
  <2>4. names \in Seq(S)
    BY <2>1, <2>2, SeqDef, Zenon
  <2>5. Len(names) = Len(pkViews)
    BY <2>1, <2>2, <2>4, LenProperties
  <2>6. NoRepeats(names)
    BY <1>1, <2>3, <2>5 DEF NoRepeats, NamesOnce
  <2> QED
    BY <2>6 DEF names
<1> QED
  BY <1>1, <1>2, <1>3, <1>4 DEF PickersShowWhatIs, SortedLists

LEMMA PickersInitOK == PickersInit => PickersInv
<1> SUFFICES ASSUME PickersInit PROVE PickersInv
  OBVIOUS
<1>1. /\ pkData \in SUBSET ToSet(PkCluster) /\ pkSelected \in ToSet(PkCluster) \cup {""}
      /\ pkOpen \in BOOLEAN /\ pkQuery \in {""} \cup ViewName
  BY DEF PickersInit
<1>2. pkLimit \in LimitOption
  BY OptionsOK DEF PickersInit
<1>8. pkPins = <<>>
  BY DEF PickersInit
<1>9. pkPins \in Seq(PkId) /\ Len(pkPins) = 0
  BY <1>8
<1>10. MaxPins \in Nat /\ MinWidth \in Int /\ MaxWidth \in Int /\ FirstWidth \in MinWidth..MaxWidth
  BY PickersAssumption
<1>3. Len(pkPins) <= MaxPins
  BY <1>9, <1>10
<1>4. /\ pkMenu \in [open: BOOLEAN, cursor: Nat \ {0}]
      /\ pkCustom \in [on: BOOLEAN, typed: CustomLimit \cup {NoLimit}]
      /\ pkWidth \in [state: MinWidth..MaxWidth, shown: MinWidth..MaxWidth,
                      stored: MinWidth..MaxWidth, current: MinWidth..MaxWidth, drag: BOOLEAN]
  <2>1. pkMenu = [open |-> FALSE, cursor |-> 1] /\ pkCustom = [on |-> FALSE, typed |-> NoLimit]
    BY DEF PickersInit
  <2>2. pkWidth = [state |-> FirstWidth, shown |-> FirstWidth, stored |-> FirstWidth,
                   current |-> FirstWidth, drag |-> FALSE]
    BY DEF PickersInit
  <2> QED
    BY <1>10, <2>1, <2>2
<1>5. PinsOnce(pkPins)
  BY <1>9 DEF PinsOnce
<1>6. pkViews \in Seq(PkView) /\ NamesOnce(pkViews)
  <2>1. StoredViews \in Seq(ViewName) /\ NoRepeats(StoredViews) /\ Len(StoredViews) \in Nat
    BY PickersNames, Zenon, LenProperties
  <2> DEFINE n == Len(StoredViews)
             v == [i \in 1..n |-> [name |-> StoredViews[i], query |-> ""]]
  <2>2. pkViews = v
    BY DEF PickersInit
  <2>3. \A i \in 1..n: StoredViews[i] \in ViewName
    BY <2>1
  <2>4. /\ v \in [1..n -> PkView] /\ DOMAIN v = 1..n
        /\ \A i \in 1..n: v[i].name = StoredViews[i]
    BY <2>3 DEF PkView
  <2> HIDE DEF v, n
  <2>5. n \in Nat
    BY <2>1 DEF n
  <2>6. v \in Seq(PkView)
    BY <2>4, <2>5, SeqDef, Zenon
  <2>7. Len(v) = n
    BY <2>4, <2>5, <2>6, LenProperties
  <2>8. NamesOnce(v)
    BY <2>1, <2>4, <2>7 DEF NamesOnce, NoRepeats, n
  <2> QED
    BY <2>2, <2>6, <2>8
<1>7. pkLimit \in Nat /\ pkLimit <= MaxLimit
  BY <1>2, OptionsOK
<1> QED
  BY <1>1, <1>3, <1>4, <1>5, <1>6, <1>7, <1>9, PickersTypes DEF PickersInv

\* A pin is put in or taken out.
LEMMA PinnedOK ==
  ASSUME NEW pins \in Seq(PkId), PinsOnce(pins), NEW c \in ToSet(PkCluster)
  PROVE  /\ Only(pins, ToSet(pins) \ {c}) \in Seq(PkId)
         /\ PinsOnce(Only(pins, ToSet(pins) \ {c}))
         /\ c \notin ToSet(pins) => /\ Append(pins, c) \in Seq(PkId)
                                    /\ PinsOnce(Append(pins, c))
<1>1. c \in PkId
  BY DEF PkId
<1> DEFINE part == Only(pins, ToSet(pins) \ {c})
           more == Append(pins, c)
<1>2. part \in Seq(PkId) /\ Selected(part, pins, ToSet(pins) \ {c})
  BY OnlyOK
<1> HIDE DEF part
<1>3. PICK at: Picked(part, pins, at)
  BY <1>2 DEF Selected
<1>4. Len(part) \in Nat /\ Len(pins) \in Nat
  BY <1>2
<1>5. PinsOnce(part)
  <2> SUFFICES ASSUME NEW i \in 1..Len(part), NEW j \in 1..Len(part), part[i] = part[j],
                      part[i] # "undefined"
               PROVE  i = j
    BY DEF PinsOnce
  <2>1. /\ at[i] \in 1..Len(pins) /\ at[j] \in 1..Len(pins)
        /\ pins[at[i]] = part[i] /\ pins[at[j]] = part[j]
    BY <1>3 DEF Picked
  <2>2. at[i] = at[j]
    BY <2>1 DEF PinsOnce
  <2>3. (i < j => at[i] < at[j]) /\ (j < i => at[j] < at[i])
    BY <1>3 DEF Picked
  <2> QED
    BY <2>1, <2>2, <2>3
<1>6. ASSUME c \notin ToSet(pins) PROVE more \in Seq(PkId) /\ PinsOnce(more)
  <2>1. /\ more \in Seq(PkId) /\ Len(more) = Len(pins) + 1
        /\ \A i \in 1..Len(pins): more[i] = pins[i]
        /\ more[Len(pins) + 1] = c
    BY <1>1, AppendProperties
  <2> HIDE DEF more
  <2>2. \A i \in 1..Len(pins): pins[i] # c
    BY <1>6, ToSetOK
  <2>3. ASSUME NEW i \in 1..Len(more), NEW j \in 1..Len(more), more[i] = more[j],
               more[i] # "undefined"
        PROVE  i = j
    <3>1. i \in 1..Len(pins) \/ i = Len(pins) + 1
      BY <1>4, <2>1
    <3>2. j \in 1..Len(pins) \/ j = Len(pins) + 1
      BY <1>4, <2>1
    <3> QED
      BY <2>1, <2>2, <2>3, <3>1, <3>2 DEF PinsOnce
  <2> QED
    BY <2>1, <2>3 DEF PinsOnce
<1> QED
  BY <1>2, <1>5, <1>6 DEF part, more

\* The pins after a drop.
LEMMA DroppedPinOK ==
  ASSUME NEW pins \in Seq(PkId), PinsOnce(pins), NEW from \in Nat, NEW to \in 1..Len(pins)
  PROVE  LET m == Moved(pins, from, to, "undefined") IN m \in Seq(PkId) /\ PinsOnce(m)
<1> DEFINE m == Moved(pins, from, to, "undefined")
<1>1. "undefined" \in PkId
  BY DEF PkId
<1>2. /\ m \in Seq(PkId) /\ (from \in 1..Len(pins) => Permuted(m, pins))
      /\ (from \notin 1..Len(pins) => Inserted(m, pins, to, "undefined"))
  BY <1>1, MovedOK
<1> HIDE DEF m
<1>3. Len(pins) \in Nat
  OBVIOUS
<1>4. CASE Permuted(m, pins)
  <2>1. PICK p \in [1..Len(pins) -> 1..Len(pins)]:
           /\ \A i, j \in 1..Len(pins): p[i] = p[j] => i = j
           /\ \A i \in 1..Len(pins): m[i] = pins[p[i]]
    BY <1>4 DEF Permuted
  <2>2. Len(m) = Len(pins)
    BY <1>4 DEF Permuted
  <2> SUFFICES ASSUME NEW i \in 1..Len(m), NEW j \in 1..Len(m), m[i] = m[j], m[i] # "undefined"
               PROVE  i = j
    BY <1>2 DEF PinsOnce, m
  <2>3. p[i] \in 1..Len(pins) /\ p[j] \in 1..Len(pins) /\ m[i] = pins[p[i]] /\ m[j] = pins[p[j]]
    BY <2>1, <2>2
  <2>4. p[i] = p[j]
    BY <2>3 DEF PinsOnce
  <2> QED
    BY <2>1, <2>2, <2>4
<1>5. CASE Inserted(m, pins, to, "undefined")
  <2>1. /\ Len(m) = Len(pins) + 1
        /\ \A k \in 1..(Len(pins) + 1):
             m[k] = IF k < to THEN pins[k] ELSE IF k = to THEN "undefined" ELSE pins[k - 1]
    BY <1>5 DEF Inserted
  <2> SUFFICES ASSUME NEW i \in 1..Len(m), NEW j \in 1..Len(m), m[i] = m[j], m[i] # "undefined"
               PROVE  i = j
    BY <1>2 DEF PinsOnce, m
  <2> DEFINE At(k) == IF k < to THEN k ELSE k - 1
  <2>2. ASSUME NEW k \in 1..Len(m), m[k] # "undefined"
        PROVE  k # to /\ At(k) \in 1..Len(pins) /\ m[k] = pins[At(k)]
    <3>1. k # to
      BY <2>1, <2>2
    <3>2. At(k) \in 1..Len(pins)
      BY <1>3, <2>1, <3>1
    <3> QED
      BY <2>1, <3>1, <3>2
  <2>3. At(i) = At(j)
    <3>1. m[j] # "undefined"
      OBVIOUS
    <3>2. /\ At(i) \in 1..Len(pins) /\ m[i] = pins[At(i)]
          /\ At(j) \in 1..Len(pins) /\ m[j] = pins[At(j)]
      BY <2>2, <3>1
    <3> HIDE DEF At
    <3> QED
      BY <3>2 DEF PinsOnce
  <2>4. i # to /\ j # to
    BY <2>2
  <2> QED
    BY <1>3, <2>1, <2>3, <2>4
<1> QED
  BY <1>2, <1>4, <1>5

LEMMA PinsNextOK ==
  ASSUME PickersInv, PinsNext, UNCHANGED <<pkViewVars, pkLimitVars, pkWidth>>
  PROVE  PickersInv'
<1>1. /\ pkData \in SUBSET ToSet(PkCluster) /\ pkSelected \in ToSet(PkCluster) \cup {""}
      /\ pkPins \in Seq(PkId) /\ Len(pkPins) <= MaxPins /\ pkOpen \in BOOLEAN
      /\ PinsOnce(pkPins)
  BY PickersTypes DEF PickersInv
<1>2. ASSUME /\ pkData' \in SUBSET ToSet(PkCluster) /\ pkSelected' \in ToSet(PkCluster) \cup {""}
             /\ pkPins' \in Seq(PkId) /\ Len(pkPins') <= MaxPins /\ pkOpen' \in BOOLEAN
             /\ PinsOnce(pkPins')
      PROVE  PickersInv'
  BY <1>2
  DEF PickersInv, PickersTypeOK, PkId, pkViewVars, pkLimitVars,
      PinsOnce, NamesOnce, MaxLimit
<1>3. ASSUME NEW data \in SUBSET ToSet(PkCluster), ClustersRead(data) PROVE PickersInv'
  <2>1. data # {} => Sorted(data, pkPins)[1] \in ToSet(PkCluster)
    <3> SUFFICES ASSUME NEW x \in data PROVE Sorted(data, pkPins)[1] \in ToSet(PkCluster)
      OBVIOUS
    <3> DEFINE sorted == Sorted(data, pkPins)
    <3>1. ToSet(sorted) = data
      BY <1>1, SortedOK DEF SortedLists
    <3>2. sorted \in Seq(PkId)
      <4>1. Only(pkPins, data) \in Seq(PkId) /\ Only(PkCluster, data \ ToSet(pkPins)) \in Seq(PkId)
        BY <1>1, ClustersOK, OnlyOK
      <4> QED
        BY <4>1, ConcatProperties DEF Sorted
    <3> HIDE DEF sorted
    <3>3. \A y: y \in data <=> \E i \in 1..Len(sorted): sorted[i] = y
      BY <3>1, <3>2, ToSetOK
    <3>4. 1 \in 1..Len(sorted)
      BY <3>2, <3>3
    <3>5. sorted[1] \in data
      BY <3>3, <3>4
    <3> QED
      BY <3>5 DEF sorted
  <2>2. pkSelected' \in ToSet(PkCluster) \cup {""}
    BY <1>1, <1>3, <2>1 DEF ClustersRead
  <2> QED
    BY <1>1, <1>2, <1>3, <2>2 DEF ClustersRead
<1>4. CASE OpenPicker
  BY <1>1, <1>2, <1>4 DEF OpenPicker
<1>5. ASSUME NEW c \in ToSet(PkCluster), PickCluster(c) PROVE PickersInv'
  BY <1>1, <1>2, <1>5 DEF PickCluster
<1>6. ASSUME NEW c \in ToSet(PkCluster), TogglePin(c) PROVE PickersInv'
  <2>1. pkPins' \in Seq(PkId) /\ PinsOnce(pkPins')
    BY <1>1, <1>6, PinnedOK DEF TogglePin
  <2> QED
    BY <1>1, <1>2, <1>6, <2>1 DEF TogglePin
<1>7. ASSUME NEW c \in ToSet(PkCluster), NEW from \in 1..MaxPins, DropPin(from, c)
      PROVE  PickersInv'
  <2> DEFINE to == CHOOSE i \in 1..Len(pkPins): pkPins[i] = c
  <2>1. to \in 1..Len(pkPins)
    <3>1. \E i \in 1..Len(pkPins): pkPins[i] = c
      BY <1>1, <1>7, ToSetOK DEF DropPin
    <3> QED
      BY <3>1
  <2>2. pkPins' = Moved(pkPins, from, to, "undefined")
    BY <1>7 DEF DropPin
  <2> HIDE DEF to
  <2>3. from \in Nat
    OBVIOUS
  <2>4. pkPins' \in Seq(PkId) /\ PinsOnce(pkPins')
    BY <1>1, <2>1, <2>2, <2>3, DroppedPinOK
  <2> QED
    BY <1>1, <1>2, <1>7, <2>4 DEF DropPin
<1> QED
  BY <1>3, <1>4, <1>5, <1>6, <1>7 DEF PinsNext

LEMMA OtherViewsOK ==
  ASSUME NEW name, pkViews \in Seq(PkView), NamesOnce(pkViews)
  PROVE  /\ OtherViews(name) \in Seq(PkView) /\ NamesOnce(OtherViews(name))
         /\ \A i \in 1..Len(OtherViews(name)): OtherViews(name)[i].name # name
<1> DEFINE part == OtherViews(name)
           set == {v \in ToSet(pkViews) : v.name # name}
<1>1. part \in Seq(PkView) /\ Selected(part, pkViews, set)
  BY OnlyOK DEF OtherViews
<1> HIDE DEF part
<1>2. PICK at: Picked(part, pkViews, at)
  BY <1>1 DEF Selected
<1>3. \A i \in 1..Len(part): part[i].name # name
  BY <1>1 DEF Selected
<1>4. ASSUME NEW i \in 1..Len(part), NEW j \in 1..Len(part), part[i].name = part[j].name
      PROVE  i = j
  <2>1. /\ at[i] \in 1..Len(pkViews) /\ at[j] \in 1..Len(pkViews)
        /\ pkViews[at[i]] = part[i] /\ pkViews[at[j]] = part[j]
    BY <1>2 DEF Picked
  <2>2. at[i] = at[j]
    BY <1>4, <2>1 DEF NamesOnce
  <2>3. (i < j => at[i] < at[j]) /\ (j < i => at[j] < at[i])
    BY <1>2 DEF Picked
  <2> QED
    BY <2>1, <2>2, <2>3
<1> QED
  BY <1>1, <1>3, <1>4 DEF part, NamesOnce

LEMMA ViewsNextOK ==
  ASSUME PickersInv, ViewsNext, UNCHANGED <<pkPinVars, pkLimitVars, pkWidth>>
  PROVE  PickersInv'
<1>0. pkViews \in Seq(PkView) /\ Len(pkViews) \in Nat
  BY PickersTypes, LenProperties DEF PickersInv
<1>1. pkViews \in Seq(PkView) /\ pkQuery \in {""} \cup ViewName /\ NamesOnce(pkViews)
  BY PickersTypes DEF PickersInv
<1>2. ASSUME pkViews' \in Seq(PkView), pkQuery' \in {""} \cup ViewName, NamesOnce(pkViews')
      PROVE  PickersInv'
  BY <1>2
  DEF PickersInv, PickersTypeOK, PkView, pkPinVars, pkLimitVars,
      PinsOnce, NamesOnce, MaxLimit
<1>3. ASSUME NEW name \in ViewName, SaveView(name) PROVE PickersInv'
  <2> DEFINE part == OtherViews(name)
             v == [name |-> name, query |-> pkQuery]
             more == Append(part, v)
  <2>1. /\ part \in Seq(PkView) /\ NamesOnce(part)
        /\ \A i \in 1..Len(part): part[i].name # name
    BY <1>1, OtherViewsOK
  <2>2. v \in PkView /\ v.name = name
    BY <1>1 DEF PkView
  <2>3. pkViews' = more /\ pkQuery' = pkQuery
    BY <1>3 DEF SaveView
  <2> HIDE DEF part, v
  <2>4. /\ more \in Seq(PkView) /\ Len(more) = Len(part) + 1
        /\ \A i \in 1..Len(part): more[i] = part[i]
        /\ more[Len(part) + 1] = v
    BY <2>1, <2>2, AppendProperties
  <2> HIDE DEF more
  <2>5. ASSUME NEW i \in 1..Len(more), NEW j \in 1..Len(more), more[i].name = more[j].name
        PROVE  i = j
    <3>1. Len(part) \in Nat
      BY <2>1
    <3>2. i \in 1..Len(part) \/ i = Len(part) + 1
      BY <2>4, <3>1
    <3>3. j \in 1..Len(part) \/ j = Len(part) + 1
      BY <2>4, <3>1
    <3> QED
      BY <2>1, <2>2, <2>4, <2>5, <3>2, <3>3 DEF NamesOnce
  <2>6. NamesOnce(more)
    BY <2>5 DEF NamesOnce
  <2> QED
    BY <1>1, <1>2, <2>3, <2>4, <2>6
<1>4. ASSUME NEW i \in 1..Len(pkViews), DeleteView(i) PROVE PickersInv'
  BY <1>1, <1>2, <1>4, OtherViewsOK DEF DeleteView
<1>5. ASSUME NEW i \in 1..Len(pkViews), ApplyView(i) PROVE PickersInv'
  <2>1. pkViews[i] \in PkView
    BY <1>0
  <2>2. pkViews[i].query \in {""} \cup ViewName
    BY <2>1 DEF PkView
  <2>3. pkQuery' = pkViews[i].query /\ pkViews' = pkViews
    BY <1>5 DEF ApplyView
  <2> QED
    BY <1>1, <1>2, <2>2, <2>3
<1>6. ASSUME NEW name \in ViewName, TypeQuery(name) PROVE PickersInv'
  BY <1>1, <1>2, <1>6 DEF TypeQuery
<1>7. ASSUME NEW i \in 1..Len(pkViews), NEW to \in 1..Len(pkViews), DropView(i, to)
      PROVE  PickersInv'
  <2> DEFINE m == Moved(pkViews, i, to, pkViews[1])
  <2>1. m \in Seq(PkView) /\ Permuted(m, pkViews)
    <3>1. 1 \in 1..Len(pkViews) /\ i \in Nat
      BY <1>0
    <3>2. pkViews[1] \in PkView
      BY <1>0, <3>1
    <3> QED
      BY <1>0, <3>1, <3>2, MovedOK
  <2>2. pkViews' = m /\ pkQuery' = pkQuery
    BY <1>7 DEF DropView
  <2> HIDE DEF m
  <2>3. PICK p \in [1..Len(pkViews) -> 1..Len(pkViews)]:
           /\ \A k, l \in 1..Len(pkViews): p[k] = p[l] => k = l
           /\ \A k \in 1..Len(pkViews): m[k] = pkViews[p[k]]
    BY <2>1 DEF Permuted
  <2>4. Len(m) = Len(pkViews)
    BY <2>1 DEF Permuted
  <2>5. NamesOnce(m)
    <3> SUFFICES ASSUME NEW k \in 1..Len(m), NEW l \in 1..Len(m), m[k].name = m[l].name
                 PROVE  k = l
      BY DEF NamesOnce
    <3>1. /\ p[k] \in 1..Len(pkViews) /\ p[l] \in 1..Len(pkViews)
          /\ m[k] = pkViews[p[k]] /\ m[l] = pkViews[p[l]]
      BY <2>3, <2>4
    <3>2. p[k] = p[l]
      BY <1>1, <3>1 DEF NamesOnce
    <3> QED
      BY <2>3, <2>4, <3>2
  <2> QED
    BY <1>1, <1>2, <2>1, <2>2, <2>5
<1> QED
  BY <1>3, <1>4, <1>5, <1>6, <1>7 DEF ViewsNext

LEMMA LimitNextOK ==
  ASSUME PickersInv, LimitNext, UNCHANGED <<pkPinVars, pkViewVars, pkWidth>>
  PROVE  PickersInv'
<1> DEFINE Menu == [open: BOOLEAN, cursor: Nat \ {0}]
           Custom == [on: BOOLEAN, typed: CustomLimit \cup {NoLimit}]
<1>1. pkLimit \in Nat /\ pkMenu \in Menu /\ pkCustom \in Custom /\ pkLimit <= MaxLimit
  BY PickersTypes DEF PickersInv
<1>2. ASSUME pkLimit' \in Nat, pkMenu' \in Menu, pkCustom' \in Custom, pkLimit' <= MaxLimit
      PROVE  PickersInv'
  BY <1>2
  DEF PickersInv, PickersTypeOK, pkPinVars, pkViewVars,
      PinsOnce, NamesOnce, MaxLimit
<1>3. /\ Items \in Seq(Int) /\ Len(Items) \in Nat
      /\ \A i \in 1..Len(Items): Items[i] \in LimitOption \cup {0, NoLimit, pkLimit}
  BY <1>1, ItemsOK, LenProperties
<1>4. MaxLimit \in Nat /\ MaxLimit >= 1 /\ \A l \in LimitOption: l \in Nat /\ l <= MaxLimit
  BY OptionsOK
<1>5. CASE MenuOpens
  <2> DEFINE set == {1} \cup ItemOf(pkLimit)
  <2>1. set \in SUBSET (1..(Len(Items) + 1)) /\ set \in SUBSET Int /\ set # {}
    BY <1>3 DEF ItemOf
  <2> HIDE DEF set
  <2>2. IsFiniteSet(set)
    <3>1. IsFiniteSet(1..(Len(Items) + 1))
      <4>1. 1 \in Int /\ Len(Items) + 1 \in Int
        BY <1>3
      <4> QED
        BY <4>1, FS_Interval
    <3> QED
      BY <2>1, <3>1, FS_Subset
  <2>3. Max(set) \in set
    BY <2>1, <2>2, MaxOK
  <2>4. Max(set) \in Nat \ {0}
    <3>1. Max(set) \in 1..(Len(Items) + 1)
      BY <2>1, <2>3
    <3> QED
      BY <1>3, <3>1
  <2>5. pkMenu' = [open |-> TRUE, cursor |-> Max(set)] /\ pkLimit' = pkLimit /\ pkCustom' = pkCustom
    BY <1>5 DEF MenuOpens, set
  <2>6. pkMenu' \in Menu
    BY <2>4, <2>5
  <2> QED
    BY <1>1, <1>2, <2>5, <2>6
<1>6. CASE MenuCloses
  BY <1>1, <1>2, <1>6 DEF MenuCloses
<1>7. ASSUME NEW i \in 1..Len(Items), HoverItem(i) PROVE PickersInv'
  <2>1. i \in Nat \ {0}
    BY <1>3
  <2>2. pkMenu' \in Menu
    BY <1>1, <1>7, <2>1 DEF HoverItem
  <2> QED
    BY <1>1, <1>2, <1>7, <2>2 DEF HoverItem
<1>8. ASSUME NEW i \in 1..Len(Items), PickItem(i) PROVE PickersInv'
  <2>1. pkMenu' \in Menu
    BY <1>1, <1>8 DEF PickItem
  <2>2. CASE Items[i] = NoLimit
    <3> DEFINE typed == IF pkLimit \in CustomLimit \ LimitOption THEN pkLimit ELSE NoLimit
    <3>1. pkCustom' = [on |-> TRUE, typed |-> typed] /\ pkLimit' = pkLimit
      BY <1>8, <2>2 DEF PickItem
    <3>2. typed \in CustomLimit \cup {NoLimit}
      OBVIOUS
    <3> HIDE DEF typed
    <3>3. pkCustom' \in Custom
      BY <3>1, <3>2
    <3> QED
      BY <1>1, <1>2, <2>1, <3>1, <3>3
  <2>3. CASE Items[i] # NoLimit
    <3>1. pkLimit' = Items[i] /\ pkCustom' = pkCustom
      BY <1>8, <2>3 DEF PickItem
    <3>2. Items[i] \in LimitOption \/ Items[i] = 0 \/ Items[i] = pkLimit
      BY <1>3, <2>3
    <3>3. pkLimit' \in Nat /\ pkLimit' <= MaxLimit
      BY <1>1, <1>4, <3>1, <3>2
    <3> QED
      BY <1>1, <1>2, <2>1, <3>1, <3>3
  <2> QED
    BY <2>2, <2>3
<1>9. ASSUME NEW n \in CustomLimit \cup {NoLimit}, TypeLimit(n) PROVE PickersInv'
  BY <1>1, <1>2, <1>9 DEF TypeLimit
<1>10. CASE SubmitLimit
  <2>1. pkCustom' \in Custom /\ pkMenu' = pkMenu
    BY <1>1, <1>10 DEF SubmitLimit
  <2>2. CASE pkCustom.typed = NoLimit
    <3>1. pkLimit' = pkLimit
      BY <1>10, <2>2 DEF SubmitLimit
    <3> QED
      BY <1>1, <1>2, <2>1, <3>1
  <2>3. CASE pkCustom.typed # NoLimit
    <3>1. pkCustom.typed \in CustomLimit
      BY <1>1, <2>3
    <3>2. PICK n \in Nat: n = pkCustom.typed
      BY <3>1, PickersAssumption
    <3>3. pkLimit' = Min({MaxLimit, Max({1, n})})
      BY <1>10, <2>3, <3>2 DEF SubmitLimit, Parsed
    <3>4. PICK x \in Nat: x = Max({1, n})
      <4>1. Max({1, n}) = IF 1 < n THEN n ELSE 1
        BY MaxMinOfTwo
      <4> QED
        BY <4>1
    <3>5. Min({MaxLimit, x}) = IF MaxLimit < x THEN MaxLimit ELSE x
      <4>1. MaxLimit \in Int /\ x \in Int
        BY <1>4
      <4> QED
        BY <4>1, MaxMinOfTwo
    <3>6. pkLimit' \in Nat /\ pkLimit' <= MaxLimit
      BY <1>4, <3>3, <3>4, <3>5
    <3> QED
      BY <1>1, <1>2, <2>1, <3>6
  <2> QED
    BY <2>2, <2>3
<1>11. CASE EscapeLimit
  BY <1>1, <1>2, <1>11 DEF EscapeLimit
<1>12. CASE MoreKeys
  <2>1. Min({2 * pkLimit, MaxLimit}) = IF 2 * pkLimit < MaxLimit THEN 2 * pkLimit ELSE MaxLimit
    <3>1. 2 * pkLimit \in Int /\ MaxLimit \in Int
      BY <1>1, <1>4
    <3> QED
      BY <3>1, MaxMinOfTwo
  <2>2. pkLimit' \in Nat /\ pkLimit' <= MaxLimit
    BY <1>1, <1>4, <1>12, <2>1 DEF MoreKeys
  <2> QED
    BY <1>1, <1>2, <1>12, <2>2 DEF MoreKeys
<1> QED
  BY <1>5, <1>6, <1>7, <1>8, <1>9, <1>10, <1>11, <1>12 DEF LimitNext

LEMMA WidthNextOK ==
  ASSUME PickersInv, WidthNext, UNCHANGED <<pkPinVars, pkViewVars, pkLimitVars>>
  PROVE  PickersInv'
<1> DEFINE W == MinWidth..MaxWidth
           Width == [state: W, shown: W, stored: W, current: W, drag: BOOLEAN]
<1>1. pkWidth \in Width
  BY PickersTypes DEF PickersInv
<1>2. ASSUME pkWidth' \in Width PROVE PickersInv'
  BY <1>2
  DEF PickersInv, PickersTypeOK, pkPinVars, pkViewVars, pkLimitVars,
      PinsOnce, NamesOnce, MaxLimit
<1>3. MinWidth \in Int /\ MaxWidth \in Int /\ FirstWidth \in W
  BY PickersAssumption
<1>4. CASE DragStarts
  BY <1>1, <1>2, <1>4 DEF DragStarts
<1>5. ASSUME NEW w \in (MinWidth - 1)..(MaxWidth + 1), Dragged(w) PROVE PickersInv'
  <2>1. PICK x \in Int: x = Min({MaxWidth, w}) /\ x <= MaxWidth
    <3>1. Min({MaxWidth, w}) = IF MaxWidth < w THEN MaxWidth ELSE w
      BY <1>3, MaxMinOfTwo
    <3> QED
      BY <1>3, <3>1
  <2>2. Max({MinWidth, x}) = IF MinWidth < x THEN x ELSE MinWidth
    BY <1>3, MaxMinOfTwo
  <2>3. PICK y \in W: y = Max({MinWidth, Min({MaxWidth, w})})
    BY <1>3, <2>1, <2>2
  <2>4. pkWidth' = [pkWidth EXCEPT !.current = y]
    BY <1>5, <2>3 DEF Dragged
  <2> QED
    BY <1>1, <1>2, <2>4
<1>6. CASE FrameShown
  BY <1>1, <1>2, <1>6 DEF FrameShown
<1>7. ASSUME NEW w \in W PROVE Rendered(w) \in Width
  BY <1>1 DEF Rendered
<1>8. CASE ResetWidth
  BY <1>2, <1>3, <1>7, <1>8 DEF ResetWidth
<1>9. ASSUME NEW stored \in BOOLEAN, DragEnds(stored) PROVE PickersInv'
  <2>1. pkWidth.current \in W
    BY <1>1
  <2>2. PICK r \in Width: r = Rendered(pkWidth.current)
    BY <1>7, <2>1
  <2>3. pkWidth' = [r EXCEPT !.drag = FALSE, !.stored = IF stored THEN pkWidth.current ELSE @]
    BY <1>9, <2>2 DEF DragEnds
  <2> QED
    BY <1>2, <2>1, <2>3
<1> QED
  BY <1>4, <1>5, <1>6, <1>8, <1>9 DEF WidthNext

PickerRoutes == {"pins", "views", "limit", "width"}

LEMMA PickersInConsole ==
  ASSUME PickersInv, [ConsoleNext]_consoleVars, route \in PickerRoutes
  PROVE  PickersInv'
<1>1. CASE UNCHANGED pkVars
  BY <1>1 DEF pkVars, pkPinVars, pkViewVars, pkLimitVars, PickersInv, PickersTypeOK, PinsOnce,
              NamesOnce, MaxLimit
<1>2. \/ UNCHANGED pkVars
      \/ UNCHANGED <<pkViewVars, pkLimitVars, pkWidth>> /\ PinsNext
      \/ UNCHANGED <<pkPinVars, pkLimitVars, pkWidth>> /\ ViewsNext
      \/ UNCHANGED <<pkPinVars, pkViewVars, pkWidth>> /\ LimitNext
      \/ UNCHANGED <<pkPinVars, pkViewVars, pkLimitVars>> /\ WidthNext
  BY DEF ConsoleNext, KeyPages, OtherPages, FormPages, Cards, Widgets, consoleVars
<1> QED
  BY <1>1, <1>2, PinsNextOK, ViewsNextOK, LimitNextOK, WidthNextOK

\* The picker lists every cluster once, however the pins are dragged, views keep
\* names of their own, and the limit in force is one that the dropdown shows.
THEOREM PickersShow == ConsoleSpec => []PickersShowWhatIsHere
<1> DEFINE Inv == route \in PickerRoutes => PickersInv
<1>1. ConsoleInit => Inv
  BY PickersInitOK DEF ConsoleInit
<1>2. Inv /\ [ConsoleNext]_consoleVars => Inv'
  BY PickersInConsole, RouteStays
<1>3. Inv => PickersShowWhatIsHere
  BY PickersInvHolds DEF PickersShowWhatIsHere, PickerRoutes
<1> QED
  BY <1>1, <1>2, <1>3, PTL DEF ConsoleSpec

----------------------------------------------------------------------------
(***************************************************************************)
(* The tree.  Nodes are compared where their paths part, which orders them *)
(* as the walk does: what comes between a folder and a node in it is in    *)
(* the folder too, hence deeper, and the nearest row above that is less    *)
(* deep is the folder's.                                                   *)
(***************************************************************************)
Path == Seq(Nat)

\* Where one path comes before another: they agree up to a place at which the first
\* ends, or has the smaller number.
DiffersAt(a, b, i) ==
  /\ i \in 1..Len(b) /\ i <= Len(a) + 1
  /\ \A j \in 1..(i - 1): a[j] = b[j]
  /\ i <= Len(a) => a[i] < b[i]

LEMMA PrefixOK ==
  ASSUME NEW a \in Path, NEW b \in Path
  PROVE  /\ Len(a) \in Nat /\ Len(b) \in Nat
         /\ DOMAIN a = 1..Len(a) /\ DOMAIN b = 1..Len(b)
         /\ IsStrictPrefix(a, b) <=> Len(a) < Len(b) /\ \A j \in 1..Len(a): a[j] = b[j]
<1>1. Len(a) \in Nat /\ Len(b) \in Nat /\ DOMAIN a = 1..Len(a) /\ DOMAIN b = 1..Len(b)
  BY DEF Path
<1>2. ASSUME Len(a) <= Len(b)
      PROVE  (SubSeq(a, 1, Len(a)) = SubSeq(b, 1, Len(a))) <=> \A j \in 1..Len(a): a[j] = b[j]
  <2>1. 1 \in Int /\ Len(a) \in Int
    BY <1>1
  <2>2. (\A j \in 1..Len(a): a[j] \in Nat) /\ \A j \in 1..Len(a): b[j] \in Nat
    BY <1>1, <1>2 DEF Path
  <2> DEFINE x == SubSeq(a, 1, Len(a))
             y == SubSeq(b, 1, Len(a))
  <2>3. /\ x \in Seq(Nat) /\ Len(x) = (IF 1 <= Len(a) THEN Len(a) - 1 + 1 ELSE 0)
        /\ \A j \in 1..(Len(a) - 1 + 1): x[j] = a[1 + j - 1]
    BY <2>1, <2>2, SubSeqProperties
  <2>4. /\ y \in Seq(Nat) /\ Len(y) = (IF 1 <= Len(a) THEN Len(a) - 1 + 1 ELSE 0)
        /\ \A j \in 1..(Len(a) - 1 + 1): y[j] = b[1 + j - 1]
    BY <2>1, <2>2, SubSeqProperties
  <2> HIDE DEF x, y
  <2>5. Len(x) = Len(a) /\ Len(y) = Len(a)
    BY <1>1, <2>3, <2>4
  <2>6. ASSUME NEW j \in 1..Len(a) PROVE x[j] = a[j] /\ y[j] = b[j]
    <3>1. j \in 1..(Len(a) - 1 + 1) /\ 1 + j - 1 = j
      BY <1>1
    <3> QED
      BY <2>3, <2>4, <3>1
  <2>7. ASSUME \A j \in 1..Len(a): a[j] = b[j] PROVE x = y
    <3>1. \A j \in 1..Len(x): x[j] = y[j]
      BY <2>5, <2>6, <2>7
    <3> QED
      BY <2>3, <2>4, <2>5, <3>1, SeqEqual
  <2> QED
    BY <2>6, <2>7 DEF x, y
<1>3. ASSUME Len(a) = Len(b), \A j \in 1..Len(a): a[j] = b[j] PROVE a = b
  BY <1>3, SeqEqual DEF Path
<1>4. ASSUME IsStrictPrefix(a, b)
      PROVE  Len(a) < Len(b) /\ \A j \in 1..Len(a): a[j] = b[j]
  <2>1. Len(a) <= Len(b) /\ (\A j \in 1..Len(a): a[j] = b[j]) /\ a # b
    BY <1>2, <1>4 DEF IsStrictPrefix, IsPrefix
  <2>2. Len(a) # Len(b)
    BY <1>3, <2>1
  <2>3. Len(a) <= Len(b)
    BY <2>1
  <2>4. Len(a) < Len(b)
    <3>1. Len(a) \in Nat /\ Len(b) \in Nat
      BY <1>1
    <3> QED
      BY <2>2, <2>3, <3>1
  <2> QED
    BY <2>1, <2>4
<1>5. ASSUME Len(a) < Len(b), \A j \in 1..Len(a): a[j] = b[j] PROVE IsStrictPrefix(a, b)
  <2>1. Len(a) <= Len(b) /\ a # b
    BY <1>1, <1>5
  <2> QED
    BY <1>2, <1>5, <2>1 DEF IsStrictPrefix, IsPrefix
<1> QED
  BY <1>1, <1>4, <1>5

LEMMA BeforeOK ==
  ASSUME NEW a \in Path, NEW b \in Path
  PROVE  Before(a, b) <=> \E i \in Nat: DiffersAt(a, b, i)
<1>1. /\ Len(a) \in Nat /\ Len(b) \in Nat
      /\ DOMAIN a = 1..Len(a) /\ DOMAIN b = 1..Len(b)
      /\ IsStrictPrefix(a, b) <=> Len(a) < Len(b) /\ \A j \in 1..Len(a): a[j] = b[j]
  BY PrefixOK
<1>2. ASSUME IsStrictPrefix(a, b) PROVE \E i \in Nat: DiffersAt(a, b, i)
  <2> DEFINE i == Len(a) + 1
  <2>1. i \in Nat /\ i \in 1..Len(b) /\ i <= Len(a) + 1 /\ ~(i <= Len(a)) /\ i - 1 = Len(a)
    BY <1>1, <1>2
  <2> HIDE DEF i
  <2>2. DiffersAt(a, b, i)
    BY <1>1, <1>2, <2>1 DEF DiffersAt
  <2> QED
    BY <2>1, <2>2
<1>3. ASSUME NEW i \in DOMAIN a \cap DOMAIN b, a[i] < b[i], \A j \in 1..(i - 1): a[j] = b[j]
      PROVE  \E k \in Nat: DiffersAt(a, b, k)
  <2>1. i \in Nat /\ i \in 1..Len(b) /\ i <= Len(a) + 1
    BY <1>1
  <2>2. DiffersAt(a, b, i)
    BY <1>3, <2>1 DEF DiffersAt
  <2> QED
    BY <2>1, <2>2
<1>4. ASSUME NEW i \in Nat, DiffersAt(a, b, i) PROVE Before(a, b)
  <2>1. CASE i <= Len(a)
    <3>1. i \in DOMAIN a \cap DOMAIN b
      BY <1>1, <1>4, <2>1 DEF DiffersAt
    <3> QED
      BY <1>4, <2>1, <3>1 DEF Before, DiffersAt
  <2>2. CASE ~(i <= Len(a))
    <3>1. i - 1 = Len(a) /\ Len(a) < Len(b)
      BY <1>1, <1>4, <2>2 DEF DiffersAt
    <3>2. IsStrictPrefix(a, b)
      BY <1>1, <1>4, <3>1 DEF DiffersAt
    <3> QED
      BY <3>2 DEF Before
  <2> QED
    BY <2>1, <2>2
<1> QED
  BY <1>2, <1>3, <1>4 DEF Before

LEMMA BeforeIrreflexive == ASSUME NEW a \in Path PROVE ~Before(a, a)
<1> SUFFICES ASSUME NEW i \in Nat, DiffersAt(a, a, i) PROVE FALSE
  BY BeforeOK
<1>1. i \in 1..Len(a) /\ Len(a) \in Nat
  BY PrefixOK DEF DiffersAt
<1>2. a[i] \in Nat
  BY <1>1 DEF Path
<1>3. a[i] < a[i]
  BY <1>1 DEF DiffersAt
<1> QED
  BY <1>2, <1>3

LEMMA BeforeTransitive ==
  ASSUME NEW a \in Path, NEW b \in Path, NEW c \in Path, Before(a, b), Before(b, c)
  PROVE  Before(a, c)
<1>1. PICK i \in Nat: DiffersAt(a, b, i)
  BY BeforeOK
<1>2. PICK j \in Nat: DiffersAt(b, c, j)
  BY BeforeOK
<1>3. Len(a) \in Nat /\ Len(b) \in Nat /\ Len(c) \in Nat
  BY PrefixOK
<1>4. /\ \A k \in 1..Len(a): a[k] \in Nat
      /\ \A k \in 1..Len(b): b[k] \in Nat
      /\ \A k \in 1..Len(c): c[k] \in Nat
  BY DEF Path
<1>5. CASE i < j
  <2>1. i \in 1..Len(c) /\ i <= Len(a) + 1
    BY <1>1, <1>2, <1>3, <1>5 DEF DiffersAt
  <2>2. c[i] = b[i]
    <3>1. i \in 1..(j - 1)
      BY <1>1, <1>5 DEF DiffersAt
    <3> QED
      BY <1>2, <3>1 DEF DiffersAt
  <2>3. ASSUME NEW k \in 1..(i - 1) PROVE a[k] = c[k]
    <3>1. k \in 1..(j - 1)
      BY <1>5
    <3> QED
      BY <1>1, <1>2, <3>1 DEF DiffersAt
  <2>4. DiffersAt(a, c, i)
    BY <1>1, <2>1, <2>2, <2>3 DEF DiffersAt
  <2> QED
    BY <2>4, BeforeOK
<1>6. CASE j < i
  <2>1. /\ j \in 1..Len(c) /\ j \in 1..Len(a) /\ j \in 1..Len(b)
        /\ j <= Len(a) + 1 /\ j \in 1..(i - 1)
    BY <1>1, <1>2, <1>3, <1>6 DEF DiffersAt
  <2>2. a[j] = b[j]
    BY <1>1, <2>1 DEF DiffersAt
  <2>3. b[j] < c[j]
    BY <1>2, <2>1 DEF DiffersAt
  <2>4. ASSUME NEW k \in 1..(j - 1) PROVE a[k] = c[k]
    <3>1. k \in 1..(i - 1)
      BY <1>6
    <3> QED
      BY <1>1, <1>2, <3>1 DEF DiffersAt
  <2>5. DiffersAt(a, c, j)
    BY <2>1, <2>2, <2>3, <2>4 DEF DiffersAt
  <2> QED
    BY <2>5, BeforeOK
<1>7. CASE i = j
  <2>1. i \in 1..Len(c) /\ i \in 1..Len(b) /\ i <= Len(a) + 1
    BY <1>1, <1>2, <1>7 DEF DiffersAt
  <2>2. b[i] < c[i] /\ b[i] \in Nat /\ c[i] \in Nat
    BY <1>2, <1>4, <1>7, <2>1 DEF DiffersAt
  <2>3. ASSUME i <= Len(a) PROVE a[i] < c[i]
    <3>1. i \in 1..Len(a) /\ a[i] < b[i]
      BY <1>1, <2>1, <2>3 DEF DiffersAt
    <3>2. a[i] \in Nat
      BY <1>4, <3>1
    <3> QED
      BY <2>2, <3>1, <3>2
  <2>4. \A k \in 1..(i - 1): a[k] = c[k]
    BY <1>1, <1>2, <1>7 DEF DiffersAt
  <2>5. DiffersAt(a, c, i)
    BY <2>1, <2>3, <2>4 DEF DiffersAt
  <2> QED
    BY <2>5, BeforeOK
<1> QED
  BY <1>5, <1>6, <1>7

LEMMA BeforeTotal ==
  ASSUME NEW a \in Path, NEW b \in Path
  PROVE  a = b \/ Before(a, b) \/ Before(b, a)
<1>1. Len(a) \in Nat /\ Len(b) \in Nat
  BY PrefixOK
<1> DEFINE D == {i \in Nat \ {0} : i > Len(a) \/ i > Len(b) \/ a[i] # b[i]}
<1>2. D \in SUBSET Nat
  OBVIOUS
<1>3. Len(a) + 1 \in D
  BY <1>1
<1>4. PICK i \in D: \A j \in D: i <= j
  BY <1>2, <1>3, LeastExists
<1>5. i \in Nat /\ i >= 1 /\ i <= Len(a) + 1 /\ i <= Len(b) + 1
  <2>1. Len(b) + 1 \in D
    BY <1>1
  <2> QED
    BY <1>3, <1>4, <2>1
<1>6. ASSUME NEW j \in 1..(i - 1) PROVE a[j] = b[j]
  <2>1. j \in Nat \ {0} /\ j \notin D
    BY <1>4, <1>5
  <2> QED
    BY <2>1
<1>7. i > Len(a) \/ i > Len(b) \/ a[i] # b[i]
  BY <1>4
<1> HIDE DEF D
<1>8. CASE i > Len(a) /\ i > Len(b)
  <2>1. Len(a) = Len(b) /\ i - 1 = Len(a)
    BY <1>1, <1>5, <1>8
  <2>2. a = b
    BY <1>6, <2>1, SeqEqual DEF Path
  <2> QED
    BY <2>2
<1>9. CASE i > Len(a) /\ i <= Len(b)
  <2>1. DiffersAt(a, b, i)
    BY <1>1, <1>5, <1>6, <1>9 DEF DiffersAt
  <2> QED
    BY <1>5, <2>1, BeforeOK
<1>10. CASE i > Len(b) /\ i <= Len(a)
  <2>1. DiffersAt(b, a, i)
    BY <1>1, <1>5, <1>6, <1>10 DEF DiffersAt
  <2> QED
    BY <1>5, <2>1, BeforeOK
<1>11. CASE i <= Len(a) /\ i <= Len(b)
  <2>1. a[i] # b[i] /\ a[i] \in Nat /\ b[i] \in Nat
    BY <1>1, <1>5, <1>7, <1>11 DEF Path
  <2>2. CASE a[i] < b[i]
    <3>1. DiffersAt(a, b, i)
      BY <1>1, <1>5, <1>6, <1>11, <2>2 DEF DiffersAt
    <3> QED
      BY <1>5, <3>1, BeforeOK
  <2>3. CASE b[i] < a[i]
    <3>1. DiffersAt(b, a, i)
      BY <1>1, <1>5, <1>6, <1>11, <2>3 DEF DiffersAt
    <3> QED
      BY <1>5, <3>1, BeforeOK
  <2> QED
    BY <2>1, <2>2, <2>3
<1> QED
  BY <1>1, <1>5, <1>8, <1>9, <1>10, <1>11

\* The first numbers of a path.
LEMMA CutOK ==
  ASSUME NEW s \in Path, NEW l \in 0..Len(s)
  PROVE  /\ SubSeq(s, 1, l) \in Path /\ Len(SubSeq(s, 1, l)) = l
         /\ \A j \in 1..l: SubSeq(s, 1, l)[j] = s[j]
<1>1. Len(s) \in Nat /\ l \in Nat /\ 1 \in Int /\ l \in Int
  BY DEF Path
<1>2. \A j \in 1..l: s[j] \in Nat
  BY <1>1 DEF Path
<1> DEFINE x == SubSeq(s, 1, l)
<1>3. /\ x \in Seq(Nat) /\ Len(x) = (IF 1 <= l THEN l - 1 + 1 ELSE 0)
      /\ \A j \in 1..(l - 1 + 1): x[j] = s[1 + j - 1]
  BY <1>1, <1>2, SubSeqProperties
<1> HIDE DEF x
<1>4. Len(x) = l
  BY <1>1, <1>3
<1>5. ASSUME NEW j \in 1..l PROVE x[j] = s[j]
  <2>1. j \in 1..(l - 1 + 1) /\ 1 + j - 1 = j
    BY <1>1
  <2> QED
    BY <1>3, <2>1
<1> QED
  BY <1>3, <1>4, <1>5 DEF x, Path

LEMMA CutOfCut ==
  ASSUME NEW s \in Path, NEW l \in 0..Len(s), NEW n \in 0..l
  PROVE  SubSeq(SubSeq(s, 1, l), 1, n) = SubSeq(s, 1, n)
<1>1. Len(s) \in Nat /\ l \in Nat /\ n \in Nat /\ n \in 0..Len(s)
  BY DEF Path
<1> DEFINE x == SubSeq(s, 1, l)
           y == SubSeq(x, 1, n)
           z == SubSeq(s, 1, n)
<1>2. x \in Path /\ Len(x) = l /\ \A j \in 1..l: x[j] = s[j]
  BY CutOK
<1>3. z \in Path /\ Len(z) = n /\ \A j \in 1..n: z[j] = s[j]
  BY <1>1, CutOK
<1> HIDE DEF x, z
<1>4. n \in 0..Len(x)
  BY <1>2
<1>5. y \in Path /\ Len(y) = n /\ \A j \in 1..n: y[j] = x[j]
  BY <1>2, <1>4, CutOK
<1> HIDE DEF y
<1>6. \A j \in 1..n: y[j] = z[j]
  <2> TAKE j \in 1..n
  <2>1. j \in 1..l
    BY <1>1
  <2> QED
    BY <1>2, <1>3, <1>5, <2>1
<1>7. y = z
  BY <1>3, <1>5, <1>6, SeqEqual DEF Path
<1> QED
  BY <1>7 DEF x, y, z

LEMMA PartsOK ==
  ASSUME NEW k \in TreeKey
  PROVE  Parts[k] \in Path /\ Len(Parts[k]) \in Nat \ {0}
<1>1. Parts[k] \in Seq(Nat) /\ Parts[k] # <<>>
  BY KeyTreeAssumption
<1> QED
  BY <1>1 DEF Path

\* The nodes are the cuts of the keys' paths.
LEMMA TreeOK ==
  ASSUME NEW keys \in SUBSET TreeKey
  PROVE  /\ IsFiniteSet(Tree(keys)) /\ Tree(keys) \in SUBSET Path
         /\ Tree(keys) \in SUBSET Tree(TreeKey)
         /\ \A x \in Tree(keys): /\ Len(x) \in Nat \ {0}
              /\ \E k \in keys: \E l \in 1..Len(Parts[k]): x = SubSeq(Parts[k], 1, l)
         /\ \A k \in keys: \A l \in 1..Len(Parts[k]): SubSeq(Parts[k], 1, l) \in Tree(keys)
<1>1. \A k \in keys: Parts[k] \in Path /\ Len(Parts[k]) \in Nat \ {0}
  BY PartsOK
<1> DEFINE sets == {Prefixes(Parts[k]) : k \in keys}
<1>2. IsFiniteSet(sets)
  <2>1. IsFiniteSet(keys)
    BY KeyTreeAssumption, FS_Subset
  <2> DEFINE f == [k \in keys |-> Prefixes(Parts[k])]
  <2>2. f \in Surjection(keys, sets)
    BY DEF Surjection
  <2> HIDE DEF f, sets
  <2> QED
    BY <2>1, <2>2, FS_Surjection
<1>3. ASSUME NEW k \in keys PROVE IsFiniteSet(Prefixes(Parts[k]))
  <2> DEFINE n == Len(Parts[k])
             f == [l \in 0..n |-> SubSeq(Parts[k], 1, l)]
  <2>1. f \in Surjection(0..n, Prefixes(Parts[k]))
    BY DEF Surjection, Prefixes
  <2>2. IsFiniteSet(0..n)
    <3>1. 0 \in Int /\ n \in Int
      BY <1>1
    <3> HIDE DEF n
    <3> QED
      BY <3>1, FS_Interval
  <2> HIDE DEF f, n
  <2> QED
    BY <2>1, <2>2, FS_Surjection
<1>4. IsFiniteSet(Tree(keys))
  <2>1. IsFiniteSet(UNION sets)
    <3>1. \A T \in sets: IsFiniteSet(T)
      BY <1>3
    <3> HIDE DEF sets
    <3> QED
      BY <1>2, <3>1, FS_UNION
  <2>2. Tree(keys) \in SUBSET UNION sets
    BY DEF Tree
  <2> HIDE DEF sets
  <2> QED
    BY <2>1, <2>2, FS_Subset
<1>5. ASSUME NEW x \in Tree(keys)
      PROVE  /\ x \in Path /\ Len(x) \in Nat \ {0}
             /\ \E k \in keys: \E l \in 1..Len(Parts[k]): x = SubSeq(Parts[k], 1, l)
  <2>1. PICK k \in keys: x \in Prefixes(Parts[k])
    BY DEF Tree
  <2>2. PICK l \in 0..Len(Parts[k]): x = SubSeq(Parts[k], 1, l)
    BY <2>1 DEF Prefixes
  <2>3. x \in Path /\ Len(x) = l
    BY <1>1, <2>2, CutOK
  <2>4. x # <<>>
    <3>1. x \notin {<<>>}
      BY Zenon DEF Tree
    <3> QED
      BY <3>1
  <2>5. l # 0
    <3> SUFFICES ASSUME Len(x) = 0 PROVE FALSE
      BY <2>3
    <3> QED
      BY <2>3, <2>4 DEF Path
  <2>6. l \in 1..Len(Parts[k]) /\ l \in Nat \ {0}
    BY <1>1, <2>5
  <2> QED
    BY <2>2, <2>3, <2>6
<1>6. ASSUME NEW k \in keys, NEW l \in 1..Len(Parts[k]) PROVE SubSeq(Parts[k], 1, l) \in Tree(keys)
  <2> DEFINE x == SubSeq(Parts[k], 1, l)
  <2>1. l \in 0..Len(Parts[k])
    BY <1>1
  <2>2. x \in Path /\ Len(x) = l
    BY <1>1, <2>1, CutOK
  <2>3. x \in Prefixes(Parts[k])
    BY <2>1 DEF Prefixes
  <2> HIDE DEF x
  <2>4. x \notin {<<>>}
    BY <1>1, <2>2 DEF Path
  <2>5. x \in UNION {Prefixes(Parts[i]) : i \in keys}
    BY <2>3
  <2>6. x \in Tree(keys)
    BY <2>4, <2>5, Zenon DEF Tree
  <2> QED
    BY <2>6 DEF x
<1>7. Tree(keys) \in SUBSET Tree(TreeKey)
  BY DEF Tree
<1> QED
  BY <1>4, <1>5, <1>6, <1>7

\* The rows are the nodes, each once, in the order of the walk.
Walked(rows, nodes, n) ==
  /\ n \in Nat /\ rows \in [1..n -> nodes]
  /\ \A x \in nodes: \E i \in 1..n: rows[i] = x
  /\ \A i, j \in 1..n: i < j => Before(rows[i], rows[j])

LEMMA DepthFirstOK ==
  ASSUME NEW nodes \in SUBSET Path, IsFiniteSet(nodes)
  PROVE  Walked(DepthFirst(nodes), nodes, Cardinality(nodes))
<1> DEFINE n == Cardinality(nodes)
           R == {p \in nodes \X nodes : Before(p[1], p[2])}
           rank == Rank(nodes, R)
           At(i) == CHOOSE node \in nodes : Cardinality({m \in nodes : Before(m, node)}) = i - 1
<1>1. \A x, y \in nodes: <<x, y>> \in R <=> Before(x, y)
  OBVIOUS
<1>2. \A x \in nodes: {y \in nodes : <<y, x>> \in R} = {m \in nodes : Before(m, x)}
  BY <1>1
<1>3. \A x \in nodes: rank[x] = Cardinality({m \in nodes : Before(m, x)})
  BY <1>2 DEF Rank
<1> HIDE DEF R, rank
<1>4. Ordered(nodes, R)
  <2>1. \A x \in nodes: <<x, x>> \notin R
    BY <1>1, BeforeIrreflexive
  <2>2. \A x, y, z \in nodes: <<x, y>> \in R /\ <<y, z>> \in R => <<x, z>> \in R
    BY <1>1, BeforeTransitive
  <2>3. \A x, y \in nodes: x = y \/ <<x, y>> \in R \/ <<y, x>> \in R
    BY <1>1, BeforeTotal
  <2> QED
    BY <2>1, <2>2, <2>3, Zenon DEF Ordered
<1>5. /\ n \in Nat /\ \A x \in nodes: rank[x] \in 0..(n - 1)
      /\ \A z \in 1..n: \E x \in nodes: rank[x] = z - 1
      /\ \A x, y \in nodes: <<x, y>> \in R => rank[x] < rank[y]
      /\ \A x, y \in nodes: rank[x] = rank[y] => x = y
  <2>1. Ranked(nodes, R, n, rank)
    BY <1>4, RankOK DEF rank
  <2> QED
    BY <2>1, Zenon DEF Ranked
<1> HIDE DEF n
<1>6. DepthFirst(nodes) = [i \in 1..n |-> At(i)]
  BY Zenon DEF DepthFirst, n
<1>7. ASSUME NEW i \in 1..n PROVE At(i) \in nodes /\ rank[At(i)] = i - 1
  <2>1. \E x \in nodes: Cardinality({m \in nodes : Before(m, x)}) = i - 1
    BY <1>3, <1>5
  <2>2. At(i) \in nodes /\ Cardinality({m \in nodes : Before(m, At(i))}) = i - 1
    BY <2>1
  <2> QED
    BY <1>3, <2>2
<1> HIDE DEF At
<1> DEFINE rows == DepthFirst(nodes)
<1>8. rows \in [1..n -> nodes] /\ \A i \in 1..n: rows[i] \in nodes /\ rank[rows[i]] = i - 1
  BY <1>6, <1>7
<1> HIDE DEF rows
<1>9. ASSUME NEW x \in nodes PROVE \E i \in 1..n: rows[i] = x
  <2>1. PICK c \in 0..(n - 1): c = rank[x]
    BY <1>5
  <2>2. PICK i \in 1..n: i = c + 1 /\ i - 1 = c
    BY <1>5
  <2>3. rows[i] \in nodes /\ rank[rows[i]] = rank[x]
    BY <1>8, <2>1, <2>2
  <2> QED
    BY <1>5, <2>3
<1>10. ASSUME NEW i \in 1..n, NEW j \in 1..n, i < j PROVE Before(rows[i], rows[j])
  <2>1. /\ rows[i] \in nodes /\ rows[j] \in nodes
        /\ rank[rows[i]] = i - 1 /\ rank[rows[j]] = j - 1
    BY <1>8
  <2>2. rows[i] # rows[j]
    BY <1>10, <2>1
  <2>3. ~Before(rows[j], rows[i])
    <3> SUFFICES ASSUME Before(rows[j], rows[i]) PROVE FALSE
      OBVIOUS
    <3>1. rank[rows[j]] < rank[rows[i]]
      BY <1>1, <1>5, <2>1
    <3>2. j - 1 < i - 1
      BY <2>1, <3>1
    <3> QED
      BY <1>10, <3>2
  <2> QED
    BY <2>1, <2>2, <2>3, BeforeTotal
<1> QED
  BY <1>5, <1>8, <1>9, <1>10 DEF Walked, n, rows

\* What comes between a folder and something in it is in the folder too.
LEMMA BetweenIsInside ==
  ASSUME NEW f \in Path, NEW x \in Path, NEW node \in Path,
         IsStrictPrefix(f, node), Before(f, x), Before(x, node)
  PROVE  IsStrictPrefix(f, x)
<1>1. /\ Len(f) \in Nat /\ Len(x) \in Nat /\ Len(node) \in Nat
      /\ Len(f) < Len(node) /\ \A j \in 1..Len(f): f[j] = node[j]
  BY PrefixOK
<1>2. /\ \A k \in 1..Len(f): f[k] \in Nat
      /\ \A k \in 1..Len(x): x[k] \in Nat
      /\ \A k \in 1..Len(node): node[k] \in Nat
  BY DEF Path
<1>3. PICK i \in Nat: DiffersAt(f, x, i)
  BY BeforeOK
<1>4. PICK j \in Nat: DiffersAt(x, node, j)
  BY BeforeOK
<1>5. i \in 1..Len(x) /\ i <= Len(f) + 1 /\ \A k \in 1..(i - 1): f[k] = x[k]
  BY <1>3 DEF DiffersAt
<1>6. ~(i <= Len(f))
  <2> SUFFICES ASSUME i <= Len(f) PROVE FALSE
    OBVIOUS
  <2>1. i \in 1..Len(f) /\ i \in 1..Len(node) /\ f[i] < x[i] /\ f[i] = node[i]
    BY <1>1, <1>3, <1>5 DEF DiffersAt
  <2>2. f[i] \in Nat /\ x[i] \in Nat
    BY <1>2, <1>5, <2>1
  <2>3. CASE i < j
    <3>1. i \in 1..(j - 1)
      BY <1>5, <2>3
    <3>2. x[i] = node[i]
      BY <1>4, <3>1 DEF DiffersAt
    <3> QED
      BY <2>1, <2>2, <3>2
  <2>4. CASE j < i
    <3>1. j \in 1..(i - 1) /\ j \in 1..Len(f) /\ j \in 1..Len(x)
      BY <1>1, <1>4, <1>5, <2>1, <2>4 DEF DiffersAt
    <3>2. x[j] = f[j] /\ f[j] = node[j]
      BY <1>1, <1>5, <3>1
    <3>3. x[j] < node[j] /\ x[j] \in Nat
      BY <1>2, <1>4, <3>1 DEF DiffersAt
    <3> QED
      BY <3>2, <3>3
  <2>5. CASE i = j
    <3>1. x[i] < node[i]
      BY <1>4, <1>5, <2>5 DEF DiffersAt
    <3> QED
      BY <2>1, <2>2, <3>1
  <2> QED
    BY <2>3, <2>4, <2>5
<1>7. i - 1 = Len(f) /\ Len(f) < Len(x)
  BY <1>1, <1>5, <1>6
<1> QED
  BY <1>5, <1>7, PrefixOK

\* The nodes that show: with each of them there is its folder.
Folder(x) == SubSeq(x, 1, Len(x) - 1)
Shows(nodes) ==
  /\ nodes \in SUBSET Path /\ IsFiniteSet(nodes) /\ nodes \in SUBSET Tree(TreeKey)
  /\ \A x \in nodes: Len(x) \in Nat \ {0}
  /\ \A x \in nodes: Len(x) # 1 => Folder(x) \in nodes

LEMMA OpenNodesOK ==
  ASSUME NEW keys \in SUBSET TreeKey, NEW open
  PROVE  Shows(OpenNodes(keys, open))
<1> DEFINE nodes == OpenNodes(keys, open)
<1>1. /\ IsFiniteSet(Tree(keys)) /\ Tree(keys) \in SUBSET Path
      /\ Tree(keys) \in SUBSET Tree(TreeKey)
      /\ \A x \in Tree(keys): /\ Len(x) \in Nat \ {0}
           /\ \E k \in keys: \E l \in 1..Len(Parts[k]): x = SubSeq(Parts[k], 1, l)
      /\ \A k \in keys: \A l \in 1..Len(Parts[k]): SubSeq(Parts[k], 1, l) \in Tree(keys)
  BY TreeOK
<1>2. nodes \in SUBSET Tree(keys)
  BY DEF OpenNodes
<1>3. IsFiniteSet(nodes)
  BY <1>1, <1>2, FS_Subset
<1>4. ASSUME NEW x \in nodes, Len(x) # 1 PROVE Folder(x) \in nodes
  <2>1. PICK k \in keys: \E l \in 1..Len(Parts[k]): x = SubSeq(Parts[k], 1, l)
    BY <1>1, <1>2
  <2>2. PICK l \in 1..Len(Parts[k]): x = SubSeq(Parts[k], 1, l)
    BY <2>1
  <2>3. Parts[k] \in Path /\ Len(Parts[k]) \in Nat \ {0}
    BY PartsOK
  <2>4. l \in 0..Len(Parts[k]) /\ l \in Nat
    BY <2>3
  <2>5. x \in Path /\ Len(x) = l
    BY <2>2, <2>3, <2>4, CutOK
  <2>6. /\ l - 1 \in 0..l /\ l - 1 \in 1..Len(Parts[k]) /\ l - 1 \in 0..Len(x)
        /\ l - 2 = l - 1 - 1
    BY <1>4, <2>3, <2>4, <2>5
  <2> DEFINE f == SubSeq(x, 1, l - 1)
  <2>7. f = SubSeq(Parts[k], 1, l - 1)
    BY <2>2, <2>3, <2>4, <2>6, CutOfCut
  <2>8. f \in Path /\ Len(f) = l - 1
    BY <2>5, <2>6, CutOK
  <2>9. f \in Tree(keys)
    BY <1>1, <2>6, <2>7
  <2>10. ASSUME NEW n \in 1..(Len(f) - 1) PROVE SubSeq(f, 1, n) \in open
    <3>1. n \in 0..(l - 1) /\ n \in 1..(Len(x) - 1)
      BY <2>4, <2>5, <2>8
    <3>2. SubSeq(f, 1, n) = SubSeq(x, 1, n)
      BY <2>5, <2>6, <3>1, CutOfCut
    <3>3. \A i \in 1..(Len(x) - 1): SubSeq(x, 1, i) \in open
      BY DEF OpenNodes
    <3> QED
      BY <3>1, <3>2, <3>3
  <2>11. Folder(x) = f
    BY <2>5 DEF Folder
  <2> HIDE DEF f
  <2> QED
    BY <2>9, <2>10, <2>11 DEF OpenNodes
<1> HIDE DEF nodes
<1>5. Shows(nodes)
  BY <1>1, <1>2, <1>3, <1>4 DEF Shows
<1> QED
  BY <1>5 DEF nodes

\* The row of a node's folder is above it, and all between are deeper.
LEMMA FolderIsAbove ==
  ASSUME NEW nodes, Shows(nodes), NEW n, NEW rows, Walked(rows, nodes, n),
         NEW i \in 1..n, Len(rows[i]) # 1
  PROVE  \E m \in 1..n: /\ m < i /\ rows[m] = Folder(rows[i])
                        /\ Len(rows[m]) = Len(rows[i]) - 1
                        /\ \A j \in 1..n: m < j /\ j < i => Len(rows[j]) >= Len(rows[i])
<1>1. /\ n \in Nat /\ \A j \in 1..n: rows[j] \in nodes
      /\ \A x \in nodes: \E j \in 1..n: rows[j] = x
      /\ \A j, k \in 1..n: j < k => Before(rows[j], rows[k])
  BY DEF Walked
<1>2. /\ nodes \in SUBSET Path
      /\ \A x \in nodes: Len(x) \in Nat \ {0}
      /\ \A x \in nodes: Len(x) # 1 => Folder(x) \in nodes
  BY DEF Shows
<1> DEFINE node == rows[i]
           f == Folder(node)
<1>3. node \in nodes /\ node \in Path /\ Len(node) \in Nat \ {0} /\ Len(node) # 1
  BY <1>1, <1>2
<1>4. f \in nodes /\ f \in Path
  BY <1>2, <1>3
<1> HIDE DEF node
<1>5. Len(node) - 1 \in 0..Len(node) /\ Len(node) - 1 \in Nat \ {0}
  BY <1>3
<1>6. Len(f) = Len(node) - 1 /\ \A j \in 1..(Len(node) - 1): f[j] = node[j]
  BY <1>3, <1>5, CutOK DEF Folder
<1> HIDE DEF f
<1>7. IsStrictPrefix(f, node)
  <2>1. Len(f) < Len(node) /\ \A j \in 1..Len(f): f[j] = node[j]
    BY <1>3, <1>6
  <2> QED
    BY <1>3, <1>4, <2>1, PrefixOK
<1>8. PICK m \in 1..n: rows[m] = f
  BY <1>1, <1>4
<1>9. m < i
  <2>1. m # i
    <3>1. Len(f) # Len(node)
      BY <1>3, <1>6
    <3> QED
      BY <1>8, <3>1 DEF node
  <2>2. ~(i < m)
    <3> SUFFICES ASSUME i < m PROVE FALSE
      OBVIOUS
    <3>1. Before(node, f)
      BY <1>1, <1>8 DEF node
    <3>2. Before(f, node)
      BY <1>7 DEF Before
    <3> QED
      BY <1>3, <1>4, <3>1, <3>2, BeforeTransitive, BeforeIrreflexive
  <2> QED
    BY <1>1, <2>1, <2>2
<1>10. ASSUME NEW j \in 1..n, m < j, j < i PROVE Len(rows[j]) >= Len(node)
  <2>1. rows[j] \in Path /\ Before(f, rows[j]) /\ Before(rows[j], node)
    BY <1>1, <1>2, <1>8, <1>10 DEF node
  <2>2. IsStrictPrefix(f, rows[j])
    BY <1>3, <1>4, <1>7, <2>1, BetweenIsInside
  <2>3. Len(rows[j]) \in Nat /\ Len(f) < Len(rows[j])
    BY <1>4, <2>1, <2>2, PrefixOK
  <2> QED
    BY <1>3, <1>6, <2>3
<1> QED
  BY <1>6, <1>8, <1>9, <1>10 DEF node, f

LEMMA FlattenOK ==
  ASSUME NEW keys \in SUBSET TreeKey, NEW open \in SUBSET Tree(TreeKey)
  PROVE  /\ Flatten[<<keys, open>>] = DepthFirst(OpenNodes(keys, open))
         /\ Shows(OpenNodes(keys, open))
         /\ Walked(Flatten[<<keys, open>>], OpenNodes(keys, open),
                   Cardinality(OpenNodes(keys, open)))
<1> DEFINE nodes == OpenNodes(keys, open)
<1>1. Flatten[<<keys, open>>] = DepthFirst(nodes)
  BY DEF Flatten
<1>2. Shows(nodes)
  BY OpenNodesOK
<1> HIDE DEF nodes
<1>3. nodes \in SUBSET Path /\ IsFiniteSet(nodes)
  BY <1>2 DEF Shows
<1>4. Walked(DepthFirst(nodes), nodes, Cardinality(nodes))
  BY <1>3, DepthFirstOK
<1> QED
  BY <1>1, <1>2, <1>4 DEF nodes

\* The rows on screen.
ShownRows(nodes, n) ==
  /\ nodes = OpenNodes(ktKeys, ktOpen) /\ Shows(nodes) /\ Walked(Rows, nodes, n)
  /\ n \in Nat /\ DOMAIN Rows = 1..n /\ Len(Rows) = n
  /\ \A i \in 1..n: Rows[i] \in nodes /\ Rows[i] \in Path /\ Depth(i) \in Nat \ {0}

LEMMA RowsOK == ASSUME KeyTreeTypeOK PROVE \E nodes, n: ShownRows(nodes, n)
<1>1. ktKeys \in SUBSET TreeKey /\ ktOpen \in SUBSET Tree(TreeKey)
  BY DEF KeyTreeTypeOK
<1> DEFINE nodes == OpenNodes(ktKeys, ktOpen)
           n == Cardinality(nodes)
<1>2. Shows(nodes) /\ Walked(Rows, nodes, n)
  BY <1>1, FlattenOK DEF Rows
<1> HIDE DEF nodes, n
<1>3. n \in Nat /\ Rows \in [1..n -> nodes]
  BY <1>2 DEF Walked
<1>4. Rows \in Seq(nodes)
  BY <1>3, SeqDef, Zenon
<1>5. Len(Rows) = n
  BY <1>3, <1>4, LenProperties
<1>6. ASSUME NEW i \in 1..n PROVE Rows[i] \in nodes /\ Rows[i] \in Path /\ Depth(i) \in Nat \ {0}
  BY <1>2, <1>3 DEF Shows, Depth
<1>7. ShownRows(nodes, n)
  BY <1>2, <1>3, <1>5, <1>6 DEF ShownRows, nodes
<1> QED
  BY <1>7

\* ArrowLeft leads to the folder.
LEMMA ParentIdxOK ==
  ASSUME NEW nodes, NEW n, ShownRows(nodes, n), NEW i \in 1..n
  PROVE  IF Depth(i) = 1 THEN ParentIdxOf(i) = i
         ELSE ParentIdxOf(i) < i /\ Rows[ParentIdxOf(i)] = Front(Rows[i])
<1> DEFINE Above == {k \in 1..(i - 1): Depth(k) < Depth(i)}
           Greatest == CHOOSE k \in Above: \A j \in Above: j <= k
<1>1. ParentIdxOf(i) = IF Above = {} THEN i ELSE Greatest
  BY DEF ParentIdxOf
<1>2. n \in Nat /\ \A k \in 1..n: Depth(k) \in Nat \ {0}
  BY DEF ShownRows
<1>3. ASSUME NEW k \in Above PROVE k \in 1..n /\ k < i /\ k \in Nat /\ Depth(k) < Depth(i)
  BY <1>2
<1>4. CASE Depth(i) = 1
  <2>1. Above = {}
    <3> SUFFICES ASSUME NEW k \in Above PROVE FALSE
      OBVIOUS
    <3>1. k \in 1..n /\ Depth(k) < 1
      BY <1>3, <1>4
    <3>2. Depth(k) \in Nat \ {0}
      BY <1>2, <3>1
    <3> QED
      BY <3>1, <3>2
  <2> QED
    BY <1>1, <1>4, <2>1
<1>5. CASE Depth(i) # 1
  <2>1. Shows(nodes) /\ Walked(Rows, nodes, n) /\ Len(Rows[i]) # 1
    BY <1>5 DEF ShownRows, Depth
  <2>2. PICK m \in 1..n: /\ m < i /\ Rows[m] = Folder(Rows[i])
                         /\ Depth(m) = Depth(i) - 1
                         /\ \A j \in 1..n: m < j /\ j < i => Depth(j) >= Depth(i)
    BY <2>1, FolderIsAbove DEF Depth
  <2>3. m \in Above
    <3>1. m \in 1..(i - 1)
      BY <2>2
    <3>2. Depth(m) < Depth(i)
      BY <1>2, <2>2
    <3> QED
      BY <3>1, <3>2
  <2>4. ASSUME NEW j \in Above PROVE j <= m
    <3> SUFFICES ASSUME m < j PROVE FALSE
      BY <1>3
    <3>1. j \in 1..n /\ j < i /\ Depth(j) < Depth(i)
      BY <1>3
    <3>2. Depth(j) >= Depth(i)
      BY <2>2, <3>1
    <3> QED
      BY <1>2, <3>1, <3>2
  <2>5. Greatest \in Above /\ \A j \in Above: j <= Greatest
    BY <2>3, <2>4
  <2>6. Greatest = m
    <3>1. Greatest <= m /\ m <= Greatest /\ Greatest \in Nat
      BY <1>3, <2>3, <2>4, <2>5
    <3> HIDE DEF Greatest
    <3> QED
      BY <3>1
  <2>7. ParentIdxOf(i) = m
    BY <1>1, <2>3, <2>6
  <2> QED
    BY <1>5, <2>2, <2>7 DEF Folder, Front
<1> QED
  BY <1>4, <1>5

LEMMA RowsAreTheTreeOK == ASSUME KeyTreeTypeOK PROVE RowsAreTheTree
<1>1. PICK nodes, n: ShownRows(nodes, n)
  BY RowsOK
<1>2. \A i \in DOMAIN Rows:
        IF Depth(i) = 1 THEN ParentIdxOf(i) = i
        ELSE ParentIdxOf(i) < i /\ Rows[ParentIdxOf(i)] = Front(Rows[i])
  <2>1. DOMAIN Rows = 1..n
    BY <1>1 DEF ShownRows
  <2> QED
    BY <1>1, <2>1, ParentIdxOK
<1>3. ASSUME NEW k \in ktKeys,
             \A l \in 1..(Len(Parts[k]) - 1): SubSeq(Parts[k], 1, l) \in ktOpen
      PROVE  \E i \in DOMAIN Rows: Rows[i] = Parts[k]
  <2>1. ktKeys \in SUBSET TreeKey /\ k \in TreeKey
    BY DEF KeyTreeTypeOK
  <2>2. Parts[k] \in Path /\ Len(Parts[k]) \in Nat \ {0}
    BY <2>1, PartsOK
  <2> DEFINE p == Parts[k]
             l == Len(p)
  <2>3. SubSeq(p, 1, l) = p
    <3>1. l \in 0..Len(p) /\ l \in Nat
      BY <2>2
    <3> HIDE DEF p
    <3> DEFINE c == SubSeq(p, 1, l)
    <3>2. c \in Path /\ Len(c) = l /\ \A j \in 1..l: c[j] = p[j]
      BY <2>2, <3>1, CutOK DEF p
    <3> HIDE DEF c
    <3>3. c = p
      BY <2>2, <3>2, SeqEqual DEF Path, p
    <3> QED
      BY <3>3 DEF c
  <2>4. l \in 1..l
    BY <2>2
  <2>5. p \in Tree(ktKeys)
    <3>1. \A i \in ktKeys: \A j \in 1..Len(Parts[i]): SubSeq(Parts[i], 1, j) \in Tree(ktKeys)
      BY <2>1, TreeOK
    <3>2. SubSeq(Parts[k], 1, Len(Parts[k])) \in Tree(ktKeys)
      BY <2>4, <3>1
    <3> QED
      BY <2>3, <3>2
  <2>6. p \in OpenNodes(ktKeys, ktOpen)
    BY <1>3, <2>5 DEF OpenNodes
  <2> HIDE DEF p
  <2>7. Walked(Rows, OpenNodes(ktKeys, ktOpen), n) /\ DOMAIN Rows = 1..n
    BY <1>1 DEF ShownRows
  <2>8. \E i \in 1..n: Rows[i] = p
    BY <2>6, <2>7 DEF Walked
  <2> QED
    BY <2>7, <2>8 DEF p
<1> QED
  BY <1>2, <1>3 DEF RowsAreTheTree

LEMMA FocusOK ==
  ASSUME KeyTreeTypeOK, NEW keys \in SUBSET TreeKey, NEW open \in SUBSET Tree(TreeKey),
         NEW selected, FocusFollows(keys, open, selected)
  PROVE  ktFocus' \in Nat \ {0}
<1> DEFINE rows == Flatten[<<keys, open>>]
           At == {i \in DOMAIN rows: \E k \in selected \cap keys: Parts[k] = rows[i]}
<1>1. ktFocus' = IF At = {} THEN ktFocus ELSE CHOOSE i \in At: TRUE
  BY DEF FocusFollows
<1>2. ktFocus \in Nat \ {0}
  BY DEF KeyTreeTypeOK
<1>3. At \in SUBSET (Nat \ {0})
  <2>1. \E n \in Nat: DOMAIN rows = 1..n
    BY FlattenOK DEF Walked
  <2> HIDE DEF rows
  <2>2. DOMAIN rows \in SUBSET (Nat \ {0})
    BY <2>1
  <2> QED
    BY <2>2
<1> HIDE DEF At
<1> QED
  BY <1>1, <1>2, <1>3

LEMMA KeyOfOK ==
  ASSUME KeyTreeTypeOK, NEW node, IsLeaf(node, ktKeys)
  PROVE  KeyOf(node) \in ktKeys /\ KeyOf(node) \in TreeKey
BY DEF KeyTreeTypeOK, IsLeaf, KeyOf

LEMMA KeyTreeTypes ==
  KeyTreeTypeOK <=> /\ ktKeys \in SUBSET TreeKey /\ ktChecked \in SUBSET TreeKey
                    /\ ktSelected \in SUBSET TreeKey /\ ktOpen \in SUBSET Tree(TreeKey)
                    /\ ktFocus \in Nat \ {0}
BY DEF KeyTreeTypeOK

\* What the handlers of the tree are made of.
LEMMA TreeActionsOK ==
  ASSUME KeyTreeTypeOK
  PROVE  /\ \A i: MoveFocus(i) => KeyTreeTypeOK'
         /\ \A node \in Tree(TreeKey): ToggleOpen(node) => KeyTreeTypeOK'
         /\ \A k \in TreeKey: OnSelect(k) => KeyTreeTypeOK'
         /\ \A checked \in SUBSET TreeKey: SetChecked(checked) => KeyTreeTypeOK'
         /\ \A k \in TreeKey: ToggleCheck(k) => KeyTreeTypeOK'
<1>1. /\ ktKeys \in SUBSET TreeKey /\ ktChecked \in SUBSET TreeKey
      /\ ktSelected \in SUBSET TreeKey /\ ktOpen \in SUBSET Tree(TreeKey)
      /\ ktFocus \in Nat \ {0}
  BY KeyTreeTypes
<1>2. PICK nodes, n: ShownRows(nodes, n)
  BY RowsOK
<1>3. ASSUME NEW i, MoveFocus(i) PROVE KeyTreeTypeOK'
  <2>1. ktFocus' \in Nat \ {0}
    BY <1>2, <1>3 DEF ShownRows, MoveFocus
  <2> QED
    BY <1>1, <1>3, <2>1 DEF MoveFocus, KeyTreeTypeOK
<1>4. ASSUME NEW node \in Tree(TreeKey), ToggleOpen(node) PROVE KeyTreeTypeOK'
  <2> DEFINE open == IF node \in ktOpen THEN ktOpen \ {node} ELSE ktOpen \cup {node}
  <2>1. open \in SUBSET Tree(TreeKey)
    BY <1>1
  <2>2. ktOpen' = open /\ FocusFollows(ktKeys, open, ktSelected)
        /\ UNCHANGED <<ktKeys, ktSelected, ktChecked>>
    BY <1>4, Zenon DEF ToggleOpen, SetOpen
  <2> HIDE DEF open
  <2>3. ktFocus' \in Nat \ {0}
    BY <1>1, <2>1, <2>2, FocusOK
  <2> QED
    BY <1>1, <2>1, <2>2, <2>3 DEF KeyTreeTypeOK
<1>5. ASSUME NEW k \in TreeKey, OnSelect(k) PROVE KeyTreeTypeOK'
  <2>1. ktFocus' \in Nat \ {0}
    BY <1>1, <1>5, FocusOK DEF OnSelect
  <2> QED
    BY <1>1, <1>5, <2>1 DEF OnSelect, KeyTreeTypeOK
<1>6. ASSUME NEW checked \in SUBSET TreeKey, SetChecked(checked) PROVE KeyTreeTypeOK'
  BY <1>1, <1>6 DEF SetChecked, KeyTreeTypeOK
<1>7. ASSUME NEW k \in TreeKey, ToggleCheck(k) PROVE KeyTreeTypeOK'
  <2> DEFINE checked == IF k \in ktChecked THEN ktChecked \ {k} ELSE ktChecked \cup {k}
  <2>1. checked \in SUBSET TreeKey /\ SetChecked(checked)
    BY <1>1, <1>7 DEF ToggleCheck
  <2> QED
    BY <1>6, <2>1
<1> QED
  BY <1>3, <1>4, <1>5, <1>6, <1>7

LEMMA KeyDownOK ==
  ASSUME KeyTreeTypeOK, NEW key, OnKeyDown(key)
  PROVE  KeyTreeTypeOK'
<1>1. /\ \A i: MoveFocus(i) => KeyTreeTypeOK'
      /\ \A node \in Tree(TreeKey): ToggleOpen(node) => KeyTreeTypeOK'
      /\ \A k \in TreeKey: OnSelect(k) => KeyTreeTypeOK'
      /\ \A k \in TreeKey: ToggleCheck(k) => KeyTreeTypeOK'
  BY TreeActionsOK
<1>2. RowInFocus \in Tree(TreeKey)
  <2>1. PICK nodes, n: ShownRows(nodes, n)
    BY RowsOK
  <2>2. n \in Nat /\ DOMAIN Rows = 1..n /\ Len(Rows) = n /\ Shows(nodes)
        /\ \A i \in 1..n: Rows[i] \in nodes
    BY <2>1 DEF ShownRows
  <2>3. n # 0
    <3>1. Rows # <<>>
      BY DEF OnKeyDown
    <3>2. Rows \in Seq(nodes)
      <4>1. n \in Nat /\ Rows \in [1..n -> nodes]
        BY <2>1 DEF ShownRows, Walked
      <4> QED
        BY <4>1, SeqDef, Zenon
    <3>3. Len(Rows) # 0
      BY <3>1, <3>2, EmptySeq
    <3> QED
      BY <2>2, <3>3
  <2>4. Idx \in 1..n
    <3>1. ktFocus \in Nat \ {0}
      BY DEF KeyTreeTypeOK
    <3>2. Idx = IF ktFocus > n THEN n ELSE ktFocus
      BY <2>2 DEF Idx
    <3>3. n \in Nat
      BY <2>2
    <3> QED
      BY <2>3, <3>1, <3>2, <3>3
  <2>5. Rows[Idx] \in nodes
    BY <2>2, <2>4
  <2> QED
    BY <2>2, <2>5 DEF RowInFocus, Shows
<1>3. IsLeaf(RowInFocus, ktKeys) => KeyOf(RowInFocus) \in TreeKey
  BY KeyOfOK
<1>4. \/ \E i: MoveFocus(i)
      \/ ToggleOpen(RowInFocus)
      \/ IsLeaf(RowInFocus, ktKeys) /\ OnSelect(KeyOf(RowInFocus))
      \/ IsLeaf(RowInFocus, ktKeys) /\ ToggleCheck(KeyOf(RowInFocus))
  BY Zenon DEF OnKeyDown
<1> QED
  BY <1>1, <1>2, <1>3, <1>4

LEMMA ClickOK ==
  ASSUME KeyTreeTypeOK, NEW i \in DOMAIN Rows, Click(i) \/ ClickCheckbox(i)
  PROVE  KeyTreeTypeOK'
<1> DEFINE node == Rows[i]
           open == IF ~HasChildren(node, ktKeys) THEN ktOpen
                   ELSE IF node \in ktOpen THEN ktOpen \ {node} ELSE ktOpen \cup {node}
           selected == IF IsLeaf(node, ktKeys) THEN {KeyOf(node)} ELSE ktSelected
<1>1. /\ ktKeys \in SUBSET TreeKey /\ ktChecked \in SUBSET TreeKey
      /\ ktSelected \in SUBSET TreeKey /\ ktOpen \in SUBSET Tree(TreeKey)
      /\ ktFocus \in Nat \ {0}
  BY KeyTreeTypes
<1>2. node \in Tree(TreeKey)
  <2>1. PICK nodes, n: ShownRows(nodes, n)
    BY RowsOK
  <2>2. i \in 1..n
    BY <2>1 DEF ShownRows
  <2> QED
    BY <2>1, <2>2 DEF ShownRows, Shows
<1> HIDE DEF node
<1>3. IsLeaf(node, ktKeys) => KeyOf(node) \in TreeKey
  BY KeyOfOK
<1>4. CASE Click(i)
  <2>1. /\ ktOpen' = open /\ ktSelected' = selected /\ FocusFollows(ktKeys, open, selected)
        /\ UNCHANGED <<ktKeys, ktChecked>>
    BY <1>4, Zenon DEF Click, node
  <2>2. open \in SUBSET Tree(TreeKey) /\ selected \in SUBSET TreeKey
    BY <1>1, <1>2, <1>3
  <2> HIDE DEF open, selected
  <2>3. ktFocus' \in Nat \ {0}
    BY <1>1, <2>1, <2>2, FocusOK
  <2> QED
    BY <1>1, <2>1, <2>2, <2>3 DEF KeyTreeTypeOK
<1>5. CASE ClickCheckbox(i)
  <2>1. IsLeaf(node, ktKeys) /\ ToggleCheck(KeyOf(node))
    BY <1>5 DEF ClickCheckbox, node
  <2> QED
    BY <1>3, <2>1, TreeActionsOK
<1> QED
  BY <1>4, <1>5

LEMMA KeyTreeNextOK ==
  ASSUME KeyTreeTypeOK, [KeyTreeNext]_ktVars
  PROVE  KeyTreeTypeOK'
<1>1. /\ ktKeys \in SUBSET TreeKey /\ ktChecked \in SUBSET TreeKey
      /\ ktSelected \in SUBSET TreeKey /\ ktOpen \in SUBSET Tree(TreeKey)
      /\ ktFocus \in Nat \ {0}
  BY KeyTreeTypes
<1>2. \A checked \in SUBSET TreeKey: SetChecked(checked) => KeyTreeTypeOK'
  BY TreeActionsOK
<1>3. CASE UNCHANGED ktVars
  BY <1>1, <1>3 DEF ktVars, KeyTreeTypeOK
<1>4. ASSUME NEW keys \in SUBSET TreeKey, ListPolled(keys) PROVE KeyTreeTypeOK'
  <2>1. ktFocus' \in Nat \ {0}
    BY <1>1, <1>4, FocusOK DEF ListPolled
  <2> QED
    BY <1>1, <1>4, <2>1 DEF ListPolled, KeyTreeTypeOK
<1>5. CASE ToggleAll
  <2>1. \E checked \in SUBSET TreeKey: SetChecked(checked)
    BY <1>1, <1>5 DEF ToggleAll
  <2> QED
    BY <1>2, <2>1
<1>6. CASE BulkDeleted
  BY <1>2, <1>6 DEF BulkDeleted
<1>7. ASSUME NEW key, OnKeyDown(key) PROVE KeyTreeTypeOK'
  BY <1>7, KeyDownOK
<1>8. ASSUME NEW i \in DOMAIN Rows, Click(i) \/ ClickCheckbox(i) PROVE KeyTreeTypeOK'
  BY <1>8, ClickOK
<1> QED
  BY <1>3, <1>4, <1>5, <1>6, <1>7, <1>8 DEF KeyTreeNext

\* Whatever keys are loaded and folders open, the rows are the tree, and ArrowLeft
\* leads from a row to its folder.
THEOREM RowsAreAlwaysTheTree == ConsoleSpec => []RowsAreTheTreeHere
<1> DEFINE Inv == route = "tree" => KeyTreeTypeOK
<1>1. ConsoleInit => Inv
  BY DEF ConsoleInit, KeyTreeInit, KeyTreeTypeOK
<1>2. Inv /\ [ConsoleNext]_consoleVars => Inv'
  <2> SUFFICES ASSUME Inv, [ConsoleNext]_consoleVars, route' = "tree" PROVE KeyTreeTypeOK'
    OBVIOUS
  <2>1. route = "tree" /\ KeyTreeTypeOK
    BY RouteStays
  <2>2. [KeyTreeNext]_ktVars
    BY <2>1 DEF ConsoleNext, KeyPages, OtherPages, FormPages, Cards, Widgets, consoleVars
  <2> QED
    BY <2>1, <2>2, KeyTreeNextOK
<1>3. Inv => RowsAreTheTreeHere
  BY RowsAreTheTreeOK DEF RowsAreTheTreeHere
<1> QED
  BY <1>1, <1>2, <1>3, PTL DEF ConsoleSpec

----------------------------------------------------------------------------
(***************************************************************************)
(* The history drawer.  A table is filled in cell after cell, and read     *)
(* back from its last cell: what holds of a cell when it holds of those    *)
(* before it holds of all.                                                 *)
(***************************************************************************)
LEMMA Induction ==
  ASSUME NEW S, 0 \in S, \A n \in Nat: n \in S => n + 1 \in S
  PROVE  \A n \in Nat: n \in S
<1> SUFFICES ASSUME Nat \ S # {} PROVE FALSE
  OBVIOUS
<1>1. PICK n \in Nat \ S: \A m \in Nat \ S: n <= m
  <2>1. Nat \ S \in SUBSET Nat
    OBVIOUS
  <2> QED
    BY <2>1, LeastExists
<1>2. n # 0
  OBVIOUS
<1>3. n - 1 \in Nat /\ (n - 1) + 1 = n /\ n - 1 \in S
  BY <1>1, <1>2
<1> QED
  BY <1>3

Grid(m, n) == (0..m) \X (0..n)

\* Everything before the cell <<i, j>> is in S; f and g agree before it.
Earlier(m, n, S, i, j) == \A x \in 0..m, y \in 0..n: x + y < i + j => <<x, y>> \in S
Inductive(m, n, S) == \A i \in 0..m, j \in 0..n: Earlier(m, n, S, i, j) => <<i, j>> \in S
Agree(m, n, f, g, i, j) == \A x \in 0..m, y \in 0..n: x + y < i + j => f[<<x, y>>] = g[<<x, y>>]

\* Each cell of the table that step makes depends on the cells before it only.
Causal(m, n, V, step) ==
  /\ step \in [[Grid(m, n) -> V] -> [Grid(m, n) -> V]]
  /\ \A f, g \in [Grid(m, n) -> V]: \A i \in 0..m, j \in 0..n:
       Agree(m, n, f, g, i, j) => step[f][<<i, j>>] = step[g][<<i, j>>]

LEMMA GridInduction ==
  ASSUME NEW m \in Nat, NEW n \in Nat, NEW S, Inductive(m, n, S)
  PROVE  \A p \in Grid(m, n): p \in S
<1> DEFINE T == {k \in Nat : \A x \in 0..m, y \in 0..n: x + y < k => <<x, y>> \in S}
<1>1. 0 \in T
  OBVIOUS
<1>2. ASSUME NEW k \in Nat, k \in T PROVE k + 1 \in T
  <2> SUFFICES ASSUME NEW i \in 0..m, NEW j \in 0..n, i + j < k + 1
               PROVE  <<i, j>> \in S
    OBVIOUS
  <2>1. Earlier(m, n, S, i, j)
    BY <1>2 DEF Earlier
  <2> QED
    BY <2>1 DEF Inductive
<1> HIDE DEF T
<1>3. \A k \in Nat: k \in T
  BY <1>1, <1>2, Induction
<1> SUFFICES ASSUME NEW i \in 0..m, NEW j \in 0..n PROVE <<i, j>> \in S
  BY DEF Grid
<1>4. PICK k \in Nat: k = i + j + 1
  OBVIOUS
<1>5. k \in T /\ i + j < k
  BY <1>3, <1>4
<1> QED
  BY <1>5 DEF T

LEMMA GridRecursion ==
  ASSUME NEW m \in Nat, NEW n \in Nat, NEW V, NEW v \in V,
         NEW step, Causal(m, n, V, step)
  PROVE  \E f \in [Grid(m, n) -> V]: f = step[f]
<1> USE DEF Causal
<1> DEFINE F == [Grid(m, n) -> V]
           SoFar(f, k) == \A x \in 0..m, y \in 0..n:
                           x + y < k => f[<<x, y>>] = step[f][<<x, y>>]
           T == {k \in Nat : \E f \in F: SoFar(f, k)}
<1>1. 0 \in T
  <2>1. [p \in Grid(m, n) |-> v] \in F
    OBVIOUS
  <2>2. \A f \in F: SoFar(f, 0)
    OBVIOUS
  <2> QED
    BY <2>1, <2>2
<1>2. ASSUME NEW k \in Nat, k \in T PROVE k + 1 \in T
  <2>1. PICK f \in F: SoFar(f, k)
    BY <1>2
  <2>2. step[f] \in F
    OBVIOUS
  <2>3. ASSUME NEW i \in 0..m, NEW j \in 0..n, i + j < k + 1
        PROVE  step[f][<<i, j>>] = step[step[f]][<<i, j>>]
    <3>1. Agree(m, n, f, step[f], i, j)
      BY <2>1, <2>3 DEF Agree
    <3> QED
      BY <2>2, <3>1
  <2>4. SoFar(step[f], k + 1)
    BY <2>3
  <2> QED
    BY <2>2, <2>4
<1>3. m + n + 1 \in T
  <2> HIDE DEF T
  <2>1. m + n + 1 \in Nat
    OBVIOUS
  <2> QED
    BY <1>1, <1>2, <2>1, Induction
<1>4. PICK f \in F: SoFar(f, m + n + 1)
  BY <1>3
<1>5. \A p \in Grid(m, n): f[p] = step[f][p]
  <2> SUFFICES ASSUME NEW p \in Grid(m, n) PROVE f[p] = step[f][p]
    OBVIOUS
  <2>1. PICK i \in 0..m, j \in 0..n: p = <<i, j>>
    BY DEF Grid
  <2>2. i + j < m + n + 1
    OBVIOUS
  <2> QED
    BY <1>4, <2>1, <2>2
<1>6. step[f] \in F
  OBVIOUS
<1> QED
  BY <1>5, <1>6

\* The table of the common lines, cell by cell.
CommonCell(A, B, f, i, j) ==
  IF i = 0 \/ j = 0 THEN 0
  ELSE IF A[i] = B[j] THEN f[<<i - 1, j - 1>>] + 1
  ELSE IF f[<<i - 1, j>>] >= f[<<i, j - 1>>] THEN f[<<i - 1, j>>]
  ELSE f[<<i, j - 1>>]

LEMMA CommonCellOK ==
  ASSUME NEW A, NEW B, NEW m \in Nat, NEW n \in Nat, NEW f \in [Grid(m, n) -> Nat],
         NEW i \in 0..m, NEW j \in 0..n
  PROVE  CommonCell(A, B, f, i, j) \in Nat
<1>1. CASE i = 0 \/ j = 0
  BY <1>1 DEF CommonCell
<1>2. CASE i \in 1..m /\ j \in 1..n
  <2>1. /\ <<i - 1, j - 1>> \in Grid(m, n)
        /\ <<i - 1, j>> \in Grid(m, n) /\ <<i, j - 1>> \in Grid(m, n)
    BY <1>2 DEF Grid
  <2>2. PICK x \in Nat, y \in Nat, z \in Nat:
          x = f[<<i - 1, j - 1>>] /\ y = f[<<i - 1, j>>] /\ z = f[<<i, j - 1>>]
    BY <2>1
  <2>3. CommonCell(A, B, f, i, j) = IF A[i] = B[j] THEN x + 1 ELSE IF y >= z THEN y ELSE z
    BY <1>2, <2>2 DEF CommonCell
  <2> QED
    BY <2>3
<1> QED
  BY <1>1, <1>2

LEMMA CommonCellSame ==
  ASSUME NEW A, NEW B, NEW m \in Nat, NEW n \in Nat, NEW f, NEW g,
         NEW i \in 0..m, NEW j \in 0..n,
         Agree(m, n, f, g, i, j)
  PROVE  CommonCell(A, B, f, i, j) = CommonCell(A, B, g, i, j)
<1>1. CASE i = 0 \/ j = 0
  BY <1>1 DEF CommonCell
<1>2. CASE i \in 1..m /\ j \in 1..n
  <2>1. /\ i - 1 \in 0..m /\ j - 1 \in 0..n /\ (i - 1) + (j - 1) < i + j
        /\ (i - 1) + j < i + j /\ i + (j - 1) < i + j
    BY <1>2
  <2>2. /\ f[<<i - 1, j - 1>>] = g[<<i - 1, j - 1>>] /\ f[<<i - 1, j>>] = g[<<i - 1, j>>]
        /\ f[<<i, j - 1>>] = g[<<i, j - 1>>]
    BY <2>1 DEF Agree
  <2> QED
    BY <2>2, Zenon DEF CommonCell
<1> QED
  BY <1>1, <1>2

LEMMA CommonExists ==
  ASSUME NEW A, NEW B, NEW m \in Nat, NEW n \in Nat
  PROVE  \E f \in [Grid(m, n) -> Nat]: f = [p \in Grid(m, n) |-> CommonCell(A, B, f, p[1], p[2])]
<1> DEFINE G == Grid(m, n)
           Cell(f, p) == CommonCell(A, B, f, p[1], p[2])
           step == [f \in [G -> Nat] |-> [p \in G |-> Cell(f, p)]]
<1>1. ASSUME NEW f \in [G -> Nat], NEW p \in G PROVE Cell(f, p) \in Nat
  <2>1. p[1] \in 0..m /\ p[2] \in 0..n
    BY DEF Grid
  <2> QED
    BY <2>1, CommonCellOK, Zenon
<1>2. ASSUME NEW f \in [G -> Nat], NEW g \in [G -> Nat], NEW i \in 0..m, NEW j \in 0..n,
             Agree(m, n, f, g, i, j)
      PROVE  Cell(f, <<i, j>>) = Cell(g, <<i, j>>)
  <2>1. CommonCell(A, B, f, i, j) = CommonCell(A, B, g, i, j)
    BY <1>2, CommonCellSame
  <2> QED
    BY <2>1
<1>3. \A i \in 0..m, j \in 0..n: <<i, j>> \in G
  BY DEF Grid
<1> HIDE DEF Cell
<1>4. step \in [[G -> Nat] -> [G -> Nat]]
  BY <1>1
<1>5. ASSUME NEW f \in [G -> Nat], NEW g \in [G -> Nat], NEW i \in 0..m, NEW j \in 0..n,
             Agree(m, n, f, g, i, j)
      PROVE  step[f][<<i, j>>] = step[g][<<i, j>>]
  <2>1. Cell(f, <<i, j>>) = Cell(g, <<i, j>>)
    BY <1>2, <1>5, Zenon
  <2>2. <<i, j>> \in G
    BY <1>3, Zenon
  <2> QED
    BY <2>1, <2>2, Zenon
<1>6. \A f \in [G -> Nat]: step[f] = [p \in G |-> Cell(f, p)]
  OBVIOUS
<1>7. \E f \in [G -> Nat]: f = step[f]
  <2> HIDE DEF step
  <2>1. 0 \in Nat
    OBVIOUS
  <2>2. \A f, g \in [Grid(m, n) -> Nat]: \A i \in 0..m, j \in 0..n:
          Agree(m, n, f, g, i, j) => step[f][<<i, j>>] = step[g][<<i, j>>]
    BY <1>5, Zenon
  <2>3. step \in [[Grid(m, n) -> Nat] -> [Grid(m, n) -> Nat]]
    BY <1>4
  <2> HIDE DEF G
  <2>5. Causal(m, n, Nat, step)
    BY <2>2, <2>3, Zenon DEF Causal
  <2>4. \E f \in [Grid(m, n) -> Nat]: f = step[f]
    BY <2>1, <2>5, GridRecursion
  <2> QED
    BY <2>4 DEF G
<1> HIDE DEF step, G
<1> QED
  BY <1>6, <1>7, Zenon DEF Cell, G

CommonCells(A, B, m, n, L) ==
  /\ \A i \in 0..m, j \in 0..n:
       L[<<i, j>>] \in Nat /\ (i = 0 \/ j = 0 => L[<<i, j>>] = 0)
  /\ \A i \in 1..m, j \in 1..n:
       /\ A[i] = B[j] => L[<<i, j>>] = L[<<i - 1, j - 1>>] + 1
       /\ A[i] # B[j] => L[<<i, j>>] = (IF L[<<i - 1, j>>] >= L[<<i, j - 1>>]
                                        THEN L[<<i - 1, j>>] ELSE L[<<i, j - 1>>])

LEMMA CommonOK ==
  ASSUME NEW A, NEW B, NEW m \in Nat, NEW n \in Nat, m = Len(A), n = Len(B),
         NEW L, L = Common(A, B)
  PROVE  CommonCells(A, B, m, n, L)
<1>1. L = CHOOSE f: f = [p \in Grid(m, n) |-> CommonCell(A, B, f, p[1], p[2])]
  BY DEF Common, Grid, CommonCell
<1>2. L = [p \in Grid(m, n) |-> CommonCell(A, B, L, p[1], p[2])]
  BY <1>1, CommonExists
<1>3. ASSUME NEW i \in 0..m, NEW j \in 0..n PROVE L[<<i, j>>] = CommonCell(A, B, L, i, j)
  <2>1. <<i, j>> \in Grid(m, n)
    BY DEF Grid
  <2> QED
    BY <1>2, <2>1
<1> DEFINE S == {p \in Grid(m, n) : L[p] \in Nat}
<1>4. ASSUME NEW i \in 0..m, NEW j \in 0..n, Earlier(m, n, S, i, j)
      PROVE  <<i, j>> \in S
  <2> DEFINE g == [p \in Grid(m, n) |-> IF p \in S THEN L[p] ELSE 0]
  <2>1. g \in [Grid(m, n) -> Nat]
    OBVIOUS
  <2>2. Agree(m, n, L, g, i, j)
    BY <1>4 DEF Agree, Earlier
  <2> HIDE DEF g
  <2>3. CommonCell(A, B, L, i, j) = CommonCell(A, B, g, i, j)
    BY <2>2, CommonCellSame
  <2>4. CommonCell(A, B, g, i, j) \in Nat
    BY <2>1, CommonCellOK
  <2>5. <<i, j>> \in Grid(m, n)
    BY DEF Grid
  <2> QED
    BY <1>3, <2>3, <2>4, <2>5
<1>5. \A p \in Grid(m, n): p \in S
  <2> HIDE DEF S
  <2>1. Inductive(m, n, S)
    BY <1>4 DEF Inductive
  <2> QED
    BY <2>1, GridInduction
<1>6. ASSUME NEW i \in 0..m, NEW j \in 0..n PROVE L[<<i, j>>] \in Nat
  BY <1>5 DEF Grid
<1> HIDE DEF S
<1>7. ASSUME NEW i \in 0..m, NEW j \in 0..n, i = 0 \/ j = 0 PROVE L[<<i, j>>] = 0
  BY <1>3, <1>7 DEF CommonCell
<1>8. ASSUME NEW i \in 1..m, NEW j \in 1..n
      PROVE  /\ A[i] = B[j] => L[<<i, j>>] = L[<<i - 1, j - 1>>] + 1
             /\ A[i] # B[j] => L[<<i, j>>] = (IF L[<<i - 1, j>>] >= L[<<i, j - 1>>]
                                              THEN L[<<i - 1, j>>] ELSE L[<<i, j - 1>>])
  <2>1. i \in 0..m /\ j \in 0..n /\ i # 0 /\ j # 0
    OBVIOUS
  <2>2. L[<<i, j>>] = CommonCell(A, B, L, i, j)
    BY <1>3, <2>1
  <2> QED
    BY <2>1, <2>2, Zenon DEF CommonCell
<1> QED
  BY <1>6, <1>7, <1>8, Zenon DEF CommonCells

\* The first k entries of C are at places f among the first n of T, in order.
Places(C, T, k, n, f) ==
  /\ \A x \in 1..k: f[x] \in 1..n /\ C[x] = T[f[x]]
  /\ \A x, y \in 1..k: x < y => f[x] < f[y]

LEMMA PlacesShorter ==
  ASSUME NEW C, NEW T, NEW k \in Nat, k > 0, NEW n \in Nat, NEW f, Places(C, T, k, n, f)
  PROVE  /\ k - 1 \in Nat /\ f[k] \in 1..n /\ C[k] = T[f[k]]
         /\ Places(C, T, k - 1, n - 1, f)
         /\ f[k] # n => Places(C, T, k, n - 1, f)
<1>1. /\ \A x \in 1..k: f[x] \in 1..n /\ C[x] = T[f[x]]
      /\ \A x, y \in 1..k: x < y => f[x] < f[y]
  BY DEF Places
<1>2. k \in 1..k /\ f[k] \in 1..n /\ k - 1 \in Nat
  BY <1>1
<1>3. PICK l \in 1..n: l = f[k]
  BY <1>2
<1>4. ASSUME NEW x \in 1..(k - 1) PROVE x \in 1..k /\ f[x] \in 1..(n - 1)
  <2>1. x \in 1..k /\ x < k
    OBVIOUS
  <2>2. f[x] < l /\ f[x] \in 1..n
    BY <1>1, <1>2, <1>3, <2>1
  <2>3. PICK v \in 1..n: v = f[x]
    BY <2>2
  <2>4. v < l
    BY <2>2, <2>3
  <2>5. v \in 1..(n - 1)
    BY <2>4
  <2> QED
    BY <2>1, <2>3, <2>5
<1>5. Places(C, T, k - 1, n - 1, f)
  BY <1>1, <1>4 DEF Places
<1>6. ASSUME f[k] # n PROVE Places(C, T, k, n - 1, f)
  <2>1. l \in 1..(n - 1)
    BY <1>3, <1>6
  <2>2. ASSUME NEW x \in 1..k PROVE f[x] \in 1..(n - 1)
    <3>1. CASE x = k
      BY <1>3, <2>1, <3>1
    <3>2. CASE x # k
      <4>1. x \in 1..(k - 1)
        BY <3>2
      <4> QED
        BY <1>4, <4>1
    <3> QED
      BY <3>1, <3>2
  <2> QED
    BY <1>1, <2>2 DEF Places
<1> QED
  BY <1>1, <1>2, <1>5, <1>6

Shorter(C, T, k, n, f) ==
  /\ k - 1 \in Nat /\ f[k] \in 1..n /\ C[k] = T[f[k]]
  /\ Places(C, T, k - 1, n - 1, f)
  /\ f[k] # n => Places(C, T, k, n - 1, f)

LEMMA PlacesAreShorter ==
  ASSUME NEW C, NEW T, NEW k \in Nat, k > 0, NEW n \in Nat, NEW f, Places(C, T, k, n, f)
  PROVE  Shorter(C, T, k, n, f)
BY PlacesShorter DEF Shorter

\* No common subsequence is longer than the table says.
LEMMA CommonBound ==
  ASSUME NEW A, NEW B, NEW m \in Nat, NEW n \in Nat, m = Len(A), n = Len(B),
         NEW L, L = Common(A, B), NEW C, NEW k \in Nat,
         NEW f, Places(C, A, k, m, f), NEW g, Places(C, B, k, n, g)
  PROVE  L[<<m, n>>] \in Nat /\ k <= L[<<m, n>>]
<1> DEFINE Bounded(i, j) == \A h \in Nat:
             Places(C, A, h, i, f) /\ Places(C, B, h, j, g) => h <= L[<<i, j>>]
           S == {p \in Grid(m, n) : Bounded(p[1], p[2])}
<1>1. /\ \A i \in 0..m, j \in 0..n:
           L[<<i, j>>] \in Nat /\ (i = 0 \/ j = 0 => L[<<i, j>>] = 0)
      /\ \A i \in 1..m, j \in 1..n:
           /\ A[i] = B[j] => L[<<i, j>>] = L[<<i - 1, j - 1>>] + 1
           /\ A[i] # B[j] => L[<<i, j>>] = (IF L[<<i - 1, j>>] >= L[<<i, j - 1>>]
                                            THEN L[<<i - 1, j>>] ELSE L[<<i, j - 1>>])
  <2>1. CommonCells(A, B, m, n, L)
    BY CommonOK, Zenon
  <2> QED
    BY <2>1, Zenon DEF CommonCells
<1>2. \A i \in 0..m, j \in 0..n: <<i, j>> \in S <=> Bounded(i, j)
  BY DEF Grid
<1>3. ASSUME NEW i \in 0..m, NEW j \in 0..n, Earlier(m, n, S, i, j),
             NEW h \in Nat, Places(C, A, h, i, f), Places(C, B, h, j, g)
      PROVE  h <= L[<<i, j>>]
  <2>1. ASSUME NEW x \in 0..m, NEW y \in 0..n, x + y < i + j PROVE Bounded(x, y)
    BY <1>2, <1>3, <2>1 DEF Earlier
  <2>2. CASE h = 0
    BY <1>1, <2>2
  <2>3. CASE h > 0
    <3>1. /\ h - 1 \in Nat /\ f[h] \in 1..i /\ g[h] \in 1..j
          /\ C[h] = A[f[h]] /\ C[h] = B[g[h]]
          /\ Places(C, A, h - 1, i - 1, f) /\ Places(C, B, h - 1, j - 1, g)
          /\ (f[h] # i => Places(C, A, h, i - 1, f))
          /\ (g[h] # j => Places(C, B, h, j - 1, g))
      <4>1. i \in Nat /\ j \in Nat
        OBVIOUS
      <4>2. Shorter(C, A, h, i, f)
        BY <1>3, <2>3, <4>1, PlacesAreShorter, Zenon
      <4>3. Shorter(C, B, h, j, g)
        BY <1>3, <2>3, <4>1, PlacesAreShorter, Zenon
      <4> QED
        BY <4>2, <4>3, Zenon DEF Shorter
    <3>2. i \in 1..m /\ j \in 1..n
      BY <3>1
    <3>3. /\ i - 1 \in 0..m /\ j - 1 \in 0..n /\ (i - 1) + (j - 1) < i + j
          /\ (i - 1) + j < i + j /\ i + (j - 1) < i + j
      BY <3>2
    <3>4. Bounded(i - 1, j - 1) /\ Bounded(i - 1, j) /\ Bounded(i, j - 1)
      BY <2>1, <3>3
    <3>5. PICK x \in Nat, y \in Nat, z \in Nat, w \in Nat:
            /\ x = L[<<i - 1, j - 1>>] /\ y = L[<<i - 1, j>>] /\ z = L[<<i, j - 1>>]
            /\ w = L[<<i, j>>]
      BY <1>1, <3>3
    <3>6. CASE A[i] = B[j]
      <4>1. h - 1 <= x
        BY <3>1, <3>4, <3>5
      <4>2. w = x + 1
        BY <1>1, <3>2, <3>5, <3>6
      <4>3. h <= w
        BY <4>1, <4>2
      <4> QED
        BY <3>5, <4>3
    <3>7. CASE A[i] # B[j]
      <4>1. w = IF y >= z THEN y ELSE z
        BY <1>1, <3>2, <3>5, <3>7, Zenon
      <4>2. f[h] # i \/ g[h] # j
        BY <3>1, <3>7
      <4>3. CASE f[h] # i
        <5>1. Places(C, A, h, i - 1, f) /\ Places(C, B, h, j, g)
          BY <1>3, <3>1, <4>3, Zenon
        <5>2. h <= y
          BY <3>4, <3>5, <5>1
        <5> QED
          BY <3>5, <4>1, <5>2
      <4>4. CASE g[h] # j
        <5>1. Places(C, A, h, i, f) /\ Places(C, B, h, j - 1, g)
          BY <1>3, <3>1, <4>4, Zenon
        <5>2. h <= z
          BY <3>4, <3>5, <5>1
        <5> QED
          BY <3>5, <4>1, <5>2
      <4> QED
        BY <4>2, <4>3, <4>4
    <3> QED
      BY <3>6, <3>7
  <2> QED
    BY <2>2, <2>3
<1>4. ASSUME NEW i \in 0..m, NEW j \in 0..n, Earlier(m, n, S, i, j) PROVE <<i, j>> \in S
  BY <1>2, <1>3, <1>4, Zenon
<1>5. Inductive(m, n, S)
  BY <1>4, Zenon DEF Inductive
<1>6. \A p \in Grid(m, n): p \in S
  <2> HIDE DEF S
  <2> QED
    BY <1>5, GridInduction, Zenon
<1>7. m \in 0..m /\ n \in 0..n /\ <<m, n>> \in Grid(m, n)
  BY DEF Grid
<1>8. Bounded(m, n)
  BY <1>2, <1>6, <1>7, Zenon
<1> QED
  BY <1>1, <1>7, <1>8

Segs(Line) == [kind : {"same", "del", "add"}, lines : Seq(Line)]

\* The walk back through the table, cell by cell.
BackCell(A, B, L, f, i, j) ==
  IF i = 0 /\ j = 0 THEN <<>>
  ELSE IF i > 0 /\ j > 0 /\ A[i] = B[j]
    THEN Append(f[<<i - 1, j - 1>>], Segment("same", <<A[i]>>))
  ELSE IF j = 0 \/ (i > 0 /\ L[<<i - 1, j>>] >= L[<<i, j - 1>>])
    THEN Append(f[<<i - 1, j>>], Segment("del", <<A[i]>>))
  ELSE Append(f[<<i, j - 1>>], Segment("add", <<B[j]>>))

LEMMA SegmentOK ==
  ASSUME NEW Line, NEW lines \in Seq(Line)
  PROVE  /\ Segment("same", lines) \in Segs(Line) /\ Segment("del", lines) \in Segs(Line)
         /\ Segment("add", lines) \in Segs(Line)
BY DEF Segment, Segs

LEMMA OneLineOK == ASSUME NEW Line, NEW l \in Line PROVE <<l>> \in Seq(Line)
OBVIOUS

LEMMA BackCellOK ==
  ASSUME NEW Line, NEW A \in Seq(Line), NEW B \in Seq(Line), NEW L,
         NEW m \in Nat, NEW n \in Nat, m = Len(A), n = Len(B),
         NEW f \in [Grid(m, n) -> Seq(Segs(Line))], NEW i \in 0..m, NEW j \in 0..n
  PROVE  BackCell(A, B, L, f, i, j) \in Seq(Segs(Line))
<1> DEFINE V == Segs(Line)
<1>1. ASSUME NEW x \in 0..m, NEW y \in 0..n PROVE f[<<x, y>>] \in Seq(V)
  BY DEF Grid
<1>2. i > 0 => /\ i - 1 \in 0..m
               /\ Segment("same", <<A[i]>>) \in V /\ Segment("del", <<A[i]>>) \in V
  <2> SUFFICES ASSUME i > 0
               PROVE  /\ i - 1 \in 0..m
                      /\ Segment("same", <<A[i]>>) \in V /\ Segment("del", <<A[i]>>) \in V
    OBVIOUS
  <2>1. A[i] \in Line /\ i - 1 \in 0..m
    OBVIOUS
  <2>2. <<A[i]>> \in Seq(Line)
    BY <2>1, OneLineOK
  <2> QED
    BY <2>1, <2>2, SegmentOK, Zenon
<1>3. j > 0 => j - 1 \in 0..n /\ Segment("add", <<B[j]>>) \in V
  <2> SUFFICES ASSUME j > 0 PROVE j - 1 \in 0..n /\ Segment("add", <<B[j]>>) \in V
    OBVIOUS
  <2>1. B[j] \in Line /\ j - 1 \in 0..n
    OBVIOUS
  <2>2. <<B[j]>> \in Seq(Line)
    BY <2>1, OneLineOK
  <2> QED
    BY <2>1, <2>2, SegmentOK, Zenon
<1> HIDE DEF V
<1>5. ASSUME NEW s \in Seq(V), NEW e \in V PROVE Append(s, e) \in Seq(V)
  BY AppendProperties
<1>6. <<>> \in Seq(V)
  BY EmptySeq
<1>7. i > 0 /\ j > 0 => Append(f[<<i - 1, j - 1>>], Segment("same", <<A[i]>>)) \in Seq(V)
  BY <1>1, <1>2, <1>3, <1>5, Zenon
<1>8. j > 0 => Append(f[<<i, j - 1>>], Segment("add", <<B[j]>>)) \in Seq(V)
  BY <1>1, <1>3, <1>5, Zenon
<1>9. i > 0 => Append(f[<<i - 1, j>>], Segment("del", <<A[i]>>)) \in Seq(V)
  BY <1>1, <1>2, <1>5, Zenon
<1>10. (i > 0 \/ i = 0) /\ (j > 0 \/ j = 0)
  OBVIOUS
<1>11. BackCell(A, B, L, f, i, j) \in Seq(V)
  BY <1>6, <1>7, <1>8, <1>9, <1>10, Zenon DEF BackCell
<1> QED
  BY <1>11 DEF V

LEMMA BackCellSame ==
  ASSUME NEW A, NEW B, NEW L, NEW m \in Nat, NEW n \in Nat, NEW f, NEW g,
         NEW i \in 0..m, NEW j \in 0..n, Agree(m, n, f, g, i, j)
  PROVE  BackCell(A, B, L, f, i, j) = BackCell(A, B, L, g, i, j)
<1>1. i > 0 /\ j > 0 => f[<<i - 1, j - 1>>] = g[<<i - 1, j - 1>>]
  BY DEF Agree
<1>2. i > 0 => f[<<i - 1, j>>] = g[<<i - 1, j>>]
  BY DEF Agree
<1>3. j > 0 => f[<<i, j - 1>>] = g[<<i, j - 1>>]
  BY DEF Agree
<1>4. i > 0 \/ i = 0
  OBVIOUS
<1>5. j > 0 \/ j = 0
  OBVIOUS
<1> QED
  BY <1>1, <1>2, <1>3, <1>4, <1>5, Zenon DEF BackCell

LEMMA BackExists ==
  ASSUME NEW Line, NEW A \in Seq(Line), NEW B \in Seq(Line), NEW L,
         NEW m \in Nat, NEW n \in Nat, m = Len(A), n = Len(B)
  PROVE  \E f \in [Grid(m, n) -> Seq(Segs(Line))]:
           f = [p \in Grid(m, n) |-> BackCell(A, B, L, f, p[1], p[2])]
<1> DEFINE G == Grid(m, n)
           V == Seq(Segs(Line))
           Cell(f, p) == BackCell(A, B, L, f, p[1], p[2])
           step == [f \in [G -> V] |-> [p \in G |-> Cell(f, p)]]
<1>1. ASSUME NEW f \in [G -> V], NEW p \in G PROVE Cell(f, p) \in V
  <2>1. p[1] \in 0..m /\ p[2] \in 0..n
    BY DEF Grid
  <2> QED
    BY <2>1, BackCellOK
<1>2. ASSUME NEW f, NEW g, NEW i \in 0..m, NEW j \in 0..n, Agree(m, n, f, g, i, j)
      PROVE  Cell(f, <<i, j>>) = Cell(g, <<i, j>>)
  <2>1. BackCell(A, B, L, f, i, j) = BackCell(A, B, L, g, i, j)
    BY <1>2, BackCellSame
  <2> QED
    BY <2>1
<1>3. \A i \in 0..m, j \in 0..n: <<i, j>> \in G
  BY DEF Grid
<1> HIDE DEF Cell, V
<1>4. step \in [[G -> V] -> [G -> V]]
  BY <1>1
<1>5. ASSUME NEW f \in [G -> V], NEW g \in [G -> V], NEW i \in 0..m, NEW j \in 0..n,
             Agree(m, n, f, g, i, j)
      PROVE  step[f][<<i, j>>] = step[g][<<i, j>>]
  <2>1. Cell(f, <<i, j>>) = Cell(g, <<i, j>>)
    <3> HIDE DEF step, G
    <3> QED
      BY <1>2, <1>5, Zenon
  <2>2. <<i, j>> \in G
    BY <1>3
  <2> QED
    BY <2>1, <2>2, Zenon
<1>6. \A f \in [G -> V]: step[f] = [p \in G |-> Cell(f, p)]
  OBVIOUS
<1>7. \E f \in [G -> V]: f = step[f]
  <2> HIDE DEF step
  <2>1. <<>> \in V
    BY EmptySeq DEF V
  <2>2. Causal(m, n, V, step)
    BY <1>4, <1>5 DEF Causal
  <2> QED
    BY <2>1, <2>2, GridRecursion
<1> HIDE DEF step, G
<1> QED
  BY <1>6, <1>7, Zenon DEF Cell, G, V

BackCells(A, B, Line, m, n, L, w) ==
  \A i \in 0..m, j \in 0..n:
    w[<<i, j>>] \in Seq(Segs(Line)) /\ w[<<i, j>>] = BackCell(A, B, L, w, i, j)

LEMMA BackOK ==
  ASSUME NEW Line, NEW A \in Seq(Line), NEW B \in Seq(Line),
         NEW m \in Nat, NEW n \in Nat, m = Len(A), n = Len(B),
         NEW L, L = Common(A, B), NEW w, w = Back(A, B)
  PROVE  BackCells(A, B, Line, m, n, L, w)
<1> DEFINE V == Seq(Segs(Line))
<1>1. w = CHOOSE f: f = [p \in Grid(m, n) |-> BackCell(A, B, L, f, p[1], p[2])]
  BY DEF Back, Grid, BackCell
<1>2. w = [p \in Grid(m, n) |-> BackCell(A, B, L, w, p[1], p[2])]
  BY <1>1, BackExists
<1>3. ASSUME NEW i \in 0..m, NEW j \in 0..n PROVE w[<<i, j>>] = BackCell(A, B, L, w, i, j)
  <2>1. <<i, j>> \in Grid(m, n)
    BY DEF Grid
  <2> QED
    BY <1>2, <2>1
<1> DEFINE S == {p \in Grid(m, n) : w[p] \in V}
<1>4. ASSUME NEW i \in 0..m, NEW j \in 0..n, Earlier(m, n, S, i, j)
      PROVE  <<i, j>> \in S
  <2> DEFINE g == [p \in Grid(m, n) |-> IF p \in S THEN w[p] ELSE <<>>]
  <2>1. g \in [Grid(m, n) -> V]
    BY EmptySeq
  <2>2. Agree(m, n, w, g, i, j)
    BY <1>4 DEF Agree, Earlier
  <2> HIDE DEF g
  <2>3. BackCell(A, B, L, w, i, j) = BackCell(A, B, L, g, i, j)
    BY <2>2, BackCellSame
  <2>4. BackCell(A, B, L, g, i, j) \in V
    BY <2>1, BackCellOK
  <2>5. <<i, j>> \in Grid(m, n)
    BY DEF Grid
  <2> QED
    BY <1>3, <2>3, <2>4, <2>5
<1>5. \A p \in Grid(m, n): p \in S
  <2> HIDE DEF S
  <2>1. Inductive(m, n, S)
    BY <1>4 DEF Inductive
  <2> QED
    BY <2>1, GridInduction
<1>6. \A i \in 0..m, j \in 0..n: <<i, j>> \in Grid(m, n)
  BY DEF Grid
<1>7. \A p \in Grid(m, n): w[p] \in V
  BY <1>5
<1> HIDE DEF S
<1> QED
  BY <1>3, <1>6, <1>7 DEF BackCells

\* A function whose value at a number depends on its values at lower ones.
Lower(f, g, lo, i) == \A x \in lo..(i - 1): f[x] = g[x]

Onward(lo, m, V, step) ==
  /\ step \in [[lo..m -> V] -> [lo..m -> V]]
  /\ \A f, g \in [lo..m -> V]: \A i \in lo..m:
       Lower(f, g, lo, i) => step[f][i] = step[g][i]

LEMMA LineRecursion ==
  ASSUME NEW lo \in Nat, NEW m \in Nat, NEW V, NEW v \in V, NEW step, Onward(lo, m, V, step)
  PROVE  \E f \in [lo..m -> V]: f = step[f]
<1> USE DEF Onward
<1> DEFINE F == [lo..m -> V]
           SoFar(f, k) == \A x \in lo..m: x < k => f[x] = step[f][x]
           T == {k \in Nat : \E f \in F: SoFar(f, k)}
<1>1. 0 \in T
  <2>1. [p \in lo..m |-> v] \in F
    OBVIOUS
  <2>2. \A f \in F: SoFar(f, 0)
    OBVIOUS
  <2> QED
    BY <2>1, <2>2
<1>2. ASSUME NEW k \in Nat, k \in T PROVE k + 1 \in T
  <2>1. PICK f \in F: SoFar(f, k)
    BY <1>2
  <2>2. step[f] \in F
    OBVIOUS
  <2>3. ASSUME NEW i \in lo..m, i < k + 1 PROVE step[f][i] = step[step[f]][i]
    <3>1. Lower(f, step[f], lo, i)
      BY <2>1, <2>3 DEF Lower
    <3> QED
      BY <2>2, <3>1
  <2>4. SoFar(step[f], k + 1)
    BY <2>3
  <2> QED
    BY <2>2, <2>4
<1>3. m + 1 \in T
  <2> HIDE DEF T
  <2>1. m + 1 \in Nat
    OBVIOUS
  <2> QED
    BY <1>1, <1>2, <2>1, Induction
<1>4. PICK f \in F: SoFar(f, m + 1)
  BY <1>3
<1>5. step[f] \in F
  OBVIOUS
<1>6. \A p \in lo..m: f[p] = step[f][p]
  BY <1>4
<1> QED
  BY <1>5, <1>6

\* FlattenSeq, one sequence after the other.
FlatCell(seqs, f, i) == IF i = 1 THEN seqs[i] ELSE f[i - 1] \o seqs[i]
Flat(seqs, n, f) == \A i \in 1..n: f[i] = IF i = 1 THEN seqs[i] ELSE f[i - 1] \o seqs[i]

LEMMA FlatExists ==
  ASSUME NEW V, NEW seqs \in Seq(Seq(V)), NEW n \in Nat, n = Len(seqs)
  PROVE  \E f \in [1..n -> Seq(V)]:
           f = [i \in 1..n |-> FlatCell(seqs, f, i)]
<1> DEFINE W == Seq(V)
           Cell(f, i) == FlatCell(seqs, f, i)
           step == [f \in [1..n -> W] |-> [i \in 1..n |-> Cell(f, i)]]
<1>1. ASSUME NEW f \in [1..n -> W], NEW i \in 1..n PROVE Cell(f, i) \in W
  <2>1. seqs[i] \in W
    OBVIOUS
  <2> USE DEF FlatCell
  <2>2. CASE i = 1
    BY <2>1, <2>2
  <2>3. CASE i # 1
    <3>1. i - 1 \in 1..n
      BY <2>3
    <3>2. f[i - 1] \in Seq(V)
      BY <3>1
    <3>3. f[i - 1] \o seqs[i] \in Seq(V)
      BY <2>1, <3>2, ConcatProperties
    <3> QED
      BY <2>3, <3>3
  <2> QED
    BY <2>2, <2>3
<1>2. ASSUME NEW f, NEW g, NEW i \in 1..n, Lower(f, g, 1, i) PROVE Cell(f, i) = Cell(g, i)
  <2> USE DEF FlatCell
  <2>1. CASE i = 1
    BY <2>1
  <2>2. CASE i # 1
    <3>1. i - 1 \in 1..(i - 1)
      BY <2>2
    <3>2. f[i - 1] = g[i - 1]
      BY <1>2, <3>1 DEF Lower
    <3> QED
      BY <3>2
  <2> QED
    BY <2>1, <2>2
<1>3. <<>> \in W
  BY EmptySeq
<1> HIDE DEF Cell, W
<1>4. step \in [[1..n -> W] -> [1..n -> W]]
  BY <1>1
<1>5. ASSUME NEW f \in [1..n -> W], NEW g \in [1..n -> W], NEW i \in 1..n, Lower(f, g, 1, i)
      PROVE  step[f][i] = step[g][i]
  <2>1. Cell(f, i) = Cell(g, i)
    <3> HIDE DEF step
    <3> QED
      BY <1>2, <1>5, Zenon
  <2> QED
    BY <2>1, Zenon
<1>6. \A f \in [1..n -> W]: step[f] = [i \in 1..n |-> Cell(f, i)]
  OBVIOUS
<1>7. \E f \in [1..n -> W]: f = step[f]
  <2> HIDE DEF step
  <2>1. 1 \in Nat
    OBVIOUS
  <2>2. Onward(1, n, W, step)
    BY <1>4, <1>5, Zenon DEF Onward
  <2> QED
    BY <1>3, <2>1, <2>2, LineRecursion
<1> HIDE DEF step
<1> QED
  BY <1>6, <1>7, Zenon DEF Cell, W

FlatUpto(seqs, n, V, f) ==
  /\ f \in [1..n -> Seq(V)] /\ Flat(seqs, n, f)
  /\ FlattenSeq(seqs) = IF n = 0 THEN seqs ELSE f[n]

LEMMA FlatOK ==
  ASSUME NEW V, NEW seqs \in Seq(Seq(V)), NEW n \in Nat, n = Len(seqs)
  PROVE  \E f: FlatUpto(seqs, n, V, f)
<1>1. \E f \in [1..n -> Seq(V)]:
        f = [i \in 1..n |-> FlatCell(seqs, f, i)]
  BY FlatExists
<1> DEFINE f == CHOOSE f: f = [i \in 1..n |-> FlatCell(seqs, f, i)]
<1>2. f = [i \in 1..n |-> FlatCell(seqs, f, i)]
  BY <1>1
<1>3. FlattenSeq(seqs) = IF n = 0 THEN seqs ELSE f[n]
  <2> SUFFICES FlattenSeq(seqs) = IF Len(seqs) = 0 THEN seqs ELSE
        (CHOOSE h: h = [i \in 1..Len(seqs) |-> FlatCell(seqs, h, i)])[Len(seqs)]
    OBVIOUS
  <2> QED
    BY Zenon DEF FlattenSeq, FlatCell
<1> HIDE DEF f
<1>4. Flat(seqs, n, f)
  BY <1>2, Zenon DEF Flat, FlatCell
<1> DEFINE S == {k \in Nat : k \in 1..n => f[k] \in Seq(V)}
<1>5. 0 \in S
  OBVIOUS
<1>6. ASSUME NEW k \in Nat, k \in S PROVE k + 1 \in S
  <2> SUFFICES ASSUME k + 1 \in 1..n PROVE f[k + 1] \in Seq(V)
    OBVIOUS
  <2>1. seqs[k + 1] \in Seq(V)
    OBVIOUS
  <2>2. CASE k = 0
    BY <1>4, <2>1, <2>2 DEF Flat
  <2>3. CASE k # 0
    <3>1. f[k] \in Seq(V)
      BY <1>6, <2>3
    <3>4. k + 1 \in 1..n /\ k + 1 # 1 /\ (k + 1) - 1 = k
      BY <2>3
    <3>2. f[k + 1] = f[k] \o seqs[k + 1]
      BY <1>4, <3>4, Zenon DEF Flat
    <3>3. f[k] \o seqs[k + 1] \in Seq(V)
      BY <2>1, <3>1, ConcatProperties
    <3> QED
      BY <3>2, <3>3
  <2> QED
    BY <2>2, <2>3
<1>7. \A k \in Nat: k \in S
  <2> HIDE DEF S
  <2> QED
    BY <1>5, <1>6, Induction
<1>8. \A k \in 1..n: f[k] \in Seq(V)
  BY <1>7
<1>9. f \in [1..n -> Seq(V)]
  BY <1>2, <1>8
<1> QED
  BY <1>3, <1>4, <1>9, Zenon DEF FlatUpto

SameUpto(n, s, t) == \A i \in 1..n: s[i] = t[i]

LEMMA FlatSame ==
  ASSUME NEW n \in Nat, NEW s, NEW t, NEW f, NEW g, Flat(s, n, f), Flat(t, n, g),
         SameUpto(n, s, t)
  PROVE  SameUpto(n, f, g)
<1> USE DEF SameUpto
<1> DEFINE S == {k \in Nat : k \in 1..n => f[k] = g[k]}
<1>1. 0 \in S
  OBVIOUS
<1>2. ASSUME NEW k \in Nat, k \in S PROVE k + 1 \in S
  <2> SUFFICES ASSUME k + 1 \in 1..n PROVE f[k + 1] = g[k + 1]
    OBVIOUS
  <2>1. CASE k = 0
    BY <2>1 DEF Flat
  <2>2. CASE k # 0
    <3>1. f[k] = g[k]
      BY <1>2, <2>2
    <3>4. k + 1 \in 1..n /\ k + 1 # 1 /\ (k + 1) - 1 = k
      BY <2>2
    <3>2. f[k + 1] = f[k] \o s[k + 1] /\ g[k + 1] = g[k] \o t[k + 1]
      BY <3>4, Zenon DEF Flat
    <3>3. s[k + 1] = t[k + 1]
      OBVIOUS
    <3> QED
      BY <3>1, <3>2, <3>3, Zenon
  <2> QED
    BY <2>1, <2>2
<1>3. \A k \in Nat: k \in S
  <2> HIDE DEF S
  <2> QED
    BY <1>1, <1>2, Induction
<1> QED
  BY <1>3

LEMMA FlattenType ==
  ASSUME NEW V, NEW s \in Seq(Seq(V))
  PROVE  FlattenSeq(s) \in Seq(V) /\ (Len(s) = 0 => FlattenSeq(s) = <<>>)
<1> DEFINE n == Len(s)
<1>1. n \in Nat
  OBVIOUS
<1>2. PICK f: FlatUpto(s, n, V, f)
  BY <1>1, FlatOK
<1>3. CASE n = 0
  <2>1. s = <<>>
    BY <1>3
  <2> QED
    BY <1>2, <1>3, <2>1, EmptySeq DEF FlatUpto
<1>4. CASE n # 0
  <2>1. n \in 1..n
    BY <1>1, <1>4
  <2> HIDE DEF n
  <2>2. f[n] \in Seq(V) /\ FlattenSeq(s) = f[n]
    BY <1>2, <1>4, <2>1 DEF FlatUpto
  <2> QED
    BY <1>4, <2>2, Zenon DEF n
<1> QED
  BY <1>3, <1>4

LEMMA FlattenAppend ==
  ASSUME NEW V, NEW s \in Seq(Seq(V)), NEW x \in Seq(V)
  PROVE  FlattenSeq(Append(s, x)) = FlattenSeq(s) \o x
<1> DEFINE n == Len(s)
           t == Append(s, x)
           W == Seq(V)
<1>1. /\ n \in Nat /\ n + 1 \in Nat /\ t \in Seq(W) /\ Len(t) = n + 1
      /\ (\A i \in 1..n: s[i] = t[i]) /\ t[n + 1] = x
  <2>1. s \in Seq(W) /\ x \in W
    OBVIOUS
  <2> HIDE DEF W
  <2> QED
    BY <2>1, AppendProperties
<1> HIDE DEF n, t
<1>2. PICK f: FlatUpto(s, n, V, f)
  BY <1>1, FlatOK DEF n
<1>3. PICK g: FlatUpto(t, n + 1, V, g)
  BY <1>1, FlatOK, Zenon DEF W
<1>4. Flat(s, n, f) /\ Flat(t, n + 1, g) /\ FlattenSeq(t) = g[n + 1]
      /\ FlattenSeq(s) = IF n = 0 THEN s ELSE f[n]
  BY <1>1, <1>2, <1>3 DEF FlatUpto
<1>5. CASE n = 0
  <2>1. s = <<>>
    BY <1>5 DEF n
  <2>2. FlattenSeq(t) = x
    BY <1>1, <1>4, <1>5 DEF Flat
  <2>3. FlattenSeq(s) = <<>>
    BY <1>4, <1>5, <2>1
  <2>4. <<>> \o x = x
    BY ConcatEmptySeq
  <2> QED
    BY <2>2, <2>3, <2>4, Zenon DEF t
<1>6. CASE n # 0
  <2>1. n \in 1..n /\ n + 1 \in 1..(n + 1) /\ n + 1 # 1 /\ (n + 1) - 1 = n
    BY <1>1, <1>6
  <2>2. Flat(t, n, g)
    BY <1>1, <1>4 DEF Flat
  <2>3. f[n] = g[n]
    <3>1. SameUpto(n, s, t)
      BY <1>1, Zenon DEF SameUpto
    <3>2. n \in Nat /\ Flat(s, n, f)
      BY <1>1, <1>4
    <3>3. SameUpto(n, f, g)
      BY <2>2, <3>1, <3>2, FlatSame, Zenon
    <3> QED
      BY <2>1, <3>3, Zenon DEF SameUpto
  <2>4. g[n + 1] = g[n] \o x
    BY <1>1, <1>4, <2>1, Zenon DEF Flat
  <2> QED
    BY <1>4, <1>6, <2>3, <2>4, Zenon DEF t
<1> QED
  BY <1>5, <1>6

\* The lines of the segments of some kinds.
Kept(s, kinds) == IF s.kind \in kinds THEN s.lines ELSE <<>>
KeptOf(segs, kinds) == [n \in 1..Len(segs) |-> Kept(segs[n], kinds)]

LEMMA KeptOK ==
  ASSUME NEW Line, NEW s \in Segs(Line), NEW kinds
  PROVE  Kept(s, kinds) \in Seq(Line)
<1>1. s.lines \in Seq(Line)
  BY DEF Segs
<1>2. <<>> \in Seq(Line)
  BY EmptySeq
<1> QED
  BY <1>1, <1>2, Zenon DEF Kept

LEMMA FunctionIsSeq ==
  ASSUME NEW W, NEW n \in Nat, NEW r \in [1..n -> W]
  PROVE  r \in Seq(W) /\ Len(r) = n
<1>1. r \in Seq(W)
  BY SeqDef, Zenon
<1>2. Len(r) \in Nat /\ DOMAIN r = 1..Len(r)
  BY <1>1, LenProperties, Zenon
<1>3. DOMAIN r = 1..n
  BY Zenon
<1>4. PICK l \in Nat: l = Len(r)
  BY <1>2
<1>5. 1..l = 1..n
  BY <1>2, <1>3, <1>4, Zenon
<1>6. l = n
  BY <1>5
<1> QED
  BY <1>1, <1>4, <1>6

LEMMA KeptOfOK ==
  ASSUME NEW Line, NEW segs \in Seq(Segs(Line)), NEW kinds
  PROVE  /\ KeptOf(segs, kinds) \in Seq(Seq(Line)) /\ Len(KeptOf(segs, kinds)) = Len(segs)
         /\ LinesOf(segs, kinds) = FlattenSeq(KeptOf(segs, kinds))
<1> DEFINE n == Len(segs)
           rows == KeptOf(segs, kinds)
           W == Seq(Line)
<1>1. n \in Nat /\ \A i \in 1..n: segs[i] \in Segs(Line)
  OBVIOUS
<1>2. \A i \in 1..n: Kept(segs[i], kinds) \in W
  BY <1>1, KeptOK, Zenon
<1>3. rows \in [1..n -> W]
  <2> HIDE DEF n, W
  <2> QED
    BY <1>2, Zenon DEF KeptOf, n
<1> HIDE DEF rows, n, W
<1>4. n \in Nat /\ rows \in [1..n -> W]
  BY <1>1, <1>3
<1>5. rows \in Seq(W) /\ Len(rows) = n
  BY <1>4, FunctionIsSeq, Zenon
<1>7. LinesOf(segs, kinds) = FlattenSeq(rows)
  BY Zenon DEF LinesOf, rows, KeptOf, Kept
<1> QED
  BY <1>5, <1>7, Zenon DEF rows, n, W

LEMMA LinesOfType ==
  ASSUME NEW Line, NEW segs \in Seq(Segs(Line)), NEW kinds
  PROVE  LinesOf(segs, kinds) \in Seq(Line) /\ (segs = <<>> => LinesOf(segs, kinds) = <<>>)
<1>1. KeptOf(segs, kinds) \in Seq(Seq(Line))
  BY KeptOfOK, Zenon
<1>2. /\ FlattenSeq(KeptOf(segs, kinds)) \in Seq(Line)
      /\ Len(KeptOf(segs, kinds)) = 0 => FlattenSeq(KeptOf(segs, kinds)) = <<>>
  BY <1>1, FlattenType, Zenon
<1>3. Len(KeptOf(segs, kinds)) = Len(segs) /\ LinesOf(segs, kinds) = FlattenSeq(KeptOf(segs, kinds))
  BY KeptOfOK, Zenon
<1>4. segs = <<>> => Len(segs) = 0
  OBVIOUS
<1> QED
  BY <1>2, <1>3, <1>4, Zenon

LEMMA LinesOfAppend ==
  ASSUME NEW Line, NEW segs \in Seq(Segs(Line)), NEW s \in Segs(Line), NEW kinds
  PROVE  LinesOf(Append(segs, s), kinds) = LinesOf(segs, kinds) \o Kept(s, kinds)
<1> DEFINE n == Len(segs)
           V == Segs(Line)
           W == Seq(Line)
           all == Append(segs, s)
           K == KeptOf(segs, kinds)
           k == Kept(s, kinds)
<1>1. /\ n \in Nat /\ all \in Seq(V) /\ Len(all) = n + 1
      /\ (\A i \in 1..n: all[i] = segs[i]) /\ all[n + 1] = s
  <2>1. segs \in Seq(V) /\ s \in V
    OBVIOUS
  <2> HIDE DEF V
  <2> QED
    BY <2>1, AppendProperties
<1>2. k \in W
  BY KeptOK, Zenon
<1>3. K \in Seq(W) /\ Len(K) = n /\ LinesOf(segs, kinds) = FlattenSeq(K)
  BY KeptOfOK, Zenon
<1> HIDE DEF all
<1>4. /\ KeptOf(all, kinds) \in Seq(W) /\ Len(KeptOf(all, kinds)) = n + 1
      /\ LinesOf(all, kinds) = FlattenSeq(KeptOf(all, kinds))
  BY <1>1, KeptOfOK, Zenon
<1>5. \A i \in 1..n: K[i] = Kept(segs[i], kinds)
  BY DEF KeptOf
<1>6. \A i \in 1..(n + 1): KeptOf(all, kinds)[i] = Kept(all[i], kinds)
  BY <1>1, Zenon DEF KeptOf
<1> HIDE DEF K, k, W, V, n
<1>7. /\ Append(K, k) \in Seq(W) /\ Len(Append(K, k)) = n + 1
      /\ \A i \in 1..n: Append(K, k)[i] = K[i]
      /\ Append(K, k)[n + 1] = k
  BY <1>2, <1>3, AppendProperties
<1>8. ASSUME NEW i \in 1..(n + 1) PROVE KeptOf(all, kinds)[i] = Append(K, k)[i]
  <2>1. CASE i \in 1..n
    BY <1>1, <1>5, <1>6, <1>7, <2>1, Zenon
  <2>2. CASE i = n + 1
    BY <1>1, <1>6, <1>7, <2>2, Zenon DEF k
  <2>3. n \in Nat
    BY <1>1
  <2>4. i \in 1..n \/ i = n + 1
    BY <2>3
  <2> QED
    BY <2>1, <2>2, <2>4, Zenon
<1>9. KeptOf(all, kinds) = Append(K, k)
  <2> DEFINE x == KeptOf(all, kinds)
             y == Append(K, k)
  <2>1. x \in Seq(W) /\ y \in Seq(W) /\ Len(x) = Len(y) /\ \A i \in 1..Len(x): x[i] = y[i]
    BY <1>4, <1>7, <1>8, Zenon
  <2> HIDE DEF x, y
  <2>2. x = y
    BY <2>1, SeqEqual
  <2> QED
    BY <2>2 DEF x, y
<1>10. FlattenSeq(Append(K, k)) = FlattenSeq(K) \o k
  BY <1>2, <1>3, FlattenAppend, Zenon DEF W
<1> QED
  BY <1>3, <1>4, <1>9, <1>10, Zenon DEF all, k

\* What a segment of each kind adds to the version, to the current value, to both.
Adds(segs, s, red, green, white) ==
  /\ LinesOf(Append(segs, s), {"same", "del"}) = LinesOf(segs, {"same", "del"}) \o red
  /\ LinesOf(Append(segs, s), {"same", "add"}) = LinesOf(segs, {"same", "add"}) \o green
  /\ LinesOf(Append(segs, s), {"same"}) = LinesOf(segs, {"same"}) \o white

LEMMA SegmentAdds ==
  ASSUME NEW Line, NEW segs \in Seq(Segs(Line)), NEW l \in Seq(Line)
  PROVE  /\ Adds(segs, Segment("same", l), l, l, l)
         /\ Adds(segs, Segment("del", l), l, <<>>, <<>>)
         /\ Adds(segs, Segment("add", l), <<>>, l, <<>>)
<1>1. /\ Segment("same", l) \in Segs(Line) /\ Segment("del", l) \in Segs(Line)
      /\ Segment("add", l) \in Segs(Line)
  BY SegmentOK, Zenon
<1>2. \A kinds: /\ Kept(Segment("same", l), kinds) = (IF "same" \in kinds THEN l ELSE <<>>)
                /\ Kept(Segment("del", l), kinds) = (IF "del" \in kinds THEN l ELSE <<>>)
                /\ Kept(Segment("add", l), kinds) = (IF "add" \in kinds THEN l ELSE <<>>)
  BY DEF Kept, Segment
<1>3. /\ Kept(Segment("same", l), {"same", "del"}) = l
      /\ Kept(Segment("same", l), {"same", "add"}) = l
      /\ Kept(Segment("same", l), {"same"}) = l
  BY <1>2
<1>4. /\ Kept(Segment("del", l), {"same", "del"}) = l
      /\ Kept(Segment("del", l), {"same", "add"}) = <<>>
      /\ Kept(Segment("del", l), {"same"}) = <<>>
  BY <1>2
<1>5. /\ Kept(Segment("add", l), {"same", "del"}) = <<>>
      /\ Kept(Segment("add", l), {"same", "add"}) = l
      /\ Kept(Segment("add", l), {"same"}) = <<>>
  BY <1>2
<1>6. \A kinds: \A s \in Segs(Line):
        LinesOf(Append(segs, s), kinds) = LinesOf(segs, kinds) \o Kept(s, kinds)
  BY LinesOfAppend, Zenon
<1>7. Adds(segs, Segment("same", l), l, l, l)
  BY <1>1, <1>3, <1>6, Zenon DEF Adds
<1>8. Adds(segs, Segment("del", l), l, <<>>, <<>>)
  BY <1>1, <1>4, <1>6, Zenon DEF Adds
<1>9. Adds(segs, Segment("add", l), <<>>, l, <<>>)
  BY <1>1, <1>5, <1>6, Zenon DEF Adds
<1> QED
  BY <1>7, <1>8, <1>9

\* Up to a cell the walk tells what A and B begin with, and keeps as much as it can.
ToldTo(A, B, i, j, L, segs) ==
  /\ LinesOf(segs, {"same", "del"}) = SubSeq(A, 1, i)
  /\ LinesOf(segs, {"same", "add"}) = SubSeq(B, 1, j)
  /\ Len(LinesOf(segs, {"same"})) = L[<<i, j>>]

LEMMA OneMore ==
  ASSUME NEW Line, NEW T \in Seq(Line), NEW i \in 1..Len(T)
  PROVE  /\ SubSeq(T, 1, i) = SubSeq(T, 1, i - 1) \o <<T[i]>>
         /\ SubSeq(T, 1, i) \in Seq(Line)
         /\ SubSeq(T, 1, i - 1) \in Seq(Line) /\ <<T[i]>> \in Seq(Line)
<1>1. 1 \in 1..Len(T) /\ i \in 1..Len(T) /\ \A x \in 1..Len(T): T[x] \in Line
  OBVIOUS
<1>2. SubSeq(T, 1, i) = SubSeq(T, 1, i - 1) \o <<T[i]>>
  BY <1>1, SubSeqRecursiveSecond
<1>3. SubSeq(T, 1, i) \in Seq(Line)
  BY <1>1, SubSeqProperties
<1>4. SubSeq(T, 1, i - 1) \in Seq(Line)
  BY <1>1, SubSeqProperties
<1>5. <<T[i]>> \in Seq(Line)
  BY <1>1, OneLineOK
<1> QED
  BY <1>2, <1>3, <1>4, <1>5

LEMMA NothingMore ==
  ASSUME NEW Line, NEW s \in Seq(Line), NEW l \in Line
  PROVE  s \o <<>> = s /\ Len(s \o <<l>>) = Len(s) + 1
<1>1. s \o <<>> = s
  BY ConcatEmptySeq
<1>2. <<l>> \in Seq(Line) /\ Len(<<l>>) = 1
  OBVIOUS
<1>3. Len(s \o <<l>>) = Len(s) + Len(<<l>>)
  BY <1>2, ConcatProperties
<1> QED
  BY <1>1, <1>2, <1>3

\* One cell after another: a line of both, of the version, of the current value.
LEMMA TellsSame ==
  ASSUME NEW Line, NEW A \in Seq(Line), NEW B \in Seq(Line), NEW L,
         NEW segs \in Seq(Segs(Line)), NEW i \in 1..Len(A), NEW j \in 1..Len(B),
         ToldTo(A, B, i - 1, j - 1, L, segs), A[i] = B[j],
         L[<<i, j>>] = L[<<i - 1, j - 1>>] + 1
  PROVE  ToldTo(A, B, i, j, L, Append(segs, Segment("same", <<A[i]>>)))
<1> DEFINE l == <<A[i]>>
<1>1. A[i] \in Line /\ l \in Seq(Line)
  <2>1. A[i] \in Line
    OBVIOUS
  <2> QED
    BY <2>1, OneMore, Zenon
<1>2. /\ SubSeq(A, 1, i) = SubSeq(A, 1, i - 1) \o l
      /\ SubSeq(B, 1, j) = SubSeq(B, 1, j - 1) \o l
  <2>1. SubSeq(A, 1, i) = SubSeq(A, 1, i - 1) \o <<A[i]>>
    BY OneMore, Zenon
  <2>2. SubSeq(B, 1, j) = SubSeq(B, 1, j - 1) \o <<B[j]>>
    BY OneMore, Zenon
  <2> QED
    BY <2>1, <2>2, Zenon
<1>3. Adds(segs, Segment("same", l), l, l, l)
  BY <1>1, SegmentAdds, Zenon
<1>4. LinesOf(segs, {"same"}) \in Seq(Line)
  BY LinesOfType, Zenon
<1>5. Len(LinesOf(segs, {"same"}) \o l) = Len(LinesOf(segs, {"same"})) + 1
  BY <1>1, <1>4, NothingMore, Zenon
<1> HIDE DEF l
<1>6. Len(LinesOf(Append(segs, Segment("same", l)), {"same"})) = L[<<i, j>>]
  BY <1>3, <1>5, Zenon DEF Adds, ToldTo
<1>7. /\ LinesOf(Append(segs, Segment("same", l)), {"same", "del"}) = SubSeq(A, 1, i)
      /\ LinesOf(Append(segs, Segment("same", l)), {"same", "add"}) = SubSeq(B, 1, j)
  BY <1>2, <1>3, Zenon DEF Adds, ToldTo
<1> QED
  BY <1>6, <1>7, Zenon DEF ToldTo, l

LEMMA TellsDel ==
  ASSUME NEW Line, NEW A \in Seq(Line), NEW B \in Seq(Line), NEW L,
         NEW segs \in Seq(Segs(Line)), NEW i \in 1..Len(A), NEW j \in 0..Len(B),
         ToldTo(A, B, i - 1, j, L, segs), L[<<i, j>>] = L[<<i - 1, j>>]
  PROVE  ToldTo(A, B, i, j, L, Append(segs, Segment("del", <<A[i]>>)))
<1> DEFINE l == <<A[i]>>
<1>1. A[i] \in Line /\ l \in Seq(Line) /\ SubSeq(A, 1, i) = SubSeq(A, 1, i - 1) \o l
  <2>1. A[i] \in Line
    OBVIOUS
  <2>2. SubSeq(A, 1, i) = SubSeq(A, 1, i - 1) \o <<A[i]>> /\ <<A[i]>> \in Seq(Line)
    BY OneMore, Zenon
  <2> QED
    BY <2>1, <2>2, Zenon
<1>3. Adds(segs, Segment("del", l), l, <<>>, <<>>)
  BY <1>1, SegmentAdds, Zenon
<1>4. \A kinds: LinesOf(segs, kinds) \in Seq(Line)
  BY LinesOfType, Zenon
<1>5. \A kinds: LinesOf(segs, kinds) \o <<>> = LinesOf(segs, kinds)
  BY <1>1, <1>4, NothingMore, Zenon
<1> HIDE DEF l
<1>6. Len(LinesOf(Append(segs, Segment("del", l)), {"same"})) = L[<<i, j>>]
  BY <1>3, <1>5, Zenon DEF Adds, ToldTo
<1>7. /\ LinesOf(Append(segs, Segment("del", l)), {"same", "del"}) = SubSeq(A, 1, i)
      /\ LinesOf(Append(segs, Segment("del", l)), {"same", "add"}) = SubSeq(B, 1, j)
  BY <1>1, <1>3, <1>5, Zenon DEF Adds, ToldTo
<1> QED
  BY <1>6, <1>7, Zenon DEF ToldTo, l

LEMMA TellsAdd ==
  ASSUME NEW Line, NEW A \in Seq(Line), NEW B \in Seq(Line), NEW L,
         NEW segs \in Seq(Segs(Line)), NEW i \in 0..Len(A), NEW j \in 1..Len(B),
         ToldTo(A, B, i, j - 1, L, segs), L[<<i, j>>] = L[<<i, j - 1>>]
  PROVE  ToldTo(A, B, i, j, L, Append(segs, Segment("add", <<B[j]>>)))
<1> DEFINE l == <<B[j]>>
<1>1. B[j] \in Line /\ l \in Seq(Line) /\ SubSeq(B, 1, j) = SubSeq(B, 1, j - 1) \o l
  <2>1. B[j] \in Line
    OBVIOUS
  <2>2. SubSeq(B, 1, j) = SubSeq(B, 1, j - 1) \o <<B[j]>> /\ <<B[j]>> \in Seq(Line)
    BY OneMore, Zenon
  <2> QED
    BY <2>1, <2>2, Zenon
<1>3. Adds(segs, Segment("add", l), <<>>, l, <<>>)
  BY <1>1, SegmentAdds, Zenon
<1>4. \A kinds: LinesOf(segs, kinds) \in Seq(Line)
  BY LinesOfType, Zenon
<1>5. \A kinds: LinesOf(segs, kinds) \o <<>> = LinesOf(segs, kinds)
  BY <1>1, <1>4, NothingMore, Zenon
<1> HIDE DEF l
<1>6. Len(LinesOf(Append(segs, Segment("add", l)), {"same"})) = L[<<i, j>>]
  BY <1>3, <1>5, Zenon DEF Adds, ToldTo
<1>7. /\ LinesOf(Append(segs, Segment("add", l)), {"same", "del"}) = SubSeq(A, 1, i)
      /\ LinesOf(Append(segs, Segment("add", l)), {"same", "add"}) = SubSeq(B, 1, j)
  BY <1>1, <1>3, <1>5, Zenon DEF Adds, ToldTo
<1> QED
  BY <1>6, <1>7, Zenon DEF ToldTo, l

LEMMA TellsNothing ==
  ASSUME NEW Line, NEW A, NEW B, NEW L, L[<<0, 0>>] = 0
  PROVE  ToldTo(A, B, 0, 0, L, <<>>)
<1>1. <<>> \in Seq(Segs(Line))
  BY EmptySeq
<1>2. \A kinds: LinesOf(<<>>, kinds) = <<>>
  BY <1>1, LinesOfType, Zenon
<1>3. SubSeq(A, 1, 0) = <<>> /\ SubSeq(B, 1, 0) = <<>>
  BY SubSeqEmpty
<1>4. Len(<<>>) = 0
  OBVIOUS
<1> QED
  BY <1>2, <1>3, <1>4, Zenon DEF ToldTo

LEMMA BackTells ==
  ASSUME NEW Line, NEW A \in Seq(Line), NEW B \in Seq(Line),
         NEW m \in Nat, NEW n \in Nat, m = Len(A), n = Len(B),
         NEW L, L = Common(A, B), NEW w, w = Back(A, B)
  PROVE  /\ w[<<m, n>>] \in Seq(Segs(Line))
         /\ ToldTo(A, B, m, n, L, w[<<m, n>>])
<1> DEFINE V == Seq(Segs(Line))
           S == {p \in Grid(m, n) : ToldTo(A, B, p[1], p[2], L, w[p])}
<1>1. CommonCells(A, B, m, n, L)
  BY CommonOK, Zenon
<1>2. BackCells(A, B, Line, m, n, L, w)
  BY BackOK, Zenon
<1>3. \A i \in 0..m, j \in 0..n:
        w[<<i, j>>] \in V /\ w[<<i, j>>] = BackCell(A, B, L, w, i, j)
  BY <1>2, Zenon DEF BackCells
<1>4. \A i \in 0..m, j \in 0..n: <<i, j>> \in S <=> ToldTo(A, B, i, j, L, w[<<i, j>>])
  BY DEF Grid
<1> HIDE DEF S, V
<1>5. ASSUME NEW i \in 0..m, NEW j \in 0..n, Earlier(m, n, S, i, j)
      PROVE  ToldTo(A, B, i, j, L, w[<<i, j>>])
  <2>1. ASSUME NEW x \in 0..m, NEW y \in 0..n, x + y < i + j
        PROVE  ToldTo(A, B, x, y, L, w[<<x, y>>]) /\ w[<<x, y>>] \in V
    BY <1>3, <1>4, <1>5, <2>1 DEF Earlier
  <2>2. w[<<i, j>>] = BackCell(A, B, L, w, i, j)
    BY <1>3
  <2>3. CASE i = 0 /\ j = 0
    <3>1. w[<<i, j>>] = <<>>
      BY <2>2, <2>3, Zenon DEF BackCell
    <3>2. L[<<0, 0>>] = 0
      BY <1>1, <2>3 DEF CommonCells
    <3> QED
      BY <2>3, <3>1, <3>2, TellsNothing, Zenon
  <2>4. CASE i \in 1..m /\ j \in 1..n /\ A[i] = B[j]
    <3>1. i - 1 \in 0..m /\ j - 1 \in 0..n /\ (i - 1) + (j - 1) < i + j /\ i > 0 /\ j > 0 /\ i # 0
      BY <2>4
    <3>2. w[<<i, j>>] = Append(w[<<i - 1, j - 1>>], Segment("same", <<A[i]>>))
      BY <2>2, <2>4, <3>1, Zenon DEF BackCell
    <3>3. ToldTo(A, B, i - 1, j - 1, L, w[<<i - 1, j - 1>>]) /\ w[<<i - 1, j - 1>>] \in V
      BY <2>1, <3>1, Zenon
    <3>4. L[<<i, j>>] = L[<<i - 1, j - 1>>] + 1
      BY <1>1, <2>4, Zenon DEF CommonCells
    <3> QED
      BY <2>4, <3>2, <3>3, <3>4, TellsSame, Zenon DEF V
  <2>5. CASE i \in 1..m /\ ~(j \in 1..n /\ A[i] = B[j])
             /\ (j = 0 \/ L[<<i - 1, j>>] >= L[<<i, j - 1>>])
    <3>1. /\ i - 1 \in 0..m /\ (i - 1) + j < i + j /\ i > 0 /\ i # 0
          /\ ~(j > 0 /\ A[i] = B[j]) /\ (j = 0 \/ j \in 1..n)
      BY <2>5
    <3>2. w[<<i, j>>] = Append(w[<<i - 1, j>>], Segment("del", <<A[i]>>))
      BY <2>2, <2>5, <3>1, Zenon DEF BackCell
    <3>3. ToldTo(A, B, i - 1, j, L, w[<<i - 1, j>>]) /\ w[<<i - 1, j>>] \in V
      BY <2>1, <3>1, Zenon
    <3>4. L[<<i, j>>] = L[<<i - 1, j>>]
      <4>1. CASE j = 0
        <5>1. \A x \in 0..m: L[<<x, j>>] = 0
          BY <1>1, <4>1 DEF CommonCells
        <5> QED
          BY <3>1, <5>1
      <4>2. CASE j \in 1..n
        <5>1. A[i] # B[j] /\ L[<<i - 1, j>>] >= L[<<i, j - 1>>]
          BY <2>5, <4>2
        <5> QED
          BY <1>1, <2>5, <4>2, <5>1, Zenon DEF CommonCells
      <4> QED
        BY <3>1, <4>1, <4>2
    <3> QED
      BY <2>5, <3>2, <3>3, <3>4, TellsDel, Zenon DEF V
  <2>6. CASE j \in 1..n /\ ~(i \in 1..m /\ A[i] = B[j])
             /\ ~(i \in 1..m /\ L[<<i - 1, j>>] >= L[<<i, j - 1>>])
    <3>1. /\ j - 1 \in 0..n /\ i + (j - 1) < i + j /\ j > 0 /\ j # 0
          /\ (i > 0 <=> i \in 1..m) /\ (i = 0 \/ i \in 1..m)
      BY <2>6
    <3>2. w[<<i, j>>] = Append(w[<<i, j - 1>>], Segment("add", <<B[j]>>))
      BY <2>2, <2>6, <3>1, Zenon DEF BackCell
    <3>3. ToldTo(A, B, i, j - 1, L, w[<<i, j - 1>>]) /\ w[<<i, j - 1>>] \in V
      BY <2>1, <3>1, Zenon
    <3>4. L[<<i, j>>] = L[<<i, j - 1>>]
      <4>1. CASE i = 0
        <5>1. \A y \in 0..n: L[<<i, y>>] = 0
          BY <1>1, <4>1 DEF CommonCells
        <5> QED
          BY <3>1, <5>1
      <4>2. CASE i \in 1..m
        BY <1>1, <2>6, <4>2, Zenon DEF CommonCells
      <4> QED
        BY <3>1, <4>1, <4>2
    <3> QED
      BY <2>6, <3>2, <3>3, <3>4, TellsAdd, Zenon DEF V
  <2>7. (i = 0 \/ i \in 1..m) /\ (j = 0 \/ j \in 1..n)
    OBVIOUS
  <2> QED
    BY <2>3, <2>4, <2>5, <2>6, <2>7, Zenon
<1>6. Inductive(m, n, S)
  BY <1>4, <1>5, Zenon DEF Inductive
<1>7. \A p \in Grid(m, n): p \in S
  BY <1>6, GridInduction, Zenon
<1>8. m \in 0..m /\ n \in 0..n /\ <<m, n>> \in Grid(m, n)
  BY DEF Grid
<1>9. ToldTo(A, B, m, n, L, w[<<m, n>>])
  BY <1>4, <1>7, <1>8, Zenon
<1>10. w[<<m, n>>] \in V
  BY <1>3, <1>8, Zenon
<1> QED
  BY <1>9, <1>10 DEF V

LEMMA PlacesOf ==
  ASSUME NEW C, NEW T, NEW k \in Nat, k = Len(C), NEW n \in Nat, n = Len(T), IsSubsequence(C, T)
  PROVE  \E f: Places(C, T, k, n, f)
<1>1. PICK I \in SUBSET (1..n): /\ Cardinality(I) = k
                                /\ \A x \in 1..k: C[x] = T[Ascending(I)[x]]
  BY DEF IsSubsequence
<1>2. IsFiniteSet(I) /\ I \in SUBSET Int
  <2>1. IsFiniteSet(1..n)
    BY FS_Interval
  <2>2. IsFiniteSet(I)
    BY <1>1, <2>1, FS_Subset
  <2> QED
    BY <1>1, <2>2
<1> DEFINE f == Ascending(I)
<1>3. f \in [1..k -> I] /\ \A x, y \in 1..k: x < y => f[x] < f[y]
  BY <1>1, <1>2, AscendingOK
<1> HIDE DEF f
<1>4. Places(C, T, k, n, f)
  BY <1>1, <1>3 DEF f, Places
<1> QED
  BY <1>4

\* The difference of two values.
ToldBy(Line, A, B, segs) ==
  /\ segs \in Seq(Segs(Line))
  /\ LinesOf(segs, {"same", "del"}) = A
  /\ LinesOf(segs, {"same", "add"}) = B
  /\ \/ Len(A) * Len(B) > MaxCells
     \/ \A C \in Seq(Line):
          IsSubsequence(C, A) /\ IsSubsequence(C, B) => Len(C) <= Len(LinesOf(segs, {"same"}))

LEMMA DiffByTable ==
  ASSUME NEW Line, NEW A \in Seq(Line), NEW B \in Seq(Line), NEW segs,
         segs = Back(A, B)[<<Len(A), Len(B)>>]
  PROVE  ToldBy(Line, A, B, segs)
<1>1. PICK m \in Nat, n \in Nat: m = Len(A) /\ n = Len(B)
  OBVIOUS
<1> DEFINE L == Common(A, B)
           w == Back(A, B)
<1>2. w[<<m, n>>] \in Seq(Segs(Line)) /\ ToldTo(A, B, m, n, L, w[<<m, n>>])
  BY <1>1, BackTells, Zenon
<1>3. segs = w[<<m, n>>]
  BY <1>1, Zenon
<1> HIDE DEF w
<1>4. SubSeq(A, 1, m) = A /\ SubSeq(B, 1, n) = B
  BY <1>1, SubSeqFull, Zenon
<1>5. ASSUME NEW C \in Seq(Line), IsSubsequence(C, A), IsSubsequence(C, B)
      PROVE  Len(C) <= Len(LinesOf(segs, {"same"}))
  <2>1. PICK k \in Nat: k = Len(C)
    BY <1>5
  <2>2. PICK f: Places(C, A, k, m, f)
    BY <1>1, <1>5, <2>1, PlacesOf, Zenon
  <2>3. PICK g: Places(C, B, k, n, g)
    BY <1>1, <1>5, <2>1, PlacesOf, Zenon
  <2>4. k <= L[<<m, n>>]
    BY <1>1, <2>2, <2>3, CommonBound, Zenon
  <2> QED
    BY <1>2, <1>3, <2>1, <2>4, Zenon DEF ToldTo
<1> HIDE DEF L
<1> QED
  BY <1>2, <1>3, <1>4, <1>5, Zenon DEF ToldBy, ToldTo

LEMMA DiffOfMuch ==
  ASSUME NEW Line, NEW A \in Seq(Line), NEW B \in Seq(Line), NEW segs,
         segs = <<Segment("del", A), Segment("add", B)>>, Len(A) * Len(B) > MaxCells
  PROVE  ToldBy(Line, A, B, segs)
<1> DEFINE d == Segment("del", A)
           a == Segment("add", B)
           one == Append(<<>>, d)
<1>1. d \in Segs(Line) /\ a \in Segs(Line) /\ <<>> \in Seq(Segs(Line))
  BY SegmentOK, EmptySeq, Zenon
<1>2. segs = Append(one, a) /\ one \in Seq(Segs(Line)) /\ segs \in Seq(Segs(Line))
  <2> HIDE DEF d, a
  <2>1. segs = Append(one, a)
    BY DEF d, a
  <2>2. one \in Seq(Segs(Line))
    BY <1>1, AppendProperties
  <2>3. Append(one, a) \in Seq(Segs(Line))
    BY <1>1, <2>2, AppendProperties
  <2> QED
    BY <2>1, <2>2, <2>3
<1>3. Adds(<<>>, d, A, <<>>, <<>>)
  BY <1>1, SegmentAdds, Zenon
<1>4. Adds(one, a, <<>>, B, <<>>)
  BY <1>2, SegmentAdds, Zenon
<1>5. \A kinds: LinesOf(<<>>, kinds) = <<>>
  BY <1>1, LinesOfType, Zenon
<1>6. A \o <<>> = A /\ <<>> \o A = A /\ <<>> \o <<>> = <<>> /\ <<>> \o B = B
  BY ConcatEmptySeq, EmptySeq
<1> HIDE DEF one, d, a
<1>7. LinesOf(one, {"same", "del"}) = A /\ LinesOf(one, {"same", "add"}) = <<>>
  BY <1>3, <1>5, <1>6, Zenon DEF Adds, one
<1>8. LinesOf(segs, {"same", "del"}) = A /\ LinesOf(segs, {"same", "add"}) = B
  BY <1>2, <1>4, <1>6, <1>7, Zenon DEF Adds
<1> QED
  BY <1>2, <1>8, Zenon DEF ToldBy

LEMMA LineDiffOK ==
  ASSUME NEW Line, NEW A \in Seq(Line), NEW B \in Seq(Line)
  PROVE  ToldBy(Line, A, B, LineDiff(A, B))
<1>1. CASE Len(A) * Len(B) > MaxCells
  BY <1>1, DiffOfMuch, Zenon DEF LineDiff
<1>2. CASE ~(Len(A) * Len(B) > MaxCells)
  BY <1>2, DiffByTable, Zenon DEF LineDiff
<1> QED
  BY <1>1, <1>2

\* A run: segments that are all of what is the same, or all of what is not.
Runs(Line) ==
  {h \in Seq(Segs(Line)) : h # <<>> /\ \A i, j \in 1..Len(h): SameKind(h[i], h[j])}

LEMMA SameKindOK ==
  /\ \A s: SameKind(s, s)
  /\ \A s, t: SameKind(s, t) => SameKind(t, s)
  /\ \A s, t, u: SameKind(s, t) /\ SameKind(t, u) => SameKind(s, u)
BY Zenon DEF SameKind

LEMMA FrontAndLast ==
  ASSUME NEW V, NEW s \in Seq(V), NEW e \in V
  PROVE  Front(Append(s, e)) = s /\ Last(Append(s, e)) = e
<1> DEFINE t == Append(s, e)
<1>1. /\ t \in Seq(V) /\ Len(t) = Len(s) + 1 /\ t[Len(s) + 1] = e
      /\ \A i \in 1..Len(s): t[i] = s[i]
  BY AppendProperties
<1> HIDE DEF t
<1>2. PICK n \in Nat: n = Len(s)
  OBVIOUS
<1>3. Last(t) = e
  BY <1>1, Zenon DEF Last
<1>4. Front(t) = SubSeq(t, 1, n)
  <2>1. Len(t) - 1 = n
    BY <1>1, <1>2
  <2> QED
    BY <2>1, Zenon DEF Front
<1>5. /\ SubSeq(t, 1, n) \in Seq(V) /\ Len(SubSeq(t, 1, n)) = n
      /\ \A i \in 1..n: SubSeq(t, 1, n)[i] = t[i]
  <2>1. \A i \in 1..n: t[i] \in V
    BY <1>1, <1>2
  <2>2. 1 \in Int /\ n \in Int
    OBVIOUS
  <2>3. /\ SubSeq(t, 1, n) \in Seq(V) /\ Len(SubSeq(t, 1, n)) = IF 1 <= n THEN n - 1 + 1 ELSE 0
        /\ \A i \in 1..(n - 1 + 1): SubSeq(t, 1, n)[i] = t[1 + i - 1]
    BY <2>1, <2>2, SubSeqProperties
  <2>4. n - 1 + 1 = n /\ \A i \in 1..n: 1 + i - 1 = i
    OBVIOUS
  <2>5. Len(SubSeq(t, 1, n)) = n
    BY <2>3
  <2>6. \A i \in 1..n: SubSeq(t, 1, n)[i] = t[i]
    BY <2>3, <2>4
  <2> QED
    BY <2>3, <2>5, <2>6
<1>6. SubSeq(t, 1, n) = s
  <2> DEFINE u == SubSeq(t, 1, n)
  <2>1. u \in Seq(V) /\ Len(u) = Len(s) /\ \A i \in 1..Len(u): u[i] = s[i]
    BY <1>1, <1>2, <1>5, Zenon
  <2> HIDE DEF u
  <2>2. u = s
    BY <2>1, SeqEqual
  <2> QED
    BY <2>2 DEF u
<1> QED
  BY <1>3, <1>4, <1>6 DEF t

LEMMA RunOfOne ==
  ASSUME NEW Line, NEW s \in Segs(Line)
  PROVE  <<s>> \in Runs(Line)
<1>1. <<s>> \in Seq(Segs(Line)) /\ <<s>> # <<>> /\ Len(<<s>>) = 1 /\ <<s>>[1] = s
  OBVIOUS
<1>2. \A i, j \in 1..Len(<<s>>): i = 1 /\ j = 1
  BY <1>1
<1>3. \A i, j \in 1..Len(<<s>>): SameKind(<<s>>[i], <<s>>[j])
  BY <1>1, <1>2, SameKindOK, Zenon
<1> QED
  BY <1>1, <1>3, Zenon DEF Runs

LEMMA RunOfMore ==
  ASSUME NEW Line, NEW h \in Runs(Line), NEW s \in Segs(Line), SameKind(Last(h), s)
  PROVE  Append(h, s) \in Runs(Line)
<1> DEFINE t == Append(h, s)
           V == Segs(Line)
<1>1. h \in Seq(V) /\ h # <<>> /\ \A i, j \in 1..Len(h): SameKind(h[i], h[j])
  BY DEF Runs
<1>2. PICK n \in Nat: n = Len(h)
  BY <1>1
<1>3. n # 0 /\ n \in 1..n
  BY <1>1, <1>2
<1>4. /\ t \in Seq(V) /\ t # <<>> /\ Len(t) = n + 1 /\ t[n + 1] = s
      /\ \A i \in 1..n: t[i] = h[i]
  <2>1. h \in Seq(V) /\ s \in V
    BY <1>1
  <2> HIDE DEF V
  <2> QED
    BY <1>2, <2>1, AppendProperties
<1>5. SameKind(h[n], s)
  BY <1>2, Zenon DEF Last
<1> HIDE DEF t
<1>6. \A i \in 1..(n + 1): i \in 1..n \/ i = n + 1
  BY <1>2
<1>7. \A i \in 1..n: SameKind(t[i], s)
  <2>1. \A i \in 1..n: SameKind(h[i], h[n])
    BY <1>1, <1>2, <1>3, Zenon
  <2>2. \A i \in 1..n: SameKind(h[i], s)
    BY <1>5, <2>1, SameKindOK, Zenon
  <2> QED
    BY <1>4, <2>2, Zenon
<1>8. \A i \in 1..(n + 1): SameKind(t[i], s)
  BY <1>4, <1>6, <1>7, SameKindOK, Zenon
<1>9. \A i, j \in 1..(n + 1): SameKind(t[i], t[j])
  BY <1>8, SameKindOK, Zenon
<1>10. \A i, j \in 1..Len(t): SameKind(t[i], t[j])
  BY <1>4, <1>9, Zenon
<1> QED
  BY <1>4, <1>10, Zenon DEF Runs, t, V

\* Putting one segment more loses none, and mixes no kinds.
LEMMA GroupedOK ==
  ASSUME NEW Line, NEW hs \in Seq(Runs(Line)), NEW s \in Segs(Line)
  PROVE  /\ Grouped(hs, s) \in Seq(Runs(Line))
         /\ FlattenSeq(Grouped(hs, s)) = Append(FlattenSeq(hs), s)
<1> DEFINE V == Segs(Line)
           R == Runs(Line)
<1>1. /\ R \subseteq Seq(V) /\ hs \in Seq(Seq(V))
  <2>1. R \subseteq Seq(V)
    BY DEF Runs
  <2>2. hs \in Seq(R)
    OBVIOUS
  <2> HIDE DEF R
  <2> QED
    BY <2>1, <2>2, SeqMonotonic
<1>2. CASE hs # <<>> /\ SameKind(Last(Last(hs)), s)
  <2>1. PICK front \in Seq(R), h \in R: hs = Append(front, h)
    <3> HIDE DEF R
    <3>1. hs \in Seq(R) /\ hs # <<>>
      BY <1>2 DEF R
    <3> QED
      BY <3>1, SequenceEmptyOrAppend
  <2>2. Front(hs) = front /\ Last(hs) = h
    BY <2>1, FrontAndLast, Zenon
  <2>3. Grouped(hs, s) = Append(front, Append(h, s))
    BY <1>2, <2>2, Zenon DEF Grouped
  <2>4. Append(h, s) \in R
    BY <1>2, <2>2, RunOfMore, Zenon
  <2>5. Append(front, Append(h, s)) \in Seq(R)
    <3> HIDE DEF R
    <3> QED
      BY <2>1, <2>4, AppendProperties
  <2>6. front \in Seq(Seq(V)) /\ h \in Seq(V) /\ Append(h, s) \in Seq(V)
    <3> HIDE DEF R
    <3>1. front \in Seq(Seq(V))
      BY <1>1, <2>1, SeqMonotonic
    <3>2. h \in Seq(V) /\ Append(h, s) \in Seq(V)
      BY <1>1, <2>1, <2>4, Zenon
    <3> QED
      BY <3>1, <3>2
  <2>7. /\ FlattenSeq(hs) = FlattenSeq(front) \o h
        /\ FlattenSeq(Grouped(hs, s)) = FlattenSeq(front) \o Append(h, s)
    BY <2>1, <2>3, <2>6, FlattenAppend, Zenon
  <2>8. FlattenSeq(front) \in Seq(V)
    BY <2>6, FlattenType, Zenon
  <2>9. FlattenSeq(front) \o Append(h, s) = Append(FlattenSeq(front) \o h, s)
    <3> DEFINE x == FlattenSeq(front)
    <3> HIDE DEF x, V
    <3>1. x \in Seq(V) /\ h \in Seq(V) /\ s \in V
      BY <2>6, <2>8 DEF x, V
    <3>2. <<s>> \in Seq(V) /\ x \o h \in Seq(V)
      BY <3>1, ConcatProperties
    <3>3. Append(h, s) = h \o <<s>> /\ Append(x \o h, s) = (x \o h) \o <<s>>
      BY <3>1, <3>2, AppendIsConcat
    <3>4. (x \o h) \o <<s>> = x \o (h \o <<s>>)
      BY <3>1, <3>2, ConcatAssociative
    <3> QED
      BY <3>3, <3>4, Zenon DEF x
  <2> QED
    BY <2>3, <2>5, <2>7, <2>9, Zenon
<1>3. CASE ~(hs # <<>> /\ SameKind(Last(Last(hs)), s))
  <2>1. Grouped(hs, s) = Append(hs, <<s>>)
    BY <1>3, Zenon DEF Grouped
  <2>2. <<s>> \in R
    BY RunOfOne, Zenon
  <2>3. Append(hs, <<s>>) \in Seq(R)
    <3>1. hs \in Seq(R)
      OBVIOUS
    <3> HIDE DEF R
    <3> QED
      BY <2>2, <3>1, AppendProperties
  <2>4. <<s>> \in Seq(V) /\ FlattenSeq(hs) \in Seq(V)
    BY <1>1, <2>2, FlattenType, Zenon
  <2>5. FlattenSeq(Append(hs, <<s>>)) = FlattenSeq(hs) \o <<s>>
    BY <1>1, <2>4, FlattenAppend, Zenon
  <2>6. Append(FlattenSeq(hs), s) = FlattenSeq(hs) \o <<s>>
    BY <2>4, AppendIsConcat, Zenon
  <2> QED
    BY <2>1, <2>3, <2>5, <2>6, Zenon
<1> QED
  BY <1>2, <1>3

HunkCell(segs, f, k) == IF k = 0 THEN <<>> ELSE Grouped(f[k - 1], segs[k])

LEMMA HunksExist ==
  ASSUME NEW Line, NEW segs \in Seq(Segs(Line)), NEW n \in Nat, n = Len(segs)
  PROVE  \E f \in [0..n -> Seq(Runs(Line))]: f = [k \in 0..n |-> HunkCell(segs, f, k)]
<1> DEFINE W == Seq(Runs(Line))
           Cell(f, k) == HunkCell(segs, f, k)
           step == [f \in [0..n -> W] |-> [k \in 0..n |-> Cell(f, k)]]
<1>1. ASSUME NEW f \in [0..n -> W], NEW k \in 0..n PROVE Cell(f, k) \in W
  <2>1. CASE k = 0
    BY <2>1, EmptySeq DEF HunkCell
  <2>2. CASE k # 0
    <3>1. k - 1 \in 0..n /\ segs[k] \in Segs(Line)
      BY <2>2
    <3>2. f[k - 1] \in W
      BY <3>1
    <3>3. Grouped(f[k - 1], segs[k]) \in W
      BY <3>1, <3>2, GroupedOK, Zenon
    <3> QED
      BY <2>2, <3>3, Zenon DEF HunkCell
  <2> QED
    BY <2>1, <2>2
<1>2. ASSUME NEW f, NEW g, NEW k \in 0..n, Lower(f, g, 0, k) PROVE Cell(f, k) = Cell(g, k)
  <2>1. CASE k = 0
    BY <2>1 DEF HunkCell
  <2>2. CASE k # 0
    <3>1. k - 1 \in 0..(k - 1)
      BY <2>2
    <3>2. f[k - 1] = g[k - 1]
      BY <1>2, <3>1 DEF Lower
    <3> QED
      BY <3>2, Zenon DEF HunkCell
  <2> QED
    BY <2>1, <2>2
<1>3. <<>> \in W
  BY EmptySeq
<1> HIDE DEF Cell, W
<1>4. step \in [[0..n -> W] -> [0..n -> W]]
  BY <1>1
<1>5. ASSUME NEW f \in [0..n -> W], NEW g \in [0..n -> W], NEW k \in 0..n, Lower(f, g, 0, k)
      PROVE  step[f][k] = step[g][k]
  <2>1. Cell(f, k) = Cell(g, k)
    <3> HIDE DEF step
    <3> QED
      BY <1>2, <1>5, Zenon
  <2> QED
    BY <2>1, Zenon
<1>6. \A f \in [0..n -> W]: step[f] = [k \in 0..n |-> Cell(f, k)]
  OBVIOUS
<1>7. \E f \in [0..n -> W]: f = step[f]
  <2> HIDE DEF step
  <2>1. 0 \in Nat
    OBVIOUS
  <2>2. Onward(0, n, W, step)
    BY <1>4, <1>5, Zenon DEF Onward
  <2> QED
    BY <1>3, <2>1, <2>2, LineRecursion
<1> HIDE DEF step
<1> QED
  BY <1>6, <1>7, Zenon DEF Cell, W

\* The hunks are the segments, in runs.
LEMMA HunksOK ==
  ASSUME NEW Line, NEW segs \in Seq(Segs(Line))
  PROVE  Hunks(segs) \in Seq(Runs(Line)) /\ FlattenSeq(Hunks(segs)) = segs
<1> DEFINE n == Len(segs)
           V == Segs(Line)
           W == Seq(Runs(Line))
<1>1. n \in Nat
  OBVIOUS
<1>2. \E f \in [0..n -> W]: f = [k \in 0..n |-> HunkCell(segs, f, k)]
  BY <1>1, HunksExist
<1> DEFINE f == CHOOSE f: f = [k \in 0..n |-> HunkCell(segs, f, k)]
<1>3. f = [k \in 0..n |-> HunkCell(segs, f, k)]
  BY <1>2
<1>4. Hunks(segs) = f[n]
  BY Zenon DEF Hunks, HunkCell
<1> HIDE DEF f, n
<1>5. \A k \in 0..n: f[k] = HunkCell(segs, f, k)
  BY <1>3, Zenon
<1> DEFINE P(k) == f[k] \in W /\ FlattenSeq(f[k]) = SubSeq(segs, 1, k)
           S == {k \in Nat : k \in 0..n => P(k)}
<1>6. P(0)
  <2>1. f[0] = <<>>
    BY <1>1, <1>5 DEF HunkCell
  <2>2. <<>> \in W /\ <<>> \in Seq(Seq(V)) /\ Len(<<>>) = 0
    BY EmptySeq
  <2>3. FlattenSeq(<<>>) = <<>>
    BY <2>2, FlattenType, Zenon
  <2>4. SubSeq(segs, 1, 0) = <<>>
    BY SubSeqEmpty
  <2> QED
    BY <2>1, <2>2, <2>3, <2>4, Zenon
<1>7. ASSUME NEW k \in Nat, k \in 0..n => P(k), k + 1 \in 0..n PROVE P(k + 1)
  <2>1. k \in 0..n /\ k + 1 # 0 /\ (k + 1) - 1 = k
    BY <1>1, <1>7
  <2>2. k + 1 \in 1..Len(segs) /\ segs[k + 1] \in V
    BY <1>1, <1>7 DEF n
  <2>3. f[k + 1] = Grouped(f[k], segs[k + 1])
    BY <1>5, <1>7, <2>1, Zenon DEF HunkCell
  <2>4. P(k)
    BY <1>7, <2>1, Zenon
  <2>5. f[k + 1] \in W /\ FlattenSeq(f[k + 1]) = Append(FlattenSeq(f[k]), segs[k + 1])
    BY <2>2, <2>3, <2>4, GroupedOK, Zenon
  <2>6. Append(SubSeq(segs, 1, k), segs[k + 1]) = SubSeq(segs, 1, k + 1)
    <3> DEFINE i == k + 1
    <3>1. segs \in Seq(V) /\ i \in 1..Len(segs)
      BY <2>2
    <3>2. i - 1 = k
      BY <2>1
    <3> HIDE DEF i, V
    <3>3. SubSeq(segs, 1, i) = SubSeq(segs, 1, i - 1) \o <<segs[i]>>
      BY <3>1, OneMore
    <3>4. SubSeq(segs, 1, i - 1) \in Seq(V) /\ segs[i] \in V
      BY <3>1, OneMore
    <3>5. Append(SubSeq(segs, 1, i - 1), segs[i]) = SubSeq(segs, 1, i - 1) \o <<segs[i]>>
      BY <3>4, AppendIsConcat, Zenon
    <3> QED
      BY <3>2, <3>3, <3>5, Zenon DEF i
  <2> QED
    BY <2>4, <2>5, <2>6, Zenon
<1> HIDE DEF P
<1>8. 0 \in S
  BY <1>6
<1>9. ASSUME NEW k \in Nat, k \in S PROVE k + 1 \in S
  BY <1>7, <1>9
<1>10. \A k \in Nat: k \in S
  <2> HIDE DEF S
  <2> QED
    BY <1>8, <1>9, Induction
<1>11. P(n)
  <2>1. n \in 0..n /\ n \in S
    BY <1>1, <1>10
  <2> QED
    BY <2>1
<1>12. SubSeq(segs, 1, n) = segs
  BY SubSeqFull DEF n
<1> QED
  BY <1>4, <1>11, <1>12, Zenon DEF P

\* What a hunk shows and what it says it hides is the hunk, and no change is hidden.
LEMMA HunkShownOK ==
  ASSUME NEW Line, NEW h \in Runs(Line), NEW hi
  PROVE  /\ Len(ShownOf(h, hi)) + HiddenOf(h, hi) = Len(h)
         /\ HiddenOf(h, hi) > 0 => \A i \in 1..Len(h): h[i].kind = "same"
<1> DEFINE V == Segs(Line)
<1>1. h \in Seq(V) /\ h # <<>> /\ \A i, j \in 1..Len(h): SameKind(h[i], h[j])
  BY DEF Runs
<1>2. PICK n \in Nat: n = Len(h)
  BY <1>1
<1>3. PICK c \in Nat \ {0}: c = Context
  BY KeyHistoryAssumption
<1>4. CASE Collapsed(h, hi)
  <2>1. h[1].kind = "same" /\ n > c * 2 + 1
    BY <1>2, <1>3, <1>4, Zenon DEF Collapsed
  <2>2. /\ ShownOf(h, hi) = SubSeq(h, 1, c) \o SubSeq(h, n - c + 1, n)
        /\ HiddenOf(h, hi) = n - c * 2
    BY <1>2, <1>3, <1>4, Zenon DEF ShownOf, HiddenOf
  <2>3. 1 \in 1..n /\ 1..c \subseteq 1..n /\ (n - c + 1)..n \subseteq 1..n
    BY <2>1
  <2>4. \A i \in 1..n: h[i] \in V
    BY <1>1, <1>2
  <2> HIDE DEF V
  <2>5. SubSeq(h, 1, c) \in Seq(V) /\ Len(SubSeq(h, 1, c)) = c
    <3>1. 1 \in Int /\ c \in Int /\ \A i \in 1..c: h[i] \in V
      BY <2>3, <2>4
    <3>2. SubSeq(h, 1, c) \in Seq(V) /\ Len(SubSeq(h, 1, c)) = IF 1 <= c THEN c - 1 + 1 ELSE 0
      BY <3>1, SubSeqProperties
    <3> QED
      BY <3>2
  <2>6. SubSeq(h, n - c + 1, n) \in Seq(V) /\ Len(SubSeq(h, n - c + 1, n)) = c
    <3> DEFINE d == n - c + 1
    <3>1. d \in Int /\ n \in Int /\ (\A i \in d..n: h[i] \in V) /\ d <= n /\ n - d + 1 = c
      BY <2>3, <2>4
    <3> HIDE DEF d
    <3>2. SubSeq(h, d, n) \in Seq(V) /\ Len(SubSeq(h, d, n)) = IF d <= n THEN n - d + 1 ELSE 0
      BY <3>1, SubSeqProperties
    <3>3. SubSeq(h, d, n) \in Seq(V) /\ Len(SubSeq(h, d, n)) = c
      BY <3>1, <3>2
    <3> QED
      BY <3>3 DEF d
  <2>7. Len(SubSeq(h, 1, c) \o SubSeq(h, n - c + 1, n)) = c + c
    <3> DEFINE x == SubSeq(h, 1, c)
               y == SubSeq(h, n - c + 1, n)
    <3>1. x \in Seq(V) /\ y \in Seq(V) /\ Len(x) = c /\ Len(y) = c
      BY <2>5, <2>6
    <3> HIDE DEF x, y
    <3>2. Len(x \o y) = Len(x) + Len(y)
      BY <3>1, ConcatProperties
    <3> QED
      BY <3>1, <3>2, Zenon DEF x, y
  <2>8. (c + c) + (n - c * 2) = n
    OBVIOUS
  <2>9. \A i \in 1..n: h[i].kind = "same"
    BY <1>1, <1>2, <2>1, <2>3, Zenon DEF SameKind
  <2> QED
    BY <1>2, <2>2, <2>7, <2>8, <2>9, Zenon
<1>5. CASE ~Collapsed(h, hi)
  <2>1. ShownOf(h, hi) = h /\ HiddenOf(h, hi) = 0
    BY <1>5, Zenon DEF ShownOf, HiddenOf
  <2> QED
    BY <1>2, <2>1
<1> QED
  BY <1>4, <1>5

\* What the drawer has read is versions of the key.
ReadsVersions ==
  /\ khRead = <<0, 0>> \/ khRead[1] >= 1
  /\ khRead[2] <= Len(khStore)

LEMMA ComparedOK ==
  ASSUME KeyHistoryTypeOK, ReadsVersions, Compares
  PROVE  /\ khStore[khCompare] \in Seq(STRING) /\ khStore[Newest] \in Seq(STRING)
         /\ ToldBy(STRING, khStore[khCompare], khStore[Newest], Segments)
         /\ Hunks(Segments) \in Seq(Runs(STRING)) /\ FlattenSeq(Hunks(Segments)) = Segments
<1>1. PICK a \in 0..KhMaxRev, b \in 0..KhMaxRev: khRead = <<a, b>>
  BY DEF KeyHistoryTypeOK
<1>2. PICK n \in Nat: n = Len(khStore)
  BY DEF KeyHistoryTypeOK
<1>3. PICK c \in 0..KhMaxRev: c = khCompare
  BY DEF KeyHistoryTypeOK
<1>4. b > 0 /\ c \in a..b /\ Newest = b
  BY <1>1, <1>3 DEF Compares, Newest, Versions
<1>5. a >= 1 /\ b <= n
  BY <1>1, <1>2, <1>4 DEF ReadsVersions
<1>6. b \in 1..n /\ c \in 1..n
  BY <1>4, <1>5
<1>7. khStore \in Seq(KhText)
  BY DEF KeyHistoryTypeOK
<1>8. khStore[c] \in KhText /\ khStore[b] \in KhText
  BY <1>2, <1>6, <1>7, ElementOfSeq
<1>9. khStore[c] \in Seq(STRING) /\ khStore[b] \in Seq(STRING)
  BY <1>8, KeyHistoryAssumption, Zenon
<1>10. ToldBy(STRING, khStore[c], khStore[b], LineDiff(khStore[c], khStore[b]))
  BY <1>9, LineDiffOK, Zenon
<1>11. Segments = LineDiff(khStore[c], khStore[b])
  BY <1>3, <1>4, Zenon DEF Segments
<1>12. Segments \in Seq(Segs(STRING))
  BY <1>10, <1>11, Zenon DEF ToldBy
<1>13. Hunks(Segments) \in Seq(Runs(STRING)) /\ FlattenSeq(Hunks(Segments)) = Segments
  BY <1>12, HunksOK, Zenon
<1> QED
  BY <1>3, <1>4, <1>9, <1>10, <1>11, <1>13, Zenon

LEMMA DiffTellsTheChangeOK ==
  ASSUME KeyHistoryTypeOK, ReadsVersions
  PROVE  DiffTellsTheChange
<1> SUFFICES ASSUME Compares PROVE DiffTellsTheChange
  BY Zenon DEF DiffTellsTheChange
<1> DEFINE A == khStore[khCompare]
           B == khStore[Newest]
           hunks == Hunks(Segments)
<1>1. /\ ToldBy(STRING, A, B, Segments)
      /\ hunks \in Seq(Runs(STRING)) /\ FlattenSeq(hunks) = Segments
  BY ComparedOK, Zenon
<1>2. \A C \in KhText: C \in Seq(STRING)
  BY KeyHistoryAssumption, Zenon
<1>3. ASSUME NEW hi \in 1..Len(hunks)
      PROVE  /\ Len(ShownOf(hunks[hi], hi)) + HiddenOf(hunks[hi], hi) = Len(hunks[hi])
             /\ HiddenOf(hunks[hi], hi) > 0 =>
                  \A i \in 1..Len(hunks[hi]): hunks[hi][i].kind = "same"
  <2>1. hunks[hi] \in Runs(STRING)
    <3> DEFINE R == Runs(STRING)
    <3>1. hunks \in Seq(R)
      BY <1>1
    <3> HIDE DEF R, hunks
    <3>2. hunks[hi] \in R
      BY <1>3, <3>1, ElementOfSeq
    <3> QED
      BY <3>2 DEF R
  <2> HIDE DEF hunks
  <2> QED
    BY <2>1, HunkShownOK, Zenon
<1>4. /\ LinesOf(Segments, {"same", "del"}) = A
      /\ LinesOf(Segments, {"same", "add"}) = B
      /\ \/ Len(A) * Len(B) > MaxCells
         \/ \A C \in KhText:
              IsSubsequence(C, A) /\ IsSubsequence(C, B)
                => Len(C) <= Len(LinesOf(Segments, {"same"}))
  <2> HIDE DEF A, B
  <2> QED
    BY <1>1, <1>2, Zenon DEF ToldBy
<1> QED
  BY <1>1, <1>3, <1>4, Zenon DEF DiffTellsTheChange

HistoryInv == KeyHistoryTypeOK /\ ReadsVersions

LEMMA KeyHistoryNextOK ==
  ASSUME HistoryInv, [KeyHistoryNext]_khVars
  PROVE  HistoryInv'
<1> USE DEF HistoryInv
<1>0. KhMaxRev \in Nat
  BY KeyHistoryAssumption
<1>1. PICK a \in 0..KhMaxRev, b \in 0..KhMaxRev: khRead = <<a, b>>
  BY DEF KeyHistoryTypeOK
<1>2. PICK n \in Nat: n = Len(khStore) /\ n <= KhMaxRev /\ b <= n
  BY <1>1 DEF KeyHistoryTypeOK, ReadsVersions
<1>3. CASE UNCHANGED khVars
  BY <1>3 DEF khVars, KeyHistoryTypeOK, ReadsVersions
<1>4. ASSUME NEW text \in KhText, HistoryWrite(text) PROVE HistoryInv'
  <2>1. khStore' = Append(khStore, text) /\ n < KhMaxRev
    BY <1>2, <1>4 DEF HistoryWrite
  <2>2. khStore \in Seq(KhText)
    BY DEF KeyHistoryTypeOK
  <2>3. khStore' \in Seq(KhText) /\ Len(khStore') = n + 1
    BY <1>2, <2>1, <2>2, AppendProperties
  <2>4. KeyHistoryTypeOK'
    BY <1>0, <1>2, <1>4, <2>1, <2>3 DEF HistoryWrite, KeyHistoryTypeOK
  <2>5. ReadsVersions'
    BY <1>1, <1>2, <1>4, <2>3 DEF HistoryWrite, ReadsVersions
  <2> QED
    BY <2>4, <2>5
<1>5. CASE HistoryCompacts
  <2>1. khOldest' \in 1..KhMaxRev
    BY <1>0, <1>2, <1>5 DEF HistoryCompacts, KeyHistoryTypeOK
  <2> QED
    BY <1>5, <2>1 DEF HistoryCompacts, KeyHistoryTypeOK, ReadsVersions
<1>6. CASE OpenDrawer
  BY <1>6 DEF OpenDrawer, KeyHistoryTypeOK, ReadsVersions
<1>7. CASE CloseDrawer
  BY <1>7 DEF CloseDrawer, KeyHistoryTypeOK, ReadsVersions
<1>8. CASE HistoryRead
  <2>1. /\ khRead' = <<khOldest, n>> /\ khCompare' = khCompare
        /\ khExpanded' \in {khExpanded, {}} /\ khCompact' \subseteq khCompact
        /\ UNCHANGED <<khStore, khOldest, khOpen>>
    BY <1>2, <1>8 DEF HistoryRead, Renders
  <2>2. khOldest \in 1..KhMaxRev /\ n \in 0..KhMaxRev
    BY <1>0, <1>2 DEF KeyHistoryTypeOK
  <2>3. KeyHistoryTypeOK'
    BY <1>0, <2>1, <2>2 DEF KeyHistoryTypeOK
  <2>4. ReadsVersions'
    BY <1>2, <2>1, <2>2 DEF ReadsVersions
  <2> QED
    BY <2>3, <2>4
<1>9. ASSUME NEW v \in 1..KhMaxRev, ToggleCompare(v) PROVE HistoryInv'
  <2>1. /\ khRead' = khRead /\ khCompare' \in {0, v}
        /\ khExpanded' \in {khExpanded, {}} /\ khCompact' \subseteq khCompact
        /\ UNCHANGED <<khStore, khOldest, khOpen>>
    BY <1>9 DEF ToggleCompare, Renders
  <2>2. khCompare' \in 0..KhMaxRev
    BY <1>0, <2>1
  <2> QED
    BY <2>1, <2>2 DEF KeyHistoryTypeOK, ReadsVersions
<1>10. ASSUME NEW v \in 1..KhMaxRev, TogglePretty(v) PROVE HistoryInv'
  BY <1>10 DEF TogglePretty, KeyHistoryTypeOK, ReadsVersions
<1>11. ASSUME NEW hi \in HunkNumbers, Expand(hi) PROVE HistoryInv'
  <2>1. Compares /\ hi \in 1..Len(Hunks(Segments))
    BY <1>11 DEF HunkNumbers
  <2>2. Hunks(Segments) \in Seq(Runs(STRING))
    BY <2>1, ComparedOK, Zenon
  <2>3. PICK k \in Nat: k = Len(Hunks(Segments))
    BY <2>2, LenProperties, Zenon
  <2>4. hi \in Nat
    BY <2>1, <2>3
  <2>5. khExpanded' = khExpanded \cup {hi}
        /\ UNCHANGED <<khStore, khOldest, khOpen, khRead, khCompare, khCompact>>
    BY <1>11, Zenon DEF Expand
  <2> QED
    BY <2>4, <2>5 DEF KeyHistoryTypeOK, ReadsVersions
<1> QED
  BY <1>3, <1>4, <1>5, <1>6, <1>7, <1>8, <1>9, <1>10, <1>11 DEF KeyHistoryNext

\* Whichever versions are compared, of a key written and compacted meanwhile, the
\* panel tells both, with no line missed that they share, and hides no change.
THEOREM ChangesAreTold == ConsoleSpec => []DiffTellsTheChangeHere
<1> DEFINE Inv == route = "history" => HistoryInv
<1>1. ConsoleInit => Inv
  <2> SUFFICES ASSUME ConsoleInit PROVE HistoryInv
    OBVIOUS
  <2>1. /\ khStore = <<>> /\ khOldest = 1 /\ khOpen = FALSE /\ khRead = <<0, 0>>
        /\ khCompare = 0 /\ khExpanded = {} /\ khCompact = {}
    BY DEF ConsoleInit, KeyHistoryInit
  <2>2. KhMaxRev \in Nat \ {0} /\ khStore \in Seq(KhText) /\ Len(khStore) = 0
    BY <2>1, KeyHistoryAssumption, EmptySeq
  <2>3. ReadsVersions
    BY <2>1, <2>2 DEF ReadsVersions
  <2>4. /\ Len(khStore) <= KhMaxRev /\ khOldest \in 1..KhMaxRev /\ khCompare \in 0..KhMaxRev
        /\ khRead \in (0..KhMaxRev) \X (0..KhMaxRev)
    BY <2>1, <2>2
  <2> QED
    BY <2>1, <2>2, <2>3, <2>4, Zenon DEF HistoryInv, KeyHistoryTypeOK
<1>2. Inv /\ [ConsoleNext]_consoleVars => Inv'
  <2> SUFFICES ASSUME Inv, [ConsoleNext]_consoleVars, route' = "history" PROVE HistoryInv'
    OBVIOUS
  <2>1. route = "history" /\ HistoryInv
    BY RouteStays
  <2>2. [KeyHistoryNext]_khVars
    BY <2>1 DEF ConsoleNext, KeyPages, OtherPages, FormPages, Cards, Widgets, consoleVars
  <2> QED
    BY <2>1, <2>2, KeyHistoryNextOK
<1>3. Inv => DiffTellsTheChangeHere
  BY DiffTellsTheChangeOK DEF DiffTellsTheChangeHere, HistoryInv
<1> QED
  BY <1>1, <1>2, <1>3, PTL DEF ConsoleSpec

----------------------------------------------------------------------------
(***************************************************************************)
(* Figures.  Samples and points are pairs of a time and a figure, in the   *)
(* order of their time.  The slope of some samples is that of sums over    *)
(* them, to which a sample whose figure is not lower adds nothing          *)
(* negative.                                                               *)
(***************************************************************************)
\* The least of some numbers.
LEMMA MinOK ==
  ASSUME NEW S \in SUBSET Nat, S # {}
  PROVE  Min(S) \in S /\ \A x \in S: Min(S) <= x
<1>1. \E x \in S: \A y \in S: x =< y
  BY LeastExists
<1>2. Min(S) \in S /\ \A y \in S: Min(S) =< y
  BY <1>1, Zenon DEF Min
<1> QED
  BY <1>2

\* Samples and points: pairs of a time and a figure.
Timed(V) == Nat \X V

\* Pairs in the order of their time, and figures that do not fall.
InTime(s) == \A i, j \in 1..Len(s): i < j => s[i][1] < s[j][1]
NoFall(s) == \A i, j \in 1..Len(s): i < j => s[i][2] <= s[j][2]

LEMMA Times ==
  ASSUME NEW a \in Int, NEW b \in Int, a > 0, b >= 0
  PROVE  a * b >= 0 /\ (a * b > 0 <=> b > 0)
  OBVIOUS

\* A function whose value at a number is made of the value at the one before.
FoldOf(n, v, next, f) ==
  \A k \in 0..n: f[k] = IF k = 0 THEN v ELSE next[<<f[k - 1], k>>]

LEMMA FoldExists ==
  ASSUME NEW n \in Nat, NEW V, NEW v \in V, NEW next \in [V \X (1..n) -> V]
  PROVE  \E f \in [0..n -> V]: FoldOf(n, v, next, f)
<1> DEFINE Cell(f, k) == IF k = 0 THEN v ELSE next[<<f[k - 1], k>>]
           step == [f \in [0..n -> V] |-> [k \in 0..n |-> Cell(f, k)]]
<1>1. ASSUME NEW f \in [0..n -> V], NEW k \in 0..n PROVE Cell(f, k) \in V
  <2>1. CASE k = 0
    BY <2>1
  <2>2. CASE k # 0
    <3>1. k - 1 \in 0..n /\ k \in 1..n
      BY <2>2
    <3>2. <<f[k - 1], k>> \in V \X (1..n)
      BY <3>1
    <3> QED
      BY <2>2, <3>2
  <2> QED
    BY <2>1, <2>2
<1>2. ASSUME NEW f, NEW g, NEW k \in 0..n, Lower(f, g, 0, k) PROVE Cell(f, k) = Cell(g, k)
  <2>1. CASE k = 0
    BY <2>1
  <2>2. CASE k # 0
    <3>1. k - 1 \in 0..(k - 1)
      BY <2>2
    <3>2. f[k - 1] = g[k - 1]
      BY <1>2, <3>1 DEF Lower
    <3> QED
      BY <3>2, Zenon
  <2> QED
    BY <2>1, <2>2
<1> HIDE DEF Cell
<1>3. step \in [[0..n -> V] -> [0..n -> V]]
  BY <1>1
<1>4. ASSUME NEW f \in [0..n -> V], NEW g \in [0..n -> V], NEW k \in 0..n, Lower(f, g, 0, k)
      PROVE  step[f][k] = step[g][k]
  <2>1. Cell(f, k) = Cell(g, k)
    BY <1>2, <1>4, Zenon
  <2> QED
    BY <2>1, Zenon
<1>5. \A f \in [0..n -> V]: step[f] = [k \in 0..n |-> Cell(f, k)]
  OBVIOUS
<1>6. \E f \in [0..n -> V]: f = step[f]
  <2> HIDE DEF step
  <2>1. 0 \in Nat
    OBVIOUS
  <2>2. Onward(0, n, V, step)
    BY <1>3, <1>4, Zenon DEF Onward
  <2> QED
    BY <2>1, <2>2, LineRecursion
<1> HIDE DEF step
<1>7. PICK f \in [0..n -> V]: f = [k \in 0..n |-> Cell(f, k)]
  BY <1>5, <1>6, Zenon
<1>8. \A k \in 0..n: f[k] = Cell(f, k)
  BY <1>7, Zenon
<1> QED
  BY <1>8, Zenon DEF Cell, FoldOf

\* The sums over samples.
SumsSet == [x: Int, b: Int, xx: Int, xb: Int]
NoSums == [x |-> 0, b |-> 0, xx |-> 0, xb |-> 0]
Plus(sum, x, b) ==
  [x |-> sum.x + x, b |-> sum.b + b, xx |-> sum.xx + x * x, xb |-> sum.xb + x * b]
SumCell(s, f, n) ==
  IF n = 0 THEN [x |-> 0, b |-> 0, xx |-> 0, xb |-> 0]
  ELSE LET x == s[n][1] - s[1][1] IN
       [x |-> f[n - 1].x + x, b |-> f[n - 1].b + s[n][2],
        xx |-> f[n - 1].xx + x * x, xb |-> f[n - 1].xb + x * s[n][2]]
Summed(s, n, f) ==
  /\ f \in [0..n -> SumsSet] /\ f[0] = NoSums /\ Sums(s) = f[n]
  /\ \A k \in 1..n: f[k] = Plus(f[k - 1], s[k][1] - s[1][1], s[k][2])

LEMMA PlusOK ==
  ASSUME NEW sum \in SumsSet, NEW x \in Int, NEW b \in Int
  PROVE  Plus(sum, x, b) \in SumsSet
<1>1. x * x \in Int /\ x * b \in Int
  OBVIOUS
<1> QED
  BY <1>1 DEF SumsSet, Plus

LEMMA SumsOK ==
  ASSUME NEW s \in Seq(Timed(Int)), NEW n \in Nat, n = Len(s)
  PROVE  \E f: Summed(s, n, f)
<1> DEFINE next == [p \in SumsSet \X (1..n) |-> Plus(p[1], s[p[2]][1] - s[1][1], s[p[2]][2])]
<1>1. ASSUME NEW k \in 1..n PROVE s[k][1] - s[1][1] \in Int /\ s[k][2] \in Int
  <2>1. s[k] \in Timed(Int) /\ s[1] \in Timed(Int)
    BY ElementOfSeq
  <2> QED
    BY <2>1 DEF Timed
<1>2. next \in [SumsSet \X (1..n) -> SumsSet]
  <2> SUFFICES ASSUME NEW p \in SumsSet \X (1..n)
               PROVE  Plus(p[1], s[p[2]][1] - s[1][1], s[p[2]][2]) \in SumsSet
    BY Zenon
  <2>1. p[1] \in SumsSet /\ p[2] \in 1..n
    OBVIOUS
  <2> QED
    BY <1>1, <2>1, PlusOK, Zenon
<1>3. NoSums \in SumsSet
  BY DEF NoSums, SumsSet
<1>4. \A sum \in SumsSet, k \in 1..n: next[<<sum, k>>] = Plus(sum, s[k][1] - s[1][1], s[k][2])
  OBVIOUS
<1> HIDE DEF next
<1>5. PICK f \in [0..n -> SumsSet]: FoldOf(n, NoSums, next, f)
  BY <1>2, <1>3, FoldExists, Zenon
<1>6. \A k \in 0..n: f[k] = SumCell(s, f, k)
  <2> TAKE k \in 0..n
  <2>1. CASE k = 0
    BY <1>5, <2>1 DEF SumCell, NoSums, FoldOf
  <2>2. CASE k # 0
    <3>1. k \in 1..n /\ k - 1 \in 0..n
      BY <2>2
    <3>2. f[k] = next[<<f[k - 1], k>>] /\ f[k - 1] \in SumsSet
      BY <1>5, <2>2, <3>1 DEF FoldOf
    <3>3. f[k] = Plus(f[k - 1], s[k][1] - s[1][1], s[k][2])
      BY <1>4, <3>1, <3>2, Zenon
    <3> QED
      BY <2>2, <3>3, Zenon DEF SumCell, Plus
  <2> QED
    BY <2>1, <2>2
<1>7. f = [k \in 0..n |-> SumCell(s, f, k)]
  BY <1>6, Zenon
<1> DEFINE g == CHOOSE g: g = [k \in 0..n |-> SumCell(s, g, k)]
<1>8. g = [k \in 0..n |-> SumCell(s, g, k)]
  BY <1>7, Zenon
<1>9. Sums(s) = g[n]
  BY Zenon DEF Sums, SumCell
<1> HIDE DEF g
<1>10. \A k \in 0..n: g[k] = SumCell(s, g, k)
  BY <1>8, Zenon
<1>11. g[0] = NoSums
  <2>1. 0 \in 0..n
    OBVIOUS
  <2> QED
    BY <1>10, <2>1, Zenon DEF SumCell, NoSums
<1>12. \A k \in 1..n: g[k] = Plus(g[k - 1], s[k][1] - s[1][1], s[k][2])
  <2> TAKE k \in 1..n
  <2>1. k \in 0..n /\ k # 0
    OBVIOUS
  <2> QED
    BY <1>10, <2>1, Zenon DEF SumCell, Plus
<1>13. \A k \in Nat: k \in 0..n => g[k] \in SumsSet
  <2> DEFINE S == {k \in Nat : k \in 0..n => g[k] \in SumsSet}
  <2>1. 0 \in S
    BY <1>3, <1>11
  <2>2. ASSUME NEW k \in Nat, k \in S PROVE k + 1 \in S
    <3> SUFFICES ASSUME k + 1 \in 0..n PROVE g[k + 1] \in SumsSet
      OBVIOUS
    <3>1. k \in 0..n /\ k + 1 \in 1..n /\ (k + 1) - 1 = k
      OBVIOUS
    <3>2. g[k] \in SumsSet
      BY <2>2, <3>1
    <3>3. g[k + 1] = Plus(g[k], s[k + 1][1] - s[1][1], s[k + 1][2])
      BY <1>12, <3>1
    <3> QED
      BY <1>1, <3>1, <3>2, <3>3, PlusOK, Zenon
  <2> HIDE DEF S
  <2>3. \A k \in Nat: k \in S
    BY <2>1, <2>2, Induction
  <2> QED
    BY <2>3, Zenon DEF S
<1>14. g \in [0..n -> SumsSet]
  <2>1. \A k \in 0..n: k \in Nat
    OBVIOUS
  <2> QED
    BY <1>8, <1>13, <2>1, Zenon
<1> QED
  BY <1>9, <1>11, <1>12, <1>14, Zenon DEF Summed

\* The slope of the first k samples, and what one more at y with c adds to it.
SlopeOf(k, sum) == k * sum.xb - sum.x * sum.b
Gain(k, sum, y, c) == sum.xb + k * (y * c) - sum.x * c - y * sum.b

\* What is added is not negative, and positive if the figure has risen since the first.
GainsUpto(s, k, sum) ==
  \A y, c \in Int: y > s[k][1] - s[1][1] /\ c >= s[k][2] =>
    /\ Gain(k, sum, y, c) \in Int /\ Gain(k, sum, y, c) >= 0
    /\ Gain(k, sum, y, c) > 0 <=> c > s[1][2]
RisesUpto(s, k, sum) ==
  /\ SlopeOf(k, sum) \in Int /\ SlopeOf(k, sum) >= 0
  /\ SlopeOf(k, sum) > 0 <=> s[k][2] > s[1][2]

\* One more sample, at x with b.
GainSteps(k, sum, x, b, y, c) ==
  /\ Gain(k, sum, y, c) \in Int /\ SlopeOf(k, sum) \in Int
  /\ Gain(k + 1, Plus(sum, x, b), y, c) = Gain(k, sum, y, c) + (y - x) * (c - b)
  /\ SlopeOf(k + 1, Plus(sum, x, b)) = SlopeOf(k, sum) + Gain(k, sum, x, b)

LEMMA GainStep ==
  ASSUME NEW k \in Int, NEW sum \in SumsSet, NEW x \in Int, NEW b \in Int,
         NEW y \in Int, NEW c \in Int
  PROVE  GainSteps(k, sum, x, b, y, c)
<1>1. PICK tx \in Int, tb \in Int, txb \in Int: tx = sum.x /\ tb = sum.b /\ txb = sum.xb
  BY DEF SumsSet
<1>2. PICK next: next = Plus(sum, x, b)
  OBVIOUS
<1>3. next.x = tx + x /\ next.b = tb + b /\ next.xb = txb + x * b
  BY <1>1, <1>2, Zenon DEF Plus
<1>4. /\ Gain(k, sum, y, c) = txb + k * (y * c) - tx * c - y * tb
      /\ Gain(k, sum, x, b) = txb + k * (x * b) - tx * b - x * tb
      /\ SlopeOf(k, sum) = k * txb - tx * tb
  BY <1>1, Zenon DEF Gain, SlopeOf
<1>5. /\ Gain(k + 1, next, y, c) = (txb + x * b) + (k + 1) * (y * c) - (tx + x) * c - y * (tb + b)
      /\ SlopeOf(k + 1, next) = (k + 1) * (txb + x * b) - (tx + x) * (tb + b)
  BY <1>3, Zenon DEF Gain, SlopeOf
<1>6. txb + k * (y * c) - tx * c - y * tb \in Int /\ k * txb - tx * tb \in Int
  OBVIOUS
<1>7. /\ (txb + x * b) + (k + 1) * (y * c) - (tx + x) * c - y * (tb + b)
           = (txb + k * (y * c) - tx * c - y * tb) + (y - x) * (c - b)
      /\ (k + 1) * (txb + x * b) - (tx + x) * (tb + b)
           = (k * txb - tx * tb) + (txb + k * (x * b) - tx * b - x * tb)
  OBVIOUS
<1> QED
  BY <1>2, <1>4, <1>5, <1>6, <1>7, Zenon DEF GainSteps

LEMMA GainNothing ==
  ASSUME NEW y \in Int, NEW c \in Int
  PROVE  Gain(0, NoSums, y, c) = 0 /\ SlopeOf(0, NoSums) = 0
<1>1. NoSums.x = 0 /\ NoSums.b = 0 /\ NoSums.xb = 0
  BY DEF NoSums
<1>2. 0 + 0 * (y * c) - 0 * c - y * 0 = 0 /\ 0 * 0 - 0 * 0 = 0
  OBVIOUS
<1> QED
  BY <1>1, <1>2, Zenon DEF Gain, SlopeOf

\* Sample k + 1 of some, and the sums with it.
Sampled(s, f, k, t, b1, x, b) ==
  /\ t = s[1][1] /\ b1 = s[1][2] /\ x = s[k + 1][1] - t /\ b = s[k + 1][2]
  /\ f[k] \in SumsSet /\ f[k + 1] = Plus(f[k], x, b)
  /\ k = 0 => x = 0 /\ b = b1 /\ f[k] = NoSums
  /\ k # 0 => /\ s[k][1] - t < x /\ b1 <= s[k][2] /\ s[k][2] <= b
              /\ s[k][1] - t \in Int /\ s[k][2] \in Int

LEMMA SampledOK ==
  ASSUME NEW s \in Seq(Timed(Int)), NEW n \in Nat, n = Len(s), InTime(s), NoFall(s),
         NEW f, Summed(s, n, f), NEW k \in Nat, k + 1 \in 1..n
  PROVE  \E t, b1, x, b \in Int: Sampled(s, f, k, t, b1, x, b)
<1>1. \A i \in 1..n: s[i][1] \in Int /\ s[i][2] \in Int
  <2>1. \A i \in 1..n: s[i] \in Timed(Int)
    BY ElementOfSeq
  <2> QED
    BY <2>1 DEF Timed
<1>2. 1 \in 1..n /\ k + 1 \in 1..n /\ k \in 0..n /\ (k + 1) - 1 = k
  OBVIOUS
<1>3. PICK t \in Int, b1 \in Int, x \in Int, b \in Int, u \in Int:
        t = s[1][1] /\ b1 = s[1][2] /\ u = s[k + 1][1] /\ x = u - t /\ b = s[k + 1][2]
  <2>1. s[1][1] \in Int /\ s[1][2] \in Int /\ s[k + 1][1] \in Int /\ s[k + 1][2] \in Int
    BY <1>1, <1>2, Zenon
  <2>2. s[k + 1][1] - s[1][1] \in Int
    BY <2>1
  <2> QED
    BY <2>1, <2>2, Zenon
<1>4. f[k] \in SumsSet /\ f[k + 1] = Plus(f[k], x, b)
  BY <1>2, <1>3, Zenon DEF Summed
<1>5. CASE k = 0
  <2>1. x = 0 /\ b = b1
    BY <1>3, <1>5
  <2>2. f[k] = NoSums
    BY <1>5 DEF Summed
  <2> QED
    BY <1>3, <1>4, <1>5, <2>1, <2>2, Zenon DEF Sampled
<1>6. CASE k # 0
  <2>1. k \in 1..n /\ k < k + 1
    BY <1>2, <1>6
  <2>2. PICK w \in Int, b0 \in Int: w = s[k][1] /\ b0 = s[k][2]
    BY <1>1, <2>1
  <2>3. w < u /\ b0 <= b
    BY <1>2, <1>3, <2>1, <2>2, Zenon DEF InTime, NoFall
  <2>4. b1 <= b0
    <3>1. k = 1 \/ 1 < k
      BY <2>1
    <3>2. CASE k = 1
      BY <1>3, <2>2, <3>2
    <3>3. CASE 1 < k
      BY <1>2, <1>3, <2>1, <2>2, <3>3, Zenon DEF NoFall
    <3> QED
      BY <3>1, <3>2, <3>3
  <2>5. w - t < x /\ w - t \in Int
    <3>1. t \in Int /\ u \in Int /\ w \in Int /\ x = u - t /\ w < u
      BY <1>3, <2>2, <2>3, Zenon
    <3> QED
      BY <3>1
  <2> QED
    BY <1>3, <1>4, <1>6, <2>2, <2>3, <2>4, <2>5, Zenon DEF Sampled
<1> QED
  BY <1>5, <1>6

LEMMA GainsOK ==
  ASSUME NEW s \in Seq(Timed(Int)), NEW n \in Nat, n = Len(s), InTime(s), NoFall(s),
         NEW f, Summed(s, n, f)
  PROVE  \A k \in Nat: k \in 1..n => GainsUpto(s, k, f[k])
<1> DEFINE S == {k \in Nat : k \in 1..n => GainsUpto(s, k, f[k])}
<1>1. 0 \in S
  OBVIOUS
<1>2. ASSUME NEW k \in Nat, k \in S, k + 1 \in 1..n PROVE GainsUpto(s, k + 1, f[k + 1])
  <2>1. PICK t \in Int, b1 \in Int, x \in Int, b \in Int: Sampled(s, f, k, t, b1, x, b)
    BY <1>2, SampledOK
  <2> SUFFICES ASSUME NEW y \in Int, NEW c \in Int, y > x, c >= b
               PROVE  /\ Gain(k + 1, f[k + 1], y, c) \in Int
                      /\ Gain(k + 1, f[k + 1], y, c) >= 0
                      /\ Gain(k + 1, f[k + 1], y, c) > 0 <=> c > b1
    BY <2>1, Zenon DEF GainsUpto, Sampled
  <2>2. PICK p \in Int: p = (y - x) * (c - b) /\ p >= 0 /\ (p > 0 <=> c > b)
    <3>1. y - x \in Int /\ c - b \in Int /\ y - x > 0 /\ c - b >= 0
      OBVIOUS
    <3>2. (y - x) * (c - b) >= 0 /\ ((y - x) * (c - b) > 0 <=> c - b > 0)
      BY <3>1, Times
    <3> QED
      BY <3>2
  <2>3. PICK g \in Int: g = Gain(k, f[k], y, c) /\ Gain(k + 1, f[k + 1], y, c) = g + p
    <3>1. f[k] \in SumsSet /\ f[k + 1] = Plus(f[k], x, b)
      BY <2>1, Zenon DEF Sampled
    <3>2. k \in Int
      OBVIOUS
    <3>3. GainSteps(k, f[k], x, b, y, c)
      BY <2>1, <3>1, <3>2, GainStep, Zenon
    <3> QED
      BY <2>2, <3>1, <3>3, Zenon DEF GainSteps
  <2> SUFFICES g + p >= 0 /\ (g + p > 0 <=> c > b1)
    <3>1. g + p \in Int
      OBVIOUS
    <3> QED
      BY <2>3, <3>1, Zenon
  <2>4. CASE k = 0
    <3>1. b = b1 /\ f[k] = NoSums
      BY <2>1, <2>4, Zenon DEF Sampled
    <3>2. Gain(0, NoSums, y, c) = 0
      BY GainNothing, Zenon
    <3>3. g = 0
      BY <2>3, <2>4, <3>1, <3>2, Zenon
    <3> QED
      BY <2>2, <3>1, <3>3
  <2>5. CASE k # 0
    <3>1. k \in 1..n /\ GainsUpto(s, k, f[k])
      BY <1>2, <2>5
    <3>2. PICK x0 \in Int, b0 \in Int:
            x0 = s[k][1] - s[1][1] /\ b0 = s[k][2] /\ x0 < x /\ b1 <= b0 /\ b0 <= b
      BY <2>1, <2>5, Zenon DEF Sampled
    <3>3. y > x0 /\ c >= b0
      BY <3>2
    <3>4. g >= 0 /\ (g > 0 <=> c > b1)
      BY <2>1, <2>3, <3>1, <3>2, <3>3, Zenon DEF GainsUpto, Sampled
    <3>5. g \in Int /\ b1 \in Int /\ b \in Int
      BY <2>1, <2>3, Zenon
    <3>6. p \in Int /\ p >= 0 /\ (p > 0 <=> c > b) /\ b1 <= b
      <4>1. b0 \in Int /\ b1 <= b0 /\ b0 <= b
        BY <3>2, Zenon
      <4>2. b1 <= b
        BY <3>5, <4>1
      <4> QED
        BY <2>2, <4>2, Zenon
    <3>7. c >= b
      OBVIOUS
    <3> QED
      BY <3>4, <3>5, <3>6, <3>7
  <2> QED
    BY <2>4, <2>5
<1>3. \A k \in Nat: k \in S => k + 1 \in S
  BY <1>2
<1> HIDE DEF S
<1>4. \A k \in Nat: k \in S
  BY <1>1, <1>3, Induction
<1> QED
  BY <1>4, Zenon DEF S

\* Sizes that do not fall have a line that does not, and rises if and only if they do.
LEMMA SlopeOK ==
  ASSUME NEW s \in Seq(Timed(Int)), NEW n \in Nat \ {0}, n = Len(s), InTime(s), NoFall(s)
  PROVE  Slope(s) \in Int /\ Slope(s) >= 0 /\ (Slope(s) > 0 <=> s[n][2] > s[1][2])
<1>1. PICK f: Summed(s, n, f)
  BY SumsOK
<1>2. \A k \in Nat: k \in 1..n => GainsUpto(s, k, f[k])
  BY <1>1, GainsOK
<1> DEFINE S == {k \in Nat : k \in 1..n => RisesUpto(s, k, f[k])}
<1>3. 0 \in S
  OBVIOUS
<1>4. ASSUME NEW k \in Nat, k \in S, k + 1 \in 1..n PROVE RisesUpto(s, k + 1, f[k + 1])
  <2>1. PICK t \in Int, b1 \in Int, x \in Int, b \in Int: Sampled(s, f, k, t, b1, x, b)
    BY <1>1, <1>4, SampledOK
  <2>2. PICK d \in Int, g \in Int:
          /\ d = SlopeOf(k, f[k]) /\ g = Gain(k, f[k], x, b)
          /\ SlopeOf(k + 1, f[k + 1]) = d + g
    <3>1. f[k] \in SumsSet /\ f[k + 1] = Plus(f[k], x, b)
      BY <2>1, Zenon DEF Sampled
    <3>2. k \in Int
      OBVIOUS
    <3>3. GainSteps(k, f[k], x, b, x, b)
      BY <2>1, <3>1, <3>2, GainStep, Zenon
    <3> QED
      BY <3>1, <3>3, Zenon DEF GainSteps
  <2> SUFFICES d + g >= 0 /\ (d + g > 0 <=> b > b1)
    <3>1. d + g \in Int
      OBVIOUS
    <3> QED
      BY <2>1, <2>2, <3>1, Zenon DEF RisesUpto, Sampled
  <2>3. CASE k = 0
    <3>1. b = b1 /\ f[k] = NoSums
      BY <2>1, <2>3, Zenon DEF Sampled
    <3>2. Gain(0, NoSums, x, b) = 0 /\ SlopeOf(0, NoSums) = 0
      BY GainNothing, Zenon
    <3>3. d = 0 /\ g = 0
      BY <2>2, <2>3, <3>1, <3>2, Zenon
    <3> QED
      BY <3>1, <3>3
  <2>4. CASE k # 0
    <3>1. k \in 1..n /\ RisesUpto(s, k, f[k]) /\ GainsUpto(s, k, f[k])
      BY <1>2, <1>4, <2>4
    <3>2. PICK x0 \in Int, b0 \in Int:
            x0 = s[k][1] - s[1][1] /\ b0 = s[k][2] /\ x0 < x /\ b1 <= b0 /\ b0 <= b
      BY <2>1, <2>4, Zenon DEF Sampled
    <3>3. x > x0 /\ b >= b0
      BY <3>2
    <3>4. g >= 0 /\ (g > 0 <=> b > b1)
      BY <2>1, <2>2, <3>1, <3>2, <3>3, Zenon DEF GainsUpto, Sampled
    <3>5. d >= 0 /\ (d > 0 <=> b0 > b1)
      BY <2>1, <2>2, <3>1, <3>2, Zenon DEF RisesUpto, Sampled
    <3>6. d \in Int /\ g \in Int /\ b1 \in Int /\ b \in Int
      BY <2>1, <2>2, Zenon
    <3> QED
      BY <3>2, <3>4, <3>5, <3>6
  <2> QED
    BY <2>3, <2>4
<1>5. \A k \in Nat: k \in S => k + 1 \in S
  BY <1>4
<1> HIDE DEF S
<1>6. \A k \in Nat: k \in S
  BY <1>3, <1>5, Induction
<1>7. n \in 1..n
  OBVIOUS
<1>8. RisesUpto(s, n, f[n])
  BY <1>6, <1>7, Zenon DEF S
<1>9. Slope(s) = SlopeOf(n, f[n])
  BY <1>1, Zenon DEF Slope, SlopeOf, Summed
<1> QED
  BY <1>8, <1>9, Zenon DEF RisesUpto

----------------------------------------------------------------------------
(***************************************************************************)
(* The Maintenance page.  What is kept of a database that was not          *)
(* defragmented are samples that do not fall, within the window, the last  *)
(* of them that of the last answer.  A lease that was revoked is in no     *)
(* list that was read since.                                               *)
(***************************************************************************)
\* A sample, and what is kept of them at a time.
Sample == (0..MaxClock) \X (1..MaxSize)
SamplesOK(s, now) ==
  /\ InTime(s) /\ Len(s) <= MaxSamples
  /\ \A i \in 1..Len(s): s[i][1] <= now
  /\ s # <<>> => s[Len(s)][1] - s[1][1] <= MtWindow

\* r is what is kept of s with one more.
RecordOf(r, s, bytes, now) ==
  /\ r \in Seq(Sample) /\ SamplesOK(r, now) /\ r # <<>> /\ r[Len(r)][2] = bytes
  /\ NoFall(s) /\ (s # <<>> => s[Len(s)][2] <= bytes) => NoFall(r)

LEMMA MaintenanceBounds ==
  /\ MaxClock \in Nat \ {0} /\ MaxSize \in Nat \ {0} /\ MtWindow \in Nat \ {0}
  /\ MaxSamples \in Nat \ {0} /\ SameSample \in Nat \ {0} /\ MtQuota \in Nat \ {0}
  BY MaintenanceAssumption

LEMMA SampleParts ==
  ASSUME NEW s \in Seq(Sample)
  PROVE  /\ \A i \in 1..Len(s): /\ s[i][1] \in Int /\ s[i][2] \in Int /\ s[i][1] >= 0
                               /\ s[i][1] \in 0..MaxClock /\ s[i][2] \in 1..MaxSize
                               /\ s[i] = <<s[i][1], s[i][2]>>
<1> SUFFICES ASSUME NEW i \in 1..Len(s)
             PROVE  /\ s[i][1] \in Int /\ s[i][2] \in Int /\ s[i][1] >= 0
                    /\ s[i][1] \in 0..MaxClock /\ s[i][2] \in 1..MaxSize
                    /\ s[i] = <<s[i][1], s[i][2]>>
  OBVIOUS
<1>1. s[i] \in Sample
  BY ElementOfSeq
<1>2. PICK t \in 0..MaxClock, b \in 1..MaxSize: s[i] = <<t, b>>
  BY <1>1 DEF Sample
<1>3. t \in Int /\ b \in Int /\ t >= 0
  BY MaintenanceBounds
<1> QED
  BY <1>2, <1>3

\* The sample that is at the time of the last one replaces it.
LEMMA ReplacedOK ==
  ASSUME NEW s \in Seq(Sample), s # <<>>, NEW bytes \in 1..MaxSize, NEW now \in Int,
         SamplesOK(s, now)
  PROVE  RecordOf([s EXCEPT ![Len(s)] = <<@[1], bytes>>], s, bytes, now)
<1>1. PICK n \in Nat \ {0}: n = Len(s)
  BY EmptySeq
<1>2. n \in 1..n /\ 1 \in 1..n
  OBVIOUS
<1> DEFINE r == [s EXCEPT ![n] = <<s[n][1], bytes>>]
<1>3. s \in [1..n -> Sample]
  BY <1>1, LenProperties, Zenon
<1>4. <<s[n][1], bytes>> \in Sample
  BY <1>1, <1>2, SampleParts DEF Sample
<1>5. r \in [1..n -> Sample]
  BY <1>3, <1>4
<1>6. r \in Seq(Sample) /\ Len(r) = n
  BY <1>5, FunctionIsSeq, Zenon
<1>7. \A i \in 1..n: /\ r[i][1] = s[i][1] /\ (i # n => r[i][2] = s[i][2])
                     /\ (i = n => r[i][2] = bytes)
  BY <1>3
<1>8. \A i \in 1..n: s[i][1] \in Int /\ s[i][2] \in Int
  BY <1>1, SampleParts, Zenon
<1>9. [s EXCEPT ![Len(s)] = <<@[1], bytes>>] = r
  BY <1>1
<1> HIDE DEF r
<1>10. r # <<>>
  BY <1>6, EmptySeq
<1>11. SamplesOK(r, now)
  <2>1. InTime(r)
    <3> SUFFICES ASSUME NEW i \in 1..n, NEW j \in 1..n, i < j PROVE r[i][1] < r[j][1]
      BY <1>6, Zenon DEF InTime
    <3>1. s[i][1] < s[j][1]
      BY <1>1, Zenon DEF SamplesOK, InTime
    <3>2. r[i][1] = s[i][1] /\ r[j][1] = s[j][1]
      BY <1>7, Zenon
    <3> QED
      BY <3>1, <3>2, Zenon
  <2>2. Len(r) <= MaxSamples
    BY <1>1, <1>6, Zenon DEF SamplesOK
  <2>3. \A i \in 1..n: r[i][1] <= now
    BY <1>1, <1>7, Zenon DEF SamplesOK
  <2>4. r[n][1] - r[1][1] <= MtWindow
    <3>1. s[n][1] - s[1][1] <= MtWindow
      BY <1>1, Zenon DEF SamplesOK
    <3>2. r[n][1] = s[n][1] /\ r[1][1] = s[1][1]
      BY <1>2, <1>7, Zenon
    <3> QED
      BY <3>1, <3>2, Zenon
  <2> QED
    BY <1>6, <2>1, <2>2, <2>3, <2>4, Zenon DEF SamplesOK
<1>12. ASSUME NoFall(s), s[n][2] <= bytes PROVE NoFall(r)
  <2> SUFFICES ASSUME NEW i \in 1..n, NEW j \in 1..n, i < j PROVE r[i][2] <= r[j][2]
    BY <1>6, Zenon DEF NoFall
  <2>1. s[i][2] <= s[j][2]
    BY <1>1, <1>12, Zenon DEF NoFall
  <2>2. i # n
    OBVIOUS
  <2>3. PICK a \in Int, b \in Int: a = s[i][2] /\ b = s[j][2]
    BY <1>8
  <2>4. r[i][2] = a /\ r[j][2] = (IF j = n THEN bytes ELSE b)
    BY <1>7, <2>2, <2>3, Zenon
  <2>5. j = n => b <= bytes
    BY <1>12, <2>3
  <2>6. bytes \in Int
    OBVIOUS
  <2> QED
    BY <2>1, <2>3, <2>4, <2>5, <2>6
<1> QED
  BY <1>1, <1>2, <1>6, <1>7, <1>9, <1>10, <1>11, <1>12, Zenon DEF RecordOf

\* The last of them, from the m-th one on.
LastOnes(V, s, m, n, r) ==
  /\ r \in Seq(V) /\ Len(r) = n - m + 1 /\ \A i \in 1..(n - m + 1): r[i] = s[m + i - 1]
  /\ InTime(s) => InTime(r)
  /\ NoFall(s) => NoFall(r)

LEMMA LastOnesOK ==
  ASSUME NEW V, NEW s \in Seq(V), NEW n \in Nat \ {0}, n = Len(s), NEW m \in 1..n
  PROVE  LastOnes(V, s, m, n, SubSeq(s, m, n))
<1>1. \A i \in m..n: s[i] \in V
  <2>1. \A i \in m..n: i \in 1..Len(s)
    OBVIOUS
  <2> QED
    BY <2>1, ElementOfSeq
<1>2. m <= n /\ m \in Int /\ n \in Int
  OBVIOUS
<1> DEFINE r == SubSeq(s, m, n)
<1>3. /\ r \in Seq(V) /\ Len(r) = n - m + 1
      /\ \A i \in 1..(n - m + 1): r[i] = s[m + i - 1]
  BY <1>1, <1>2, SubSeqProperties
<1> HIDE DEF r
<1>4. ASSUME NEW i \in 1..(n - m + 1)
      PROVE  m + i - 1 \in 1..n /\ m + i - 1 \in Int /\ r[i] = s[m + i - 1]
  <2>1. m + i - 1 \in 1..n /\ m + i - 1 \in Int
    OBVIOUS
  <2> QED
    BY <1>3, <2>1, Zenon
<1>5. ASSUME InTime(s) PROVE InTime(r)
  <2> SUFFICES ASSUME NEW i \in 1..(n - m + 1), NEW j \in 1..(n - m + 1), i < j
               PROVE  r[i][1] < r[j][1]
    BY <1>3, Zenon DEF InTime
  <2>1. m + i - 1 < m + j - 1
    OBVIOUS
  <2>2. s[m + i - 1][1] < s[m + j - 1][1]
    BY <1>4, <1>5, <2>1, Zenon DEF InTime
  <2> QED
    BY <1>4, <2>2, Zenon
<1>6. ASSUME NoFall(s) PROVE NoFall(r)
  <2> SUFFICES ASSUME NEW i \in 1..(n - m + 1), NEW j \in 1..(n - m + 1), i < j
               PROVE  r[i][2] <= r[j][2]
    BY <1>3, Zenon DEF NoFall
  <2>1. m + i - 1 < m + j - 1
    OBVIOUS
  <2>2. s[m + i - 1][2] <= s[m + j - 1][2]
    BY <1>4, <1>6, <2>1, Zenon DEF NoFall
  <2> QED
    BY <1>4, <2>2, Zenon
<1> QED
  BY <1>3, <1>5, <1>6, Zenon DEF r, LastOnes

\* Otherwise it follows them, and those that are too old or too many go.
Followed(s, all, k, n, now, bytes) ==
  /\ k = Len(s) /\ n = k + 1 /\ n = Len(all) /\ all[n] = <<now, bytes>>
  /\ \A i \in 1..k: all[i] = s[i]
Late(s, now) == s # <<>> => now - s[Len(s)][1] >= SameSample
Recent(all, m, now) == \E f \in 1..m: all[f][1] >= now - MtWindow
KeptFrom(all, n, m, now) ==
  /\ m = Max({Min({i \in 1..n : all[i][1] >= now - MtWindow}), n - MaxSamples + 1})
  /\ n - MaxSamples + 1 <= m /\ Recent(all, m, now)

LEMMA FirstKeptOK ==
  ASSUME NEW all \in Seq(Sample), NEW n \in Nat \ {0}, n = Len(all), NEW now \in Int,
         all[n][1] = now
  PROVE  \E m \in 1..n: KeptFrom(all, n, m, now)
<1> DEFINE S == {i \in 1..n : all[i][1] >= now - MtWindow}
<1>1. n \in S /\ S \subseteq 1..n /\ \A i \in S: all[i][1] >= now - MtWindow
  BY MaintenanceBounds
<1> HIDE DEF S
<1>2. PICK f \in 1..n: f = Min(S) /\ f \in S
  <2>1. S \in SUBSET Nat /\ S # {}
    BY <1>1
  <2>2. Min(S) \in S
    BY <2>1, MinOK
  <2> QED
    BY <1>1, <2>2, Zenon
<1>3. PICK a \in Int: a = n - MaxSamples + 1 /\ a <= n
  BY MaintenanceBounds
<1>4. f \in Int
  OBVIOUS
<1>5. Max({f, a}) = IF f < a THEN a ELSE f
  BY <1>3, <1>4, MaxMinOfTwo
<1>6. PICK m \in 1..n: m = Max({f, a}) /\ f <= m /\ a <= m
  BY <1>3, <1>5
<1>7. f \in 1..m
  BY <1>6
<1>8. all[f][1] >= now - MtWindow
  BY <1>1, <1>2, Zenon
<1> QED
  BY <1>2, <1>3, <1>6, <1>7, <1>8, Zenon DEF S, KeptFrom, Recent

LEMMA AppendedOK ==
  ASSUME NEW s \in Seq(Sample), NEW bytes \in 1..MaxSize, NEW now \in 0..MaxClock,
         SamplesOK(s, now), Late(s, now), NEW k \in Nat, NEW all \in Seq(Sample),
         NEW n \in Nat \ {0}, Followed(s, all, k, n, now, bytes),
         NEW m \in 1..n, n - MaxSamples + 1 <= m, Recent(all, m, now)
  PROVE  RecordOf(SubSeq(all, m, n), s, bytes, now)
<1>0. now \in Int
  BY MaintenanceBounds
<1>1. k = Len(s)
  BY DEF Followed
<1>3. /\ all \in Seq(Sample) /\ n = k + 1 /\ all[n] = <<now, bytes>> /\ n = Len(all)
      /\ \A i \in 1..k: all[i] = s[i]
  BY Zenon DEF Followed
<1>4. \A i \in 1..n: all[i][1] \in Int /\ all[i][2] \in Int
  BY <1>3, SampleParts, Zenon
<1>5. \A i \in 1..k: s[i][1] \in Int /\ s[i][2] \in Int
  BY <1>1, SampleParts, Zenon
<1>6. n \in 1..n /\ all[n][1] = now /\ all[n][2] = bytes
  BY <1>3
<1>7. PICK first \in 1..m: all[first][1] >= now - MtWindow
  BY DEF Recent
<1>8. first <= m /\ first \in 1..n /\ n - MaxSamples + 1 <= m
  OBVIOUS
<1>9. \A i \in 1..k: s[i][1] < now
  <2> TAKE i \in 1..k
  <2>1. k \in 1..k /\ s # <<>>
    BY <1>1, EmptySeq
  <2>2. PICK a \in Int, b \in Int: a = s[i][1] /\ b = s[k][1]
    BY <1>5, <2>1
  <2>3. now - b >= SameSample
    BY <1>1, <2>1, <2>2, Zenon DEF Late
  <2>4. a <= b
    <3>1. i = k \/ i < k
      OBVIOUS
    <3>2. i < k => a < b
      BY <1>1, <2>1, <2>2, Zenon DEF SamplesOK, InTime
    <3>3. i = k => a = b
      BY <2>2, Zenon
    <3>4. a \in Int /\ b \in Int
      BY <2>2, Zenon
    <3> QED
      BY <3>1, <3>2, <3>3, <3>4
  <2>5. SameSample \in Nat \ {0}
    BY MaintenanceBounds
  <2>6. a < now
    <3>1. a \in Int /\ b \in Int
      BY <2>2, Zenon
    <3> QED
      BY <1>0, <2>3, <2>4, <2>5, <3>1
  <2> QED
    BY <2>2, <2>6, Zenon
<1>10. InTime(all)
  <2> SUFFICES ASSUME NEW i \in 1..n, NEW j \in 1..n, i < j PROVE all[i][1] < all[j][1]
    BY <1>3, Zenon DEF InTime
  <2>1. i \in 1..k /\ all[i] = s[i]
    BY <1>3
  <2>2. CASE j = n
    BY <1>6, <1>9, <2>1, <2>2
  <2>3. CASE j # n
    <3>1. j \in 1..k /\ all[j] = s[j]
      BY <1>3, <2>3
    <3> QED
      BY <1>1, <2>1, <3>1, Zenon DEF SamplesOK, InTime
  <2> QED
    BY <2>2, <2>3
<1>11. ASSUME NoFall(s), s # <<>> => s[Len(s)][2] <= bytes PROVE NoFall(all)
  <2> SUFFICES ASSUME NEW i \in 1..n, NEW j \in 1..n, i < j PROVE all[i][2] <= all[j][2]
    BY <1>3, Zenon DEF NoFall
  <2>1. i \in 1..k /\ all[i] = s[i]
    BY <1>3
  <2>2. CASE j = n
    <3>1. k \in 1..k /\ s # <<>>
      BY <1>1, <2>1, EmptySeq
    <3>2. PICK a \in Int, b \in Int: a = s[i][2] /\ b = s[k][2]
      BY <1>5, <2>1, <3>1
    <3>3. b <= bytes
      BY <1>1, <1>11, <3>1, <3>2
    <3>4. a \in Int /\ b \in Int
      BY <3>2, Zenon
    <3>5. a <= b
      <4>1. i = k \/ i < k
        BY <2>1
      <4>2. i < k => a <= b
        BY <1>1, <1>11, <2>1, <3>1, <3>2, Zenon DEF NoFall
      <4>3. i = k => a = b
        BY <3>2, Zenon
      <4> QED
        BY <3>4, <4>1, <4>2, <4>3
    <3>6. bytes \in Int
      OBVIOUS
    <3>7. a <= bytes
      BY <3>3, <3>4, <3>5, <3>6
    <3> QED
      BY <1>6, <2>1, <2>2, <3>2, <3>7, Zenon
  <2>3. CASE j # n
    <3>1. j \in 1..k /\ all[j] = s[j]
      BY <1>3, <2>3
    <3> QED
      BY <1>1, <1>11, <2>1, <3>1, Zenon DEF NoFall
  <2> QED
    BY <2>2, <2>3
<1> DEFINE r == SubSeq(all, m, n)
           l == n - m + 1
<1>12. /\ r \in Seq(Sample) /\ Len(r) = l /\ \A i \in 1..l: r[i] = all[m + i - 1]
       /\ InTime(r) /\ (NoFall(all) => NoFall(r))
  <2>1. n = Len(all) /\ all \in Seq(Sample)
    BY <1>3, Zenon
  <2>2. LastOnes(Sample, all, m, n, SubSeq(all, m, n))
    BY <2>1, LastOnesOK, Zenon
  <2> QED
    BY <1>10, <2>2, Zenon DEF LastOnes
<1>13. /\ l \in Nat \ {0} /\ l <= MaxSamples /\ 1 \in 1..l /\ l \in 1..l
       /\ m + 1 - 1 = m /\ m + l - 1 = n
  <2>1. MaxSamples \in Nat
    BY MaintenanceBounds
  <2>2. n - MaxSamples + 1 <= m
    OBVIOUS
  <2>3. n - m + 1 <= MaxSamples
    BY <2>1, <2>2
  <2>4. /\ n - m + 1 \in Nat \ {0} /\ 1 \in 1..(n - m + 1) /\ n - m + 1 \in 1..(n - m + 1)
        /\ m + 1 - 1 = m /\ m + (n - m + 1) - 1 = n
    OBVIOUS
  <2> QED
    BY <2>3, <2>4, Zenon
<1>14. r[1] = all[m] /\ r[l] = all[n]
  BY <1>12, <1>13, Zenon
<1>15. \A i \in 1..l: m + i - 1 \in 1..n
  <2>1. \A i \in 1..(n - m + 1): m + i - 1 \in 1..n
    OBVIOUS
  <2> QED
    BY <2>1
<1> HIDE DEF r, l
<1>16. \A i \in 1..n: all[i][1] <= now
  <2> TAKE i \in 1..n
  <2>1. CASE i = n
    BY <1>0, <1>6, <2>1
  <2>2. CASE i # n
    <3>1. i \in 1..k /\ all[i] = s[i]
      BY <1>3, <2>2
    <3>2. s[i][1] < now /\ s[i][1] \in Int
      BY <1>5, <1>9, <3>1
    <3> QED
      BY <1>0, <3>1, <3>2
  <2> QED
    BY <2>1, <2>2
<1>17. all[n][1] - all[m][1] <= MtWindow
  <2>1. PICK a \in Int, b \in Int: a = all[first][1] /\ b = all[m][1]
    BY <1>4, <1>8
  <2>2. a <= b
    <3>1. first = m \/ first < m
      BY <1>8
    <3>2. first < m => a < b
      BY <1>3, <1>8, <1>10, <2>1, Zenon DEF InTime
    <3> QED
      BY <2>1, <3>1, <3>2
  <2>3. a >= now - MtWindow
    BY <1>7, <2>1, Zenon
  <2>4. now - b <= MtWindow
    <3>1. a \in Int /\ b \in Int /\ MtWindow \in Int
      BY <2>1, MaintenanceBounds
    <3> QED
      BY <1>0, <2>2, <2>3, <3>1
  <2> QED
    BY <1>6, <2>1, <2>4, Zenon
<1>18. SamplesOK(r, now)
  <2>1. Len(r) <= MaxSamples
    BY <1>12, <1>13, Zenon
  <2>2. \A i \in 1..Len(r): r[i][1] <= now
    BY <1>12, <1>15, <1>16, Zenon
  <2>3. r[Len(r)][1] - r[1][1] <= MtWindow
    BY <1>12, <1>14, <1>17, Zenon
  <2>4. InTime(r)
    BY <1>12, Zenon
  <2> QED
    BY <2>1, <2>2, <2>3, <2>4, Zenon DEF SamplesOK
<1>19. r # <<>>
  BY <1>12, <1>13, EmptySeq
<1>20. RecordOf(r, s, bytes, now)
  <2>1. r[Len(r)][2] = bytes
    BY <1>6, <1>12, <1>14, Zenon
  <2>2. r \in Seq(Sample) /\ (NoFall(s) /\ (s # <<>> => s[Len(s)][2] <= bytes) => NoFall(r))
    BY <1>11, <1>12, Zenon
  <2> QED
    BY <1>18, <1>19, <2>1, <2>2, Zenon DEF RecordOf
<1> QED
  BY <1>20, Zenon DEF r

LEMMA RecordedOK ==
  ASSUME NEW s \in Seq(Sample), NEW bytes \in 1..MaxSize, mtClock \in 0..MaxClock,
         SamplesOK(s, mtClock)
  PROVE  RecordOf(Recorded(s, bytes), s, bytes, mtClock)
<1>0. mtClock \in Int
  BY MaintenanceBounds
<1>1. CASE s # <<>> /\ mtClock - Last(s)[1] < SameSample
  <2>1. Recorded(s, bytes) = [s EXCEPT ![Len(s)] = <<@[1], bytes>>]
    BY <1>1, Zenon DEF Recorded
  <2> QED
    BY <1>0, <1>1, <2>1, ReplacedOK, Zenon
<1>2. CASE ~(s # <<>> /\ mtClock - Last(s)[1] < SameSample)
  <2>0. PICK all: all = Append(s, <<mtClock, bytes>>)
    OBVIOUS
  <2>1. Recorded(s, bytes)
          = SubSeq(all, Max({Min({i \in 1..Len(all) : all[i][1] >= mtClock - MtWindow}),
                             Len(all) - MaxSamples + 1}), Len(all))
    BY <1>2, <2>0, Zenon DEF Recorded
  <2>2. Late(s, mtClock)
    <3> SUFFICES ASSUME s # <<>> PROVE mtClock - s[Len(s)][1] >= SameSample
      BY DEF Late
    <3>1. PICK k \in Nat \ {0}: k = Len(s)
      BY EmptySeq
    <3>2. k \in 1..k
      OBVIOUS
    <3>3. PICK a \in Int: a = s[k][1]
      BY <3>1, <3>2, SampleParts
    <3>4. ~(mtClock - a < SameSample)
      BY <1>2, <3>1, <3>3, Zenon DEF Last
    <3>5. mtClock - a >= SameSample
      BY <1>0, <3>4, MaintenanceBounds
    <3> QED
      BY <3>1, <3>3, <3>5, Zenon
  <2>3. PICK k \in Nat: k = Len(s)
    BY LenProperties
  <2>4. PICK n \in Nat \ {0}: /\ n = Len(all) /\ all \in Seq(Sample)
                              /\ Followed(s, all, k, n, mtClock, bytes)
    <3>1. <<mtClock, bytes>> \in Sample
      BY DEF Sample
    <3>2. /\ all \in Seq(Sample) /\ Len(all) = k + 1 /\ k + 1 \in Nat \ {0}
          /\ all[k + 1] = <<mtClock, bytes>> /\ \A i \in 1..k: all[i] = s[i]
      BY <2>0, <2>3, <3>1, AppendProperties
    <3> QED
      BY <2>3, <3>2, Zenon DEF Followed
  <2>5. all[n][1] = mtClock
    BY <2>4 DEF Followed
  <2>6. PICK m \in 1..n: KeptFrom(all, n, m, mtClock)
    BY <1>0, <2>4, <2>5, FirstKeptOK, Zenon
  <2>7. RecordOf(SubSeq(all, m, n), s, bytes, mtClock)
    BY <2>2, <2>3, <2>4, <2>6, AppendedOK, Zenon DEF KeptFrom
  <2> QED
    BY <2>1, <2>4, <2>6, <2>7, Zenon DEF KeptFrom
<1> QED
  BY <1>1, <1>2

\* The size of the last sample.  What is known of a cluster of which one endpoint told
\* the sizes, and only larger ones: samples that do not fall, up to its size; and of
\* the card: it was rendered with those samples, or before the last of them.
Bytes(s) == s[Len(s)][2]
Steady(s, summary, from, size) ==
  /\ NoFall(s)
  /\ s # <<>> => from # "none" /\ Bytes(s) <= size[from]
  /\ summary # 0 => /\ from # "none" /\ summary <= size[from]
                    /\ s # <<>> => Bytes(s) <= summary
CardOf(card, s, mixed, now, summary) ==
  /\ SamplesOK(card, now)
  /\ \/ mixed
     \/ NoFall(card) /\ (card # <<>> => s # <<>> /\ Bytes(card) <= Bytes(s))
  /\ summary # 0 => s # <<>> /\ Bytes(s) = summary

ForecastTypes ==
  /\ mtCluster \in MtCluster
  /\ mtClock \in 0..MaxClock /\ mtSize \in [MtCluster -> [MtEndpoint -> 1..MaxSize]]
  /\ mtFrom \in [MtCluster -> MtEndpoint \cup {"none"}] /\ mtMixed \subseteq MtCluster
  /\ mtSummary \in [MtCluster -> 0..MaxSize]
  /\ mtSamples \in [MtCluster -> Seq(Sample)] /\ mtCard \in Seq(Sample)
ForecastOK ==
  \A c \in MtCluster:
    /\ SamplesOK(mtSamples[c], mtClock)
    /\ c \in mtMixed \/ Steady(mtSamples[c], mtSummary[c], mtFrom[c], mtSize[c])
CardOK ==
  CardOf(mtCard, mtSamples[mtCluster], mtCluster \in mtMixed, mtClock, mtSummary[mtCluster])
ForecastInv == ForecastTypes /\ ForecastOK /\ CardOK

LEMMA SamplesAreTimed == ASSUME NEW s \in Seq(Sample) PROVE s \in Seq(Timed(Int))
<1>1. Sample \subseteq Timed(Int)
  BY MaintenanceBounds DEF Sample, Timed
<1> QED
  BY <1>1, SeqMonotonic, Zenon

LEMMA BytesOK == ASSUME NEW s \in Seq(Sample), s # <<>> PROVE Bytes(s) \in Int
<1>1. PICK n \in Nat: n = Len(s)
  BY LenProperties
<1>2. n \in 1..n
  BY <1>1, EmptySeq
<1> QED
  BY <1>1, <1>2, SampleParts DEF Bytes

\* What the card says of samples that do not fall.
LEMMA CardTells ==
  ASSUME NEW s \in Seq(Sample), SamplesOK(s, mtClock), HasForecast(s)
  PROVE  /\ Last(s)[1] - s[1][1] <= MtWindow
         /\ NoFall(s) => /\ Slope(s) >= 0 /\ (Slope(s) > 0) = (s[1][2] < Last(s)[2])
                         /\ TellsWhenFull(s) => s[1][2] < Last(s)[2]
<1>1. PICK n \in Nat: n = Len(s)
  BY LenProperties
<1>2. n >= 2
  BY <1>1 DEF HasForecast
<1>3. n \in Nat \ {0} /\ 1 \in 1..n /\ n \in 1..n
  BY <1>2
<1>4. s \in Seq(Timed(Int)) /\ InTime(s)
  BY SamplesAreTimed DEF SamplesOK
<1>5. Last(s) = s[n]
  BY <1>1, Zenon DEF Last
<1>6. Last(s)[1] - s[1][1] <= MtWindow
  <2>1. s # <<>>
    BY <1>1, <1>3, EmptySeq
  <2> QED
    BY <2>1, Zenon DEF SamplesOK, Last
<1>7. ASSUME NoFall(s)
      PROVE  /\ Slope(s) >= 0 /\ (Slope(s) > 0) = (s[1][2] < Last(s)[2])
             /\ TellsWhenFull(s) => s[1][2] < Last(s)[2]
  <2>1. PICK slope \in Int: slope = Slope(s) /\ slope >= 0 /\ (slope > 0 <=> s[n][2] > s[1][2])
    BY <1>1, <1>3, <1>4, <1>7, SlopeOK, Zenon
  <2>2. PICK a \in Int, b \in Int: a = s[1][2] /\ b = s[n][2]
    BY <1>1, <1>3, SampleParts, Zenon
  <2>3. slope > 0 <=> a < b
    BY <2>1, <2>2
  <2>4. (slope > 0) = (a < b)
    BY <2>3
  <2>5. (Slope(s) > 0) = (s[1][2] < Last(s)[2])
    BY <1>5, <2>1, <2>2, <2>4, Zenon
  <2>6. TellsWhenFull(s) => Slope(s) > 0
    BY Zenon DEF TellsWhenFull
  <2>7. Slope(s) >= 0
    BY <2>1, Zenon
  <2> QED
    BY <2>5, <2>6, <2>7, Zenon
<1> QED
  BY <1>6, <1>7, Zenon

LEMMA GrowthIsToldOK == ASSUME ForecastInv PROVE GrowthIsTold
<1>1. mtCard \in Seq(Sample) /\ SamplesOK(mtCard, mtClock)
  BY Zenon DEF ForecastInv, ForecastTypes, CardOK, CardOf
<1>2. mtCluster \notin mtMixed =>
        /\ NoFall(mtCard)
        /\ mtCard # <<>> => /\ mtSamples[mtCluster] # <<>>
                            /\ Last(mtCard)[2] <= Last(mtSamples[mtCluster])[2]
  BY Zenon DEF ForecastInv, CardOK, CardOf, Bytes, Last
<1>3. mtSummary[mtCluster] # 0 => /\ mtSamples[mtCluster] # <<>>
                                  /\ Last(mtSamples[mtCluster])[2] = mtSummary[mtCluster]
  BY Zenon DEF ForecastInv, CardOK, CardOf, Bytes, Last
<1> QED
  BY <1>1, <1>2, <1>3, CardTells, Zenon DEF GrowthIsTold

\* With an answer, if it has a size.
Adds1(r, s, bytes) ==
  /\ r \in Seq(Sample) /\ SamplesOK(r, mtClock)
  /\ bytes = 0 => r = s
  /\ bytes # 0 => r # <<>> /\ Bytes(r) = bytes
  /\ NoFall(s) /\ (s # <<>> /\ bytes # 0 => Bytes(s) <= bytes) => NoFall(r)

LEMMA RecordDBSizeOK ==
  ASSUME ForecastInv, NEW c \in MtCluster, NEW bytes \in 0..MaxSize, RecordDBSize(c, bytes)
  PROVE  \E r: Adds1(r, mtSamples[c], bytes) /\ mtSamples' = [mtSamples EXCEPT ![c] = r]
<1>1. /\ mtSamples \in [MtCluster -> Seq(Sample)] /\ mtSamples[c] \in Seq(Sample)
      /\ mtClock \in 0..MaxClock
  BY DEF ForecastInv, ForecastTypes
<1>2. SamplesOK(mtSamples[c], mtClock)
  BY Zenon DEF ForecastInv, ForecastOK
<1>3. CASE bytes = 0
  <2>1. mtSamples' = mtSamples
    BY <1>3 DEF RecordDBSize
  <2>2. mtSamples' = [mtSamples EXCEPT ![c] = mtSamples[c]]
    BY <1>1, <2>1
  <2>3. Adds1(mtSamples[c], mtSamples[c], bytes)
    BY <1>1, <1>2, <1>3, Zenon DEF Adds1
  <2> QED
    BY <2>2, <2>3, Zenon
<1>4. CASE bytes # 0
  <2>1. bytes \in 1..MaxSize /\ bytes > 0
    BY <1>4, MaintenanceBounds
  <2>2. PICK r: r = Recorded(mtSamples[c], bytes) /\ RecordOf(r, mtSamples[c], bytes, mtClock)
    BY <1>1, <1>2, <2>1, RecordedOK, Zenon
  <2>3. mtSamples' = [mtSamples EXCEPT ![c] = r]
    BY <2>1, <2>2, Zenon DEF RecordDBSize
  <2>4. Adds1(r, mtSamples[c], bytes)
    BY <1>4, <2>2, Zenon DEF Adds1, RecordOf, Bytes
  <2> QED
    BY <2>3, <2>4, Zenon
<1> QED
  BY <1>3, <1>4

\* Once an answer is recorded, what was there before is on the card.
LEMMA RecordsOK ==
  ASSUME NEW s \in Seq(Sample), NEW bytes \in 0..MaxSize, NEW r, Adds1(r, s, bytes),
         SamplesOK(s, mtClock), NEW mixed,
         mixed \/ (NoFall(s) /\ (s # <<>> /\ bytes # 0 => Bytes(s) <= bytes))
  PROVE  CardOf(s, r, mixed, mtClock, bytes)
<1>1. ASSUME s # <<>> PROVE Bytes(s) <= Bytes(s)
  <2>1. PICK b \in Int: b = Bytes(s)
    BY <1>1, BytesOK
  <2>2. b <= b
    BY <2>1
  <2> QED
    BY <2>1, <2>2, Zenon
<1> QED
  BY <1>1, Zenon DEF CardOf, Adds1

LEMMA SteadyOK ==
  ASSUME NEW s, NEW bytes \in 0..MaxSize, NEW r, Adds1(r, s, bytes), bytes # 0, NoFall(s),
         s # <<>> => Bytes(s) <= bytes, NEW e, e # "none", NEW size, bytes <= size[e]
  PROVE  Steady(r, bytes, e, size)
<1>1. bytes <= bytes
  BY MaintenanceBounds
<1> QED
  BY <1>1, Zenon DEF Steady, Adds1

\* The effect, for the cluster that is selected by then.
LEMMA EffectOK ==
  ASSUME ForecastInv, NEW c \in MtCluster, NEW bytes \in 0..MaxSize, RecordDBSize(c, bytes),
         mtCluster' = c, mtClock' = mtClock, mtCard' = mtSamples[c],
         mtSummary' = [mtSummary EXCEPT ![c] = bytes], mtMixed' \subseteq MtCluster,
         mtSize' = mtSize, mtFrom' \in [MtCluster -> MtEndpoint \cup {"none"}],
         \A d \in MtCluster: d # c => /\ mtFrom'[d] = mtFrom[d]
                                      /\ d \in mtMixed' <=> d \in mtMixed,
         c \in mtMixed' \/ /\ NoFall(mtSamples[c])
                           /\ mtSamples[c] # <<>> /\ bytes # 0 => Bytes(mtSamples[c]) <= bytes
                           /\ bytes # 0 => mtFrom'[c] # "none" /\ bytes <= mtSize[c][mtFrom'[c]]
                           /\ bytes = 0 => /\ mtFrom'[c] = mtFrom[c]
                                           /\ c \notin mtMixed
  PROVE  ForecastInv'
<1>1. /\ mtSamples \in [MtCluster -> Seq(Sample)] /\ mtSamples[c] \in Seq(Sample)
      /\ mtSummary \in [MtCluster -> 0..MaxSize]
  BY DEF ForecastInv, ForecastTypes
<1>2. SamplesOK(mtSamples[c], mtClock)
  BY Zenon DEF ForecastInv, ForecastOK
<1>3. PICK r: Adds1(r, mtSamples[c], bytes) /\ mtSamples' = [mtSamples EXCEPT ![c] = r]
  BY RecordDBSizeOK, Zenon
<1>4. r \in Seq(Sample) /\ SamplesOK(r, mtClock)
  BY <1>3, Zenon DEF Adds1
<1>5. mtSamples' \in [MtCluster -> Seq(Sample)] /\ mtSummary' \in [MtCluster -> 0..MaxSize]
  BY <1>1, <1>3, <1>4
<1>6. ForecastTypes'
  BY <1>1, <1>5, Zenon DEF ForecastInv, ForecastTypes
<1>7. mtSamples'[c] = r /\ mtSummary'[c] = bytes
  BY <1>1, <1>3
<1>8. CardOK'
  <2>1. CardOf(mtSamples[c], r, c \in mtMixed', mtClock, bytes)
    BY <1>1, <1>2, <1>3, RecordsOK, Zenon
  <2> QED
    BY <1>7, <2>1, Zenon DEF CardOK
<1>9. c \in mtMixed' \/ Steady(r, bytes, mtFrom'[c], mtSize[c])
  <2>1. CASE bytes # 0
    BY <1>3, <2>1, SteadyOK, Zenon
  <2>2. CASE bytes = 0
    <3>1. r = mtSamples[c]
      BY <1>3, <2>2, Zenon DEF Adds1
    <3>2. ASSUME c \notin mtMixed' PROVE Steady(r, bytes, mtFrom'[c], mtSize[c])
      <4>1. Steady(mtSamples[c], mtSummary[c], mtFrom[c], mtSize[c]) /\ mtFrom'[c] = mtFrom[c]
        BY <2>2, <3>2, Zenon DEF ForecastInv, ForecastOK
      <4> QED
        BY <2>2, <3>1, <4>1, Zenon DEF Steady
    <3> QED
      BY <3>2
  <2> QED
    BY <2>1, <2>2
<1>10. ASSUME NEW d \in MtCluster
       PROVE  /\ SamplesOK(mtSamples'[d], mtClock')
              /\ d \in mtMixed' \/ Steady(mtSamples'[d], mtSummary'[d], mtFrom'[d], mtSize'[d])
  <2>1. CASE d = c
    BY <1>4, <1>7, <1>9, <2>1, Zenon
  <2>2. CASE d # c
    <3>1. mtSamples'[d] = mtSamples[d] /\ mtSummary'[d] = mtSummary[d]
      BY <1>1, <1>3, <2>2, Zenon
    <3> QED
      BY <2>2, <3>1, Zenon DEF ForecastInv, ForecastOK
  <2> QED
    BY <2>1, <2>2
<1> QED
  BY <1>6, <1>8, <1>10, Zenon DEF ForecastInv, ForecastOK

\* An answer for a cluster that is not selected by then.
LEMMA CachedOK ==
  ASSUME ForecastInv, NEW c \in MtCluster, NEW bytes \in 0..MaxSize, c # mtCluster,
         mtSummary' = [mtSummary EXCEPT ![c] = bytes], mtMixed' \subseteq MtCluster,
         UNCHANGED <<mtCluster, mtClock, mtSize, mtSamples, mtCard>>,
         mtFrom' \in [MtCluster -> MtEndpoint \cup {"none"}],
         \A d \in MtCluster: d # c => /\ mtFrom'[d] = mtFrom[d]
                                      /\ d \in mtMixed' <=> d \in mtMixed,
         c \in mtMixed' \/ Steady(mtSamples[c], bytes, mtFrom'[c], mtSize[c])
  PROVE  ForecastInv'
<1>1. /\ mtCluster \in MtCluster /\ mtSummary \in [MtCluster -> 0..MaxSize]
  BY DEF ForecastInv, ForecastTypes
<1>2. /\ mtSummary' \in [MtCluster -> 0..MaxSize] /\ mtSummary'[c] = bytes
      /\ \A d \in MtCluster: d # c => mtSummary'[d] = mtSummary[d]
  BY <1>1
<1>3. /\ mtCluster' = mtCluster /\ mtClock' = mtClock /\ mtSize' = mtSize
      /\ mtSamples' = mtSamples /\ mtCard' = mtCard
  OBVIOUS
<1>4. ForecastTypes'
  BY <1>2, <1>3, Zenon DEF ForecastInv, ForecastTypes
<1>5. CardOK'
  <2>1. mtSummary'[mtCluster] = mtSummary[mtCluster]
        /\ (mtCluster \in mtMixed' <=> mtCluster \in mtMixed)
    BY <1>1, <1>2, Zenon
  <2> QED
    BY <1>3, <2>1, Zenon DEF ForecastInv, CardOK, CardOf
<1>6. ForecastOK'
  <2> SUFFICES ASSUME NEW d \in MtCluster
               PROVE  /\ SamplesOK(mtSamples[d], mtClock)
                      /\ d \in mtMixed' \/ Steady(mtSamples[d], mtSummary'[d], mtFrom'[d], mtSize[d])
    BY <1>3, Zenon DEF ForecastOK
  <2>1. CASE d = c
    BY <1>2, <2>1, Zenon DEF ForecastInv, ForecastOK
  <2>2. CASE d # c
    <3>1. mtSummary'[d] = mtSummary[d] /\ mtFrom'[d] = mtFrom[d]
      BY <1>2, <2>2, Zenon
    <3> QED
      BY <2>2, <3>1, Zenon DEF ForecastInv, ForecastOK
  <2> QED
    BY <2>1, <2>2
<1> QED
  BY <1>4, <1>5, <1>6, Zenon DEF ForecastInv

LEMMA SummaryReadOK ==
  ASSUME ForecastInv, NEW c \in MtCluster, NEW e \in MtEndpoint, SummaryRead(c, e)
  PROVE  ForecastInv'
<1>1. /\ mtSize \in [MtCluster -> [MtEndpoint -> 1..MaxSize]] /\ mtMixed \subseteq MtCluster
      /\ mtFrom \in [MtCluster -> MtEndpoint \cup {"none"}] /\ e # "none"
  BY MaintenanceAssumption DEF ForecastInv, ForecastTypes
<1>2. PICK bytes \in 1..MaxSize: bytes = mtSize[c][e]
  BY <1>1
<1>3. bytes \in 0..MaxSize /\ bytes # 0 /\ bytes <= bytes
  BY MaintenanceBounds
<1>4. /\ mtFrom' \in [MtCluster -> MtEndpoint \cup {"none"}]
      /\ \A d \in MtCluster: d # c => mtFrom'[d] = mtFrom[d]
      /\ mtFrom'[c] = IF mtFrom[c] = "none" THEN e ELSE mtFrom[c]
  BY <1>1 DEF SummaryRead
<1>5. /\ mtMixed' \subseteq MtCluster /\ mtMixed \subseteq mtMixed'
      /\ \A d \in MtCluster: d # c => (d \in mtMixed' <=> d \in mtMixed)
      /\ mtFrom[c] \notin {"none", e} => c \in mtMixed'
  BY <1>1 DEF SummaryRead
<1>6. ASSUME c \notin mtMixed'
      PROVE  /\ mtFrom'[c] = e /\ NoFall(mtSamples[c])
             /\ mtSamples[c] # <<>> => Bytes(mtSamples[c]) <= bytes
  <2>1. mtFrom[c] \in {"none", e} /\ c \notin mtMixed
    BY <1>5, <1>6
  <2>2. Steady(mtSamples[c], mtSummary[c], mtFrom[c], mtSize[c])
    BY <2>1, Zenon DEF ForecastInv, ForecastOK
  <2>3. mtFrom'[c] = e
    BY <1>4, <2>1
  <2> QED
    BY <1>2, <2>1, <2>2, <2>3, Zenon DEF Steady
<1>7. /\ mtSummary' = [mtSummary EXCEPT ![c] = bytes]
      /\ mtCluster' = mtCluster /\ mtClock' = mtClock /\ mtSize' = mtSize
  BY <1>2 DEF SummaryRead, SummaryHas
<1>8. CASE c = mtCluster
  <2>1. RecordDBSize(c, bytes) /\ mtCard' = mtSamples[c]
    BY <1>2, <1>8, Zenon DEF SummaryRead, SummaryHas
  <2>2. c \in mtMixed' \/ /\ NoFall(mtSamples[c])
                          /\ mtSamples[c] # <<>> /\ bytes # 0 => Bytes(mtSamples[c]) <= bytes
                          /\ bytes # 0 => mtFrom'[c] # "none" /\ bytes <= mtSize[c][mtFrom'[c]]
                          /\ bytes = 0 => mtFrom'[c] = mtFrom[c] /\ c \notin mtMixed
    BY <1>1, <1>2, <1>3, <1>6, Zenon
  <2> QED
    BY <1>3, <1>4, <1>5, <1>7, <1>8, <2>1, <2>2, EffectOK, Zenon
<1>9. CASE c # mtCluster
  <2>1. mtSamples' = mtSamples /\ mtCard' = mtCard
    BY <1>9 DEF SummaryRead, SummaryHas
  <2>2. c \in mtMixed' \/ Steady(mtSamples[c], bytes, mtFrom'[c], mtSize[c])
    BY <1>1, <1>2, <1>3, <1>6, Zenon DEF Steady
  <2> QED
    BY <1>3, <1>4, <1>5, <1>7, <1>9, <2>1, <2>2, CachedOK, Zenon
<1> QED
  BY <1>8, <1>9

LEMMA SummaryReadsNothingOK ==
  ASSUME ForecastInv, NEW c \in MtCluster, SummaryReadsNothing(c)
  PROVE  ForecastInv'
<1>1. /\ mtMixed \subseteq MtCluster /\ mtFrom \in [MtCluster -> MtEndpoint \cup {"none"}]
      /\ mtFrom' = mtFrom /\ mtMixed' = mtMixed
  BY DEF ForecastInv, ForecastTypes, SummaryReadsNothing
<1>2. 0 \in 0..MaxSize
  BY MaintenanceBounds
<1>3. /\ mtSummary' = [mtSummary EXCEPT ![c] = 0]
      /\ mtCluster' = mtCluster /\ mtClock' = mtClock /\ mtSize' = mtSize
  BY DEF SummaryReadsNothing, SummaryHas
<1>4. c \in mtMixed \/ Steady(mtSamples[c], mtSummary[c], mtFrom[c], mtSize[c])
  BY Zenon DEF ForecastInv, ForecastOK
<1>5. CASE c = mtCluster
  <2>1. RecordDBSize(c, 0) /\ mtCard' = mtSamples[c]
    BY <1>5, Zenon DEF SummaryReadsNothing, SummaryHas
  <2>2. c \in mtMixed' \/ /\ NoFall(mtSamples[c])
                          /\ mtSamples[c] # <<>> /\ 0 # 0 => Bytes(mtSamples[c]) <= 0
                          /\ 0 # 0 => mtFrom'[c] # "none" /\ 0 <= mtSize[c][mtFrom'[c]]
                          /\ 0 = 0 => mtFrom'[c] = mtFrom[c] /\ c \notin mtMixed
    BY <1>1, <1>4, Zenon DEF Steady
  <2> QED
    BY <1>1, <1>2, <1>3, <1>5, <2>1, <2>2, EffectOK, Zenon
<1>6. CASE c # mtCluster
  <2>1. mtSamples' = mtSamples /\ mtCard' = mtCard
    BY <1>6 DEF SummaryReadsNothing, SummaryHas
  <2>2. c \in mtMixed' \/ Steady(mtSamples[c], 0, mtFrom'[c], mtSize[c])
    BY <1>1, <1>4, Zenon DEF Steady
  <2> QED
    BY <1>1, <1>2, <1>3, <1>6, <2>1, <2>2, CachedOK, Zenon
<1> QED
  BY <1>5, <1>6

LEMMA SwitchClusterOK ==
  ASSUME ForecastInv, NEW c \in MtCluster, SwitchCluster(c)
  PROVE  ForecastInv'
<1>1. /\ mtMixed \subseteq MtCluster /\ mtFrom \in [MtCluster -> MtEndpoint \cup {"none"}]
      /\ mtSummary \in [MtCluster -> 0..MaxSize]
  BY DEF ForecastInv, ForecastTypes
<1>2. /\ mtCluster' = c /\ mtCard' = mtSamples[c] /\ RecordDBSize(c, mtSummary[c])
      /\ mtClock' = mtClock /\ mtSize' = mtSize /\ mtFrom' = mtFrom /\ mtMixed' = mtMixed
      /\ mtSummary' = mtSummary
  BY DEF SwitchCluster
<1>3. PICK bytes \in 0..MaxSize: bytes = mtSummary[c]
  BY <1>1
<1>4. mtSummary' = [mtSummary EXCEPT ![c] = bytes]
  BY <1>1, <1>2, <1>3
<1>5. c \in mtMixed \/ Steady(mtSamples[c], bytes, mtFrom[c], mtSize[c])
  BY <1>3, Zenon DEF ForecastInv, ForecastOK
<1>6. c \in mtMixed' \/ /\ NoFall(mtSamples[c])
                        /\ mtSamples[c] # <<>> /\ bytes # 0 => Bytes(mtSamples[c]) <= bytes
                        /\ bytes # 0 => mtFrom'[c] # "none" /\ bytes <= mtSize[c][mtFrom'[c]]
                        /\ bytes = 0 => mtFrom'[c] = mtFrom[c] /\ c \notin mtMixed
  BY <1>2, <1>5, Zenon DEF Steady
<1> QED
  BY <1>1, <1>2, <1>3, <1>4, <1>6, EffectOK, Zenon

LEMMA RenderCardOK == ASSUME ForecastInv, RenderCard PROVE ForecastInv'
<1>1. /\ mtCluster \in MtCluster /\ mtSamples[mtCluster] \in Seq(Sample)
      /\ mtSamples \in [MtCluster -> Seq(Sample)]
  BY DEF ForecastInv, ForecastTypes
<1>2. /\ mtCard' = mtSamples[mtCluster] /\ mtCluster' = mtCluster /\ mtClock' = mtClock
      /\ mtSize' = mtSize /\ mtFrom' = mtFrom /\ mtMixed' = mtMixed
      /\ mtSummary' = mtSummary /\ mtSamples' = mtSamples
  BY DEF RenderCard
<1>3. ForecastTypes' /\ ForecastOK'
  BY <1>1, <1>2, Zenon DEF ForecastInv, ForecastTypes, ForecastOK
<1>4. mtSamples[mtCluster] # <<>> => Bytes(mtSamples[mtCluster]) <= Bytes(mtSamples[mtCluster])
  <2> SUFFICES ASSUME mtSamples[mtCluster] # <<>>
               PROVE  Bytes(mtSamples[mtCluster]) <= Bytes(mtSamples[mtCluster])
    OBVIOUS
  <2>1. PICK b \in Int: b = Bytes(mtSamples[mtCluster])
    BY <1>1, BytesOK
  <2>2. b <= b
    BY <2>1
  <2> QED
    BY <2>1, <2>2, Zenon
<1>5. CardOK'
  <2>1. SamplesOK(mtSamples[mtCluster], mtClock)
        /\ (mtCluster \in mtMixed \/ NoFall(mtSamples[mtCluster]))
    BY <1>1, Zenon DEF ForecastInv, ForecastOK, Steady
  <2>2. mtSummary[mtCluster] # 0 => /\ mtSamples[mtCluster] # <<>>
                                    /\ Bytes(mtSamples[mtCluster]) = mtSummary[mtCluster]
    BY Zenon DEF ForecastInv, CardOK, CardOf
  <2> QED
    BY <1>2, <1>4, <2>1, <2>2, Zenon DEF CardOK, CardOf
<1> QED
  BY <1>3, <1>5, Zenon DEF ForecastInv

LEMMA MinutePassesOK == ASSUME ForecastInv, MinutePasses PROVE ForecastInv'
<1>1. /\ mtSamples \in [MtCluster -> Seq(Sample)] /\ mtCard \in Seq(Sample)
      /\ mtClock \in 0..MaxClock
  BY DEF ForecastInv, ForecastTypes
<1>2. /\ mtClock' = mtClock + 1 /\ mtClock < MaxClock
      /\ mtCluster' = mtCluster /\ mtSize' = mtSize /\ mtFrom' = mtFrom /\ mtMixed' = mtMixed
      /\ mtSummary' = mtSummary /\ mtSamples' = mtSamples /\ mtCard' = mtCard
  BY DEF MinutePasses
<1>3. mtClock' \in 0..MaxClock /\ mtClock \in Int /\ mtClock' \in Int
  BY <1>1, <1>2, MaintenanceBounds
<1>4. ASSUME NEW s \in Seq(Sample), SamplesOK(s, mtClock) PROVE SamplesOK(s, mtClock')
  <2>1. \A i \in 1..Len(s): s[i][1] <= mtClock'
    <3> TAKE i \in 1..Len(s)
    <3>1. PICK t \in Int: t = s[i][1]
      BY SampleParts
    <3>2. t <= mtClock
      BY <1>4, <3>1 DEF SamplesOK
    <3>3. t <= mtClock'
      BY <1>2, <1>3, <3>2
    <3> QED
      BY <3>1, <3>3, Zenon
  <2> QED
    BY <1>4, <2>1, Zenon DEF SamplesOK
<1>5. ForecastTypes'
  BY <1>1, <1>2, <1>3, Zenon DEF ForecastInv, ForecastTypes
<1>6. ForecastOK'
  <2> SUFFICES ASSUME NEW d \in MtCluster
               PROVE  /\ SamplesOK(mtSamples[d], mtClock')
                      /\ d \in mtMixed \/ Steady(mtSamples[d], mtSummary[d], mtFrom[d], mtSize[d])
    BY <1>2, Zenon DEF ForecastOK
  <2>1. mtSamples[d] \in Seq(Sample)
    BY <1>1
  <2> QED
    BY <1>4, <2>1, Zenon DEF ForecastInv, ForecastOK
<1>7. CardOK'
  <2>1. SamplesOK(mtCard, mtClock')
    BY <1>1, <1>4, Zenon DEF ForecastInv, CardOK, CardOf
  <2> QED
    BY <1>2, <2>1, Zenon DEF ForecastInv, CardOK, CardOf
<1> QED
  BY <1>5, <1>6, <1>7, Zenon DEF ForecastInv

\* A database grows, or is defragmented.
LEMMA SizeOK ==
  ASSUME ForecastInv, mtSize' \in [MtCluster -> [MtEndpoint -> 1..MaxSize]],
         mtMixed \subseteq mtMixed', mtMixed' \subseteq MtCluster,
         UNCHANGED <<mtCluster, mtClock, mtFrom, mtSummary, mtSamples, mtCard>>,
         \A d \in MtCluster: d \notin mtMixed' /\ mtFrom[d] # "none" =>
                               mtSize[d][mtFrom[d]] <= mtSize'[d][mtFrom[d]]
  PROVE  ForecastInv'
<1>1. /\ mtCluster' = mtCluster /\ mtClock' = mtClock /\ mtFrom' = mtFrom
      /\ mtSummary' = mtSummary /\ mtSamples' = mtSamples /\ mtCard' = mtCard
  OBVIOUS
<1>2. ForecastTypes'
  BY <1>1, Zenon DEF ForecastInv, ForecastTypes
<1>3. CardOK'
  BY <1>1, Zenon DEF ForecastInv, CardOK, CardOf
<1>4. ForecastOK'
  <2> SUFFICES ASSUME NEW d \in MtCluster, d \notin mtMixed'
               PROVE  Steady(mtSamples[d], mtSummary[d], mtFrom[d], mtSize'[d])
    BY <1>1, Zenon DEF ForecastInv, ForecastOK
  <2>1. Steady(mtSamples[d], mtSummary[d], mtFrom[d], mtSize[d])
    BY Zenon DEF ForecastInv, ForecastOK
  <2>2. /\ mtSamples[d] \in Seq(Sample) /\ mtSummary[d] \in 0..MaxSize
        /\ mtFrom[d] \in MtEndpoint \cup {"none"}
        /\ mtSize[d] \in [MtEndpoint -> 1..MaxSize] /\ mtSize'[d] \in [MtEndpoint -> 1..MaxSize]
    BY DEF ForecastInv, ForecastTypes
  <2>3. CASE mtFrom[d] = "none"
    BY <2>1, <2>3, Zenon DEF Steady
  <2>4. CASE mtFrom[d] # "none"
    <3>1. PICK a \in Int, b \in Int: a = mtSize[d][mtFrom[d]] /\ b = mtSize'[d][mtFrom[d]]
      BY <2>2, <2>4, MaintenanceBounds
    <3>2. a <= b
      BY <2>4, <3>1, Zenon
    <3>3. ASSUME NEW k \in Int, k <= a PROVE k <= b
      BY <3>1, <3>2, <3>3
    <3>4. mtSummary[d] \in Int /\ (mtSamples[d] # <<>> => Bytes(mtSamples[d]) \in Int)
      BY <2>2, BytesOK, MaintenanceBounds
    <3> QED
      BY <2>1, <3>1, <3>3, <3>4, Zenon DEF Steady
  <2> QED
    BY <2>3, <2>4
<1> QED
  BY <1>2, <1>3, <1>4, Zenon DEF ForecastInv

LEMMA DatabaseOK ==
  ASSUME ForecastInv, NEW c \in MtCluster, NEW e \in MtEndpoint,
         DatabaseGrows(c, e) \/ DatabaseIsDefragmented(c, e)
  PROVE  ForecastInv'
<1>1. /\ mtSize \in [MtCluster -> [MtEndpoint -> 1..MaxSize]] /\ mtMixed \subseteq MtCluster
      /\ mtFrom \in [MtCluster -> MtEndpoint \cup {"none"}] /\ e # "none"
  BY MaintenanceAssumption DEF ForecastInv, ForecastTypes
<1>2. UNCHANGED <<mtCluster, mtClock, mtFrom, mtSummary, mtSamples, mtCard>>
  BY DEF DatabaseGrows, DatabaseIsDefragmented
<1>3. /\ mtSize[c][e] \in 1..MaxSize /\ 1 \in 1..MaxSize
      /\ mtSize[c][e] < MaxSize => mtSize[c][e] + 1 \in 1..MaxSize
  BY <1>1, MaintenanceBounds
<1>4. PICK k \in 1..MaxSize: /\ mtSize' = [mtSize EXCEPT ![c][e] = k]
                             /\ \/ mtMixed' = mtMixed /\ k = mtSize[c][e] + 1
                                \/ mtMixed' = IF mtFrom[c] = e THEN mtMixed \cup {c} ELSE mtMixed
  BY <1>3 DEF DatabaseGrows, DatabaseIsDefragmented
<1>5. mtSize' \in [MtCluster -> [MtEndpoint -> 1..MaxSize]]
  BY <1>1, <1>4
<1>6. mtMixed \subseteq mtMixed' /\ mtMixed' \subseteq MtCluster
  BY <1>1, <1>4
<1>7. ASSUME NEW d \in MtCluster, d \notin mtMixed', mtFrom[d] # "none"
      PROVE  mtSize[d][mtFrom[d]] <= mtSize'[d][mtFrom[d]]
  <2>1. mtFrom[d] \in MtEndpoint
    BY <1>1, <1>7
  <2>2. PICK a \in Int: a = mtSize[d][mtFrom[d]]
    BY <1>1, <2>1, MaintenanceBounds
  <2>3. CASE d = c /\ mtFrom[d] = e
    <3>1. mtSize'[d][mtFrom[d]] = k /\ k = a + 1
      BY <1>1, <1>4, <1>7, <2>2, <2>3
    <3>2. a <= a + 1
      BY <2>2
    <3> QED
      BY <2>2, <3>1, <3>2, Zenon
  <2>4. CASE ~(d = c /\ mtFrom[d] = e)
    <3>1. mtSize'[d][mtFrom[d]] = mtSize[d][mtFrom[d]]
      BY <1>1, <1>4, <2>1, <2>4
    <3>2. a <= a
      BY <2>2
    <3> QED
      BY <2>2, <3>1, <3>2, Zenon
  <2> QED
    BY <2>3, <2>4
<1> QED
  BY <1>2, <1>5, <1>6, <1>7, SizeOK, Zenon

LEMMA ForecastNextOK ==
  ASSUME ForecastInv, [ForecastNext]_<<mtCluster, mtForecastVars>>
  PROVE  ForecastInv'
<1>1. CASE UNCHANGED <<mtCluster, mtForecastVars>>
  <2>1. /\ mtCluster' = mtCluster /\ mtClock' = mtClock /\ mtSize' = mtSize
        /\ mtFrom' = mtFrom /\ mtMixed' = mtMixed /\ mtSummary' = mtSummary
        /\ mtSamples' = mtSamples /\ mtCard' = mtCard
    BY <1>1 DEF mtForecastVars
  <2> QED
    BY <2>1, Zenon DEF ForecastInv, ForecastTypes, ForecastOK, CardOK
<1>2. \A c \in MtCluster: MtEndpoints[c] \subseteq MtEndpoint
  BY MaintenanceAssumption
<1>3. ASSUME NEW c \in MtCluster, NEW e \in MtEndpoints[c],
             SummaryRead(c, e) \/ DatabaseGrows(c, e) \/ DatabaseIsDefragmented(c, e)
      PROVE  ForecastInv'
  <2>1. e \in MtEndpoint
    BY <1>2
  <2> QED
    BY <1>3, <2>1, SummaryReadOK, DatabaseOK, Zenon
<1> QED
  BY <1>1, <1>3, MinutePassesOK, RenderCardOK, SwitchClusterOK, SummaryReadsNothingOK, Zenon
  DEF ForecastNext

----------------------------------------------------------------------------
\* The leases.
LeaseTypes ==
  /\ mtLeases \in [here: SUBSET MtLease, shown: SUBSET MtLease,
                   fetch: {"none", "sent", "read"}, read: SUBSET MtLease, failed: BOOLEAN]
  /\ mtRevokes \in [MtLease -> {"none", "sent", "ok", "error"}] /\ mtGone \subseteq MtLease
LeasesOK ==
  /\ mtGone \cap mtLeases.here = {}
  /\ \A l \in MtLease: mtRevokes[l] = "ok" => l \notin mtLeases.here
  /\ mtLeases.fetch = "read" => mtLeases.read \cap mtGone = {}
  /\ mtLeases.fetch = "none" /\ ~mtLeases.failed => mtLeases.shown \cap mtGone = {}
LeaseInv == LeaseTypes /\ LeasesOK

LEMMA LeasesNextOK == ASSUME LeaseInv, [LeasesNext]_mtLeaseVars PROVE LeaseInv'
<1> USE DEF LeaseInv, LeaseTypes, LeasesOK
<1>1. CASE UNCHANGED mtLeaseVars
  BY <1>1 DEF mtLeaseVars
<1>2. CASE PollLeases
  BY <1>2 DEF PollLeases
<1>3. CASE LeasesRead
  BY <1>3 DEF LeasesRead
<1>4. CASE LeasesShown
  BY <1>4 DEF LeasesShown
<1>8. CASE LeasesFail
  BY <1>8 DEF LeasesFail
<1>5. ASSUME NEW l \in MtLease, RevokeLease(l) PROVE LeaseInv'
  BY <1>5 DEF RevokeLease
<1>6. ASSUME NEW l \in MtLease, RevokeServed(l) PROVE LeaseInv'
  <2>1. CASE l \in mtLeases.here /\ mtLeases' = [mtLeases EXCEPT !.here = @ \ {l}]
             /\ \E at \in {"ok", "error"}: mtRevokes' = [mtRevokes EXCEPT ![l] = at]
    BY <1>6, <2>1 DEF RevokeServed
  <2>2. CASE mtRevokes' = [mtRevokes EXCEPT ![l] = "error"] /\ UNCHANGED mtLeases
    BY <1>6, <2>2 DEF RevokeServed
  <2> QED
    BY <1>6, <2>1, <2>2 DEF RevokeServed
<1>7. ASSUME NEW l \in MtLease, RevokeEnds(l) PROVE LeaseInv'
  <2>1. mtRevokes' = [mtRevokes EXCEPT ![l] = "none"]
    BY <1>7 DEF RevokeEnds
  <2>2. CASE mtRevokes[l] = "ok"
    <3>1. /\ mtGone' = mtGone \cup {l}
          /\ mtLeases' = [mtLeases EXCEPT !.fetch = "sent", !.read = {}]
      BY <1>7, <2>2 DEF RevokeEnds
    <3> QED
      BY <2>1, <2>2, <3>1
  <2>3. CASE mtRevokes[l] # "ok"
    <3>1. UNCHANGED <<mtGone, mtLeases>>
      BY <1>7, <2>3 DEF RevokeEnds
    <3> QED
      BY <2>1, <3>1
  <2> QED
    BY <2>2, <2>3
<1> QED
  BY <1>1, <1>2, <1>3, <1>4, <1>5, <1>6, <1>7, <1>8, Zenon DEF LeasesNext

LEMMA RevokedIsGoneOK == ASSUME LeaseInv PROVE RevokedIsGone
  BY DEF LeaseInv, LeasesOK, RevokedIsGone

----------------------------------------------------------------------------
\* The cards: what is shown is of a cluster, and of a file.
CardInv ==
  /\ mtJobs \in [Job -> [pending: BOOLEAN, of: MtCluster \cup {""}, result: MtCluster \cup {""}]]
  /\ mtCheck \in [file: MtFile \cup {""}, sent: MtFile \cup {""}, result: MtFile \cup {""}]

LEMMA CardsNextOK ==
  ASSUME CardInv, mtCluster \in MtCluster, [CardsNext]_<<mtCluster, mtCardVars>>
  PROVE  CardInv' /\ mtCluster' \in MtCluster
<1> USE DEF CardInv
<1>1. CASE UNCHANGED <<mtCluster, mtCardVars>>
  BY <1>1 DEF mtCardVars
<1>2. ASSUME NEW j \in Job, StartJob(j) PROVE CardInv' /\ mtCluster' \in MtCluster
  BY <1>2 DEF StartJob
<1>3. ASSUME NEW j \in Job, JobEnds(j) PROVE CardInv' /\ mtCluster' \in MtCluster
  <2>1. PICK result \in {mtJobs[j].of, ""}:
          mtJobs' = [mtJobs EXCEPT ![j] = [pending |-> FALSE, of |-> "", result |-> result]]
    BY <1>3 DEF JobEnds
  <2>2. result \in MtCluster \cup {""}
    BY <2>1
  <2>3. [pending |-> FALSE, of |-> "", result |-> result]
          \in [pending: BOOLEAN, of: MtCluster \cup {""}, result: MtCluster \cup {""}]
    BY <2>2
  <2> QED
    BY <1>3, <2>1, <2>3 DEF JobEnds
<1>4. ASSUME NEW f \in MtFile \cup {""}, ChooseSnapshot(f) PROVE CardInv' /\ mtCluster' \in MtCluster
  BY <1>4 DEF ChooseSnapshot
<1>5. CASE Validate
  BY <1>5 DEF Validate
<1>6. CASE ValidatorAnswers
  BY <1>6 DEF ValidatorAnswers
<1>7. ASSUME NEW c \in MtCluster, OtherCluster(c) PROVE CardInv' /\ mtCluster' \in MtCluster
  BY <1>7 DEF OtherCluster, mtCardVars
<1> QED
  BY <1>1, <1>2, <1>3, <1>4, <1>5, <1>6, <1>7, Zenon DEF CardsNext

----------------------------------------------------------------------------
\* The page.
MaintenanceInv == ForecastInv /\ LeaseInv /\ CardInv

\* While the other cards are in use, no size has been told.
NoAnswers ==
  mtCard = <<>> /\ \A c \in MtCluster: mtSamples[c] = <<>> /\ mtSummary[c] = 0

LEMMA MaintenanceHolds == ASSUME MaintenanceInv PROVE MaintenanceTypeOK /\ MaintenanceTells
<1>1. ForecastTypes /\ LeaseTypes
  BY DEF MaintenanceInv, ForecastInv, LeaseInv
<1>2. ASSUME NEW s \in {mtSamples[c] : c \in MtCluster} \cup {mtCard}
      PROVE  /\ Len(s) <= MaxSamples
             /\ \A i \in 1..Len(s): s[i] \in (0..MaxClock) \X (1..MaxSize)
  <2>1. s \in Seq(Sample)
    BY <1>1 DEF ForecastTypes
  <2>2. Len(s) <= MaxSamples
    BY Zenon DEF MaintenanceInv, ForecastInv, ForecastOK, CardOK, CardOf, SamplesOK
  <2>3. \A i \in 1..Len(s): s[i] \in Sample
    BY <2>1, ElementOfSeq
  <2> QED
    BY <2>2, <2>3, Zenon DEF Sample
<1>3. MaintenanceTypeOK
  BY <1>1, <1>2, Zenon DEF MaintenanceInv, ForecastTypes, LeaseTypes, CardInv, MaintenanceTypeOK
<1>4. GrowthIsTold /\ RevokedIsGone
  BY GrowthIsToldOK, RevokedIsGoneOK, Zenon DEF MaintenanceInv
<1> QED
  BY <1>3, <1>4, Zenon DEF MaintenanceTells

LEMMA MaintenanceInitOK == ASSUME MaintenanceInit PROVE MaintenanceInv /\ NoAnswers
<1>1. mtCluster \in MtCluster
  <2>1. \E c \in MtCluster: TRUE
    BY MaintenanceAssumption
  <2> QED
    BY <2>1, Zenon DEF MaintenanceInit, FirstMtCluster
<1>2. /\ mtClock = 0 /\ mtSize = [c \in MtCluster |-> [e \in MtEndpoint |-> 1]]
      /\ mtFrom = [c \in MtCluster |-> "none"] /\ mtMixed = {} /\ mtCard = <<>>
      /\ mtSummary = [c \in MtCluster |-> 0] /\ mtSamples = [c \in MtCluster |-> <<>>]
  BY DEF MaintenanceInit
<1>3. ForecastTypes
  <2>1. 0 \in 0..MaxClock /\ 1 \in 1..MaxSize /\ 0 \in 0..MaxSize
    BY MaintenanceBounds
  <2>2. <<>> \in Seq(Sample)
    BY EmptySeq
  <2>3. mtSamples \in [MtCluster -> Seq(Sample)]
    BY <1>2, <2>2, Zenon
  <2>4. mtSummary \in [MtCluster -> 0..MaxSize]
    BY <1>2, <2>1, Zenon
  <2>5. mtSize \in [MtCluster -> [MtEndpoint -> 1..MaxSize]]
    BY <1>2, <2>1
  <2>6. mtFrom \in [MtCluster -> MtEndpoint \cup {"none"}] /\ mtMixed \subseteq MtCluster
    BY <1>2
  <2> QED
    BY <1>1, <1>2, <2>1, <2>2, <2>3, <2>4, <2>5, <2>6, Zenon DEF ForecastTypes
<1>4. SamplesOK(<<>>, mtClock) /\ NoFall(<<>>)
  <2>1. Len(<<>>) = 0 /\ 0 <= MaxSamples /\ 1..0 = {}
    BY MaintenanceBounds
  <2>2. InTime(<<>>) /\ NoFall(<<>>)
    BY <2>1, Zenon DEF InTime, NoFall
  <2> QED
    BY <2>1, <2>2, Zenon DEF SamplesOK
<1>5. ForecastOK
  BY <1>2, <1>4, Zenon DEF ForecastOK, Steady
<1>6. CardOK
  BY <1>1, <1>2, <1>4, Zenon DEF CardOK, CardOf
<1>7. LeaseInv
  BY DEF MaintenanceInit, LeaseInv, LeaseTypes, LeasesOK
<1>8. CardInv
  BY DEF MaintenanceInit, CardInv
<1>9. NoAnswers
  BY <1>2, Zenon DEF NoAnswers
<1> QED
  BY <1>3, <1>5, <1>6, <1>7, <1>8, <1>9, Zenon DEF MaintenanceInv, ForecastInv

----------------------------------------------------------------------------
(***************************************************************************)
(* The Metrics page.  The points of a node are in the order of their       *)
(* time, and its log goes on from the count that it was left at.  Every    *)
(* entry of it is a row of the merged list, or has another near it.        *)
(***************************************************************************)
LEMMA Quotient == ASSUME NEW a \in Int, NEW b \in Int, a >= 0, b > 0 PROVE a \div b >= 0
  OBVIOUS

\* The elements of a finite set, in a sequence.
Enumerates(s, n, S) ==
  /\ s \in Seq(S) /\ Len(s) = n
  /\ \A k \in 1..n: s[k] \in S
  /\ \A x \in S: \E k \in 1..n: s[k] = x

LEMMA SetToSeqOK ==
  ASSUME NEW S, IsFiniteSet(S)
  PROVE  \E n \in Nat: Enumerates(SetToSeq(S), n, S)
<1>1. PICK n \in Nat: n = Cardinality(S) /\ ExistsBijection(1..n, S)
  BY FS_CardinalityType
<1>2. \E f \in [1..n -> S]: IsInjective(f)
  BY <1>1, Zenon DEF ExistsBijection, Bijection, Injection
<1>3. PICK f \in [1..n -> S]: f = SetToSeq(S) /\ IsInjective(f)
  BY <1>1, <1>2, Zenon DEF SetToSeq
<1>4. f \in Injection(1..n, S)
  BY <1>3, Zenon DEF Injection
<1>5. Cardinality(1..n) = n
  <2>1. 1 \in Int /\ n \in Int
    OBVIOUS
  <2>2. Cardinality(1..n) = IF 1 > n THEN 0 ELSE n - 1 + 1
    BY <2>1, FS_Interval
  <2> QED
    BY <2>2
<1>6. f \in Surjection(1..n, S)
  BY <1>1, <1>4, <1>5, FS_Injection
<1>7. \A x \in S: \E k \in 1..n: f[k] = x
  BY <1>6, Zenon DEF Surjection
<1>8. f \in Seq(S) /\ Len(f) = n
  BY FunctionIsSeq, Zenon
<1>9. \A k \in 1..n: f[k] \in S
  OBVIOUS
<1> QED
  BY <1>3, <1>7, <1>8, <1>9, Zenon DEF Enumerates

\* What is in one of some sequences is in all of them, one after the other.
LEMMA FlattenHas ==
  ASSUME NEW V, NEW s \in Seq(Seq(V)), NEW k \in 1..Len(s), NEW i \in 1..Len(s[k])
  PROVE  \E j \in 1..Len(FlattenSeq(s)): FlattenSeq(s)[j] = s[k][i]
<1> DEFINE W == Seq(V)
<1>1. PICK n \in Nat: n = Len(s)
  BY LenProperties, Zenon
<1>2. PICK f: f \in [1..n -> W] /\ Flat(s, n, f) /\ FlattenSeq(s) = IF n = 0 THEN s ELSE f[n]
  <2>1. PICK f: FlatUpto(s, n, V, f)
    BY <1>1, FlatOK
  <2> QED
    BY <2>1, Zenon DEF FlatUpto
<1>3. \A m \in 1..n: s[m] \in W
  <2>1. s \in Seq(W)
    OBVIOUS
  <2> HIDE DEF W
  <2> QED
    BY <1>1, <2>1, ElementOfSeq
<1> DEFINE Has(m) == \E j \in 1..Len(f[m]): f[m][j] = s[k][i]
           S == {m \in Nat : m \in 1..n /\ k <= m => Has(m)}
<1>4. 0 \in S
  OBVIOUS
<1>5. ASSUME NEW m \in Nat, m \in S, m + 1 \in 1..n, k <= m + 1 PROVE Has(m + 1)
  <2>0. m + 1 \in 1..n /\ k <= m + 1
    BY <1>5, Zenon
  <2>4. m \in 1..n /\ k <= m => Has(m)
    BY <1>5, Zenon
  <2> HIDE DEF S
  <2>1. k \in 1..n /\ k \in Int
    BY <1>1
  <2>2. CASE m = 0
    <3>1. k = 1 /\ m + 1 = 1
      BY <1>5, <2>1, <2>2
    <3>2. f[m + 1] = s[k]
      BY <1>2, <1>5, <3>1, Zenon DEF Flat
    <3> QED
      BY <3>2, Zenon
  <2>3. CASE m # 0
    <3>1. m \in 1..n /\ m + 1 # 1 /\ (m + 1) - 1 = m
      BY <2>0, <2>3
    <3>2. f[m + 1] = f[m] \o s[m + 1]
      BY <1>2, <1>5, <3>1, Zenon DEF Flat
    <3>3. f[m] \in Seq(V) /\ s[m + 1] \in Seq(V)
      BY <1>2, <1>3, <1>5, <3>1
    <3>4. PICK x \in Seq(V), y \in Seq(V): x = f[m] /\ y = s[m + 1]
      BY <3>3
    <3>5. PICK a \in Nat, b \in Nat: a = Len(x) /\ b = Len(y)
      BY LenProperties
    <3>6. /\ Len(x \o y) = a + b /\ \A j \in 1..a: (x \o y)[j] = x[j]
          /\ \A j \in 1..b: (x \o y)[a + j] = y[j]
      <4>1. /\ Len(x \o y) = a + b
            /\ \A j \in 1..(a + b): (x \o y)[j] = IF j <= a THEN x[j] ELSE y[j - a]
        BY <3>5, ConcatProperties
      <4>2. \A j \in 1..a: j \in 1..(a + b) /\ j <= a
        OBVIOUS
      <4>3. \A j \in 1..b: a + j \in 1..(a + b) /\ ~(a + j <= a) /\ (a + j) - a = j
        OBVIOUS
      <4> QED
        BY <4>1, <4>2, <4>3, Zenon
    <3>7. CASE k <= m
      <4>1. PICK j \in 1..a: x[j] = s[k][i]
        BY <2>4, <3>1, <3>4, <3>5, <3>7, Zenon
      <4>2. j \in 1..(a + b)
        OBVIOUS
      <4> QED
        BY <3>2, <3>4, <3>6, <4>1, <4>2, Zenon
    <3>8. CASE ~(k <= m)
      <4>1. k = m + 1
        BY <2>0, <2>1, <3>8
      <4>2. i \in 1..b /\ y[i] = s[k][i]
        BY <3>4, <3>5, <4>1, Zenon
      <4>3. \A q \in 1..b: a + q \in 1..(a + b)
        OBVIOUS
      <4>4. a + i \in 1..(a + b) /\ (x \o y)[a + i] = s[k][i]
        BY <3>6, <4>2, <4>3, Zenon
      <4> QED
        BY <3>2, <3>4, <3>6, <4>4, Zenon
    <3> QED
      BY <3>7, <3>8
  <2> QED
    BY <2>2, <2>3
<1>6. \A m \in Nat: m \in S => m + 1 \in S
  <2>1. \A m \in Nat: m + 1 \in Nat
    OBVIOUS
  <2> QED
    BY <1>5, <2>1, Zenon
<1> HIDE DEF S, Has
<1>7. \A m \in Nat: m \in S
  BY <1>4, <1>6, Induction
<1>8. n \in 1..n /\ k <= n /\ n # 0
  BY <1>1
<1> QED
  BY <1>2, <1>7, <1>8, Zenon DEF S, Has

----------------------------------------------------------------------------
\* A chart of points that are in order.
ChartTells(points) ==
  /\ \A i \in 1..(Len(points) - 1): points[i][1] < points[i + 1][1]
  /\ points # <<>> => \A i \in 0..MxPoints: Headline(points, i) \in ToSet(points)
  /\ \A p \in ToSet(ToRate(points)): p[2] >= 0

LEMMA ChartOK ==
  ASSUME NEW points \in Seq(Timed(Int)), InTime(points)
  PROVE  ChartTells(points)
<1>1. PICK n \in Nat: n = Len(points) /\ DOMAIN points = 1..n
  BY LenProperties
<1>2. \A i \in 1..n: points[i][1] \in Int /\ points[i][2] \in Int
  <2>1. \A i \in 1..n: points[i] \in Timed(Int)
    BY <1>1, ElementOfSeq
  <2> QED
    BY <2>1 DEF Timed
<1>3. ASSUME NEW i \in 1..(n - 1)
      PROVE  i \in 1..n /\ i + 1 \in 1..n /\ points[i][1] < points[i + 1][1]
  <2>1. i \in 1..n /\ i + 1 \in 1..n /\ i < i + 1
    OBVIOUS
  <2> QED
    BY <1>1, <2>1, Zenon DEF InTime
<1>4. ASSUME points # <<>>, NEW i \in 0..MxPoints PROVE Headline(points, i) \in ToSet(points)
  <2>1. n # 0
    BY <1>1, <1>4, EmptySeq
  <2>2. n \in 1..n
    BY <2>1
  <2>3. \A j \in 1..n: points[j] \in ToSet(points)
    BY <1>1, Zenon DEF ToSet
  <2> QED
    BY <1>1, <1>4, <2>2, <2>3, Zenon DEF Headline, Last
<1>5. ASSUME NEW p \in ToSet(ToRate(points)) PROVE p[2] >= 0
  <2>1. PICK i \in 1..(n - 1): p = ToRate(points)[i]
    BY <1>1, <1>5, Zenon DEF ToSet, ToRate
  <2>2. PICK t1 \in Int, b1 \in Int, t2 \in Int, b2 \in Int:
          t1 = points[i][1] /\ b1 = points[i][2] /\ t2 = points[i + 1][1] /\ b2 = points[i + 1][2]
    BY <1>2, <1>3, Zenon
  <2>3. p = <<t2, Max({0, b2 - b1}) \div (t2 - t1)>>
    BY <1>1, <2>1, <2>2, Zenon DEF ToRate
  <2>4. p[2] = Max({0, b2 - b1}) \div (t2 - t1)
    BY <2>3, Zenon
  <2>5. t1 < t2
    BY <1>3, <2>2, Zenon
  <2>6. t2 - t1 \in Int /\ t2 - t1 > 0 /\ b2 - b1 \in Int /\ 0 \in Int
    BY <2>5
  <2>7. PICK a \in Int: a = Max({0, b2 - b1}) /\ a >= 0
    <3>1. Max({0, b2 - b1}) = IF 0 < b2 - b1 THEN b2 - b1 ELSE 0
      BY <2>6, MaxMinOfTwo
    <3> QED
      BY <2>6, <3>1
  <2>8. a \div (t2 - t1) >= 0
    BY <2>6, <2>7, Quotient
  <2> QED
    BY <2>4, <2>7, <2>8, Zenon
<1> QED
  BY <1>1, <1>3, <1>4, <1>5, Zenon DEF ChartTells

LEMMA MetricsBounds ==
  /\ MaxPolls \in Nat /\ MaxCount \in Nat /\ SameTime \in Nat
  /\ MxPoints \in Nat \ {0} /\ MxEntries \in Nat \ {0} /\ MxRows \in Nat \ {0}
  /\ IsFiniteSet(MxNode) /\ "__all__" \notin MxNode
  BY MetricsAssumption

\* The sum of the points of a number is one.
TotalCell(nodes, i, f, k) ==
  IF k = 0 THEN 0 ELSE f[k - 1] + mxHistory[nodes[k]][i][2]

LEMMA TotalOK ==
  ASSUME NEW nodes, NEW n \in Nat, n = Len(nodes), NEW i,
         \A k \in 1..n: mxHistory[nodes[k]][i][2] \in Int
  PROVE  Total(nodes, i) \in Int
<1> DEFINE next == [p \in Int \X (1..n) |-> p[1] + mxHistory[nodes[p[2]]][i][2]]
<1>1. \A a \in Int, k \in 1..n: a + mxHistory[nodes[k]][i][2] \in Int
  OBVIOUS
<1>2. next \in [Int \X (1..n) -> Int]
  <2> SUFFICES ASSUME NEW p \in Int \X (1..n)
               PROVE  p[1] + mxHistory[nodes[p[2]]][i][2] \in Int
    BY Zenon
  <2>1. p[1] \in Int /\ p[2] \in 1..n
    OBVIOUS
  <2> QED
    BY <1>1, <2>1, Zenon
<1>3. \A a \in Int, k \in 1..n: next[<<a, k>>] = a + mxHistory[nodes[k]][i][2]
  OBVIOUS
<1> HIDE DEF next
<1>4. 0 \in Int
  OBVIOUS
<1>5. PICK f \in [0..n -> Int]: FoldOf(n, 0, next, f)
  BY <1>2, <1>4, FoldExists, Zenon
<1>6. \A k \in 0..n: f[k] = TotalCell(nodes, i, f, k)
  <2> TAKE k \in 0..n
  <2>1. CASE k = 0
    BY <1>5, <2>1, Zenon DEF TotalCell, FoldOf
  <2>2. CASE k # 0
    <3>1. k \in 1..n /\ k - 1 \in 0..n
      BY <2>2
    <3>2. f[k] = next[<<f[k - 1], k>>] /\ f[k - 1] \in Int
      BY <1>5, <2>2, <3>1, Zenon DEF FoldOf
    <3> QED
      BY <1>3, <2>2, <3>1, <3>2, Zenon DEF TotalCell
  <2> QED
    BY <2>1, <2>2
<1>7. f = [k \in 0..n |-> TotalCell(nodes, i, f, k)]
  BY <1>6, Zenon
<1> DEFINE g == CHOOSE g: g = [k \in 0..n |-> TotalCell(nodes, i, g, k)]
<1>8. g = [k \in 0..n |-> TotalCell(nodes, i, g, k)]
  BY <1>7, Zenon
<1>9. Total(nodes, i) = g[n]
  BY Zenon DEF Total, TotalCell
<1> HIDE DEF g
<1>10. \A k \in 0..n: g[k] = TotalCell(nodes, i, g, k)
  BY <1>8, Zenon
<1> DEFINE S == {k \in Nat : k \in 0..n => g[k] \in Int}
<1>11. 0 \in S
  <2>1. 0 \in 0..n
    OBVIOUS
  <2>2. g[0] = 0
    BY <1>10, <2>1, Zenon DEF TotalCell
  <2> QED
    BY <2>2
<1>12. ASSUME NEW k \in Nat, k \in S PROVE k + 1 \in S
  <2> SUFFICES ASSUME k + 1 \in 0..n PROVE g[k + 1] \in Int
    OBVIOUS
  <2>1. k \in 0..n /\ k + 1 \in 1..n /\ k + 1 # 0 /\ (k + 1) - 1 = k
    OBVIOUS
  <2>2. g[k] \in Int
    BY <1>12, <2>1
  <2>3. g[k + 1] = g[k] + mxHistory[nodes[k + 1]][i][2]
    BY <1>10, <2>1, Zenon DEF TotalCell
  <2> QED
    BY <1>1, <2>1, <2>2, <2>3, Zenon
<1> HIDE DEF S
<1>13. \A k \in Nat: k \in S
  BY <1>11, <1>12, Induction
<1>14. n \in 0..n
  OBVIOUS
<1> QED
  BY <1>9, <1>13, <1>14, Zenon DEF S

----------------------------------------------------------------------------
\* The list of the changes.
LogRow == [src: {"disk", "session"}, at: Int, to: Int]
LogRows == {rows \in SUBSET LogRow : IsFiniteSet(rows)}
Near(rows, ev) ==
  \E r \in rows: /\ r.src = "session" /\ r.to = ev.to
                 /\ (r.at - ev.at) \in -SameTime..SameTime
DiskRows == {[src |-> "disk", at |-> t, to |-> 0] : t \in mxDisk}
ListOf(seen, n) ==
  LET rows[k \in 0..n] == IF k = 0 THEN DiskRows ELSE WithChange(rows[k - 1], seen[k])
  IN rows[n]
ListCell(seen, f, k) == IF k = 0 THEN DiskRows ELSE WithChange(f[k - 1], seen[k])

LEMMA ChangeParts ==
  ASSUME NEW ev \in LeaderChange
  PROVE  /\ ev.at \in Int /\ ev.from \in Int /\ ev.to \in Int /\ ev.to >= 0 /\ ev.from >= 0
         /\ ev.at \in 1..MaxPolls
  BY MetricsBounds DEF LeaderChange

\* With a change, what was in the list is, and a row near it.
WithIt(rows, ev, all) == all \in LogRows /\ rows \subseteq all /\ Near(all, ev)

LEMMA WithChangeOK ==
  ASSUME NEW rows \in LogRows, NEW ev \in LeaderChange
  PROVE  WithIt(rows, ev, WithChange(rows, ev))
<1>1. CASE Near(rows, ev)
  <2>1. WithChange(rows, ev) = rows
    BY <1>1, Zenon DEF Near, WithChange
  <2> QED
    BY <1>1, <2>1, Zenon DEF WithIt
<1>2. CASE ~Near(rows, ev)
  <2>1. PICK r: r = [src |-> "session", at |-> ev.at, to |-> ev.to]
    OBVIOUS
  <2>2. WithChange(rows, ev) = rows \cup {r}
    BY <1>2, <2>1, Zenon DEF Near, WithChange
  <2>3. r \in LogRow
    BY <2>1, ChangeParts DEF LogRow
  <2>4. r.src = "session" /\ r.to = ev.to /\ r.at = ev.at
    BY <2>1
  <2>5. (ev.at - ev.at) \in -SameTime..SameTime
    <3>1. PICK t \in Int: t = ev.at
      BY ChangeParts
    <3>2. (t - t) \in -SameTime..SameTime
      BY MetricsBounds
    <3> QED
      BY <3>1, <3>2, Zenon
  <2>6. Near(rows \cup {r}, ev)
    <3>1. r \in rows \cup {r}
      OBVIOUS
    <3>2. (r.at - ev.at) \in -SameTime..SameTime
      BY <2>4, <2>5, Zenon
    <3> QED
      BY <2>4, <3>1, <3>2, Zenon DEF Near
  <2>7. rows \cup {r} \in LogRows /\ rows \subseteq rows \cup {r}
    <3>1. IsFiniteSet(rows \cup {r})
      BY FS_AddElement DEF LogRows
    <3> QED
      BY <2>3, <3>1 DEF LogRows
  <2> QED
    BY <2>2, <2>6, <2>7, Zenon DEF WithIt
<1> QED
  BY <1>1, <1>2

LEMMA ChangeListOK ==
  ASSUME NEW seen \in Seq(LeaderChange), NEW n \in Nat, n = Len(seen), mxDisk \subseteq Int,
         IsFiniteSet(mxDisk)
  PROVE  ListOf(seen, n) \in LogRows /\ \A j \in 1..n: Near(ListOf(seen, n), seen[j])
<1> DEFINE next == [p \in LogRows \X (1..n) |-> WithChange(p[1], seen[p[2]])]
<1>1. \A k \in 1..n: seen[k] \in LeaderChange
  BY ElementOfSeq
<1>2. next \in [LogRows \X (1..n) -> LogRows]
  <2> SUFFICES ASSUME NEW p \in LogRows \X (1..n) PROVE WithChange(p[1], seen[p[2]]) \in LogRows
    BY Zenon
  <2>1. p[1] \in LogRows /\ p[2] \in 1..n
    OBVIOUS
  <2> QED
    BY <1>1, <2>1, WithChangeOK, Zenon DEF WithIt
<1>3. \A rows \in LogRows, k \in 1..n: next[<<rows, k>>] = WithChange(rows, seen[k])
  BY Zenon
<1>4. DiskRows \in LogRows
  <2> DEFINE row == [t \in mxDisk |-> [src |-> "disk", at |-> t, to |-> 0]]
  <2>1. row \in Surjection(mxDisk, DiskRows)
    BY Zenon DEF Surjection, DiskRows
  <2> HIDE DEF row
  <2>2. IsFiniteSet(DiskRows)
    BY <2>1, FS_Surjection
  <2> QED
    BY <2>2 DEF DiskRows, LogRow, LogRows
<1> HIDE DEF next
<1>5. PICK f \in [0..n -> LogRows]: FoldOf(n, DiskRows, next, f)
  BY <1>2, <1>4, FoldExists, Zenon
<1>6. \A k \in 0..n: f[k] = ListCell(seen, f, k)
  <2> TAKE k \in 0..n
  <2>1. CASE k = 0
    BY <1>5, <2>1, Zenon DEF ListCell, FoldOf
  <2>2. CASE k # 0
    <3>1. k \in 1..n /\ k - 1 \in 0..n
      BY <2>2
    <3>2. f[k] = next[<<f[k - 1], k>>] /\ f[k - 1] \in LogRows
      BY <1>5, <2>2, <3>1, Zenon DEF FoldOf
    <3> QED
      BY <1>3, <2>2, <3>1, <3>2, Zenon DEF ListCell
  <2> QED
    BY <2>1, <2>2
<1>7. f = [k \in 0..n |-> ListCell(seen, f, k)]
  BY <1>6, Zenon
<1> DEFINE g == CHOOSE g: g = [k \in 0..n |-> ListCell(seen, g, k)]
<1>8. g = [k \in 0..n |-> ListCell(seen, g, k)]
  BY <1>7, Zenon
<1>9. ListOf(seen, n) = g[n]
  BY Zenon DEF ListOf, ListCell
<1> HIDE DEF g
<1>10. \A k \in 0..n: g[k] = ListCell(seen, g, k)
  BY <1>8, Zenon
<1> DEFINE Lists1(k) == g[k] \in LogRows /\ \A j \in 1..n: j <= k => Near(g[k], seen[j])
           S == {k \in Nat : k \in 0..n => Lists1(k)}
<1>11. 0 \in S
  <2>1. 0 \in 0..n /\ \A j \in 1..n: ~(j <= 0)
    OBVIOUS
  <2>2. g[0] = DiskRows
    BY <1>10, <2>1, Zenon DEF ListCell
  <2>3. Lists1(0)
    BY <1>4, <2>1, <2>2, Zenon
  <2> HIDE DEF Lists1
  <2> QED
    BY <2>3
<1>12. ASSUME NEW k \in Nat, k \in S, k + 1 \in 0..n PROVE Lists1(k + 1)
  <2>0. k + 1 \in 0..n
    BY <1>12
  <2>1. k \in 0..n /\ k + 1 \in 1..n /\ k + 1 # 0 /\ (k + 1) - 1 = k
    BY <2>0
  <2>2. Lists1(k)
    BY <1>12, <2>1, Zenon
  <2>3. g[k + 1] = WithChange(g[k], seen[k + 1])
    BY <1>10, <2>0, <2>1, Zenon DEF ListCell
  <2>4. /\ g[k + 1] \in LogRows /\ g[k] \subseteq g[k + 1] /\ Near(g[k + 1], seen[k + 1])
    <3>1. g[k] \in LogRows /\ seen[k + 1] \in LeaderChange
      BY <1>1, <2>1, <2>2, Zenon
    <3>2. WithIt(g[k], seen[k + 1], g[k + 1])
      BY <2>3, <3>1, WithChangeOK, Zenon
    <3> QED
      BY <3>2, Zenon DEF WithIt
  <2>5. ASSUME NEW j \in 1..n, j <= k + 1 PROVE Near(g[k + 1], seen[j])
    <3>1. j = k + 1 \/ j <= k
      BY <2>5
    <3>2. CASE j = k + 1
      BY <2>4, <3>2, Zenon
    <3>3. CASE j <= k
      <4>1. Near(g[k], seen[j])
        BY <2>2, <3>3, Zenon
      <4> QED
        BY <2>4, <4>1, Zenon DEF Near
    <3> QED
      BY <3>1, <3>2, <3>3
  <2> QED
    BY <2>4, <2>5, Zenon
<1>13. \A k \in Nat: k \in S => k + 1 \in S
  <2>1. \A k \in Nat: k + 1 \in Nat
    OBVIOUS
  <2> QED
    BY <1>12, <2>1, Zenon
<1> HIDE DEF S, Lists1
<1>14. \A k \in Nat: k \in S
  BY <1>11, <1>13, Induction
<1>15. n \in 0..n /\ \A j \in 1..n: j <= n
  OBVIOUS
<1>16. Lists1(n)
  BY <1>14, <1>15, Zenon DEF S
<1>17. g[n] \in LogRows /\ \A j \in 1..n: Near(g[n], seen[j])
  BY <1>15, <1>16, Zenon DEF Lists1
<1> QED
  BY <1>9, <1>17, Zenon

\* The rows shown: a row that is not has as many before it as are shown.
LEMMA NewerOrders ==
  ASSUME NEW rows \in LogRows
  PROVE  Ordered(rows, {p \in rows \X rows : Newer(p[1], p[2])})
<1> DEFINE R == {p \in rows \X rows : Newer(p[1], p[2])}
<1>1. \A x, y \in rows: <<x, y>> \in R <=> Newer(x, y)
  OBVIOUS
<1>2. \A x \in rows: x.at \in Int /\ x.to \in Int /\ x.src \in {"disk", "session"}
  BY DEF LogRows, LogRow
<1>3. \A x, y \in rows: x.at = y.at /\ x.to = y.to /\ x.src = y.src => x = y
  BY DEF LogRows, LogRow
<1> HIDE DEF R
<1>4. ASSUME NEW x \in rows PROVE ~Newer(x, x)
  <2>1. PICK a \in Int, t \in Int: a = x.at /\ t = x.to
    BY <1>2, Zenon
  <2>2. ~(a > a) /\ ~(t < t)
    BY <2>1
  <2>3. ~(x.src = "disk" /\ x.src = "session")
    OBVIOUS
  <2> QED
    BY <2>1, <2>2, <2>3, Zenon DEF Newer
<1>5. ASSUME NEW x \in rows, NEW y \in rows, NEW z \in rows, Newer(x, y), Newer(y, z)
      PROVE  Newer(x, z)
  <2>1. /\ x.at \in Int /\ x.to \in Int /\ y.at \in Int /\ y.to \in Int
        /\ z.at \in Int /\ z.to \in Int
    BY <1>2, Zenon
  <2>2. /\ x.src \in {"disk", "session"} /\ y.src \in {"disk", "session"}
        /\ z.src \in {"disk", "session"}
    BY <1>2, Zenon
  <2> QED
    BY <1>5, <2>1, <2>2, SMT DEF Newer
<1>6. ASSUME NEW x \in rows, NEW y \in rows, x # y PROVE Newer(x, y) \/ Newer(y, x)
  <2>1. x.at \in Int /\ x.to \in Int /\ y.at \in Int /\ y.to \in Int
    BY <1>2, Zenon
  <2>2. x.src \in {"disk", "session"} /\ y.src \in {"disk", "session"}
    BY <1>2, Zenon
  <2>3. ~(x.at = y.at /\ x.to = y.to /\ x.src = y.src)
    BY <1>3, <1>6, Zenon
  <2> QED
    BY <2>1, <2>2, <2>3, SMT DEF Newer
<1> QED
  BY <1>1, <1>4, <1>5, <1>6, Zenon DEF Ordered, R

PushedOut(shown, r) == Cardinality(shown) = MxRows /\ \A q \in shown: q.at >= r.at

LEMMA FirstRowsOK ==
  ASSUME NEW rows \in LogRows, NEW r \in rows, r \notin FirstRows(rows)
  PROVE  PushedOut(FirstRows(rows), r)
<1> DEFINE R == {p \in rows \X rows : Newer(p[1], p[2])}
           first == FirstRows(rows)
<1>1. PICK n: n = Cardinality(rows)
  OBVIOUS
<1>2. PICK rank: rank = Rank(rows, R)
  OBVIOUS
<1>3. IsFiniteSet(rows) /\ Ordered(rows, R)
  BY NewerOrders DEF LogRows
<1>4. \A x, y \in rows: <<x, y>> \in R <=> Newer(x, y)
  OBVIOUS
<1> HIDE DEF R
<1>5. Ranked(rows, R, n, rank)
  BY <1>1, <1>2, <1>3, RankOK, Zenon
<1>6. ASSUME NEW x \in rows PROVE rank[x] = Cardinality({q \in rows : Newer(q, x)})
  <2>1. rank[x] = Cardinality({q \in rows : <<q, x>> \in R})
    BY <1>2, Zenon DEF Rank
  <2>2. {q \in rows : <<q, x>> \in R} = {q \in rows : Newer(q, x)}
    BY <1>4
  <2> QED
    BY <2>1, <2>2, Zenon
<1>7. first = {x \in rows : rank[x] < MxRows}
  BY <1>6 DEF FirstRows
<1> HIDE DEF first
<1>8. n \in Nat /\ MxRows \in Nat \ {0} /\ \A x \in rows: rank[x] \in 0..(n - 1)
  BY <1>5, MetricsBounds, Zenon DEF Ranked
<1>9. rank[r] >= MxRows /\ MxRows <= n - 1
  <2>1. rank[r] \in 0..(n - 1) /\ ~(rank[r] < MxRows)
    BY <1>7, <1>8 DEF first
  <2> QED
    BY <1>8, <2>1
<1>10. Cardinality(first) = MxRows
  <2> DEFINE T == 0..(MxRows - 1)
             f == [x \in first |-> rank[x]]
  <2>1. IsFiniteSet(T) /\ Cardinality(T) = MxRows
    <3>1. 0 \in Int /\ MxRows - 1 \in Int
      BY <1>8
    <3>2. IsFiniteSet(T) /\ Cardinality(T) = IF 0 > MxRows - 1 THEN 0 ELSE (MxRows - 1) - 0 + 1
      BY <3>1, FS_Interval
    <3> QED
      BY <1>8, <3>2
  <2>2. \A x \in first: rank[x] \in T
    BY <1>7, <1>8
  <2>3. \A x, y \in first: rank[x] = rank[y] => x = y
    BY <1>5, <1>7 DEF Ranked
  <2>4. ASSUME NEW t \in T PROVE \E x \in first: rank[x] = t
    <3>1. t + 1 \in 1..n /\ (t + 1) - 1 = t /\ t < MxRows
      BY <1>8, <1>9
    <3>2. PICK x \in rows: rank[x] = (t + 1) - 1
      BY <1>5, <3>1, Zenon DEF Ranked
    <3>3. x \in first /\ rank[x] = t
      BY <1>7, <3>1, <3>2
    <3> QED
      BY <3>3
  <2> HIDE DEF T
  <2>5. f \in Injection(first, T)
    BY <2>2, <2>3, Zenon DEF Injection, IsInjective
  <2>6. f \in Surjection(first, T)
    BY <2>2, <2>4, Zenon DEF Surjection
  <2> HIDE DEF f
  <2> QED
    BY <2>1, <2>5, <2>6, FS_Injection
<1>11. ASSUME NEW q \in first PROVE q.at >= r.at
  <2>1. q \in rows /\ rank[q] < MxRows
    BY <1>7
  <2>2. rank[q] \in 0..(n - 1) /\ rank[r] \in 0..(n - 1)
    BY <1>8, <2>1
  <2>3. ~(rank[r] < rank[q]) /\ rank[q] # rank[r]
    BY <1>8, <1>9, <2>1, <2>2
  <2>4. q # r /\ ~(<<r, q>> \in R)
    BY <1>5, <2>1, <2>3, Zenon DEF Ranked
  <2>5. Newer(q, r)
    BY <1>3, <1>4, <2>1, <2>4, Zenon DEF Ordered
  <2>6. q.at \in Int /\ r.at \in Int
    BY <2>1 DEF LogRows, LogRow
  <2> QED
    BY <2>5, <2>6 DEF Newer
<1> QED
  BY <1>10, <1>11, Zenon DEF PushedOut, first

\* What the page saw of the nodes is in the list.
LEMMA ChangesAreListedOK ==
  ASSUME mxLog \in [MxNode -> Seq(LeaderChange)], mxDisk \subseteq Int, IsFiniteSet(mxDisk),
         IsFiniteSet(OkNodes), OkNodes \subseteq MxNode
  PROVE  ChangesAreListed
<1> SUFFICES ASSUME NEW x \in OkNodes, NEW i \in 1..Len(mxLog[x])
             PROVE  Merged \in LogRows /\ Near(Merged, mxLog[x][i])
  <2>1. ASSUME NEW x \in OkNodes, NEW i \in 1..Len(mxLog[x]), Merged \in LogRows,
               Near(Merged, mxLog[x][i])
        PROVE  \E r \in Merged:
                 /\ r.src = "session" /\ r.to = mxLog[x][i].to
                 /\ (r.at - mxLog[x][i].at) \in -SameTime..SameTime
                 /\ r \in FirstRows(Merged) \/ PushedOut(FirstRows(Merged), r)
    BY <2>1, FirstRowsOK, Zenon DEF Near
  <2> QED
    BY <2>1, Zenon DEF ChangesAreListed, PushedOut
<1> DEFINE W == Seq(LeaderChange)
<1>0. PICK nodes: nodes = SetToSeq(OkNodes)
  OBVIOUS
<1>1. PICK n \in Nat: Enumerates(nodes, n, OkNodes)
  BY <1>0, SetToSeqOK, Zenon
<1>2. PICK logs: logs = [k \in 1..n |-> mxLog[nodes[k]]]
  OBVIOUS
<1>3. logs \in [1..n -> W]
  <2>1. \A k \in 1..n: mxLog[nodes[k]] \in W
    BY <1>1, Zenon DEF Enumerates
  <2> HIDE DEF W
  <2> QED
    BY <1>2, <2>1, Zenon
<1>4. logs \in Seq(W) /\ Len(logs) = n
  <2> HIDE DEF W
  <2> QED
    BY <1>3, FunctionIsSeq, Zenon
<1>5. PICK k \in 1..n: nodes[k] = x
  BY <1>1, Zenon DEF Enumerates
<1>6. logs[k] = mxLog[x]
  BY <1>2, <1>5, Zenon
<1>7. PICK seen \in Seq(LeaderChange): seen = FlattenSeq(logs)
  BY <1>4, FlattenType, Zenon
<1>8. PICK m \in Nat: m = Len(seen)
  BY LenProperties
<1>9. PICK j \in 1..m: seen[j] = mxLog[x][i]
  <2>1. k \in 1..Len(logs) /\ i \in 1..Len(logs[k])
    BY <1>4, <1>6, Zenon
  <2>2. \E j \in 1..Len(FlattenSeq(logs)): FlattenSeq(logs)[j] = logs[k][i]
    BY <1>4, <2>1, FlattenHas, Zenon
  <2> QED
    BY <1>6, <1>7, <1>8, <2>2, Zenon
<1>10. Merged = ListOf(seen, m)
  <2>1. Merged = ListOf(FlattenSeq([q \in 1..Len(SetToSeq(OkNodes)) |->
                                      mxLog[SetToSeq(OkNodes)[q]]]),
                        Len(FlattenSeq([q \in 1..Len(SetToSeq(OkNodes)) |->
                                          mxLog[SetToSeq(OkNodes)[q]]])))
    BY Zenon DEF Merged, ListOf, DiskRows
  <2> QED
    BY <1>0, <1>1, <1>2, <1>7, <1>8, <2>1, Zenon DEF Enumerates
<1>11. Merged \in LogRows /\ Near(Merged, seen[j])
  BY <1>8, <1>10, ChangeListOK, Zenon
<1> QED
  BY <1>9, <1>11, Zenon

\* The points of a node, and those that end with a sample.
MxPoint == (1..MaxPolls) \X (0..MaxCount)
PointsOK(h, now) ==
  /\ InTime(h) /\ Len(h) <= MxPoints
  /\ \A i \in 1..Len(h): h[i][1] <= now
EndWith(h, now, v) == h # <<>> /\ h[Len(h)] = <<now, v>>
Points(h) == SubSeq(h, Max({1, Len(h) - MxPoints + 1}), Len(h))

LEMMA PairOf ==
  ASSUME NEW A, NEW B, NEW p \in A \X B
  PROVE  p[1] \in A /\ p[2] \in B
  OBVIOUS

LEMMA PointOf ==
  ASSUME NEW p \in MxPoint PROVE p[1] \in Nat /\ p[1] \in Int /\ p[2] \in Int
<1>1. p[1] \in 1..MaxPolls /\ p[2] \in 0..MaxCount
  BY PairOf DEF MxPoint
<1> QED
  BY <1>1, MetricsBounds

LEMMA PointParts ==
  ASSUME NEW h \in Seq(MxPoint)
  PROVE  \A i \in 1..Len(h): h[i][1] \in Int /\ h[i][2] \in Int
<1> SUFFICES ASSUME NEW i \in 1..Len(h) PROVE h[i][1] \in Int /\ h[i][2] \in Int
  OBVIOUS
<1>1. h[i] \in MxPoint
  BY ElementOfSeq
<1> QED
  BY <1>1, PointOf, Zenon

LEMMA PointsAreTimed == ASSUME NEW h \in Seq(MxPoint) PROVE h \in Seq(Timed(Int))
<1>1. MxPoint \subseteq Timed(Int)
  BY MetricsBounds DEF MxPoint, Timed
<1> QED
  BY <1>1, SeqMonotonic, Zenon

\* One more sample, later than those that are kept.
LEMMA OnePointMore ==
  ASSUME NEW h \in Seq(MxPoint), InTime(h), NEW at \in 1..MaxPolls, NEW v \in 0..MaxCount,
         \A i \in 1..Len(h): h[i][1] < at
  PROVE  /\ Points(Append(h, <<at, v>>)) \in Seq(MxPoint)
         /\ PointsOK(Points(Append(h, <<at, v>>)), at)
         /\ EndWith(Points(Append(h, <<at, v>>)), at, v)
<1>0. at \in Int /\ <<at, v>> \in MxPoint
  BY MetricsBounds DEF MxPoint
<1>1. PICK k \in Nat: k = Len(h)
  BY LenProperties
<1>2. PICK all \in Seq(MxPoint), n \in Nat \ {0}:
        /\ all = Append(h, <<at, v>>) /\ n = Len(all) /\ n = k + 1 /\ all[n] = <<at, v>>
        /\ \A i \in 1..k: all[i] = h[i]
  <2>1. /\ Append(h, <<at, v>>) \in Seq(MxPoint) /\ Len(Append(h, <<at, v>>)) = k + 1
        /\ Append(h, <<at, v>>)[k + 1] = <<at, v>>
        /\ \A i \in 1..k: Append(h, <<at, v>>)[i] = h[i]
    BY <1>0, <1>1, AppendProperties
  <2>2. k + 1 \in Nat \ {0}
    OBVIOUS
  <2> QED
    BY <2>1, <2>2, Zenon
<1>3. all[n][1] = at /\ n \in 1..n
  BY <1>2
<1>4. \A i \in 1..n: i = n \/ (i \in 1..k /\ all[i] = h[i])
  <2>1. \A i \in 1..n: i = n \/ i \in 1..k
    BY <1>2
  <2> QED
    BY <1>2, <2>1, Zenon
<1>5. InTime(all)
  <2> SUFFICES ASSUME NEW i \in 1..n, NEW j \in 1..n, i < j PROVE all[i][1] < all[j][1]
    BY <1>2, Zenon DEF InTime
  <2>1. i # n
    OBVIOUS
  <2>2. i \in 1..k /\ all[i] = h[i]
    BY <1>4, <2>1, Zenon
  <2>3. CASE j = n
    BY <1>1, <1>3, <2>2, <2>3, Zenon
  <2>4. CASE j # n
    <3>1. j \in 1..k /\ all[j] = h[j]
      BY <1>4, <2>4, Zenon
    <3> QED
      BY <1>1, <2>2, <3>1, Zenon DEF InTime
  <2> QED
    BY <2>3, <2>4
<1>6. \A i \in 1..n: all[i][1] <= at
  <2> TAKE i \in 1..n
  <2>1. CASE i = n
    BY <1>0, <1>3, <2>1
  <2>2. CASE i # n
    <3>1. i \in 1..k /\ all[i] = h[i]
      BY <1>4, <2>2, Zenon
    <3>2. PICK t \in Int: t = h[i][1]
      BY <1>1, <3>1, PointParts, Zenon
    <3>3. t < at
      BY <1>1, <3>1, <3>2, Zenon
    <3>4. t <= at
      BY <1>0, <3>3
    <3> QED
      BY <3>1, <3>2, <3>4, Zenon
  <2> QED
    BY <2>1, <2>2
<1>7. PICK m \in 1..n: m = Max({1, n - MxPoints + 1}) /\ n - m + 1 <= MxPoints
  <2>1. 1 \in Int /\ n - MxPoints + 1 \in Int /\ n - MxPoints + 1 <= n /\ MxPoints \in Int
    BY MetricsBounds
  <2>2. Max({1, n - MxPoints + 1}) = IF 1 < n - MxPoints + 1 THEN n - MxPoints + 1 ELSE 1
    BY <2>1, MaxMinOfTwo
  <2>3. \A m \in 1..n: n - MxPoints + 1 <= m => n - m + 1 <= MxPoints
    BY <2>1
  <2>4. PICK m \in 1..n: m = Max({1, n - MxPoints + 1}) /\ n - MxPoints + 1 <= m
    BY <2>1, <2>2
  <2> QED
    BY <2>3, <2>4, Zenon
<1> DEFINE r == SubSeq(all, m, n)
           l == n - m + 1
<1>8. /\ r \in Seq(MxPoint) /\ Len(r) = l /\ \A i \in 1..l: r[i] = all[m + i - 1]
      /\ InTime(r)
  <2>1. n = Len(all) /\ n \in Nat \ {0} /\ all \in Seq(MxPoint)
    BY <1>2, Zenon
  <2>2. LastOnes(MxPoint, all, m, n, SubSeq(all, m, n))
    BY <2>1, LastOnesOK, Zenon
  <2> QED
    BY <1>5, <2>2, Zenon DEF LastOnes
<1>9. Points(Append(h, <<at, v>>)) = r
  BY <1>2, <1>7, Zenon DEF Points
<1>10. l \in Nat \ {0} /\ l \in 1..l /\ m + l - 1 = n
  OBVIOUS
<1>11. \A i \in 1..l: m + i - 1 \in 1..n
  OBVIOUS
<1> HIDE DEF r
<1>12. r[Len(r)] = <<at, v>>
  BY <1>2, <1>8, <1>10, Zenon
<1>13. r # <<>>
  BY <1>8, <1>10, EmptySeq
<1>14. \A i \in 1..Len(r): r[i][1] <= at
  BY <1>6, <1>8, <1>11, Zenon
<1>15. Len(r) <= MxPoints
  BY <1>7, <1>8, Zenon
<1>16. InTime(r) /\ r \in Seq(MxPoint)
  BY <1>8, Zenon
<1> QED
  BY <1>9, <1>12, <1>13, <1>14, <1>15, <1>16, Zenon DEF PointsOK, EndWith

----------------------------------------------------------------------------
\* The points of all nodes: as many as the node has that has fewest.
LEMMA AllNodesOK ==
  ASSUME mxHistory \in [MxNode -> Seq(MxPoint)], \A x \in MxNode: InTime(mxHistory[x]),
         IsFiniteSet(OkNodes), OkNodes \subseteq MxNode, OkNodes # {}
  PROVE  HistFor("__all__") \in Seq(Timed(Int)) /\ InTime(HistFor("__all__"))
<1>0. PICK nodes: nodes = SetToSeq(OkNodes)
  OBVIOUS
<1>1. PICK n \in Nat: Enumerates(nodes, n, OkNodes)
  BY <1>0, SetToSeqOK, Zenon
<1>2. n \in 1..n
  <2>1. n # 0
    <3>1. PICK x \in OkNodes: TRUE
      OBVIOUS
    <3>2. PICK k \in 1..n: nodes[k] = x
      BY <1>1, Zenon DEF Enumerates
    <3> QED
      BY <3>2
  <2> QED
    BY <2>1
<1>3. PICK x \in OkNodes: x = Last(nodes)
  BY <1>1, <1>2, Zenon DEF Enumerates, Last
<1> DEFINE lens == {Len(mxHistory[y]) : y \in OkNodes}
<1>4. PICK m \in Nat: m = Min(lens) /\ \A y \in OkNodes: m <= Len(mxHistory[y])
  <2>1. lens \subseteq Nat
    <3>1. \A y \in OkNodes: Len(mxHistory[y]) \in Nat
      <4> TAKE y \in OkNodes
      <4>1. mxHistory[y] \in Seq(MxPoint)
        OBVIOUS
      <4> QED
        BY <4>1, LenProperties, Zenon
    <3> QED
      BY <3>1, Zenon
  <2>2. Len(mxHistory[x]) \in lens /\ \A y \in OkNodes: Len(mxHistory[y]) \in lens
    BY Zenon
  <2> HIDE DEF lens
  <2>3. Min(lens) \in lens /\ \A z \in lens: Min(lens) <= z
    BY <2>1, <2>2, MinOK, Zenon
  <2> QED
    BY <2>1, <2>2, <2>3, Zenon
<1>5. \A y \in OkNodes, i \in 1..m: /\ i \in 1..Len(mxHistory[y])
                                    /\ mxHistory[y][i] \in MxPoint
                                    /\ mxHistory[y][i][1] \in Nat /\ mxHistory[y][i][2] \in Int
  <2> TAKE y \in OkNodes, i \in 1..m
  <2>1. mxHistory[y] \in Seq(MxPoint)
    OBVIOUS
  <2>2. PICK l \in Nat: l = Len(mxHistory[y]) /\ m <= l
    BY <1>4, <2>1, LenProperties, Zenon
  <2>3. i \in 1..l
    BY <2>2
  <2>4. mxHistory[y][i] \in MxPoint
    BY <2>1, <2>2, <2>3, ElementOfSeq
  <2> QED
    BY <2>2, <2>3, <2>4, PointOf, Zenon
<1>6. \A i \in 1..m: Total(nodes, i) \in Int
  <2> TAKE i \in 1..m
  <2>1. \A k \in 1..n: mxHistory[nodes[k]][i][2] \in Int
    BY <1>1, <1>5, Zenon DEF Enumerates
  <2>2. n = Len(nodes)
    BY <1>1, Zenon DEF Enumerates
  <2> QED
    BY <2>1, <2>2, TotalOK, Zenon
<1>7. HistFor("__all__") = [i \in 1..m |-> <<mxHistory[x][i][1], Total(nodes, i)>>]
  BY <1>0, <1>3, <1>4, Zenon DEF HistFor
<1>8. PICK points: points = [i \in 1..m |-> <<mxHistory[x][i][1], Total(nodes, i)>>]
  OBVIOUS
<1>9. \A i \in 1..m: <<mxHistory[x][i][1], Total(nodes, i)>> \in Timed(Int)
  BY <1>5, <1>6, Zenon DEF Timed
<1>10. points \in [1..m -> Timed(Int)]
  BY <1>8, <1>9, Zenon
<1>11. points \in Seq(Timed(Int)) /\ Len(points) = m
  BY <1>10, FunctionIsSeq, Zenon
<1>12. \A i \in 1..m: points[i][1] = mxHistory[x][i][1]
  <2> TAKE i \in 1..m
  <2>1. points[i] = <<mxHistory[x][i][1], Total(nodes, i)>>
    BY <1>8, Zenon
  <2> QED
    BY <2>1
<1>13. InTime(points)
  <2> SUFFICES ASSUME NEW i \in 1..m, NEW j \in 1..m, i < j PROVE points[i][1] < points[j][1]
    BY <1>11, Zenon DEF InTime
  <2>1. mxHistory[x][i][1] < mxHistory[x][j][1]
    BY <1>5, Zenon DEF InTime
  <2> QED
    BY <1>12, <2>1, Zenon
<1> QED
  BY <1>7, <1>8, <1>11, <1>13, Zenon

LEMMA ChartsRunForwardOK ==
  ASSUME mxHistory \in [MxNode -> Seq(MxPoint)], \A x \in MxNode: InTime(mxHistory[x]),
         IsFiniteSet(OkNodes), OkNodes \subseteq MxNode,
         \A x \in OkNodes: EndWith(mxHistory[x], mxTime, mxData[x])
  PROVE  ChartsRunForward
<1> SUFFICES ASSUME MetricsView = "charts", NEW sel \in MxNode \cup {"__all__"}
             PROVE  /\ ChartTells(HistFor(sel))
                    /\ HistFor(sel) # <<>> /\ sel \in OkNodes =>
                         Last(HistFor(sel)) = <<mxTime, mxData[sel]>>
  BY Zenon DEF ChartsRunForward, ChartTells
<1>1. OkNodes # {}
  BY DEF MetricsView
<1>2. CASE sel = "__all__"
  <2>1. ChartTells(HistFor(sel))
    BY <1>1, <1>2, AllNodesOK, ChartOK, Zenon
  <2>2. sel \notin OkNodes
    BY <1>2, MetricsBounds
  <2> QED
    BY <2>1, <2>2, Zenon
<1>3. CASE sel # "__all__"
  <2>1. sel \in MxNode /\ HistFor(sel) = mxHistory[sel]
    BY <1>3, Zenon DEF HistFor
  <2>2. mxHistory[sel] \in Seq(Timed(Int))
    <3>1. mxHistory[sel] \in Seq(MxPoint)
      BY <2>1, Zenon
    <3> QED
      BY <3>1, PointsAreTimed, Zenon
  <2>3. ChartTells(mxHistory[sel])
    BY <2>1, <2>2, ChartOK, Zenon
  <2>4. sel \in OkNodes => Last(mxHistory[sel]) = <<mxTime, mxData[sel]>>
    BY Zenon DEF EndWith, Last
  <2> QED
    BY <2>1, <2>3, <2>4, Zenon
<1> QED
  BY <1>2, <1>3

\* The log of a node, whose counter is that or has grown since.
LogOK(log, first, last, counter, now) ==
  /\ log # <<>> => log[1].to = last /\ log[1].at <= now
  /\ \A i \in 1..(Len(log) - 1): log[i].from = log[i + 1].to /\ log[i].at > log[i + 1].at
  /\ Len(log) < MxEntries => first = IF log = <<>> THEN last ELSE log[Len(log)].from
  /\ last <= counter

\* An entry in front, and the last one goes if there are too many.
Entered(e, log) == SubSeq(<<e>> \o log, 1, Min({MxEntries, Len(<<e>> \o log)}))
Pushed(new, e, log, k, l) ==
  /\ k = Len(log) /\ l = Len(new) /\ new \in Seq(LeaderChange)
  /\ l = IF MxEntries < k + 1 THEN MxEntries ELSE k + 1
  /\ new[1] = e /\ \A i \in 1..l: i # 1 => i - 1 \in 1..k /\ new[i] = log[i - 1]

LEMMA EnteredOK ==
  ASSUME NEW log \in Seq(LeaderChange), NEW e \in LeaderChange
  PROVE  \E k, l \in Nat: Pushed(Entered(e, log), e, log, k, l)
<1>1. PICK k \in Nat: k = Len(log)
  BY LenProperties
<1>2. PICK all \in Seq(LeaderChange), n \in Nat:
        /\ all = <<e>> \o log /\ n = Len(all) /\ n = k + 1 /\ all[1] = e
        /\ \A i \in 1..n: i # 1 => all[i] = log[i - 1]
  <2>1. <<e>> \in Seq(LeaderChange) /\ Len(<<e>>) = 1 /\ <<e>>[1] = e
    BY OneLineOK
  <2>2. /\ <<e>> \o log \in Seq(LeaderChange) /\ Len(<<e>> \o log) = 1 + k
        /\ \A i \in 1..(1 + k): (<<e>> \o log)[i] = IF i <= 1 THEN <<e>>[i] ELSE log[i - 1]
    BY <1>1, <2>1, ConcatProperties
  <2>3. 1 + k = k + 1 /\ k + 1 \in Nat /\ 1 \in 1..(k + 1) /\ 1 <= 1
        /\ \A i \in 1..(k + 1): i # 1 => ~(i <= 1)
    OBVIOUS
  <2>4. (<<e>> \o log)[1] = e /\ \A i \in 1..(k + 1): i # 1 => (<<e>> \o log)[i] = log[i - 1]
    BY <2>1, <2>2, <2>3, Zenon
  <2> QED
    BY <2>2, <2>3, <2>4, Zenon
<1>3. PICK l \in 1..n: l = Min({MxEntries, n}) /\ l = IF MxEntries < k + 1 THEN MxEntries ELSE k + 1
  <2>1. MxEntries \in Int /\ MxEntries > 0 /\ n \in Int
    BY MetricsBounds
  <2>2. Min({MxEntries, n}) = IF MxEntries < n THEN MxEntries ELSE n
    BY <2>1, MaxMinOfTwo
  <2> QED
    BY <1>2, <2>1, <2>2
<1>4. Entered(e, log) = SubSeq(all, 1, l)
  BY <1>2, <1>3, Zenon DEF Entered
<1>5. \A i \in 1..l: i \in 1..n
  OBVIOUS
<1>6. \A i \in 1..l: all[i] \in LeaderChange
  <2>1. \A i \in 1..n: all[i] \in LeaderChange
    BY <1>2, ElementOfSeq
  <2> QED
    BY <1>5, <2>1, Zenon
<1>7. /\ SubSeq(all, 1, l) \in Seq(LeaderChange) /\ Len(SubSeq(all, 1, l)) = l
      /\ \A i \in 1..l: SubSeq(all, 1, l)[i] = all[i]
  <2>1. 1 \in Int /\ l \in Int /\ l - 1 + 1 = l /\ 1 <= l
    OBVIOUS
  <2>2. /\ SubSeq(all, 1, l) \in Seq(LeaderChange)
        /\ Len(SubSeq(all, 1, l)) = IF 1 <= l THEN l - 1 + 1 ELSE 0
        /\ \A i \in 1..(l - 1 + 1): SubSeq(all, 1, l)[i] = all[1 + i - 1]
    BY <1>6, <2>1, SubSeqProperties
  <2>3. \A i \in 1..l: 1 + i - 1 = i
    OBVIOUS
  <2> QED
    BY <2>1, <2>2, <2>3, Zenon
<1>8. \A i \in 1..l: i # 1 => i - 1 \in 1..k
  BY <1>2
<1>9. 1 \in 1..l /\ l \in Nat
  OBVIOUS
<1>10. SubSeq(all, 1, l)[1] = e
  BY <1>2, <1>7, <1>9, Zenon
<1>11. \A i \in 1..l: i # 1 => SubSeq(all, 1, l)[i] = log[i - 1]
  BY <1>2, <1>5, <1>7, Zenon
<1> QED
  <2>1. PICK new: new = SubSeq(all, 1, l)
    OBVIOUS
  <2>2. /\ Len(new) = l /\ new \in Seq(LeaderChange) /\ new[1] = e
        /\ \A i \in 1..l: i # 1 => new[i] = log[i - 1]
    BY <1>7, <1>10, <1>11, <2>1, Zenon
  <2>3. l = IF MxEntries < k + 1 THEN MxEntries ELSE k + 1
    BY <1>3, Zenon
  <2>4. \A i \in 1..l: i # 1 => i - 1 \in 1..k /\ new[i] = log[i - 1]
    BY <1>8, <2>2, Zenon
  <2>5. Pushed(new, e, log, k, l)
    BY <1>1, <2>2, <2>3, <2>4, Zenon DEF Pushed
  <2> QED
    BY <1>4, <1>9, <2>1, <2>5, Zenon

\* What a poll makes of the log of a node that tells its counter.
LogAfter(log, e, last, seen, value, at) ==
  IF last # NoSample /\ value > last
    THEN LogOK(Entered(e, log), seen, value, value, at)
    ELSE LogOK(log, seen, value, value, at)

LEMMA LogAfterOK ==
  ASSUME NEW log \in Seq(LeaderChange), NEW first \in MxSample, NEW last \in MxSample,
         NEW value \in 0..MaxCount, NEW now \in 0..MaxPolls, NEW at \in 1..MaxPolls, at = now + 1,
         LogOK(log, first, last, value, now), Len(log) <= MxEntries,
         NEW seen, seen = IF first = NoSample THEN value ELSE first,
         NEW e, e = [at |-> at, from |-> last, to |-> value]
  PROVE  LogAfter(log, e, last, seen, value, at)
<1>0. /\ first \in Int /\ last \in Int /\ value \in Int /\ value >= 0 /\ now \in Int
      /\ at \in Int /\ now <= at /\ now < at /\ value <= value /\ MxEntries \in Nat \ {0}
      /\ first # NoSample => seen = first
      /\ first = NoSample => seen = value
  BY MetricsBounds DEF MxSample, NoSample
<1>1. PICK k \in Nat: k = Len(log)
  BY LenProperties
<1>2. \A i \in 1..k: /\ log[i] \in LeaderChange /\ log[i].at \in Int /\ log[i].from \in Int
                     /\ log[i].to \in Int /\ log[i].from >= 0 /\ log[i].to >= 0
  <2>1. \A i \in 1..k: log[i] \in LeaderChange
    BY <1>1, ElementOfSeq
  <2> QED
    BY <2>1, ChangeParts, Zenon
<1>3. NoSample = -1 /\ \A x \in Int: x >= 0 => x # NoSample
  BY DEF NoSample
<1>4. log = <<>> \/ (log # <<>> /\ k # 0 /\ 1 \in 1..k /\ k \in 1..k)
  <2>1. log # <<>> => k \in Nat \ {0}
    BY <1>1, EmptySeq
  <2> QED
    BY <2>1
<1>5. /\ log # <<>> => log[1].to = last /\ log[1].at <= now
      /\ \A i \in 1..(k - 1): log[i].from = log[i + 1].to /\ log[i].at > log[i + 1].at
      /\ k < MxEntries => first = IF log = <<>> THEN last ELSE log[k].from
      /\ last <= value
  BY <1>1, Zenon DEF LogOK
<1>6. log # <<>> => log[1].at <= at /\ log[1].at < at
  <2> SUFFICES ASSUME log # <<>> PROVE log[1].at <= at /\ log[1].at < at
    OBVIOUS
  <2>1. PICK t \in Int: t = log[1].at
    BY <1>2, <1>4, Zenon
  <2>2. t <= now
    BY <1>5, <2>1, Zenon
  <2>3. t <= at /\ t < at
    BY <1>0, <2>2
  <2> QED
    BY <2>1, <2>3, Zenon
<1>7. CASE last = NoSample
  <2>1. log = <<>>
    <3> SUFFICES ASSUME log # <<>> PROVE FALSE
      OBVIOUS
    <3>1. log[1].to = last /\ log[1].to \in Int /\ log[1].to >= 0
      BY <1>2, <1>4, <1>5, Zenon
    <3> QED
      BY <1>3, <1>7, <3>1, Zenon
  <2>2. k = 0 /\ Len(log) = 0
    BY <1>1, <2>1, EmptySeq
  <2>3. 0 < MxEntries
    BY <1>0
  <2>4. first = NoSample /\ seen = value
    BY <1>0, <1>5, <1>7, <2>1, <2>2, <2>3, Zenon
  <2>5. 1..(0 - 1) = {}
    OBVIOUS
  <2> QED
    BY <1>0, <1>7, <2>1, <2>2, <2>4, <2>5, Zenon DEF LogOK, LogAfter
<1>8. CASE last # NoSample /\ ~(value > last)
  <2>1. value = last
    BY <1>0, <1>5, <1>8
  <2>2. k < MxEntries => first # NoSample
    BY <1>2, <1>3, <1>4, <1>5, <1>8, Zenon
  <2>3. k < MxEntries => seen = IF log = <<>> THEN value ELSE log[k].from
    BY <1>0, <1>5, <2>1, <2>2, Zenon
  <2> QED
    BY <1>0, <1>1, <1>5, <1>6, <1>8, <2>1, <2>3, Zenon DEF LogOK, LogAfter
<1>9. CASE last # NoSample /\ value > last
  <2>1. e \in LeaderChange /\ e.at = at /\ e.from = last /\ e.to = value
    <3>1. last \in 0..MaxCount
      BY <1>9 DEF MxSample, NoSample
    <3> QED
      BY <3>1 DEF LeaderChange
  <2>2. PICK new: new = Entered(e, log)
    OBVIOUS
  <2>3. PICK a \in Nat, l \in Nat: Pushed(new, e, log, a, l)
    BY <2>1, <2>2, EnteredOK, Zenon
  <2>4. /\ l = Len(new) /\ l = (IF MxEntries < k + 1 THEN MxEntries ELSE k + 1)
        /\ new \in Seq(LeaderChange) /\ new[1] = e
        /\ \A i \in 1..l: i # 1 => i - 1 \in 1..k /\ new[i] = log[i - 1]
    BY <1>1, <2>3, Zenon DEF Pushed
  <2>5. l \in 1..l
    <3>1. l = IF MxEntries < k + 1 THEN MxEntries ELSE k + 1
      BY <2>4, Zenon
    <3> QED
      BY <1>0, <3>1
  <2>6. new # <<>>
    <3>1. l # 0
      BY <2>5
    <3>2. Len(new) = l
      BY <2>4, Zenon
    <3> QED
      BY <3>1, <3>2, EmptySeq
  <2>7. ASSUME NEW i \in 1..(l - 1)
        PROVE  new[i].from = new[i + 1].to /\ new[i].at > new[i + 1].at
    <3>1. i \in 1..l /\ i + 1 \in 1..l /\ i + 1 # 1 /\ (i + 1) - 1 = i
      OBVIOUS
    <3>2. new[i + 1] = log[i] /\ i \in 1..k
      BY <2>4, <3>1, Zenon
    <3>3. CASE i = 1
      <4>1. log # <<>>
        BY <1>1, <3>2, EmptySeq
      <4>2. PICK t \in Int: t = log[1].at
        BY <1>2, <3>2, <3>3, Zenon
      <4>3. t < at
        BY <1>6, <4>1, <4>2, Zenon
      <4>4. at > t
        BY <1>0, <4>3
      <4>5. log[1].to = last
        BY <1>5, <4>1, Zenon
      <4> QED
        BY <2>1, <2>4, <3>2, <3>3, <4>2, <4>4, <4>5, Zenon
    <3>4. CASE i # 1
      <4>1. i - 1 \in 1..k /\ new[i] = log[i - 1]
        BY <2>4, <3>1, <3>4, Zenon
      <4>2. i - 1 \in 1..(k - 1) /\ (i - 1) + 1 = i
        BY <3>2, <3>4
      <4>3. log[i - 1].from = log[i].to /\ log[i - 1].at > log[i].at
        BY <1>5, <4>2, Zenon
      <4> QED
        BY <3>2, <4>1, <4>3, Zenon
    <3> QED
      BY <3>3, <3>4
  <2>8. ASSUME l < MxEntries PROVE seen = new[l].from
    <3>1. l = k + 1 /\ k < MxEntries
      BY <1>0, <2>4, <2>8
    <3>2. first = IF log = <<>> THEN last ELSE log[k].from
      BY <1>5, <3>1, Zenon
    <3>3. first # NoSample
      BY <1>2, <1>3, <1>4, <1>9, <3>2, Zenon
    <3>4. seen = first
      BY <1>0, <3>3, Zenon
    <3>5. CASE log = <<>>
      <4>1. k = 0 /\ l = 1
        BY <1>1, <3>1, <3>5, EmptySeq
      <4> QED
        BY <2>1, <2>4, <3>2, <3>4, <3>5, <4>1, Zenon
    <3>6. CASE log # <<>>
      <4>1. k # 0
        BY <1>4, <3>6
      <4>2. l # 1 /\ l - 1 = k
        BY <3>1, <4>1
      <4>3. new[l] = log[k]
        BY <2>4, <2>5, <4>2, Zenon
      <4> QED
        BY <3>2, <3>4, <3>6, <4>3, Zenon
    <3> QED
      BY <3>5, <3>6
  <2>9. new[1].to = value /\ new[1].at <= at
    <3>1. at <= at
      BY <1>0
    <3> QED
      BY <2>1, <2>4, <3>1, Zenon
  <2>10. LogOK(new, seen, value, value, at)
    BY <1>0, <2>4, <2>6, <2>7, <2>8, <2>9, Zenon DEF LogOK
  <2> QED
    BY <1>9, <2>2, <2>10, Zenon DEF LogAfter
<1> QED
  BY <1>7, <1>8, <1>9

\* What is kept of a node.
NodeOK(h, log, first, last, counter, new, now) ==
  /\ PointsOK(h, now) /\ Len(log) <= MxEntries
  /\ new \/ LogOK(log, first, last, counter, now)
MetricsTypes ==
  /\ mxCounter \in [MxNode -> 0..MaxCount] /\ mxNew \subseteq MxNode
  /\ mxTime \in 0..MaxPolls /\ mxQuery \in {"loading", "failed", "data"}
  /\ DOMAIN mxData \subseteq MxNode /\ \A n \in DOMAIN mxData: mxData[n] \in MxSample
  /\ mxLast \in [MxNode -> MxSample] /\ mxFirst \in [MxNode -> MxSample]
  /\ mxHistory \in [MxNode -> Seq(MxPoint)] /\ mxLog \in [MxNode -> Seq(LeaderChange)]
  /\ mxDisk \subseteq 0..MaxPolls
NodesOK ==
  \A n \in MxNode: NodeOK(mxHistory[n], mxLog[n], mxFirst[n], mxLast[n], mxCounter[n],
                          n \in mxNew, mxTime)
NowOK == \A n \in OkNodes: EndWith(mxHistory[n], mxTime, mxData[n])
MetricsInv == MetricsTypes /\ NodesOK /\ NowOK

LEMMA MetricsHolds == ASSUME MetricsInv PROVE MetricsTypeOK /\ MetricsTell
<1>1. MetricsTypes
  BY DEF MetricsInv
<1>2. ASSUME NEW n \in MxNode
      PROVE  /\ mxHistory[n] \in Seq(MxPoint) /\ mxLog[n] \in Seq(LeaderChange)
             /\ PointsOK(mxHistory[n], mxTime) /\ Len(mxLog[n]) <= MxEntries
             /\ n \in mxNew \/ LogOK(mxLog[n], mxFirst[n], mxLast[n], mxCounter[n], mxTime)
  <2>1. mxHistory[n] \in Seq(MxPoint) /\ mxLog[n] \in Seq(LeaderChange)
    BY <1>1, Zenon DEF MetricsTypes
  <2> QED
    BY <2>1, Zenon DEF MetricsInv, NodesOK, NodeOK
<1>3. ASSUME NEW n \in MxNode
      PROVE  /\ Len(mxHistory[n]) <= MxPoints /\ Len(mxLog[n]) <= MxEntries
             /\ \A i \in 1..Len(mxHistory[n]): mxHistory[n][i] \in (1..MaxPolls) \X (0..MaxCount)
             /\ \A i \in 1..Len(mxLog[n]): mxLog[n][i] \in LeaderChange
  <2>1. Len(mxHistory[n]) <= MxPoints /\ Len(mxLog[n]) <= MxEntries
    BY <1>2, Zenon DEF PointsOK
  <2>2. \A i \in 1..Len(mxHistory[n]): mxHistory[n][i] \in MxPoint
    BY <1>2, ElementOfSeq
  <2>3. \A i \in 1..Len(mxLog[n]): mxLog[n][i] \in LeaderChange
    BY <1>2, ElementOfSeq
  <2> QED
    BY <2>1, <2>2, <2>3, Zenon DEF MxPoint
<1>4. MetricsTypeOK
  <2>1. {mxLast, mxFirst} \subseteq [MxNode -> MxSample]
    BY <1>1, Zenon DEF MetricsTypes
  <2> QED
    BY <1>1, <1>3, <2>1, Zenon DEF MetricsTypes, MetricsTypeOK
<1>5. OkNodes \subseteq MxNode /\ IsFiniteSet(OkNodes)
  <2>1. OkNodes \subseteq MxNode
    BY <1>1, Zenon DEF MetricsTypes, OkNodes, Told
  <2> QED
    BY <2>1, MetricsBounds, FS_Subset
<1>6. LogAccountsForTheCounter
  <2> SUFFICES ASSUME NEW n \in MxNode \ mxNew, NEW log, log = mxLog[n]
               PROVE  /\ log # <<>> => log[1].to = mxLast[n]
                      /\ \A i \in 1..(Len(log) - 1): log[i].from = log[i + 1].to
                                                     /\ log[i].at > log[i + 1].at
                      /\ Len(log) < MxEntries =>
                           mxFirst[n] = IF log = <<>> THEN mxLast[n] ELSE Last(log).from
    BY Zenon DEF LogAccountsForTheCounter
  <2>1. LogOK(log, mxFirst[n], mxLast[n], mxCounter[n], mxTime)
    BY <1>2, Zenon
  <2> QED
    BY <2>1, Zenon DEF LogOK, Last
<1>7. ChangesAreListed
  <2>1. mxDisk \subseteq Int /\ mxLog \in [MxNode -> Seq(LeaderChange)]
    BY <1>1 DEF MetricsTypes
  <2>2. IsFiniteSet(mxDisk)
    <3>1. 0 \in Int /\ MaxPolls \in Int /\ mxDisk \in SUBSET (0..MaxPolls)
      BY <1>1, MetricsBounds DEF MetricsTypes
    <3> QED
      BY <3>1, FS_Interval, FS_Subset
  <2> QED
    BY <1>5, <2>1, <2>2, ChangesAreListedOK, Zenon
<1>8. ChartsRunForward
  <2>1. \A x \in MxNode: InTime(mxHistory[x])
    BY <1>2, Zenon DEF PointsOK
  <2>2. mxHistory \in [MxNode -> Seq(MxPoint)]
    BY <1>1, Zenon DEF MetricsTypes
  <2>3. \A x \in OkNodes: EndWith(mxHistory[x], mxTime, mxData[x])
    BY Zenon DEF MetricsInv, NowOK
  <2> QED
    BY <1>5, <2>1, <2>2, <2>3, ChartsRunForwardOK, Zenon
<1> QED
  BY <1>4, <1>6, <1>7, <1>8, Zenon DEF MetricsTell

\* Time passes, and the counter grows.
LEMMA NodeStays ==
  ASSUME NEW h \in Seq(MxPoint), NEW log \in Seq(LeaderChange), NEW first, NEW last \in MxSample,
         NEW counter \in Int, NEW more \in Int, counter <= more,
         NEW new, NEW now \in Int, NEW at \in Int, now <= at,
         NodeOK(h, log, first, last, counter, new, now)
  PROVE  NodeOK(h, log, first, last, more, new, at)
<1>1. \A t \in Int: t <= now => t <= at
  OBVIOUS
<1>2. PointsOK(h, at)
  <2>1. PointsOK(h, now)
    BY Zenon DEF NodeOK
  <2>2. \A i \in 1..Len(h): h[i][1] <= at
    BY <1>1, <2>1, PointParts, Zenon DEF PointsOK
  <2> QED
    BY <2>1, <2>2, Zenon DEF PointsOK
<1>3. ASSUME LogOK(log, first, last, counter, now) PROVE LogOK(log, first, last, more, at)
  <2>1. last <= counter
    BY <1>3, Zenon DEF LogOK
  <2>2. last \in Int
    BY MetricsBounds DEF MxSample, NoSample
  <2>3. last <= more
    BY <2>1, <2>2
  <2>4. log # <<>> => log[1].at <= at
    <3> SUFFICES ASSUME log # <<>> PROVE log[1].at <= at
      OBVIOUS
    <3>1. PICK k \in Nat \ {0}: k = Len(log)
      BY EmptySeq
    <3>2. 1 \in 1..k
      OBVIOUS
    <3>3. log[1] \in LeaderChange
      BY <3>1, <3>2, ElementOfSeq
    <3>4. log[1].at \in Int
      BY <3>3, ChangeParts, Zenon
    <3> QED
      BY <1>1, <1>3, <3>4, Zenon DEF LogOK
  <2> QED
    BY <1>3, <2>3, <2>4, Zenon DEF LogOK
<1> QED
  BY <1>2, <1>3, Zenon DEF NodeOK

\* A poll tells the counters of some nodes.
LEMMA PolledOK ==
  ASSUME MetricsInv, NEW listed \in SUBSET MxNode, NEW told \in SUBSET listed, Polled(listed, told)
  PROVE  MetricsInv'
<1>1. MetricsTypes
  BY DEF MetricsInv
<1>2. PICK data: data = [n \in listed |-> IF n \in told THEN mxCounter[n] ELSE NoSample]
  OBVIOUS
<1>3. /\ mxTime < MaxPolls /\ mxTime' = mxTime + 1 /\ mxQuery' = "data" /\ mxData' = data
      /\ KeepPoints(data) /\ KeepChanges(data) /\ LastSeen(data)
      /\ mxFirst' = [n \in MxNode |-> IF n \in Told(data) /\ mxFirst[n] = NoSample THEN data[n]
                                      ELSE mxFirst[n]]
      /\ UNCHANGED <<mxCounter, mxNew, mxDisk>>
  BY <1>2 DEF Polled
<1>4. PICK now \in 0..MaxPolls, at \in 1..MaxPolls: now = mxTime /\ at = mxTime' /\ at = now + 1
  BY <1>1, <1>3, MetricsBounds DEF MetricsTypes
<1>5. now \in Int /\ at \in Int /\ now <= at /\ now < at
  BY <1>4, MetricsBounds
<1>6. \A n \in MxNode: mxCounter[n] \in 0..MaxCount /\ mxCounter[n] \in Int /\ mxCounter[n] >= 0
  BY <1>1, MetricsBounds DEF MetricsTypes
<1>7. /\ DOMAIN data = listed /\ \A n \in told: data[n] = mxCounter[n]
      /\ \A n \in listed \ told: data[n] = NoSample
  BY <1>2
<1>8. NoSample \in MxSample /\ 0..MaxCount \subseteq MxSample
      /\ \A x \in Int: x >= 0 => x # NoSample
  BY MetricsBounds DEF MxSample, NoSample
<1>9. Told(data) = told
  <2>1. \A n \in told: data[n] # NoSample
    BY <1>6, <1>7, <1>8, Zenon
  <2> QED
    BY <1>7, <2>1, Zenon DEF Told
<1>10. ASSUME NEW n \in MxNode
       PROVE  /\ mxHistory[n] \in Seq(MxPoint) /\ mxLog[n] \in Seq(LeaderChange)
              /\ mxFirst[n] \in MxSample /\ mxLast[n] \in MxSample
              /\ NodeOK(mxHistory[n], mxLog[n], mxFirst[n], mxLast[n], mxCounter[n],
                        n \in mxNew, now)
  <2>1. mxHistory[n] \in Seq(MxPoint) /\ mxLog[n] \in Seq(LeaderChange)
    BY <1>1, Zenon DEF MetricsTypes
  <2>2. mxFirst[n] \in MxSample /\ mxLast[n] \in MxSample
    BY <1>1, Zenon DEF MetricsTypes
  <2> QED
    BY <1>4, <2>1, <2>2, Zenon DEF MetricsInv, NodesOK
<1>11. ASSUME NEW n \in told
       PROVE  /\ mxHistory'[n] = Points(Append(mxHistory[n], <<at, mxCounter[n]>>))
              /\ mxLast'[n] = mxCounter[n]
              /\ mxFirst'[n] = (IF mxFirst[n] = NoSample THEN mxCounter[n] ELSE mxFirst[n])
              /\ mxLog'[n] = IF mxLast[n] # NoSample /\ mxCounter[n] > mxLast[n]
                               THEN Entered([at |-> at, from |-> mxLast[n], to |-> mxCounter[n]],
                                            mxLog[n])
                               ELSE mxLog[n]
  <2>1. n \in MxNode /\ n \in Told(data) /\ data[n] = mxCounter[n]
    BY <1>7, <1>9, Zenon
  <2>2. mxHistory'[n] = Points(Append(mxHistory[n], <<at, mxCounter[n]>>))
    BY <1>3, <1>4, <2>1, Zenon DEF KeepPoints, Points
  <2>3. mxLast'[n] = mxCounter[n]
    BY <1>3, <2>1, Zenon DEF LastSeen
  <2>4. mxFirst'[n] = IF mxFirst[n] = NoSample THEN mxCounter[n] ELSE mxFirst[n]
    BY <1>3, <2>1, Zenon
  <2>5. mxLog'[n] = IF mxLast[n] # NoSample /\ mxCounter[n] > mxLast[n]
                      THEN Entered([at |-> at, from |-> mxLast[n], to |-> mxCounter[n]], mxLog[n])
                      ELSE mxLog[n]
    BY <1>3, <1>4, <2>1, Zenon DEF KeepChanges, Entered
  <2> QED
    BY <2>2, <2>3, <2>4, <2>5
<1>12. ASSUME NEW n \in MxNode \ told
       PROVE  /\ mxHistory'[n] = mxHistory[n] /\ mxLast'[n] = mxLast[n]
              /\ mxFirst'[n] = mxFirst[n] /\ mxLog'[n] = mxLog[n]
  BY <1>3, <1>9, Zenon DEF KeepPoints, LastSeen, KeepChanges
<1>13. ASSUME NEW n \in told
       PROVE  /\ mxHistory'[n] \in Seq(MxPoint) /\ mxLog'[n] \in Seq(LeaderChange)
              /\ mxFirst'[n] \in MxSample /\ mxLast'[n] \in MxSample
              /\ NodeOK(mxHistory'[n], mxLog'[n], mxFirst'[n], mxLast'[n], mxCounter[n],
                        n \in mxNew, at)
              /\ EndWith(mxHistory'[n], at, mxCounter[n])
  <2>0. n \in MxNode
    OBVIOUS
  <2>1. PICK h \in Seq(MxPoint), log \in Seq(LeaderChange), first \in MxSample, last \in MxSample,
             value \in 0..MaxCount:
          /\ h = mxHistory[n] /\ log = mxLog[n] /\ first = mxFirst[n] /\ last = mxLast[n]
          /\ value = mxCounter[n]
    BY <1>6, <1>10, <2>0, Zenon
  <2>2. NodeOK(h, log, first, last, value, n \in mxNew, now)
    BY <1>10, <2>0, <2>1, Zenon
  <2>3. InTime(h) /\ \A i \in 1..Len(h): h[i][1] < at
    <3>1. PointsOK(h, now)
      BY <2>2, Zenon DEF NodeOK
    <3>2. \A t \in Int: t <= now => t < at
      BY <1>5
    <3> QED
      BY <3>1, <3>2, PointParts, Zenon DEF PointsOK
  <2>4. PICK all: all = Points(Append(h, <<at, value>>))
    OBVIOUS
  <2>5. all \in Seq(MxPoint) /\ PointsOK(all, at) /\ EndWith(all, at, value)
    BY <2>3, <2>4, OnePointMore, Zenon
  <2>6. mxHistory'[n] = all /\ mxLast'[n] = value
        /\ mxFirst'[n] = (IF first = NoSample THEN value ELSE first)
    BY <1>11, <2>1, <2>4, Zenon
  <2>7. PICK e: e = [at |-> at, from |-> last, to |-> value]
    OBVIOUS
  <2>8. mxLog'[n] = IF last # NoSample /\ value > last THEN Entered(e, log) ELSE log
    BY <1>11, <2>1, <2>7, Zenon
  <2>9. Len(log) <= MxEntries
    BY <2>2, Zenon DEF NodeOK
  <2>10. mxLog'[n] \in Seq(LeaderChange) /\ Len(mxLog'[n]) <= MxEntries
    <3>1. CASE last # NoSample /\ value > last
      <4>1. last \in 0..MaxCount
        BY <3>1 DEF MxSample, NoSample
      <4>2. e \in LeaderChange
        BY <2>7, <4>1 DEF LeaderChange
      <4>3. PICK k \in Nat, l \in Nat: Pushed(Entered(e, log), e, log, k, l)
        BY <4>2, EnteredOK, Zenon
      <4>4. /\ Entered(e, log) \in Seq(LeaderChange) /\ l = Len(Entered(e, log))
            /\ l = IF MxEntries < k + 1 THEN MxEntries ELSE k + 1
        BY <4>3, Zenon DEF Pushed
      <4>5. l <= MxEntries
        <5>1. l = IF MxEntries < k + 1 THEN MxEntries ELSE k + 1
          BY <4>4, Zenon
        <5> QED
          BY <5>1, MetricsBounds
      <4> QED
        BY <2>8, <3>1, <4>4, <4>5, Zenon
    <3>2. CASE ~(last # NoSample /\ value > last)
      BY <2>8, <2>9, <3>2, Zenon
    <3> QED
      BY <3>1, <3>2
  <2>11. ASSUME LogOK(log, first, last, value, now)
         PROVE  LogOK(mxLog'[n], mxFirst'[n], value, value, at)
    <3>1. PICK seen: seen = IF first = NoSample THEN value ELSE first
      OBVIOUS
    <3>2. LogAfter(log, e, last, seen, value, at)
      BY <1>4, <2>7, <2>9, <2>11, <3>1, LogAfterOK, Zenon
    <3> QED
      BY <2>6, <2>8, <3>1, <3>2, Zenon DEF LogAfter
  <2>12. mxFirst'[n] \in MxSample /\ mxLast'[n] \in MxSample
    BY <1>8, <2>6, Zenon
  <2>13. NodeOK(mxHistory'[n], mxLog'[n], mxFirst'[n], mxLast'[n], value, n \in mxNew, at)
    BY <2>2, <2>5, <2>6, <2>10, <2>11, Zenon DEF NodeOK
  <2> QED
    BY <2>1, <2>5, <2>6, <2>10, <2>12, <2>13, Zenon
<1>14. ASSUME NEW n \in MxNode \ told
       PROVE  NodeOK(mxHistory'[n], mxLog'[n], mxFirst'[n], mxLast'[n], mxCounter[n],
                     n \in mxNew, at)
  <2>0. n \in MxNode
    OBVIOUS
  <2>1. PICK c \in Int: c = mxCounter[n] /\ c <= c
    BY <1>6, <2>0
  <2>2. NodeOK(mxHistory[n], mxLog[n], mxFirst[n], mxLast[n], c, n \in mxNew, at)
    BY <1>5, <1>10, <2>0, <2>1, NodeStays, Zenon
  <2> QED
    BY <1>12, <2>1, <2>2, Zenon
<1>15. MetricsTypes'
  <2>1. /\ mxHistory' \in [MxNode -> Seq(MxPoint)] /\ mxLog' \in [MxNode -> Seq(LeaderChange)]
        /\ mxLast' \in [MxNode -> MxSample] /\ mxFirst' \in [MxNode -> MxSample]
    <3>1. ASSUME NEW n \in MxNode
          PROVE  /\ mxHistory'[n] \in Seq(MxPoint) /\ mxLog'[n] \in Seq(LeaderChange)
                 /\ mxFirst'[n] \in MxSample /\ mxLast'[n] \in MxSample
      <4>1. CASE n \in told
        BY <1>13, <4>1, Zenon
      <4>2. CASE n \notin told
        BY <1>10, <1>12, <4>2, Zenon
      <4> QED
        BY <4>1, <4>2
    <3>2. /\ mxHistory' = [n \in MxNode |-> mxHistory'[n]]
          /\ mxLog' = [n \in MxNode |-> mxLog'[n]]
          /\ mxLast' = [n \in MxNode |-> mxLast'[n]]
          /\ mxFirst' = [n \in MxNode |-> mxFirst'[n]]
      BY <1>3 DEF KeepPoints, KeepChanges, LastSeen
    <3> QED
      BY <3>1, <3>2, Zenon
  <2>2. DOMAIN mxData' \subseteq MxNode /\ \A n \in DOMAIN mxData': mxData'[n] \in MxSample
    BY <1>3, <1>6, <1>7, <1>8, Zenon
  <2>3. mxTime' \in 0..MaxPolls
    BY <1>4, MetricsBounds
  <2> QED
    BY <1>1, <1>3, <2>1, <2>2, <2>3, Zenon DEF MetricsTypes
<1>16. NodesOK'
  <2>1. ASSUME NEW n \in MxNode
        PROVE  NodeOK(mxHistory'[n], mxLog'[n], mxFirst'[n], mxLast'[n], mxCounter'[n],
                      n \in mxNew', mxTime')
    <3>1. CASE n \in told
      BY <1>3, <1>4, <1>13, <3>1, Zenon
    <3>2. CASE n \notin told
      BY <1>3, <1>4, <1>14, <3>2, Zenon
    <3> QED
      BY <3>1, <3>2
  <2> QED
    BY <2>1, Zenon DEF NodesOK
<1>17. NowOK'
  <2>1. ASSUME NEW n \in told PROVE EndWith(mxHistory'[n], mxTime', mxData'[n])
    BY <1>3, <1>4, <1>7, <1>13, Zenon
  <2>2. OkNodes' = told
    BY <1>3, <1>9, Zenon DEF OkNodes, Told
  <2> QED
    BY <2>1, <2>2, Zenon DEF NowOK
<1> QED
  BY <1>15, <1>16, <1>17, Zenon DEF MetricsInv

LEMMA MetricsInitOK == ASSUME MetricsInit PROVE MetricsInv
<1>1. /\ mxCounter = [n \in MxNode |-> 0] /\ mxNew = {} /\ mxTime = 0 /\ mxQuery = "loading"
      /\ mxData = [n \in {} |-> NoSample] /\ mxHistory = [n \in MxNode |-> <<>>]
      /\ mxLog = [n \in MxNode |-> <<>>] /\ mxDisk = {}
      /\ mxLast = [n \in MxNode |-> NoSample] /\ mxFirst = [n \in MxNode |-> NoSample]
  BY DEF MetricsInit
<1>2. /\ 0 \in 0..MaxCount /\ 0 \in 0..MaxPolls /\ NoSample \in MxSample /\ NoSample <= 0
      /\ 0 < MxEntries /\ 0 <= MxEntries /\ 0 <= MxPoints
  BY MetricsBounds DEF NoSample, MxSample
<1>3. MetricsTypes
  <2>1. /\ mxHistory \in [MxNode -> Seq(MxPoint)] /\ mxLog \in [MxNode -> Seq(LeaderChange)]
    <3>1. <<>> \in Seq(MxPoint) /\ <<>> \in Seq(LeaderChange)
      BY EmptySeq
    <3> QED
      BY <1>1, <3>1
  <2>2. /\ mxCounter \in [MxNode -> 0..MaxCount] /\ mxLast \in [MxNode -> MxSample]
        /\ mxFirst \in [MxNode -> MxSample]
    BY <1>1, <1>2
  <2>3. DOMAIN mxData = {}
    BY <1>1
  <2> QED
    BY <1>1, <1>2, <2>1, <2>2, <2>3, Zenon DEF MetricsTypes
<1>4. Len(<<>>) = 0 /\ 1..0 = {} /\ 1..(0 - 1) = {}
  OBVIOUS
<1>5. NodesOK
  <2>1. PointsOK(<<>>, 0)
    <3>1. InTime(<<>>)
      BY DEF InTime
    <3> QED
      BY <1>2, <1>4, <3>1, Zenon DEF PointsOK
  <2>2. LogOK(<<>>, NoSample, NoSample, 0, 0)
    BY <1>2, <1>4, Zenon DEF LogOK
  <2>3. \A new: NodeOK(<<>>, <<>>, NoSample, NoSample, 0, new, 0)
    BY <1>2, <1>4, <2>1, <2>2, Zenon DEF NodeOK
  <2>4. ASSUME NEW n \in MxNode
        PROVE  /\ mxHistory[n] = <<>> /\ mxLog[n] = <<>> /\ mxFirst[n] = NoSample
               /\ mxLast[n] = NoSample /\ mxCounter[n] = 0
    BY <1>1, Zenon
  <2> QED
    BY <1>1, <2>3, <2>4, Zenon DEF NodesOK
<1>6. OkNodes = {}
  <2>1. DOMAIN mxData = {}
    BY <1>1
  <2> QED
    BY <2>1, Zenon DEF OkNodes, Told
<1> QED
  BY <1>3, <1>5, <1>6, Zenon DEF MetricsInv, NowOK

LEMMA LeaderChangesOK == ASSUME MetricsInv, LeaderChanges PROVE MetricsInv'
<1>1. MetricsTypes
  BY DEF MetricsInv
<1>2. /\ \A n \in MxNode: mxCounter[n] < MaxCount
      /\ mxCounter' = [n \in MxNode |-> mxCounter[n] + 1]
      /\ mxDisk' \in {mxDisk, mxDisk \cup {mxTime}}
      /\ mxNew' = mxNew /\ mxTime' = mxTime /\ mxQuery' = mxQuery /\ mxData' = mxData
      /\ mxHistory' = mxHistory /\ mxLog' = mxLog /\ mxLast' = mxLast /\ mxFirst' = mxFirst
  BY DEF LeaderChanges
<1>3. ASSUME NEW n \in MxNode
      PROVE  /\ mxCounter[n] \in Int /\ mxCounter'[n] \in Int /\ mxCounter[n] <= mxCounter'[n]
             /\ mxCounter'[n] \in 0..MaxCount
  <2>1. mxCounter[n] \in 0..MaxCount /\ mxCounter[n] < MaxCount
    BY <1>1, <1>2, Zenon DEF MetricsTypes
  <2>2. mxCounter'[n] = mxCounter[n] + 1
    BY <1>2, Zenon
  <2> QED
    BY <2>1, <2>2, MetricsBounds
<1>4. MetricsTypes'
  <2>1. mxCounter' \in [MxNode -> 0..MaxCount]
    <3>1. mxCounter' = [n \in MxNode |-> mxCounter'[n]]
      BY <1>2
    <3> QED
      BY <1>3, <3>1, Zenon
  <2>2. mxDisk' \subseteq 0..MaxPolls
    BY <1>1, <1>2, Zenon DEF MetricsTypes
  <2> QED
    BY <1>1, <1>2, <2>1, <2>2, Zenon DEF MetricsTypes
<1>5. mxTime \in Int /\ mxTime <= mxTime
  BY <1>1, MetricsBounds DEF MetricsTypes
<1>6. ASSUME NEW n \in MxNode
      PROVE  NodeOK(mxHistory'[n], mxLog'[n], mxFirst'[n], mxLast'[n], mxCounter'[n],
                    n \in mxNew', mxTime')
  <2>1. /\ mxHistory[n] \in Seq(MxPoint) /\ mxLog[n] \in Seq(LeaderChange)
        /\ mxFirst[n] \in MxSample /\ mxLast[n] \in MxSample
    BY <1>1, Zenon DEF MetricsTypes
  <2>2. NodeOK(mxHistory[n], mxLog[n], mxFirst[n], mxLast[n], mxCounter[n], n \in mxNew, mxTime)
    BY Zenon DEF MetricsInv, NodesOK
  <2>3. NodeOK(mxHistory[n], mxLog[n], mxFirst[n], mxLast[n], mxCounter'[n], n \in mxNew, mxTime)
    BY <1>3, <1>5, <2>1, <2>2, NodeStays, Zenon
  <2> QED
    BY <1>2, <2>3, Zenon
<1>7. NowOK'
  BY <1>2, Zenon DEF MetricsInv, NowOK, OkNodes
<1> QED
  BY <1>4, <1>6, <1>7, Zenon DEF MetricsInv, NodesOK

LEMMA NodeStartsOK == ASSUME MetricsInv, NEW s \in MxNode, NodeStarts(s) PROVE MetricsInv'
<1>1. MetricsTypes
  BY DEF MetricsInv
<1>2. /\ mxCounter' = [mxCounter EXCEPT ![s] = 0] /\ mxNew' = mxNew \cup {s}
      /\ mxTime' = mxTime /\ mxQuery' = mxQuery /\ mxData' = mxData /\ mxDisk' = mxDisk
      /\ mxHistory' = mxHistory /\ mxLog' = mxLog /\ mxLast' = mxLast /\ mxFirst' = mxFirst
  BY DEF NodeStarts
<1>3. 0 \in 0..MaxCount
  BY MetricsBounds
<1>4. mxCounter' \in [MxNode -> 0..MaxCount]
      /\ \A n \in MxNode: n # s => mxCounter'[n] = mxCounter[n]
  BY <1>1, <1>2, <1>3, Zenon DEF MetricsTypes
<1>5. MetricsTypes'
  BY <1>1, <1>2, <1>4, Zenon DEF MetricsTypes
<1>6. ASSUME NEW n \in MxNode
      PROVE  NodeOK(mxHistory'[n], mxLog'[n], mxFirst'[n], mxLast'[n], mxCounter'[n],
                    n \in mxNew', mxTime')
  <2>1. NodeOK(mxHistory[n], mxLog[n], mxFirst[n], mxLast[n], mxCounter[n], n \in mxNew, mxTime)
    BY Zenon DEF MetricsInv, NodesOK
  <2>2. CASE n = s
    BY <1>2, <2>1, <2>2, Zenon DEF NodeOK
  <2>3. CASE n # s
    <3>1. mxCounter'[n] = mxCounter[n] /\ (n \in mxNew' <=> n \in mxNew)
      BY <1>2, <1>4, <2>3, Zenon
    <3> QED
      BY <1>2, <2>1, <3>1, Zenon DEF NodeOK
  <2> QED
    BY <2>2, <2>3
<1>7. NowOK'
  BY <1>2, Zenon DEF MetricsInv, NowOK, OkNodes
<1> QED
  BY <1>5, <1>6, <1>7, Zenon DEF MetricsInv, NodesOK

LEMMA MetricsStays ==
  ASSUME MetricsInv, mxQuery' \in {"loading", "failed", "data"},
         UNCHANGED <<mxCounter, mxNew, mxTime, mxData, mxHistory, mxLog, mxLast, mxFirst, mxDisk>>
  PROVE  MetricsInv'
<1>1. /\ mxCounter' = mxCounter /\ mxNew' = mxNew /\ mxTime' = mxTime /\ mxData' = mxData
      /\ mxHistory' = mxHistory /\ mxLog' = mxLog /\ mxLast' = mxLast /\ mxFirst' = mxFirst
      /\ mxDisk' = mxDisk
  OBVIOUS
<1>2. MetricsTypes'
  BY <1>1, Zenon DEF MetricsInv, MetricsTypes
<1>3. NodesOK' /\ NowOK'
  BY <1>1, Zenon DEF MetricsInv, NodesOK, NowOK, OkNodes
<1> QED
  BY <1>2, <1>3, Zenon DEF MetricsInv

LEMMA MetricsNextOK == ASSUME MetricsInv, [MetricsNext]_mxVars PROVE MetricsInv'
<1>1. ASSUME NEW listed \in SUBSET MxNode, NEW told \in SUBSET MxNode,
             told \subseteq listed, Polled(listed, told)
      PROVE  MetricsInv'
  <2>1. told \in SUBSET listed
    BY <1>1
  <2> QED
    BY <1>1, <2>1, PolledOK
<1>2. ASSUME PollFails PROVE MetricsInv'
  BY <1>2, MetricsStays DEF PollFails
<1>3. ASSUME UNCHANGED mxVars PROVE MetricsInv'
  BY <1>3, MetricsStays DEF mxVars, MetricsInv, MetricsTypes
<1> QED
  BY <1>1, <1>2, <1>3, LeaderChangesOK, NodeStartsOK, Zenon DEF MetricsNext

----------------------------------------------------------------------------
\* A part of the Maintenance page moves, and the others stay.
LEMMA ForecastStep ==
  ASSUME MaintenanceInv, [ForecastNext]_<<mtCluster, mtForecastVars>>,
         UNCHANGED <<mtLeaseVars, mtCardVars>>
  PROVE  MaintenanceInv'
<1>1. ForecastInv'
  BY ForecastNextOK DEF MaintenanceInv
<1>2. LeaseInv' /\ CardInv'
  BY DEF MaintenanceInv, LeaseInv, LeaseTypes, LeasesOK, CardInv, mtLeaseVars, mtCardVars
<1> QED
  BY <1>1, <1>2, Zenon DEF MaintenanceInv

LEMMA LeasesStep ==
  ASSUME MaintenanceInv, [LeasesNext]_mtLeaseVars,
         UNCHANGED <<mtCluster, mtForecastVars, mtCardVars>>
  PROVE  MaintenanceInv'
<1>1. LeaseInv'
  BY LeasesNextOK DEF MaintenanceInv
<1>2. CardInv'
  BY DEF MaintenanceInv, CardInv, mtCardVars
<1>3. /\ mtCluster' = mtCluster /\ mtClock' = mtClock /\ mtSize' = mtSize
      /\ mtFrom' = mtFrom /\ mtMixed' = mtMixed /\ mtSummary' = mtSummary
      /\ mtSamples' = mtSamples /\ mtCard' = mtCard
  BY DEF mtForecastVars
<1>4. ForecastInv'
  BY <1>3, Zenon DEF MaintenanceInv, ForecastInv, ForecastTypes, ForecastOK, CardOK
<1> QED
  BY <1>1, <1>2, <1>4, Zenon DEF MaintenanceInv

LEMMA CardsStep ==
  ASSUME MaintenanceInv, NoAnswers, [CardsNext]_<<mtCluster, mtCardVars>>,
         UNCHANGED <<mtForecastVars, mtLeaseVars>>
  PROVE  MaintenanceInv' /\ NoAnswers'
<1>1. CardInv' /\ mtCluster' \in MtCluster
  BY CardsNextOK DEF MaintenanceInv, ForecastInv, ForecastTypes
<1>2. LeaseInv'
  BY DEF MaintenanceInv, LeaseInv, LeaseTypes, LeasesOK, mtLeaseVars
<1>3. /\ mtClock' = mtClock /\ mtSize' = mtSize
      /\ mtFrom' = mtFrom /\ mtMixed' = mtMixed /\ mtSummary' = mtSummary
      /\ mtSamples' = mtSamples /\ mtCard' = mtCard
  BY DEF mtForecastVars
<1>4. ForecastTypes' /\ ForecastOK'
  BY <1>1, <1>3, Zenon DEF MaintenanceInv, ForecastInv, ForecastTypes, ForecastOK
<1>5. CardOK'
  <2>1. SamplesOK(<<>>, mtClock) /\ NoFall(<<>>)
    <3>1. SamplesOK(<<>>, mtClock)
      BY Zenon DEF MaintenanceInv, ForecastInv, CardOK, CardOf, NoAnswers
    <3>2. Len(<<>>) = 0 /\ 1..0 = {}
      OBVIOUS
    <3>3. NoFall(<<>>)
      BY <3>2, Zenon DEF NoFall
    <3> QED
      BY <3>1, <3>3
  <2>2. mtCard' = <<>> /\ mtSummary'[mtCluster'] = 0
    BY <1>1, <1>3, Zenon DEF NoAnswers
  <2> QED
    BY <1>3, <2>1, <2>2, Zenon DEF CardOK, CardOf
<1>6. NoAnswers'
  BY <1>3, Zenon DEF NoAnswers
<1> QED
  BY <1>1, <1>2, <1>4, <1>5, <1>6, Zenon DEF MaintenanceInv, ForecastInv

----------------------------------------------------------------------------
\* The figures of the Maintenance and Metrics pages tell what the server told: the
\* forecast says that a database grew only if it did, as far as one endpoint told its
\* sizes; a lease that was revoked is listed no more, but while the list is read or
\* when that failed; a chart draws its points in the order of their time and ends with
\* the last sample, the log of a node accounts for its counter, and every change the
\* page saw is in the list, or newer ones fill it.
THEOREM FiguresAreTold == ConsoleSpec => []FiguresTellHere
<1> DEFINE Maint == /\ route \in {"forecast", "leases", "cards"} => MaintenanceInv
                    /\ route = "cards" => NoAnswers
           Metrics == route = "metrics" => MetricsInv
           Inv == Maint /\ Metrics
<1>1. ConsoleInit => Inv
  BY MaintenanceInitOK, MetricsInitOK DEF ConsoleInit
<1>2. Inv /\ [ConsoleNext]_consoleVars => Inv'
  <2> SUFFICES ASSUME Inv, [ConsoleNext]_consoleVars PROVE Maint' /\ Metrics'
    OBVIOUS
  <2>1. route' = route
    BY RouteStays
  <2>2. ASSUME route = "metrics" PROVE MetricsInv'
    <3>1. [MetricsNext]_mxVars
      BY <2>2 DEF ConsoleNext, KeyPages, OtherPages, FormPages, Cards, Widgets, consoleVars
    <3> QED
      BY <2>2, <3>1, MetricsNextOK
  <2>3. ASSUME route = "forecast" PROVE MaintenanceInv'
    <3>1. [ForecastNext]_<<mtCluster, mtForecastVars>> /\ UNCHANGED <<mtLeaseVars, mtCardVars>>
      BY <2>3 DEF ConsoleNext, KeyPages, OtherPages, FormPages, Cards, Widgets, consoleVars, mtVars
    <3> QED
      BY <2>3, <3>1, ForecastStep
  <2>4. ASSUME route = "leases" PROVE MaintenanceInv'
    <3>1. [LeasesNext]_mtLeaseVars /\ UNCHANGED <<mtCluster, mtForecastVars, mtCardVars>>
      BY <2>4 DEF ConsoleNext, KeyPages, OtherPages, FormPages, Cards, Widgets, consoleVars, mtVars
    <3> QED
      BY <2>4, <3>1, LeasesStep
  <2>5. ASSUME route = "cards" PROVE MaintenanceInv' /\ NoAnswers'
    <3>1. [CardsNext]_<<mtCluster, mtCardVars>> /\ UNCHANGED <<mtForecastVars, mtLeaseVars>>
      BY <2>5 DEF ConsoleNext, KeyPages, OtherPages, FormPages, Cards, Widgets, consoleVars, mtVars
    <3> QED
      BY <2>5, <3>1, CardsStep
  <2> QED
    BY <2>1, <2>2, <2>3, <2>4, <2>5
<1>3. Inv => FiguresTellHere
  BY MaintenanceHolds, MetricsHolds DEF FiguresTellHere
<1> QED
  BY <1>1, <1>2, <1>3, PTL DEF ConsoleSpec
=============================================================================
