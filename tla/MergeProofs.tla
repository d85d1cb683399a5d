---------------------------- MODULE MergeProofs ----------------------------
(***************************************************************************)
(* The line merge, for texts of any length and any lines.  diff finds      *)
(* hunks that turn the one text into the other and change no more lines    *)
(* than they have to.  Merge finds as many conflicts whichever side is     *)
(* ours, and weaves edits that stay clear of each other without one.       *)
(***************************************************************************)
EXTENDS MCThreeWayMerge, SequenceTheorems, FiniteSetTheorems, WellFoundedInduction, TLAPS

----------------------------------------------------------------------------
(***************************************************************************)
(* Numbers and grids.  A set of numbers that is not empty has a least one; *)
(* so what holds of a number, or of a cell of a grid, if it holds of those *)
(* before it holds of all, and a table in which each cell depends on those *)
(* before it exists.                                                       *)
(***************************************************************************)
LEMMA LeastExists ==
  ASSUME NEW S \in SUBSET Nat, S # {}
  PROVE  \E x \in S: \A y \in S: x <= y
<1> DEFINE R == OpToRel(<, Nat)
<1>1. \E x \in S: \A y \in S: <<y, x>> \notin R
  BY WFMin, NatLessThanWellFounded
<1>2. \A x, y \in Nat: y < x => <<y, x>> \in R
  BY DEF OpToRel
<1> HIDE DEF R
<1>3. PICK x \in S: \A y \in S: <<y, x>> \notin R
  BY <1>1, Zenon
<1>4. \A y \in S: ~(y < x)
  BY <1>2, <1>3, Zenon
<1>5. \A y \in S: x <= y
  BY <1>4
<1> QED
  BY <1>5

LEMMA Induction ==
  ASSUME NEW S, 0 \in S, \A n \in Nat: n \in S => n + 1 \in S
  PROVE  \A n \in Nat: n \in S
<1> SUFFICES ASSUME Nat \ S # {} PROVE FALSE
  OBVIOUS
<1>1. PICK n \in Nat \ S: \A m \in Nat \ S: n <= m
  <2>1. Nat \ S \in SUBSET Nat
    OBVIOUS
  <2> QED
    BY <2>1, LeastExists
<1>2. n # 0
  OBVIOUS
<1>3. n - 1 \in Nat /\ (n - 1) + 1 = n /\ n - 1 \in S
  BY <1>1, <1>2
<1> QED
  BY <1>3

Grid(m, n) == (0..m) \X (0..n)

\* Everything before the cell <<i, j>> is in S; f and g agree before it.
Below(m, n, S, i, j) == \A x \in 0..m, y \in 0..n: x + y < i + j => <<x, y>> \in S
Inductive(m, n, S) == \A i \in 0..m, j \in 0..n: Below(m, n, S, i, j) => <<i, j>> \in S
Agree(m, n, f, g, i, j) == \A x \in 0..m, y \in 0..n: x + y < i + j => f[<<x, y>>] = g[<<x, y>>]

\* Each cell of the table that step makes depends on the cells before it only.
Causal(m, n, V, step) ==
  /\ step \in [[Grid(m, n) -> V] -> [Grid(m, n) -> V]]
  /\ \A f, g \in [Grid(m, n) -> V]: \A i \in 0..m, j \in 0..n:
       Agree(m, n, f, g, i, j) => step[f][<<i, j>>] = step[g][<<i, j>>]

LEMMA GridInduction ==
  ASSUME NEW m \in Nat, NEW n \in Nat, NEW S, Inductive(m, n, S)
  PROVE  \A p \in Grid(m, n): p \in S
<1> DEFINE T == {k \in Nat : \A x \in 0..m, y \in 0..n: x + y < k => <<x, y>> \in S}
<1>1. 0 \in T
  OBVIOUS
<1>2. ASSUME NEW k \in Nat, k \in T PROVE k + 1 \in T
  <2> SUFFICES ASSUME NEW i \in 0..m, NEW j \in 0..n, i + j < k + 1
               PROVE  <<i, j>> \in S
    OBVIOUS
  <2>1. Below(m, n, S, i, j)
    BY <1>2 DEF Below
  <2> QED
    BY <2>1 DEF Inductive
<1> HIDE DEF T
<1>3. \A k \in Nat: k \in T
  BY <1>1, <1>2, Induction
<1> SUFFICES ASSUME NEW i \in 0..m, NEW j \in 0..n PROVE <<i, j>> \in S
  BY DEF Grid
<1>4. PICK k \in Nat: k = i + j + 1
  OBVIOUS
<1>5. k \in T /\ i + j < k
  BY <1>3, <1>4
<1> QED
  BY <1>5 DEF T

LEMMA GridRecursion ==
  ASSUME NEW m \in Nat, NEW n \in Nat, NEW V, NEW v \in V,
         NEW step, Causal(m, n, V, step)
  PROVE  \E f \in [Grid(m, n) -> V]: f = step[f]
<1> USE DEF Causal
<1> DEFINE F == [Grid(m, n) -> V]
           Upto(f, k) == \A x \in 0..m, y \in 0..n:
                           x + y < k => f[<<x, y>>] = step[f][<<x, y>>]
           T == {k \in Nat : \E f \in F: Upto(f, k)}
<1>1. 0 \in T
  <2>1. [p \in Grid(m, n) |-> v] \in F
    OBVIOUS
  <2>2. \A f \in F: Upto(f, 0)
    OBVIOUS
  <2> QED
    BY <2>1, <2>2
<1>2. ASSUME NEW k \in Nat, k \in T PROVE k + 1 \in T
  <2>1. PICK f \in F: Upto(f, k)
    BY <1>2
  <2>2. step[f] \in F
    OBVIOUS
  <2>3. ASSUME NEW i \in 0..m, NEW j \in 0..n, i + j < k + 1
        PROVE  step[f][<<i, j>>] = step[step[f]][<<i, j>>]
    <3>1. Agree(m, n, f, step[f], i, j)
      BY <2>1, <2>3 DEF Agree
    <3> QED
      BY <2>2, <3>1
  <2>4. Upto(step[f], k + 1)
    BY <2>3
  <2> QED
    BY <2>2, <2>4
<1>3. m + n + 1 \in T
  <2> HIDE DEF T
  <2>1. m + n + 1 \in Nat
    OBVIOUS
  <2> QED
    BY <1>1, <1>2, <2>1, Induction
<1>4. PICK f \in F: Upto(f, m + n + 1)
  BY <1>3
<1>5. \A p \in Grid(m, n): f[p] = step[f][p]
  <2> SUFFICES ASSUME NEW p \in Grid(m, n) PROVE f[p] = step[f][p]
    OBVIOUS
  <2>1. PICK i \in 0..m, j \in 0..n: p = <<i, j>>
    BY DEF Grid
  <2>2. i + j < m + n + 1
    OBVIOUS
  <2> QED
    BY <1>4, <2>1, <2>2
<1>6. step[f] \in F
  OBVIOUS
<1> QED
  BY <1>5, <1>6

LEMMA MaxOfTwo ==
  ASSUME NEW x \in Int, NEW y \in Int
  PROVE  /\ Max({x, y}) = IF x >= y THEN x ELSE y
         /\ Max({x, y}) \in {x, y} /\ Max({x, y}) >= x /\ Max({x, y}) >= y
<1>1. \A z \in {x, y}: (\A w \in {x, y}: z >= w) <=> z = IF x >= y THEN x ELSE y
  OBVIOUS
<1> QED
  BY <1>1 DEF Max

LEMMA MaxOfNaturals ==
  \A x, y \in Nat: Max({x, y}) \in Nat /\ Max({x, y}) >= x /\ Max({x, y}) >= y
<1> SUFFICES ASSUME NEW x \in Nat, NEW y \in Nat
             PROVE  Max({x, y}) \in Nat /\ Max({x, y}) >= x /\ Max({x, y}) >= y
  OBVIOUS
<1>1. x \in Int /\ y \in Int
  OBVIOUS
<1>2. Max({x, y}) \in {x, y} /\ Max({x, y}) >= x /\ Max({x, y}) >= y
  BY <1>1, MaxOfTwo, Zenon
<1> QED
  BY <1>2

LEMMA MinOfTwo ==
  ASSUME NEW x \in Int, NEW y \in Int
  PROVE  Min({x, y}) = IF x <= y THEN x ELSE y
<1>1. \A z \in {x, y}: (\A w \in {x, y}: z <= w) <=> z = IF x <= y THEN x ELSE y
  OBVIOUS
<1> QED
  BY <1>1 DEF Min

----------------------------------------------------------------------------
(***************************************************************************)
(* The table of the longest common subsequence.                            *)
(***************************************************************************)
\* A table over two texts whose cells are computed as LcsTable computes them.
LcsCell(a, b, f, i, j) ==
  IF i = 0 \/ j = 0 THEN 0
  ELSE IF a[i] = b[j] THEN f[<<i - 1, j - 1>>] + 1
  ELSE Max({f[<<i - 1, j>>], f[<<i, j - 1>>]})

LEMMA LcsCellOK ==
  ASSUME NEW a, NEW b, NEW m \in Nat, NEW n \in Nat, NEW f \in [Grid(m, n) -> Nat],
         NEW i \in 0..m, NEW j \in 0..n
  PROVE  LcsCell(a, b, f, i, j) \in Nat
<1>1. CASE i = 0 \/ j = 0
  BY <1>1 DEF LcsCell
<1>2. CASE i \in 1..m /\ j \in 1..n
  <2>1. <<i - 1, j - 1>> \in Grid(m, n) /\ <<i - 1, j>> \in Grid(m, n) /\ <<i, j - 1>> \in Grid(m, n)
    BY <1>2 DEF Grid
  <2>2. PICK x \in Nat, y \in Nat, z \in Nat:
          x = f[<<i - 1, j - 1>>] /\ y = f[<<i - 1, j>>] /\ z = f[<<i, j - 1>>]
    BY <2>1
  <2>3. Max({y, z}) \in Nat
    BY MaxOfNaturals
  <2>4. LcsCell(a, b, f, i, j) = IF a[i] = b[j] THEN x + 1 ELSE Max({y, z})
    BY <1>2, <2>2 DEF LcsCell
  <2> QED
    BY <2>3, <2>4
<1> QED
  BY <1>1, <1>2

LEMMA LcsCellSame ==
  ASSUME NEW a, NEW b, NEW m \in Nat, NEW n \in Nat, NEW f, NEW g,
         NEW i \in 0..m, NEW j \in 0..n,
         Agree(m, n, f, g, i, j)
  PROVE  LcsCell(a, b, f, i, j) = LcsCell(a, b, g, i, j)
<1>1. CASE i = 0 \/ j = 0
  BY <1>1 DEF LcsCell
<1>2. CASE i \in 1..m /\ j \in 1..n
  <2>1. /\ i - 1 \in 0..m /\ j - 1 \in 0..n /\ (i - 1) + (j - 1) < i + j
        /\ (i - 1) + j < i + j /\ i + (j - 1) < i + j
    BY <1>2
  <2>2. /\ f[<<i - 1, j - 1>>] = g[<<i - 1, j - 1>>] /\ f[<<i - 1, j>>] = g[<<i - 1, j>>]
        /\ f[<<i, j - 1>>] = g[<<i, j - 1>>]
    BY <2>1 DEF Agree
  <2> QED
    BY <2>2, Zenon DEF LcsCell
<1> QED
  BY <1>1, <1>2

LEMMA LcsExists ==
  ASSUME NEW a, NEW b, NEW m \in Nat, NEW n \in Nat
  PROVE  \E f \in [Grid(m, n) -> Nat]: f = [p \in Grid(m, n) |-> LcsCell(a, b, f, p[1], p[2])]
<1> DEFINE G == Grid(m, n)
           Cell(f, p) == LcsCell(a, b, f, p[1], p[2])
           step == [f \in [G -> Nat] |-> [p \in G |-> Cell(f, p)]]
<1>1. ASSUME NEW f \in [G -> Nat], NEW p \in G PROVE Cell(f, p) \in Nat
  <2>1. p[1] \in 0..m /\ p[2] \in 0..n
    BY DEF Grid
  <2> QED
    BY <2>1, LcsCellOK, Zenon
<1>2. ASSUME NEW f \in [G -> Nat], NEW g \in [G -> Nat], NEW i \in 0..m, NEW j \in 0..n,
             Agree(m, n, f, g, i, j)
      PROVE  Cell(f, <<i, j>>) = Cell(g, <<i, j>>)
  <2>1. LcsCell(a, b, f, i, j) = LcsCell(a, b, g, i, j)
    BY <1>2, LcsCellSame
  <2> QED
    BY <2>1
<1>3. \A i \in 0..m, j \in 0..n: <<i, j>> \in G
  BY DEF Grid
<1> HIDE DEF Cell
<1>4. step \in [[G -> Nat] -> [G -> Nat]]
  BY <1>1
<1>5. ASSUME NEW f \in [G -> Nat], NEW g \in [G -> Nat], NEW i \in 0..m, NEW j \in 0..n,
             Agree(m, n, f, g, i, j)
      PROVE  step[f][<<i, j>>] = step[g][<<i, j>>]
  <2>1. Cell(f, <<i, j>>) = Cell(g, <<i, j>>)
    BY <1>2, <1>5, Zenon
  <2>2. <<i, j>> \in G
    BY <1>3, Zenon
  <2> QED
    BY <2>1, <2>2, Zenon
<1>6. \A f \in [G -> Nat]: step[f] = [p \in G |-> Cell(f, p)]
  OBVIOUS
<1>7. \E f \in [G -> Nat]: f = step[f]
  <2> HIDE DEF step
  <2>1. 0 \in Nat
    OBVIOUS
  <2>2. \A f, g \in [Grid(m, n) -> Nat]: \A i \in 0..m, j \in 0..n:
          Agree(m, n, f, g, i, j) => step[f][<<i, j>>] = step[g][<<i, j>>]
    BY <1>5, Zenon
  <2>3. step \in [[Grid(m, n) -> Nat] -> [Grid(m, n) -> Nat]]
    BY <1>4
  <2> HIDE DEF G
  <2>5. Causal(m, n, Nat, step)
    BY <2>2, <2>3, Zenon DEF Causal
  <2>4. \E f \in [Grid(m, n) -> Nat]: f = step[f]
    BY <2>1, <2>5, GridRecursion
  <2> QED
    BY <2>4 DEF G
<1> HIDE DEF step, G
<1> QED
  BY <1>6, <1>7, Zenon DEF Cell, G

LEMMA LcsTableOK ==
  ASSUME NEW a, NEW b, NEW m \in Nat, NEW n \in Nat, m = Len(a), n = Len(b)
  PROVE  \A L: L = LcsTable(a, b) =>
           /\ L \in [Grid(m, n) -> Nat]
           /\ \A i \in 0..m, j \in 0..n: L[<<i, j>>] = LcsCell(a, b, L, i, j)
<1> SUFFICES ASSUME NEW L, L = LcsTable(a, b)
             PROVE  /\ L \in [Grid(m, n) -> Nat]
                    /\ \A i \in 0..m, j \in 0..n: L[<<i, j>>] = LcsCell(a, b, L, i, j)
  OBVIOUS
<1>1. L = CHOOSE f: f = [p \in Grid(m, n) |-> LcsCell(a, b, f, p[1], p[2])]
  BY DEF LcsTable, Grid, LcsCell
<1>2. L = [p \in Grid(m, n) |-> LcsCell(a, b, L, p[1], p[2])]
  BY <1>1, LcsExists
<1>3. ASSUME NEW i \in 0..m, NEW j \in 0..n PROVE L[<<i, j>>] = LcsCell(a, b, L, i, j)
  <2>1. <<i, j>> \in Grid(m, n)
    BY DEF Grid
  <2> QED
    BY <1>2, <2>1
<1> DEFINE S == {p \in Grid(m, n) : L[p] \in Nat}
<1>4. ASSUME NEW i \in 0..m, NEW j \in 0..n, Below(m, n, S, i, j)
      PROVE  <<i, j>> \in S
  <2> DEFINE g == [p \in Grid(m, n) |-> IF p \in S THEN L[p] ELSE 0]
  <2>1. g \in [Grid(m, n) -> Nat]
    OBVIOUS
  <2>2. Agree(m, n, L, g, i, j)
    BY <1>4 DEF Agree, Below
  <2> HIDE DEF g
  <2>3. LcsCell(a, b, L, i, j) = LcsCell(a, b, g, i, j)
    BY <2>2, LcsCellSame
  <2>4. LcsCell(a, b, g, i, j) \in Nat
    BY <2>1, LcsCellOK
  <2>5. <<i, j>> \in Grid(m, n)
    BY DEF Grid
  <2> QED
    BY <1>3, <2>3, <2>4, <2>5
<1>5. \A p \in Grid(m, n): p \in S
  <2> HIDE DEF S
  <2>1. Inductive(m, n, S)
    BY <1>4 DEF Inductive
  <2> QED
    BY <2>1, GridInduction
<1>6. \A p \in Grid(m, n): L[p] \in Nat
  BY <1>5
<1> QED
  BY <1>2, <1>3, <1>6

\* The same, cell by cell.
LcsCells(a, b, m, n, L) ==
  /\ \A i \in 0..m, j \in 0..n:
       L[<<i, j>>] \in Nat /\ (i = 0 \/ j = 0 => L[<<i, j>>] = 0)
  /\ \A i \in 1..m, j \in 1..n:
       /\ a[i] = b[j] => L[<<i, j>>] = L[<<i - 1, j - 1>>] + 1
       /\ a[i] # b[j] => L[<<i, j>>] = (IF L[<<i, j - 1>>] >= L[<<i - 1, j>>]
                                        THEN L[<<i, j - 1>>] ELSE L[<<i - 1, j>>])

LEMMA LcsTableCells ==
  ASSUME NEW a, NEW b, NEW m \in Nat, NEW n \in Nat, m = Len(a), n = Len(b),
         NEW L, L = LcsTable(a, b)
  PROVE  LcsCells(a, b, m, n, L)
<1>1. /\ L \in [Grid(m, n) -> Nat]
      /\ \A i \in 0..m, j \in 0..n: L[<<i, j>>] = LcsCell(a, b, L, i, j)
  BY LcsTableOK
<1>2. ASSUME NEW i \in 0..m, NEW j \in 0..n PROVE L[<<i, j>>] \in Nat
  BY <1>1 DEF Grid
<1>3. ASSUME NEW i \in 0..m, NEW j \in 0..n, i = 0 \/ j = 0 PROVE L[<<i, j>>] = 0
  BY <1>1, <1>3 DEF LcsCell
<1>4. ASSUME NEW i \in 1..m, NEW j \in 1..n
      PROVE  /\ a[i] = b[j] => L[<<i, j>>] = L[<<i - 1, j - 1>>] + 1
             /\ a[i] # b[j] => L[<<i, j>>] = (IF L[<<i, j - 1>>] >= L[<<i - 1, j>>]
                                              THEN L[<<i, j - 1>>] ELSE L[<<i - 1, j>>])
  <2>1. i \in 0..m /\ j \in 0..n /\ i - 1 \in 0..m /\ j - 1 \in 0..n /\ i # 0 /\ j # 0
    OBVIOUS
  <2>2. PICK x \in Nat, y \in Nat: x = L[<<i - 1, j>>] /\ y = L[<<i, j - 1>>]
    BY <1>2, <2>1
  <2>3. Max({x, y}) = IF x >= y THEN x ELSE y
    <3>1. x \in Int /\ y \in Int
      OBVIOUS
    <3> QED
      BY <3>1, MaxOfTwo, Zenon
  <2>6. L[<<i, j>>] = LcsCell(a, b, L, i, j)
    BY <1>1, <2>1
  <2>4. L[<<i, j>>] = IF a[i] = b[j] THEN L[<<i - 1, j - 1>>] + 1 ELSE Max({x, y})
    BY <2>1, <2>2, <2>6 DEF LcsCell
  <2>5. (IF y >= x THEN y ELSE x) = (IF x >= y THEN x ELSE y)
    OBVIOUS
  <2> QED
    BY <2>2, <2>3, <2>4, <2>5, Zenon
<1> QED
  BY <1>2, <1>3, <1>4, Zenon DEF LcsCells

\* f and g are places of a common subsequence of a and b.
Common(a, b, k, f, g) == \A x \in 1..k: a[f[x]] = b[g[x]]

\* A function that increases stays at or below its last value, and increases
\* without it.
LEMMA IncreasingShorter ==
  ASSUME NEW k \in Nat, k > 0, NEW n \in Nat, NEW f \in Increasing(k, n)
  PROVE  /\ k - 1 \in Nat /\ f[k] \in 1..n
         /\ [x \in 1..(k - 1) |-> f[x]] \in Increasing(k - 1, n - 1)
         /\ f[k] # n => f \in Increasing(k, n - 1)
<1>1. f \in [1..k -> 1..n] /\ \A x, y \in 1..k: x < y => f[x] < f[y]
  BY DEF Increasing
<1>2. k \in 1..k /\ f[k] \in 1..n /\ k - 1 \in Nat
  BY <1>1
<1>3. PICK l \in 1..n: l = f[k]
  BY <1>2
<1>4. ASSUME NEW x \in 1..(k - 1) PROVE x \in 1..k /\ f[x] \in 1..(n - 1)
  <2>1. x \in 1..k /\ x < k
    OBVIOUS
  <2>2. f[x] < l /\ f[x] \in 1..n
    BY <1>1, <1>2, <1>3, <2>1
  <2>3. PICK v \in 1..n: v = f[x]
    BY <2>2
  <2>4. v < l
    BY <2>2, <2>3
  <2>5. v \in 1..(n - 1)
    BY <2>4
  <2> QED
    BY <2>1, <2>3, <2>5
<1>5. [x \in 1..(k - 1) |-> f[x]] \in Increasing(k - 1, n - 1)
  BY <1>1, <1>4 DEF Increasing
<1>6. ASSUME f[k] # n PROVE f \in Increasing(k, n - 1)
  <2>1. l \in 1..(n - 1)
    BY <1>3, <1>6
  <2>2. ASSUME NEW x \in 1..k PROVE f[x] \in 1..(n - 1)
    <3>1. CASE x = k
      BY <1>3, <2>1, <3>1
    <3>2. CASE x # k
      <4>1. x \in 1..(k - 1)
        BY <3>2
      <4> QED
        BY <1>4, <4>1
    <3> QED
      BY <3>1, <3>2
  <2>3. f \in [1..k -> 1..(n - 1)]
    BY <1>1, <2>2
  <2> QED
    BY <1>1, <2>3 DEF Increasing
<1> QED
  BY <1>2, <1>5, <1>6

\* No common subsequence is longer than the table says.
LEMMA LcsBound ==
  ASSUME NEW a, NEW b, NEW m \in Nat, NEW n \in Nat, m = Len(a), n = Len(b),
         NEW L, L = LcsTable(a, b)
  PROVE  \A i \in 0..m, j \in 0..n: \A k \in Nat:
           \A f \in Increasing(k, i), g \in Increasing(k, j):
             Common(a, b, k, f, g) => k <= L[<<i, j>>]
<1> DEFINE Bounded(i, j) == \A k \in Nat: \A f \in Increasing(k, i), g \in Increasing(k, j):
                              Common(a, b, k, f, g) => k <= L[<<i, j>>]
           S == {p \in Grid(m, n) : Bounded(p[1], p[2])}
<1>1. /\ \A i \in 0..m, j \in 0..n:
           L[<<i, j>>] \in Nat /\ (i = 0 \/ j = 0 => L[<<i, j>>] = 0)
      /\ \A i \in 1..m, j \in 1..n:
           /\ a[i] = b[j] => L[<<i, j>>] = L[<<i - 1, j - 1>>] + 1
           /\ a[i] # b[j] => L[<<i, j>>] = (IF L[<<i, j - 1>>] >= L[<<i - 1, j>>]
                                            THEN L[<<i, j - 1>>] ELSE L[<<i - 1, j>>])
  <2>1. LcsCells(a, b, m, n, L)
    BY LcsTableCells, Zenon
  <2> QED
    BY <2>1, Zenon DEF LcsCells
<1>2. \A i \in 0..m, j \in 0..n: <<i, j>> \in S <=> Bounded(i, j)
  BY DEF Grid
<1>3. ASSUME NEW i \in 0..m, NEW j \in 0..n, Below(m, n, S, i, j),
             NEW k \in Nat, NEW f \in Increasing(k, i), NEW g \in Increasing(k, j),
             Common(a, b, k, f, g)
      PROVE  k <= L[<<i, j>>]
  <2>1. ASSUME NEW x \in 0..m, NEW y \in 0..n, x + y < i + j PROVE Bounded(x, y)
    BY <1>2, <1>3, <2>1 DEF Below
  <2>2. CASE k = 0
    BY <1>1, <2>2
  <2>3. CASE k > 0
    <3> DEFINE ff == [x \in 1..(k - 1) |-> f[x]]
               gg == [x \in 1..(k - 1) |-> g[x]]
    <3>1. /\ k - 1 \in Nat /\ f[k] \in 1..i /\ g[k] \in 1..j
          /\ ff \in Increasing(k - 1, i - 1) /\ gg \in Increasing(k - 1, j - 1)
          /\ (f[k] # i => f \in Increasing(k, i - 1))
          /\ (g[k] # j => g \in Increasing(k, j - 1))
      BY <2>3, IncreasingShorter
    <3>2. i \in 1..m /\ j \in 1..n
      BY <3>1
    <3>3. /\ i - 1 \in 0..m /\ j - 1 \in 0..n /\ (i - 1) + (j - 1) < i + j
          /\ (i - 1) + j < i + j /\ i + (j - 1) < i + j
      BY <3>2
    <3>4. Bounded(i - 1, j - 1) /\ Bounded(i - 1, j) /\ Bounded(i, j - 1)
      BY <2>1, <3>3
    <3>5. PICK x \in Nat, y \in Nat, z \in Nat, w \in Nat:
            /\ x = L[<<i - 1, j - 1>>] /\ y = L[<<i - 1, j>>] /\ z = L[<<i, j - 1>>]
            /\ w = L[<<i, j>>]
      BY <1>1, <3>3
    <3>6. CASE a[i] = b[j]
      <4>1. Common(a, b, k - 1, ff, gg)
        BY <1>3 DEF Common
      <4>2. k - 1 <= x
        BY <3>1, <3>4, <3>5, <4>1
      <4>3. w = x + 1
        BY <1>1, <3>2, <3>5, <3>6
      <4> QED
        BY <3>5, <4>2, <4>3
    <3>7. CASE a[i] # b[j]
      <4>1. w = IF z >= y THEN z ELSE y
        BY <1>1, <3>2, <3>5, <3>7, Zenon
      <4>2. f[k] # i \/ g[k] # j
        BY <1>3, <2>3, <3>7 DEF Common
      <4>3. k <= y \/ k <= z
        BY <1>3, <3>1, <3>4, <3>5, <4>2
      <4> QED
        BY <3>5, <4>1, <4>3
    <3> QED
      BY <3>6, <3>7
  <2> QED
    BY <2>2, <2>3
<1>4. ASSUME NEW i \in 0..m, NEW j \in 0..n, Below(m, n, S, i, j) PROVE <<i, j>> \in S
  BY <1>2, <1>3, <1>4, Zenon
<1>5. Inductive(m, n, S)
  BY <1>4, Zenon DEF Inductive
<1>6. \A p \in Grid(m, n): p \in S
  <2> HIDE DEF S
  <2> QED
    BY <1>5, GridInduction, Zenon
<1>7. \A i \in 0..m, j \in 0..n: <<i, j>> \in Grid(m, n)
  BY DEF Grid
<1> QED
  BY <1>2, <1>6, <1>7, Zenon

----------------------------------------------------------------------------
(***************************************************************************)
(* The walk back through the table.                                        *)
(***************************************************************************)
WalkCell(a, b, L, f, i, j) ==
  IF i = 0 /\ j = 0 THEN <<>>
  ELSE IF i > 0 /\ j > 0 /\ a[i] = b[j]
    THEN Append(f[<<i - 1, j - 1>>], Edit("=", i - 1, a[i]))
  ELSE IF j > 0 /\ (i = 0 \/ L[<<i, j - 1>>] >= L[<<i - 1, j>>])
    THEN Append(f[<<i, j - 1>>], Edit("+", i, b[j]))
  ELSE Append(f[<<i - 1, j>>], Edit("-", i - 1, a[i]))

EditSet == [op : {"=", "-", "+"}, pos : Nat, line : Line]

LEMMA EditOK ==
  \A p \in Nat, l \in Line:
    Edit("=", p, l) \in EditSet /\ Edit("-", p, l) \in EditSet /\ Edit("+", p, l) \in EditSet
BY DEF Edit, EditSet

LEMMA WalkCellOK ==
  ASSUME NEW a \in Seq(Line), NEW b \in Seq(Line), NEW L,
         NEW m \in Nat, NEW n \in Nat, m = Len(a), n = Len(b),
         NEW f \in [Grid(m, n) -> Seq(EditSet)], NEW i \in 0..m, NEW j \in 0..n
  PROVE  WalkCell(a, b, L, f, i, j) \in Seq(EditSet)
<1>1. ASSUME NEW x \in 0..m, NEW y \in 0..n PROVE f[<<x, y>>] \in Seq(EditSet)
  BY DEF Grid
<1>2. i > 0 => i - 1 \in 0..m /\ i - 1 \in Nat /\ a[i] \in Line
  OBVIOUS
<1>3. j > 0 => j - 1 \in 0..n /\ j - 1 \in Nat /\ b[j] \in Line
  OBVIOUS
<1>4. i \in Nat
  OBVIOUS
<1>5. ASSUME NEW s \in Seq(EditSet), NEW e \in EditSet PROVE Append(s, e) \in Seq(EditSet)
  BY AppendProperties
<1>6. <<>> \in Seq(EditSet)
  BY EmptySeq
<1>7. ASSUME i > 0, j > 0
      PROVE  Append(f[<<i - 1, j - 1>>], Edit("=", i - 1, a[i])) \in Seq(EditSet)
  <2>1. f[<<i - 1, j - 1>>] \in Seq(EditSet) /\ Edit("=", i - 1, a[i]) \in EditSet
    BY <1>1, <1>2, <1>3, <1>7, EditOK
  <2> QED
    BY <1>5, <2>1
<1>8. ASSUME j > 0
      PROVE  Append(f[<<i, j - 1>>], Edit("+", i, b[j])) \in Seq(EditSet)
  <2>1. f[<<i, j - 1>>] \in Seq(EditSet) /\ Edit("+", i, b[j]) \in EditSet
    BY <1>1, <1>3, <1>4, <1>8, EditOK
  <2> QED
    BY <1>5, <2>1
<1>9. ASSUME i > 0
      PROVE  Append(f[<<i - 1, j>>], Edit("-", i - 1, a[i])) \in Seq(EditSet)
  <2>1. f[<<i - 1, j>>] \in Seq(EditSet) /\ Edit("-", i - 1, a[i]) \in EditSet
    BY <1>1, <1>2, <1>9, EditOK
  <2> QED
    BY <1>5, <2>1
<1>10. i > 0 \/ i = 0
  OBVIOUS
<1>11. j > 0 \/ j = 0
  OBVIOUS
<1> QED
  BY <1>6, <1>7, <1>8, <1>9, <1>10, <1>11, Zenon DEF WalkCell

LEMMA WalkCellSame ==
  ASSUME NEW a, NEW b, NEW L, NEW m \in Nat, NEW n \in Nat, NEW f, NEW g,
         NEW i \in 0..m, NEW j \in 0..n, Agree(m, n, f, g, i, j)
  PROVE  WalkCell(a, b, L, f, i, j) = WalkCell(a, b, L, g, i, j)
<1>1. i > 0 /\ j > 0 => f[<<i - 1, j - 1>>] = g[<<i - 1, j - 1>>]
  BY DEF Agree
<1>2. i > 0 => f[<<i - 1, j>>] = g[<<i - 1, j>>]
  BY DEF Agree
<1>3. j > 0 => f[<<i, j - 1>>] = g[<<i, j - 1>>]
  BY DEF Agree
<1>4. i > 0 \/ i = 0
  OBVIOUS
<1>5. j > 0 \/ j = 0
  OBVIOUS
<1> QED
  BY <1>1, <1>2, <1>3, <1>4, <1>5, Zenon DEF WalkCell

LEMMA WalkExists ==
  ASSUME NEW a \in Seq(Line), NEW b \in Seq(Line), NEW L,
         NEW m \in Nat, NEW n \in Nat, m = Len(a), n = Len(b)
  PROVE  \E f \in [Grid(m, n) -> Seq(EditSet)]:
           f = [p \in Grid(m, n) |-> WalkCell(a, b, L, f, p[1], p[2])]
<1> DEFINE G == Grid(m, n)
           V == Seq(EditSet)
           Cell(f, p) == WalkCell(a, b, L, f, p[1], p[2])
           step == [f \in [G -> V] |-> [p \in G |-> Cell(f, p)]]
<1>1. ASSUME NEW f \in [G -> V], NEW p \in G PROVE Cell(f, p) \in V
  <2>1. p[1] \in 0..m /\ p[2] \in 0..n
    BY DEF Grid
  <2> QED
    BY <2>1, WalkCellOK
<1>2. ASSUME NEW f, NEW g, NEW i \in 0..m, NEW j \in 0..n, Agree(m, n, f, g, i, j)
      PROVE  Cell(f, <<i, j>>) = Cell(g, <<i, j>>)
  <2>1. WalkCell(a, b, L, f, i, j) = WalkCell(a, b, L, g, i, j)
    BY <1>2, WalkCellSame
  <2> QED
    BY <2>1
<1>3. \A i \in 0..m, j \in 0..n: <<i, j>> \in G
  BY DEF Grid
<1> HIDE DEF Cell, V
<1>4. step \in [[G -> V] -> [G -> V]]
  BY <1>1
<1>5. ASSUME NEW f \in [G -> V], NEW g \in [G -> V], NEW i \in 0..m, NEW j \in 0..n,
             Agree(m, n, f, g, i, j)
      PROVE  step[f][<<i, j>>] = step[g][<<i, j>>]
  <2>1. Cell(f, <<i, j>>) = Cell(g, <<i, j>>)
    BY <1>2, <1>5, Zenon
  <2>2. <<i, j>> \in G
    BY <1>3
  <2> QED
    BY <2>1, <2>2, Zenon
<1>6. \A f \in [G -> V]: step[f] = [p \in G |-> Cell(f, p)]
  OBVIOUS
<1>7. \E f \in [G -> V]: f = step[f]
  <2> HIDE DEF step
  <2>1. <<>> \in V
    BY EmptySeq DEF V
  <2>2. Causal(m, n, V, step)
    BY <1>4, <1>5 DEF Causal
  <2> QED
    BY <2>1, <2>2, GridRecursion
<1> HIDE DEF step, G
<1> QED
  BY <1>6, <1>7, Zenon DEF Cell, G, V

WalkCells(a, b, m, n, L, w) ==
  \A i \in 0..m, j \in 0..n:
    w[<<i, j>>] \in Seq(EditSet) /\ w[<<i, j>>] = WalkCell(a, b, L, w, i, j)

LEMMA WalkOK ==
  ASSUME NEW a \in Seq(Line), NEW b \in Seq(Line),
         NEW m \in Nat, NEW n \in Nat, m = Len(a), n = Len(b),
         NEW L, L = LcsTable(a, b), NEW w, w = Walk(a, b)
  PROVE  WalkCells(a, b, m, n, L, w)
<1>1. w = CHOOSE f: f = [p \in Grid(m, n) |-> WalkCell(a, b, L, f, p[1], p[2])]
  BY DEF Walk, Grid, WalkCell
<1>2. w = [p \in Grid(m, n) |-> WalkCell(a, b, L, w, p[1], p[2])]
  BY <1>1, WalkExists
<1>3. ASSUME NEW i \in 0..m, NEW j \in 0..n PROVE w[<<i, j>>] = WalkCell(a, b, L, w, i, j)
  <2>1. <<i, j>> \in Grid(m, n)
    BY DEF Grid
  <2> QED
    BY <1>2, <2>1
<1> DEFINE S == {p \in Grid(m, n) : w[p] \in Seq(EditSet)}
<1>4. ASSUME NEW i \in 0..m, NEW j \in 0..n, Below(m, n, S, i, j)
      PROVE  <<i, j>> \in S
  <2> DEFINE g == [p \in Grid(m, n) |-> IF p \in S THEN w[p] ELSE <<>>]
  <2>1. g \in [Grid(m, n) -> Seq(EditSet)]
    BY EmptySeq
  <2>2. Agree(m, n, w, g, i, j)
    BY <1>4 DEF Agree, Below
  <2> HIDE DEF g
  <2>3. WalkCell(a, b, L, w, i, j) = WalkCell(a, b, L, g, i, j)
    BY <2>2, WalkCellSame
  <2>4. WalkCell(a, b, L, g, i, j) \in Seq(EditSet)
    BY <2>1, WalkCellOK
  <2>5. <<i, j>> \in Grid(m, n)
    BY DEF Grid
  <2> QED
    BY <1>3, <2>3, <2>4, <2>5
<1>5. \A p \in Grid(m, n): p \in S
  <2> HIDE DEF S
  <2>1. Inductive(m, n, S)
    BY <1>4 DEF Inductive
  <2> QED
    BY <2>1, GridInduction
<1>6. \A i \in 0..m, j \in 0..n: <<i, j>> \in Grid(m, n)
  BY DEF Grid
<1>7. \A p \in Grid(m, n): w[p] \in Seq(EditSet)
  BY <1>5
<1> HIDE DEF S
<1> QED
  BY <1>3, <1>6, <1>7 DEF WalkCells

----------------------------------------------------------------------------
(***************************************************************************)
(* Edits to hunks.                                                         *)
(***************************************************************************)
NoHunks == [open |-> FALSE, hunks |-> <<>>]

LEMMA GroupedExists ==
  ASSUME NEW edits, NEW n \in Nat
  PROVE  \E f: f = [k \in 0..n |-> IF k = 0 THEN NoHunks ELSE Group(f[k - 1], edits[k])]
<1> DEFINE At(f, k) == IF k = 0 THEN NoHunks ELSE Group(f[k - 1], edits[k])
           Runs(f, k) == f = [x \in 0..k |-> At(f, x)]
           S == {k \in Nat : \E f: Runs(f, k)}
<1>1. 0 \in S
  <2> DEFINE f == [x \in 0..0 |-> NoHunks]
  <2>1. f = [x \in 0..0 |-> At(f, x)]
    OBVIOUS
  <2> QED
    BY <2>1
<1>2. ASSUME NEW k \in Nat, k \in S PROVE k + 1 \in S
  <2>1. PICK f: Runs(f, k)
    BY <1>2
  <2> DEFINE g == [x \in 0..(k + 1) |-> IF x = k + 1 THEN Group(f[k], edits[k + 1]) ELSE f[x]]
  <2>2. g[k + 1] = Group(f[k], edits[k + 1]) /\ \A x \in 0..k: g[x] = f[x]
    OBVIOUS
  <2>3. \A x \in 0..k: f[x] = At(f, x)
    BY <2>1
  <2>4. ASSUME NEW x \in 0..(k + 1) PROVE g[x] = At(g, x)
    <3> HIDE DEF g
    <3>1. CASE x = 0
      BY <2>2, <2>3, <3>1
    <3>2. CASE x \in 1..k
      <4>1. x \in 0..k /\ x - 1 \in 0..k /\ x # 0
        BY <3>2
      <4> QED
        BY <2>2, <2>3, <4>1
    <3>3. CASE x = k + 1
      <4>1. k \in 0..k /\ k + 1 # 0 /\ (k + 1) - 1 = k
        OBVIOUS
      <4> QED
        BY <2>2, <3>3, <4>1
    <3> QED
      BY <3>1, <3>2, <3>3
  <2> HIDE DEF At
  <2>5. g = [x \in 0..(k + 1) |-> At(g, x)]
    BY <2>4
  <2> HIDE DEF g
  <2> QED
    BY <2>5
<1>3. n \in S
  <2> HIDE DEF S
  <2> QED
    BY <1>1, <1>2, Induction
<1> QED
  BY <1>3

\* Grouping edits one at a time.
LEMMA GroupedStep ==
  ASSUME NEW edits \in Seq(EditSet), NEW edit \in EditSet
  PROVE  Grouped(Append(edits, edit)) = Group(Grouped(edits), edit)
<1> DEFINE n == Len(edits)
           more == Append(edits, edit)
           At(e, f, k) == IF k = 0 THEN NoHunks ELSE Group(f[k - 1], e[k])
<1>1. n \in Nat /\ Len(more) = n + 1 /\ more[n + 1] = edit /\ \A k \in 1..n: more[k] = edits[k]
  BY AppendProperties, LenProperties
<1> HIDE DEF n, more
<1>2. PICK f: f = [k \in 0..n |-> At(edits, f, k)] /\ Grouped(edits) = f[n]
  <2> DEFINE f == CHOOSE f: f = [k \in 0..n |-> At(edits, f, k)]
  <2>1. Grouped(edits) = f[n]
    BY DEF Grouped, NoHunks, n
  <2>2. f = [k \in 0..n |-> At(edits, f, k)]
    BY <1>1, GroupedExists
  <2> QED
    BY <2>1, <2>2
<1>3. PICK g: g = [k \in 0..(n + 1) |-> At(more, g, k)] /\ Grouped(more) = g[n + 1]
  <2> DEFINE g == CHOOSE g: g = [k \in 0..(n + 1) |-> At(more, g, k)]
  <2>1. Grouped(more) = g[n + 1]
    BY <1>1 DEF Grouped, NoHunks
  <2>2. g = [k \in 0..(n + 1) |-> At(more, g, k)]
    <3>1. n + 1 \in Nat
      BY <1>1
    <3> QED
      BY <3>1, GroupedExists
  <2> QED
    BY <2>1, <2>2
<1>4. \A k \in 0..n: f[k] = At(edits, f, k)
  BY <1>2
<1>5. \A k \in 0..(n + 1): g[k] = At(more, g, k)
  BY <1>3
<1> DEFINE S == {k \in Nat : k <= n => f[k] = g[k]}
<1>6. 0 \in S
  BY <1>1, <1>4, <1>5
<1>7. ASSUME NEW k \in Nat, k \in S PROVE k + 1 \in S
  <2> SUFFICES ASSUME k + 1 <= n PROVE f[k + 1] = g[k + 1]
    OBVIOUS
  <2>1. f[k] = g[k] /\ k + 1 \in 1..n /\ k + 1 \in 0..n /\ k + 1 \in 0..(n + 1)
        /\ k + 1 # 0 /\ (k + 1) - 1 = k
    BY <1>1, <1>7
  <2> QED
    BY <1>1, <1>4, <1>5, <2>1
<1>8. f[n] = g[n]
  <2>1. n \in S
    <3> HIDE DEF S
    <3> QED
      BY <1>1, <1>6, <1>7, Induction
  <2> QED
    BY <1>1, <2>1
<1>9. g[n + 1] = Group(g[n], edit)
  <2>1. n + 1 \in 0..(n + 1) /\ n + 1 # 0 /\ (n + 1) - 1 = n
    BY <1>1
  <2> QED
    BY <1>1, <1>5, <2>1
<1> QED
  BY <1>2, <1>3, <1>8, <1>9 DEF more

LEMMA GroupedNothing == Grouped(<<>>) = NoHunks
<1> DEFINE f == CHOOSE f: f = [k \in 0..0 |-> IF k = 0 THEN NoHunks ELSE Group(f[k - 1], <<>>[k])]
<1>1. Grouped(<<>>) = f[0]
  <2>1. Len(<<>>) = 0
    OBVIOUS
  <2> QED
    BY <2>1 DEF Grouped, NoHunks
<1>2. f = [k \in 0..0 |-> IF k = 0 THEN NoHunks ELSE Group(f[k - 1], <<>>[k])]
  BY GroupedExists
<1> HIDE DEF f
<1> QED
  BY <1>1, <1>2

----------------------------------------------------------------------------
(***************************************************************************)
(* What hunks make of a text.                                              *)
(***************************************************************************)
HunkSet == [start : Nat, end : Nat, lines : Seq(Line)]

LEMMA BetweenOK ==
  ASSUME NEW text \in Seq(Line), NEW lo \in Nat, NEW hi \in Nat
  PROVE  /\ Between(text, lo, hi) \in Seq(Line)
         /\ hi <= Len(text) => Between(text, lo, hi) = SubSeq(text, lo + 1, hi)
         /\ hi <= lo => Between(text, lo, hi) = <<>>
         /\ lo <= hi /\ hi < Len(text) =>
              Between(text, lo, hi + 1) = Between(text, lo, hi) \o <<text[hi + 1]>>
<1>1. PICK n \in Nat: n = Len(text)
  BY LenProperties
<1>2. PICK x \in Nat: x = Min({hi, n}) /\ x <= hi /\ x <= n /\ (hi <= n => x = hi)
  <2>1. hi \in Int /\ n \in Int
    OBVIOUS
  <2>2. Min({hi, n}) = IF hi <= n THEN hi ELSE n
    BY <2>1, MinOfTwo, Zenon
  <2> QED
    BY <2>2
<1>3. Between(text, lo, hi) = SubSeq(text, lo + 1, x)
  BY <1>1, <1>2, Zenon DEF Between
<1>4. \A y \in (lo + 1)..x: text[y] \in Line
  BY <1>1, <1>2
<1>5. Between(text, lo, hi) \in Seq(Line)
  <2>1. SubSeq(text, lo + 1, x) \in Seq(Line)
    BY <1>4, SubSeqProperties
  <2> QED
    BY <1>3, <2>1
<1>6. hi <= n => Between(text, lo, hi) = SubSeq(text, lo + 1, hi)
  BY <1>2, <1>3
<1>7. hi <= lo => Between(text, lo, hi) = <<>>
  <2>1. ASSUME hi <= lo PROVE SubSeq(text, lo + 1, x) = <<>>
    <3>1. lo + 1 \in Int /\ x \in Int /\ x < lo + 1
      BY <1>2, <2>1
    <3> QED
      BY <3>1, SubSeqEmpty
  <2> QED
    BY <1>3, <2>1
<1>8. ASSUME lo <= hi, hi < n
      PROVE  Between(text, lo, hi + 1) = Between(text, lo, hi) \o <<text[hi + 1]>>
  <2>1. hi + 1 \in Nat /\ hi + 1 <= n /\ (hi + 1) - 1 = hi
    BY <1>8
  <2>2. Min({hi + 1, n}) = hi + 1
    <3>1. hi + 1 \in Int /\ n \in Int
      OBVIOUS
    <3>2. Min({hi + 1, n}) = IF hi + 1 <= n THEN hi + 1 ELSE n
      BY <3>1, MinOfTwo, Zenon
    <3> QED
      BY <2>1, <3>2
  <2>3. Between(text, lo, hi + 1) = SubSeq(text, lo + 1, hi + 1)
    BY <1>1, <2>2, Zenon DEF Between
  <2>4. Between(text, lo, hi) = SubSeq(text, lo + 1, hi)
    BY <1>6, <1>8
  <2>5. lo + 1 \in 1..Len(text) /\ hi + 1 \in (lo + 1)..Len(text)
    BY <1>1, <1>8
  <2>6. SubSeq(text, lo + 1, hi + 1) = SubSeq(text, lo + 1, (hi + 1) - 1) \o <<text[hi + 1]>>
    BY <2>5, SubSeqRecursiveSecond
  <2> QED
    BY <2>1, <2>3, <2>4, <2>6
<1> QED
  BY <1>1, <1>5, <1>6, <1>7, <1>8

\* What the k-th hunk makes of it, after the text s of those before.
Longer(text, hunks, s, k) ==
  s \o Between(text, EndOf(hunks, k - 1), hunks[k].start) \o hunks[k].lines
WovenBy(text, hunks, n, f) ==
  f = [k \in 0..n |-> IF k = 0 THEN <<>> ELSE Longer(text, hunks, f[k - 1], k)]
IsWoven(text, hunks, n, w) ==
  /\ w[0] = <<>>
  /\ \A k \in 1..n: w[k] = Longer(text, hunks, w[k - 1], k)
  /\ \A k \in 0..n: w[k] \in Seq(Line)

LEMMA WovenExists ==
  ASSUME NEW text, NEW hunks, NEW n \in Nat
  PROVE  \E f: WovenBy(text, hunks, n, f)
<1> DEFINE More(s, k) == Longer(text, hunks, s, k)
           At(f, k) == IF k = 0 THEN <<>> ELSE More(f[k - 1], k)
           Runs(f, k) == f = [x \in 0..k |-> At(f, x)]
           S == {k \in Nat : \E f: Runs(f, k)}
<1> HIDE DEF More
<1>1. 0 \in S
  <2> DEFINE f == [x \in 0..0 |-> <<>>]
  <2>1. f = [x \in 0..0 |-> At(f, x)]
    OBVIOUS
  <2> QED
    BY <2>1
<1>2. ASSUME NEW k \in Nat, k \in S PROVE k + 1 \in S
  <2>1. PICK f: Runs(f, k)
    BY <1>2
  <2> DEFINE g == [x \in 0..(k + 1) |-> IF x = k + 1 THEN More(f[k], k + 1) ELSE f[x]]
  <2>2. g[k + 1] = More(f[k], k + 1) /\ \A x \in 0..k: g[x] = f[x]
    OBVIOUS
  <2>3. \A x \in 0..k: f[x] = At(f, x)
    BY <2>1
  <2>4. ASSUME NEW x \in 0..(k + 1) PROVE g[x] = At(g, x)
    <3> HIDE DEF g
    <3>1. CASE x = 0
      BY <2>2, <2>3, <3>1
    <3>2. CASE x \in 1..k
      <4>1. x \in 0..k /\ x - 1 \in 0..k /\ x # 0
        BY <3>2
      <4> QED
        BY <2>2, <2>3, <4>1
    <3>3. CASE x = k + 1
      <4>1. k \in 0..k /\ k + 1 # 0 /\ (k + 1) - 1 = k
        OBVIOUS
      <4> QED
        BY <2>2, <3>3, <4>1
    <3> QED
      BY <3>1, <3>2, <3>3
  <2> HIDE DEF At
  <2>5. g = [x \in 0..(k + 1) |-> At(g, x)]
    BY <2>4
  <2> HIDE DEF g
  <2> QED
    BY <2>5
<1>3. n \in S
  <2> HIDE DEF S
  <2> QED
    BY <1>1, <1>2, Induction
<1>4. \E f: f = [x \in 0..n |-> At(f, x)]
  BY <1>3
<1> QED
  BY <1>4, Zenon DEF More, WovenBy

LEMMA WovenOK ==
  ASSUME NEW text \in Seq(Line), NEW hunks \in Seq(HunkSet), NEW n \in Nat, n = Len(hunks)
  PROVE  IsWoven(text, hunks, n, Woven(text, hunks))
<1> DEFINE w == Woven(text, hunks)
<1>0. w = CHOOSE f: WovenBy(text, hunks, n, f)
  BY DEF Woven, Longer, WovenBy
<1> HIDE DEF w
<1>1. w = [k \in 0..n |-> IF k = 0 THEN <<>> ELSE Longer(text, hunks, w[k - 1], k)]
  <2>1. \E f: WovenBy(text, hunks, n, f)
    BY WovenExists
  <2>2. WovenBy(text, hunks, n, w)
    BY <1>0, <2>1
  <2> QED
    BY <2>2, Zenon DEF WovenBy
<1>2. w[0] = <<>>
  BY <1>1
<1>3. \A k \in 1..n: w[k] = Longer(text, hunks, w[k - 1], k)
  <2> SUFFICES ASSUME NEW k \in 1..n
               PROVE  w[k] = Longer(text, hunks, w[k - 1], k)
    OBVIOUS
  <2>1. k \in 0..n /\ k # 0
    OBVIOUS
  <2> QED
    BY <1>1, <2>1
<1>4. ASSUME NEW k \in 1..n
      PROVE  /\ Between(text, EndOf(hunks, k - 1), hunks[k].start) \in Seq(Line)
             /\ hunks[k].lines \in Seq(Line)
  <2>1. hunks[k] \in HunkSet
    BY ElementOfSeq
  <2>2. EndOf(hunks, k - 1) \in Nat
    <3>1. CASE k = 1
      BY <3>1 DEF EndOf
    <3>2. CASE k # 1
      <4>1. k - 1 \in 1..n /\ k - 1 # 0
        BY <3>2
      <4>2. hunks[k - 1] \in HunkSet
        BY <4>1, ElementOfSeq
      <4> QED
        BY <4>1, <4>2 DEF EndOf, HunkSet
    <3> QED
      BY <3>1, <3>2
  <2>3. hunks[k].start \in Nat /\ hunks[k].lines \in Seq(Line)
    BY <2>1 DEF HunkSet
  <2> QED
    BY <2>2, <2>3, BetweenOK
<1> DEFINE S == {k \in Nat : k <= n => w[k] \in Seq(Line)}
<1>5. 0 \in S
  BY <1>2, EmptySeq
<1>6. ASSUME NEW k \in Nat, k \in S PROVE k + 1 \in S
  <2> SUFFICES ASSUME k + 1 <= n PROVE w[k + 1] \in Seq(Line)
    OBVIOUS
  <2>1. w[k] \in Seq(Line) /\ k + 1 \in 1..n /\ (k + 1) - 1 = k
    BY <1>6
  <2>2. PICK s, t: /\ s = Between(text, EndOf(hunks, (k + 1) - 1), hunks[k + 1].start)
                   /\ t = hunks[k + 1].lines /\ s \in Seq(Line) /\ t \in Seq(Line)
    BY <1>4, <2>1
  <2>3. w[k + 1] = w[k] \o s \o t
    BY <1>3, <2>1, <2>2 DEF Longer
  <2> HIDE DEF S
  <2>4. w[k] \o s \in Seq(Line)
    BY <2>1, <2>2, ConcatProperties
  <2> QED
    BY <2>2, <2>3, <2>4, ConcatProperties
<1>7. \A k \in Nat: k \in S
  <2> HIDE DEF S
  <2> QED
    BY <1>5, <1>6, Induction
<1>8. \A k \in 0..n: w[k] \in Seq(Line)
  BY <1>7
<1> QED
  BY <1>2, <1>3, <1>8, Zenon DEF IsWoven, w

LEMMA WovenSame ==
  ASSUME NEW text \in Seq(Line), NEW h \in Seq(HunkSet), NEW g \in Seq(HunkSet),
         NEW n \in 0..Len(h), n <= Len(g), \A k \in 1..n: h[k] = g[k]
  PROVE  Woven(text, h)[n] = Woven(text, g)[n]
<1>1. PICK v, w: v = Woven(text, h) /\ w = Woven(text, g)
  OBVIOUS
<1>2. Len(h) \in Nat /\ Len(g) \in Nat /\ n \in Nat
  BY LenProperties
<1>3. IsWoven(text, h, Len(h), v) /\ IsWoven(text, g, Len(g), w)
  BY <1>1, <1>2, WovenOK
<1>4. /\ v[0] = <<>> /\ \A k \in 1..Len(h): v[k] = Longer(text, h, v[k - 1], k)
      /\ w[0] = <<>> /\ \A k \in 1..Len(g): w[k] = Longer(text, g, w[k - 1], k)
  BY <1>3 DEF IsWoven
<1> DEFINE S == {k \in Nat : k <= n => v[k] = w[k]}
<1>5. 0 \in S
  BY <1>4
<1>6. ASSUME NEW k \in Nat, k \in S PROVE k + 1 \in S
  <2> SUFFICES ASSUME k + 1 <= n PROVE v[k + 1] = w[k + 1]
    OBVIOUS
  <2>1. /\ v[k] = w[k] /\ k + 1 \in 1..n /\ k + 1 \in 1..Len(h) /\ k + 1 \in 1..Len(g)
        /\ (k + 1) - 1 = k
    BY <1>2, <1>6
  <2>2. EndOf(h, k) = EndOf(g, k) /\ h[k + 1] = g[k + 1]
    BY <1>2, <2>1 DEF EndOf
  <2>3. v[k + 1] = v[k] \o Between(text, EndOf(h, k), h[k + 1].start) \o h[k + 1].lines
    BY <1>4, <2>1 DEF Longer
  <2>4. w[k + 1] = w[k] \o Between(text, EndOf(g, k), g[k + 1].start) \o g[k + 1].lines
    BY <1>4, <2>1 DEF Longer
  <2> HIDE DEF S
  <2> QED
    BY <2>1, <2>2, <2>3, <2>4
<1>7. n \in S
  <2> HIDE DEF S
  <2> QED
    BY <1>2, <1>5, <1>6, Induction
<1> QED
  BY <1>1, <1>7

----------------------------------------------------------------------------
(***************************************************************************)
(* One edit more.  acc is what Group has made of the edits of the first i  *)
(* lines.                                                                  *)
(***************************************************************************)
InHunk(hunks, p) == \E k \in 1..Len(hunks): p \in (hunks[k].start + 1)..hunks[k].end
KeptUpto(hunks, i) == {p \in 1..i : ~InHunk(hunks, p)}
TextUpto(text, hunks, i) ==
  Woven(text, hunks)[Len(hunks)] \o Between(text, EndOf(hunks, Len(hunks)), i)

\* The hunks are in order and apart, and an open one ends here.
HunksOK(hunks, i, open) ==
  /\ hunks \in Seq(HunkSet)
  /\ \A k \in 1..Len(hunks): /\ hunks[k].start <= hunks[k].end
                             /\ hunks[k].end <= i
                             /\ open \/ hunks[k].end < i
  /\ \A k \in 1..Len(hunks): k > 1 => hunks[k - 1].end < hunks[k].start
  /\ open => Len(hunks) > 0 /\ hunks[Len(hunks)].end = i

Associative(s, t, u) == (s \o t) \o u = s \o (t \o u)

LEMMA JoinsAre == \A s, t, u \in Seq(Line): Associative(s, t, u)
BY ConcatAssociative DEF Associative

LEMMA JoinAssociative ==
  \A s, t, u \in Seq(Line): (s \o t) \o u = s \o (t \o u) /\ s \o t \in Seq(Line) /\ s \o <<>> = s
<1> SUFFICES ASSUME NEW s \in Seq(Line), NEW t \in Seq(Line), NEW u \in Seq(Line)
             PROVE  (s \o t) \o u = s \o (t \o u) /\ s \o t \in Seq(Line) /\ s \o <<>> = s
  OBVIOUS
<1>1. (s \o t) \o u = s \o (t \o u)
  BY ConcatAssociative
<1>2. s \o t \in Seq(Line)
  BY ConcatProperties
<1>3. s \o <<>> = s
  BY ConcatEmptySeq
<1> QED
  BY <1>1, <1>2, <1>3

\* An equal line.
LEMMA EqualLine ==
  ASSUME NEW text \in Seq(Line), NEW i \in Nat, i < Len(text), NEW open \in BOOLEAN,
         NEW hunks, HunksOK(hunks, i, open)
  PROVE  /\ HunksOK(hunks, i + 1, FALSE)
         /\ TextUpto(text, hunks, i + 1) = TextUpto(text, hunks, i) \o <<text[i + 1]>>
         /\ KeptUpto(hunks, i + 1) = KeptUpto(hunks, i) \cup {i + 1}
<1>1. PICK n \in Nat: n = Len(hunks)
  BY LenProperties DEF HunksOK
<1>2. \A k \in 1..n: hunks[k] \in HunkSet
  BY <1>1, ElementOfSeq DEF HunksOK
<1>3. \A k \in 1..n: hunks[k].start \in Nat /\ hunks[k].end \in Nat /\ hunks[k].lines \in Seq(Line)
  BY <1>2 DEF HunkSet
<1>4. HunksOK(hunks, i + 1, FALSE)
  BY <1>1, <1>3 DEF HunksOK
<1>5. PICK e \in Nat: e = EndOf(hunks, n) /\ e <= i
  BY <1>1, <1>3 DEF EndOf, HunksOK
<1>6. Between(text, e, i + 1) = Between(text, e, i) \o <<text[i + 1]>> /\ Between(text, e, i) \in Seq(Line)
  BY <1>5, BetweenOK
<1>7. PICK w: w = Woven(text, hunks)[n] /\ w \in Seq(Line)
  <2>1. IsWoven(text, hunks, n, Woven(text, hunks))
    BY <1>1, WovenOK DEF HunksOK
  <2> QED
    BY <2>1 DEF IsWoven
<1>8. <<text[i + 1]>> \in Seq(Line)
  <2>1. text[i + 1] \in Line
    <3>1. i + 1 \in 1..Len(text)
      BY LenProperties
    <3> QED
      BY <3>1, ElementOfSeq
  <2> QED
    BY <2>1
<1>9. w \o (Between(text, e, i) \o <<text[i + 1]>>) = (w \o Between(text, e, i)) \o <<text[i + 1]>>
  <2>1. PICK x \in Seq(Line), y \in Seq(Line): x = Between(text, e, i) /\ y = <<text[i + 1]>>
    BY <1>6, <1>8, Zenon
  <2>2. (w \o x) \o y = w \o (x \o y)
    <3>1. w \in Seq(Line)
      BY <1>7
    <3> QED
      BY <3>1, JoinAssociative
  <2> QED
    BY <2>1, <2>2, Zenon
<1>10. TextUpto(text, hunks, i + 1) = TextUpto(text, hunks, i) \o <<text[i + 1]>>
  BY <1>1, <1>5, <1>6, <1>7, <1>9, Zenon DEF TextUpto
<1>11. KeptUpto(hunks, i + 1) = KeptUpto(hunks, i) \cup {i + 1}
  <2>1. ~InHunk(hunks, i + 1)
    <3> SUFFICES ASSUME NEW k \in 1..n, i + 1 \in (hunks[k].start + 1)..hunks[k].end
                 PROVE  FALSE
      BY <1>1 DEF InHunk
    <3>1. hunks[k].end <= i /\ hunks[k].end \in Nat /\ hunks[k].start \in Nat
      BY <1>1, <1>3 DEF HunksOK
    <3> QED
      BY <3>1
  <2> HIDE DEF InHunk
  <2>2. \A p: p \in 1..(i + 1) <=> p \in 1..i \/ p = i + 1
    OBVIOUS
  <2> QED
    BY <2>1, <2>2, Zenon DEF KeptUpto
<1> QED
  BY <1>4, <1>10, <1>11

\* Opening a hunk where none is open.
LEMMA NewHunk ==
  ASSUME NEW text \in Seq(Line), NEW i \in Nat,
         NEW hunks, HunksOK(hunks, i, FALSE),
         NEW more, more = Append(hunks, Hunk(i, i, <<>>))
  PROVE  /\ HunksOK(more, i, TRUE)
         /\ TextUpto(text, more, i) = TextUpto(text, hunks, i)
         /\ KeptUpto(more, i) = KeptUpto(hunks, i)
<1>1. PICK n \in Nat: n = Len(hunks)
  BY LenProperties DEF HunksOK
<1>2. \A k \in 1..n: hunks[k] \in HunkSet
  BY <1>1, ElementOfSeq DEF HunksOK
<1>3. \A k \in 1..n: hunks[k].start \in Nat /\ hunks[k].end \in Nat /\ hunks[k].lines \in Seq(Line)
  BY <1>2 DEF HunkSet
<1>4. PICK h \in HunkSet: h = Hunk(i, i, <<>>) /\ h.start = i /\ h.end = i /\ h.lines = <<>>
  <2>1. <<>> \in Seq(Line)
    BY EmptySeq
  <2>2. Hunk(i, i, <<>>) \in HunkSet
    BY <2>1 DEF Hunk, HunkSet
  <2>3. /\ Hunk(i, i, <<>>).start = i /\ Hunk(i, i, <<>>).end = i
        /\ Hunk(i, i, <<>>).lines = <<>>
    BY DEF Hunk
  <2> QED
    BY <2>2, <2>3, Zenon
<1>5. /\ more \in Seq(HunkSet) /\ Len(more) = n + 1 /\ more[n + 1] = h
      /\ \A k \in 1..n: more[k] = hunks[k]
  BY <1>1, <1>4, AppendProperties DEF HunksOK
<1>6. HunksOK(more, i, TRUE)
  <2>1. ASSUME NEW k \in 1..(n + 1)
        PROVE  more[k].start <= more[k].end /\ more[k].end <= i
    <3>1. CASE k \in 1..n
      BY <1>1, <1>5, <3>1 DEF HunksOK
    <3>2. CASE k = n + 1
      BY <1>4, <1>5, <3>2
    <3>3. k \in 1..n \/ k = n + 1
      OBVIOUS
    <3> QED
      BY <3>1, <3>2, <3>3, Zenon
  <2>2. ASSUME NEW k \in 1..(n + 1), k > 1 PROVE more[k - 1].end < more[k].start
    <3>1. CASE k \in 1..n
      <4>1. k - 1 \in 1..n
        BY <2>2, <3>1
      <4> QED
        BY <1>1, <1>5, <2>2, <3>1, <4>1 DEF HunksOK
    <3>2. CASE k = n + 1
      <4>1. k - 1 = n /\ n \in 1..n
        BY <2>2, <3>2
      <4>2. hunks[n].end < i
        BY <1>1, <4>1 DEF HunksOK
      <4> QED
        BY <1>4, <1>5, <3>2, <4>1, <4>2
    <3>3. k \in 1..n \/ k = n + 1
      OBVIOUS
    <3> QED
      BY <3>1, <3>2, <3>3, Zenon
  <2> QED
    BY <1>4, <1>5, <2>1, <2>2 DEF HunksOK
<1>7. PICK e \in Nat: e = EndOf(hunks, n) /\ e <= i
  BY <1>1, <1>3 DEF EndOf, HunksOK
<1>8. PICK w: w = Woven(text, hunks)[n] /\ w \in Seq(Line) /\ w = Woven(text, more)[n]
  <2>1. IsWoven(text, hunks, n, Woven(text, hunks))
    BY <1>1, WovenOK DEF HunksOK
  <2>2. Woven(text, hunks)[n] = Woven(text, more)[n]
    <3>1. n \in 0..Len(hunks) /\ n <= Len(more) /\ \A k \in 1..n: hunks[k] = more[k]
      BY <1>1, <1>5
    <3> QED
      BY <1>5, <3>1, WovenSame DEF HunksOK
  <2> QED
    BY <2>1, <2>2 DEF IsWoven
<1>9. EndOf(more, n) = e /\ EndOf(more, n + 1) = i
  BY <1>1, <1>4, <1>5, <1>7 DEF EndOf
<1>10. Woven(text, more)[n + 1] = w \o Between(text, e, i) \o <<>>
  <2>1. IsWoven(text, more, n + 1, Woven(text, more))
    <3>1. n + 1 \in Nat
      OBVIOUS
    <3> QED
      BY <1>5, <3>1, WovenOK
  <2>2. n + 1 \in 1..(n + 1) /\ (n + 1) - 1 = n
    OBVIOUS
  <2>3. Woven(text, more)[n + 1] = Longer(text, more, Woven(text, more)[n], n + 1)
    BY <2>1, <2>2 DEF IsWoven
  <2> QED
    BY <1>4, <1>5, <1>8, <1>9, <2>2, <2>3, Zenon DEF Longer
<1>11. PICK x \in Seq(Line): x = Between(text, e, i)
  BY BetweenOK
<1>12. Between(text, i, i) = <<>>
  <2>1. i <= i
    OBVIOUS
  <2> QED
    BY <2>1, BetweenOK, Zenon
<1>13. TextUpto(text, more, i) = TextUpto(text, hunks, i)
  <2>1. TextUpto(text, more, i) = ((w \o x) \o <<>>) \o <<>>
    BY <1>5, <1>9, <1>10, <1>11, <1>12, Zenon DEF TextUpto
  <2>2. TextUpto(text, hunks, i) = w \o x
    BY <1>1, <1>7, <1>8, <1>11, Zenon DEF TextUpto
  <2>3. w \o x \in Seq(Line)
    BY <1>8, ConcatProperties
  <2>4. (w \o x) \o <<>> = w \o x
    BY <2>3, ConcatEmptySeq
  <2> QED
    BY <2>1, <2>2, <2>4
<1>14. KeptUpto(more, i) = KeptUpto(hunks, i)
  <2>1. ASSUME NEW p \in 1..i PROVE InHunk(more, p) <=> InHunk(hunks, p)
    <3>1. p \notin (h.start + 1)..h.end
      BY <1>4
    <3>2. ASSUME InHunk(hunks, p) PROVE InHunk(more, p)
      BY <1>1, <1>5, <3>2 DEF InHunk
    <3>3. ASSUME InHunk(more, p) PROVE InHunk(hunks, p)
      <4>1. PICK k \in 1..(n + 1): p \in (more[k].start + 1)..more[k].end
        BY <1>5, <3>3 DEF InHunk
      <4>2. k # n + 1
        BY <1>5, <3>1, <4>1
      <4>3. k \in 1..n
        BY <4>2
      <4> QED
        BY <1>1, <1>5, <4>1, <4>3 DEF InHunk
    <3> QED
      BY <3>2, <3>3
  <2> QED
    BY <2>1, Zenon DEF KeptUpto
<1> QED
  BY <1>6, <1>13, <1>14

----------------------------------------------------------------------------
\* What comes before the lines of the last hunk.
Ahead(text, hunks) ==
  Woven(text, hunks)[Len(hunks) - 1]
    \o Between(text, EndOf(hunks, Len(hunks) - 1), hunks[Len(hunks)].start)

EndsWithHunk(text, hunks, i) ==
  TextUpto(text, hunks, i) = Ahead(text, hunks) \o hunks[Len(hunks)].lines

LEMMA OpenHunk ==
  ASSUME NEW text \in Seq(Line), NEW i \in Nat, NEW hunks, HunksOK(hunks, i, TRUE)
  PROVE  /\ Len(hunks) \in Nat /\ Len(hunks) > 0
         /\ hunks[Len(hunks)] \in HunkSet /\ hunks[Len(hunks)].end = i
         /\ Ahead(text, hunks) \in Seq(Line)
         /\ EndsWithHunk(text, hunks, i)
<1>0. PICK n \in Nat: n = Len(hunks)
  BY LenProperties DEF HunksOK
<1>1. n \in 1..n /\ hunks[n] \in HunkSet /\ hunks[n].end = i
  <2>1. n > 0 /\ hunks[n].end = i /\ hunks \in Seq(HunkSet)
    BY <1>0 DEF HunksOK
  <2>2. n \in 1..n
    BY <2>1
  <2> QED
    BY <1>0, <2>1, <2>2, ElementOfSeq
<1>2. IsWoven(text, hunks, n, Woven(text, hunks))
  BY <1>0, WovenOK DEF HunksOK
<1>3. PICK w, z: w = Woven(text, hunks)[n - 1] /\ z = Woven(text, hunks)[n]
  OBVIOUS
<1>4. w \in Seq(Line) /\ z = Longer(text, hunks, w, n)
  <2>1. n - 1 \in 0..n
    BY <1>1
  <2> QED
    BY <1>1, <1>2, <1>3, <2>1 DEF IsWoven
<1>5. PICK y \in Seq(Line): y = Between(text, EndOf(hunks, n - 1), hunks[n].start)
  <2>1. EndOf(hunks, n - 1) \in Nat
    <3>1. CASE n = 1
      BY <3>1 DEF EndOf
    <3>2. CASE n # 1
      <4>1. n - 1 \in 1..n /\ n - 1 # 0
        BY <1>1, <3>2
      <4>2. hunks[n - 1] \in HunkSet
        BY <1>0, <4>1, ElementOfSeq DEF HunksOK
      <4> QED
        BY <4>1, <4>2 DEF EndOf, HunkSet
    <3> QED
      BY <3>1, <3>2
  <2>2. hunks[n].start \in Nat
    BY <1>1 DEF HunkSet
  <2> QED
    BY <2>1, <2>2, BetweenOK
<1>6. PICK l \in Seq(Line): l = hunks[n].lines
  BY <1>1 DEF HunkSet
<1>7. z = w \o y \o l
  BY <1>4, <1>5, <1>6, Zenon DEF Longer
<1>8. Between(text, i, i) = <<>>
  <2>1. i <= i
    OBVIOUS
  <2> QED
    BY <2>1, BetweenOK, Zenon
<1>9. EndOf(hunks, n) = i
  <2>1. n # 0
    BY <1>1
  <2> QED
    BY <1>1, <2>1, Zenon DEF EndOf
<1>10. TextUpto(text, hunks, i) = z \o <<>>
  BY <1>0, <1>3, <1>8, <1>9, Zenon DEF TextUpto
<1>11. w \o y \in Seq(Line)
  BY <1>4, JoinAssociative
<1>12. (w \o y) \o l \in Seq(Line)
  BY <1>11, JoinAssociative
<1>13. z \o <<>> = z
  BY <1>7, <1>12, JoinAssociative
<1>14. Ahead(text, hunks) = w \o y
  BY <1>0, <1>3, <1>5, Zenon DEF Ahead
<1>15. n > 0
  BY <1>1
<1>16. EndsWithHunk(text, hunks, i)
  BY <1>0, <1>6, <1>7, <1>10, <1>13, <1>14, Zenon DEF EndsWithHunk
<1> QED
  BY <1>0, <1>1, <1>11, <1>14, <1>15, <1>16, Zenon

\* Only the end and the lines of the last hunk have changed.
LastBecomes(hunks, more, end, lines) ==
  /\ more \in Seq(HunkSet) /\ Len(more) = Len(hunks)
  /\ \A k \in 1..Len(hunks): more[k].start = hunks[k].start
  /\ \A k \in 1..(Len(hunks) - 1): more[k] = hunks[k]
  /\ more[Len(hunks)].end = end /\ more[Len(hunks)].lines = lines

LEMMA AheadSame ==
  ASSUME NEW text \in Seq(Line), NEW i \in Nat, NEW hunks, HunksOK(hunks, i, TRUE),
         NEW more, NEW end, NEW lines, LastBecomes(hunks, more, end, lines)
  PROVE  Ahead(text, more) = Ahead(text, hunks)
<1>1. PICK n \in Nat: n = Len(hunks) /\ n > 0
  BY OpenHunk
<1>2. /\ hunks \in Seq(HunkSet) /\ more \in Seq(HunkSet) /\ Len(more) = n
      /\ \A k \in 1..(n - 1): hunks[k] = more[k]
  BY <1>1 DEF HunksOK, LastBecomes
<1>3. more[n].start = hunks[n].start
  <2>1. n \in 1..n
    BY <1>1
  <2> QED
    BY <1>1, <2>1 DEF LastBecomes
<1>4. PICK c \in Nat: c = n - 1 /\ c \in 0..n
  BY <1>1
<1>5. Woven(text, hunks)[c] = Woven(text, more)[c]
  <2>1. c \in 0..Len(hunks) /\ c <= Len(more) /\ \A k \in 1..c: hunks[k] = more[k]
    BY <1>1, <1>2, <1>4
  <2> QED
    BY <1>2, <2>1, WovenSame
<1>6. EndOf(hunks, c) = EndOf(more, c)
  <2>1. c = 0 \/ c \in 1..(n - 1)
    BY <1>4
  <2> QED
    BY <1>2, <2>1 DEF EndOf
<1> QED
  BY <1>1, <1>2, <1>3, <1>4, <1>5, <1>6, Zenon DEF Ahead

\* The hunks stay in order when the last one ends at i or one line later.
LEMMA StillInOrder ==
  ASSUME NEW i \in Nat, NEW hunks, HunksOK(hunks, i, TRUE),
         NEW more, NEW end \in Nat, NEW lines, LastBecomes(hunks, more, end, lines), i <= end
  PROVE  HunksOK(more, end, TRUE)
<1>1. PICK n \in Nat: n = Len(hunks) /\ n > 0
  BY LenProperties DEF HunksOK
<1>2. ASSUME NEW k \in 1..n
      PROVE  hunks[k].start \in Nat /\ hunks[k].end \in Nat /\ hunks[k].start <= hunks[k].end
             /\ hunks[k].end <= i
  <2>1. hunks[k] \in HunkSet
    BY <1>1, ElementOfSeq DEF HunksOK
  <2> QED
    BY <1>1, <2>1 DEF HunkSet, HunksOK
<1>3. /\ more \in Seq(HunkSet) /\ Len(more) = n /\ more[n].end = end
      /\ \A k \in 1..n: more[k].start = hunks[k].start
      /\ \A k \in 1..(n - 1): more[k].end = hunks[k].end
  BY <1>1 DEF LastBecomes
<1>4. hunks[n].end = i
  BY <1>1 DEF HunksOK
<1>5. ASSUME NEW k \in 1..n PROVE more[k].start <= more[k].end /\ more[k].end <= end
  <2>1. PICK x \in Nat, y \in Nat: x = hunks[k].start /\ y = hunks[k].end /\ x <= y /\ y <= i
    BY <1>2
  <2>2. CASE k = n
    BY <1>3, <2>1, <2>2
  <2>3. CASE k # n
    <3>1. k \in 1..(n - 1)
      BY <2>3
    <3> QED
      BY <1>3, <2>1, <3>1
  <2> QED
    BY <2>2, <2>3
<1>6. ASSUME NEW k \in 1..n, k > 1 PROVE more[k - 1].end < more[k].start
  <2>1. hunks[k - 1].end < hunks[k].start
    BY <1>1, <1>6 DEF HunksOK
  <2>2. k - 1 \in 1..(n - 1)
    BY <1>6
  <2> QED
    BY <1>3, <2>1, <2>2
<1> QED
  BY <1>1, <1>3, <1>5, <1>6 DEF HunksOK

\* One more line of the base in the open hunk.
LEMMA DeletedLine ==
  ASSUME NEW text \in Seq(Line), NEW i \in Nat, NEW hunks, HunksOK(hunks, i, TRUE),
         NEW more, LastBecomes(hunks, more, i + 1, hunks[Len(hunks)].lines)
  PROVE  /\ HunksOK(more, i + 1, TRUE)
         /\ TextUpto(text, more, i + 1) = TextUpto(text, hunks, i)
         /\ KeptUpto(more, i + 1) = KeptUpto(hunks, i)
<1>1. PICK n \in Nat: n = Len(hunks) /\ n > 0 /\ hunks[n].end = i
  BY OpenHunk
<1>2. i + 1 \in Nat /\ i <= i + 1 /\ n \in 1..n
  BY <1>1
<1>3. HunksOK(more, i + 1, TRUE)
  BY <1>2, StillInOrder
<1>4. /\ Len(more) = n /\ more[n].lines = hunks[n].lines /\ more[n].end = i + 1
      /\ more[n].start = hunks[n].start /\ \A k \in 1..(n - 1): more[k] = hunks[k]
  BY <1>1, <1>2 DEF LastBecomes
<1>5. TextUpto(text, more, i + 1) = TextUpto(text, hunks, i)
  <2>1. TextUpto(text, hunks, i) = Ahead(text, hunks) \o hunks[n].lines
    <3>1. EndsWithHunk(text, hunks, i)
      BY OpenHunk
    <3> QED
      BY <1>1, <3>1, Zenon DEF EndsWithHunk
  <2>2. TextUpto(text, more, i + 1) = Ahead(text, more) \o more[n].lines
    <3>1. EndsWithHunk(text, more, i + 1)
      BY <1>2, <1>3, OpenHunk
    <3> QED
      BY <1>4, <3>1, Zenon DEF EndsWithHunk
  <2>3. Ahead(text, more) = Ahead(text, hunks)
    BY AheadSame
  <2> QED
    BY <1>4, <2>1, <2>2, <2>3, Zenon
<1>6. PICK x \in Nat: x = hunks[n].start /\ x <= i
  <2>1. hunks[n].start \in Nat
    <3>1. hunks[n] \in HunkSet
      BY <1>1, OpenHunk
    <3> QED
      BY <3>1 DEF HunkSet
  <2>2. hunks[n].start <= hunks[n].end
    BY <1>1, <1>2 DEF HunksOK
  <2> QED
    BY <1>1, <2>1, <2>2
<1>7. InHunk(more, i + 1)
  BY <1>2, <1>4, <1>6 DEF InHunk
<1>8. ASSUME NEW p \in 1..i PROVE InHunk(more, p) <=> InHunk(hunks, p)
  <2>1. p \in (x + 1)..(i + 1) <=> p \in (x + 1)..i
    OBVIOUS
  <2>2. ASSUME NEW k \in 1..n
        PROVE  p \in (more[k].start + 1)..more[k].end <=> p \in (hunks[k].start + 1)..hunks[k].end
    <3>1. CASE k = n
      BY <1>1, <1>4, <1>6, <2>1, <3>1, Zenon
    <3>2. CASE k # n
      <4>1. k \in 1..(n - 1)
        BY <3>2
      <4> QED
        BY <1>4, <4>1, Zenon
    <3> QED
      BY <3>1, <3>2
  <2> QED
    BY <1>1, <1>4, <2>2, Zenon DEF InHunk
<1>9. \A p: p \in 1..(i + 1) <=> p \in 1..i \/ p = i + 1
  OBVIOUS
<1>10. i + 1 \notin 1..i
  OBVIOUS
<1>11. KeptUpto(more, i + 1) = KeptUpto(hunks, i)
  BY <1>7, <1>8, <1>9, <1>10, Zenon DEF KeptUpto
<1> QED
  BY <1>3, <1>5, <1>11

\* One more line of the new text in it.
LEMMA InsertedLine ==
  ASSUME NEW text \in Seq(Line), NEW i \in Nat, NEW line \in Line,
         NEW hunks, HunksOK(hunks, i, TRUE),
         NEW more, LastBecomes(hunks, more, i, hunks[Len(hunks)].lines \o <<line>>)
  PROVE  /\ HunksOK(more, i, TRUE)
         /\ TextUpto(text, more, i) = TextUpto(text, hunks, i) \o <<line>>
         /\ KeptUpto(more, i) = KeptUpto(hunks, i)
<1>1. PICK n \in Nat: n = Len(hunks) /\ n > 0 /\ hunks[n].end = i /\ hunks[n] \in HunkSet
  BY OpenHunk
<1>2. i <= i /\ n \in 1..n
  BY <1>1
<1>3. HunksOK(more, i, TRUE)
  BY <1>2, StillInOrder
<1>4. /\ Len(more) = n /\ more[n].lines = hunks[n].lines \o <<line>> /\ more[n].end = i
      /\ more[n].start = hunks[n].start /\ \A k \in 1..(n - 1): more[k] = hunks[k]
  BY <1>1, <1>2 DEF LastBecomes
<1>5. PICK l \in Seq(Line): l = hunks[n].lines
  BY <1>1 DEF HunkSet
<1>6. PICK f \in Seq(Line): f = Ahead(text, hunks)
  BY OpenHunk
<1>7. TextUpto(text, more, i) = TextUpto(text, hunks, i) \o <<line>>
  <2>1. TextUpto(text, hunks, i) = f \o l
    <3>1. EndsWithHunk(text, hunks, i)
      BY OpenHunk
    <3> QED
      BY <1>1, <1>5, <1>6, <3>1, Zenon DEF EndsWithHunk
  <2>2. TextUpto(text, more, i) = Ahead(text, more) \o more[n].lines
    <3>1. EndsWithHunk(text, more, i)
      BY <1>3, OpenHunk
    <3> QED
      BY <1>4, <3>1, Zenon DEF EndsWithHunk
  <2>3. Ahead(text, more) = f
    BY <1>6, AheadSame
  <2>4. (f \o l) \o <<line>> = f \o (l \o <<line>>)
    <3>1. PICK y \in Seq(Line): y = <<line>>
      <4>1. <<line>> \in Seq(Line)
        OBVIOUS
      <4> QED
        BY <4>1, Zenon
    <3>2. (f \o l) \o y = f \o (l \o y)
      <4>1. Associative(f, l, y)
        BY <1>5, <1>6, <3>1, JoinsAre
      <4> QED
        BY <4>1, Zenon DEF Associative
    <3> QED
      BY <3>1, <3>2, Zenon
  <2> QED
    BY <1>4, <1>5, <2>1, <2>2, <2>3, <2>4, Zenon
<1>8. \A k \in 1..n: more[k].start = hunks[k].start /\ more[k].end = hunks[k].end
  <2> SUFFICES ASSUME NEW k \in 1..n
               PROVE  more[k].start = hunks[k].start /\ more[k].end = hunks[k].end
    OBVIOUS
  <2>1. k = n \/ k \in 1..(n - 1)
    OBVIOUS
  <2> QED
    BY <1>1, <1>4, <2>1, Zenon
<1>9. KeptUpto(more, i) = KeptUpto(hunks, i)
  BY <1>1, <1>4, <1>8, Zenon DEF KeptUpto, InHunk
<1> QED
  BY <1>3, <1>7, <1>9

----------------------------------------------------------------------------
\* The text up to i has grown by a line.
Grows(text, before, i, after, j, line) ==
  TextUpto(text, after, j) = TextUpto(text, before, i) \o <<line>>

\* Group, edit by edit.
AccOK(acc, i) ==
  /\ acc \in [open : BOOLEAN, hunks : Seq(HunkSet)]
  /\ HunksOK(acc.hunks, i, acc.open)

Opened(acc, i) ==
  IF acc.open THEN acc.hunks ELSE Append(acc.hunks, Hunk(i, i, <<>>))

LEMMA OpenedOK ==
  ASSUME NEW text \in Seq(Line), NEW i \in Nat, NEW acc, AccOK(acc, i),
         NEW hunks, hunks = Opened(acc, i)
  PROVE  /\ HunksOK(hunks, i, TRUE)
         /\ TextUpto(text, hunks, i) = TextUpto(text, acc.hunks, i)
         /\ KeptUpto(hunks, i) = KeptUpto(acc.hunks, i)
<1>1. acc.open \in BOOLEAN /\ HunksOK(acc.hunks, i, acc.open)
  BY DEF AccOK
<1>2. CASE acc.open = TRUE
  BY <1>1, <1>2, Zenon DEF Opened
<1>3. CASE acc.open = FALSE
  <2>1. hunks = Append(acc.hunks, Hunk(i, i, <<>>)) /\ HunksOK(acc.hunks, i, FALSE)
    BY <1>1, <1>3, Zenon DEF Opened
  <2> QED
    BY <2>1, NewHunk
<1> QED
  BY <1>1, <1>2, <1>3

LEMMA GroupEqual ==
  ASSUME NEW text \in Seq(Line), NEW i \in Nat, i < Len(text), NEW acc, AccOK(acc, i),
         NEW p, NEW line, NEW next, next = Group(acc, Edit("=", p, line))
  PROVE  /\ AccOK(next, i + 1)
         /\ Grows(text, acc.hunks, i, next.hunks, i + 1, text[i + 1])
         /\ KeptUpto(next.hunks, i + 1) = KeptUpto(acc.hunks, i) \cup {i + 1}
<1>1. acc \in [open : BOOLEAN, hunks : Seq(HunkSet)] /\ HunksOK(acc.hunks, i, acc.open)
  BY DEF AccOK
<1>2. next = [acc EXCEPT !.open = FALSE]
  BY DEF Group, Edit
<1>3. /\ next \in [open : BOOLEAN, hunks : Seq(HunkSet)]
      /\ next.open = FALSE /\ next.hunks = acc.hunks
  BY <1>1, <1>2
<1>4. acc.open \in BOOLEAN
  BY <1>1
<1>5. /\ HunksOK(acc.hunks, i + 1, FALSE)
      /\ TextUpto(text, acc.hunks, i + 1) = TextUpto(text, acc.hunks, i) \o <<text[i + 1]>>
      /\ KeptUpto(acc.hunks, i + 1) = KeptUpto(acc.hunks, i) \cup {i + 1}
  BY <1>1, <1>4, EqualLine
<1> QED
  BY <1>3, <1>5, Zenon DEF AccOK, Grows

LEMMA OpenAcc ==
  \A h \in Seq(HunkSet): \A acc: acc = [open |-> TRUE, hunks |-> h] =>
    acc.open = TRUE /\ acc.hunks = h /\ acc \in [open : BOOLEAN, hunks : Seq(HunkSet)]
<1> SUFFICES ASSUME NEW h \in Seq(HunkSet), NEW acc, acc = [open |-> TRUE, hunks |-> h]
             PROVE  /\ acc.open = TRUE /\ acc.hunks = h
                    /\ acc \in [open : BOOLEAN, hunks : Seq(HunkSet)]
  BY Zenon
<1>1. acc.open = TRUE
  OBVIOUS
<1>2. acc.hunks = h
  OBVIOUS
<1>3. acc \in [open : BOOLEAN, hunks : Seq(HunkSet)]
  OBVIOUS
<1> QED
  BY <1>1, <1>2, <1>3

LEMMA GroupDelete ==
  ASSUME NEW text \in Seq(Line), NEW i \in Nat, NEW acc, AccOK(acc, i),
         NEW line, NEW next, next = Group(acc, Edit("-", i, line))
  PROVE  /\ AccOK(next, i + 1)
         /\ TextUpto(text, next.hunks, i + 1) = TextUpto(text, acc.hunks, i)
         /\ KeptUpto(next.hunks, i + 1) = KeptUpto(acc.hunks, i)
<1>1. PICK hunks: hunks = Opened(acc, i)
  OBVIOUS
<1>2. /\ HunksOK(hunks, i, TRUE)
      /\ TextUpto(text, hunks, i) = TextUpto(text, acc.hunks, i)
      /\ KeptUpto(hunks, i) = KeptUpto(acc.hunks, i)
  BY <1>1, OpenedOK
<1>3. next = [open |-> TRUE, hunks |-> [hunks EXCEPT ![Len(hunks)].end = @ + 1]]
  BY <1>1 DEF Group, Edit, Opened
<1>4. PICK more: more = [hunks EXCEPT ![Len(hunks)].end = @ + 1]
  OBVIOUS
<1>5. next = [open |-> TRUE, hunks |-> more]
  BY <1>3, <1>4
<1>6. PICK n \in Nat: n = Len(hunks) /\ n > 0 /\ hunks[n] \in HunkSet /\ hunks[n].end = i
  BY <1>2, OpenHunk
<1>7. LastBecomes(hunks, more, i + 1, hunks[Len(hunks)].lines)
  <2>1. PICK h: h = [hunks[n] EXCEPT !.end = @ + 1]
    OBVIOUS
  <2>2. h \in HunkSet /\ h.start = hunks[n].start /\ h.end = i + 1 /\ h.lines = hunks[n].lines
    <3>1. i + 1 \in Nat
      OBVIOUS
    <3>2. h = [hunks[n] EXCEPT !.end = i + 1]
      BY <1>6, <2>1
    <3> QED
      BY <1>6, <3>1, <3>2 DEF HunkSet
  <2>3. more = [hunks EXCEPT ![n] = h]
    BY <1>4, <1>6, <2>1
  <2>4. hunks \in Seq(HunkSet) /\ n \in 1..Len(hunks)
    BY <1>2, <1>6 DEF HunksOK
  <2>5. /\ [hunks EXCEPT ![n] = h] \in Seq(HunkSet) /\ Len([hunks EXCEPT ![n] = h]) = Len(hunks)
        /\ \A k \in 1..Len(hunks): [hunks EXCEPT ![n] = h][k] = IF k = n THEN h ELSE hunks[k]
    BY <2>2, <2>4, ExceptSeq
  <2>6. /\ more \in Seq(HunkSet) /\ Len(more) = n
        /\ \A k \in 1..n: more[k] = IF k = n THEN h ELSE hunks[k]
    BY <1>6, <2>3, <2>5, Zenon
  <2>7. n \in 1..n /\ \A k \in 1..(n - 1): k \in 1..n /\ k # n
    BY <1>6
  <2> QED
    BY <1>6, <2>2, <2>6, <2>7, Zenon DEF LastBecomes
<1>8. /\ HunksOK(more, i + 1, TRUE)
      /\ TextUpto(text, more, i + 1) = TextUpto(text, hunks, i)
      /\ KeptUpto(more, i + 1) = KeptUpto(hunks, i)
  BY <1>2, <1>7, DeletedLine
<1>9. /\ next.open = TRUE /\ next.hunks = more /\ more \in Seq(HunkSet)
      /\ next \in [open : BOOLEAN, hunks : Seq(HunkSet)]
  <2>1. more \in Seq(HunkSet)
    BY <1>8, Zenon DEF HunksOK
  <2> QED
    BY <1>5, <2>1, OpenAcc
<1> QED
  BY <1>2, <1>8, <1>9, Zenon DEF AccOK

LEMMA GroupInsert ==
  ASSUME NEW text \in Seq(Line), NEW i \in Nat, NEW acc, AccOK(acc, i),
         NEW line \in Line, NEW next, next = Group(acc, Edit("+", i, line))
  PROVE  /\ AccOK(next, i)
         /\ Grows(text, acc.hunks, i, next.hunks, i, line)
         /\ KeptUpto(next.hunks, i) = KeptUpto(acc.hunks, i)
<1>1. PICK hunks: hunks = Opened(acc, i)
  OBVIOUS
<1>2. /\ HunksOK(hunks, i, TRUE)
      /\ TextUpto(text, hunks, i) = TextUpto(text, acc.hunks, i)
      /\ KeptUpto(hunks, i) = KeptUpto(acc.hunks, i)
  BY <1>1, OpenedOK
<1>3. next = [open |-> TRUE, hunks |-> [hunks EXCEPT ![Len(hunks)].lines = Append(@, line)]]
  BY <1>1 DEF Group, Edit, Opened
<1>4. PICK more: more = [hunks EXCEPT ![Len(hunks)].lines = Append(@, line)]
  OBVIOUS
<1>5. next = [open |-> TRUE, hunks |-> more]
  BY <1>3, <1>4
<1>6. PICK n \in Nat: n = Len(hunks) /\ n > 0 /\ hunks[n] \in HunkSet /\ hunks[n].end = i
  BY <1>2, OpenHunk
<1>7. LastBecomes(hunks, more, i, hunks[Len(hunks)].lines \o <<line>>)
  <2>1. PICK h: h = [hunks[n] EXCEPT !.lines = Append(@, line)]
    OBVIOUS
  <2>2. /\ h \in HunkSet /\ h.start = hunks[n].start /\ h.end = i
        /\ h.lines = hunks[n].lines \o <<line>>
    <3>1. PICK l \in Seq(Line): l = hunks[n].lines
      BY <1>6 DEF HunkSet
    <3>2. Append(l, line) \in Seq(Line) /\ Append(l, line) = l \o <<line>>
      BY AppendProperties, AppendIsConcat
    <3>3. PICK ll \in Seq(Line): ll = Append(l, line)
      BY <3>2
    <3>4. h = [hunks[n] EXCEPT !.lines = ll]
      BY <2>1, <3>1, <3>3
    <3>5. h \in HunkSet /\ h.start = hunks[n].start /\ h.end = i /\ h.lines = ll
      BY <1>6, <3>4 DEF HunkSet
    <3> QED
      BY <3>1, <3>2, <3>3, <3>5, Zenon
  <2>3. more = [hunks EXCEPT ![n] = h]
    BY <1>4, <1>6, <2>1
  <2>4. hunks \in Seq(HunkSet) /\ n \in 1..Len(hunks)
    BY <1>2, <1>6 DEF HunksOK
  <2>5. /\ [hunks EXCEPT ![n] = h] \in Seq(HunkSet) /\ Len([hunks EXCEPT ![n] = h]) = Len(hunks)
        /\ \A k \in 1..Len(hunks): [hunks EXCEPT ![n] = h][k] = IF k = n THEN h ELSE hunks[k]
    BY <2>2, <2>4, ExceptSeq
  <2>6. /\ more \in Seq(HunkSet) /\ Len(more) = n
        /\ \A k \in 1..n: more[k] = IF k = n THEN h ELSE hunks[k]
    BY <1>6, <2>3, <2>5, Zenon
  <2>7. n \in 1..n /\ \A k \in 1..(n - 1): k \in 1..n /\ k # n
    BY <1>6
  <2> QED
    BY <1>6, <2>2, <2>6, <2>7, Zenon DEF LastBecomes
<1>8. /\ HunksOK(more, i, TRUE)
      /\ TextUpto(text, more, i) = TextUpto(text, hunks, i) \o <<line>>
      /\ KeptUpto(more, i) = KeptUpto(hunks, i)
  BY <1>2, <1>7, InsertedLine
<1>9. /\ next.open = TRUE /\ next.hunks = more /\ more \in Seq(HunkSet)
      /\ next \in [open : BOOLEAN, hunks : Seq(HunkSet)]
  <2>1. more \in Seq(HunkSet)
    BY <1>8, Zenon DEF HunksOK
  <2> QED
    BY <1>5, <2>1, OpenAcc
<1> QED
  BY <1>2, <1>8, <1>9, Zenon DEF AccOK, Grows

----------------------------------------------------------------------------
(***************************************************************************)
(* The hunks that the walk up to a cell of the table makes.                *)
(***************************************************************************)
Progress(a, b, acc, i, j, kept) ==
  /\ AccOK(acc, i)
  /\ TextUpto(a, acc.hunks, i) = Between(b, 0, j)
  /\ Cardinality(KeptUpto(acc.hunks, i)) = kept

LEMMA KeptFinite ==
  ASSUME NEW hunks, NEW i \in Nat
  PROVE  IsFiniteSet(KeptUpto(hunks, i))
<1>1. 0 \in Int /\ 1 \in Int /\ i \in Int
  OBVIOUS
<1>2. IsFiniteSet(1..i)
  BY <1>1, FS_Interval
<1>3. KeptUpto(hunks, i) \in SUBSET (1..i)
  BY DEF KeptUpto
<1> QED
  BY <1>2, <1>3, FS_Subset

LEMMA OneLineMore ==
  ASSUME NEW b \in Seq(Line), NEW j \in Nat, j < Len(b)
  PROVE  /\ Between(b, 0, j + 1) = Between(b, 0, j) \o <<b[j + 1]>>
         /\ b[j + 1] \in Line
<1>1. 0 \in Nat /\ 0 <= j
  OBVIOUS
<1>2. j + 1 \in 1..Len(b)
  BY LenProperties
<1>3. b[j + 1] \in Line
  BY <1>2, ElementOfSeq
<1>4. Between(b, 0, j + 1) = Between(b, 0, j) \o <<b[j + 1]>>
  BY <1>1, BetweenOK
<1> QED
  BY <1>3, <1>4

LEMMA ProgressStarts ==
  ASSUME NEW a \in Seq(Line), NEW b \in Seq(Line)
  PROVE  Progress(a, b, NoHunks, 0, 0, 0)
<1>1. NoHunks.hunks = <<>> /\ NoHunks.open = FALSE
  BY DEF NoHunks
<1>2. <<>> \in Seq(HunkSet) /\ Len(<<>>) = 0
  BY EmptySeq
<1>3. NoHunks \in [open : BOOLEAN, hunks : Seq(HunkSet)]
  BY <1>2 DEF NoHunks
<1>4. HunksOK(<<>>, 0, FALSE)
  BY <1>2 DEF HunksOK
<1>5. AccOK(NoHunks, 0)
  BY <1>1, <1>3, <1>4 DEF AccOK
<1>6. Between(a, 0, 0) = <<>> /\ Between(b, 0, 0) = <<>>
  <2>1. 0 \in Nat /\ 0 <= 0
    OBVIOUS
  <2> QED
    BY <2>1, BetweenOK, Zenon
<1>7. Woven(a, <<>>)[0] = <<>>
  <2>1. 0 \in Nat
    OBVIOUS
  <2>2. IsWoven(a, <<>>, 0, Woven(a, <<>>))
    BY <1>2, <2>1, WovenOK
  <2> QED
    BY <2>2 DEF IsWoven
<1>8. TextUpto(a, <<>>, 0) = <<>> \o <<>>
  <2>1. EndOf(<<>>, 0) = 0
    BY DEF EndOf
  <2> QED
    BY <1>2, <1>6, <1>7, <2>1, Zenon DEF TextUpto
<1>9. <<>> \o <<>> = <<>>
  <2>1. <<>> \in Seq(Line)
    BY EmptySeq
  <2> QED
    BY <2>1, ConcatEmptySeq
<1>10. KeptUpto(<<>>, 0) = {}
  BY DEF KeptUpto
<1>11. Cardinality(KeptUpto(<<>>, 0)) = 0
  BY <1>10, FS_EmptySet
<1> QED
  BY <1>1, <1>5, <1>6, <1>8, <1>9, <1>11, Zenon DEF Progress

LEMMA ProgressEqual ==
  ASSUME NEW a \in Seq(Line), NEW b \in Seq(Line), NEW i \in Nat, NEW j \in Nat,
         i < Len(a), j < Len(b), a[i + 1] = b[j + 1],
         NEW acc, NEW kept \in Nat, Progress(a, b, acc, i, j, kept), NEW p, NEW line
  PROVE  Progress(a, b, Group(acc, Edit("=", p, line)), i + 1, j + 1, kept + 1)
<1>1. PICK next: next = Group(acc, Edit("=", p, line))
  OBVIOUS
<1>2. /\ AccOK(next, i + 1)
      /\ Grows(a, acc.hunks, i, next.hunks, i + 1, a[i + 1])
      /\ KeptUpto(next.hunks, i + 1) = KeptUpto(acc.hunks, i) \cup {i + 1}
  <2>1. AccOK(acc, i)
    BY DEF Progress
  <2> QED
    BY <1>1, <2>1, GroupEqual
<1>3. TextUpto(a, next.hunks, i + 1) = Between(b, 0, j + 1)
  <2>1. Between(b, 0, j + 1) = Between(b, 0, j) \o <<b[j + 1]>>
    BY OneLineMore
  <2> QED
    BY <1>2, <2>1, Zenon DEF Progress, Grows
<1>4. Cardinality(KeptUpto(acc.hunks, i) \cup {i + 1}) = kept + 1
  <2>1. i + 1 \notin KeptUpto(acc.hunks, i)
    BY DEF KeptUpto
  <2>2. IsFiniteSet(KeptUpto(acc.hunks, i))
    BY KeptFinite
  <2>3. Cardinality(KeptUpto(acc.hunks, i)) = kept
    BY DEF Progress
  <2> QED
    BY <2>1, <2>2, <2>3, FS_AddElement
<1> QED
  BY <1>1, <1>2, <1>3, <1>4, Zenon DEF Progress

LEMMA ProgressDelete ==
  ASSUME NEW a \in Seq(Line), NEW b \in Seq(Line), NEW i \in Nat, NEW j \in Nat,
         NEW acc, NEW kept \in Nat, Progress(a, b, acc, i, j, kept), NEW line
  PROVE  Progress(a, b, Group(acc, Edit("-", i, line)), i + 1, j, kept)
<1>1. PICK next: next = Group(acc, Edit("-", i, line))
  OBVIOUS
<1>2. /\ AccOK(next, i + 1)
      /\ TextUpto(a, next.hunks, i + 1) = TextUpto(a, acc.hunks, i)
      /\ KeptUpto(next.hunks, i + 1) = KeptUpto(acc.hunks, i)
  BY <1>1, GroupDelete DEF Progress
<1> QED
  BY <1>1, <1>2, Zenon DEF Progress

LEMMA ProgressInsert ==
  ASSUME NEW a \in Seq(Line), NEW b \in Seq(Line), NEW i \in Nat, NEW j \in Nat, j < Len(b),
         NEW acc, NEW kept \in Nat, Progress(a, b, acc, i, j, kept)
  PROVE  Progress(a, b, Group(acc, Edit("+", i, b[j + 1])), i, j + 1, kept)
<1>1. PICK next: next = Group(acc, Edit("+", i, b[j + 1]))
  OBVIOUS
<1>2. b[j + 1] \in Line /\ Between(b, 0, j + 1) = Between(b, 0, j) \o <<b[j + 1]>>
  BY OneLineMore
<1>3. PICK line \in Line: line = b[j + 1]
  BY <1>2
<1>4. /\ AccOK(next, i)
      /\ Grows(a, acc.hunks, i, next.hunks, i, line)
      /\ KeptUpto(next.hunks, i) = KeptUpto(acc.hunks, i)
  <2>1. AccOK(acc, i)
    BY DEF Progress
  <2> QED
    BY <1>1, <1>3, <2>1, GroupInsert
<1>5. TextUpto(a, next.hunks, i) = Between(b, 0, j + 1)
  BY <1>2, <1>3, <1>4, Zenon DEF Progress, Grows
<1> QED
  BY <1>1, <1>4, <1>5, Zenon DEF Progress

LEMMA WalkProgress ==
  ASSUME NEW a \in Seq(Line), NEW b \in Seq(Line),
         NEW m \in Nat, NEW n \in Nat, m = Len(a), n = Len(b),
         NEW L, L = LcsTable(a, b), NEW w, w = Walk(a, b)
  PROVE  \A i \in 0..m, j \in 0..n: Progress(a, b, Grouped(w[<<i, j>>]), i, j, L[<<i, j>>])
<1> DEFINE S == {p \in Grid(m, n) : Progress(a, b, Grouped(w[p]), p[1], p[2], L[p])}
<1>1. LcsCells(a, b, m, n, L)
  BY LcsTableCells
<1>2. /\ \A i \in 0..m, j \in 0..n: L[<<i, j>>] \in Nat /\ (i = 0 \/ j = 0 => L[<<i, j>>] = 0)
      /\ \A i \in 1..m, j \in 1..n:
           /\ a[i] = b[j] => L[<<i, j>>] = L[<<i - 1, j - 1>>] + 1
           /\ a[i] # b[j] => L[<<i, j>>] = (IF L[<<i, j - 1>>] >= L[<<i - 1, j>>]
                                            THEN L[<<i, j - 1>>] ELSE L[<<i - 1, j>>])
  BY <1>1, Zenon DEF LcsCells
<1>3. \A i \in 0..m, j \in 0..n:
        w[<<i, j>>] \in Seq(EditSet) /\ w[<<i, j>>] = WalkCell(a, b, L, w, i, j)
  <2>1. WalkCells(a, b, m, n, L, w)
    BY WalkOK
  <2> QED
    BY <2>1, Zenon DEF WalkCells
<1>4. \A i \in 0..m, j \in 0..n:
        <<i, j>> \in S <=> Progress(a, b, Grouped(w[<<i, j>>]), i, j, L[<<i, j>>])
  BY DEF Grid
<1> HIDE DEF S
<1>5. ASSUME NEW i \in 0..m, NEW j \in 0..n, Below(m, n, S, i, j) PROVE <<i, j>> \in S
  <2>1. ASSUME NEW x \in 0..m, NEW y \in 0..n, x + y < i + j
        PROVE  /\ Progress(a, b, Grouped(w[<<x, y>>]), x, y, L[<<x, y>>])
               /\ w[<<x, y>>] \in Seq(EditSet) /\ L[<<x, y>>] \in Nat
    BY <1>2, <1>3, <1>4, <1>5, <2>1 DEF Below
  <2>2. w[<<i, j>>] = WalkCell(a, b, L, w, i, j)
    BY <1>3
  <2>3. CASE i = 0 /\ j = 0
    <3>1. w[<<i, j>>] = <<>>
      BY <2>2, <2>3 DEF WalkCell
    <3>2. Grouped(w[<<i, j>>]) = NoHunks /\ L[<<i, j>>] = 0
      BY <1>2, <2>3, <3>1, GroupedNothing, Zenon
    <3>3. Progress(a, b, NoHunks, 0, 0, 0)
      BY ProgressStarts
    <3> QED
      BY <1>4, <2>3, <3>2, <3>3, Zenon
  <2>4. CASE i > 0 /\ j > 0 /\ a[i] = b[j]
    <3>1. PICK x \in Nat, y \in Nat: x = i - 1 /\ y = j - 1
      BY <2>4
    <3>2. /\ x \in 0..m /\ y \in 0..n /\ x + y < i + j /\ i = x + 1 /\ j = y + 1
          /\ x < Len(a) /\ y < Len(b) /\ i \in 1..m /\ j \in 1..n
      BY <2>4, <3>1
    <3>3. PICK edits \in Seq(EditSet), kept \in Nat: edits = w[<<x, y>>] /\ kept = L[<<x, y>>]
      BY <2>1, <3>2
    <3>4. w[<<i, j>>] = Append(edits, Edit("=", x, a[i]))
      BY <2>2, <2>4, <3>1, <3>3 DEF WalkCell
    <3>5. x \in Nat /\ a[i] \in Line
      BY <3>1, <3>2
    <3>6. Grouped(w[<<i, j>>]) = Group(Grouped(edits), Edit("=", x, a[i]))
      BY <3>3, <3>4, <3>5, EditOK, GroupedStep
    <3>7. Progress(a, b, Grouped(edits), x, y, kept)
      BY <2>1, <3>2, <3>3
    <3>8. Progress(a, b, Group(Grouped(edits), Edit("=", x, a[i])), x + 1, y + 1, kept + 1)
      BY <2>4, <3>1, <3>2, <3>3, <3>7, ProgressEqual
    <3>9. L[<<i, j>>] = kept + 1
      BY <1>2, <2>4, <3>1, <3>2, <3>3
    <3> QED
      BY <1>4, <3>2, <3>6, <3>8, <3>9, Zenon
  <2>5. CASE ~(i > 0 /\ j > 0 /\ a[i] = b[j]) /\ j > 0 /\ (i = 0 \/ L[<<i, j - 1>>] >= L[<<i - 1, j>>])
    <3>1. PICK y \in Nat: y = j - 1
      BY <2>5
    <3>2. i \in Nat /\ y \in 0..n /\ i + y < i + j /\ j = y + 1 /\ y < Len(b) /\ j \in 1..n
      BY <2>5, <3>1
    <3>3. PICK edits \in Seq(EditSet), kept \in Nat: edits = w[<<i, y>>] /\ kept = L[<<i, y>>]
      BY <2>1, <3>2
    <3>4. w[<<i, j>>] = Append(edits, Edit("+", i, b[j]))
      <4>1. ~(i = 0 /\ j = 0)
        BY <2>5
      <4> QED
        BY <2>2, <2>5, <3>1, <3>3, <4>1, Zenon DEF WalkCell
    <3>5. b[j] \in Line
      BY <3>2
    <3>6. Grouped(w[<<i, j>>]) = Group(Grouped(edits), Edit("+", i, b[j]))
      BY <3>2, <3>3, <3>4, <3>5, EditOK, GroupedStep
    <3>7. Progress(a, b, Grouped(edits), i, y, kept)
      BY <2>1, <3>2, <3>3
    <3>8. Progress(a, b, Group(Grouped(edits), Edit("+", i, b[j])), i, y + 1, kept)
      BY <3>1, <3>2, <3>3, <3>7, ProgressInsert
    <3>9. L[<<i, j>>] = kept
      <4>1. CASE i = 0
        <5>1. L[<<i, j>>] = 0 /\ L[<<i, y>>] = 0
          BY <1>2, <3>2, <4>1
        <5> QED
          BY <3>3, <5>1
      <4>2. CASE i > 0
        <5>1. i \in 1..m /\ a[i] # b[j] /\ L[<<i, j - 1>>] >= L[<<i - 1, j>>]
          BY <2>5, <4>2
        <5> QED
          BY <1>2, <3>1, <3>2, <3>3, <5>1, Zenon
      <4> QED
        BY <4>1, <4>2
    <3> QED
      BY <1>4, <3>2, <3>6, <3>8, <3>9, Zenon
  <2>6. CASE ~(i > 0 /\ j > 0 /\ a[i] = b[j]) /\ i > 0
               /\ (j = 0 \/ ~(L[<<i, j - 1>>] >= L[<<i - 1, j>>]))
    <3>1. PICK x \in Nat: x = i - 1
      BY <2>6
    <3>2. j \in Nat /\ x \in 0..m /\ x + j < i + j /\ i = x + 1 /\ i \in 1..m
      BY <2>6, <3>1
    <3>3. PICK edits \in Seq(EditSet), kept \in Nat: edits = w[<<x, j>>] /\ kept = L[<<x, j>>]
      BY <2>1, <3>2
    <3>4. w[<<i, j>>] = Append(edits, Edit("-", x, a[i]))
      <4>1. ~(i = 0 /\ j = 0) /\ ~(j > 0 /\ (i = 0 \/ L[<<i, j - 1>>] >= L[<<i - 1, j>>]))
        BY <2>6
      <4> QED
        BY <2>2, <2>6, <3>1, <3>3, <4>1, Zenon DEF WalkCell
    <3>5. x \in Nat /\ a[i] \in Line
      BY <3>1, <3>2
    <3>6. Grouped(w[<<i, j>>]) = Group(Grouped(edits), Edit("-", x, a[i]))
      BY <3>3, <3>4, <3>5, EditOK, GroupedStep
    <3>7. Progress(a, b, Grouped(edits), x, j, kept)
      BY <2>1, <3>2, <3>3
    <3>8. Progress(a, b, Group(Grouped(edits), Edit("-", x, a[i])), x + 1, j, kept)
      BY <3>1, <3>2, <3>3, <3>7, ProgressDelete
    <3>9. L[<<i, j>>] = kept
      <4>1. CASE j = 0
        <5>1. L[<<i, j>>] = 0 /\ L[<<x, j>>] = 0
          BY <1>2, <3>2, <4>1
        <5> QED
          BY <3>3, <5>1
      <4>2. CASE j > 0
        <5>1. j \in 1..n /\ a[i] # b[j] /\ ~(L[<<i, j - 1>>] >= L[<<i - 1, j>>])
          BY <2>6, <4>2
        <5> QED
          BY <1>2, <3>1, <3>2, <3>3, <5>1, Zenon
      <4> QED
        BY <3>2, <4>1, <4>2
    <3> QED
      BY <1>4, <3>2, <3>6, <3>8, <3>9, Zenon
  <2>7. i > 0 \/ i = 0
    OBVIOUS
  <2>8. j > 0 \/ j = 0
    OBVIOUS
  <2> QED
    BY <2>3, <2>4, <2>5, <2>6, <2>7, <2>8, Zenon
<1>6. Inductive(m, n, S)
  BY <1>5, Zenon DEF Inductive
<1>7. \A p \in Grid(m, n): p \in S
  BY <1>6, GridInduction
<1>8. \A i \in 0..m, j \in 0..n: <<i, j>> \in Grid(m, n)
  BY DEF Grid
<1> QED
  BY <1>4, <1>7, <1>8, Zenon

\* What diff returns: hunks in order and apart that turn a into b and leave as
\* many lines alone as the table says.
LEMMA DiffOK ==
  ASSUME NEW a \in Seq(Line), NEW b \in Seq(Line), NEW d, d = Diff(a, b)
  PROVE  /\ d \in Seq(HunkSet)
         /\ \A k \in 1..Len(d): d[k].start <= d[k].end /\ d[k].end <= Len(a)
         /\ \A k \in 1..Len(d): k > 1 => d[k - 1].end < d[k].start
         /\ Apply(a, d) = b
         /\ Cardinality(KeptLines(a, d)) = LcsTable(a, b)[<<Len(a), Len(b)>>]
<1>1. PICK m \in Nat, n \in Nat: m = Len(a) /\ n = Len(b)
  BY LenProperties
<1>2. PICK acc: acc = Grouped(Walk(a, b)[<<m, n>>])
  OBVIOUS
<1>3. d = acc.hunks
  BY <1>1, <1>2, Zenon DEF Diff, Edits
<1>4. Progress(a, b, acc, m, n, LcsTable(a, b)[<<m, n>>])
  <2>1. m \in 0..m /\ n \in 0..n
    BY <1>1
  <2> QED
    BY <1>1, <1>2, <2>1, WalkProgress
<1>5. HunksOK(d, m, acc.open)
  BY <1>3, <1>4, Zenon DEF Progress, AccOK
<1>6. Apply(a, d) = b
  <2>1. Apply(a, d) = TextUpto(a, d, m)
    BY <1>1, Zenon DEF Apply, TextUpto
  <2>2. TextUpto(a, d, m) = Between(b, 0, n)
    BY <1>3, <1>4, Zenon DEF Progress
  <2>3. Between(b, 0, n) = SubSeq(b, 0 + 1, n)
    <3>1. 0 \in Nat /\ n <= Len(b)
      BY <1>1
    <3> QED
      BY <1>1, <3>1, BetweenOK
  <2>4. SubSeq(b, 1, n) = b
    BY <1>1, SubSeqFull
  <2>5. 0 + 1 = 1
    OBVIOUS
  <2> QED
    BY <2>1, <2>2, <2>3, <2>4, <2>5, Zenon
<1>7. KeptLines(a, d) = KeptUpto(d, m)
  BY <1>1, Zenon DEF KeptLines, KeptUpto, InHunk
<1>8. Cardinality(KeptLines(a, d)) = LcsTable(a, b)[<<m, n>>]
  BY <1>3, <1>4, <1>7, Zenon DEF Progress
<1>9. /\ d \in Seq(HunkSet)
      /\ \A k \in 1..Len(d): d[k].start <= d[k].end /\ d[k].end <= m
      /\ \A k \in 1..Len(d): k > 1 => d[k - 1].end < d[k].start
  BY <1>5, Zenon DEF HunksOK
<1> QED
  BY <1>1, <1>6, <1>8, <1>9, Zenon

LEMMA DiffBest ==
  ASSUME NEW a \in Seq(Line), NEW b \in Seq(Line), NEW k \in Nat, HasCommon(a, b, k)
  PROVE  k <= Cardinality(KeptLines(a, Diff(a, b)))
<1>1. PICK m \in Nat, n \in Nat: m = Len(a) /\ n = Len(b)
  BY LenProperties
<1>2. PICK f \in Increasing(k, m), g \in Increasing(k, n): Common(a, b, k, f, g)
  BY <1>1, Zenon DEF HasCommon, Common
<1>3. m \in 0..m /\ n \in 0..n
  BY <1>1
<1>4. k <= LcsTable(a, b)[<<m, n>>]
  BY <1>1, <1>2, <1>3, LcsBound
<1> QED
  BY <1>1, <1>4, DiffOK

----------------------------------------------------------------------------
\* diff rebuilds the other text from the hunks and changes no more lines than
\* it has to, whatever the texts are (threewaymerge.go, lcsEdits and diff).
THEOREM DiffAlwaysRebuilds == Spec => []DiffRebuilds
<1> DEFINE TextsOK == base \in Text /\ ours \in Text /\ theirs \in Text
<1>1. \A x \in Text: x \in Seq(Line)
  BY MergeAssumption DEF Text, BoundedSeq, SeqOf
<1>2. Init => TextsOK
  BY DEF Init
<1>3. TextsOK /\ [DoMerge]_vars => TextsOK'
  BY DEF DoMerge, vars
<1>4. TextsOK => DiffRebuilds
  <2> SUFFICES ASSUME TextsOK PROVE DiffRebuilds
    OBVIOUS
  <2>1. base \in Seq(Line) /\ ours \in Seq(Line)
    BY <1>1
  <2>2. Apply(base, Left) = ours
    BY <2>1, DiffOK DEF Left
  <2>3. ASSUME NEW k \in 0..Len(base), HasCommon(base, ours, k)
        PROVE  k <= Cardinality(KeptLines(base, Left))
    <3>1. k \in Nat
      OBVIOUS
    <3> QED
      BY <2>1, <2>3, <3>1, DiffBest DEF Left
  <2> QED
    BY <2>2, <2>3 DEF DiffRebuilds
<1> QED
  BY <1>2, <1>3, <1>4, PTL DEF Spec

----------------------------------------------------------------------------
(***************************************************************************)
(* The loop of Merge, turn by turn.                                        *)
(***************************************************************************)
AtStart == [out |-> <<>>, pos |-> 0, l |-> 1, r |-> 1, conflicts |-> 0]
TurnOrStop(text, left, right, s) == IF s.pos > Len(text) THEN s ELSE Turn(text, left, right, s)
Loops(text, left, right, n, f) ==
  f = [k \in 0..n |-> IF k = 0 THEN AtStart ELSE TurnOrStop(text, left, right, f[k - 1])]

LEMMA LoopExists ==
  ASSUME NEW text, NEW left, NEW right, NEW n \in Nat
  PROVE  \E f: Loops(text, left, right, n, f)
<1> DEFINE More(s) == TurnOrStop(text, left, right, s)
           At(f, k) == IF k = 0 THEN AtStart ELSE More(f[k - 1])
           Runs(f, k) == f = [x \in 0..k |-> At(f, x)]
           S == {k \in Nat : \E f: Runs(f, k)}
<1> HIDE DEF More
<1>1. 0 \in S
  <2> DEFINE f == [x \in 0..0 |-> AtStart]
  <2>1. f = [x \in 0..0 |-> At(f, x)]
    OBVIOUS
  <2> QED
    BY <2>1
<1>2. ASSUME NEW k \in Nat, k \in S PROVE k + 1 \in S
  <2>1. PICK f: Runs(f, k)
    BY <1>2
  <2> DEFINE g == [x \in 0..(k + 1) |-> IF x = k + 1 THEN More(f[k]) ELSE f[x]]
  <2>2. g[k + 1] = More(f[k]) /\ \A x \in 0..k: g[x] = f[x]
    OBVIOUS
  <2>3. \A x \in 0..k: f[x] = At(f, x)
    BY <2>1
  <2>4. ASSUME NEW x \in 0..(k + 1) PROVE g[x] = At(g, x)
    <3> HIDE DEF g
    <3>1. CASE x = 0
      BY <2>2, <2>3, <3>1
    <3>2. CASE x \in 1..k
      <4>1. x \in 0..k /\ x - 1 \in 0..k /\ x # 0
        BY <3>2
      <4> QED
        BY <2>2, <2>3, <4>1
    <3>3. CASE x = k + 1
      <4>1. k \in 0..k /\ k + 1 # 0 /\ (k + 1) - 1 = k
        OBVIOUS
      <4> QED
        BY <2>2, <3>3, <4>1
    <3> QED
      BY <3>1, <3>2, <3>3
  <2> HIDE DEF At
  <2>5. g = [x \in 0..(k + 1) |-> At(g, x)]
    BY <2>4
  <2> HIDE DEF g
  <2> QED
    BY <2>5
<1>3. n \in S
  <2> HIDE DEF S
  <2> QED
    BY <1>1, <1>2, Induction
<1>4. \E f: f = [x \in 0..n |-> At(f, x)]
  BY <1>3
<1> QED
  BY <1>4, Zenon DEF More, Loops

Turns(text, left, right) == Len(text) + 1 + Len(left) + Len(right)

\* f runs the loop; what Weave returns is read from its last state.
TurnByTurn(text, left, right, n, f) ==
  /\ f[0] = AtStart
  /\ \A k \in 0..(n - 1): f[k + 1] = TurnOrStop(text, left, right, f[k])
ReadFrom(merge, s) ==
  merge = [status |-> IF s.conflicts > 0 THEN "conflict" ELSE "clean",
           merged |-> s.out, conflicts |-> s.conflicts]

LEMMA WeaveOK ==
  ASSUME NEW text, NEW mine, NEW yours, NEW left, NEW right,
         left = Diff(text, mine), right = Diff(text, yours),
         NEW n \in Nat, n = Turns(text, left, right)
  PROVE  \E f: TurnByTurn(text, left, right, n, f) /\ ReadFrom(Weave(text, mine, yours), f[n])
<1> DEFINE f == CHOOSE f: Loops(text, left, right, n, f)
<1>1. Loops(text, left, right, n, f)
  BY LoopExists
<1>2. ReadFrom(Weave(text, mine, yours), f[n])
  BY DEF Weave, Loops, TurnOrStop, AtStart, Turns, ReadFrom
<1> HIDE DEF f
<1>3. \A k \in 0..n: f[k] = IF k = 0 THEN AtStart ELSE TurnOrStop(text, left, right, f[k - 1])
  BY <1>1 DEF Loops
<1>4. f[0] = AtStart
  BY <1>3
<1>5. ASSUME NEW k \in 0..(n - 1) PROVE f[k + 1] = TurnOrStop(text, left, right, f[k])
  <2>1. k + 1 \in 0..n /\ k + 1 # 0 /\ (k + 1) - 1 = k
    OBVIOUS
  <2> QED
    BY <1>3, <2>1
<1> QED
  BY <1>2, <1>4, <1>5, Zenon DEF TurnByTurn

\* A turn, field by field.
Shape(s) ==
  s = [out |-> s.out, pos |-> s.pos, l |-> s.l, r |-> s.r, conflicts |-> s.conflicts]
Fields(t, pos, l, r, conflicts) ==
  Shape(t) /\ t.pos = pos /\ t.l = l /\ t.r = r /\ t.conflicts = conflicts

Grown(t, s, lines) == t.out = s.out \o lines

LEMMA TurnOK ==
  ASSUME NEW text, NEW left, NEW right, NEW s, Shape(s),
         NEW t, t = Turn(text, left, right, s)
  PROVE  LET l == StartsAt(left, s.l, s.pos)
             r == StartsAt(right, s.r, s.pos) IN
           /\ ~l /\ ~r => /\ Fields(t, s.pos + 1, s.l, s.r, s.conflicts)
                          /\ Grown(t, s, Between(text, s.pos, s.pos + 1))
           /\ l /\ ~r => /\ Fields(t, left[s.l].end, s.l + 1, s.r, s.conflicts)
                         /\ Grown(t, s, left[s.l].lines)
           /\ ~l /\ r => /\ Fields(t, right[s.r].end, s.l, s.r + 1, s.conflicts)
                         /\ Grown(t, s, right[s.r].lines)
           /\ l /\ r /\ left[s.l] = right[s.r] => Fields(t, s.pos, s.l + 1, s.r + 1, s.conflicts)
           /\ l /\ r /\ left[s.l] # right[s.r] =>
                Fields(t, Max({left[s.l].end, right[s.r].end}), s.l + 1, s.r + 1, s.conflicts + 1)
<1> DEFINE l == StartsAt(left, s.l, s.pos)
           r == StartsAt(right, s.r, s.pos)
           hi == Max({left[s.l].end, right[s.r].end})
<1>0. l \in BOOLEAN /\ r \in BOOLEAN
  BY DEF StartsAt
<1> HIDE DEF l, r
<1>1. ASSUME ~l, ~r
      PROVE  /\ Fields(t, s.pos + 1, s.l, s.r, s.conflicts)
             /\ t.out = s.out \o Between(text, s.pos, s.pos + 1)
  <2>1. t = [s EXCEPT !.out = @ \o Between(text, s.pos, s.pos + 1), !.pos = @ + 1]
    BY <1>1, Zenon DEF Turn, l, r
  <2>2. PICK out, pos: out = s.out \o Between(text, s.pos, s.pos + 1) /\ pos = s.pos + 1
    OBVIOUS
  <2>3. t = [out |-> out, pos |-> pos, l |-> s.l, r |-> s.r, conflicts |-> s.conflicts]
    BY <2>1, <2>2 DEF Shape
  <2> QED
    BY <2>2, <2>3 DEF Fields, Shape
<1>2. ASSUME l, ~r
      PROVE  /\ Fields(t, left[s.l].end, s.l + 1, s.r, s.conflicts)
             /\ t.out = s.out \o left[s.l].lines
  <2>1. t = [s EXCEPT !.out = @ \o left[s.l].lines, !.pos = left[s.l].end, !.l = @ + 1]
    BY <1>2, Zenon DEF Turn, l, r
  <2>2. PICK out, pos, next: out = s.out \o left[s.l].lines /\ pos = left[s.l].end /\ next = s.l + 1
    OBVIOUS
  <2>3. t = [out |-> out, pos |-> pos, l |-> next, r |-> s.r, conflicts |-> s.conflicts]
    BY <2>1, <2>2 DEF Shape
  <2> QED
    BY <2>2, <2>3 DEF Fields, Shape
<1>3. ASSUME ~l, r
      PROVE  /\ Fields(t, right[s.r].end, s.l, s.r + 1, s.conflicts)
             /\ t.out = s.out \o right[s.r].lines
  <2>1. t = [s EXCEPT !.out = @ \o right[s.r].lines, !.pos = right[s.r].end, !.r = @ + 1]
    BY <1>3, Zenon DEF Turn, l, r
  <2>2. PICK out, pos, next: out = s.out \o right[s.r].lines /\ pos = right[s.r].end /\ next = s.r + 1
    OBVIOUS
  <2>3. t = [out |-> out, pos |-> pos, l |-> s.l, r |-> next, conflicts |-> s.conflicts]
    BY <2>1, <2>2 DEF Shape
  <2> QED
    BY <2>2, <2>3 DEF Fields, Shape
<1>4. ASSUME l, r, left[s.l] = right[s.r]
      PROVE  Fields(t, s.pos, s.l + 1, s.r + 1, s.conflicts)
  <2>1. t = [s EXCEPT !.out = @ \o left[s.l].lines, !.l = @ + 1, !.r = @ + 1]
    BY <1>4, Zenon DEF Turn, l, r
  <2>2. PICK out, x, y: out = s.out \o left[s.l].lines /\ x = s.l + 1 /\ y = s.r + 1
    OBVIOUS
  <2>3. t = [out |-> out, pos |-> s.pos, l |-> x, r |-> y, conflicts |-> s.conflicts]
    BY <2>1, <2>2 DEF Shape
  <2> QED
    BY <2>2, <2>3 DEF Fields, Shape
<1>5. ASSUME l, r, left[s.l] # right[s.r]
      PROVE  Fields(t, hi, s.l + 1, s.r + 1, s.conflicts + 1)
  <2>1. PICK out: t = [out |-> out, pos |-> hi, l |-> s.l + 1, r |-> s.r + 1, conflicts |-> s.conflicts + 1]
    BY <1>5, Zenon DEF Turn, l, r, hi
  <2> HIDE DEF hi
  <2> QED
    BY <2>1 DEF Fields, Shape
<1> QED
  BY <1>1, <1>2, <1>3, <1>4, <1>5, Zenon DEF l, r, hi, Grown

----------------------------------------------------------------------------
(***************************************************************************)
(* The two sides of Merge.                                                 *)
(***************************************************************************)
Mirror(s, t) ==
  /\ Shape(s) /\ Shape(t)
  /\ t.pos = s.pos /\ t.l = s.r /\ t.r = s.l /\ t.conflicts = s.conflicts

LEMMA TurnMirrors ==
  ASSUME NEW text, NEW left, NEW right, NEW s, NEW t, Mirror(s, t)
  PROVE  Mirror(TurnOrStop(text, left, right, s), TurnOrStop(text, right, left, t))
<1>1. CASE s.pos > Len(text)
  BY <1>1 DEF TurnOrStop, Mirror
<1>2. CASE ~(s.pos > Len(text))
  <2>1. PICK u, v: u = Turn(text, left, right, s) /\ v = Turn(text, right, left, t)
    OBVIOUS
  <2>2. TurnOrStop(text, left, right, s) = u /\ TurnOrStop(text, right, left, t) = v
    BY <1>2, <2>1 DEF TurnOrStop, Mirror
  <2> DEFINE l == StartsAt(left, s.l, s.pos)
             r == StartsAt(right, s.r, s.pos)
             sameHunk == left[s.l] = right[s.r]
             hi == Max({left[s.l].end, right[s.r].end})
  <2>3. /\ Shape(s) /\ Shape(t) /\ t.pos = s.pos /\ t.l = s.r /\ t.r = s.l
        /\ t.conflicts = s.conflicts
    BY DEF Mirror
  <2>4. /\ ~l /\ ~r => Fields(u, s.pos + 1, s.l, s.r, s.conflicts)
        /\ l /\ ~r => Fields(u, left[s.l].end, s.l + 1, s.r, s.conflicts)
        /\ ~l /\ r => Fields(u, right[s.r].end, s.l, s.r + 1, s.conflicts)
        /\ l /\ r /\ sameHunk => Fields(u, s.pos, s.l + 1, s.r + 1, s.conflicts)
        /\ l /\ r /\ ~sameHunk => Fields(u, hi, s.l + 1, s.r + 1, s.conflicts + 1)
    BY <2>1, <2>3, TurnOK, Zenon
  <2>5. hi = Max({right[s.r].end, left[s.l].end})
    <3>1. {right[s.r].end, left[s.l].end} = {left[s.l].end, right[s.r].end}
      OBVIOUS
    <3> QED
      BY <3>1, Zenon
  <2>6. /\ ~l /\ ~r => Fields(v, s.pos + 1, s.r, s.l, s.conflicts)
        /\ l /\ ~r => Fields(v, left[s.l].end, s.r, s.l + 1, s.conflicts)
        /\ ~l /\ r => Fields(v, right[s.r].end, s.r + 1, s.l, s.conflicts)
        /\ l /\ r /\ sameHunk => Fields(v, s.pos, s.r + 1, s.l + 1, s.conflicts)
        /\ l /\ r /\ ~sameHunk => Fields(v, hi, s.r + 1, s.l + 1, s.conflicts + 1)
    <3> DEFINE ll == StartsAt(right, t.l, t.pos)
               rr == StartsAt(left, t.r, t.pos)
    <3>1. /\ ~ll /\ ~rr => Fields(v, t.pos + 1, t.l, t.r, t.conflicts)
          /\ ll /\ ~rr => Fields(v, right[t.l].end, t.l + 1, t.r, t.conflicts)
          /\ ~ll /\ rr => Fields(v, left[t.r].end, t.l, t.r + 1, t.conflicts)
          /\ ll /\ rr /\ right[t.l] = left[t.r] => Fields(v, t.pos, t.l + 1, t.r + 1, t.conflicts)
          /\ ll /\ rr /\ right[t.l] # left[t.r] =>
               Fields(v, Max({right[t.l].end, left[t.r].end}), t.l + 1, t.r + 1, t.conflicts + 1)
      BY <2>1, <2>3, TurnOK, Zenon
    <3>2. (ll <=> r) /\ (rr <=> l)
      BY <2>3, Zenon
    <3> HIDE DEF l, r, ll, rr, hi
    <3> QED
      BY <2>3, <2>5, <3>1, <3>2, Zenon
  <2> HIDE DEF l, r, sameHunk, hi
  <2>7. Mirror(u, v)
    BY <2>4, <2>6, Zenon DEF Mirror, Fields
  <2> QED
    BY <2>2, <2>7, Zenon
<1> QED
  BY <1>1, <1>2

LEMMA WeaveMirrors ==
  ASSUME NEW text \in Seq(Line), NEW mine \in Seq(Line), NEW yours \in Seq(Line)
  PROVE  /\ Weave(text, yours, mine).status = Weave(text, mine, yours).status
         /\ Weave(text, yours, mine).conflicts = Weave(text, mine, yours).conflicts
<1>1. PICK left, right: left = Diff(text, mine) /\ right = Diff(text, yours)
  OBVIOUS
<1>2. Len(text) \in Nat /\ Len(left) \in Nat /\ Len(right) \in Nat
  <2>1. left \in Seq(HunkSet) /\ right \in Seq(HunkSet)
    BY <1>1, DiffOK
  <2> QED
    BY <2>1, LenProperties
<1>3. PICK n \in Nat: n = Turns(text, left, right) /\ n = Turns(text, right, left)
  <2>1. Turns(text, left, right) \in Nat /\ Turns(text, left, right) = Turns(text, right, left)
    BY <1>2 DEF Turns
  <2> QED
    BY <2>1
<1>4. PICK f: TurnByTurn(text, left, right, n, f) /\ ReadFrom(Weave(text, mine, yours), f[n])
  BY <1>1, <1>3, WeaveOK
<1>5. PICK g: TurnByTurn(text, right, left, n, g) /\ ReadFrom(Weave(text, yours, mine), g[n])
  BY <1>1, <1>3, WeaveOK
<1> DEFINE S == {k \in Nat : k <= n => Mirror(f[k], g[k])}
<1>6. 0 \in S
  <2>1. Mirror(AtStart, AtStart)
    BY DEF Mirror, Shape, AtStart
  <2> QED
    BY <1>4, <1>5, <2>1 DEF TurnByTurn
<1>7. ASSUME NEW k \in Nat, k \in S PROVE k + 1 \in S
  <2> SUFFICES ASSUME k + 1 <= n PROVE Mirror(f[k + 1], g[k + 1])
    OBVIOUS
  <2>1. Mirror(f[k], g[k]) /\ k \in 0..(n - 1)
    BY <1>3, <1>7
  <2> QED
    BY <1>4, <1>5, <2>1, TurnMirrors DEF TurnByTurn
<1>8. Mirror(f[n], g[n])
  <2>1. n \in S
    <3> HIDE DEF S
    <3> QED
      BY <1>3, <1>6, <1>7, Induction
  <2> QED
    BY <1>3, <2>1
<1>9. f[n].conflicts = g[n].conflicts
  BY <1>8 DEF Mirror
<1>10. \A merge, s: ReadFrom(merge, s) =>
         /\ merge.status = IF s.conflicts > 0 THEN "conflict" ELSE "clean"
         /\ merge.conflicts = s.conflicts
  BY DEF ReadFrom
<1>11. PICK c: c = f[n].conflicts /\ c = g[n].conflicts
  BY <1>9
<1>12. /\ Weave(text, mine, yours).status = IF c > 0 THEN "conflict" ELSE "clean"
       /\ Weave(text, mine, yours).conflicts = c
  BY <1>4, <1>10, <1>11
<1>13. /\ Weave(text, yours, mine).status = IF c > 0 THEN "conflict" ELSE "clean"
       /\ Weave(text, yours, mine).conflicts = c
  BY <1>5, <1>10, <1>11
<1> QED
  BY <1>12, <1>13, Zenon

LEMMA MergeMirrors ==
  ASSUME NEW text \in Seq(Line), NEW mine \in Seq(Line), NEW yours \in Seq(Line)
  PROVE  /\ Merge(text, yours, mine).status = Merge(text, mine, yours).status
         /\ Merge(text, yours, mine).conflicts = Merge(text, mine, yours).conflicts
<1>1. CASE mine = yours
  BY <1>1
<1>2. CASE mine # yours /\ text = mine
  <2>1. /\ Merge(text, mine, yours) = [status |-> "clean", merged |-> yours, conflicts |-> 0]
        /\ Merge(text, yours, mine) = [status |-> "clean", merged |-> yours, conflicts |-> 0]
    BY <1>2, Zenon DEF Merge
  <2> QED
    BY <2>1
<1>3. CASE mine # yours /\ text # mine /\ text = yours
  <2>1. /\ Merge(text, mine, yours) = [status |-> "clean", merged |-> mine, conflicts |-> 0]
        /\ Merge(text, yours, mine) = [status |-> "clean", merged |-> mine, conflicts |-> 0]
    BY <1>3, Zenon DEF Merge
  <2> QED
    BY <2>1
<1>4. CASE mine # yours /\ text # mine /\ text # yours
  <2>1. Merge(text, mine, yours) = Weave(text, mine, yours) /\ Merge(text, yours, mine) = Weave(text, yours, mine)
    BY <1>4, Zenon DEF Merge
  <2> QED
    BY <2>1, WeaveMirrors
<1> QED
  BY <1>1, <1>2, <1>3, <1>4

----------------------------------------------------------------------------
\* The texts, and what the merge of them has returned.
MergeInv ==
  /\ base \in Seq(Line) /\ ours \in Seq(Line) /\ theirs \in Seq(Line)
  /\ Merged => result = Merge(base, ours, theirs)

LEMMA MergeInvHolds == Spec => []MergeInv
<1>1. \A x \in Text: x \in Seq(Line)
  BY MergeAssumption DEF Text, BoundedSeq, SeqOf
<1>2. Init => MergeInv
  BY <1>1 DEF Init, MergeInv, Merged
<1>3. MergeInv /\ [DoMerge]_vars => MergeInv'
  <2> SUFFICES ASSUME MergeInv, [DoMerge]_vars PROVE MergeInv'
    OBVIOUS
  <2>1. CASE DoMerge
    BY <2>1 DEF MergeInv, DoMerge, Merged
  <2>2. CASE UNCHANGED vars
    BY <2>2 DEF MergeInv, vars, Merged
  <2> QED
    BY <2>1, <2>2
<1> QED
  BY <1>2, <1>3, PTL DEF Spec

\* Merge counts the same conflicts whichever side is ours (threewaymerge.go,
\* Merge).
THEOREM SidesAreAlike == Spec => []SidesAlike
<1>1. MergeInv => SidesAlike
  BY MergeMirrors DEF MergeInv, SidesAlike
<1> QED
  BY <1>1, MergeInvHolds, PTL

----------------------------------------------------------------------------
(***************************************************************************)
(* The hunks of both sides in one order.                                   *)
(***************************************************************************)
\* Hunks of a text that are in order and apart.
Sorted(hunks, n) ==
  /\ hunks \in Seq(HunkSet)
  /\ \A k \in 1..Len(hunks): hunks[k].start <= hunks[k].end /\ hunks[k].end <= n
  /\ \A x, y \in 1..Len(hunks): x < y => /\ hunks[x].start < hunks[y].start
                                         /\ hunks[x].end <= hunks[y].start

LEMMA SortedTypes ==
  ASSUME NEW hunks, NEW n, Sorted(hunks, n)
  PROVE  /\ Len(hunks) \in Nat
         /\ \A k \in 1..Len(hunks): /\ hunks[k] \in HunkSet
                                    /\ hunks[k].start \in Nat /\ hunks[k].end \in Nat
                                    /\ hunks[k].lines \in Seq(Line)
<1>1. hunks \in Seq(HunkSet)
  BY DEF Sorted
<1>2. Len(hunks) \in Nat
  BY <1>1, LenProperties
<1>3. \A k \in 1..Len(hunks): hunks[k] \in HunkSet
  BY <1>1, ElementOfSeq
<1> QED
  BY <1>2, <1>3 DEF HunkSet

LEMMA DiffSorted ==
  ASSUME NEW a \in Seq(Line), NEW b \in Seq(Line)
  PROVE  Sorted(Diff(a, b), Len(a))
<1>1. PICK d: d = Diff(a, b)
  OBVIOUS
<1>2. /\ d \in Seq(HunkSet)
      /\ \A k \in 1..Len(d): d[k].start <= d[k].end /\ d[k].end <= Len(a)
      /\ \A k \in 1..Len(d): k > 1 => d[k - 1].end < d[k].start
  BY <1>1, DiffOK
<1>3. PICK n \in Nat: n = Len(d)
  BY <1>2, LenProperties
<1>4. \A k \in 1..n: d[k].start \in Nat /\ d[k].end \in Nat /\ d[k].start <= d[k].end
  <2>1. \A k \in 1..n: d[k] \in HunkSet
    BY <1>2, <1>3, ElementOfSeq
  <2> QED
    BY <1>2, <1>3, <2>1 DEF HunkSet
<1> DEFINE S == {y \in Nat : y <= n => \A x \in 1..n: x < y => d[x].end < d[y].start}
<1>5. 0 \in S
  OBVIOUS
<1>6. ASSUME NEW y \in Nat, y \in S PROVE y + 1 \in S
  <2> SUFFICES ASSUME y + 1 <= n, NEW x \in 1..n, x < y + 1 PROVE d[x].end < d[y + 1].start
    OBVIOUS
  <2>1. y \in 1..n /\ y + 1 \in 1..n /\ y + 1 > 1 /\ (y + 1) - 1 = y
    OBVIOUS
  <2>2. d[y].end < d[y + 1].start
    BY <1>2, <1>3, <2>1
  <2>3. CASE x = y
    BY <2>2, <2>3
  <2>4. CASE x < y
    <3>1. d[x].end < d[y].start
      BY <1>6, <2>1, <2>4
    <3>2. PICK p \in Nat, q \in Nat, u \in Nat, v \in Nat:
            p = d[x].end /\ q = d[y].start /\ u = d[y].end /\ v = d[y + 1].start
      BY <1>4, <2>1
    <3>3. p < q /\ q <= u /\ u < v
      BY <1>4, <2>1, <2>2, <3>1, <3>2
    <3>4. p < v
      BY <3>3
    <3> QED
      BY <3>2, <3>4
  <2> QED
    BY <2>3, <2>4
<1>7. \A y \in Nat: y \in S
  <2> HIDE DEF S
  <2> QED
    BY <1>5, <1>6, Induction
<1>8. ASSUME NEW x \in 1..n, NEW y \in 1..n, x < y
      PROVE  d[x].start < d[y].start /\ d[x].end <= d[y].start
  <2>1. d[x].end < d[y].start
    BY <1>7, <1>8
  <2>2. PICK p \in Nat, q \in Nat, u \in Nat: p = d[x].start /\ q = d[x].end /\ u = d[y].start
    BY <1>4
  <2>3. p <= q /\ q < u
    BY <1>4, <2>1, <2>2
  <2> QED
    BY <2>2, <2>3
<1> QED
  BY <1>1, <1>2, <1>3, <1>8 DEF Sorted

\* A text differs from itself by nothing.
LEMMA DiffSame ==
  ASSUME NEW a \in Seq(Line)
  PROVE  Diff(a, a) = <<>>
<1>1. PICK m \in Nat: m = Len(a)
  BY LenProperties
<1>2. PICK L, w: L = LcsTable(a, a) /\ w = Walk(a, a)
  OBVIOUS
<1>3. \A i \in 0..m, j \in 0..m:
        w[<<i, j>>] \in Seq(EditSet) /\ w[<<i, j>>] = WalkCell(a, a, L, w, i, j)
  <2>1. WalkCells(a, a, m, m, L, w)
    BY <1>1, <1>2, WalkOK
  <2> QED
    BY <2>1, Zenon DEF WalkCells
<1> DEFINE S == {i \in Nat : i <= m => Grouped(w[<<i, i>>]) = NoHunks}
<1>4. 0 \in S
  <2>1. 0 \in 0..m
    OBVIOUS
  <2>2. w[<<0, 0>>] = <<>>
    BY <1>3, <2>1 DEF WalkCell
  <2> QED
    BY <2>2, GroupedNothing
<1>5. ASSUME NEW i \in Nat, i \in S PROVE i + 1 \in S
  <2> SUFFICES ASSUME i + 1 <= m PROVE Grouped(w[<<i + 1, i + 1>>]) = NoHunks
    OBVIOUS
  <2>1. i \in 0..m /\ i + 1 \in 0..m /\ i + 1 > 0 /\ (i + 1) - 1 = i /\ i + 1 \in 1..Len(a)
    BY <1>1
  <2>2. PICK edits \in Seq(EditSet): edits = w[<<i, i>>]
    BY <1>3, <2>1
  <2>3. w[<<i + 1, i + 1>>] = Append(edits, Edit("=", i, a[i + 1]))
    <3>1. w[<<i + 1, i + 1>>] = WalkCell(a, a, L, w, i + 1, i + 1)
      BY <1>3, <2>1
    <3>2. i + 1 # 0
      OBVIOUS
    <3>3. w[<<i + 1, i + 1>>] = Append(w[<<(i + 1) - 1, (i + 1) - 1>>], Edit("=", (i + 1) - 1, a[i + 1]))
      BY <2>1, <3>1, <3>2, Zenon DEF WalkCell
    <3> QED
      BY <2>1, <2>2, <3>3, Zenon
  <2>4. a[i + 1] \in Line
    BY <2>1, ElementOfSeq
  <2>5. Grouped(w[<<i + 1, i + 1>>]) = Group(Grouped(edits), Edit("=", i, a[i + 1]))
    BY <2>2, <2>3, <2>4, EditOK, GroupedStep
  <2>6. Grouped(edits) = NoHunks
    BY <1>5, <2>1, <2>2
  <2>7. Group(NoHunks, Edit("=", i, a[i + 1])) = NoHunks
    BY DEF Group, NoHunks, Edit
  <2> QED
    BY <2>5, <2>6, <2>7
<1>6. m \in S
  <2> HIDE DEF S
  <2> QED
    BY <1>4, <1>5, Induction
<1>7. Grouped(w[<<m, m>>]) = NoHunks
  BY <1>6
<1> QED
  BY <1>1, <1>2, <1>7 DEF Diff, Edits, NoHunks

\* The hunks of S that start before h.
Earlier(S, h) == {k \in S : k.start < h.start}

LEMMA InOrderOK ==
  ASSUME NEW S \in SUBSET HunkSet, IsFiniteSet(S),
         \A h, k \in S: h.start = k.start => h = k,
         NEW n, n = Cardinality(S), NEW all, all = InOrder(S)
  PROVE  /\ n \in Nat /\ all \in [1..n -> S]
         /\ \A h \in S: \E z \in 1..n: all[z] = h
         /\ \A y, z \in 1..n: y < z => all[y].start < all[z].start
<1>1. n \in Nat
  BY FS_CardinalityType
<1>2. \A h \in S: h.start \in Nat
  BY DEF HunkSet
<1>3. ASSUME NEW h \in S
      PROVE  /\ IsFiniteSet(Earlier(S, h)) /\ Cardinality(Earlier(S, h)) \in 0..(n - 1)
  <2>1. Earlier(S, h) \in SUBSET (S \ {h})
    BY <1>2 DEF Earlier
  <2>2. IsFiniteSet(S \ {h}) /\ Cardinality(S \ {h}) = n - 1
    BY FS_RemoveElement
  <2>3. IsFiniteSet(Earlier(S, h)) /\ Cardinality(Earlier(S, h)) <= n - 1
    BY <2>1, <2>2, FS_Subset
  <2>4. Cardinality(Earlier(S, h)) \in Nat
    BY <2>3, FS_CardinalityType
  <2> QED
    BY <1>1, <2>3, <2>4
<1>4. ASSUME NEW h \in S, NEW k \in S, h.start < k.start
      PROVE  Cardinality(Earlier(S, h)) < Cardinality(Earlier(S, k))
  <2>1. h \in Earlier(S, k) /\ h \notin Earlier(S, h)
    BY <1>2, <1>4 DEF Earlier
  <2>2. Earlier(S, h) \in SUBSET Earlier(S, k)
    BY <1>2, <1>4 DEF Earlier
  <2>3. PICK x \in Nat, y \in Nat: x = Cardinality(Earlier(S, h)) /\ y = Cardinality(Earlier(S, k))
    BY <1>1, <1>3
  <2>4. x <= y /\ x # y
    <3>1. IsFiniteSet(Earlier(S, k))
      BY <1>3
    <3> QED
      BY <2>1, <2>2, <2>3, <3>1, FS_Subset
  <2> QED
    BY <2>3, <2>4
<1> DEFINE rank == [h \in S |-> Cardinality(Earlier(S, h))]
<1>5. \A h \in S: rank[h] = Cardinality(Earlier(S, h))
  OBVIOUS
<1>6. rank \in Injection(S, 0..(n - 1))
  <2>1. rank \in [S -> 0..(n - 1)]
    BY <1>3
  <2>2. ASSUME NEW h \in S, NEW k \in S, rank[h] = rank[k] PROVE h = k
    <3>1. rank[h] \in 0..(n - 1) /\ rank[k] \in 0..(n - 1)
      BY <2>1
    <3>2. ~(h.start < k.start) /\ ~(k.start < h.start)
      BY <1>4, <1>5, <2>2, <3>1
    <3>3. h.start = k.start
      BY <1>2, <3>2
    <3> QED
      BY <3>3
  <2> HIDE DEF rank
  <2>3. DOMAIN rank = S
    BY <2>1
  <2> QED
    BY <2>1, <2>2, <2>3, Zenon DEF Injection, IsInjective
<1> HIDE DEF rank
<1>7. \A z \in 0..(n - 1): \E h \in S: rank[h] = z
  <2>1. IsFiniteSet(0..(n - 1)) /\ Cardinality(0..(n - 1)) = n
    <3>1. 0 \in Int /\ n - 1 \in Int
      BY <1>1
    <3>2. IsFiniteSet(0..(n - 1)) /\ Cardinality(0..(n - 1)) = IF 0 > n - 1 THEN 0 ELSE (n - 1) - 0 + 1
      BY <3>1, FS_Interval
    <3> QED
      BY <1>1, <3>2
  <2>2. rank \in Surjection(S, 0..(n - 1))
    BY <1>6, <2>1, FS_Injection
  <2> QED
    BY <2>2 DEF Surjection
<1>8. ASSUME NEW z \in 1..n PROVE all[z] \in S /\ rank[all[z]] = z - 1
  <2>1. all[z] = CHOOSE h \in S: Cardinality(Earlier(S, h)) = z - 1
    BY DEF InOrder, Earlier
  <2>2. z - 1 \in 0..(n - 1)
    BY <1>1
  <2>3. \E h \in S: Cardinality(Earlier(S, h)) = z - 1
    BY <1>5, <1>7, <2>2
  <2>4. all[z] \in S /\ Cardinality(Earlier(S, all[z])) = z - 1
    BY <2>1, <2>3
  <2> QED
    BY <1>5, <2>4
<1>9. all \in [1..n -> S]
  <2> DEFINE At(z) == CHOOSE h \in S: Cardinality({k \in S : k.start < h.start}) = z - 1
  <2>1. all = [z \in 1..n |-> At(z)]
    BY Zenon DEF InOrder
  <2> HIDE DEF At
  <2>2. \A z \in 1..n: At(z) \in S
    BY <1>8, <2>1
  <2> QED
    BY <2>1, <2>2
<1>10. ASSUME NEW h \in S PROVE \E z \in 1..n: all[z] = h
  <2>1. PICK c \in 0..(n - 1): c = rank[h]
    BY <1>3, <1>5
  <2>2. PICK z \in 1..n: z = c + 1 /\ z - 1 = c
    BY <1>1
  <2>3. all[z] \in S /\ rank[all[z]] = rank[h]
    BY <1>8, <2>1, <2>2
  <2>4. all[z] = h
    <3>1. DOMAIN rank = S /\ IsInjective(rank)
      BY <1>6 DEF Injection
    <3> QED
      BY <2>3, <3>1, Zenon DEF IsInjective
  <2> QED
    BY <2>4
<1>11. ASSUME NEW y \in 1..n, NEW z \in 1..n, y < z PROVE all[y].start < all[z].start
  <2>1. /\ all[y] \in S /\ all[z] \in S
        /\ rank[all[y]] = y - 1 /\ rank[all[z]] = z - 1
    BY <1>8
  <2>2. all[y].start # all[z].start
    <3> SUFFICES ASSUME all[y].start = all[z].start PROVE FALSE
      OBVIOUS
    <3>1. all[y] = all[z]
      BY <2>1
    <3> QED
      BY <1>11, <2>1, <3>1
  <2>3. ~(all[z].start < all[y].start)
    <3> SUFFICES ASSUME all[z].start < all[y].start PROVE FALSE
      OBVIOUS
    <3>1. z - 1 < y - 1
      BY <1>4, <1>5, <2>1
    <3> QED
      BY <1>11, <3>1
  <2>4. all[y].start \in Nat /\ all[z].start \in Nat
    BY <1>2, <2>1
  <2> QED
    BY <2>2, <2>3, <2>4
<1> QED
  BY <1>1, <1>9, <1>10, <1>11

----------------------------------------------------------------------------
LEMMA HunkSetFinite ==
  ASSUME NEW hunks, NEW n, Sorted(hunks, n)
  PROVE  /\ IsFiniteSet(ToSet(hunks)) /\ Cardinality(ToSet(hunks)) = Len(hunks)
         /\ ToSet(hunks) \in SUBSET HunkSet
         /\ \A h: h \in ToSet(hunks) <=> \E k \in 1..Len(hunks): hunks[k] = h
<1>1. PICK m \in Nat: m = Len(hunks)
  BY SortedTypes
<1>2. hunks \in Seq(HunkSet)
  BY DEF Sorted
<1>3. DOMAIN hunks = 1..m
  BY <1>1, <1>2, LenProperties
<1>4. \A h: h \in ToSet(hunks) <=> \E k \in 1..m: hunks[k] = h
  BY <1>3 DEF ToSet
<1>5. ToSet(hunks) \in SUBSET HunkSet
  <2>1. \A k \in 1..m: hunks[k] \in HunkSet
    BY <1>1, SortedTypes
  <2> QED
    BY <1>4, <2>1
<1> DEFINE f == [k \in 1..m |-> hunks[k]]
<1>6. f \in [1..m -> ToSet(hunks)] /\ \A k \in 1..m: f[k] = hunks[k]
  BY <1>4
<1>7. \A x, y \in 1..m: x < y => f[x] # f[y]
  <2> SUFFICES ASSUME NEW x \in 1..m, NEW y \in 1..m, x < y, hunks[x] = hunks[y] PROVE FALSE
    OBVIOUS
  <2>1. hunks[x].start < hunks[y].start /\ hunks[x].start \in Nat
    BY <1>1, SortedTypes DEF Sorted
  <2> QED
    BY <2>1
<1> HIDE DEF f
<1>8. \A x, y \in 1..m: f[x] = f[y] => x = y
  BY <1>7
<1>9. f \in Surjection(1..m, ToSet(hunks))
  BY <1>4, <1>6 DEF Surjection
<1>10. f \in Injection(1..m, ToSet(hunks))
  <2>1. DOMAIN f = 1..m
    BY <1>6
  <2> QED
    BY <1>6, <1>8, <2>1, Zenon DEF Injection, IsInjective
<1>11. IsFiniteSet(1..m) /\ Cardinality(1..m) = m
  <2>1. 1 \in Int /\ m \in Int
    OBVIOUS
  <2>2. IsFiniteSet(1..m) /\ Cardinality(1..m) = IF 1 > m THEN 0 ELSE m - 1 + 1
    BY <2>1, FS_Interval
  <2> QED
    BY <2>2
<1>12. IsFiniteSet(ToSet(hunks)) /\ Cardinality(ToSet(hunks)) = m
  BY <1>9, <1>10, <1>11, FS_Surjection
<1> QED
  BY <1>1, <1>4, <1>5, <1>12

\* The hunks of a text are in their order already.
LEMMA InOrderOfSorted ==
  ASSUME NEW hunks, NEW n, Sorted(hunks, n)
  PROVE  InOrder(ToSet(hunks)) = hunks
<1>1. PICK m \in Nat: m = Len(hunks)
  BY SortedTypes
<1>2. PICK S, all: S = ToSet(hunks) /\ all = InOrder(S)
  OBVIOUS
<1>3. /\ S \in SUBSET HunkSet /\ IsFiniteSet(S) /\ Cardinality(S) = m
      /\ \A h: h \in S <=> \E k \in 1..m: hunks[k] = h
  BY <1>1, <1>2, HunkSetFinite
<1>4. /\ \A k \in 1..m: hunks[k].start \in Nat
      /\ \A x, y \in 1..m: x < y => hunks[x].start < hunks[y].start
  BY <1>1, SortedTypes DEF Sorted
<1>5. \A h, k \in S: h.start = k.start => h = k
  <2> SUFFICES ASSUME NEW h \in S, NEW k \in S, h.start = k.start PROVE h = k
    OBVIOUS
  <2>1. PICK x \in 1..m, y \in 1..m: hunks[x] = h /\ hunks[y] = k
    BY <1>3
  <2>2. x = y
    BY <1>4, <2>1
  <2> QED
    BY <2>1, <2>2
<1>6. /\ all \in [1..m -> S]
      /\ \A h \in S: \E z \in 1..m: all[z] = h
      /\ \A y, z \in 1..m: y < z => all[y].start < all[z].start
  BY <1>2, <1>3, <1>5, InOrderOK
<1>7. \A z \in 1..m: all[z].start \in Nat
  BY <1>3, <1>6 DEF HunkSet
<1> DEFINE T == {z \in Nat : \A y \in 1..m: y <= z => all[y] = hunks[y]}
<1>8. 0 \in T
  OBVIOUS
<1>9. ASSUME NEW z \in Nat, z \in T PROVE z + 1 \in T
  <2> SUFFICES ASSUME z + 1 \in 1..m PROVE all[z + 1] = hunks[z + 1]
    BY <1>9
  <2>1. PICK u \in 1..m: u = z + 1
    OBVIOUS
  <2>2. \A y \in 1..m: y < u => all[y] = hunks[y]
    BY <1>9, <2>1
  <2>3. PICK x \in 1..m: hunks[x] = all[u]
    BY <1>3, <1>6
  <2>4. PICK y \in 1..m: all[y] = hunks[u]
    BY <1>3, <1>6
  <2>5. x >= u
    <3> SUFFICES ASSUME x < u PROVE FALSE
      OBVIOUS
    <3>1. all[x] = all[u] /\ all[x].start < all[u].start
      BY <1>6, <2>2, <2>3
    <3> QED
      BY <1>7, <3>1
  <2>6. y >= u
    <3> SUFFICES ASSUME y < u PROVE FALSE
      OBVIOUS
    <3>1. hunks[y] = hunks[u] /\ hunks[y].start < hunks[u].start
      BY <1>4, <2>2, <2>4
    <3> QED
      BY <1>4, <3>1
  <2>7. ~(x > u)
    <3> SUFFICES ASSUME x > u PROVE FALSE
      OBVIOUS
    <3>1. hunks[u].start < hunks[x].start
      BY <1>4
    <3>2. y = u \/ all[u].start < all[y].start
      BY <1>6, <2>6
    <3>3. PICK p \in Nat, q \in Nat: p = hunks[u].start /\ q = all[u].start
      BY <1>4, <1>7
    <3>4. p < q
      BY <2>3, <3>1, <3>3
    <3>5. p = q \/ q < p
      BY <2>4, <3>2, <3>3
    <3> QED
      BY <3>4, <3>5
  <2>8. x = u
    BY <2>5, <2>7
  <2> QED
    BY <2>1, <2>3, <2>8
<1>10. m \in T
  <2> HIDE DEF T
  <2> QED
    BY <1>8, <1>9, Induction
<1>11. \A z \in 1..m: all[z] = hunks[z]
  BY <1>10
<1>12. hunks \in [1..m -> HunkSet]
  <2>1. hunks \in Seq(HunkSet)
    BY DEF Sorted
  <2> QED
    BY <1>1, <2>1, LenProperties
<1> QED
  BY <1>2, <1>6, <1>11, <1>12

\* The hunks of two sides that keep clear of each other.
AllClear(left, right) ==
  \A i \in 1..Len(left), j \in 1..Len(right): Clear(left[i], right[j])
Within(side, all) == \A i \in 1..Len(side): \E z \in 1..Len(all): all[z] = side[i]
FromSides(left, right, all) ==
  \A z \in 1..Len(all): \/ \E i \in 1..Len(left): all[z] = left[i]
                        \/ \E j \in 1..Len(right): all[z] = right[j]

LEMMA BothInOrder ==
  ASSUME NEW left, NEW right, NEW n, Sorted(left, n), Sorted(right, n), AllClear(left, right),
         NEW all, all = InOrder(ToSet(left) \cup ToSet(right))
  PROVE  /\ Sorted(all, n) /\ Within(left, all) /\ Within(right, all)
         /\ FromSides(left, right, all)
<1>1. PICK x \in Nat, y \in Nat: x = Len(left) /\ y = Len(right)
  BY SortedTypes
<1>2. PICK S: S = ToSet(left) \cup ToSet(right)
  OBVIOUS
<1>3. \A h: h \in S <=> (\E i \in 1..x: left[i] = h) \/ (\E j \in 1..y: right[j] = h)
  <2>1. \A h: h \in ToSet(left) <=> \E i \in 1..x: left[i] = h
    BY <1>1, HunkSetFinite
  <2>2. \A h: h \in ToSet(right) <=> \E j \in 1..y: right[j] = h
    BY <1>1, HunkSetFinite
  <2> QED
    BY <1>2, <2>1, <2>2
<1>4. S \in SUBSET HunkSet /\ IsFiniteSet(S)
  <2>1. ToSet(left) \in SUBSET HunkSet /\ IsFiniteSet(ToSet(left))
    BY HunkSetFinite
  <2>2. ToSet(right) \in SUBSET HunkSet /\ IsFiniteSet(ToSet(right))
    BY HunkSetFinite
  <2>3. IsFiniteSet(ToSet(left) \cup ToSet(right))
    BY <2>1, <2>2, FS_Union
  <2> QED
    BY <1>2, <2>1, <2>2, <2>3
<1>5. \A h \in S: /\ h.start \in Nat /\ h.end \in Nat /\ h.start <= h.end /\ h.end <= n
  <2>1. \A i \in 1..x: /\ left[i].start \in Nat /\ left[i].end \in Nat
                       /\ left[i].start <= left[i].end /\ left[i].end <= n
    BY <1>1, SortedTypes DEF Sorted
  <2>2. \A j \in 1..y: /\ right[j].start \in Nat /\ right[j].end \in Nat
                       /\ right[j].start <= right[j].end /\ right[j].end <= n
    BY <1>1, SortedTypes DEF Sorted
  <2> QED
    BY <1>3, <2>1, <2>2
<1>6. \A h, k \in S: h = k \/ (h.start # k.start /\ (h.end <= k.start \/ k.end <= h.start))
  <2> SUFFICES ASSUME NEW h \in S, NEW k \in S
               PROVE  h = k \/ (h.start # k.start /\ (h.end <= k.start \/ k.end <= h.start))
    OBVIOUS
  <2>1. \A i, j \in 1..x: i < j => left[i].start < left[j].start /\ left[i].end <= left[j].start
    BY <1>1 DEF Sorted
  <2>2. \A i, j \in 1..y: i < j => right[i].start < right[j].start /\ right[i].end <= right[j].start
    BY <1>1 DEF Sorted
  <2>3. \A i \in 1..x, j \in 1..y:
          /\ left[i].start # right[j].start
          /\ left[i].end <= right[j].start \/ right[j].end <= left[i].start
    BY <1>1 DEF AllClear, Clear
  <2>4. h.start \in Nat /\ k.start \in Nat
    BY <1>5
  <2>5. CASE \E i, j \in 1..x: left[i] = h /\ left[j] = k
    <3>1. PICK i \in 1..x, j \in 1..x: left[i] = h /\ left[j] = k
      BY <2>5
    <3>2. CASE i = j
      <4>1. h = k
        BY <3>1, <3>2
      <4> QED
        BY <4>1
    <3>3. CASE i < j
      <4>1. h.start < k.start /\ h.end <= k.start
        BY <2>1, <3>1, <3>3
      <4> QED
        BY <2>4, <4>1
    <3>4. CASE j < i
      <4>1. k.start < h.start /\ k.end <= h.start
        BY <2>1, <3>1, <3>4
      <4> QED
        BY <2>4, <4>1
    <3> QED
      BY <3>2, <3>3, <3>4
  <2>6. CASE \E i, j \in 1..y: right[i] = h /\ right[j] = k
    <3>1. PICK i \in 1..y, j \in 1..y: right[i] = h /\ right[j] = k
      BY <2>6
    <3>2. CASE i = j
      <4>1. h = k
        BY <3>1, <3>2
      <4> QED
        BY <4>1
    <3>3. CASE i < j
      <4>1. h.start < k.start /\ h.end <= k.start
        BY <2>2, <3>1, <3>3
      <4> QED
        BY <2>4, <4>1
    <3>4. CASE j < i
      <4>1. k.start < h.start /\ k.end <= h.start
        BY <2>2, <3>1, <3>4
      <4> QED
        BY <2>4, <4>1
    <3> QED
      BY <3>2, <3>3, <3>4
  <2>7. CASE \E i \in 1..x, j \in 1..y: left[i] = h /\ right[j] = k
    BY <2>3, <2>7
  <2>8. CASE \E i \in 1..x, j \in 1..y: left[i] = k /\ right[j] = h
    <3>1. PICK i \in 1..x, j \in 1..y: left[i] = k /\ right[j] = h
      BY <2>8
    <3> QED
      BY <2>3, <3>1
  <2> QED
    BY <1>3, <2>5, <2>6, <2>7, <2>8
<1>7. PICK m \in Nat: /\ m = Cardinality(S)
                      /\ all \in [1..m -> S]
                      /\ \A h \in S: \E z \in 1..m: all[z] = h
                      /\ \A p, q \in 1..m: p < q => all[p].start < all[q].start
  <2>1. all = InOrder(S)
    BY <1>2
  <2>2. Cardinality(S) \in Nat
    BY <1>4, FS_CardinalityType
  <2>3. \A h, k \in S: h.start = k.start => h = k
    BY <1>6
  <2> QED
    BY <1>4, <2>1, <2>2, <2>3, InOrderOK
<1>8. all \in Seq(HunkSet) /\ Len(all) = m
  <2>1. all \in [1..m -> HunkSet]
    BY <1>4, <1>7
  <2>2. all \in Seq(HunkSet)
    BY <2>1, SeqDef, Zenon
  <2>3. Len(all) \in Nat /\ DOMAIN all = 1..Len(all)
    BY <2>2, LenProperties
  <2>4. DOMAIN all = 1..m
    BY <2>1
  <2>5. Len(all) = m
    <3>1. PICK len \in Nat: len = Len(all)
      BY <2>3
    <3>2. \A k: k \in 1..len <=> k \in 1..m
      BY <2>3, <2>4, <3>1
    <3>3. len = m
      <4>1. len \in 1..len \/ len = 0
        OBVIOUS
      <4>2. m \in 1..m \/ m = 0
        OBVIOUS
      <4> QED
        BY <3>2, <4>1, <4>2
    <3> QED
      BY <3>1, <3>3
  <2> QED
    BY <2>2, <2>5
<1>9. \A k \in 1..m: all[k].start <= all[k].end /\ all[k].end <= n
  BY <1>5, <1>7
<1>10. \A p, q \in 1..m: p < q => all[p].start < all[q].start /\ all[p].end <= all[q].start
  <2> SUFFICES ASSUME NEW p \in 1..m, NEW q \in 1..m, p < q
               PROVE  all[p].start < all[q].start /\ all[p].end <= all[q].start
    OBVIOUS
  <2>1. PICK h \in S, k \in S: h = all[p] /\ k = all[q]
    BY <1>7
  <2>2. h.start < k.start
    BY <1>7, <2>1
  <2>3. h.start \in Nat /\ k.start \in Nat /\ k.end \in Nat /\ k.start <= k.end
    BY <1>5
  <2>4. h.end <= k.start \/ k.end <= h.start
    BY <1>6, <2>2, <2>3
  <2>5. ~(k.end <= h.start)
    BY <2>2, <2>3
  <2> QED
    BY <2>1, <2>2, <2>4, <2>5
<1>11. Sorted(all, n)
  BY <1>8, <1>9, <1>10 DEF Sorted
<1>12. Within(left, all) /\ Within(right, all)
  BY <1>1, <1>3, <1>7, <1>8 DEF Within
<1>13. \A z \in 1..m: (\E i \in 1..x: all[z] = left[i]) \/ (\E j \in 1..y: all[z] = right[j])
  BY <1>3, <1>7
<1>14. FromSides(left, right, all)
  BY <1>1, <1>8, <1>13, Zenon DEF FromSides
<1> QED
  BY <1>11, <1>12, <1>14

----------------------------------------------------------------------------
(***************************************************************************)
(* Weaving the hunks of both sides: after some turns of the loop the first *)
(* z of them, in their common order, are woven in.                         *)
(***************************************************************************)
\* Those of one side are the ones before its next hunk.
Done(side, c, all, z) ==
  /\ c \in 1..(Len(side) + 1)
  /\ \A x \in 1..Len(side): x < c <=> \E y \in 1..z: all[y] = side[x]

\* The text so far, up to pos in the base.
Reached(text, all, z, pos, out) ==
  /\ z \in 0..Len(all) /\ pos \in 0..(Len(text) + 1)
  /\ EndOf(all, z) <= pos
  /\ \A y \in (z + 1)..Len(all): pos <= all[y].start
  /\ out = Woven(text, all)[z] \o Between(text, EndOf(all, z), pos)

LEMMA StartsApart ==
  ASSUME NEW hunks, NEW n, Sorted(hunks, n)
  PROVE  \A x, y \in 1..Len(hunks): hunks[x].start = hunks[y].start => x = y
<1>1. PICK m \in Nat: m = Len(hunks)
  BY SortedTypes
<1>2. \A x \in 1..m: hunks[x].start \in Nat
  BY <1>1, SortedTypes
<1>3. \A x, y \in 1..m: x < y => hunks[x].start < hunks[y].start
  BY <1>1 DEF Sorted
<1>4. \A x, y \in 1..m: x < y => hunks[x].start # hunks[y].start
  BY <1>2, <1>3
<1>5. \A x, y \in 1..m: hunks[x].start = hunks[y].start => x = y
  BY <1>4
<1> QED
  BY <1>1, <1>5

\* The hunk found at pos is the next of all.
LEMMA NextHunk ==
  ASSUME NEW n, NEW all, Sorted(all, n), NEW side, Sorted(side, n), Within(side, all),
         NEW z \in 0..Len(all), NEW c, Done(side, c, all, z), NEW pos,
         \A y \in (z + 1)..Len(all): pos <= all[y].start, StartsAt(side, c, pos)
  PROVE  z + 1 \in 1..Len(all) /\ c \in 1..Len(side) /\ all[z + 1] = side[c]
<1>1. PICK m \in Nat, k \in Nat: m = Len(all) /\ k = Len(side)
  BY SortedTypes
<1>2. c \in 1..k /\ side[c].start = pos
  BY <1>1 DEF StartsAt, Done
<1>3. PICK y \in 1..m: all[y] = side[c]
  BY <1>1, <1>2 DEF Within
<1>4. ~(y \in 1..z)
  BY <1>1, <1>2, <1>3 DEF Done
<1>5. z + 1 \in 1..m /\ (z + 1 < y \/ y = z + 1)
  BY <1>1, <1>3, <1>4
<1>6. ~(z + 1 < y)
  <2> SUFFICES ASSUME z + 1 < y PROVE FALSE
    OBVIOUS
  <2>1. all[z + 1].start < all[y].start
    BY <1>1, <1>5, Zenon DEF Sorted
  <2>2. all[z + 1].start \in Nat /\ all[y].start \in Nat
    BY <1>1, <1>5, SortedTypes
  <2>3. pos <= all[z + 1].start
    BY <1>1, <1>5
  <2> QED
    BY <1>2, <1>3, <2>1, <2>2, <2>3
<1> QED
  BY <1>1, <1>2, <1>3, <1>5, <1>6

\* The next of all, if it is a hunk of a side, is the next of that side.
LEMMA NextOfSide ==
  ASSUME NEW n, NEW all, Sorted(all, n), NEW side, Sorted(side, n), Within(side, all),
         NEW z \in 0..Len(all), NEW c, Done(side, c, all, z),
         z + 1 \in 1..Len(all), NEW x \in 1..Len(side), all[z + 1] = side[x]
  PROVE  x = c
<1>1. PICK m \in Nat, k \in Nat: m = Len(all) /\ k = Len(side)
  BY SortedTypes
<1>2. \A p, q \in 1..m: all[p].start = all[q].start => p = q
  BY <1>1, StartsApart
<1>3. c \in 1..(k + 1) /\ \A i \in 1..k: i < c <=> \E y \in 1..z: all[y] = side[i]
  BY <1>1 DEF Done
<1>4. ~(x < c)
  <2> SUFFICES ASSUME x < c PROVE FALSE
    OBVIOUS
  <2>1. PICK y \in 1..z: all[y] = side[x]
    BY <1>1, <1>3
  <2>2. y \in 1..m /\ y # z + 1
    BY <1>1
  <2> QED
    BY <1>1, <1>2, <2>1, <2>2
<1>5. ~(x > c)
  <2> SUFFICES ASSUME x > c PROVE FALSE
    OBVIOUS
  <2>1. c \in 1..k
    BY <1>1, <1>3
  <2>2. PICK y \in 1..m: all[y] = side[c]
    BY <1>1, <2>1 DEF Within
  <2>3. ~(y \in 1..z)
    BY <1>3, <2>1, <2>2
  <2>4. side[c].start < side[x].start
    BY <1>1, <2>1 DEF Sorted
  <2>5. side[c].start \in Nat /\ side[x].start \in Nat
    BY <1>1, <2>1, SortedTypes
  <2>6. y = z + 1 \/ z + 1 < y
    BY <1>1, <2>3
  <2>7. CASE y = z + 1
    BY <2>2, <2>4, <2>5, <2>7
  <2>8. CASE z + 1 < y
    <3>1. all[z + 1].start < all[y].start
      BY <1>1, <2>8 DEF Sorted
    <3> QED
      BY <2>2, <2>4, <2>5, <3>1
  <2> QED
    BY <2>6, <2>7, <2>8
<1> QED
  BY <1>1, <1>3, <1>4, <1>5

LEMMA DoneMore ==
  ASSUME NEW n, NEW all, NEW side, Sorted(side, n),
         NEW z \in Nat, NEW c, Done(side, c, all, z), c \in 1..Len(side), all[z + 1] = side[c]
  PROVE  Done(side, c + 1, all, z + 1)
<1>1. PICK k \in Nat: k = Len(side)
  BY SortedTypes
<1>2. \A i \in 1..k: i < c <=> \E y \in 1..z: all[y] = side[i]
  BY <1>1 DEF Done
<1>3. c \in 1..k /\ \A i \in 1..k: side[i].start = side[c].start => i = c
  BY <1>1, StartsApart
<1>4. ASSUME NEW i \in 1..k PROVE i < c + 1 <=> \E y \in 1..(z + 1): all[y] = side[i]
  <2>1. ASSUME i < c + 1 PROVE \E y \in 1..(z + 1): all[y] = side[i]
    <3>1. CASE i = c
      <4>1. z + 1 \in 1..(z + 1)
        OBVIOUS
      <4> QED
        BY <3>1, <4>1
    <3>2. CASE i < c
      <4>1. PICK y \in 1..z: all[y] = side[i]
        BY <1>2, <3>2
      <4>2. y \in 1..(z + 1)
        OBVIOUS
      <4> QED
        BY <4>1, <4>2
    <3> QED
      BY <1>3, <2>1, <3>1, <3>2
  <2>2. ASSUME NEW y \in 1..(z + 1), all[y] = side[i] PROVE i < c + 1
    <3>1. y = z + 1 \/ y \in 1..z
      OBVIOUS
    <3>2. CASE y = z + 1
      <4>1. i = c
        BY <1>3, <2>2, <3>2
      <4> QED
        BY <1>3, <4>1
    <3>3. CASE y \in 1..z
      <4>1. i < c
        BY <1>2, <2>2, <3>3
      <4> QED
        BY <1>3, <4>1
    <3> QED
      BY <3>1, <3>2, <3>3
  <2> QED
    BY <2>1, <2>2
<1>5. c + 1 \in 1..(k + 1)
  BY <1>3
<1> QED
  BY <1>1, <1>4, <1>5, Zenon DEF Done

LEMMA DoneOther ==
  ASSUME NEW all, NEW side, NEW z \in Nat, NEW c, Done(side, c, all, z),
         \A x \in 1..Len(side): all[z + 1] # side[x]
  PROVE  Done(side, c, all, z + 1)
<1>1. \A y: y \in 1..(z + 1) <=> y \in 1..z \/ y = z + 1
  OBVIOUS
<1>2. ASSUME NEW i \in 1..Len(side)
      PROVE  (\E y \in 1..z: all[y] = side[i]) <=> (\E y \in 1..(z + 1): all[y] = side[i])
  BY <1>1, Zenon
<1> QED
  BY <1>2, Zenon DEF Done

----------------------------------------------------------------------------
LEMMA BetweenPast ==
  ASSUME NEW text \in Seq(Line), NEW lo \in Nat, NEW hi \in Nat, hi >= Len(text)
  PROVE  Between(text, lo, hi) = Between(text, lo, Len(text))
<1>1. PICK n \in Nat: n = Len(text)
  BY LenProperties
<1>2. Min({hi, n}) = n /\ Min({n, n}) = n
  <2>1. hi \in Int /\ n \in Int
    OBVIOUS
  <2>2. Min({hi, n}) = IF hi <= n THEN hi ELSE n
    BY <2>1, MinOfTwo, Zenon
  <2>3. Min({n, n}) = IF n <= n THEN n ELSE n
    BY <2>1, MinOfTwo, Zenon
  <2> QED
    BY <1>1, <2>2, <2>3
<1> QED
  BY <1>1, <1>2, Zenon DEF Between

LEMMA BetweenLonger ==
  ASSUME NEW text \in Seq(Line), NEW lo \in Nat, NEW hi \in Nat, lo <= hi, hi <= Len(text)
  PROVE  /\ Between(text, lo, hi + 1) = Between(text, lo, hi) \o Between(text, hi, hi + 1)
         /\ Between(text, lo, hi) \in Seq(Line) /\ Between(text, hi, hi + 1) \in Seq(Line)
<1>1. PICK n \in Nat: n = Len(text)
  BY LenProperties
<1>2. Between(text, lo, hi) \in Seq(Line) /\ Between(text, hi, hi + 1) \in Seq(Line)
  <2>1. hi + 1 \in Nat
    OBVIOUS
  <2> QED
    BY <2>1, BetweenOK
<1>3. CASE hi < n
  <2>1. Between(text, lo, hi + 1) = Between(text, lo, hi) \o <<text[hi + 1]>>
    BY <1>1, <1>3, BetweenOK
  <2>2. Between(text, hi, hi + 1) = Between(text, hi, hi) \o <<text[hi + 1]>>
    BY <1>1, <1>3, BetweenOK
  <2>3. Between(text, hi, hi) = <<>>
    <3>1. hi <= hi
      OBVIOUS
    <3> QED
      BY <3>1, BetweenOK
  <2>4. <<text[hi + 1]>> \in Seq(Line)
    <3>1. hi + 1 \in 1..Len(text)
      BY <1>1, <1>3
    <3>2. text[hi + 1] \in Line
      BY <3>1, ElementOfSeq
    <3> QED
      BY <3>2
  <2>5. <<>> \o <<text[hi + 1]>> = <<text[hi + 1]>>
    BY <2>4, ConcatEmptySeq
  <2> QED
    BY <1>2, <2>1, <2>2, <2>3, <2>5, Zenon
<1>4. CASE hi = n
  <2>1. Between(text, lo, hi + 1) = Between(text, lo, hi)
    BY <1>1, <1>4, BetweenPast
  <2>2. Between(text, hi, hi + 1) = Between(text, hi, hi)
    BY <1>1, <1>4, BetweenPast
  <2>3. Between(text, hi, hi) = <<>>
    <3>1. hi <= hi
      OBVIOUS
    <3> QED
      BY <3>1, BetweenOK
  <2>4. Between(text, lo, hi) \o <<>> = Between(text, lo, hi)
    BY <1>2, ConcatEmptySeq
  <2> QED
    BY <1>2, <2>1, <2>2, <2>3, <2>4, Zenon
<1> QED
  BY <1>1, <1>3, <1>4

\* What is woven, and where it ends.
LEMMA WovenTypes ==
  ASSUME NEW text \in Seq(Line), NEW all, Sorted(all, Len(text)), NEW z \in 0..Len(all)
  PROVE  /\ Woven(text, all)[z] \in Seq(Line) /\ EndOf(all, z) \in Nat
         /\ EndOf(all, z) <= Len(text)
<1>1. PICK m \in Nat, n \in Nat: m = Len(all) /\ n = Len(text)
  BY SortedTypes, LenProperties
<1>2. IsWoven(text, all, m, Woven(text, all))
  BY <1>1, WovenOK DEF Sorted
<1>3. Woven(text, all)[z] \in Seq(Line)
  BY <1>1, <1>2, Zenon DEF IsWoven
<1>4. EndOf(all, z) \in Nat /\ EndOf(all, z) <= n
  <2>1. CASE z = 0
    BY <2>1 DEF EndOf
  <2>2. CASE z # 0
    <3>1. z \in 1..m
      BY <1>1, <2>2
    <3>2. all[z].end \in Nat
      BY <1>1, <3>1, SortedTypes
    <3>3. all[z].end <= n
      BY <1>1, <3>1 DEF Sorted
    <3> QED
      BY <2>2, <3>2, <3>3 DEF EndOf
  <2> QED
    BY <2>1, <2>2
<1> QED
  BY <1>1, <1>3, <1>4

\* A turn that takes a line of the base.
LEMMA ReachedLine ==
  ASSUME NEW text \in Seq(Line), NEW all, Sorted(all, Len(text)), NEW z, NEW pos, NEW out,
         Reached(text, all, z, pos, out), pos <= Len(text),
         \A y \in (z + 1)..Len(all): all[y].start # pos
  PROVE  Reached(text, all, z, pos + 1, out \o Between(text, pos, pos + 1))
<1>1. PICK m \in Nat, n \in Nat: m = Len(all) /\ n = Len(text)
  BY SortedTypes, LenProperties
<1>2. /\ z \in 0..m /\ pos \in 0..n /\ EndOf(all, z) <= pos
      /\ \A y \in (z + 1)..m: pos <= all[y].start
      /\ out = Woven(text, all)[z] \o Between(text, EndOf(all, z), pos)
  BY <1>1 DEF Reached
<1>3. PICK w \in Seq(Line), e \in Nat: w = Woven(text, all)[z] /\ e = EndOf(all, z)
  BY <1>1, <1>2, WovenTypes
<1>4. \A y \in (z + 1)..m: pos + 1 <= all[y].start
  <2> SUFFICES ASSUME NEW y \in (z + 1)..m PROVE pos + 1 <= all[y].start
    OBVIOUS
  <2>1. y \in 1..m
    BY <1>2
  <2>2. all[y].start \in Nat
    BY <1>1, <2>1, SortedTypes
  <2>3. pos <= all[y].start /\ all[y].start # pos
    BY <1>1, <1>2
  <2> QED
    BY <1>2, <2>2, <2>3
<1>5. PICK x \in Seq(Line), y \in Seq(Line):
        x = Between(text, e, pos) /\ y = Between(text, pos, pos + 1) /\ Between(text, e, pos + 1) = x \o y
  <2>1. e <= pos /\ pos \in Nat /\ pos <= Len(text)
    BY <1>1, <1>2, <1>3
  <2>2. /\ Between(text, e, pos + 1) = Between(text, e, pos) \o Between(text, pos, pos + 1)
        /\ Between(text, e, pos) \in Seq(Line) /\ Between(text, pos, pos + 1) \in Seq(Line)
    BY <1>3, <2>1, BetweenLonger
  <2> QED
    BY <2>2, Zenon
<1>6. (w \o x) \o y = w \o (x \o y)
  <2>1. w \in Seq(Line) /\ x \in Seq(Line) /\ y \in Seq(Line)
    BY <1>3, <1>5
  <2>2. Associative(w, x, y)
    BY <2>1, JoinsAre
  <2> QED
    BY <2>2, Zenon DEF Associative
<1>7. out \o Between(text, pos, pos + 1) = Woven(text, all)[z] \o Between(text, EndOf(all, z), pos + 1)
  BY <1>2, <1>3, <1>5, <1>6, Zenon
<1>8. /\ z \in 0..Len(all) /\ pos + 1 \in 0..(Len(text) + 1) /\ EndOf(all, z) <= pos + 1
      /\ \A q \in (z + 1)..Len(all): pos + 1 <= all[q].start
  BY <1>1, <1>2, <1>3, <1>4
<1> QED
  BY <1>7, <1>8, Zenon DEF Reached

\* A turn that takes a hunk.
LEMMA ReachedHunk ==
  ASSUME NEW text \in Seq(Line), NEW all, Sorted(all, Len(text)), NEW z, NEW pos, NEW out,
         Reached(text, all, z, pos, out), z + 1 \in 1..Len(all), all[z + 1].start = pos
  PROVE  Reached(text, all, z + 1, all[z + 1].end, out \o all[z + 1].lines)
<1>1. PICK m \in Nat, n \in Nat: m = Len(all) /\ n = Len(text)
  BY SortedTypes, LenProperties
<1>2. /\ z \in 0..m /\ z \in Nat /\ z + 1 \in 1..m /\ z + 1 # 0 /\ (z + 1) - 1 = z
  BY <1>1 DEF Reached
<1>3. PICK e \in Nat: e = all[z + 1].end /\ e <= n
  <2>1. all[z + 1].end \in Nat
    BY <1>1, <1>2, SortedTypes
  <2>2. all[z + 1].end <= n
    BY <1>1, <1>2 DEF Sorted
  <2> QED
    BY <2>1, <2>2
<1>4. EndOf(all, z + 1) = e
  BY <1>2, <1>3 DEF EndOf
<1>5. \A y \in ((z + 1) + 1)..m: e <= all[y].start
  <2> SUFFICES ASSUME NEW y \in ((z + 1) + 1)..m PROVE e <= all[y].start
    OBVIOUS
  <2>1. y \in 1..m /\ z + 1 < y
    BY <1>2
  <2> QED
    BY <1>1, <1>2, <1>3, <2>1 DEF Sorted
<1>6. Woven(text, all)[z + 1] = out \o all[z + 1].lines
  <2>1. IsWoven(text, all, m, Woven(text, all))
    BY <1>1, WovenOK DEF Sorted
  <2>2. Woven(text, all)[z + 1] = Longer(text, all, Woven(text, all)[z], z + 1)
    <3>1. Woven(text, all)[z + 1] = Longer(text, all, Woven(text, all)[(z + 1) - 1], z + 1)
      BY <1>2, <2>1, Zenon DEF IsWoven
    <3> QED
      BY <1>2, <3>1, Zenon
  <2>3. out = Woven(text, all)[z] \o Between(text, EndOf(all, z), all[z + 1].start)
    BY DEF Reached
  <2> QED
    BY <1>2, <2>2, <2>3, Zenon DEF Longer
<1>7. Woven(text, all)[z + 1] \o Between(text, e, e) = Woven(text, all)[z + 1]
  <2>1. Between(text, e, e) = <<>>
    <3>1. e <= e
      OBVIOUS
    <3> QED
      BY <3>1, BetweenOK
  <2>2. Woven(text, all)[z + 1] \in Seq(Line)
    <3>1. z + 1 \in 0..Len(all)
      BY <1>1, <1>2
    <3> QED
      BY <3>1, WovenTypes
  <2>3. Woven(text, all)[z + 1] \o <<>> = Woven(text, all)[z + 1]
    BY <2>2, ConcatEmptySeq
  <2> QED
    BY <2>1, <2>3, Zenon
<1>8. /\ z + 1 \in 0..Len(all) /\ e \in 0..(Len(text) + 1) /\ e <= e
      /\ \A y \in ((z + 1) + 1)..Len(all): e <= all[y].start
  BY <1>1, <1>2, <1>3, <1>5
<1>9. out \o all[z + 1].lines = Woven(text, all)[z + 1] \o Between(text, e, e)
  BY <1>6, <1>7, Zenon
<1>10. Reached(text, all, z + 1, e, out \o all[z + 1].lines)
  BY <1>4, <1>8, <1>9, Zenon DEF Reached
<1> QED
  BY <1>3, <1>10

\* Past the end of the base all hunks are woven in.
LEMMA ReachedEnd ==
  ASSUME NEW text \in Seq(Line), NEW all, Sorted(all, Len(text)), NEW z, NEW pos, NEW out,
         Reached(text, all, z, pos, out), pos > Len(text)
  PROVE  out = Apply(text, all)
<1>1. PICK m \in Nat, n \in Nat: m = Len(all) /\ n = Len(text)
  BY SortedTypes, LenProperties
<1>2. z \in 0..m /\ pos \in 0..(n + 1) /\ \A y \in (z + 1)..m: pos <= all[y].start
  BY <1>1 DEF Reached
<1>3. z = m
  <2> SUFFICES ASSUME z # m PROVE FALSE
    OBVIOUS
  <2>1. z + 1 \in (z + 1)..m /\ z + 1 \in 1..m
    BY <1>2
  <2>2. pos <= all[z + 1].start
    BY <1>2, <2>1
  <2>3. all[z + 1].start <= all[z + 1].end /\ all[z + 1].end <= n
    BY <1>1, <2>1 DEF Sorted
  <2>4. all[z + 1].start \in Nat /\ all[z + 1].end \in Nat
    BY <1>1, <2>1, SortedTypes
  <2> QED
    BY <1>1, <1>2, <2>2, <2>3, <2>4
<1>4. EndOf(all, m) \in Nat
  <2>1. m \in 0..Len(all)
    BY <1>1
  <2> QED
    BY <2>1, WovenTypes
<1>5. Between(text, EndOf(all, m), pos) = Between(text, EndOf(all, m), n)
  <2>1. pos \in Nat /\ pos >= Len(text)
    BY <1>1, <1>2
  <2> QED
    BY <1>1, <1>4, <2>1, BetweenPast
<1>6. out = Woven(text, all)[m] \o Between(text, EndOf(all, m), pos)
  BY <1>3 DEF Reached
<1> QED
  BY <1>1, <1>5, <1>6, Zenon DEF Apply

----------------------------------------------------------------------------
Sides(text, left, right, all) ==
  /\ Sorted(left, Len(text)) /\ Sorted(right, Len(text)) /\ Sorted(all, Len(text))
  /\ AllClear(left, right) /\ Within(left, all) /\ Within(right, all)
  /\ FromSides(left, right, all)

WovenBoth(text, left, right, all, z, s) ==
  /\ Done(left, s.l, all, z) /\ Done(right, s.r, all, z)
  /\ Reached(text, all, z, s.pos, s.out)
WovenUpto(text, left, right, all, s) ==
  /\ Shape(s) /\ s.conflicts = 0
  /\ \E z \in 0..Len(all): WovenBoth(text, left, right, all, z, s)

LEMMA LoopStarts ==
  ASSUME NEW text \in Seq(Line), NEW left, NEW right, NEW all, Sides(text, left, right, all)
  PROVE  WovenUpto(text, left, right, all, AtStart)
<1>1. Sorted(left, Len(text)) /\ Sorted(right, Len(text)) /\ Sorted(all, Len(text))
  BY DEF Sides
<1>2. PICK n \in Nat, m \in Nat, x \in Nat, y \in Nat:
        n = Len(text) /\ m = Len(all) /\ x = Len(left) /\ y = Len(right)
  BY <1>1, SortedTypes, LenProperties
<1>3. Done(left, 1, all, 0) /\ Done(right, 1, all, 0)
  BY <1>2 DEF Done
<1>4. Reached(text, all, 0, 0, <<>>)
  <2>1. EndOf(all, 0) = 0
    BY DEF EndOf
  <2>2. Woven(text, all)[0] = <<>>
    <3>1. IsWoven(text, all, m, Woven(text, all))
      BY <1>1, <1>2, WovenOK DEF Sorted
    <3> QED
      BY <3>1, Zenon DEF IsWoven
  <2>3. Between(text, 0, 0) = <<>>
    <3>1. 0 \in Nat /\ 0 <= 0
      OBVIOUS
    <3> QED
      BY <3>1, BetweenOK
  <2>4. <<>> \o <<>> = <<>>
    OBVIOUS
  <2>5. /\ 0 \in 0..Len(all) /\ 0 \in 0..(Len(text) + 1) /\ 0 <= 0
        /\ \A k \in (0 + 1)..Len(all): 0 <= all[k].start
    <3>1. \A k \in 1..m: all[k].start \in Nat
      BY <1>1, <1>2, SortedTypes
    <3> QED
      BY <1>2, <3>1
  <2> QED
    BY <2>1, <2>2, <2>3, <2>4, <2>5, Zenon DEF Reached
<1>5. WovenBoth(text, left, right, all, 0, AtStart)
  BY <1>3, <1>4 DEF WovenBoth, AtStart
<1>6. Shape(AtStart) /\ AtStart.conflicts = 0 /\ 0 \in 0..Len(all)
  BY <1>2 DEF Shape, AtStart
<1> QED
  BY <1>5, <1>6, Zenon DEF WovenUpto

\* A turn of the loop, by what it finds at the position it has reached.
Onward(text, left, right, all, s, t) ==
  /\ WovenUpto(text, left, right, all, t)
  /\ t.pos + t.l + t.r >= s.pos + s.l + s.r + 1

LEMMA TakesLine ==
  ASSUME NEW text \in Seq(Line), NEW left, NEW right, NEW all, Sides(text, left, right, all),
         NEW s, NEW z \in 0..Len(all), WovenBoth(text, left, right, all, z, s),
         s.pos <= Len(text), ~StartsAt(left, s.l, s.pos), ~StartsAt(right, s.r, s.pos),
         NEW t, Fields(t, s.pos + 1, s.l, s.r, 0),
         t.out = s.out \o Between(text, s.pos, s.pos + 1)
  PROVE  Onward(text, left, right, all, s, t)
<1>1. /\ Sorted(left, Len(text)) /\ Sorted(right, Len(text)) /\ Sorted(all, Len(text))
      /\ Within(left, all) /\ Within(right, all)
  BY DEF Sides
<1>2. /\ Done(left, s.l, all, z) /\ Done(right, s.r, all, z)
      /\ Reached(text, all, z, s.pos, s.out)
  BY DEF WovenBoth
<1>3. PICK n \in Nat, m \in Nat, x \in Nat, y \in Nat:
        n = Len(text) /\ m = Len(all) /\ x = Len(left) /\ y = Len(right)
  BY <1>1, SortedTypes, LenProperties
<1>4. PICK pos \in Nat, l \in Nat, r \in Nat: pos = s.pos /\ l = s.l /\ r = s.r
  BY <1>2, <1>3 DEF Done, Reached
<1>5. ASSUME NEW k \in (z + 1)..m PROVE all[k].start # pos
  <2> SUFFICES ASSUME all[k].start = pos PROVE FALSE
    OBVIOUS
  <2>1. z + 1 \in 1..m /\ k \in 1..m
    BY <1>3
  <2>2. pos <= all[z + 1].start /\ all[z + 1].start \in Nat
    <3>1. pos <= all[z + 1].start
      BY <1>2, <1>3, <1>4, <2>1 DEF Reached
    <3> QED
      BY <1>1, <1>3, <2>1, <3>1, SortedTypes
  <2>3. all[z + 1].start = pos
    <3>1. k = z + 1 \/ z + 1 < k
      BY <1>3
    <3>2. CASE z + 1 < k
      <4>1. all[z + 1].start < all[k].start
        BY <1>1, <1>3, <2>1, <3>2 DEF Sorted
      <4> QED
        BY <2>2, <4>1
    <3> QED
      BY <3>1, <3>2
  <2>4. \/ \E i \in 1..x: all[z + 1] = left[i]
        \/ \E j \in 1..y: all[z + 1] = right[j]
    BY <1>3, <2>1 DEF Sides, FromSides
  <2>5. CASE \E i \in 1..x: all[z + 1] = left[i]
    <3>1. PICK i \in 1..x: all[z + 1] = left[i]
      BY <2>5
    <3>2. i = s.l
      BY <1>1, <1>2, <1>3, <2>1, <3>1, NextOfSide
    <3>3. StartsAt(left, s.l, s.pos)
      BY <1>3, <1>4, <2>3, <3>1, <3>2 DEF StartsAt
    <3> QED
      BY <3>3
  <2>6. CASE \E j \in 1..y: all[z + 1] = right[j]
    <3>1. PICK j \in 1..y: all[z + 1] = right[j]
      BY <2>6
    <3>2. j = s.r
      BY <1>1, <1>2, <1>3, <2>1, <3>1, NextOfSide
    <3>3. StartsAt(right, s.r, s.pos)
      BY <1>3, <1>4, <2>3, <3>1, <3>2 DEF StartsAt
    <3> QED
      BY <3>3
  <2> QED
    BY <2>4, <2>5, <2>6
<1>6. Reached(text, all, z, s.pos + 1, s.out \o Between(text, s.pos, s.pos + 1))
  BY <1>1, <1>2, <1>3, <1>4, <1>5, ReachedLine
<1>7. WovenBoth(text, left, right, all, z, t)
  BY <1>2, <1>6, Zenon DEF WovenBoth, Fields
<1>8. WovenUpto(text, left, right, all, t)
  BY <1>7, Zenon DEF WovenUpto, Fields
<1>9. t.pos + t.l + t.r >= s.pos + s.l + s.r + 1
  <2>1. t.pos = pos + 1 /\ t.l = l /\ t.r = r
    BY <1>4 DEF Fields
  <2>2. (pos + 1) + l + r >= pos + l + r + 1
    OBVIOUS
  <2> QED
    BY <1>4, <2>1, <2>2, Zenon
<1> QED
  BY <1>8, <1>9, Zenon DEF Onward

\* The sides do not both have a hunk at one position.
LEMMA OneSide ==
  ASSUME NEW text, NEW left, NEW right, NEW all, Sides(text, left, right, all),
         NEW s, NEW z, WovenBoth(text, left, right, all, z, s)
  PROVE  ~(StartsAt(left, s.l, s.pos) /\ StartsAt(right, s.r, s.pos))
<1> SUFFICES ASSUME StartsAt(left, s.l, s.pos), StartsAt(right, s.r, s.pos) PROVE FALSE
  OBVIOUS
<1>1. Sorted(left, Len(text)) /\ Sorted(right, Len(text)) /\ AllClear(left, right)
  BY DEF Sides
<1>2. PICK x \in Nat, y \in Nat: x = Len(left) /\ y = Len(right)
  BY <1>1, SortedTypes
<1>3. s.l \in 1..(x + 1) /\ s.r \in 1..(y + 1)
  BY <1>2 DEF WovenBoth, Done
<1>4. s.l \in 1..x /\ s.r \in 1..y /\ left[s.l].start = s.pos /\ right[s.r].start = s.pos
  BY <1>2, <1>3 DEF StartsAt
<1>5. Clear(left[s.l], right[s.r])
  BY <1>1, <1>2, <1>4, Zenon DEF AllClear
<1> QED
  BY <1>4, <1>5 DEF Clear

\* A hunk of one side, which is none of the other's.
LEMMA TakesHunk ==
  ASSUME NEW text \in Seq(Line), NEW side, NEW other, NEW all,
         Sorted(side, Len(text)), Sorted(all, Len(text)), Within(side, all),
         \A i \in 1..Len(side), j \in 1..Len(other): side[i].start # other[j].start,
         NEW z \in 0..Len(all), NEW c, NEW d, NEW pos, NEW out,
         Done(side, c, all, z), Done(other, d, all, z), Reached(text, all, z, pos, out),
         StartsAt(side, c, pos)
  PROVE  /\ z + 1 \in 0..Len(all)
         /\ Done(side, c + 1, all, z + 1) /\ Done(other, d, all, z + 1)
         /\ Reached(text, all, z + 1, side[c].end, out \o side[c].lines)
         /\ side[c].end \in Nat /\ side[c].end >= pos
<1>1. PICK m \in Nat, n \in Nat: m = Len(all) /\ n = Len(text)
  BY SortedTypes, LenProperties
<1>2. \A y \in (z + 1)..Len(all): pos <= all[y].start
  BY DEF Reached
<1>3. z + 1 \in 1..Len(all) /\ c \in 1..Len(side) /\ all[z + 1] = side[c]
  BY <1>1, <1>2, NextHunk
<1>4. z \in Nat /\ z + 1 \in 0..Len(all)
  BY <1>1, <1>3
<1>5. Done(side, c + 1, all, z + 1)
  BY <1>3, <1>4, DoneMore
<1>6. Done(other, d, all, z + 1)
  <2>1. \A j \in 1..Len(other): all[z + 1] # other[j]
    BY <1>3
  <2> QED
    BY <1>4, <2>1, DoneOther
<1>7. side[c].start = pos /\ all[z + 1].start = pos
  BY <1>3 DEF StartsAt
<1>8. Reached(text, all, z + 1, all[z + 1].end, out \o all[z + 1].lines)
  BY <1>3, <1>7, ReachedHunk
<1>9. side[c].end \in Nat /\ side[c].end >= pos
  <2>1. side[c].start \in Nat /\ side[c].end \in Nat
    BY <1>3, SortedTypes
  <2>2. side[c].start <= side[c].end
    BY <1>3 DEF Sorted
  <2> QED
    BY <1>7, <2>1, <2>2
<1> QED
  BY <1>3, <1>4, <1>5, <1>6, <1>8, <1>9, Zenon

LEMMA TurnWeaves ==
  ASSUME NEW text \in Seq(Line), NEW left, NEW right, NEW all, Sides(text, left, right, all),
         NEW s, WovenUpto(text, left, right, all, s), s.pos <= Len(text),
         NEW t, t = Turn(text, left, right, s)
  PROVE  Onward(text, left, right, all, s, t)
<1>1. PICK z \in 0..Len(all): WovenBoth(text, left, right, all, z, s)
  BY Zenon DEF WovenUpto
<1>2. Shape(s) /\ s.conflicts = 0
  BY Zenon DEF WovenUpto
<1>3. /\ Sorted(left, Len(text)) /\ Sorted(right, Len(text)) /\ Sorted(all, Len(text))
      /\ Within(left, all) /\ Within(right, all) /\ AllClear(left, right)
  BY Zenon DEF Sides
<1>4. /\ Done(left, s.l, all, z) /\ Done(right, s.r, all, z)
      /\ Reached(text, all, z, s.pos, s.out)
  BY <1>1, Zenon DEF WovenBoth
<1>5. PICK n \in Nat, m \in Nat, x \in Nat, y \in Nat:
        n = Len(text) /\ m = Len(all) /\ x = Len(left) /\ y = Len(right)
  BY <1>3, SortedTypes, LenProperties
<1>6. PICK pos \in Nat, l \in Nat, r \in Nat: pos = s.pos /\ l = s.l /\ r = s.r
  BY <1>4, <1>5 DEF Done, Reached
<1> DEFINE onLeft == StartsAt(left, s.l, s.pos)
           onRight == StartsAt(right, s.r, s.pos)
<1>7. /\ ~onLeft /\ ~onRight => /\ Fields(t, s.pos + 1, s.l, s.r, 0)
                                /\ t.out = s.out \o Between(text, s.pos, s.pos + 1)
      /\ onLeft /\ ~onRight => /\ Fields(t, left[s.l].end, s.l + 1, s.r, 0)
                               /\ t.out = s.out \o left[s.l].lines
      /\ ~onLeft /\ onRight => /\ Fields(t, right[s.r].end, s.l, s.r + 1, 0)
                               /\ t.out = s.out \o right[s.r].lines
  <2>1. ~onLeft /\ ~onRight => /\ Fields(t, s.pos + 1, s.l, s.r, s.conflicts)
                               /\ Grown(t, s, Between(text, s.pos, s.pos + 1))
    BY <1>2, TurnOK, Zenon
  <2>2. onLeft /\ ~onRight => /\ Fields(t, left[s.l].end, s.l + 1, s.r, s.conflicts)
                              /\ Grown(t, s, left[s.l].lines)
    BY <1>2, TurnOK, Zenon
  <2>3. ~onLeft /\ onRight => /\ Fields(t, right[s.r].end, s.l, s.r + 1, s.conflicts)
                              /\ Grown(t, s, right[s.r].lines)
    BY <1>2, TurnOK, Zenon
  <2> HIDE DEF onLeft, onRight
  <2> QED
    BY <1>2, <2>1, <2>2, <2>3, Zenon DEF Grown
<1>8. ~(onLeft /\ onRight)
  BY <1>1, OneSide
<1>9. \A i \in 1..x, j \in 1..y: left[i].start # right[j].start
  BY <1>3, <1>5 DEF AllClear, Clear
<1>10. CASE ~onLeft /\ ~onRight
  BY <1>1, <1>7, <1>10, TakesLine
<1>11. CASE onLeft
  <2>1. /\ z + 1 \in 0..Len(all)
        /\ Done(left, s.l + 1, all, z + 1) /\ Done(right, s.r, all, z + 1)
        /\ Reached(text, all, z + 1, left[s.l].end, s.out \o left[s.l].lines)
        /\ left[s.l].end \in Nat /\ left[s.l].end >= s.pos
    BY <1>3, <1>4, <1>5, <1>9, <1>11, TakesHunk
  <2>2. Fields(t, left[s.l].end, s.l + 1, s.r, 0) /\ t.out = s.out \o left[s.l].lines
    BY <1>7, <1>8, <1>11
  <2>3. WovenBoth(text, left, right, all, z + 1, t)
    BY <2>1, <2>2, Zenon DEF WovenBoth, Fields
  <2>4. WovenUpto(text, left, right, all, t)
    BY <2>1, <2>2, <2>3, Zenon DEF WovenUpto, Fields
  <2>5. PICK e \in Nat: e = left[s.l].end /\ e >= pos
    BY <1>6, <2>1
  <2>6. t.pos = e /\ t.l = l + 1 /\ t.r = r
    BY <1>6, <2>2, <2>5 DEF Fields
  <2>7. t.pos + t.l + t.r >= s.pos + s.l + s.r + 1
    <3>1. e \in Nat /\ e >= pos /\ pos \in Nat /\ l \in Nat /\ r \in Nat
      BY <1>6, <2>5
    <3>2. e + (l + 1) + r >= pos + l + r + 1
      BY <3>1
    <3> QED
      BY <1>6, <2>6, <3>2, Zenon
  <2> QED
    BY <2>4, <2>7, Zenon DEF Onward
<1>12. CASE onRight
  <2>0. \A i \in 1..y, j \in 1..x: right[i].start # left[j].start
    BY <1>9
  <2>1. /\ z + 1 \in 0..Len(all)
        /\ Done(right, s.r + 1, all, z + 1) /\ Done(left, s.l, all, z + 1)
        /\ Reached(text, all, z + 1, right[s.r].end, s.out \o right[s.r].lines)
        /\ right[s.r].end \in Nat /\ right[s.r].end >= s.pos
    BY <1>3, <1>4, <1>5, <1>12, <2>0, TakesHunk
  <2>2. Fields(t, right[s.r].end, s.l, s.r + 1, 0) /\ t.out = s.out \o right[s.r].lines
    BY <1>7, <1>8, <1>12
  <2>3. WovenBoth(text, left, right, all, z + 1, t)
    BY <2>1, <2>2, Zenon DEF WovenBoth, Fields
  <2>4. WovenUpto(text, left, right, all, t)
    BY <2>1, <2>2, <2>3, Zenon DEF WovenUpto, Fields
  <2>5. PICK e \in Nat: e = right[s.r].end /\ e >= pos
    BY <1>6, <2>1
  <2>6. t.pos = e /\ t.l = l /\ t.r = r + 1
    BY <1>6, <2>2, <2>5 DEF Fields
  <2>7. t.pos + t.l + t.r >= s.pos + s.l + s.r + 1
    <3>1. e \in Nat /\ e >= pos /\ pos \in Nat /\ l \in Nat /\ r \in Nat
      BY <1>6, <2>5
    <3>2. e + l + (r + 1) >= pos + l + r + 1
      BY <3>1
    <3> QED
      BY <1>6, <2>6, <3>2, Zenon
  <2> QED
    BY <2>4, <2>7, Zenon DEF Onward
<1> QED
  BY <1>8, <1>10, <1>11, <1>12

----------------------------------------------------------------------------
\* After k turns the loop has passed the end, or come k steps.
Far(text, k, s) == s.pos > Len(text) \/ s.pos + s.l + s.r >= k + 2

LEMMA LoopWeaves ==
  ASSUME NEW text \in Seq(Line), NEW left, NEW right, NEW all, Sides(text, left, right, all),
         NEW n \in Nat, NEW f, TurnByTurn(text, left, right, n, f)
  PROVE  WovenUpto(text, left, right, all, f[n]) /\ Far(text, n, f[n])
<1>1. PICK len \in Nat: len = Len(text)
  BY LenProperties
<1>2. f[0] = AtStart /\ \A k \in 0..(n - 1): f[k + 1] = TurnOrStop(text, left, right, f[k])
  BY Zenon DEF TurnByTurn
<1> DEFINE S == {k \in Nat : k <= n => /\ WovenUpto(text, left, right, all, f[k])
                                       /\ Far(text, k, f[k])}
<1>3. 0 \in S
  <2>1. WovenUpto(text, left, right, all, f[0])
    BY <1>2, LoopStarts
  <2>2. Far(text, 0, f[0])
    BY <1>2 DEF Far, AtStart
  <2> QED
    BY <2>1, <2>2
<1>4. ASSUME NEW k \in Nat, k \in S PROVE k + 1 \in S
  <2> SUFFICES ASSUME k + 1 <= n
               PROVE  WovenUpto(text, left, right, all, f[k + 1]) /\ Far(text, k + 1, f[k + 1])
    OBVIOUS
  <2>1. k \in 0..(n - 1) /\ k <= n
    OBVIOUS
  <2>2. PICK s, t: s = f[k] /\ t = f[k + 1]
    OBVIOUS
  <2>3. t = TurnOrStop(text, left, right, s)
    BY <1>2, <2>1, <2>2
  <2>4. WovenUpto(text, left, right, all, s) /\ Far(text, k, s)
    BY <1>4, <2>1, <2>2
  <2>5. PICK pos \in Nat, l \in Nat, r \in Nat: pos = s.pos /\ l = s.l /\ r = s.r
    <3>1. PICK z \in 0..Len(all): WovenBoth(text, left, right, all, z, s)
      BY <2>4, Zenon DEF WovenUpto
    <3>2. Sorted(left, Len(text)) /\ Sorted(right, Len(text))
      BY DEF Sides
    <3>3. Len(left) \in Nat /\ Len(right) \in Nat
      BY <3>2, SortedTypes
    <3> QED
      BY <1>1, <3>1, <3>3 DEF WovenBoth, Done, Reached
  <2>6. CASE pos > len
    <3>1. t = s
      BY <1>1, <2>3, <2>5, <2>6 DEF TurnOrStop
    <3>2. Far(text, k + 1, t)
      BY <1>1, <2>5, <2>6, <3>1 DEF Far
    <3> QED
      BY <2>2, <2>4, <3>1, <3>2
  <2>7. CASE pos <= len
    <3>1. t = Turn(text, left, right, s)
      BY <1>1, <2>3, <2>5, <2>7 DEF TurnOrStop
    <3>2. s.pos <= Len(text)
      BY <1>1, <2>5, <2>7
    <3>3. Onward(text, left, right, all, s, t)
      BY <2>4, <3>1, <3>2, TurnWeaves
    <3>4. pos + l + r >= k + 2
      BY <1>1, <2>4, <2>5, <2>7 DEF Far
    <3>5. PICK p \in Nat, x \in Nat, y \in Nat: p = t.pos /\ x = t.l /\ y = t.r
      <4>1. PICK z \in 0..Len(all): WovenBoth(text, left, right, all, z, t)
        BY <3>3, Zenon DEF Onward, WovenUpto
      <4>2. Sorted(left, Len(text)) /\ Sorted(right, Len(text))
        BY DEF Sides
      <4>3. Len(left) \in Nat /\ Len(right) \in Nat
        BY <4>2, SortedTypes
      <4> QED
        BY <1>1, <4>1, <4>3 DEF WovenBoth, Done, Reached
    <3>6. p + x + y >= pos + l + r + 1
      BY <2>5, <3>3, <3>5, Zenon DEF Onward
    <3>7. p + x + y >= (k + 1) + 2
      <4>1. /\ p \in Nat /\ x \in Nat /\ y \in Nat /\ pos \in Nat /\ l \in Nat /\ r \in Nat
        BY <2>5, <3>5
      <4> QED
        BY <3>4, <3>6, <4>1
    <3>8. Far(text, k + 1, t)
      BY <3>5, <3>7, Zenon DEF Far
    <3> QED
      BY <2>2, <3>3, <3>8, Zenon DEF Onward
  <2> QED
    BY <1>1, <2>5, <2>6, <2>7
<1>5. n \in S
  <2> HIDE DEF S
  <2> QED
    BY <1>3, <1>4, Induction
<1> QED
  BY <1>5

LEMMA WeaveBoth ==
  ASSUME NEW text \in Seq(Line), NEW mine, NEW yours, NEW left, NEW right, NEW all,
         left = Diff(text, mine), right = Diff(text, yours), Sides(text, left, right, all)
  PROVE  /\ Weave(text, mine, yours).conflicts = 0
         /\ Weave(text, mine, yours).merged = Apply(text, all)
<1>1. Sorted(left, Len(text)) /\ Sorted(right, Len(text)) /\ Sorted(all, Len(text))
  BY DEF Sides
<1>2. PICK len \in Nat, x \in Nat, y \in Nat: len = Len(text) /\ x = Len(left) /\ y = Len(right)
  BY <1>1, SortedTypes, LenProperties
<1>3. PICK n \in Nat: n = Turns(text, left, right) /\ n = len + 1 + x + y
  BY <1>2 DEF Turns
<1>4. PICK f: TurnByTurn(text, left, right, n, f) /\ ReadFrom(Weave(text, mine, yours), f[n])
  BY <1>3, WeaveOK
<1>5. PICK s: s = f[n]
  OBVIOUS
<1>6. WovenUpto(text, left, right, all, s) /\ Far(text, n, s)
  BY <1>4, <1>5, LoopWeaves
<1>7. PICK z \in 0..Len(all): WovenBoth(text, left, right, all, z, s)
  BY <1>6, Zenon DEF WovenUpto
<1>8. /\ Done(left, s.l, all, z) /\ Done(right, s.r, all, z)
      /\ Reached(text, all, z, s.pos, s.out)
  BY <1>7, Zenon DEF WovenBoth
<1>9. s.pos > Len(text)
  <2>1. PICK pos \in 0..(len + 1), l \in 1..(x + 1), r \in 1..(y + 1): pos = s.pos /\ l = s.l /\ r = s.r
    BY <1>2, <1>8 DEF Done, Reached
  <2>2. pos > len \/ pos + l + r >= n + 2
    BY <1>2, <1>6, <2>1, Zenon DEF Far
  <2>3. pos > len
    <3>1. pos \in 0..(len + 1) /\ l \in 1..(x + 1) /\ r \in 1..(y + 1)
      BY <2>1
    <3> QED
      BY <1>3, <2>2, <3>1
  <2> QED
    BY <1>2, <2>1, <2>3
<1>10. s.out = Apply(text, all)
  BY <1>1, <1>8, <1>9, ReachedEnd
<1>11. s.conflicts = 0
  BY <1>6, Zenon DEF WovenUpto
<1> QED
  BY <1>4, <1>5, <1>10, <1>11 DEF ReadFrom

LEMMA NoHunksInOrder == InOrder({}) = <<>> /\ ToSet(<<>>) = {}
<1>1. Cardinality({}) = 0
  BY FS_EmptySet
<1>2. InOrder({}) = [n \in 1..0 |-> CHOOSE h \in {}: Cardinality({k \in {} : k.start < h.start}) = n - 1]
  BY <1>1, Zenon DEF InOrder
<1>3. 1..0 = {}
  OBVIOUS
<1> QED
  BY <1>2, <1>3 DEF ToSet

LEMMA ClearMerge ==
  ASSUME NEW text \in Seq(Line), NEW mine \in Seq(Line), NEW yours \in Seq(Line),
         NEW left, NEW right, left = Diff(text, mine), right = Diff(text, yours),
         AllClear(left, right)
  PROVE  /\ Merge(text, mine, yours).conflicts = 0
         /\ Merge(text, mine, yours).merged = Apply(text, InOrder(ToSet(left) \cup ToSet(right)))
<1>1. Sorted(left, Len(text)) /\ Sorted(right, Len(text))
  BY DiffSorted
<1>2. Apply(text, left) = mine /\ Apply(text, right) = yours
  BY DiffOK
<1>3. CASE mine = yours
  <2>1. left = right
    BY <1>3
  <2>2. PICK x \in Nat: x = Len(left)
    BY <1>1, SortedTypes
  <2>3. x = 0
    <3> SUFFICES ASSUME x # 0 PROVE FALSE
      OBVIOUS
    <3>1. 1 \in 1..Len(left) /\ 1 \in 1..Len(right)
      BY <2>1, <2>2
    <3>2. Clear(left[1], right[1])
      BY <3>1, Zenon DEF AllClear
    <3> QED
      BY <2>1, <3>2 DEF Clear
  <2>4. ToSet(left) \cup ToSet(right) = ToSet(left)
    BY <2>1
  <2>5. InOrder(ToSet(left)) = left
    BY <1>1, InOrderOfSorted
  <2>6. Merge(text, mine, yours) = [status |-> "nochange", merged |-> mine, conflicts |-> 0]
    BY <1>3 DEF Merge
  <2>7. Merge(text, mine, yours).conflicts = 0 /\ Merge(text, mine, yours).merged = mine
    BY <2>6
  <2> QED
    BY <1>2, <2>4, <2>5, <2>7, Zenon
<1>4. CASE mine # yours /\ text = mine
  <2>1. left = <<>>
    BY <1>4, DiffSame
  <2>2. ToSet(left) \cup ToSet(right) = ToSet(right)
    BY <2>1, NoHunksInOrder
  <2>3. InOrder(ToSet(right)) = right
    BY <1>1, InOrderOfSorted
  <2>4. Merge(text, mine, yours) = [status |-> "clean", merged |-> yours, conflicts |-> 0]
    BY <1>4 DEF Merge
  <2>5. Merge(text, mine, yours).conflicts = 0 /\ Merge(text, mine, yours).merged = yours
    BY <2>4
  <2> QED
    BY <1>2, <2>2, <2>3, <2>5, Zenon
<1>5. CASE mine # yours /\ text # mine /\ text = yours
  <2>1. right = <<>>
    BY <1>5, DiffSame
  <2>2. ToSet(left) \cup ToSet(right) = ToSet(left)
    BY <2>1, NoHunksInOrder
  <2>3. InOrder(ToSet(left)) = left
    BY <1>1, InOrderOfSorted
  <2>4. Merge(text, mine, yours) = [status |-> "clean", merged |-> mine, conflicts |-> 0]
    BY <1>5 DEF Merge
  <2>5. Merge(text, mine, yours).conflicts = 0 /\ Merge(text, mine, yours).merged = mine
    BY <2>4
  <2> QED
    BY <1>2, <2>2, <2>3, <2>5, Zenon
<1>6. CASE mine # yours /\ text # mine /\ text # yours
  <2>1. PICK all: all = InOrder(ToSet(left) \cup ToSet(right))
    OBVIOUS
  <2>2. Sides(text, left, right, all)
    <3>1. /\ Sorted(all, Len(text)) /\ Within(left, all) /\ Within(right, all)
          /\ FromSides(left, right, all)
      BY <1>1, <2>1, BothInOrder
    <3> QED
      BY <1>1, <3>1, Zenon DEF Sides
  <2>3. Merge(text, mine, yours) = Weave(text, mine, yours)
    BY <1>6 DEF Merge
  <2> QED
    BY <2>1, <2>2, <2>3, WeaveBoth
<1> QED
  BY <1>3, <1>4, <1>5, <1>6

\* Edits that do not meet are edits that stay clear, hunk by hunk.
LEMMA ApartIsClear ==
  ASSUME NEW text \in Seq(Line), NEW mine \in Seq(Line), NEW yours \in Seq(Line),
         Apart(text, mine, yours)
  PROVE  AllClear(Diff(text, mine), Diff(text, yours))
<1>1. Diff(text, mine) \in Seq(HunkSet) /\ Diff(text, yours) \in Seq(HunkSet)
  BY DiffOK
<1>2. ASSUME NEW i \in 1..Len(Diff(text, mine)), NEW j \in 1..Len(Diff(text, yours))
      PROVE  Clear(Diff(text, mine)[i], Diff(text, yours)[j])
  <2>1. /\ Diff(text, mine)[i] \in ToSet(Diff(text, mine))
        /\ Diff(text, yours)[j] \in ToSet(Diff(text, yours))
    BY <1>1 DEF ToSet
  <2> QED
    BY <2>1, Zenon DEF Apart
<1> QED
  BY <1>2, Zenon DEF AllClear

\* Merge takes both sides' edits where they do not meet, and finds no conflict: what
\* PutCas assumes of a merge (ApartAssumption), for all texts.
THEOREM ApartEditsAreMerged ==
  ASSUME NEW text \in Seq(Line), NEW mine \in Seq(Line), NEW yours \in Seq(Line),
         Apart(text, mine, yours)
  PROVE  /\ Merge(text, mine, yours).conflicts = 0
         /\ Merge(text, mine, yours).merged = Both(text, mine, yours)
BY ApartIsClear, ClearMerge DEF Both

\* Edits of the two sides that stay clear of each other are both in the merge,
\* without a conflict, whatever the texts are (threewaymerge.go, Merge).
THEOREM ClearEditsAreWoven == Spec => []ClearEditsWeave
<1>1. MergeInv => ClearEditsWeave
  <2> SUFFICES ASSUME MergeInv, Merged, Apart(base, ours, theirs)
               PROVE  result.conflicts = 0 /\ result.merged = Both(base, ours, theirs)
    BY Zenon DEF ClearEditsWeave
  <2>1. /\ base \in Seq(Line) /\ ours \in Seq(Line) /\ theirs \in Seq(Line)
        /\ result = Merge(base, ours, theirs)
    BY DEF MergeInv
  <2> QED
    BY <2>1, ApartEditsAreMerged
<1> QED
  BY <1>1, MergeInvHolds, PTL
============================================================================
