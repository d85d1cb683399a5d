--------------------------- MODULE ThreeWayMerge ---------------------------
(***************************************************************************)
(* The line merge of internal/threewaymerge.  A text is the sequence of    *)
(* its lines; final newlines, which the code trims and restores, are left  *)
(* out.  Positions count from 0 as in the code: position p lies before     *)
(* line p+1.  A hunk replaces the lines between two positions of the base. *)
(* The lines <<<, === and >>> stand for the markers of a conflict block.   *)
(***************************************************************************)
EXTENDS Integers, Sequences, FiniteSets, SequencesExt

Hunk(start, end, lines) == [start |-> start, end |-> end, lines |-> lines]

\* The lines of text between positions lo and hi.
Between(text, lo, hi) == SubSeq(text, lo + 1, Min({hi, Len(text)}))

----------------------------------------------------------------------------
(***************************************************************************)
(* diff: the edits along a longest common subsequence, then their hunks.   *)
(***************************************************************************)
LcsTable(a, b) ==
  LET dp[p \in (0..Len(a)) \X (0..Len(b))] ==
        LET i == p[1]
            j == p[2]
        IN IF i = 0 \/ j = 0 THEN 0
           ELSE IF a[i] = b[j] THEN dp[<<i - 1, j - 1>>] + 1
           ELSE Max({dp[<<i - 1, j>>], dp[<<i, j - 1>>]})
  IN dp

Edit(op, pos, line) == [op |-> op, pos |-> pos, line |-> line]

\* The walk back through the table from each of its cells, read forwards.
Walk(a, b) ==
  LET dp == LcsTable(a, b)
      walk[p \in (0..Len(a)) \X (0..Len(b))] ==
        LET i == p[1]
            j == p[2]
        IN IF i = 0 /\ j = 0 THEN <<>>
           ELSE IF i > 0 /\ j > 0 /\ a[i] = b[j]
             THEN Append(walk[<<i - 1, j - 1>>], Edit("=", i - 1, a[i]))
           ELSE IF j > 0 /\ (i = 0 \/ dp[<<i, j - 1>>] >= dp[<<i - 1, j>>])
             THEN Append(walk[<<i, j - 1>>], Edit("+", i, b[j]))
           ELSE Append(walk[<<i - 1, j>>], Edit("-", i - 1, a[i]))
  IN walk

Edits(a, b) == Walk(a, b)[<<Len(a), Len(b)>>]

\* Mutant: an equal line does not close the hunk.
GroupNeverCloses(acc, edit) ==
  LET hunks == IF acc.hunks = <<>> THEN <<Hunk(edit.pos, edit.pos, <<>>)>> ELSE acc.hunks
      n == Len(hunks)
  IN CASE edit.op = "=" -> acc
       [] edit.op = "-" -> [acc EXCEPT !.hunks = [hunks EXCEPT ![n].end = @ + 1]]
       [] edit.op = "+" ->
            [acc EXCEPT !.hunks = [hunks EXCEPT ![n].lines = Append(@, edit.line)]]

\* One edit more: an equal line closes the last hunk, any other extends it or
\* opens one.
Group(acc, edit) ==
  LET hunks == IF acc.open THEN acc.hunks
               ELSE Append(acc.hunks, Hunk(edit.pos, edit.pos, <<>>))
      n == Len(hunks)
  IN CASE edit.op = "=" -> [acc EXCEPT !.open = FALSE]
       [] edit.op = "-" -> [open |-> TRUE, hunks |-> [hunks EXCEPT ![n].end = @ + 1]]
       [] edit.op = "+" ->
            [open |-> TRUE, hunks |-> [hunks EXCEPT ![n].lines = Append(@, edit.line)]]

Grouped(edits) ==
  LET grouped[n \in 0..Len(edits)] ==
        IF n = 0 THEN [open |-> FALSE, hunks |-> <<>>] ELSE Group(grouped[n - 1], edits[n])
  IN grouped[Len(edits)]

Diff(a, b) == Grouped(Edits(a, b)).hunks

----------------------------------------------------------------------------
(***************************************************************************)
(* Merge: weave the hunks of both sides into the base.                     *)
(***************************************************************************)
\* Mutant: the last hunk is out of bounds.
StartsAtButLast(hunks, i, pos) == i < Len(hunks) /\ hunks[i].start = pos

\* nextHunk finds the i-th hunk only if it starts at pos exactly.
StartsAt(hunks, i, pos) == i <= Len(hunks) /\ hunks[i].start = pos

\* materialise: the lines of one side between positions lo and hi of the base.
\* Hunks that end at or before lo are skipped.
Materialise(base, hunks, lo, hi) ==
  LET Touching(h) == h.end > lo /\ h.start < hi
      Add(acc, h) == [lines |-> acc.lines \o Between(base, acc.pos, h.start) \o h.lines,
                      pos |-> h.end]
      all == FoldLeft(Add, [lines |-> <<>>, pos |-> lo], SelectSeq(hunks, Touching))
  IN all.lines \o Between(base, all.pos, hi)

\* One turn of the loop.  s.pos is bi, s.l and s.r are the next hunks.
Turn(base, left, right, s) ==
  LET l == StartsAt(left, s.l, s.pos)
      r == StartsAt(right, s.r, s.pos)
      lo == s.pos
      hi == Max({left[s.l].end, right[s.r].end})
  IN IF ~l /\ ~r
       THEN [s EXCEPT !.out = @ \o Between(base, s.pos, s.pos + 1), !.pos = @ + 1]
     ELSE IF ~r
       THEN [s EXCEPT !.out = @ \o left[s.l].lines, !.pos = left[s.l].end, !.l = @ + 1]
     ELSE IF ~l
       THEN [s EXCEPT !.out = @ \o right[s.r].lines, !.pos = right[s.r].end, !.r = @ + 1]
     ELSE IF left[s.l] = right[s.r]
       THEN [s EXCEPT !.out = @ \o left[s.l].lines, !.l = @ + 1, !.r = @ + 1]
     ELSE [out |-> s.out \o <<"<<<">> \o Materialise(base, left, lo, hi)
                         \o <<"===">> \o Materialise(base, right, lo, hi)
                         \o <<">>>">>,
           pos |-> hi, l |-> s.l + 1, r |-> s.r + 1, conflicts |-> s.conflicts + 1]

Weave(base, ours, theirs) ==
  LET left == Diff(base, ours)
      right == Diff(base, theirs)
      turns == Len(base) + 1 + Len(left) + Len(right)
      \* the loop after n turns; it ends when pos passes the base
      loop[n \in 0..turns] ==
        IF n = 0 THEN [out |-> <<>>, pos |-> 0, l |-> 1, r |-> 1, conflicts |-> 0]
        ELSE LET s == loop[n - 1] IN
               IF s.pos > Len(base) THEN s ELSE Turn(base, left, right, s)
      end == loop[turns]
  IN [status |-> IF end.conflicts > 0 THEN "conflict" ELSE "clean",
      merged |-> end.out, conflicts |-> end.conflicts]

\* Mutant: a draft nobody touched counts as nothing to merge.
MergeOursUntouched(base, ours, theirs) ==
  IF ours \in {base, theirs} THEN [status |-> "nochange", merged |-> ours, conflicts |-> 0]
  ELSE Weave(base, ours, theirs)

Merge(base, ours, theirs) ==
  LET Shortcut(status, text) == [status |-> status, merged |-> text, conflicts |-> 0] IN
    IF ours = theirs THEN Shortcut("nochange", ours)
    ELSE IF base = ours THEN Shortcut("clean", theirs)
    ELSE IF base = theirs THEN Shortcut("clean", ours)
    ELSE Weave(base, ours, theirs)

----------------------------------------------------------------------------
(***************************************************************************)
(* What a diff and a merge are, without saying how they are found.         *)
(***************************************************************************)
\* What the first n hunks make of the lines up to the last of them, ...
EndOf(hunks, n) == IF n = 0 THEN 0 ELSE hunks[n].end
Woven(text, hunks) ==
  LET woven[n \in 0..Len(hunks)] ==
        IF n = 0 THEN <<>>
        ELSE woven[n - 1] \o Between(text, EndOf(hunks, n - 1), hunks[n].start)
                          \o hunks[n].lines
  IN woven

\* ... and what all of them make of the text.
Apply(text, hunks) ==
  Woven(text, hunks)[Len(hunks)] \o Between(text, EndOf(hunks, Len(hunks)), Len(text))

\* A set of hunks in their order.
InOrder(S) ==
  [n \in 1..Cardinality(S) |-> CHOOSE h \in S: Cardinality({k \in S : k.start < h.start}) = n - 1]

\* Two texts have a common subsequence of k lines: those at f and at g.
Increasing(k, n) ==
  {f \in [1..k -> 1..n] : \A x, y \in 1..k: x < y => f[x] < f[y]}
HasCommon(a, b, k) ==
  \E f \in Increasing(k, Len(a)), g \in Increasing(k, Len(b)):
    \A x \in 1..k: a[f[x]] = b[g[x]]

\* The lines that no hunk replaces.
KeptLines(text, hunks) ==
  {p \in 1..Len(text) : \A i \in 1..Len(hunks): p \notin (hunks[i].start + 1)..hunks[i].end}

\* Hunks of the two sides that change no common line and start apart.
Clear(h, k) == h.start # k.start /\ (h.end <= k.start \/ k.end <= h.start)

\* No edit of one side meets one of the other, ...
Apart(base, ours, theirs) ==
  \A h \in ToSet(Diff(base, ours)), k \in ToSet(Diff(base, theirs)): Clear(h, k)

\* ... and the base with the edits of both.
Both(base, ours, theirs) ==
  Apply(base, InOrder(ToSet(Diff(base, ours)) \cup ToSet(Diff(base, theirs))))

\* Both sides replace a common line of the base, with different lines.
Clashing(h, k) == h.lines # k.lines /\ Max({h.start, k.start}) < Min({h.end, k.end})
============================================================================
