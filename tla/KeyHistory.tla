----------------------------- MODULE KeyHistory -----------------------------
(***************************************************************************)
(* The history of a key (web/src/components/HistoryDrawer.tsx) and the     *)
(* difference of two of its versions (web/src/lib/diff.ts).  A value is    *)
(* the lines it is printed in; those of more than one line are taken to be *)
(* JSON, stored in one line and printed by prettyJSON in several.          *)
(***************************************************************************)
EXTENDS Integers, SequencesExt, NumberSets

CONSTANTS
  KhText,    \* values: sequences of lines
  KhMaxRev,  \* bound: versions of the key
  Context,   \* unchanged lines shown at either end of a run of them
  MaxCells   \* the largest table that lineDiff fills in

ASSUME KeyHistoryAssumption ==
  /\ KhText \subseteq Seq(STRING) /\ KhMaxRev \in Nat \ {0}
  /\ Context \in Nat \ {0} /\ MaxCells \in Nat

VARIABLES
  khStore,    \* the versions of the key, oldest first
  khOldest,   \* the oldest that is not compacted
  khOpen,     \* the drawer
  khRead,     \* the query's data: the oldest and the newest version, 0 for none
  khCompare,  \* compareWith, 0 for null
  khExpanded, \* expanded of the DiffPanel: numbers of hunks
  khCompact   \* the rows that are not pretty

khVars == <<khStore, khOldest, khOpen, khRead, khCompare, khExpanded, khCompact>>

Versions == khRead[1]..khRead[2]
Newest == khRead[2]
\* The DiffPanel is there while compareWith is a version.
Compares == khOpen /\ Newest > 0 /\ khCompare \in Versions

KeyHistoryTypeOK ==
  /\ khStore \in Seq(KhText) /\ Len(khStore) <= KhMaxRev
  /\ khOldest \in 1..KhMaxRev /\ khOpen \in BOOLEAN
  /\ khRead \in (0..KhMaxRev) \X (0..KhMaxRev) /\ khCompare \in 0..KhMaxRev
  /\ khExpanded \subseteq Nat /\ khCompact \subseteq 1..KhMaxRev

KeyHistoryInit ==
  /\ khStore = <<>> /\ khOldest = 1 /\ khOpen = FALSE /\ khRead = <<0, 0>>
  /\ khCompare = 0 /\ khExpanded = {} /\ khCompact = {}

----------------------------------------------------------------------------
(***************************************************************************)
(* lineDiff and groupHunks.                                                *)
(***************************************************************************)
Segment(kind, lines) == [kind |-> kind, lines |-> lines]

\* The table of the longest common subsequences of what A and B begin with.
Common(A, B) ==
  LET lcs[p \in (0..Len(A)) \X (0..Len(B))] ==
        LET i == p[1]
            j == p[2]
        IN IF i = 0 \/ j = 0 THEN 0
           ELSE IF A[i] = B[j] THEN lcs[<<i - 1, j - 1>>] + 1
           ELSE IF lcs[<<i - 1, j>>] >= lcs[<<i, j - 1>>] THEN lcs[<<i - 1, j>>]
           ELSE lcs[<<i, j - 1>>]
  IN lcs

\* Mutant: what is left of one side when the other is used up is forgotten.
NoTails(A, B) ==
  LET lcs == Common(A, B)
      back[p \in (0..Len(A)) \X (0..Len(B))] ==
        LET i == p[1]
            j == p[2]
        IN IF i = 0 \/ j = 0 THEN <<>>
           ELSE IF A[i] = B[j]
             THEN Append(back[<<i - 1, j - 1>>], Segment("same", <<A[i]>>))
           ELSE IF lcs[<<i - 1, j>>] >= lcs[<<i, j - 1>>]
             THEN Append(back[<<i - 1, j>>], Segment("del", <<A[i]>>))
           ELSE Append(back[<<i, j - 1>>], Segment("add", <<B[j]>>))
  IN back

\* Back from each cell of the table, read forwards.
Back(A, B) ==
  LET lcs == Common(A, B)
      back[p \in (0..Len(A)) \X (0..Len(B))] ==
        LET i == p[1]
            j == p[2]
        IN IF i = 0 /\ j = 0 THEN <<>>
           ELSE IF i > 0 /\ j > 0 /\ A[i] = B[j]
             THEN Append(back[<<i - 1, j - 1>>], Segment("same", <<A[i]>>))
           ELSE IF j = 0 \/ (i > 0 /\ lcs[<<i - 1, j>>] >= lcs[<<i, j - 1>>])
             THEN Append(back[<<i - 1, j>>], Segment("del", <<A[i]>>))
           ELSE Append(back[<<i, j - 1>>], Segment("add", <<B[j]>>))
  IN back

LineDiff(A, B) ==
  IF Len(A) * Len(B) > MaxCells THEN <<Segment("del", A), Segment("add", B)>>
  ELSE Back(A, B)[<<Len(A), Len(B)>>]

SameKind(s, t) == (s.kind = "same") = (t.kind = "same")
\* One segment more: it is put to the last hunk, or starts one.
Grouped(hunks, s) ==
  IF hunks # <<>> /\ SameKind(Last(Last(hunks)), s)
    THEN Append(Front(hunks), Append(Last(hunks), s))
    ELSE Append(hunks, <<s>>)
Hunks(segs) ==
  LET hunks[n \in 0..Len(segs)] ==
        IF n = 0 THEN <<>> ELSE Grouped(hunks[n - 1], segs[n])
  IN hunks[Len(segs)]

----------------------------------------------------------------------------
(***************************************************************************)
(* The DiffPanel.                                                          *)
(***************************************************************************)
Segments == LineDiff(khStore[khCompare], khStore[Newest])
Collapsed(h, hi) ==
  h[1].kind = "same" /\ Len(h) > Context * 2 + 1 /\ hi \notin khExpanded

\* What is shown of a hunk, and how many lines "expand" says are not.
ShownOf(h, hi) ==
  IF Collapsed(h, hi) THEN SubSeq(h, 1, Context) \o SubSeq(h, Len(h) - Context + 1, Len(h))
                      ELSE h
HiddenOf(h, hi) == IF Collapsed(h, hi) THEN Len(h) - Context * 2 ELSE 0

HunkNumbers == IF Compares THEN 1..Len(Hunks(Segments)) ELSE {}

Expand(hi) ==
  /\ Collapsed(Hunks(Segments)[hi], hi)
  /\ khExpanded' = khExpanded \cup {hi}
  /\ UNCHANGED <<khStore, khOldest, khOpen, khRead, khCompare, khCompact>>

----------------------------------------------------------------------------
(***************************************************************************)
(* The drawer: its rows are new when it is opened, compareWith is not.     *)
(***************************************************************************)
HistoryWrite(text) ==
  /\ Len(khStore) < KhMaxRev /\ khStore' = Append(khStore, text)
  /\ UNCHANGED <<khOldest, khOpen, khRead, khCompare, khExpanded, khCompact>>

HistoryCompacts ==
  /\ khOldest < Len(khStore) /\ khOldest' = khOldest + 1
  /\ UNCHANGED <<khStore, khOpen, khRead, khCompare, khExpanded, khCompact>>

OpenDrawer ==
  /\ ~khOpen /\ khStore # <<>> /\ khOpen' = TRUE /\ khExpanded' = {} /\ khCompact' = {}
  /\ UNCHANGED <<khStore, khOldest, khRead, khCompare>>

\* A panel and rows that are there no more forget what was expanded in them.
Renders(read, compare) ==
  /\ khRead' = read /\ khCompare' = compare
  /\ khExpanded' = IF compare \in read[1]..read[2] THEN khExpanded ELSE {}
  /\ khCompact' = khCompact \cap (read[1]..read[2])

\* The answer of the history service, newest version first.
HistoryRead ==
  /\ khOpen /\ khRead # <<khOldest, Len(khStore)>>
  /\ Renders(<<khOldest, Len(khStore)>>, khCompare)
  /\ UNCHANGED <<khStore, khOldest, khOpen>>

ToggleCompare(v) ==
  /\ khOpen /\ v \in Versions \ {0, Newest}
  /\ Renders(khRead, IF khCompare = v THEN 0 ELSE v)
  /\ UNCHANGED <<khStore, khOldest, khOpen>>

TogglePretty(v) ==
  /\ khOpen /\ v \in Versions \ {0} /\ Len(khStore[v]) > 1
  /\ khCompact' = IF v \in khCompact THEN khCompact \ {v} ELSE khCompact \cup {v}
  /\ UNCHANGED <<khStore, khOldest, khOpen, khRead, khCompare, khExpanded>>

\* The cross, the backdrop, Escape; or Restore of an old version.
CloseDrawer ==
  /\ khOpen /\ khOpen' = FALSE /\ khExpanded' = {} /\ khCompact' = {}
  /\ UNCHANGED <<khStore, khOldest, khRead, khCompare>>

KeyHistoryNext ==
  \/ \E text \in KhText: HistoryWrite(text)
  \/ HistoryCompacts \/ OpenDrawer \/ HistoryRead \/ CloseDrawer
  \/ \E v \in 1..KhMaxRev: ToggleCompare(v) \/ TogglePretty(v)
  \/ \E hi \in HunkNumbers: Expand(hi)

----------------------------------------------------------------------------
LinesOf(segs, kinds) ==
  FlattenSeq([n \in 1..Len(segs) |-> IF segs[n].kind \in kinds THEN segs[n].lines ELSE <<>>])

\* Some of T's lines, in their order, are C.
IsSubsequence(C, T) ==
  \E I \in SUBSET (1..Len(T)): LET order == Ascending(I) IN
    /\ Cardinality(I) = Len(C)
    /\ \A n \in 1..Len(C): C[n] = T[order[n]]

\* The comparison of a version with the current one: taking the red lines with
\* the white ones gives the version, the green ones with the white ones the
\* current value; no longer common subsequence is among the values there are;
\* and what the panel shows of the runs, with the lines it says it has hidden,
\* is all of them, changes never hidden.
DiffTellsTheChange ==
  Compares =>
    LET A == khStore[khCompare]
        B == khStore[Newest]
        hunks == Hunks(Segments)
    IN /\ LinesOf(Segments, {"same", "del"}) = A
       /\ LinesOf(Segments, {"same", "add"}) = B
       /\ \/ Len(A) * Len(B) > MaxCells
          \/ \A C \in KhText:
               IsSubsequence(C, A) /\ IsSubsequence(C, B)
                 => Len(C) <= Len(LinesOf(Segments, {"same"}))
       /\ FlattenSeq(hunks) = Segments
       /\ \A hi \in 1..Len(hunks):
            /\ Len(ShownOf(hunks[hi], hi)) + HiddenOf(hunks[hi], hi) = Len(hunks[hi])
            /\ HiddenOf(hunks[hi], hi) > 0 =>
                 \A i \in 1..Len(hunks[hi]): hunks[hi][i].kind = "same"
============================================================================
