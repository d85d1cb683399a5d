-------------------------- MODULE MCThreeWayMerge --------------------------
(***************************************************************************)
(* threewaymerge on every three texts of up to MaxLen lines.  A behaviour  *)
(* picks the texts and merges them once.                                   *)
(***************************************************************************)
EXTENDS ThreeWayMerge

CONSTANTS Line, MaxLen

ASSUME MergeAssumption == MaxLen \in Nat

VARIABLES base, ours, theirs, result

vars == <<base, ours, theirs, result>>

Text == BoundedSeq(Line, MaxLen)
NoResult == [status |-> "none"]

Init ==
  /\ base \in Text /\ ours \in Text /\ theirs \in Text
  /\ result = NoResult

DoMerge ==
  /\ result = NoResult
  /\ result' = Merge(base, ours, theirs)
  /\ UNCHANGED <<base, ours, theirs>>

Spec == Init /\ [][DoMerge]_vars

----------------------------------------------------------------------------
Merged == result # NoResult
Left == Diff(base, ours)
Right == Diff(base, theirs)

\* diff finds hunks that turn the one text into the other, and changes no more
\* lines than it has to: those left alone are as many as the longest common
\* subsequence has.
DiffRebuilds ==
  /\ Apply(base, Left) = ours
  /\ \A k \in 0..Len(base): HasCommon(base, ours, k) => k <= Cardinality(KeptLines(base, Left))

\* Edits that stay clear of each other are both applied, without a conflict.
ClearEditsWeave ==
  Merged /\ Apart(base, ours, theirs)
    => result.conflicts = 0 /\ result.merged = Both(base, ours, theirs)

\* It does not matter which side is ours: the same conflicts are found.
SidesAlike ==
  Merged => LET swapped == Merge(base, theirs, ours) IN
              /\ swapped.status = result.status
              /\ swapped.conflicts = result.conflicts

\* "Where the same base line was modified differently by both sides, we emit a
\* conflict block" (threewaymerge.go).
ClashConflicts ==
  Merged /\ (\E i \in DOMAIN Left, j \in DOMAIN Right: Clashing(Left[i], Right[j]))
    => result.status \in {"conflict", "nochange"}
============================================================================
