------------------------------ MODULE KeyTree ------------------------------
(***************************************************************************)
(* The tree of the key browser (web/src/components/VirtualTree.tsx), its   *)
(* keyboard and the checkboxes (also Browser.tsx).  A key's Parts are what *)
(* is between its slashes, as numbers in the order of the names.           *)
(***************************************************************************)
EXTENDS Integers, Sequences, SequencesExt

CONSTANTS
  TreeKey,
  Parts      \* the parts of each key

ASSUME KeyTreeAssumption ==
  IsFiniteSet(TreeKey) /\ Parts \in [TreeKey -> Seq(Nat) \ {<<>>}]

VARIABLES
  ktKeys,     \* the keys of list.data
  ktOpen,     \* the folders that are open
  ktFocus,    \* focusedIdx, counted from 1
  ktSelected, \* the selected key, in a set
  ktChecked

ktVars == <<ktKeys, ktOpen, ktFocus, ktSelected, ktChecked>>

----------------------------------------------------------------------------
\* buildTree: a node for every key and for every path that leads to one.
Tree(keys) == (UNION {Prefixes(Parts[k]) : k \in keys}) \ {<<>>}
IsLeaf(node, keys) == \E k \in keys: Parts[k] = node
HasChildren(node, keys) == \E k \in keys: IsStrictPrefix(node, Parts[k])

\* The order of a depth-first walk through children that are sorted by name.
Before(a, b) ==
  \/ IsStrictPrefix(a, b)
  \/ \E i \in DOMAIN a \cap DOMAIN b:
       a[i] < b[i] /\ \A j \in 1..(i - 1): a[j] = b[j]

\* flatten: the nodes whose folders are all open.
OpenNodes(keys, open) ==
  {node \in Tree(keys) : \A n \in 1..(Len(node) - 1): SubSeq(node, 1, n) \in open}
DepthFirst(nodes) ==
  [i \in 1..Cardinality(nodes) |->
    CHOOSE node \in nodes : Cardinality({m \in nodes : Before(m, node)}) = i - 1]
Flatten ==
  [p \in (SUBSET TreeKey) \X (SUBSET Tree(TreeKey)) |-> DepthFirst(OpenNodes(p[1], p[2]))]

Rows == Flatten[<<ktKeys, ktOpen>>]
Depth(i) == Len(Rows[i])

\* Mutant: any row above that is not deeper.
NearestAbove(idx) ==
  LET Above == {i \in 1..(idx - 1): Depth(i) <= Depth(idx)}
  IN IF Above = {} THEN idx ELSE CHOOSE i \in Above: \A j \in Above: j <= i

\* parentIdxOf: the nearest row above that is less deep.
ParentIdxOf(idx) ==
  LET Above == {i \in 1..(idx - 1): Depth(i) < Depth(idx)}
  IN IF Above = {} THEN idx ELSE CHOOSE i \in Above: \A j \in Above: j <= i

\* The key of a leaf: keys with the same parts share a leaf, which has one of them.
KeyOf(node) == CHOOSE k \in ktKeys: Parts[k] = node

KeyTreeTypeOK ==
  /\ ktKeys \subseteq TreeKey /\ ktChecked \subseteq TreeKey 
  /\ ktSelected \subseteq TreeKey
  /\ ktOpen \subseteq Tree(TreeKey)
  /\ ktFocus \in Nat \ {0}

KeyTreeInit ==
  /\ ktKeys = TreeKey /\ ktOpen = {} /\ ktFocus = 1 /\ ktSelected = {}
  /\ ktChecked = {}

----------------------------------------------------------------------------
\* When the rows or the selection change, the focus goes to the selected key.
FocusFollows(keys, open, selected) ==
  LET rows == Flatten[<<keys, open>>]
      At == {i \in DOMAIN rows: \E k \in selected \cap keys: Parts[k] = rows[i]}
  IN ktFocus' = IF At = {} THEN ktFocus ELSE CHOOSE i \in At: TRUE

\* The list is polled, and shows what there is by now.
ListPolled(keys) ==
  /\ keys # ktKeys /\ ktKeys' = keys
  /\ FocusFollows(keys, ktOpen, ktSelected)
  /\ UNCHANGED <<ktOpen, ktSelected, ktChecked>>

\* A key press counts for the row in focus, or the last one.
Idx == IF ktFocus > Len(Rows) THEN Len(Rows) ELSE ktFocus
RowInFocus == Rows[Idx]

MoveFocus(i) ==
  /\ i \in DOMAIN Rows /\ ktFocus' = i
  /\ UNCHANGED <<ktKeys, ktOpen, ktSelected, ktChecked>>

SetOpen(open) ==
  /\ ktOpen' = open
  /\ FocusFollows(ktKeys, open, ktSelected)
  /\ UNCHANGED <<ktKeys, ktSelected, ktChecked>>
ToggleOpen(node) ==
  SetOpen(IF node \in ktOpen THEN ktOpen \ {node} ELSE ktOpen \cup {node})

OnSelect(k) ==
  /\ ktSelected' = {k}
  /\ FocusFollows(ktKeys, ktOpen, {k})
  /\ UNCHANGED <<ktKeys, ktOpen, ktChecked>>

SetChecked(checked) ==
  /\ ktChecked' = checked
  /\ UNCHANGED <<ktKeys, ktOpen, ktFocus, ktSelected>>
ToggleCheck(k) ==
  SetChecked(IF k \in ktChecked THEN ktChecked \ {k} ELSE ktChecked \cup {k})

\* onKeyDown.
OnKeyDown(key) ==
  LET folder == HasChildren(RowInFocus, ktKeys)
      expanded == RowInFocus \in ktOpen
  IN /\ Rows # <<>>
     /\ \/ key = "ArrowDown" /\ MoveFocus(Idx + 1)
        \/ key = "ArrowUp" /\ MoveFocus(Idx - 1)
        \/ key = "Home" /\ MoveFocus(1)
        \/ key = "End" /\ MoveFocus(Len(Rows))
        \/ key = "ArrowRight" /\ folder
           /\ IF expanded THEN MoveFocus(Idx + 1) ELSE ToggleOpen(RowInFocus)
        \/ key = "ArrowLeft"
           /\ IF folder /\ expanded THEN ToggleOpen(RowInFocus)
              ELSE MoveFocus(ParentIdxOf(Idx))
        \/ key = "Enter"
           /\ \/ IsLeaf(RowInFocus, ktKeys) /\ OnSelect(KeyOf(RowInFocus))
              \/ ~IsLeaf(RowInFocus, ktKeys) /\ ToggleOpen(RowInFocus)
        \/ key = "Space" /\ IsLeaf(RowInFocus, ktKeys) /\ ToggleCheck(KeyOf(RowInFocus))

\* A click on a row: a folder opens or closes, a key is selected, or both.
Click(i) ==
  LET node == Rows[i]
      open == IF ~HasChildren(node, ktKeys) THEN ktOpen
              ELSE IF node \in ktOpen THEN ktOpen \ {node} ELSE ktOpen \cup {node}
      selected == IF IsLeaf(node, ktKeys) THEN {KeyOf(node)} ELSE ktSelected
  IN /\ ktOpen' = open /\ ktSelected' = selected
     /\ FocusFollows(ktKeys, open, selected)
     /\ UNCHANGED <<ktKeys, ktChecked>>

\* The checkbox of a key's row.
ClickCheckbox(i) == IsLeaf(Rows[i], ktKeys) /\ ToggleCheck(KeyOf(Rows[i]))

----------------------------------------------------------------------------
\* The box above the tree: on, if as many keys are checked as there are.
ToggleAllBox ==
  IF ktChecked = {} THEN "off"
  ELSE IF Cardinality(ktChecked) = Cardinality(ktKeys) THEN "on" ELSE "indeterminate"
ToggleAll ==
  SetChecked(IF Cardinality(ktChecked) = Cardinality(ktKeys) THEN {} ELSE ktKeys)

\* exportSelected: the keys that are checked, as far as they are loaded.
Exported == ktKeys \cap ktChecked

\* A bulk delete succeeded: nothing is checked any more (the rest of it is in
\* KeyBrowser).
BulkDeleted ==
  /\ ktChecked # {}
  /\ SetChecked({})

KeyTreeNext ==
  \/ \E keys \in SUBSET TreeKey: ListPolled(keys)
  \/ \E key \in {"ArrowDown", "ArrowUp", "Home", "End", "ArrowRight", "ArrowLeft",
                 "Enter", "Space"}: OnKeyDown(key)
  \/ \E i \in DOMAIN Rows: Click(i) \/ ClickCheckbox(i)
  \/ ToggleAll \/ BulkDeleted

----------------------------------------------------------------------------
\* Whatever is open and loaded, ArrowLeft leads from a row to its folder, which
\* is above it, and the rows are the tree: a node comes after its folder, and
\* every loaded key has a row of its parts if its folders are open.
RowsAreTheTree ==
  /\ \A i \in DOMAIN Rows:
       IF Depth(i) = 1 THEN ParentIdxOf(i) = i
       ELSE ParentIdxOf(i) < i /\ Rows[ParentIdxOf(i)] = Front(Rows[i])
  /\ \A k \in ktKeys:
       (\A n \in 1..(Len(Parts[k]) - 1): SubSeq(Parts[k], 1, n) \in ktOpen)
         => \E i \in DOMAIN Rows: Rows[i] = Parts[k]
============================================================================
