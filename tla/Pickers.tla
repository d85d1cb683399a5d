------------------------------ MODULE Pickers ------------------------------
(***************************************************************************)
(* What the user picks and the browser keeps: the picker of clusters and   *)
(* the store behind it (web/src/components/ClusterPicker.tsx,              *)
(* web/src/lib/store.ts), and of the key browser (Browser.tsx) the saved   *)
(* views, the limit with its dropdown (Dropdown.tsx), and the width of the *)
(* list.                                                                   *)
(***************************************************************************)
EXTENDS Integers, SequencesExt, NumberSets

CONSTANTS
  PkCluster,    \* ids, in the order of their names
  MaxPins,      \* bound: entries of pinnedClusters
  ViewName,
  StoredViews,  \* the views that the store has at first, in order
  LimitOption, FirstLimit, CustomLimit, \* LIMIT_OPTIONS, 10000, numbers typed
  MinWidth, MaxWidth, FirstWidth

NoRepeats(seq) == \A i, j \in 1..Len(seq): seq[i] = seq[j] => i = j

ASSUME PickersNames ==
  /\ PkCluster \in Seq(STRING \ {"", "undefined"}) /\ NoRepeats(PkCluster)
  /\ StoredViews \in Seq(ViewName) /\ NoRepeats(StoredViews)

ASSUME PickersAssumption ==
  /\ LimitOption \subseteq Nat \ {0} /\ IsFiniteSet(LimitOption)
  /\ CustomLimit \subseteq Nat /\ FirstLimit \in LimitOption /\ MaxPins \in Nat
  /\ MinWidth \in Int /\ MaxWidth \in Int /\ FirstWidth \in MinWidth..MaxWidth

VARIABLES
  pkData,     \* the clusters there are, in the order of the names; {} while loading
  pkSelected, \* selectedCluster, "" for null
  pkPins,     \* pinnedClusters
  pkOpen,     \* the menu
  pkViews,    \* savedViews of the cluster: names, each with what it stands for
  pkQuery,    \* prefix and regex, as one: "" or the name of the view applied
  pkLimit,    \* limit
  pkMenu,     \* the dropdown: open, and the number of the row under the cursor
  pkCustom,   \* limitCustomMode, and the number typed, NoLimit if it is none
  pkWidth     \* leftW, the width shown, the one stored, and the drag

pkPinVars == <<pkData, pkSelected, pkPins, pkOpen>>
pkViewVars == <<pkViews, pkQuery>>
pkLimitVars == <<pkLimit, pkMenu, pkCustom>>
pkVars == <<pkPinVars, pkViewVars, pkLimitVars, pkWidth>>

NoLimit == -1
MaxLimit == Max(LimitOption)

PickersTypeOK ==
  /\ pkData \in SUBSET ToSet(PkCluster) /\ pkSelected \in ToSet(PkCluster) \cup {""}
  /\ pkPins \in Seq(ToSet(PkCluster) \cup {"undefined"}) /\ Len(pkPins) <= MaxPins
  /\ pkViews \in Seq([name: ViewName, query: {""} \cup ViewName])
  /\ pkQuery \in {""} \cup ViewName
  /\ pkLimit \in Nat /\ pkMenu \in [open: BOOLEAN, cursor: Nat \ {0}]
  /\ pkCustom \in [on: BOOLEAN, typed: CustomLimit \cup {NoLimit}]
  /\ pkOpen \in BOOLEAN
  /\ LET Width == MinWidth..MaxWidth IN
     pkWidth \in [state: Width, shown: Width, stored: Width, current: Width, drag: BOOLEAN]

PickersInit ==
  /\ pkData = {} /\ pkSelected = "" /\ pkPins = <<>> /\ pkOpen = FALSE
  /\ pkViews = [i \in 1..Len(StoredViews) |-> [name |-> StoredViews[i], query |-> ""]]
  /\ pkQuery = ""
  /\ pkLimit = FirstLimit /\ pkMenu = [open |-> FALSE, cursor |-> 1]
  /\ pkCustom = [on |-> FALSE, typed |-> NoLimit]
  /\ pkWidth = [state |-> FirstWidth, shown |-> FirstWidth, stored |-> FirstWidth,
                current |-> FirstWidth, drag |-> FALSE]

----------------------------------------------------------------------------
(***************************************************************************)
(* The clusters.                                                           *)
(***************************************************************************)
\* The pinned ones first, in their order, then the others by their names.
Sorted(data, pins) ==
  Only(pins, data) \o Only(PkCluster, data \ ToSet(pins))

\* The one the button names: that selected, or the first.
Current ==
  LET sorted == Sorted(pkData, pkPins) IN
  IF pkSelected \in pkData THEN pkSelected ELSE IF sorted = <<>> THEN "" ELSE sorted[1]

\* A poll, after which the first cluster is selected if none is.
ClustersRead(data) ==
  /\ data # pkData /\ pkData' = data
  /\ pkSelected' = IF pkSelected = "" /\ data # {} THEN Sorted(data, pkPins)[1] ELSE pkSelected
  /\ UNCHANGED <<pkPins, pkOpen>>

\* The button; a click outside or Escape; a row.
OpenPicker == pkOpen' = ~pkOpen /\ UNCHANGED <<pkData, pkSelected, pkPins>>
PickCluster(c) ==
  /\ pkOpen /\ c \in pkData /\ pkSelected' = c /\ pkOpen' = FALSE
  /\ UNCHANGED <<pkData, pkPins>>

TogglePin(c) ==
  /\ pkOpen /\ c \in pkData
  /\ pkPins' = IF c \in ToSet(pkPins) THEN Only(pkPins, ToSet(pkPins) \ {c})
               ELSE Append(pkPins, c)
  /\ Len(pkPins') <= MaxPins
  /\ UNCHANGED <<pkData, pkSelected, pkOpen>>

\* Mutant: the entry that is moved stays where it was, too.
Copied(seq, from, to, none) ==
  InsertAt(seq, to, IF from \in 1..Len(seq) THEN seq[from] ELSE none)

\* splice out, splice in: what is dragged from elsewhere has a number that the
\* list may not have.
Moved(seq, from, to, none) ==
  IF from \in 1..Len(seq)
    THEN InsertAt(RemoveAt(seq, from), to, seq[from])
    ELSE InsertAt(seq, to, none)

\* A drop on a pinned row, of one of another window's rows perhaps: reorderPinned
\* does not ask whether there is such a number.
DropPin(from, c) ==
  /\ pkOpen /\ c \in pkData /\ c \in ToSet(pkPins)
  /\ LET to == CHOOSE i \in 1..Len(pkPins): pkPins[i] = c IN
     from # to /\ pkPins' = Moved(pkPins, from, to, "undefined")
  /\ Len(pkPins') <= MaxPins
  /\ UNCHANGED <<pkData, pkSelected, pkOpen>>

PinsNext ==
  \/ \E data \in SUBSET ToSet(PkCluster): ClustersRead(data)
  \/ OpenPicker
  \/ \E c \in ToSet(PkCluster): PickCluster(c) \/ TogglePin(c) \/
       \E from \in 1..MaxPins: DropPin(from, c)

----------------------------------------------------------------------------
(***************************************************************************)
(* The saved views.  Their toolbar, the button that saves one included, is *)
(* there only while there are any.                                         *)
(***************************************************************************)
Toolbar == pkViews # <<>>

OtherViews(name) == Only(pkViews, {v \in ToSet(pkViews) : v.name # name})

SaveView(name) ==
  /\ Toolbar
  /\ pkViews' = Append(OtherViews(name), [name |-> name, query |-> pkQuery])
  /\ UNCHANGED pkQuery
DeleteView(i) ==
  /\ i \in 1..Len(pkViews)
  /\ pkViews' = OtherViews(pkViews[i].name) /\ UNCHANGED pkQuery
ApplyView(i) ==
  i \in 1..Len(pkViews) /\ pkQuery' = pkViews[i].query /\ UNCHANGED pkViews
TypeQuery(q) == pkQuery' = q /\ UNCHANGED pkViews

\* reorderView does ask.
DropView(from, to) ==
  /\ {from, to} \subseteq 1..Len(pkViews) /\ from # to
  /\ pkViews' = Moved(pkViews, from, to, pkViews[1]) /\ UNCHANGED pkQuery

ViewsNext ==
  \/ \E name \in ViewName: SaveView(name) \/ TypeQuery(name)
  \/ \E i \in 1..Len(pkViews): DeleteView(i) \/ ApplyView(i) \/
       \E to \in 1..Len(pkViews): DropView(i, to)

----------------------------------------------------------------------------
(***************************************************************************)
(* The limit.                                                              *)
(***************************************************************************)
\* The rows: a limit of its own in front, the options, no limit, custom.
Items ==
  (IF pkLimit > 0 /\ pkLimit \notin LimitOption THEN <<pkLimit>> ELSE <<>>) \o
  Ascending(LimitOption) \o <<0, NoLimit>>
ItemOf(l) == {i \in 1..Len(Items) : Items[i] = l}

\* parseLimitInput: what is typed is nothing, or capped.
Parsed(n) == Min({MaxLimit, Max({1, n})})

MenuOpens ==
  /\ ~pkMenu.open /\ ~pkCustom.on
  /\ pkMenu' = [open |-> TRUE, cursor |-> Max({1} \cup ItemOf(pkLimit))]
  /\ UNCHANGED <<pkLimit, pkCustom>>
MenuCloses ==
  pkMenu.open /\ pkMenu' = [pkMenu EXCEPT !.open = FALSE] /\ UNCHANGED <<pkLimit, pkCustom>>
HoverItem(i) ==
  /\ pkMenu.open /\ i \in 1..Len(Items) /\ pkMenu' = [pkMenu EXCEPT !.cursor = i]
  /\ UNCHANGED <<pkLimit, pkCustom>>

\* onChange of a row; the last opens the field, with the limit if it is no option.
PickItem(i) ==
  /\ pkMenu.open /\ i \in 1..Len(Items) /\ pkMenu' = [pkMenu EXCEPT !.open = FALSE]
  /\ IF Items[i] = NoLimit
       THEN /\ pkCustom' = [on |-> TRUE,
                            typed |-> IF pkLimit \in CustomLimit \ LimitOption THEN pkLimit
                                      ELSE NoLimit]
            /\ UNCHANGED pkLimit
       ELSE pkLimit' = Items[i] /\ UNCHANGED pkCustom

TypeLimit(n) ==
  pkCustom.on /\ pkCustom' = [pkCustom EXCEPT !.typed = n] /\ UNCHANGED <<pkLimit, pkMenu>>
\* Enter, or another place in focus.
SubmitLimit ==
  /\ pkCustom.on /\ pkCustom' = [pkCustom EXCEPT !.on = FALSE]
  /\ pkLimit' = IF pkCustom.typed = NoLimit THEN pkLimit ELSE Parsed(pkCustom.typed)
  /\ UNCHANGED pkMenu
EscapeLimit ==
  pkCustom.on /\ pkCustom' = [pkCustom EXCEPT !.on = FALSE] /\ UNCHANGED <<pkLimit, pkMenu>>

\* "load more" doubles the limit.
MoreKeys ==
  pkLimit' = Min({2 * pkLimit, MaxLimit}) /\ UNCHANGED <<pkMenu, pkCustom>>

LimitNext ==
  \/ MenuOpens \/ MenuCloses \/ SubmitLimit \/ EscapeLimit \/ MoreKeys
  \/ \E i \in 1..Len(Items): HoverItem(i) \/ PickItem(i)
  \/ \E n \in CustomLimit \cup {NoLimit}: TypeLimit(n)

----------------------------------------------------------------------------
(***************************************************************************)
(* The width of the list.                                                  *)
(***************************************************************************)
DragStarts ==
  ~pkWidth.drag /\ pkWidth' = [pkWidth EXCEPT !.drag = TRUE, !.current = pkWidth.state]
Dragged(w) ==
  pkWidth.drag /\ pkWidth' = [pkWidth EXCEPT !.current = Max({MinWidth, Min({MaxWidth, w})})]
\* The frame that shows it.
FrameShown == pkWidth.drag /\ pkWidth' = [pkWidth EXCEPT !.shown = pkWidth.current]

\* A new state is rendered, one that is the same is not.
Rendered(w) == [pkWidth EXCEPT !.state = w, !.shown = IF w = pkWidth.state THEN @ ELSE w]

\* The frame that is due is cancelled, and the browser may have no room to store.
DragEnds(stored) ==
  /\ pkWidth.drag
  /\ pkWidth' = [Rendered(pkWidth.current) EXCEPT
                   !.drag = FALSE, !.stored = IF stored THEN pkWidth.current ELSE @]
ResetWidth == ~pkWidth.drag /\ pkWidth' = Rendered(FirstWidth)
WidthNext ==
  \/ DragStarts \/ FrameShown \/ ResetWidth
  \/ \E w \in (MinWidth - 1)..(MaxWidth + 1): Dragged(w)
  \/ \E stored \in BOOLEAN: DragEnds(stored)

----------------------------------------------------------------------------
\* However pins and views are dragged, the picker lists every cluster there is,
\* once, the pinned ones on top, and no two views have a name; the limit in force
\* is the limit of a row that the dropdown can show, and never above the highest.
PickersShowWhatIs ==
  LET sorted == Sorted(pkData, pkPins) IN
  /\ NoRepeats(sorted) /\ ToSet(sorted) = pkData
  /\ \A i, j \in 1..Len(sorted):
       i < j /\ sorted[j] \in ToSet(pkPins) => sorted[i] \in ToSet(pkPins)
  /\ NoRepeats([i \in 1..Len(pkViews) |-> pkViews[i].name])
  /\ ItemOf(pkLimit) # {} /\ NoRepeats(Items) /\ pkLimit <= MaxLimit
============================================================================
