---------------------------- MODULE BrowserTabs ----------------------------
(***************************************************************************)
(* Browser tabs (web/src/pages/Browser.tsx) editing one key through        *)
(* put-cas: the draft and the base revision each tab keeps.  Everything    *)
(* below the tabs is PutCas.  KeyBrowser has the list they select from.    *)
(***************************************************************************)
EXTENDS PutCas

VARIABLES
  editing,   \* the tabs that show an editor
  draft,     \* the text in it
  baseRev,   \* draftBaseRev
  overlay,   \* the value sent that each tab's list shows instead of the one read, if any
  opened,    \* history variable: the state of the key the tab showed when it took its
             \* base revision from it; empty when it took the revision elsewhere
  sentOn     \* history variable: what was opened when the open save was sent

tabVars == <<editing, draft, baseRev, overlay, opened, sentOn>>
allVars == <<vars, tabVars>>

TabsInit ==
  /\ Init
  /\ editing = {}
  /\ draft = [e \in Editor |-> Empty]
  /\ baseRev = [e \in Editor |-> 0]
  /\ overlay = [e \in Editor |-> {}]
  /\ opened = [e \in Editor |-> {Absent}]
  /\ sentOn = [e \in Editor |-> {}]

\* The tab shows an editor with text v, on base revision b; states are those of
\* the key that this shows.  (Bound: nobody edits what cannot be sent any more.)
Shows(e, v, b, states) ==
  /\ Len(hist) < MaxRev
  /\ editing' = editing \cup {e}
  /\ draft' = [draft EXCEPT ![e] = v]
  /\ baseRev' = [baseRev EXCEPT ![e] = b]
  /\ opened' = [opened EXCEPT ![e] = states]
  /\ UNCHANGED <<vars, overlay, sentOn>>

\* The states of the key that a list can have read, now or before.
Rows == {s \in {hist[r] : r \in 1..Len(hist)} : s.mod # 0}

\* The tab selects the key's row, or reloads it from the stale-base banner.  A row
\* that putMut wrote over has the value sent, and the revision of the row before.
Select(e) ==
  \/ overlay[e] = {} /\ \E s \in Rows: Shows(e, s.val, s.mod, {s})
  \/ \E v \in overlay[e], s \in Rows \cup {Absent}: Shows(e, v, s.mod, {})

\* A folder's row: no draft, and no base revision.
SelectFolder(e) ==
  /\ Len(hist) < MaxRev
  /\ editing' = editing \ {e}
  /\ draft' = [draft EXCEPT ![e] = Empty]
  /\ baseRev' = [baseRev EXCEPT ![e] = 0]
  /\ opened' = [opened EXCEPT ![e] = {Absent}]
  /\ UNCHANGED <<vars, overlay, sentOn>>

\* The New button: an empty draft.  draftBaseRev stays what it was, or what it has
\* become since by the selection of another key: any revision of the store.
NewKey(e) ==
  \/ Shows(e, Empty, baseRev[e], opened[e])
  \/ \E b \in 1..Len(hist): Shows(e, Empty, b, {})

\* The user types.
Type(e, v) == e \in editing /\ Shows(e, v, baseRev[e], opened[e])

\* Mutant: Save sends the newest revision, the one the banner names.
SaveOnNewest(e) ==
  /\ e \in editing
  /\ Submit(e, [kind |-> "cas", val |-> draft[e], base |-> Live.mod, accept |-> FALSE])
  /\ overlay' = [overlay EXCEPT ![e] = {draft[e]}]
  /\ sentOn' = [sentOn EXCEPT ![e] = opened[e]]
  /\ UNCHANGED <<editing, draft, baseRev, opened>>

\* putMut: Save writes the draft over the row and sends it on the base revision.
Save(e) ==
  /\ e \in editing
  /\ Submit(e, [kind |-> "cas", val |-> draft[e], base |-> baseRev[e], accept |-> FALSE])
  /\ overlay' = [overlay EXCEPT ![e] = {draft[e]}]
  /\ sentOn' = [sentOn EXCEPT ![e] = opened[e]]
  /\ UNCHANGED <<editing, draft, baseRev, opened>>

\* The list is read: by a poll, or because the save is settled.
Refetch(e) ==
  /\ overlay[e] # {}
  /\ overlay' = [overlay EXCEPT ![e] = {}]
  /\ UNCHANGED <<vars, editing, draft, baseRev, opened, sentOn>>

\* The handler runs, and the tab takes its answer.  Draft and base revision stay,
\* also when what was saved is a merge; an error restores the row.  A conflict makes
\* the ConflictResolver call a hook that it did not call before: React gives the page
\* up, and the user loads it anew (dialog and commitResolved are never reached).
Receive(e) ==
  /\ Handler(e)
  /\ LET status == reply'[e].status IN
       /\ overlay' = IF status \in {"conflict", "busy", "error"}
                     THEN [overlay EXCEPT ![e] = {}] ELSE overlay
       /\ sentOn' = IF status = "none" THEN sentOn ELSE [sentOn EXCEPT ![e] = {}]
       /\ IF status = "conflict"
          THEN /\ editing' = editing \ {e}
               /\ draft' = [draft EXCEPT ![e] = Empty]
               /\ baseRev' = [baseRev EXCEPT ![e] = 0]
               /\ opened' = [opened EXCEPT ![e] = {Absent}]
          ELSE UNCHANGED <<editing, draft, baseRev, opened>>

TabsNext ==
  \/ \E e \in Editor:
       \/ Select(e)
       \/ SelectFolder(e)
       \/ NewKey(e)
       \/ \E v \in Draft: Type(e, v)
       \/ Save(e)
       \/ Refetch(e)
       \/ Receive(e)
  \/ Environment /\ UNCHANGED tabVars

TabsFairness == \A e \in Editor: WF_allVars(Receive(e))

TabsSpec == TabsInit /\ [][TabsNext]_allVars /\ TabsFairness

----------------------------------------------------------------------------
\* e's save replaces the state of the key the user had opened, or what it writes
\* is the merge of the draft with the live state on the one opened.
ReplacesOpened(e, s) ==
  \/ reply'[e].status = "ok" /\ Live = s
  \/ /\ reply'[e].status = "merged"
     /\ \/ hist'[Len(hist')].val = Merge(s.val, req[e].val, Live.val).merged
        \/ ~BaseReadable(e)

\* What a tab has not shown is not overwritten: a save that is not merged replaces
\* the very state the tab showed when it took its base revision, however stale its
\* list was, and whatever became of draft, row and key since; a merge starts from
\* that state.  Left out are base revisions the tab took without their state: that
\* of another key, which New keeps, and that of a row putMut wrote over.
OnlySeenIsReplaced ==
  [][\A e \in Editor: Saves(e) => \A s \in sentOn[e]: ReplacesOpened(e, s)]_allVars
============================================================================
