----------------------------- MODULE KeyBrowser -----------------------------
(***************************************************************************)
(* The key browser (web/src/pages/Browser.tsx) on one cluster: the list it *)
(* polls and changes ahead of the answers of its own requests, the editor, *)
(* and the requests.  A row or an editor stands for its key and revision,  *)
(* the JSON of a decoded object for the key whose object it was.           *)
(***************************************************************************)
EXTENDS Integers

CONSTANTS
  KbKey,
  KbObject,     \* those whose values are Kubernetes objects
  KbFirst,      \* those that exist at first
  KbMaxRev,     \* bound: revisions of the store
  KbMaxRequests \* bound: requests of the page

ASSUME KeyBrowserAssumption ==
  /\ KbObject \subseteq KbKey /\ KbFirst \subseteq KbKey
  /\ KbMaxRev \in Nat \ {0} /\ KbMaxRequests \in Nat

VARIABLES
  kbStore,    \* the modRevision of each key, 0 if it does not exist
  kbRev,      \* the store's revision
  kbList,     \* list.data: whether there is any, its rows, when the store was
              \* like that, and the keys it has changed ahead of an answer
  kbFetch,    \* the range request under way
  kbFailed,   \* whether the last one failed
  kbEditor,   \* selectedKey; the draft's key; draftBaseRev; decodedDraft
  kbPut, kbK8s, kbDelete, kbBulk, \* requests of each kind
  kbSent,     \* how many there were
  kbAcked     \* history variable: the last revision that an answer told of

kbServer == <<kbStore, kbRev>>
kbRequests == <<kbPut, kbK8s, kbDelete, kbBulk, kbSent>>
kbVars == <<kbServer, kbList, kbFetch, kbFailed, kbEditor, kbRequests,
            kbAcked>>

None == "none"
NoRow == -1
NoList == [loaded |-> FALSE, rows |-> [k \in KbKey |-> NoRow], at |-> 0, ahead |-> {}]
List == [loaded: BOOLEAN, rows: [KbKey -> NoRow..KbMaxRev], at: 0..KbMaxRev,
         ahead: SUBSET KbKey]
Row(k) == IF k \in KbKey THEN kbList.rows[k] ELSE NoRow
NoEditor == [sel |-> None, key |-> None, base |-> 0, decoded |-> None]
Idle == [at |-> "idle", keys |-> {}, base |-> 0, snap |-> NoList]
Request == [at: {"idle", "sent", "ok", "conflict", "error"}, keys: SUBSET KbKey,
            base: 0..KbMaxRev, snap: List]
NoFetch == [at |-> "none", list |-> NoList]
Fetching == [at |-> "sent", list |-> NoList]

KeyBrowserTypeOK ==
  /\ kbStore \in [KbKey -> 0..KbMaxRev] /\ kbRev \in 0..KbMaxRev
  /\ kbList \in List
  /\ kbFetch.at \in {"none", "sent", "read"} /\ kbFetch.list \in List
  /\ kbFailed \in BOOLEAN
  /\ kbEditor \in [sel: KbKey \cup {None}, key: KbKey \cup {None},
                   base: 0..KbMaxRev, decoded: KbKey \cup {None}]
  /\ \A r \in {kbPut, kbK8s, kbDelete, kbBulk}: r \in Request
  /\ kbSent \in 0..KbMaxRequests /\ kbAcked \in 0..KbMaxRev

\* The page as it is mounted.
Mounted ==
  /\ kbList' = NoList /\ kbFetch' = Fetching /\ kbFailed' = FALSE
  /\ kbEditor' = NoEditor
  /\ kbPut' = Idle /\ kbK8s' = Idle /\ kbDelete' = Idle /\ kbBulk' = Idle

KeyBrowserInit ==
  /\ kbRev = 1 /\ kbStore = [k \in KbKey |-> IF k \in KbFirst THEN 1 ELSE 0]
  /\ kbList = NoList /\ kbFetch = Fetching /\ kbFailed = FALSE
  /\ kbEditor = NoEditor
  /\ kbPut = Idle /\ kbK8s = Idle /\ kbDelete = Idle /\ kbBulk = Idle
  /\ kbSent = 0 /\ kbAcked = 0

----------------------------------------------------------------------------
(***************************************************************************)
(* The list.                                                               *)
(***************************************************************************)
\* Mutant: the base revision follows the list.
FollowAlways(list, ed) ==
  IF ed.sel # None /\ list.rows[ed.sel] # NoRow
    THEN [ed EXCEPT !.key = ed.sel, !.base = list.rows[ed.sel], !.decoded = None]
    ELSE ed

\* The effect on [selected, draft]: when the selected key has a row and the
\* draft is not about it, the draft is taken from the row.
Follow(list, ed) ==
  IF ed.sel # None /\ ed.key # ed.sel /\ list.rows[ed.sel] # NoRow
    THEN [ed EXCEPT !.key = ed.sel, !.base = list.rows[ed.sel], !.decoded = None]
    ELSE ed

Shows(list) == kbList' = list /\ kbEditor' = Follow(list, kbEditor)

\* The interval, or the refresh button.
Refetch ==
  /\ kbFetch.at = "none" /\ kbFetch' = Fetching
  /\ UNCHANGED <<kbServer, kbList, kbFailed, kbEditor, kbRequests, kbAcked>>

RangeRead ==
  /\ kbFetch.at = "sent"
  /\ kbFetch' = [at |-> "read",
                 list |-> [loaded |-> TRUE, at |-> kbRev, ahead |-> {},
                           rows |-> [k \in KbKey |-> IF kbStore[k] = 0 THEN NoRow
                                                     ELSE kbStore[k]]]]
  /\ UNCHANGED <<kbServer, kbList, kbFailed, kbEditor, kbRequests, kbAcked>>

Fetched ==
  /\ kbFetch.at = "read" /\ kbFetch' = NoFetch
  /\ kbFailed' = FALSE
  /\ Shows(kbFetch.list)
  /\ UNCHANGED <<kbServer, kbRequests, kbAcked>>

FetchFails ==
  /\ kbFetch.at # "none" /\ kbFetch' = NoFetch
  /\ kbFailed' = TRUE
  /\ UNCHANGED <<kbServer, kbList, kbEditor, kbRequests, kbAcked>>

\* Another prefix, regex or limit: another query.  The editor stays.
OtherQuery ==
  /\ kbList.loaded
  /\ kbList' = NoList /\ kbFetch' = Fetching /\ kbFailed' = FALSE
  /\ UNCHANGED <<kbServer, kbEditor, kbRequests, kbAcked>>

----------------------------------------------------------------------------
(***************************************************************************)
(* The editor.                                                             *)
(***************************************************************************)
Edits(ed) ==
  /\ kbEditor' = ed /\ kbEditor' # kbEditor
  /\ UNCHANGED <<kbServer, kbList, kbFetch, kbFailed, kbRequests, kbAcked>>

\* onSelect of the tree: a key.
SelectRow(k) ==
  /\ Row(k) # NoRow
  /\ Edits([kbEditor EXCEPT !.sel = k, !.key = k, !.base = Row(k)])

\* New: an empty draft under a path of the page's choice.
NewDraft(k) == Edits(Follow(kbList, [kbEditor EXCEPT !.sel = k, !.key = k]))

\* The path is typed over.
Rename(k) ==
  /\ kbEditor.key # None
  /\ Edits(Follow(kbList, [kbEditor EXCEPT !.key = k]))

\* selected.preview: the service has decoded the row's value.
HasPreview == kbEditor.sel \in KbObject /\ Row(kbEditor.sel) > 0

\* An edit in the decoded view, which shows decodedDraft once there is one.
EditDecoded ==
  /\ HasPreview /\ kbEditor.decoded = None
  /\ Edits([kbEditor EXCEPT !.decoded = kbEditor.sel])

\* staleBase, and the Reload of its banner.
StaleBase ==
  /\ kbEditor.key # None /\ Row(kbEditor.sel) # NoRow
  /\ kbEditor.base > 0 /\ Row(kbEditor.sel) > kbEditor.base
Reload ==
  /\ StaleBase
  /\ Edits([kbEditor EXCEPT !.key = kbEditor.sel, !.base = Row(kbEditor.sel)])

CancelNew ==
  /\ kbEditor.key # None /\ Row(kbEditor.sel) = NoRow
  /\ Edits([kbEditor EXCEPT !.sel = None, !.key = None])

----------------------------------------------------------------------------
(***************************************************************************)
(* Requests.                                                               *)
(***************************************************************************)
Send(keys, base) == [at |-> "sent", keys |-> keys, base |-> base, snap |-> kbList]
Counts == kbSent < KbMaxRequests /\ kbSent' = kbSent + 1

\* onMutate: polls are cancelled, and the list is changed ahead of the answer.
Ahead(rows, keys) ==
  /\ IF kbList.loaded
       THEN Shows([kbList EXCEPT !.rows = rows, !.ahead = @ \cup keys])
       ELSE UNCHANGED <<kbList, kbEditor>>
  /\ kbFetch' = NoFetch

Without(keys) == [k \in KbKey |-> IF k \in keys THEN NoRow ELSE kbList.rows[k]]

\* Save is a put-k8s if there is an edit of the decoded object...
SavesDecoded == kbEditor.decoded # None /\ HasPreview

PutK8s ==
  /\ kbEditor.key # None /\ SavesDecoded
  /\ kbK8s.at = "idle" /\ kbPut.at = "idle" /\ Counts
  /\ kbK8s' = [Send({kbEditor.key}, kbEditor.base) EXCEPT !.snap = NoList]
  /\ UNCHANGED <<kbServer, kbList, kbFetch, kbFailed, kbEditor,
                 kbPut, kbDelete, kbBulk, kbAcked>>

\* ... and a put-cas otherwise.
PutCAS ==
  LET k == kbEditor.key IN
  /\ k # None /\ ~SavesDecoded /\ kbPut.at = "idle" /\ Counts
  /\ kbPut' = Send({k}, kbEditor.base)
  /\ Ahead([kbList.rows EXCEPT ![k] = IF @ = NoRow THEN 0 ELSE @], {k})
  /\ UNCHANGED <<kbServer, kbFailed, kbK8s, kbDelete, kbBulk, kbAcked>>

\* Delete, once it is confirmed.
DeleteKey(k) ==
  /\ Row(k) # NoRow /\ kbEditor.key # None /\ kbEditor.sel = k
  /\ kbDelete.at = "idle" /\ Counts
  /\ kbDelete' = Send({k}, 0)
  /\ Ahead(Without({k}), {k})
  /\ UNCHANGED <<kbServer, kbFailed, kbPut, kbK8s, kbBulk, kbAcked>>

\* The checked keys are deleted: any, those whose row is gone included.
BulkDelete(K) ==
  /\ K # {} /\ kbBulk.at = "idle" /\ Counts
  /\ kbBulk' = Send(K, 0)
  /\ Ahead(Without(K), K)
  /\ UNCHANGED <<kbServer, kbFailed, kbPut, kbK8s, kbDelete, kbAcked>>

\* The service writes a key, or deletes some.
Writes(k) == /\ kbRev < KbMaxRev /\ kbRev' = kbRev + 1
             /\ kbStore' = [kbStore EXCEPT ![k] = kbRev + 1]
Deletes(K) ==
  IF \E k \in K: kbStore[k] # 0
    THEN /\ kbRev < KbMaxRev /\ kbRev' = kbRev + 1
         /\ kbStore' = [k \in KbKey |-> IF k \in K THEN 0 ELSE kbStore[k]]
    ELSE UNCHANGED kbServer

\* put-cas writes on the revision that is live, or merges; a key that exists is
\* never written on revision 0.  Of a merge nothing may be left to write.
Guarded(q, k) == kbStore[k] = q.base
Merges(q, k) == ~Guarded(q, k) /\ q.base # 0
SavesCAS(q, outcome) ==
  \E k \in q.keys:
    \/ outcome \in {"ok", "error"} /\ (Guarded(q, k) \/ Merges(q, k)) /\ Writes(k)
    \/ outcome \in {"ok", "conflict"} /\ Merges(q, k) /\ UNCHANGED kbServer
    \/ outcome = "error" /\ UNCHANGED kbServer

\* put-k8s does not merge.
SavesK8s(q, outcome) ==
  \E k \in q.keys:
    \/ outcome \in {"ok", "error"} /\ Guarded(q, k) /\ Writes(k)
    \/ outcome = "conflict" /\ ~Guarded(q, k) /\ UNCHANGED kbServer
    \/ outcome = "error" /\ UNCHANGED kbServer

Removes(q, outcome) ==
  \/ outcome = "ok" /\ Deletes(q.keys)
  \/ outcome = "error" /\ (Deletes(q.keys) \/ UNCHANGED kbServer)

\* What is left of a request when it is answered: the list to go back to, if it
\* failed, or else (in base) the store's revision when it was done.
Reply(q, outcome) ==
  IF outcome = "error" THEN [q EXCEPT !.at = "error", !.keys = {}, !.base = 0]
                       ELSE [Idle EXCEPT !.at = outcome, !.base = kbRev']

Serve ==
  /\ \E outcome \in {"ok", "conflict", "error"}:
       \/ /\ kbPut.at = "sent" /\ SavesCAS(kbPut, outcome) /\ kbPut' = Reply(kbPut, outcome)
          /\ UNCHANGED <<kbK8s, kbDelete, kbBulk>>
       \/ /\ kbK8s.at = "sent" /\ SavesK8s(kbK8s, outcome) /\ kbK8s' = Reply(kbK8s, outcome)
          /\ UNCHANGED <<kbPut, kbDelete, kbBulk>>
       \/ /\ kbDelete.at = "sent" /\ Removes(kbDelete, outcome)
          /\ kbDelete' = Reply(kbDelete, outcome)
          /\ UNCHANGED <<kbPut, kbK8s, kbBulk>>
       \/ /\ kbBulk.at = "sent" /\ Removes(kbBulk, outcome)
          /\ kbBulk' = Reply(kbBulk, outcome)
          /\ UNCHANGED <<kbPut, kbK8s, kbDelete>>
  /\ UNCHANGED <<kbList, kbFetch, kbFailed, kbEditor, kbSent, kbAcked>>

Acknowledge(q) ==
  kbAcked' = IF q.at = "ok" /\ kbList.loaded /\ q.base > kbAcked THEN q.base ELSE kbAcked

\* invalidateQueries: the list is fetched again, from the start if a fetch is
\* under way, but the first fetch of a list is left to end.
Invalidate(list) ==
  /\ kbFetch' = IF list.loaded \/ kbFetch.at = "none" THEN Fetching ELSE kbFetch
  /\ kbFailed' = FALSE

\* Mutant: the list is not read again.
SettledOnly(q, ed) ==
  /\ LET list == IF q.at = "error" /\ q.snap.loaded THEN q.snap ELSE kbList
     IN kbList' = list /\ kbEditor' = Follow(list, ed)
  /\ UNCHANGED <<kbFetch, kbFailed>>

\* onError and onSettled: the list as it was before, and then another fetch.
Settles(q, ed) ==
  LET list == IF q.at = "error" /\ q.snap.loaded THEN q.snap ELSE kbList IN
  /\ kbList' = list /\ kbEditor' = Follow(list, ed)
  /\ Invalidate(list)

PutEnds ==
  /\ kbPut.at \in {"ok", "error"} /\ kbPut' = Idle
  /\ Acknowledge(kbPut) /\ Settles(kbPut, kbEditor)
  /\ UNCHANGED <<kbServer, kbK8s, kbDelete, kbBulk, kbSent>>

\* A conflict is set as the ConflictResolver's payload, whose hooks differ with
\* and without one: React takes the whole app down, and the user loads it anew.
PutConflicts ==
  /\ kbPut.at = "conflict"
  /\ Mounted
  /\ UNCHANGED <<kbServer, kbSent, kbAcked>>

\* The answer of put-k8s: what is in the decoded editor by now is dropped.
K8sEnds ==
  /\ kbK8s.at \in {"ok", "conflict", "error"} /\ kbK8s' = Idle
  /\ IF kbK8s.at = "ok"
       THEN /\ kbEditor' = [kbEditor EXCEPT !.decoded = None]
            /\ Invalidate(kbList)
       ELSE UNCHANGED <<kbEditor, kbFetch, kbFailed>>
  /\ Acknowledge(kbK8s)
  /\ UNCHANGED <<kbServer, kbList, kbPut, kbDelete, kbBulk, kbSent>>

\* Deleted: whatever is selected by now is not any more.
DeleteEnds ==
  /\ kbDelete.at \in {"ok", "error"} /\ kbDelete' = Idle
  /\ Acknowledge(kbDelete)
  /\ Settles(kbDelete, IF kbDelete.at = "error" THEN kbEditor
                       ELSE [kbEditor EXCEPT !.sel = None, !.key = None])
  /\ UNCHANGED <<kbServer, kbPut, kbK8s, kbBulk, kbSent>>

BulkEnds ==
  /\ kbBulk.at \in {"ok", "error"} /\ kbBulk' = Idle
  /\ Acknowledge(kbBulk) /\ Settles(kbBulk, kbEditor)
  /\ UNCHANGED <<kbServer, kbPut, kbK8s, kbDelete, kbSent>>

\* Others write and delete.
Others ==
  /\ \E k \in KbKey: Writes(k) \/ (kbStore[k] # 0 /\ Deletes({k}))
  /\ UNCHANGED <<kbList, kbFetch, kbFailed, kbEditor, kbRequests, kbAcked>>

KeyBrowserNext ==
  \/ Refetch \/ RangeRead \/ Fetched \/ FetchFails \/ OtherQuery
  \/ \E k \in KbKey: SelectRow(k) \/ NewDraft(k) \/ Rename(k) \/ DeleteKey(k)
  \/ EditDecoded \/ Reload \/ CancelNew \/ PutK8s \/ PutCAS
  \/ \E K \in SUBSET KbKey: BulkDelete(K)
  \/ Serve \/ PutEnds \/ PutConflicts \/ K8sEnds \/ DeleteEnds \/ BulkEnds \/ Others

KeyBrowserSpec == KeyBrowserInit /\ [][KeyBrowserNext]_kbVars

----------------------------------------------------------------------------
\* Once nothing is under way and the last fetch has not failed, the list is that
\* of the store at a time after all of the page's own writes that were answered
\* while it showed a list: no answer, rollback or poll that comes in between
\* leaves a change ahead of its answer in the list, or takes back what the user
\* was told is saved or deleted.
OwnWritesShow ==
  LET quiet == /\ \A q \in {kbPut, kbK8s, kbDelete, kbBulk}: q.at = "idle"
               /\ kbFetch.at = "none" /\ ~kbFailed
  IN quiet => kbList.loaded /\ kbList.ahead = {} /\ kbList.at >= kbAcked

\* The list is that of the store, and no variable leaves its type.
KeyBrowserInv == KeyBrowserTypeOK /\ OwnWritesShow

\* A poll leaves the editor alone, except that a new key's draft which was given
\* another path is lost when the path it was given first turns up in the list.
PollsSpareTheEditor ==
  [][Fetched /\ kbEditor' # kbEditor
       => kbEditor.key # kbEditor.sel /\ Row(kbEditor.sel) = NoRow]_kbVars

\* "never carry edits for one Pod into the editor for another" (Browser.tsx).
EditsStayWithTheirPod ==
  SavesDecoded => kbEditor.decoded = kbEditor.sel
============================================================================
