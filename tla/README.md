# etcd-ui in TLA+

Specifications of [etcd-ui](../src), a web UI for etcd clusters made of five Go services behind a
gateway (`cmd/`, `internal/`) and a React front end (`web/src`). The modules here model the parts of it
that keep state and whose steps interleave, TLC checks them on small instances, and TLAPS proves the
central results for every value of the constants. All paths below are relative to `src/`.

Contents: [the system](#the-system) · [modules](#the-modules) · [runs](#what-the-runs-show) ·
[fairness](#fairness) · [proofs](#what-is-proved) · [disagreements](#where-code-and-documents-disagree) ·
[not modelled](#what-is-not-modelled) · [plan](#plan)

## The system

A request of a browser goes to the gateway (`cmd/gateway`), which authenticates it, proxies it to one
of four services and tells the audit service about writes. The services `cluster`, `kv` and `ops` each
hold a pool of clients to the etcd clusters; `kv` and `ops` copy the registry of clusters from `cluster`
every 30 seconds. The services share no memory and no database: they interact by HTTP over loopback,
and through etcd itself. Files (`clusters.json`, `audit.jsonl`, the ACL file, snapshots) are each
written by one process.

The front end is a single-page application. One route, and so one page, is mounted at a time; a page
keeps its state in React hooks, reads through a query cache that polls, and writes through mutations
whose callbacks change the cache ahead of, or after, the answer. What pages share is the session
(cookies, a refresh of them after a 401), the stream client, the dialogs, and the preferences the
browser keeps. Most of what can go wrong there is an order: of answers, polls, callbacks, timers and
keystrokes.

The inventory: what each component keeps, does, and has to get right.

| component | state | operations | what makes it hard | correct if |
|---|---|---|---|---|
| compare-and-swap saves: `put-cas`, `put-k8s` (`cmd/kv/cas.go`, `put_k8s.go`) | locals of a handler between calls to etcd | read live, read base, merge, guarded transaction, retry | three calls per attempt, others write, delete and compact in between; a failed commit may have applied | a save is one atomic merge with what it replaces, and its answer is true |
| line merge (`internal/threewaymerge`) | none | diff, hunks, weave, conflict blocks | cursors over two lists of hunks | each side's change is in the result or in a conflict |
| audit store (`internal/audit`) | ring buffer, JSONL file, next ID | append, tail, compact, restart | crash or failing disk in mid-write, file replaced under a writer | readers see the recorded events, in order, once; restarts lose nothing |
| audit service (`cmd/audit`) | hub of subscribers | record, broadcast, list, stream | append and broadcast are two steps; bounded channels | a stream has no silent gap |
| gateway audit emitter (`cmd/gateway`) | channel of 1024, batch of 64 | emit, batch, post | time-outs, full channel, shutdown | each write is recorded once or counted as lost |
| client pool (`internal/etcdpool`) | clusters, clients, v2 clients, APIs, certificate times | upsert, remove, list, scan certificates | upserts dial without the lock | one open client per cluster, of its configuration, none leaked |
| cluster service (`cmd/cluster`, `internal/persist`, `internal/discovery`) | the registry, `clusters.json` | add, delete, discover, save, rehydrate | list-then-save, discovery and scans with old copies, restarts | what users add and delete stays so |
| key browser: list and editor (`web/src/pages/Browser.tsx`) | cached list, draft, base revision, decoded view | select, type, save, delete, bulk delete, rename, New, reload | optimistic updates, polls and rollbacks; what a tab knows is old by the time it is sent | a save replaces what the tab has shown; one's own writes show; no poll touches the draft |
| key browser: tree, views, limit, width (`VirtualTree.tsx`, `Dropdown.tsx`) | open folders, focus, checks, saved views | open, keys, check, export, save a view, drag | rows move under a focus kept by number | the rows are the tree of the loaded keys |
| history drawer (`HistoryDrawer.tsx`, `lib/diff.ts`, `cmd/kv/history.go`) | versions read, the two compared | read, compare, collapse | versions are added and compacted meanwhile | no change is hidden, none invented |
| autocomplete (`Autocomplete.tsx`) | list, highlight, page, request | type, answer, page, pick | debounced requests answered in any order | suggestions are for what is typed |
| stream client, watch page (`lib/stream.ts`, `WatchPage.tsx`, `AlertWatcher.tsx`, `cmd/kv/ws.go`) | socket or event source, timers, status, events | open, fall back, reconnect, close; subscribe, pause, clear | timers against callbacks, old connections | a closed stream holds nothing, an open one comes back; the list is what was watched |
| session (`lib/api.ts`, `lib/silentAuth.ts`, `SessionKeepalive.tsx`, `internal/auth`) | cookies, refresh promise, iframe | call, 401, refresh, silent sign-in, call again | several tabs and calls at once, tokens that are used once | a call is carried out once and ends; login only for a cause |
| access rules (`internal/httpx/acl*.go`, gateway, `Permissions.tsx`) | rules in force, history, draft | check, snapshot, save, snapshot; edit, preview, restore | overlapping saves of several editors | rules that were in force can be restored |
| views of access rules (`Permissions.tsx`, `Federation.tsx`) | rules, filters, selection | matrix, diff, policy of a peer | scores, wildcards, prefixes, rules of the same scope | what is shown is what the gateway does |
| users and roles (`RBAC.tsx`, `cmd/ops/rbac.go`) | three cached queries | eight mutations | each invalidates one query; a listing is a call for the names and one for each of them | at rest the page shows what is |
| locks (`Locks.tsx`, `cmd/ops/locks.go`) | keys with leases, the page's list | acquire, release, list | grant, put and read-back are three calls; leases expire | at most one holder is told so |
| terminal (`Terminal.tsx`) | scrollback, history, running command | submit, clear, suggest, recall | a clear while a command runs | a result is under its command |
| transactions (`Txn.tsx`, `cmd/kv/txn_builder.go`, `bulk.go`) | rows of If, Then, Else; the call | edit rows, commit | rows change while the call is out, others write | the tag says what has run |
| comparison of clusters (`Diff.tsx`, `cmd/kv/diff.go`) | an answer for each question asked | choose, type, compare, filter | answers in any order, two scans | what is listed differs, between the clusters named |
| dialogs (`Confirm.tsx`, `BulkDeletePreview.tsx`, `BulkImportDialog.tsx`, `AddClusterWizard.tsx`) | question, typed word, file, form | ask, type, confirm, cancel | a second question replaces the first; a slow read of a file | what is confirmed is what was asked |
| maintenance (`Maintenance.tsx`, `lib/dbForecast.ts`) | size samples, leases, job cards | poll, revoke, run, validate | samples of one time, endpoints of different sizes; polls that began before a revocation, or fail | growth is forecast from samples that grew |
| metrics (`Metrics.tsx`) | points, log of leader changes | poll, choose a node, merge logs | polls fail, counters start anew, a list that is cut | each change once, no rate of a loss |
| pickers and preferences (`ClusterPicker.tsx`, `lib/store.ts`) | selection, pins, views | pick, pin, drag | indices of one list used in another | every cluster is there once |
| peer sync, read-only guard (`internal/peer`, `internal/httpx/readonly.go`) | known IDs, read-only set | sync every 30 s | partial failures, changes under the same ID | pools of `kv` and `ops` catch up with the registry |
| alerts (`internal/alerts`) | last health, leader, alarms; throttle; subscribers; a file | observe, fire, subscribe, persist | throttle against transitions, one goroutine per post | the last message says how the cluster is |
| rules file (`internal/httpx/acl.go`) | rules in a file, its modification time | load, reload, save | shared temporary file, mtime races | memory and file agree |
| snapshots and restore (`cmd/ops/schedule.go`, `restore.go`) | files, timers | snapshot, offload, prune, restore | offload beside pruning, batches | the newest snapshots are kept and complete |
| supervisor (`cmd/supervisor`) | processes, backoff | start, restart, stop | crashes | every service runs again |
| sign-in, federation, rate limit, bulk batches, v2, Kubernetes decoding, metrics endpoint, tracing, other pages | little or none of their own | requests passed to etcd or to other parties | mostly I/O | |

`PROJECT.json` lists these components with their sources, every hazard at its line with the
properties that cover it (or why none does), the source lines of each definition, and for each
property a mutated definition that breaks it.

## The modules

```
EtcdKey <- AtomicSave              ThreeWayMerge <- MCThreeWayMerge <- MergeProofs
   ^            ^  (INSTANCE, refined by)
   +-------- PutCas <- BrowserTabs <- MCBrowserTabs, PutCasProofs
              ^
           MCPutCas

AuditLog <--(INSTANCE, refined by)-- AuditStore <- MCAuditStore, AuditStoreProofs
   ^
   +-- AuditTrail <- MCAuditTrail, AuditTrailProofs

ClusterPool <- Registry <- MCRegistry, RegistryProofs
StreamClient <- WatchPage <- ConsoleProofs
Session <- MCSession, WebClientProofs
KeyBrowser <- WebClientProofs

KeyTree, KeyHistory, Suggestions, TerminalPage, LockPage, AccessRules, AccessViews,
RolesPage, Dialogs, Maintenance, MetricsPage, Pickers, TxnPage, DiffPage
   ^         (NumberSets: numbers of a set in their order, for KeyHistory and Pickers)
Console <- MCConsole, ConsoleProofs, PageProofs
```

### Services

**EtcdKey** is one key of etcd: `hist[r]` is its state at store revision `r`, `compacted` the revision
below which reads fail, `inflight` the guarded transactions whose handler has given up on them and
which may still apply. It has the operations of the services that write without looking (`/put`,
`/delete`, `/compact`) and `Merge`, the shortcuts of `threewaymerge.Merge` in front of a constant
operator `WeaveLines`. A guard `0` is `CreateRevision = 0`: the key does not exist. Etcd is external; it is
modelled from the calls `cmd/kv` makes.

**AtomicSave** is the abstract specification of the save endpoints. A save is one step: it replaces
the live state by the merge of the client's value with exactly that state, or writes nothing and gives
an answer that a state during the call justifies (`already saved`, `conflict`, `busy`, `error`).

**PutCas** is the handlers as they are: `GetLive`, `GetBase` and `Commit`, one call to etcd each, with
`LoseRace` (the guard failed: start over, or 503 after `MaxAttempts`, or 409 for `put-k8s`) and `CallFails`
(502, with the transaction perhaps on its way). Any error of the Get at the base revision, not only
compaction, makes the live value the base, as in `cas.go:95-108`. `seenAt` is a history variable. The weave
is a constant; of it one thing is assumed, which is proved of the repository's: edits in different places of
the base are both in the merge (`EditApart`, `EditsOfBoth`). **MCPutCas** gives it the weave of
ThreeWayMerge, so what that does to edits that meet happens in the runs too.

**BrowserTabs** puts the editor of the page in front of it, for one key: `editing`, `draft` and `baseRev`
(`draftBaseRev`) of each tab, and `overlay`, the value that `putMut` writes over the key's row before it is
answered. A tab takes its base revision with a row (`Select`, also Reload), loses it with a folder's row,
and keeps it, or has another key's, with New. `Receive` is a step of the handler together with what
`onSuccess` or `onError` does with its answer. `opened` and `sentOn` are history variables: the state of
the key that the tab showed when it took the base revision it has, or has sent. The conflict dialog is not
in the module: `ConflictResolver.tsx:43-45` calls a hook it did not call before, which takes the page down at
the first conflict, so `commitResolved` (`Browser.tsx:306-313`) is never reached; the user starts anew.

**ThreeWayMerge** is the merge itself, on sequences of lines: the LCS table, the walk back, the hunks,
`nextHunk`, `materialise` and the loop of `Merge`, turn by turn, with its cursors. The reference
definitions it is checked against are at its end: `Apply`, `HasCommon`, `KeptLines`, `InOrder`, `Clear`,
`Apart`, `Both`, `Clashing`. The table, the walk, the groups and the loop are recursive functions, so that
they can be proved about.

**AuditLog** is the abstract audit log: a window of at most `Cap` events onto everything recorded.
**AuditStore** is the ring, its head and full flag, and the file line by line: torn lines, a buffered
writer that keeps its first error, a compaction that rebuilds the ring and replaces the file in steps
that can fail one by one, a restart that reads the last `Cap` lines. It implements AuditLog, the window
being the ring's content while the service runs.

**AuditTrail** composes AuditLog with the gateway's emitter (channel, batch, flush, posts that time
out and arrive late), the service's handlers and hub (`Record`, `Broadcast` and `Prime` are separate
steps, as in `cmd/audit/main.go`) and the audit page. Since AuditStore implements AuditLog, what holds
here of the window holds with the real store.

**ClusterPool** is the pool's maps; `Dial` is what `Upsert` does without the lock, `Register` what it
does under it, so calls overlap. **Registry** is the cluster service around one pool: request handlers
(upsert or remove, then list, then save), the discovery loop, `WatchCerts`, and `main` which registers
the saved clusters, then the discovered ones, then listens. Passwords are lost in a posted body
(`json:"-"`) and `readOnly` in the saved file (`storedCluster` has no such field): `Received` and
`Stored`. `settled` is a history variable.

### The web client

**StreamClient** is `openStream`: each stream's WebSocket, event source, backoff, reconnect and ping
timers, and what it publishes for the status pill, one action for each callback. `Reopen` is `close`
of some streams and perhaps `openStream` of a new one, without a callback in between. The service goes
and comes back (`Goes`, `Comes`), and `upgrades` says whether the proxies in between let a WebSocket
through. **WatchPage** puts on it the watch page with its list, prefix and pause, the AlertWatcher with
its stream, and the watch of the `kv` service, which runs from the present on: what is written while a
connection is broken is never delivered.

**Session** is `req` of several tabs with its one retry after a 401, the promise that the calls of a
tab share, the refresh at the gateway (`handleRefresh`, its cookies), the identity provider which may
rotate tokens and end its own session, the hidden iframe, the keep-alive, and the login page. Tabs share
cookies and nothing else. The silent sign-in can renew the cookies (`SilentRenews`) and yet never succeeds:
the callback's page, which should post the message, comes with the gateway's headers, so the frame does not
show it and its script does not run, and the callback's error exits post nothing (`oauth.go:138-290`); after
8 s the tab goes to the login page (`SilentEnds`). `excuse` is a history variable: the causes for which a
refresh can have failed.

**KeyBrowser** is the key list and the editor of `Browser.tsx`: the query cache's list with the changes
made ahead of an answer, `range` requests that read at one time and are delivered at another, the four
kinds of mutations with their snapshots and rollbacks, the effect that follows the selected row, the
decoded view of a Kubernetes object, and a store that others write. A row is its key and revision.
`kbAcked` is a history variable.

**Console** composes the pages that share nothing with each other. `route` says which is mounted, and a
behaviour is that of one page from its mounting on; parts of a page that share no state (dialogs, cards,
widgets) have routes of their own. Its modules:

- **KeyTree**: the rows of `VirtualTree` computed from the loaded keys and the open folders, every key of
  the keyboard, clicks, checkboxes, select all, export.
- **KeyHistory**: the drawer reading the versions of a key that is written and compacted, `lineDiff` with
  its cap on the table, and the unchanged runs that the panel collapses.
- **Suggestions**: `Autocomplete` with its debounce timer, sequence numbers, pages and highlight.
- **TerminalPage**: scrollback, running command, clear, suggestions, recall.
- **LockPage**: acquire as the three etcd calls of `locks.go`, leases that run out, and the page's list,
  whose lease ids went through `JSON.parse` (`Number`). A put that fails may have landed, and the lease it
  was made with is revoked, or lives on if that fails as well.
- **AccessRules**: two editors' saves and restores, each `MayEdit`, `SnapshotBefore`, `SaveRules`,
  `SnapshotAfter` at the gateway; the page's draft, preview and drawer. `arWere` is a history variable.
- **AccessViews**: rule editor (opened, edited, left, saved), filters, matrix, diff, and a peer's policy,
  beside `Resolve` of the gateway with its scores. Prefixes are texts of any length, given by the keys that
  start with them (`StartWith`) and their length; `""` and `"/"` are one scope and two rules, as in the code,
  and `"*"` is a prefix like any other.
- **RolesPage**: three cached queries, eight mutations, the handlers and what etcd makes of them. A listing is
  a call for the names (`Lists`) and one for each name (`Gets`), and a name whose own call fails is listed with
  nothing. `rbKnown`, `rbGone` and `rbDoubt` are history variables: the names whose call told what is shown of
  them, the roles deleted since the users were listed, the queries of which a change or a reading was cut short.
- **Dialogs**: `confirm()` with its promises, bulk delete with the word it keeps, import of a file that takes
  time to read, the wizard with late answers. `cfMeant`, `bdMeant`, `biLate` are history variables.
- **Maintenance**: samples of sizes and the regression over them, the card that is rendered before the effect
  records the size it was rendered for, leases, jobs, the validator. A size is that of the first endpoint that
  answers, or none; readings of the leases may fail.
- **MetricsPage**: what is kept of the polls, rates and sums, the merged log of leader changes, cut after
  `MxRows` rows.
- **Pickers**: clusters and pins, saved views, the limit with its dropdown, the width of the list.
- **TxnPage**: the rows, the call with the rows it was given, and etcd's transaction (comparisons, the
  branch, which operations it refuses) among others' writes.
- **DiffPage**: the query cache's entry for each question of the page, and the handler's two scans.

A widget's re-rendering, layout and wording are left out throughout; texts are members of small sets. The
cards of the wizard, the jobs and the validator, and of the tree the export and the checkboxes, are modelled
for their part in the pages' state; no property is about them.

## What the runs show

A run whose name is marked `x` states what a comment says and is violated by what the code does; see
[below](#where-code-and-documents-disagree).

| run | instance | shows |
|---|---|---|
| `put_cas` | 2 editors, values of two lines, 2 attempts, 3 revisions | `Implements`: the retry loop implements AtomicSave. `AnsweredSaveIsStored`: the revision in an answer holds the value. `ForeignEditsSurvive`: what others changed in other places since the client opened the key is in what a save stores, together with the client's changes, as long as the base can be read; edits that meet are the merge's, see `three_way_merge_clash`. `IInv`: the inductive invariant |
| `browser_tabs` | 1 tab among other writers, failing calls, 3 revisions, 2 texts | `OnlySeenIsReplaced`: a save that is not merged replaces the very state the tab showed when it took its base revision, and a merge starts from that state; New with another key's revision and rows written over by `putMut` are left out (see [below](#where-code-and-documents-disagree)). `SaveReturns`: every save is answered |
| `three_way_merge` | all triples of texts up to 3 lines over 3 lines | `DiffRebuilds`: the hunks give back the text and change as little as the longest common subsequence allows. `ClearEditsWeave`: edits apart from each other are both applied. `SidesAlike`: swapping the sides finds the same conflicts |
| `three_way_merge_clash` x | the same | `ClashConflicts`: both sides replacing a common line is a conflict |
| `audit_store` | ring of 3, 5 events, 2 torn lines, 2 instants | `Implements`: readers see the recorded events, in order, once, through wraps, compactions, crashes, failing disks. `RingAndFile`: a restart would find what can be read now; IDs never repeat or run backwards in the file. `OnlyOldLinesLeave`: what a compaction may drop |
| `audit_trail` | 3 requests, channel of 1, batch of 2, 1 break | `RecordedOnceInBounds`, `Accounted`: an event is in exactly one place, also those lost or dropped. `StreamHasNoGap`: a stream misses only what the hub dropped. `EmitterDrains`: no event stays in the emitter |
| `registry` | 2 handlers, 2 clusters, 4 clients, 3 requests, 1 tick, 1 crash | `PoolConsistent`: each cluster has one open client, dialled with the configuration registered. `NoClientLeaks`. `SavedChangesLast`: an addition or a deletion that was saved with nothing else about that cluster under way lasts, through scans, other saves and restarts |
| `watch_page` | 2 streams, 2 outages, 1 doubling of the delay, 2 prefixes, 3 writes | `StreamsInOrder`: a closed stream has no connection and no timer, the page and the watcher have one stream each, what the pill shows is so, the list is newest first without repeats. `OnlyWatched`: what is listed was watched, and not while paused. `Recovers`: a stream that is wanted is open again after any outage, as far as the fallback allows |
| `session` | 2 tabs, 3 calls, 1 event (expiry, sign-out, keep-alive) | `CallsOnce`: a call is carried out at most once, a tab has at most one refresh on account of a 401. `SentToLoginForCause`: login only after a sign-out, an expiry in the moment of renewal, a refresh that could not be made, or one whose token another tab or the keep-alive had used; the silent sign-in spares none of these. `CallsEnd`: every call ends |
| `key_browser` | 2 keys, one an object, 2 revisions, 2 requests | `KeyBrowserInv`: at rest, the list is that of a store after all of the page's answered writes. `PollsSpareTheEditor`: no poll changes the editor, but for a renamed new key |
| `browser_decoded` x | 2 objects, 1 request | `EditsStayWithTheirPod`: the decoded text in the editor is of the row that is selected |
| `pages` | one small instance for each page (`MCConsole.cfg`) | for each page its property, while it is mounted: see below |

The properties of `pages`, named `...Here`, each include the types of the page's variables:

| property | says |
|---|---|
| `RowsAreTheTree` | every loaded key whose folders are open has a row; a row's parent is above it and is what ArrowLeft goes to |
| `DiffTellsTheChange` | red and white lines are the old version, green and white the new one; no longer common subsequence exists; hidden lines are unchanged, and counted |
| `SuggestionsFit` | a list that is not loading answers what is in the input now |
| `ResultsFindTheirEntry` | "running" stands at the one command that runs, or at none after a clear |
| `OneHolder` | of two callers told they have the lock, one has lost it since |
| `NoRulesAreLost` | rules that were in force are in force, in the history, or about to be recorded, unless a snapshot failed |
| `ViewsTellTheRules` | an empty cell is no access to any key; what a cell shows is what `Resolve` gives for some key, unless a rule before it has the same scope; no key gives more than its cell or that for any cluster; the diff applied to the old rules gives the new, and an edit that changes what `Resolve` gives for a key is among what it lists, unless rules tie; "denied" is denied |
| `RolesShowWhatIs` | at rest the users and roles shown are those there are, with the permissions and roles they have if their own call told of them and none if it failed; a grant shown that is none is of a role deleted since the users were listed; but for queries cut short |
| `YesIsMeant` | `confirm()`: what asks for a word had it typed into this very question, no question is answered both ways; bulk delete: more than ten keys only after the word was typed, into this question or an earlier one; import: the file sent is the one whose keys were counted, unless a file is, or was, read past the choice of another |
| `FiguresTell` | (Maintenance) the card tells growth, within the window, of samples of one endpoint that grew, and its size is the last recorded or one before it; a lease known as revoked is not listed once the list was read since; (Metrics) the log follows the counter, a change is listed or all rows are of later ones, charts run forward and draw no loss |
| `PickersShowWhatIs` | every cluster once with the pinned on top, views with different names, a limit the dropdown can show |
| `TxnTellsWhatRan` | the branch named in the tag is the one the conditions chose, and the store at the revision named is what that branch makes of the one before |
| `DiffTellsTheDifference` | what is listed is where the two clusters named differ under the prefix typed, unless they were written since the question was asked |

Each module has one type invariant, checked by the run of its module (as a part of `IInv`, `RingAndFile`,
`StreamsInOrder`, `CallsOnce`, `KeyBrowserInv`, or the page's property where it has none of its own).

**Bounds, and why they suffice.** Values of *two* lines let one save keep one line and lose another; with
one line every merge past the shortcuts is a conflict. `browser_tabs` has two texts: a draft and what
another tab wrote, which a merge takes for a conflict, or for one side's edit where the key is empty. Two
attempts let a put-cas lose a race, start over, and lose again; three revisions are an opened state, a
foreign write and the save (`MaxRev` bounds when a request or a plain write starts: saves under way go
beyond it). `Faults` are the calls that may fail: the commit in `put_cas`, since where the Get of the base
may fail too `ForeignEditsSurvive` has less to say, and the live Get as well in `browser_tabs`.
Transactions in flight behind a failed commit are in the instance of `browser_tabs` and not of `put_cas`;
the proofs cover any number of them. A ring of three wraps, is rebuilt short, exactly full and with
several events too old; `MaxTears < Cap` because a restart that finds `Cap` broken lines finds no ID to go
on from. A channel of one and a batch of two make both the full channel and the full batch happen with
three events; one break is a crash of either process or a broken stream at any step. In `registry`, four
clients are one for each cluster and one for each of two dials under way, and the dial of anybody else
then has to wait; one tick is a discovery round or a scan of a copy of the registry, one crash loses every
in-memory change. Texts of three lines over three different lines contain every arrangement of two hunks a
side: apart, touching, overlapping at one end, nested.

In `watch_page` two streams are the page's and its successor, or the page's and the watcher's; two outages
break a first connection and a later one, which the fallback treats differently; a list of two overflows
at the third event. In `session` two tabs race with different promises and shared cookies, two calls of
one tab share a promise, and one event is enough to make any call fail at any point; refreshes and silent
sign-ins end as the cookies, the tokens and the provider make them, without a bound. In `key_browser` two
keys are a selected row and another, one revision besides the first is a write of others or of the page,
and two requests overlap. Of the pages: `MaxSeq` 3 is a question, one that overtakes it and one more;
three callers of a lock are two that were told and one that waits; two saves of rules overlap, of two
editors; of rules for prefixes, `"/long"` is so long that a rule with it for any cluster outscores one for
the cluster itself (10 + 95 against 100), and two rules before and two edits make rules of the same scope
and equal scores; two users, a role and two mutations make the second one, or a failing call, fall into
each gap of the listing that the first one started; three questions, and two files that can be parsed and
one that cannot, answer, replace and outrun each other; three lines around a change exceed a context of
one, so runs collapse; four minutes with a window of three make samples too old, too many, and of one
time, and of the two clusters one has endpoints that answer, two of them, of sizes that differ; three
polls are a first sight, a loss and what follows it, and the merged list is cut after three rows, which
they exceed; `Spacing` 4 with ids from 11 on makes two lease ids one JavaScript number; two transaction
operations and one condition on a number and one on a value make both branches, refused branches, and
branches without effect; two questions of `DiffPage` are one that is answered late and one that is shown
by then, and the one write falls before, between or after the scans.

Symmetry is used on editors, clients and handlers only, where no property tells them apart,
and in no run with liveness. `pages` has the view `<<route, Page>>`: the variables of pages that are not
mounted keep their first values, so a state is determined by the page that is.

`CHECK_DEADLOCK FALSE` stands where the bounds let the system stop (all requests served, revisions
used up, a page at rest), and for the merge, which is one step.

## Fairness

`BrowserTabs` and `PutCas` assume weak fairness of each handler's next step: every call to etcd is
made under a context with a deadline (`cas.go`), so it returns or fails. Nothing is assumed of users
or of other writers; `SaveReturns` therefore rests on the bound of the retry loop. `AuditTrail` assumes
weak fairness of the emitter's goroutine, whose HTTP client has a time-out of 3 s; the audit service
may be down for ever.

`WatchPage` assumes weak fairness of each stream's next callback (a timer that is set fires, a browser
reports what became of a connection), of deliveries, and of the service's return (`Recovery`): an
outage that never ends refutes nothing. Users may watch other prefixes for ever. `Session` assumes that
a call is answered or lost (`fetch` settles), that a refresh ends, and that a silent sign-in does, which
gives up by a timer of its own (8 s, `silentAuth.ts:38`): nothing is assumed of what the identity provider
or the iframe do meanwhile. Everything else is safety, without fairness.

## What is proved

`PutCasProofs` proves, for every set of editors and values, every weave that returns a value and merges edits
of different places, every number of attempts and revisions, and whichever calls to etcd may fail:

- `TypeCorrect`: `Spec => []TypeOK`
- `Invariance`: `Spec => []IInv`
- `AnswersHold`: `Spec => []AnsweredSaveIsStored`
- `Refinement`: `Spec => Implements`, that is, `Atomic!Spec`
- `EditsSurvive`: `Spec => ForeignEditsSurvive`

Assumptions, all on constants and all named where the constants are declared: the empty string is a value
and drafts are values (`ValueAssumption`), a weave returns a value and ends clean or in conflict
(`WeaveAssumption`), `MaxRev` is a number, `MaxAttempts` a positive one, `Faults` names calls, and a merge
of edits in different places is the base with both of them (`ApartAssumption`). This last one is no
idealisation: `MergeProofs` proves it of `Merge` as it is, for texts of any length
(`ApartEditsAreMerged`), and `put_cas` uses that weave. Nothing is assumed of edits that meet, of which
the weave may drop the one side's.

The argument. That an answer names a revision holding its value is not inductive: `Commit` writes what
`todo` says under a guard computed from `seen`, two steps earlier. `IInv` says what is known of those
locals in between. `HistOK`: a modRevision identifies a state, so a guard that holds means that the
live state *is* the one that was read, even after a delete and a re-creation. `RequestOK`: the base
revision was read before the call began. `SeenOK`: what an attempt read was the state at `seenAt`,
within the call, and after every attempt that failed. `TodoOK`: the prepared transaction is one of
`Puts` for the state read; since `compacted` only grows, compaction can add such transactions and
never removes one (lemma `PutsStay`). `AttemptOK`: each failed attempt saw the key move, which makes
`busy` true. `AnswerOK` is the property.

Steps of others are covered once: they are `Moves` (the history grows by at most one legal state, the
compaction point does not fall) and leave an editor's locals `Untouched`; lemma `StoreMoves` shows
that this preserves `EditorOK`. Each action of a handler then has a lemma that shows both the
invariant and the abstract step it takes: `GetLive` and a `LoseRace` that starts over stutter, `Commit`
is `Save`, `GetBase` is `AlreadySaved`, `Conflict` or a stutter, the last `LoseRace` is `Busy` or
`Conflict`, `CallFails` is `Fail`.

`EditsSurvive` rests on the same: at its commit a transaction is one of `Puts` for the *live* state
(`CommitPuts`). If the base revision can still be read then, it could when it was read (compaction only rises),
so the merge was made with the value the client opened, and by `ApartAssumption` it is the base with the edits
of both; and if there was no merge, the guard says that the live state is the one the client opened, so the
edits of both are the client's.

Its last section adds the page, BrowserTabs: `SeenIsReplaced`: `TabsSpec => OnlySeenIsReplaced`, for any
number of tabs. `TabsInv` adds to `IInv` what the tab has shown: a state in `opened` is the one its base
revision names (`OpenedOK`), however many revisions the store has had since, and one in `sentOn` is that of the
request's base revision, through selecting, typing, New, polls, rollbacks and answers in between. A
commit that is answered `ok` was not merged, so its guard names that state; one answered `merged` started from
it, unless the revision could not be read.

`RegistryProofs` proves, for every set of clusters, endpoints, clients and handlers and every bound:

- `RegistryTypes`: `Spec => []TypeOK`
- `EntriesConsistent`: `Spec => []PoolConsistent`
- `NoLeaks`: `Spec => []NoClientLeaks`
- `SavedChangesStay`: `Spec => []SavedChangesLast`

Assumptions: the records that stand for no configuration and no client are neither
(`NoConfigAssumption`, `NoClientAssumption`), the goroutines are different ones (`CallerAssumption`),
users post manual clusters and discovery finds discovered ones (`ConfigAssumption`), bounds are
numbers (`BoundsAssumption`).

The argument. `PoolConsistent` alone does not survive `Register`, which publishes a client that was
dialled without the lock, any number of steps earlier. `PoolInv` adds what is known of that client
meanwhile: it is open and dialled with the `Upsert`'s configuration (`PendingOpen`), and it is
registered nowhere (`NoClientLeaks`); so closing the client that `Register` or `Remove` replaces never
closes one that somebody else holds. Each pool operation has a lemma that it preserves `PoolInv`; each
action of the service does at most one pool operation, or leaves the pool alone (`PoolStays`).

For the file, `SavedInv` adds to that what keeps a saved change from being undone. `JobsOK`: a goroutine
holds configurations only while it upserts, main not once the service listens, and what is in the file
or about to be written was added by users. `SettledOK`: of a cluster whose deletion was saved nothing is
left anywhere, in the pool, the file, a list about to be written, or the hands of a goroutine; a cluster
whose addition was saved is in the file and in *every* list about to be written, it is in the pool or
main has still to register it, and whatever anybody is about to register for it is what a user added.
Without the lists, the older of two saves could undo the newer one: `Save` settles a change only if no
other is about to save, and a list taken later has it. `SettledStays` covers the steps that are about
other clusters. TLC checked `SavedInv` on the instance of `registry` before it was proved.

`AuditStoreProofs` proves, for any capacity and retention, any number of events and crashes:

- `RingAndFileHold`: `Spec => []RingAndFile`
- `StoreImplementsLog`: `Spec => Implements`, that is, `Log!LogSpec`
- `OnlyOldLinesEverLeave`: `Spec => OnlyOldLinesLeave`

Assumptions: a capacity is positive and the bounds are numbers (`StoreBounds`), and fewer lines are torn
than the ring has room for (`MaxTearsAssumption`): with `Cap` broken lines at the end of the file a
restart finds no event and gives IDs anew (`audit.go:286-301`).

The argument. `StoreInv` says of ring and file separately that their events are as they were recorded
and in order (`Faithful`, `Sorted`); that one number bounds the IDs in both and is the next one's
predecessor while the service runs (`IDsOK`); that the file has no more broken lines than crashes have
torn (`TearsOK`), so that some line among the last `Cap` has the highest ID; and that while nothing
failed the ring is the file's end (`IntactOK`). `RingPost` shows that the ring after an append, at any
head, full or not, reads as the newest `Cap` of what it read before and the new event; `PickedOK` and
`GoodX` that taking out old or broken lines keeps order. A write, a step of a compaction that rebuilds
the ring, a crash and a restart are then `Record`, `Expire`, `Stop` and `Reopen` of AuditLog, everything
else a stutter.

`AuditTrailProofs` proves, for any requests, capacities, and number of breaks (`RequestAssumption`,
`CapacityAssumption`, `CapAssumption`, `MaxAgeAssumption`, `LogBounds`):

- `Recorded`: `Spec => []RecordedOnceInBounds`
- `AllAccounted`: `Spec => []Accounted`
- `NoGap`: `Spec => []StreamHasNoGap`

The argument. `TrailInv` follows each event instead of each place: it is in one, and no sequence has it
twice (`EachInOnePlace`, `NoneTwice`), so a step that moves an event out of one place and into another
keeps both; a post that times out goes to `late` in the same step in which it leaves the batch. For the
stream, `StreamInv` says of every event recorded since the subscription, not only once the stream runs,
where it is: it is still to be broadcast, queued, among the first events, on the page, or skipped.

`WebClientProofs` proves two things. Of the session: `CalledOnce`: `Spec => []CallsOnce` and
`SentForCause`: `Spec => SentToLoginForCause`, for any tabs and calls (`SessionAssumption`). A call that
will be made again has not been carried out: a 401 is given in place of an execution, a second one ends
the call. For the refreshes: a flight on account of a 401 is the one whose promise its tab holds as
running, and a silent sign-in runs only within such a promise. For the login page (`CauseInv`): as long as
nothing excuses it, the IdP knows the user, every refresh on account of a 401 is answered with new
cookies, so no silent sign-in runs, a tab that has just renewed the session has one, and no call is
refused a second time. Nothing is proved of a silent sign-in but that it ends.

Of the key browser: `OwnWritesShown`: `KeyBrowserSpec => []KeyBrowserInv` and `PollsSpare`:
`KeyBrowserSpec => PollsSpareTheEditor`, for any keys and any number of revisions and requests
(`KeyBrowserAssumption`; the store has room for one write). `OwnWritesShow` speaks of a page at rest, and
nothing in it survives a step of its own: `BrowserInv` says what is known while the page is not at rest.
What a fetch has read and not delivered is fresh, that is, read after every write the page was told of and
without rows changed ahead, since an answer that tells of a write starts the fetch again (`ReadOK`). When no
fetch is under way and the last one did not fail, the list is fresh, or a put, delete or bulk delete is under
way whose end, good or bad, has it read again (`RestOK`). An answer tells of a revision the store has reached
(`RequestsOK`), so a read after it is late enough. `EditorOK`, the draft is about the selected key while that
key has a row, is what the second theorem needs: a poll changes the editor only through the effect that
follows a new row.

`MergeProofs` proves the three properties of the merge for texts of any length and any lines
(`MergeAssumption`: `MaxLen` is a number):

- `DiffAlwaysRebuilds`: `Spec => []DiffRebuilds`
- `ClearEditsAreWoven`: `Spec => []ClearEditsWeave`, and `ApartEditsAreMerged`, the same of `Merge` for any
  three texts, on which `PutCasProofs` rests
- `SidesAreAlike`: `Spec => []SidesAlike`

The argument. Behaviours are two states long; what is proved is about the operators, by induction over
numbers and over the cells of the table (`Induction`, `GridInduction`, both from `LeastExists`: a set of
numbers has a least one). Every recursive definition is first shown to be what its equation says
(`GridRecursion`, `WovenOK`, `GroupedStep`, `WeaveOK`). `LcsBound`: a cell of the table is at least the
length of any common subsequence of the two beginnings. `WalkProgress`: at each cell, the hunks made of
the walk up to it are in order and apart, turn the one beginning into the other (`TextUpto`), and leave as
many lines alone as the cell says; one lemma for each kind of edit (`ProgressEqual`, `ProgressDelete`,
`ProgressInsert`). The loop of `Merge` is followed turn by turn. Of two runs with the sides exchanged each
state is the `Mirror` of the other. If the sides keep clear of each other, then after each turn, for some
`z`, the first `z` hunks of both sides in their common order are woven in and nothing else (`WovenUpto`),
the cursors stand behind those of each side (`Done`), and the position and the cursors have come as many
steps as there were turns (`Far`), so the turns the model allows are enough: every run of the loop ends.

`ConsoleProofs` proves nine of the pages' properties as invariants of the whole Console, each with an
inductive invariant of its page's variables; only the steps of a page change these.

- `NoRulesLost`: `ConsoleSpec => []NoRulesAreLostHere` (`AccessAssumption`). A request past its first
  snapshot replaces rules that are kept, even if another request has replaced them since: what a save puts
  is kept from the moment it is written, what a restore puts comes from the history.
- `ResultsFound`: `ConsoleSpec => []ResultsFindTheirEntryHere` (`TerminalAssumption`). Ids are given in
  order, so a new entry has the id of no other.
- `SuggestionsFitInput`: `ConsoleSpec => []SuggestionsFitHere` (`SuggestionsAssumption`). Answers are taken
  only if they carry the last sequence number, and while the list is open the flight with that number, or
  the timer that will start it, asks what is in the input.
- `DifferencesTold`: `ConsoleSpec => []DiffTellsTheDifferenceHere` (`DiffAssumption`). Each entry of the cache
  is the answer to its question, and a scan that was made is what the left still has, unless one of the
  clusters of the question was written since the request started.
- `OneHoldsTheLock`: `ConsoleSpec => []OneHolderHere` (`LockAssumption`). A lease is granted to one call and
  put in the queue once; keys are put at its end and leave with their lease. So the lease of a call that was
  told it has the lock stays at the head of the queue while it lives, and a queue has one head.
- `RolesShown`: `ConsoleSpec => []RolesShowWhatIsHere` (`RolesAssumption`: `root` is a user). Of each of the
  three queries: what it shows is what there is (of the names whose call told), or its names are still to be
  listed, or what was read since they were listed still holds, or a mutation that was carried out will have it
  read, or one of those was cut short (`QueryOK`). A mutation changes only what the query it invalidates tells,
  except that deleting a role takes grants away, which the page may still show: that role is then in `rbGone`.
- `ViewsTell`: `ConsoleSpec => []ViewsTellTheRulesHere` (`AccessViewsAssumption`: a prefix starts with
  itself, one that starts with another is longer, the empty one starts all). The invariant is that of the
  types; what is proved is about the operators, for any rules, prefixes of any length and scores. The key
  at which a cell's access is given is one with the prefix of the rule that it is shown for: of the rules
  that apply there, one that scores higher is for another scope, and of equal scores the first counts
  (`ResolvesTop`). An edit that changes what `Resolve` gives for a key changes the access of a rule that
  applies to it, or adds or removes one, unless rules of one score and different access tie
  (`ChangesHold`).
- `TagTellsWhatRan`: `ConsoleSpec => []TxnTellsWhatRanHere` (`TxnAssumption`: no key is empty, which etcd
  refuses, and only what the page can make of a row is a row). What a call has done stays in the history as it
  was (`Ran`, `RanStays`). That the store after a branch is told by its rows, whatever their order, is an
  induction over the rows (`BranchRuns`): a key that a row puts no other row writes (`PutAlone`), because etcd
  refuses such a branch. A put raises the version, so a transaction that left the store as it was put
  nothing, and the revision named is that of before.
- `YesAlwaysMeant`: `ConsoleSpec => []YesIsMeantHere` (`DialogsAssumption`: the word to be typed is not
  empty). A question on the screen is unanswered, and if its word stands in the input, it was typed since; the
  word in the bulk dialog was typed into one of its questions so far (`BulkTyped`); what an open import has
  parsed is its file, or a reading is out, or one ended late (`BoxesOK`).

Of the watch page it proves `StreamsStayInOrder`: `Spec => []StreamsInOrder` and `ListsWhatIsWatched`:
`Spec => OnlyWatched`, for any prefixes, any number of streams, outages and writes, under
`StreamAssumption` and `WatchAssumption`. The published status follows a stream's transports callback by
callback; only the page's own stream is fed to the list, with revisions of its prefix in order; and what
is still to be delivered was written after everything that is listed.

`PageProofs` proves the other four properties of Console, those of pages that show lists and figures:

- `PickersShow`: `ConsoleSpec => []PickersShowWhatIsHere` (`PickersNames`: the names of clusters are not
  empty and differ, those of stored views differ; `PickersAssumption`: finitely many limits, none of them 0, as
  in `Browser.tsx:1042`). The invariant: what is pinned is pinned once (`PinsOnce`), since a cluster is
  added only if it is not there and a drag moves an entry or puts one in that is no cluster's name; names of
  views differ (`NamesOnce`); the limit is at most the highest. A finite set of numbers is listed in its order
  without a sort: each member is where as many are before it (`Ranked`, `RankOK`), by induction over
  the number of members.
- `RowsAreAlwaysTheTree`: `ConsoleSpec => []RowsAreTheTreeHere` (`KeyTreeAssumption`: finitely many keys,
  each of at least one part). The invariant is that of the types; what is proved is about the rows, for
  any keys and open folders. Paths are compared where they first differ (`DiffersAt`), which orders them
  (`BeforeTransitive`, `BeforeTotal`), so that the rows are all the nodes whose folders are open, in that
  order (`DepthFirstOK`). A node that comes between a folder and something in it is in the folder too
  (`BetweenIsInside`) and is deeper, so the nearest row above that is less deep is the folder's
  (`FolderIsAbove`, `ParentIdxOK`).
- `ChangesAreTold`: `ConsoleSpec => []DiffTellsTheChangeHere` (`KeyHistoryAssumption`: values are sequences of
  strings; some context is shown). The invariant beside the types: what the drawer has read is versions of the
  key (`ReadsVersions`). The rest is about the operators, for any two values, by induction over numbers and
  over the cells of the table. `CommonBound`: a cell is at least the length of any common subsequence of what
  the two begin with. `BackTells`: the walk back from a cell tells both beginnings, and keeps as many lines as
  the cell says; one lemma for each kind of line (`TellsSame`, `TellsDel`, `TellsAdd`). `HunksOK`: the hunks
  are the segments, in runs of one kind, since a segment is put to the last one or starts one (`GroupedOK`);
  so what is collapsed is unchanged, and what is shown and what is counted is all of it (`HunkShownOK`). What
  `FlattenSeq` of the library makes of one sequence more is `FlattenAppend`.
- `FiguresAreTold`: `ConsoleSpec => []FiguresTellHere` (`MaintenanceAssumption`: there is a cluster, since
  `Maintenance.tsx` asks for one first; `MetricsAssumption`: finitely many nodes). Of Maintenance
  (`MaintenanceInv`): the samples kept of a database that one endpoint told of and that was not
  defragmented are in the order of their time, within the window, and do not fall, whether a new one is
  added, merged into the last one or shifts others out, and an answer without a size adds none
  (`RecordDBSizeOK`); the card is of the samples there were before the last answer, or of those there are
  (`CardOK`). The slope is a quotient of sums over the samples, by recursion; with each sample more the
  numerator gains a sum of products of times and sizes that is not negative, and positive once a size has
  risen (`SlopeOK`), so the card says that a database grows exactly if it grew. A lease that the page
  heard is gone is in no answer that was read since (`LeasesOK`), and a list that still has it is being
  read anew, or that failed. Of Metrics (`MetricsInv`): the points of each node are in the order of their
  time and end with the sample shown (`PointsOK`, `NowOK`); the entries of a node's log follow one another
  from the count first seen to the last, which is not above the counter, unless the node was started anew
  (`LogOK`); every entry has a row in the merged list, which is built row by row and loses none; and a row
  that its cut leaves out has `MxRows` before it, none of them older (`FirstRowsOK`, by counting the rows
  before each).

**Only model-checked**:

- liveness (`SaveReturns`, `EmitterDrains`, `Recovers`, `CallsEnd`), which the prover does not cover.

Every invariant and every action property that the passing runs check is proved.

## Where code and documents disagree

With a run whose counterexample shows it:

| run | the code | the text |
|---|---|---|
| `three_way_merge_clash` | `threewaymerge.go:87`: overlapping hunks that start apart: the later one is dropped, the merge is clean | `threewaymerge.go:12-14`: "we emit a conflict block" |
| `browser_decoded` | `Browser.tsx:732`: selecting a row leaves `decodedDraft` as it is; saving sends the first object's text under the second one's key | `Browser.tsx:231-232`: "never carry edits for one Pod into the editor for another" |

Met while modelling; the models have the code's behaviour, no run is kept for them:

| the code | the text, or what a user would expect |
|---|---|
| `cmd/kv/cas.go:106`: if the base revision cannot be read, the live value is the base, so the merge is clean and is the client's value | `docs/features/CRDT.md:4-5`: a silent overwrite is "impossible" |
| `threewaymerge.go:99-101`: hunks that are the same on both sides are written without moving `bi` past the lines they replace, which are then written too: base `a c e`, ours `b c e`, theirs `b c f` gives `b a c f` | `threewaymerge.go:96-98`: "we can apply once" |
| `Browser.tsx:278`: a save leaves `draftBaseRev` as it was; the next one conflicts with the first | `ConflictResolver.tsx:101`: "Somebody wrote to this key while you were editing." |
| `Browser.tsx:311` sends `baseRev: 0`, which `cas.go:91-92` guards with `CreateRevision = 0`: it never holds on a key that exists, and the call ends in 503 | `docs/features/CRDT.md:39-41`: the resubmit goes through verbatim |
| `Browser.tsx:293-295`: the draft is not refreshed after a merged save | the comment there says that it is |
| `Browser.tsx:426-431`: New leaves `draftBaseRev` as it is, so a new key is sent with the revision of the key before: if its name exists and was not written since that revision, the draft replaces a value that was never shown, as a clean merge | `Browser.tsx:65`: "0 = new key (no prior revision)" |
| `Browser.tsx:255-273`: the row that `putMut` writes over keeps its old revision; selecting it takes the new value with the old revision | `Browser.tsx:61`: "Snapshot of the modRevision at the moment the user opened the editor" |
| `ConflictResolver.tsx:43-45`: an early return before `useMemo`, so the first conflict changes the number of hooks and React unmounts the application | `docs/features/CRDT.md:39-41` describes the dialog |
| `audit.go:221`: after one failed write, or a compaction that failed half-way, nothing reaches the file any more | `docs/features/AUDIT.md:32-33`: "the JSONL is canonical and survives restarts" |
| `cmd/gateway/main.go:567` asks `isMutation` after the router has rewritten the path | `docs/features/AUDIT.md:3`: "Every write ... lands in the audit log" |
| `lib/stream.ts:182`: the fallback to an event source is taken only if the first connection never opened | `stream.ts:2-3`: "falls back to EventSource if the upgrade fails", which may also happen to a reconnection |
| `security.go:15-33` sends `script-src 'self'`, `frame-ancestors 'none'` and `X-Frame-Options: DENY` with the callback's page too, so the iframe posts nothing and every silent sign-in times out | `silentAuth.ts:1-16`, `api.ts:151-153`: the user is signed in again without seeing the IdP |
| `acl.go:350-382`: a rule for any cluster with a prefix of 91 bytes or more outscores one for the cluster; of equal scores the first counts, and `""` and `"/"` score alike | `acl.go:30-36`, `Permissions.tsx:397`: the rule for the cluster comes first; the matrix shows the highest access of a cell's rules |
| `rbac.go:80-90, 187-203`: a user or role whose own Get fails is listed without roles or permissions | the page shows it as one that has none |
| `RBAC.tsx:29-63`: deleting a role has only the roles read again, so users still show it, and once it is made again it is not offered for a grant they no longer have | |
| `BulkDeletePreview.tsx:25`: the typed word outlives the question, so the next one opens confirmed | `BulkDeletePreview.tsx:1-3`: it echoes the pattern of Confirm, which forgets it |
| `BulkImportDialog.tsx:29-69`: Import sends the file chosen last, while the keys counted are those of the file read last | |
| `Maintenance.tsx:25-30, 54-57`: a lease that was revoked stays listed if the list cannot be read then | |
| `Maintenance.tsx:40-46`: the effect records a size after the card was rendered for it, so the card is one answer behind until something renders the page | |
| `Locks.tsx:240`, `Maintenance.tsx:259` send a lease id: the 64-bit ids (`locks.go:34, 185`) are rounded by `JSON.parse`, so a release can name another lease or none | `Locks.tsx:240`: "Release this lock (revoke the lease)" |
| `rbac.go:56` only enables authentication | `RBAC.tsx:106-109`: "this creates a `root` user" |
| `Metrics.tsx:330-336`: entries are compared as a number with a string, so the same change can be listed twice | `Metrics.tsx:330-331`: "rough dedupe by 5s window + matching to/from" |
| `Browser.tsx:450-500`: the button that saves a view is shown only if there is one | `README.md:404`: saved views, per cluster |
| `Dropdown.tsx:107-119`: arrows and Enter are handled by the menu, while the focus stays on the trigger | `Dropdown.tsx:2-3`: "↑↓ navigates, Enter commits" |
| `Diff.tsx:119-127`: "All keys match" also if only the chosen kind has no entry | `Diff.tsx:125-126`, the line below it |
| `diff.go:102-104`: a prefix that ends in `*` reads that one literal key; `Diff.tsx:52` with nothing chosen asks for a cluster "null" | |
| `Txn.tsx:228-235`: a delete with an empty key and "prefix" ticked deletes the whole keyspace without a question | |

Two limits of the registry are stated as provisos of its properties: two overlapping
`savePersisted` can write the older list last (`cmd/cluster/main.go:62-75`), and discovery replaces
or brings back clusters users have changed (`98-111`).

## What is not modelled

Values are model values: no encoding, size limit or Kubernetes schema. In EtcdKey, revisions made by
other keys are left out, since this code compares revisions for equality with one key's only. The v2
API is a plain put in saves and a kind of client in the pool. In AuditTrail the list's filters and
exports are left out, and what a restart of the store finds is any subset of what was recorded, which
AuditStore narrows. In Registry, which certificate files changed is a choice, and the requests that
use a client while it is closed are not followed. In Console, pages are not left and mounted again: their
state dies with them, what survives (the query cache, stored preferences) is a first state to choose.

Four hazards are listed without a property: peer sync, the alert engine's throttle, and the temporary
file of the rules are not modelled (`peer.go:101`, `alerts.go:187`, `acl.go:194`), and the base revision that
New keeps (`Browser.tsx:429`) is modelled as it is, with nothing in the code that would make it right.

Components without a module: peer sync and the read-only guard, alerts, the rules file and its reload
loop, snapshots, schedules and restore, the supervisor, federation, and of the `kv` service the batches of
bulk operations, previews and the v2 API. Sign-in, the rate limiter and federation are exchanges with
outside parties with little state; discovery sources, object storage, etcdctl and Kubernetes decoding are
I/O or conversion; metrics, tracing and logging have no state the rest depends on. The remaining pages
and components (dashboard, cluster page, heatmap, restore recipe, code editor, palette, tour,
translations) display what services answer, and the demo mode is a mock of them.

## Plan

Done, in this order: EtcdKey, AtomicSave, PutCas and its proofs; BrowserTabs; ThreeWayMerge; AuditLog,
AuditStore, AuditTrail and their proofs; ClusterPool, Registry and its proofs; the web client: StreamClient and
WatchPage, Session, KeyBrowser, the pages of Console, and their proofs. What is left, most important first:

1. **PeerSync**: `kv` and `ops` copying the registry into pools of their own, reusing ClusterPool, with
   the read-only guard. Properties: pools catch up after any failure; a cluster that is read-only by
   environment stays so.
2. **Alerts**: an abstract monitor (the last message says how the cluster is) and the engine with its
   throttle and its goroutine per message.
3. The rules file: memory, file, reload loop; an abstract register that memory and file both follow.
4. **Restore** and **Bulk** (batches that fail half-way), **SnapshotSchedule**, **Supervisor**.
