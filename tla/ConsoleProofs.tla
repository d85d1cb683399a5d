--------------------------- MODULE ConsoleProofs ---------------------------
(***************************************************************************)
(* Nine pages of the console keep their promise for every value of the     *)
(* constants: no access rules are lost to overlapping editors, the views   *)
(* of the rules tell what the gateway makes of them, every result of the   *)
(* terminal stands under its command, the autocomplete shows suggestions   *)
(* for what is in the input, the comparison lists what differs between the *)
(* clusters it names, a yes was meant, a lock has one holder, users and    *)
(* roles are shown as they are, and the tag of a transaction tells what    *)
(* ran. Each page has an inductive invariant of its variables; that it     *)
(* survives ConsoleNext follows, since only the steps of the page change   *)
(* them. The streams are in order, and the watch page lists what it        *)
(* watches, for any number of streams, prefixes, writes and outages.       *)
(***************************************************************************)
EXTENDS Console, WatchPage, SequenceTheorems, WellFoundedInduction, TLAPS

----------------------------------------------------------------------------
(***************************************************************************)
(* Access rules.  Rules that the history has, that it failed to take, or   *)
(* that a request is about to give to it are kept.  A request past its     *)
(* first snapshot replaces rules that are kept, even if another has        *)
(* changed them since: what a save puts is kept when it is written, what a *)
(* restore puts comes from the history.                                    *)
(***************************************************************************)
Kept(rules) ==
  \/ rules \in arHistory \/ rules \in arUnkept
  \/ \E u \in AccessUser: arReq[u].at = "written" /\ arReq[u].rules = rules

WereKept == \A rules \in arWere: rules = arLive \/ Kept(rules)
LiveKept == (\E u \in AccessUser: arReq[u].at = "kept") => Kept(arLive)
UndoKept == \A u \in AccessUser: arReq[u].undo => arReq[u].rules \in arHistory

AccessInv == AccessTypeOK /\ WereKept /\ LiveKept /\ UndoKept

LEMMA AccessInvHolds == AccessInv => NoRulesAreLost
BY DEF AccessInv, WereKept, Kept, NoRulesAreLost

LEMMA AccessInitOK == AccessInit => AccessInv
BY AccessAssumption
DEF AccessInit, AccessInv, AccessTypeOK, WereKept, LiveKept, UndoKept, NoSave

\* Steps of the page that touch neither the server nor a request.
LEMMA AccessStays ==
  ASSUME AccessInv, UNCHANGED <<arServer, arReq, arSent>>, AccessTypeOK'
  PROVE  AccessInv'
BY DEF AccessInv, WereKept, LiveKept, UndoKept, Kept, arServer

LEMMA PageStepsOK ==
  ASSUME AccessInv,
         \/ \E rules \in RuleSet: EditRules(rules) \/ Validated(rules)
         \/ RulesFetched \/ StartEdit \/ CancelEdit \/ Preview \/ BackToEditor
         \/ HistoryButton \/ CloseHistory
  PROVE  AccessInv'
<1>1. AccessTypeOK
  BY DEF AccessInv
<1>2. ASSUME NEW rules \in RuleSet, EditRules(rules) \/ Validated(rules)
      PROVE  AccessInv'
  <2>1. UNCHANGED <<arServer, arReq, arSent>>
    BY <1>2 DEF EditRules, Validated, Turns
  <2>2. AccessTypeOK'
    BY <1>1, <1>2 DEF EditRules, Validated, Turns, AccessTypeOK, arServer
  <2> QED
    BY <2>1, <2>2, AccessStays
<1>3. ASSUME RulesFetched \/ Preview PROVE AccessInv'
  <2>1. UNCHANGED <<arServer, arReq, arSent>>
    BY <1>3 DEF RulesFetched, Preview
  <2>2. AccessTypeOK'
    BY <1>1, <1>3, AccessAssumption DEF RulesFetched, Preview, AccessTypeOK, arServer
  <2> QED
    BY <2>1, <2>2, AccessStays
<1>4. ASSUME StartEdit \/ CancelEdit \/ BackToEditor \/ HistoryButton \/ CloseHistory
      PROVE  AccessInv'
  <2>1. UNCHANGED <<arServer, arReq, arSent>>
    BY <1>4 DEF StartEdit, CancelEdit, BackToEditor, HistoryButton, CloseHistory, Turns
  <2>2. AccessTypeOK'
    BY <1>1, <1>4
    DEF StartEdit, CancelEdit, BackToEditor, HistoryButton, CloseHistory, Turns,
        AccessTypeOK, arServer
  <2> QED
    BY <2>1, <2>2, AccessStays
<1> QED
  BY <1>2, <1>3, <1>4

\* A new request has neither snapshotted nor written, and undoes only to the history.
LEMMA SendOK ==
  ASSUME AccessInv, NEW u \in AccessUser, NEW undo \in BOOLEAN, NEW rules \in RuleSet,
         SendRules(u, undo, rules), UNCHANGED <<arServer, arCache, arPage, arCheck>>
  PROVE  AccessInv'
<1> USE DEF AccessInv, SendRules, arServer
<1>1. AccessTypeOK'
  BY AccessAssumption DEF AccessTypeOK
<1>2. \A v \in AccessUser: v # u => arReq'[v] = arReq[v]
  BY DEF AccessTypeOK
<1>3. arReq'[u] = [at |-> "sent", undo |-> undo, rules |-> rules]
  BY DEF AccessTypeOK
<1>4. \A r: Kept(r) => Kept(r)'
  BY <1>2 DEF Kept
<1>5. (WereKept /\ LiveKept)'
  BY <1>2, <1>3, <1>4 DEF WereKept, LiveKept
<1>6. UndoKept'
  BY <1>2, <1>3 DEF UndoKept
<1> QED
  BY <1>1, <1>5, <1>6

\* An answered request leaves nothing behind.
LEMMA AnswerOK ==
  ASSUME AccessInv, OtherAnswered \/ PageAnswered
  PROVE  AccessInv'
<1> USE DEF AccessInv, OtherAnswered, PageAnswered, arServer
<1>1. PICK u \in AccessUser: /\ arReq[u].at \in {"ok", "error"}
                             /\ arReq' = [arReq EXCEPT ![u] = NoSave]
  BY DEF AccessUser
<1>2. AccessTypeOK'
  <2>1. NoSave \in [at: {"idle", "sent", "allowed", "kept", "written", "ok", "error"},
                    undo: BOOLEAN, rules: RuleSet]
    BY AccessAssumption DEF NoSave
  <2>2. arPage' \in [editing: BOOLEAN, previewing: BOOLEAN, drawer: BOOLEAN, draft: RuleSet]
    BY DEF AccessTypeOK
  <2> QED
    BY <1>1, <2>1, <2>2 DEF AccessTypeOK
<1>3. \A v \in AccessUser: v # u => arReq'[v] = arReq[v]
  BY <1>1 DEF AccessTypeOK
<1>4. arReq'[u].at = "idle" /\ arReq'[u].undo = FALSE
  BY <1>1 DEF AccessTypeOK, NoSave
<1>5. \A r: Kept(r) => Kept(r)'
  BY <1>1, <1>3 DEF Kept
<1>6. (WereKept /\ LiveKept)'
  BY <1>3, <1>4, <1>5 DEF WereKept, LiveKept
<1>7. UndoKept'
  BY <1>3, <1>4 DEF UndoKept
<1> QED
  BY <1>2, <1>6, <1>7

\* What a step of a handler does to its request.
LEMMA ReachOK ==
  ASSUME AccessInv, NEW u \in AccessUser, NEW at, Reaches(u, at)
  PROVE  /\ \A v \in AccessUser: v # u => arReq'[v] = arReq[v]
         /\ arReq'[u].at = at
         /\ arReq'[u].undo = arReq[u].undo /\ arReq'[u].rules = arReq[u].rules
BY DEF AccessInv, AccessTypeOK, Reaches

LEMMA ServerStepsOK ==
  ASSUME AccessInv, NEW u \in AccessUser,
         MayEdit(u) \/ SnapshotBefore(u) \/ SaveRules(u) \/ SnapshotAfter(u)
  PROVE  AccessInv'
<1> USE DEF AccessInv
<1>1. CASE MayEdit(u)
  <2>1. PICK at \in {"allowed", "error"}: Reaches(u, at)
    BY <1>1 DEF MayEdit
  <2>2. AccessTypeOK'
    BY <1>1, <2>1 DEF MayEdit, AccessTypeOK, Reaches, arServer
  <2>3. \A r: Kept(r) => Kept(r)'
    BY <1>1, <2>1, ReachOK DEF Kept, MayEdit, arServer
  <2>4. (WereKept /\ LiveKept)'
    BY <1>1, <2>1, <2>3, ReachOK DEF WereKept, LiveKept, MayEdit, arServer
  <2>5. UndoKept'
    BY <1>1, <2>1, ReachOK DEF UndoKept, MayEdit, arServer
  <2> QED
    BY <2>2, <2>4, <2>5
<1>2. CASE SnapshotBefore(u)
  <2>1. AccessTypeOK'
    BY <1>2, AccessAssumption
    DEF SnapshotBefore, SnapshotHistory, AccessTypeOK, Reaches
  <2>2. \A r: Kept(r) => Kept(r)'
    BY <1>2, ReachOK DEF Kept, SnapshotBefore, SnapshotHistory
  <2>3. Kept(arLive)'
    BY <1>2 DEF Kept, SnapshotBefore, SnapshotHistory
  <2>4. (WereKept /\ LiveKept)'
    BY <1>2, <2>2, <2>3 DEF WereKept, LiveKept, SnapshotBefore, SnapshotHistory
  <2>5. UndoKept'
    BY <1>2, ReachOK DEF UndoKept, SnapshotBefore, SnapshotHistory
  <2> QED
    BY <2>1, <2>4, <2>5
<1>3. CASE SaveRules(u)
  <2>1. AccessTypeOK'
    BY <1>3 DEF SaveRules, AccessTypeOK, Reaches
  <2>2. PICK at \in {"ok", "written", "error"}: Reaches(u, at)
    BY <1>3 DEF SaveRules
  <2>3. \A r: Kept(r) => Kept(r)'
    BY <1>3, <2>2, ReachOK DEF Kept, SaveRules
  <2>4. UndoKept'
    BY <1>3, <2>2, ReachOK DEF UndoKept, SaveRules
  <2>5. Kept(arLive)
    BY <1>3 DEF LiveKept, SaveRules
  <2>6. arLive' = arLive \/ Kept(arLive)'
    <3>1. CASE at = "error" /\ arLive' = arLive
      BY <3>1
    <3>2. CASE arReq[u].undo /\ arLive' = arReq[u].rules
      BY <1>3, <3>2 DEF UndoKept, Kept, SaveRules
    <3>3. CASE Reaches(u, "written") /\ arLive' = arReq[u].rules
      BY <3>3, ReachOK DEF Kept
    <3> QED
      BY <1>3, <2>2, <3>1, <3>2, <3>3 DEF SaveRules
  <2>7. LiveKept'
    BY <2>3, <2>5, <2>6 DEF LiveKept
  <2>8. WereKept'
    BY <1>3, <2>3, <2>5 DEF WereKept, SaveRules
  <2> QED
    BY <2>1, <2>4, <2>7, <2>8
<1>4. CASE SnapshotAfter(u)
  <2>1. AccessTypeOK'
    BY <1>4 DEF SnapshotAfter, SnapshotHistory, AccessTypeOK, Reaches
  <2>2. \A r: Kept(r) => Kept(r)'
    BY <1>4, ReachOK DEF Kept, SnapshotAfter, SnapshotHistory
  <2>3. (WereKept /\ LiveKept)'
    BY <1>4, <2>2, ReachOK DEF WereKept, LiveKept, SnapshotAfter, SnapshotHistory
  <2>4. UndoKept'
    BY <1>4, ReachOK DEF UndoKept, SnapshotAfter, SnapshotHistory
  <2> QED
    BY <2>1, <2>3, <2>4
<1> QED
  BY <1>1, <1>2, <1>3, <1>4

LEMMA AccessNextOK == AccessInv /\ AccessNext => AccessInv'
<1> SUFFICES ASSUME AccessInv, AccessNext PROVE AccessInv'
  OBVIOUS
<1>1. ASSUME NEW rules \in RuleSet,
             RestoreSnapshot(rules) \/ \E undo \in BOOLEAN: OtherSends(undo, rules)
      PROVE  AccessInv'
  BY <1>1, SendOK DEF RestoreSnapshot, OtherSends, AccessUser
<1>2. ASSUME SaveDraft PROVE AccessInv'
  <2>1. arPage.draft \in RuleSet
    BY DEF AccessInv, AccessTypeOK
  <2> QED
    BY <1>2, <2>1, SendOK DEF SaveDraft, AccessUser
<1> QED
  BY <1>1, <1>2, ServerStepsOK, PageStepsOK, AnswerOK DEF AccessNext

\* The other pages leave the variables of this one alone.
LEMMA AccessInConsole ==
  ASSUME AccessInv, [ConsoleNext]_consoleVars, route = "permissions"
  PROVE  AccessInv'
<1>1. CASE AccessNext
  BY <1>1, AccessNextOK
<1>2. CASE UNCHANGED arVars
  BY <1>2
  DEF arVars, arServer, AccessInv, AccessTypeOK, WereKept, LiveKept, UndoKept, Kept
<1>3. AccessNext \/ UNCHANGED arVars
  BY DEF ConsoleNext, KeyPages, OtherPages, FormPages, Cards, Widgets, consoleVars
<1> QED
  BY <1>1, <1>2, <1>3

LEMMA RouteStays == [ConsoleNext]_consoleVars => route' = route
BY DEF ConsoleNext, KeyPages, OtherPages, FormPages, Cards, Widgets, consoleVars

\* However saves and restores of two editors overlap, rules that were in force can
\* be restored, as long as no snapshot of them failed.
THEOREM NoRulesLost == ConsoleSpec => []NoRulesAreLostHere
<1> DEFINE Inv == route = "permissions" => AccessInv
<1>1. ConsoleInit => Inv
  BY AccessInitOK DEF ConsoleInit
<1>2. Inv /\ [ConsoleNext]_consoleVars => Inv'
  BY AccessInConsole, RouteStays
<1>3. Inv => NoRulesAreLostHere
  BY AccessInvHolds DEF NoRulesAreLostHere, AccessInv
<1> QED
  BY <1>1, <1>2, <1>3, PTL DEF ConsoleSpec
----------------------------------------------------------------------------
(***************************************************************************)
(* The terminal.  Ids are given in order, so that a new entry has the id   *)
(* of no other, and the command that runs that of its entry only.          *)
(***************************************************************************)
Entry(n) == [id: 1..n, cmd: Cmd, pending: BOOLEAN]

TerminalInv ==
  /\ TerminalTypeOK
  /\ tmEntries \in Seq(Entry(tmCount)) /\ Len(tmEntries) <= tmCount
  /\ ResultsFindTheirEntry

\* An empty scrollback.
LEMMA EmptyOK == \A n: <<>> \in Seq(Entry(n)) /\ Len(<<>>) = 0 /\ DOMAIN <<>> = {}
<1>1. TAKE n
<1>2. <<>> \in Seq(Entry(n)) /\ Len(<<>>) = 0
  OBVIOUS
<1>3. DOMAIN <<>> = 1..Len(<<>>)
  OBVIOUS
<1>4. DOMAIN <<>> = {}
  BY <1>3, <1>2
<1> QED
  BY <1>2, <1>4

LEMMA TerminalInitOK == TerminalInit => TerminalInv
BY TerminalAssumption, EmptyOK
DEF TerminalInit, TerminalInv, TerminalTypeOK, ResultsFindTheirEntry, Entry

\* f is entries with the entry of this id, and no other, ended.
Ended(f, id, n, entries) ==
  /\ f \in Seq(Entry(n)) /\ Len(f) = Len(entries)
  /\ \A i \in 1..Len(entries):
       /\ f[i].id = entries[i].id
       /\ f[i].pending <=> entries[i].pending /\ entries[i].id # id

\* That is what Finish makes of them.
LEMMA FinishOK ==
  \A n \in Nat: \A id: \A entries \in Seq(Entry(n)): Ended(Finish(id, entries), id, n, entries)
<1> SUFFICES ASSUME NEW n \in Nat, NEW id, NEW entries \in Seq(Entry(n))
             PROVE  Ended(Finish(id, entries), id, n, entries)
  OBVIOUS
<1> DEFINE end(e) == IF e.id = id THEN [e EXCEPT !.pending = FALSE] ELSE e
           f == Finish(id, entries)
<1>1. f = [i \in 1..Len(entries) |-> end(entries[i])]
  BY DEF Finish
<1>2. ASSUME NEW e \in Entry(n)
      PROVE  /\ end(e) \in Entry(n) /\ end(e).id = e.id
             /\ end(e).pending <=> e.pending /\ e.id # id
  BY DEF Entry
<1>3. \A i \in 1..Len(entries): entries[i] \in Entry(n)
  OBVIOUS
<1> HIDE DEF end
<1>4. f \in Seq(Entry(n)) /\ Len(f) = Len(entries)
  <2>1. f \in [1..Len(entries) -> Entry(n)]
    BY <1>1, <1>2, <1>3
  <2> QED
    BY <2>1
<1>5. \A i \in 1..Len(entries): f[i] = end(entries[i])
  BY <1>1
<1> QED
  BY <1>2, <1>3, <1>4, <1>5 DEF Ended

\* What the invariant says of each entry...
LEMMA EntriesOK ==
  ASSUME TerminalInv
  PROVE  /\ tmCount \in Nat /\ DOMAIN tmEntries = 1..Len(tmEntries)
         /\ \A i \in 1..Len(tmEntries):
              /\ tmEntries[i] \in Entry(tmCount)
              /\ tmEntries[i].id \in 1..tmCount
              /\ tmEntries[i].pending <=> tmEntries[i].id = tmRun
<1>1. tmCount \in Nat /\ DOMAIN tmEntries = 1..Len(tmEntries)
  BY TerminalAssumption DEF TerminalInv, TerminalTypeOK
<1>2. \A i \in 1..Len(tmEntries): tmEntries[i] \in Entry(tmCount)
  BY DEF TerminalInv
<1>3. \A e \in Entry(tmCount): e.id \in 1..tmCount
  BY DEF Entry
<1> QED
  BY <1>1, <1>2, <1>3 DEF TerminalInv, ResultsFindTheirEntry

\* ... and what a step has to show of them.
LEMMA EntriesBack ==
  ASSUME tmCount' \in 0..MaxEntries, tmRun' \in 0..tmCount',
         tmEntries' \in Seq(Entry(tmCount')), Len(tmEntries') <= tmCount',
         tmInput' \in Cmd \cup {Blank}, tmIdx' \in -1..MaxEntries,
         \A i \in 1..Len(tmEntries'): tmEntries'[i].pending <=> tmEntries'[i].id = tmRun'
  PROVE  TerminalInv'
<1>1. DOMAIN tmEntries' = 1..Len(tmEntries')
  OBVIOUS
<1>2. \A i \in 1..Len(tmEntries'): tmEntries'[i] \in Entry(tmCount')
  OBVIOUS
<1> QED
  BY <1>1, <1>2 DEF TerminalInv, TerminalTypeOK, ResultsFindTheirEntry, Entry

\* A command that is sent is the only one that runs; help and clear end at once.
LEMMA SubmitOK == TerminalInv /\ SubmitCmd => TerminalInv'
<1> SUFFICES ASSUME TerminalInv, SubmitCmd PROVE TerminalInv'
  OBVIOUS
<1> DEFINE id == tmCount + 1
           entry == [id |-> id, cmd |-> tmInput, pending |-> TRUE]
           more == Append(tmEntries, entry)
<1>1. /\ tmRun = 0 /\ tmInput \in Cmd /\ tmCount < MaxEntries
      /\ tmCount' = id /\ tmInput' = Blank /\ tmIdx' = -1
      /\ tmCount \in Nat /\ MaxEntries \in Nat
  BY TerminalAssumption DEF TerminalInv, TerminalTypeOK, SubmitCmd
<1>2. /\ more \in Seq(Entry(id)) /\ Len(more) = Len(tmEntries) + 1
      /\ \A i \in 1..Len(tmEntries): more[i] = tmEntries[i]
      /\ more[Len(tmEntries) + 1] = entry
  <2>1. \A e \in Entry(tmCount): e \in Entry(id)
    BY <1>1 DEF Entry
  <2>2. entry \in Entry(id)
    BY <1>1 DEF Entry
  <2>3. tmEntries \in Seq(Entry(id))
    <3>1. \A i \in 1..Len(tmEntries): tmEntries[i] \in Entry(id)
      BY <2>1, EntriesOK
    <3> QED
      BY <3>1 DEF TerminalInv
  <2> HIDE DEF entry
  <2> QED
    BY <2>2, <2>3
<1>3. \A i \in 1..Len(more): more[i].pending <=> more[i].id = id
  BY <1>1, <1>2, EntriesOK
<1>4. Len(more) <= id
  BY <1>1, <1>2 DEF TerminalInv
<1> HIDE DEF more
<1>5. CASE tmEntries' = Finish(id, more) /\ UNCHANGED tmRun
  <2>1. /\ tmEntries' \in Seq(Entry(id)) /\ Len(tmEntries') = Len(more)
        /\ \A i \in 1..Len(more):
             /\ tmEntries'[i].id = more[i].id
             /\ tmEntries'[i].pending <=> more[i].pending /\ more[i].id # id
    <3>1. id \in Nat
      BY <1>1
    <3>2. Ended(Finish(id, more), id, id, more)
      BY <1>2, <3>1, FinishOK
    <3> QED
      BY <1>5, <3>2 DEF Ended
  <2>2. \A i \in 1..Len(tmEntries'): tmEntries'[i].id # 0
    BY <1>1, <1>2, <2>1, EntriesOK
  <2>3. \A i \in 1..Len(tmEntries'): tmEntries'[i].pending <=> tmEntries'[i].id = tmRun'
    BY <1>1, <1>3, <1>5, <2>1, <2>2
  <2> QED
    BY <1>1, <1>4, <1>5, <2>1, <2>3, EntriesBack
<1>6. CASE tmEntries' = <<>> /\ UNCHANGED tmRun
  <2>1. tmRun' \in 0..tmCount' /\ tmCount' \in 0..MaxEntries
    BY <1>1, <1>6
  <2>2. tmInput' \in Cmd \cup {Blank} /\ tmIdx' \in -1..MaxEntries
    BY <1>1
  <2>3. Len(tmEntries') <= tmCount' /\ tmEntries' \in Seq(Entry(tmCount'))
    BY <1>1, <1>6, EmptyOK
  <2>4. \A i \in 1..Len(tmEntries'): tmEntries'[i].pending <=> tmEntries'[i].id = tmRun'
    BY <1>6, EmptyOK
  <2> QED
    BY <2>1, <2>2, <2>3, <2>4, EntriesBack
<1>7. CASE tmEntries' = more /\ tmRun' = id
  BY <1>1, <1>2, <1>3, <1>4, <1>7, EntriesBack
<1> QED
  BY <1>5, <1>6, <1>7 DEF SubmitCmd, more

\* A result ends the command that ran.
LEMMA CmdEndsOK == TerminalInv /\ CmdEnds => TerminalInv'
<1> SUFFICES ASSUME TerminalInv, CmdEnds PROVE TerminalInv'
  OBVIOUS
<1>1. /\ tmEntries' \in Seq(Entry(tmCount)) /\ Len(tmEntries') = Len(tmEntries)
      /\ \A i \in 1..Len(tmEntries):
           /\ tmEntries'[i].id = tmEntries[i].id
           /\ tmEntries'[i].pending <=> tmEntries[i].pending /\ tmEntries[i].id # tmRun
  <2>1. tmCount \in Nat /\ tmEntries \in Seq(Entry(tmCount))
    BY EntriesOK DEF TerminalInv
  <2>2. tmEntries' = Finish(tmRun, tmEntries)
    BY DEF CmdEnds
  <2>3. Ended(Finish(tmRun, tmEntries), tmRun, tmCount, tmEntries)
    BY <2>1, FinishOK
  <2> QED
    BY <2>2, <2>3 DEF Ended
<1>2. \A i \in 1..Len(tmEntries'): tmEntries'[i].pending <=> tmEntries'[i].id = 0
  BY <1>1, EntriesOK
<1>3. tmRun' = 0 /\ UNCHANGED <<tmInput, tmIdx, tmCount>>
  BY DEF CmdEnds
<1>4. /\ tmCount \in 0..MaxEntries /\ 0 \in 0..tmCount /\ Len(tmEntries) <= tmCount
      /\ tmInput \in Cmd \cup {Blank} /\ tmIdx \in -1..MaxEntries
  BY TerminalAssumption DEF TerminalInv, TerminalTypeOK
<1> QED
  BY <1>1, <1>2, <1>3, <1>4, EntriesBack

\* What the history recalls is a command or nothing.
LEMMA RecalledOK ==
  ASSUME TerminalInv, NEW n \in Int PROVE Recalled(n) \in Cmd \cup {Blank}
<1>1. \A e \in Entry(tmCount): e.cmd \in Cmd
  BY DEF Entry
<1> QED
  BY <1>1, EntriesOK DEF Recalled

\* Steps that change neither the commands nor their results.
LEMMA PromptOK ==
  ASSUME TerminalInv,
         \/ \E c \in Cmd: Suggestion(c)
         \/ RecallUp \/ RecallDown \/ ClearScrollback
  PROVE  TerminalInv'
<1>1. tmInput' \in Cmd \cup {Blank} /\ tmIdx' \in -1..MaxEntries
  <2>1. CASE (\E c \in Cmd: Suggestion(c)) \/ ClearScrollback
    BY <2>1 DEF Suggestion, ClearScrollback, TerminalInv, TerminalTypeOK
  <2>2. CASE RecallUp
    <3> DEFINE n == IF tmIdx + 1 < Len(tmEntries) THEN tmIdx + 1 ELSE Len(tmEntries) - 1
    <3>1. /\ tmIdx \in -1..MaxEntries /\ MaxEntries \in Nat /\ tmCount <= MaxEntries
          /\ tmCount \in Nat /\ Len(tmEntries) \in Nat /\ Len(tmEntries) <= tmCount
      BY TerminalAssumption DEF TerminalInv, TerminalTypeOK
    <3>2. n \in -1..MaxEntries
      BY <3>1
    <3>3. tmIdx' = n /\ tmInput' = Recalled(n)
      BY <2>2 DEF RecallUp
    <3> HIDE DEF n
    <3> QED
      BY <3>2, <3>3, RecalledOK
  <2>3. CASE RecallDown
    <3>1. tmIdx \in -1..MaxEntries /\ MaxEntries \in Nat
      BY TerminalAssumption DEF TerminalInv, TerminalTypeOK
    <3>2. CASE tmIdx < 1
      BY <2>3, <3>1, <3>2 DEF RecallDown
    <3>3. CASE ~(tmIdx < 1)
      <4>1. tmIdx' = tmIdx - 1 /\ tmInput' = Recalled(tmIdx - 1)
        BY <2>3, <3>3 DEF RecallDown
      <4> QED
        BY <3>1, <3>3, <4>1, RecalledOK
    <3> QED
      BY <3>2, <3>3
  <2> QED
    BY <2>1, <2>2, <2>3
<1>2. UNCHANGED <<tmRun, tmCount>> /\ (UNCHANGED tmEntries \/ tmEntries' = <<>>)
  BY DEF Suggestion, RecallUp, RecallDown, ClearScrollback
<1>3. /\ tmCount \in 0..MaxEntries /\ tmRun \in 0..tmCount /\ tmCount \in Nat
      /\ tmEntries \in Seq(Entry(tmCount)) /\ Len(tmEntries) <= tmCount
  BY TerminalAssumption DEF TerminalInv, TerminalTypeOK
<1>4. CASE UNCHANGED tmEntries
  BY <1>1, <1>2, <1>3, <1>4, EntriesOK, EntriesBack
<1>5. CASE tmEntries' = <<>>
  BY <1>1, <1>2, <1>3, <1>5, EmptyOK, EntriesBack
<1> QED
  BY <1>2, <1>4, <1>5

LEMMA TerminalInConsole ==
  ASSUME TerminalInv, [ConsoleNext]_consoleVars, route = "terminal"
  PROVE  TerminalInv'
<1>1. CASE TerminalNext
  BY <1>1, SubmitOK, CmdEndsOK, PromptOK DEF TerminalNext
<1>2. CASE UNCHANGED tmVars
  BY <1>2 DEF tmVars, TerminalInv, TerminalTypeOK, ResultsFindTheirEntry
<1>3. TerminalNext \/ UNCHANGED tmVars
  BY DEF ConsoleNext, KeyPages, OtherPages, FormPages, Cards, Widgets, consoleVars
<1> QED
  BY <1>1, <1>2, <1>3

\* Whatever is cleared, suggested or recalled while a command runs, the result
\* stands at its own entry, and no entry waits for a result that has come.
THEOREM ResultsFound == ConsoleSpec => []ResultsFindTheirEntryHere
<1> DEFINE Inv == route = "terminal" => TerminalInv
<1>1. ConsoleInit => Inv
  BY TerminalInitOK DEF ConsoleInit
<1>2. Inv /\ [ConsoleNext]_consoleVars => Inv'
  BY TerminalInConsole, RouteStays
<1>3. Inv => ResultsFindTheirEntryHere
  BY DEF ResultsFindTheirEntryHere, TerminalInv
<1> QED
  BY <1>1, <1>2, <1>3, PTL DEF ConsoleSpec

----------------------------------------------------------------------------
(***************************************************************************)
(* The autocomplete.  While the list is open, an answer to the last        *)
(* question is one to what is in the input, whenever it comes.             *)
(***************************************************************************)
LastAsked ==
  acOpen => \A f \in acFlights: f.seq = acSeq => f.value = acValue /\ f.pages = acPages

SuggestionsInv ==
  /\ SuggestionsTypeOK /\ acItems \in Seq(Input)
  /\ acTimer => acSeq > 0
  /\ LastAsked /\ SuggestionsFit

LEMMA SuggestionsInitOK == SuggestionsInit => SuggestionsInv
<1> SUFFICES ASSUME SuggestionsInit PROVE SuggestionsInv
  OBVIOUS
<1>1. /\ acValue \in Input /\ acPages = 1 /\ acCursor = -1 /\ acItems = <<>>
      /\ acSeq = 0 /\ acFlights = {}
  BY Zenon DEF SuggestionsInit
<1>2. acOpen = FALSE /\ acLoading = FALSE /\ acTimer = FALSE
  BY Zenon DEF SuggestionsInit
<1>3. PageSize \in Nat \ {0} /\ MaxPages \in Nat \ {0} /\ MaxSeq \in Nat \ {0}
  BY SuggestionsAssumption
<1>4. -1 \in -1..(PageSize * MaxPages - 1)
  <2>1. PageSize * MaxPages \in Nat
    BY <1>3
  <2> QED
    BY <2>1
<1>5. acItems \in Seq(Input) /\ \A i \in DOMAIN acItems: acItems[i] \in Input
  <2>1. acItems \in Seq(Input) /\ Len(acItems) = 0
    BY <1>1
  <2> QED
    BY <2>1
<1>6. acPages \in 1..MaxPages /\ acSeq \in 0..MaxSeq
  BY <1>1, <1>3
<1>7. SuggestionsTypeOK
  BY <1>1, <1>2, <1>4, <1>5, <1>6 DEF SuggestionsTypeOK
<1> QED
  BY <1>2, <1>5, <1>7 DEF SuggestionsInv, LastAsked, SuggestionsFit

\* What Upto takes of a sequence is one, of no more than it says.
LEMMA UptoOK ==
  ASSUME NEW s \in Seq(Input), NEW n \in Nat
  PROVE  Upto(s, n) \in Seq(Input) /\ Len(Upto(s, n)) \in 0..n
<1>1. Len(s) \in Nat
  OBVIOUS
<1>2. CASE n < Len(s)
  <2>1. SubSeq(s, 1, n) \in Seq(Input) /\ Len(SubSeq(s, 1, n)) = n
    BY <1>1, <1>2
  <2> QED
    BY <1>2, <2>1 DEF Upto
<1>3. CASE ~(n < Len(s))
  <2>1. SubSeq(s, 1, Len(s)) \in Seq(Input) /\ Len(SubSeq(s, 1, Len(s))) = Len(s)
    BY <1>1
  <2> QED
    BY <1>1, <1>3, <2>1 DEF Upto
<1> QED
  BY <1>2, <1>3

LEMMA VisibleOK ==
  ASSUME SuggestionsInv
  PROVE  /\ Visible \in Seq(Input) /\ Len(Visible) \in 0..(PageSize * MaxPages)
         /\ PageSize * MaxPages \in Nat
<1>1. /\ PageSize \in Nat \ {0} /\ MaxPages \in Nat \ {0}
      /\ acPages \in 1..MaxPages /\ acItems \in Seq(Input)
  BY SuggestionsAssumption DEF SuggestionsInv, SuggestionsTypeOK
<1>2. acPages * PageSize \in Nat /\ PageSize * MaxPages \in Nat
  BY <1>1
<1>3. acPages * PageSize <= PageSize * MaxPages
  BY <1>1
<1>4. Upto(acItems, acPages * PageSize) \in Seq(Input)
      /\ Len(Upto(acItems, acPages * PageSize)) \in 0..(acPages * PageSize)
  BY <1>1, <1>2, UptoOK
<1> QED
  BY <1>2, <1>3, <1>4 DEF Visible

\* Whatever changes what is in the input, or opens the list, asks a new question.
LEMMA EffectOK ==
  ASSUME SuggestionsInv, UNCHANGED <<acItems, acFlights>>,
         acValue' \in Input, acOpen' \in BOOLEAN, acPages' \in 1..MaxPages,
         acCursor' \in -1..(PageSize * MaxPages - 1),
         EffectIfChanged \/ Effect
  PROVE  SuggestionsInv'
<1>1. /\ acSeq \in 0..MaxSeq /\ acLoading \in BOOLEAN /\ acTimer \in BOOLEAN
      /\ acFlights \subseteq [seq: 1..acSeq, value: Input, pages: 1..MaxPages]
      /\ acItems \in Seq(Input) /\ \A i \in DOMAIN acItems: acItems[i] \in Input
      /\ MaxSeq \in Nat
  BY SuggestionsAssumption DEF SuggestionsInv, SuggestionsTypeOK
<1>2. CASE /\ UNCHANGED <<acOpen, acValue, acPages>>
           /\ UNCHANGED <<acSeq, acLoading, acTimer>>
  BY <1>1, <1>2
  DEF SuggestionsInv, SuggestionsTypeOK, LastAsked, SuggestionsFit, Answer
<1>3. CASE /\ acOpen' /\ acSeq < MaxSeq
           /\ acSeq' = acSeq + 1 /\ acLoading' = TRUE /\ acTimer' = TRUE
  <2>1. acSeq' \in 0..MaxSeq /\ acSeq' > 0
    BY <1>1, <1>3
  <2>2. acFlights' \subseteq [seq: 1..acSeq', value: Input, pages: 1..MaxPages]
    <3>1. 1..acSeq \subseteq 1..acSeq'
      BY <1>1, <1>3
    <3> QED
      BY <1>1, <3>1
  <2>3. \A f \in acFlights': f.seq # acSeq'
    BY <1>1, <1>3
  <2>4. LastAsked' /\ SuggestionsFit'
    BY <1>3, <2>3 DEF LastAsked, SuggestionsFit
  <2> QED
    BY <1>1, <1>3, <2>1, <2>2, <2>4 DEF SuggestionsInv, SuggestionsTypeOK
<1>4. CASE /\ ~acOpen' /\ acTimer' = FALSE /\ UNCHANGED <<acSeq, acLoading>>
  BY <1>1, <1>4 DEF SuggestionsInv, SuggestionsTypeOK, LastAsked, SuggestionsFit
<1> QED
  BY <1>2, <1>3, <1>4 DEF EffectIfChanged, Effect

\* Typing, opening, closing, more, and taking a suggestion.
LEMMA InputOK ==
  ASSUME SuggestionsInv,
         \/ \E v \in Input: Typed(v)
         \/ Focused \/ Rerendered \/ ArrowDown \/ Tab \/ Close \/ LoadMore
         \/ \E i \in DOMAIN Visible: Commit(i)
  PROVE  SuggestionsInv'
<1>1. /\ acValue \in Input /\ acOpen \in BOOLEAN /\ acPages \in 1..MaxPages
      /\ acCursor \in -1..(PageSize * MaxPages - 1) /\ MaxPages \in Nat
  BY SuggestionsAssumption DEF SuggestionsInv, SuggestionsTypeOK
<1>2. /\ Visible \in Seq(Input) /\ Len(Visible) \in 0..(PageSize * MaxPages)
      /\ PageSize * MaxPages \in Nat /\ 1 \in 1..MaxPages
  BY VisibleOK, <1>1
<1>3. \A i \in DOMAIN Visible: Visible[i] \in Input
  BY <1>2
<1>4. UNCHANGED <<acItems, acFlights>>
  BY DEF Typed, Focused, Rerendered, ArrowDown, Tab, Close, LoadMore, Commit
<1>5. EffectIfChanged \/ Effect
  BY DEF Typed, Focused, Rerendered, ArrowDown, Tab, Close, LoadMore, Commit
<1>6. CASE \E v \in Input: Typed(v)
  BY <1>1, <1>2, <1>4, <1>5, <1>6, EffectOK DEF Typed
<1>7. CASE Focused \/ Rerendered \/ Close
  BY <1>1, <1>4, <1>5, <1>7, EffectOK DEF Focused, Rerendered, Close
<1>8. CASE LoadMore
  <2>1. acPages' \in 1..MaxPages
    BY <1>1, <1>8 DEF LoadMore, HasMore
  <2>2. UNCHANGED <<acValue, acOpen, acCursor>>
    BY <1>8 DEF LoadMore
  <2> QED
    BY <1>1, <1>4, <1>5, <2>1, <2>2, EffectOK
<1>9. CASE ArrowDown
  <2>1. acCursor' \in -1..(PageSize * MaxPages - 1)
    <3> DEFINE n == Len(Visible)
    <3>1. acCursor' = IF n - 1 < acCursor + 1 THEN n - 1 ELSE acCursor + 1
      BY <1>9 DEF ArrowDown
    <3>2. n \in 0..(PageSize * MaxPages)
      BY <1>2
    <3> HIDE DEF n
    <3> QED
      BY <1>1, <1>2, <3>1, <3>2
  <2>2. UNCHANGED <<acValue, acPages>> /\ acOpen' = TRUE
    BY <1>9 DEF ArrowDown
  <2> QED
    BY <1>1, <1>4, <1>5, <2>1, <2>2, EffectOK
<1>10. CASE Tab
  <2> DEFINE i == IF acCursor >= 0 THEN acCursor + 1 ELSE 1
  <2>1. i <= Len(Visible) /\ acValue' = Visible[i] /\ UNCHANGED <<acOpen, acPages, acCursor>>
    BY <1>10 DEF Tab
  <2>2. i \in DOMAIN Visible
    BY <1>1, <1>2, <2>1
  <2>3. acValue' \in Input
    BY <1>3, <2>1, <2>2
  <2> QED
    BY <1>1, <1>4, <1>5, <2>1, <2>3, EffectOK
<1>11. CASE \E i \in DOMAIN Visible: Commit(i)
  <2>1. acValue' \in Input /\ acOpen' = FALSE /\ UNCHANGED <<acPages, acCursor>>
    BY <1>3, <1>11 DEF Commit
  <2> QED
    BY <1>1, <1>4, <1>5, <2>1, EffectOK
<1> QED
  BY <1>6, <1>7, <1>8, <1>9, <1>10, <1>11

\* The cursor moves.
LEMMA CursorOK ==
  ASSUME SuggestionsInv, acCursor' \in -1..(PageSize * MaxPages - 1),
         UNCHANGED <<acValue, acOpen, acPages, acItems, acLoading, acSeq, acTimer, acFlights>>
  PROVE  SuggestionsInv'
BY DEF SuggestionsInv, SuggestionsTypeOK, LastAsked, SuggestionsFit, Answer

LEMMA DebouncedOK == SuggestionsInv /\ Debounced => SuggestionsInv'
<1> SUFFICES ASSUME SuggestionsInv, Debounced PROVE SuggestionsInv'
  OBVIOUS
<1> DEFINE f == [seq |-> acSeq, value |-> acValue, pages |-> acPages]
<1>1. /\ acTimer /\ acTimer' = FALSE /\ acFlights' = acFlights \cup {f}
      /\ UNCHANGED <<acValue, acOpen, acPages, acCursor, acItems, acLoading, acSeq>>
  BY DEF Debounced
<1>2. /\ acSeq \in 0..MaxSeq /\ MaxSeq \in Nat /\ acSeq > 0
      /\ acValue \in Input /\ acPages \in 1..MaxPages
      /\ acFlights \subseteq [seq: 1..acSeq, value: Input, pages: 1..MaxPages]
  BY <1>1, SuggestionsAssumption DEF SuggestionsInv, SuggestionsTypeOK
<1>3. f \in [seq: 1..acSeq, value: Input, pages: 1..MaxPages]
  BY <1>2
<1>4. LastAsked'
  BY <1>1 DEF SuggestionsInv, LastAsked
<1>5. SuggestionsTypeOK'
  BY <1>1, <1>2, <1>3 DEF SuggestionsInv, SuggestionsTypeOK
<1> QED
  BY <1>1, <1>4, <1>5 DEF SuggestionsInv, SuggestionsFit, Answer

LEMMA AnsweredFits == ASSUME SuggestionsInv, NEW f \in acFlights, Answered(f) PROVE SuggestionsInv'
<1>1. /\ f.seq \in 1..acSeq /\ f.value \in Input /\ f.pages \in 1..MaxPages
      /\ PageSize \in Nat \ {0} /\ MaxPages \in Nat \ {0} /\ MaxSeq \in Nat \ {0}
      /\ Completions[f.value] \in Seq(Input)
  BY SuggestionsAssumption DEF SuggestionsInv, SuggestionsTypeOK
<1>2. Answer(f.value, f.pages) \in Seq(Input)
  <2>1. f.pages * PageSize + 1 \in Nat
    BY <1>1
  <2> QED
    BY <1>1, <2>1, UptoOK DEF Answer
<1>3. /\ acFlights' = acFlights \ {f}
      /\ UNCHANGED <<acValue, acOpen, acPages, acSeq, acTimer>>
  BY DEF Answered
<1>4. LastAsked'
  BY <1>3 DEF SuggestionsInv, LastAsked
<1>5. CASE UNCHANGED <<acItems, acCursor, acLoading>>
  BY <1>3, <1>4, <1>5 DEF SuggestionsInv, SuggestionsTypeOK, SuggestionsFit, Answer
<1>6. ASSUME f.seq = acSeq, acLoading' = FALSE,
             \/ acItems' = Answer(f.value, f.pages) /\ acCursor' = -1
             \/ acItems' = <<>> /\ UNCHANGED acCursor
      PROVE  SuggestionsInv'
  <2>1. acItems' \in Seq(Input)
    <3>1. <<>> \in Seq(Input)
      OBVIOUS
    <3> QED
      BY <1>2, <1>6, <3>1
  <2>2. \A i \in DOMAIN acItems': acItems'[i] \in Input
    BY <2>1
  <2>3. acCursor' \in -1..(PageSize * MaxPages - 1)
    BY <1>6, VisibleOK DEF SuggestionsInv, SuggestionsTypeOK
  <2>4. SuggestionsTypeOK'
    BY <1>3, <1>6, <2>2, <2>3 DEF SuggestionsInv, SuggestionsTypeOK
  <2>5. acOpen => acItems' \in {<<>>, Answer(acValue, acPages)}
    BY <1>6 DEF SuggestionsInv, LastAsked
  <2>6. SuggestionsFit'
    BY <1>3, <2>5 DEF SuggestionsFit, Answer
  <2> QED
    BY <1>3, <1>4, <2>1, <2>4, <2>6 DEF SuggestionsInv
<1> QED
  BY <1>5, <1>6 DEF Answered

LEMMA SuggestionsNextOK == SuggestionsInv /\ SuggestionsNext => SuggestionsInv'
<1> SUFFICES ASSUME SuggestionsInv, SuggestionsNext PROVE SuggestionsInv'
  OBVIOUS
<1>1. /\ Visible \in Seq(Input) /\ Len(Visible) \in 0..(PageSize * MaxPages)
      /\ PageSize * MaxPages \in Nat /\ acCursor \in -1..(PageSize * MaxPages - 1)
  BY VisibleOK DEF SuggestionsInv, SuggestionsTypeOK
<1>2. CASE ArrowUp
  <2>1. acCursor' \in -1..(PageSize * MaxPages - 1)
    BY <1>1, <1>2 DEF ArrowUp
  <2> QED
    BY <1>2, <2>1, CursorOK DEF ArrowUp
<1>3. ASSUME NEW i \in DOMAIN Visible, Hover(i) PROVE SuggestionsInv'
  <2>1. acCursor' = i - 1 /\ i \in 1..(PageSize * MaxPages)
    BY <1>1, <1>3 DEF Hover
  <2>2. acCursor' \in -1..(PageSize * MaxPages - 1)
    BY <1>1, <2>1
  <2> QED
    BY <1>3, <2>2, CursorOK DEF Hover
<1>4. CASE Enter \/ \E i \in DOMAIN Visible: Pick(i)
  <2>1. \E i \in DOMAIN Visible: Commit(i)
    BY <1>4 DEF Enter, Pick, Commit
  <2> QED
    BY <2>1, InputOK
<1>5. CASE \/ \E v \in Input: Typed(v)
           \/ Focused \/ Rerendered \/ ArrowDown \/ Tab \/ Close \/ LoadMore
  BY <1>5, InputOK
<1>6. CASE Debounced \/ \E f \in acFlights: Answered(f)
  BY <1>6, DebouncedOK, AnsweredFits
<1> QED
  BY <1>2, <1>3, <1>4, <1>5, <1>6 DEF SuggestionsNext

LEMMA SuggestionsInConsole ==
  ASSUME SuggestionsInv, [ConsoleNext]_consoleVars, route = "autocomplete"
  PROVE  SuggestionsInv'
<1>1. CASE SuggestionsNext
  BY <1>1, SuggestionsNextOK
<1>2. CASE UNCHANGED acVars
  BY <1>2
  DEF acVars, SuggestionsInv, SuggestionsTypeOK, LastAsked, SuggestionsFit, Answer
<1>3. SuggestionsNext \/ UNCHANGED acVars
  BY DEF ConsoleNext, KeyPages, OtherPages, FormPages, Cards, Widgets, consoleVars
<1> QED
  BY <1>1, <1>2, <1>3

\* In whatever order answers come, a list that is not loading shows the answer to
\* what is in the input now, or nothing.
THEOREM SuggestionsFitInput == ConsoleSpec => []SuggestionsFitHere
<1> DEFINE Inv == route = "autocomplete" => SuggestionsInv
<1>1. ConsoleInit => Inv
  BY SuggestionsInitOK DEF ConsoleInit
<1>2. Inv /\ [ConsoleNext]_consoleVars => Inv'
  BY SuggestionsInConsole, RouteStays
<1>3. Inv => SuggestionsFitHere
  BY DEF SuggestionsFitHere, SuggestionsInv
<1> QED
  BY <1>1, <1>2, <1>3, PTL DEF ConsoleSpec

----------------------------------------------------------------------------
(***************************************************************************)
(* The comparison.  Each entry of the cache is the answer to its question, *)
(* unless one of the clusters was written since the request started; and   *)
(* so is, of a request under way, the scan that has been made.             *)
(***************************************************************************)
Differing(q) == Differences(dfStore[q.left], dfStore[q.against], DfRange[q.prefix])

EntryTrue == \A q \in Question: dfQuery[q].has =>
  q.against # "" /\ (~dfQuery[q].old => dfQuery[q].diffs = Differing(q))
ScanTrue == \A q \in Question: dfQuery[q].at = "scanned" =>
  q.against # "" /\ (~dfQuery[q].late => dfQuery[q].scan = dfStore[q.left])

DiffPageInv == DiffPageTypeOK /\ EntryTrue /\ ScanTrue

LEMMA DifferencesOK ==
  ASSUME NEW left \in Contents, NEW right \in Contents, NEW keys \in SUBSET DfKey
  PROVE  Differences(left, right, keys) \in SUBSET DiffRow
BY DEF Differences, DiffRow, Kind, Contents

LEMMA DiffFiltersOK ==
  ASSUME DiffPageInv, ShownEntry.has, ~ShownEntry.old
  PROVE  DiffTellsTheDifference
<1> DEFINE left == dfStore[dfPage.left]
           right == dfStore[dfPage.against]
           keys == DfRange[dfPage.prefix]
           differ == {k \in keys : left[k] # right[k]}
<1>1. ShownEntry.diffs = Differences(left, right, keys)
  BY DEF DiffPageInv, DiffPageTypeOK, EntryTrue, ShownEntry, Differing
<1> HIDE DEF left, right, keys
<1>2. \A d \in ShownEntry.diffs:
        /\ d.key \in keys /\ left[d.key] # right[d.key]
        /\ d.left = left[d.key] /\ d.right = right[d.key]
        /\ d.kind = "only-left" <=> right[d.key] = 0
        /\ d.kind = "only-right" <=> left[d.key] = 0
        /\ d.kind \in Kind
  BY <1>1 DEF Differences, Kind
<1>3. \A k \in differ: \E d \in ShownEntry.diffs: d.key = k
  <2> TAKE k \in differ
  <2> DEFINE row(side) == [key |-> k, kind |-> side, left |-> left[k], right |-> right[k]]
  <2>1. \/ row("different") \in ShownEntry.diffs
        \/ row("only-left") \in ShownEntry.diffs
        \/ row("only-right") \in ShownEntry.diffs
    BY <1>1 DEF Differences
  <2> QED
    BY <2>1
<1>4. ASSUME NEW filter \in Kind \cup {"all"}
      PROVE  {d.key : d \in Filtered(filter)} =
               {k \in differ : CASE filter = "only-left" -> right[k] = 0
                                 [] filter = "only-right" -> left[k] = 0
                                 [] filter = "different" -> 0 \notin {left[k], right[k]}
                                 [] OTHER -> TRUE}
  <2>1. CASE filter = "all"
    <3>1. {d.key : d \in Filtered(filter)} = differ
      BY <1>2, <1>3, <2>1 DEF Filtered
    <3> QED
      BY <2>1, <3>1
  <2>2. CASE filter = "only-left"
    <3>1. {d.key : d \in Filtered(filter)} = {k \in differ : right[k] = 0}
      BY <1>2, <1>3, <2>2 DEF Filtered
    <3> QED
      BY <2>2, <3>1
  <2>3. CASE filter = "only-right"
    <3>1. {d.key : d \in Filtered(filter)} = {k \in differ : left[k] = 0}
      BY <1>2, <1>3, <2>3 DEF Filtered
    <3> QED
      BY <2>3, <3>1
  <2>4. CASE filter = "different"
    <3>1. {d.key : d \in Filtered(filter)} = {k \in differ : 0 \notin {left[k], right[k]}}
      BY <1>2, <1>3, <2>4 DEF Filtered, Kind
    <3> QED
      BY <2>4, <3>1
  <2> QED
    BY <2>1, <2>2, <2>3, <2>4 DEF Kind
<1>5. DiffView("all") = "all keys match" => differ = {}
  BY <1>3 DEF DiffView, Filtered
<1>6. \A filter: \A d \in Filtered(filter): d.left = left[d.key] /\ d.right = right[d.key]
  BY <1>2 DEF Filtered
<1> QED
  BY <1>4, <1>5, <1>6 DEF DiffTellsTheDifference, left, right, keys

LEMMA DiffBounds == MaxDiffs \in Nat /\ MaxWrites \in Nat /\ NoContents \in Contents
<1>1. MaxValue \in Nat
  BY DiffAssumption
<1>2. 0 \in 0..MaxValue
  BY <1>1
<1> QED
  BY <1>2, DiffAssumption DEF NoContents, Contents

LEMMA EntryOfOK ==
  ASSUME NEW has \in BOOLEAN, NEW diffs \in SUBSET DiffRow, NEW old \in BOOLEAN
  PROVE  EntryOf(has, diffs, old) \in QueryState
BY DiffBounds DEF EntryOf, QueryState

LEMMA DiffInitOK == DiffInit => DiffPageInv
<1> SUFFICES ASSUME DiffInit PROVE DiffPageInv
  OBVIOUS
<1>1. Fresh \in QueryState /\ ~Fresh.has /\ Fresh.at # "scanned"
  BY EntryOfOK DEF Fresh, EntryOf
<1>2. dfQuery \in [Question -> QueryState] /\ \A q \in Question: dfQuery[q] = Fresh
  BY <1>1 DEF DiffInit
<1>3. dfStore \in [DfCluster -> Contents]
  BY DiffAssumption DEF DiffInit, Contents
<1>4. dfWrites \in 0..MaxWrites /\ dfAsked \in 0..MaxDiffs
  <2>1. 0 \in 0..MaxWrites /\ 0 \in 0..MaxDiffs
    BY DiffBounds
  <2> QED
    BY <2>1 DEF DiffInit
<1>5. dfPage \in Question
  BY DiffAssumption DEF DiffInit, Question
<1> QED
  BY <1>1, <1>2, <1>3, <1>4, <1>5 DEF DiffPageInv, DiffPageTypeOK, EntryTrue, ScanTrue

\* What a step does to the entry of one question, if the clusters stay as they are.
LEMMA OneEntryOK ==
  ASSUME DiffPageInv, NEW q \in Question, NEW e \in QueryState,
         dfQuery' = [dfQuery EXCEPT ![q] = e],
         UNCHANGED dfStore, dfPage' \in Question, UNCHANGED dfWrites, dfAsked' \in 0..MaxDiffs,
         e.has => q.against # "" /\ (~e.old => e.diffs = Differing(q)),
         e.at = "scanned" => q.against # "" /\ (~e.late => e.scan = dfStore[q.left])
  PROVE  DiffPageInv'
<1>1. \A p \in Question: dfQuery'[p] = IF p = q THEN e ELSE dfQuery[p]
  BY DEF DiffPageInv, DiffPageTypeOK
<1>2. DiffPageTypeOK'
  BY DEF DiffPageInv, DiffPageTypeOK
<1>3. EntryTrue'
  <2> SUFFICES ASSUME NEW p \in Question, dfQuery'[p].has
               PROVE  p.against # "" /\ (~dfQuery'[p].old => dfQuery'[p].diffs = Differing(p))
    BY DEF EntryTrue, Differing
  <2>1. CASE p = q
    BY <1>1, <2>1
  <2>2. CASE p # q
    <3>1. dfQuery'[p] = dfQuery[p]
      BY <1>1, <2>2
    <3> QED
      BY <3>1 DEF DiffPageInv, EntryTrue
  <2> QED
    BY <2>1, <2>2
<1>4. ScanTrue'
  <2> SUFFICES ASSUME NEW p \in Question, dfQuery'[p].at = "scanned"
               PROVE  p.against # "" /\ (~dfQuery'[p].late => dfQuery'[p].scan = dfStore[p.left])
    BY DEF ScanTrue
  <2>1. CASE p = q
    BY <1>1, <2>1
  <2>2. CASE p # q
    <3>1. dfQuery'[p] = dfQuery[p]
      BY <1>1, <2>2
    <3> QED
      BY <3>1 DEF DiffPageInv, ScanTrue
  <2> QED
    BY <2>1, <2>2
<1> QED
  BY <1>2, <1>3, <1>4 DEF DiffPageInv

LEMMA CacheEntryOK ==
  ASSUME DiffPageInv, NEW q \in Question
  PROVE  /\ CacheEntry(q) \in QueryState /\ CacheEntry(q).at = "idle"
         /\ [CacheEntry(q) EXCEPT !.at = "asked"] \in QueryState
         /\ CacheEntry(q).has => q.against # "" /\
              (~CacheEntry(q).old => CacheEntry(q).diffs = Differing(q))
<1>1. dfQuery[q] \in QueryState
  BY DEF DiffPageInv, DiffPageTypeOK
<1>2. CacheEntry(q) \in QueryState
  BY <1>1, EntryOfOK DEF CacheEntry, QueryState
<1>3. [CacheEntry(q) EXCEPT !.at = "asked"] \in QueryState
  BY <1>2 DEF QueryState
<1>4. CacheEntry(q).has = dfQuery[q].has /\ CacheEntry(q).old = dfQuery[q].old
      /\ CacheEntry(q).diffs = dfQuery[q].diffs /\ CacheEntry(q).at = "idle"
  BY DEF CacheEntry, EntryOf
<1> QED
  BY <1>2, <1>3, <1>4 DEF DiffPageInv, EntryTrue

LEMMA AsksOK ==
  ASSUME DiffPageInv, NEW q \in Question, dfQuery' = Asks(q),
         UNCHANGED <<dfStore, dfWrites>>, dfPage' \in Question, dfAsked' \in 0..MaxDiffs
  PROVE  DiffPageInv'
<1> DEFINE e == [CacheEntry(q) EXCEPT !.at = "asked"]
<1>1. e \in QueryState /\ e.at = "asked"
      /\ (e.has => q.against # "" /\ (~e.old => e.diffs = Differing(q)))
  BY CacheEntryOK DEF QueryState
<1> HIDE DEF e
<1> QED
  BY <1>1, OneEntryOK DEF Asks, e

LEMMA TurnOK == ASSUME DiffPageInv, NEW q \in Question, Turn(q) PROVE DiffPageInv'
<1>1. CASE UNCHANGED <<dfQuery, dfAsked>>
  BY <1>1 DEF Turn, DiffPageInv, DiffPageTypeOK, EntryTrue, ScanTrue, Differing
<1>2. CASE dfAsked < MaxDiffs /\ dfAsked' = dfAsked + 1 /\ dfQuery' = Asks(q)
  <2>1. dfAsked' \in 0..MaxDiffs
    BY <1>2, DiffBounds DEF DiffPageInv, DiffPageTypeOK
  <2> QED
    BY <1>2, <2>1, AsksOK DEF Turn
<1> QED
  BY <1>1, <1>2 DEF Turn

LEMMA DiffPageNextOK == DiffPageInv /\ DiffPageNext => DiffPageInv'
<1> SUFFICES ASSUME DiffPageInv, DiffPageNext PROVE DiffPageInv'
  OBVIOUS
<1>1. dfPage \in Question /\ \A q \in Question: dfQuery[q] \in QueryState
  BY DEF DiffPageInv, DiffPageTypeOK
<1>2. CASE \/ \E c \in DfCluster: SelectLeft(c) \/ SelectRight(c)
           \/ SelectRight("") \/ \E p \in DfPrefix: TypePrefix(p)
  BY <1>1, <1>2, TurnOK DEF SelectLeft, SelectRight, TypePrefix, Question
<1>3. CASE CompareButton
  <2>1. dfAsked' \in 0..MaxDiffs
    BY <1>3, DiffBounds DEF DiffPageInv, DiffPageTypeOK, CompareButton
  <2> QED
    BY <1>1, <1>3, <2>1, AsksOK DEF CompareButton
<1>4. ASSUME NEW q \in Question, ScanLeft(q) PROVE DiffPageInv'
  <2> DEFINE e == [dfQuery[q] EXCEPT !.at = "scanned", !.scan = dfStore[q.left]]
  <2>1. dfQuery' = [dfQuery EXCEPT ![q] = e]
    BY <1>4, <1>1 DEF ScanLeft, DiffPageInv, DiffPageTypeOK, QueryState
  <2>2. dfStore[q.left] \in Contents
    BY DEF DiffPageInv, DiffPageTypeOK, Question
  <2>3. e \in QueryState /\ q.against # ""
        /\ e.scan = dfStore[q.left] /\ e.has = dfQuery[q].has /\ e.old = dfQuery[q].old
        /\ e.diffs = dfQuery[q].diffs
    BY <1>1, <1>4, <2>2 DEF ScanLeft, QueryState
  <2> HIDE DEF e
  <2>4. UNCHANGED <<dfStore, dfWrites, dfAsked, dfPage>> /\ dfAsked' \in 0..MaxDiffs
    BY <1>4 DEF ScanLeft, DiffPageInv, DiffPageTypeOK
  <2> QED
    BY <1>1, <2>1, <2>3, <2>4, OneEntryOK DEF DiffPageInv, EntryTrue
<1>5. ASSUME NEW q \in Question, DiffAnswered(q) PROVE DiffPageInv'
  <2> DEFINE e == NewEntry(q)
  <2>1. q.against # "" /\ (~dfQuery[q].late => dfQuery[q].scan = dfStore[q.left])
    BY <1>5 DEF DiffAnswered, DiffPageInv, ScanTrue
  <2>2. Differences(dfQuery[q].scan, dfStore[q.against], DfRange[q.prefix]) \in SUBSET DiffRow
    <3>1. dfQuery[q].scan \in Contents
      BY <1>1 DEF QueryState
    <3>2. dfStore[q.against] \in Contents /\ DfRange[q.prefix] \in SUBSET DfKey
      BY <2>1, DiffAssumption DEF DiffPageInv, DiffPageTypeOK, Question
    <3> QED
      BY <3>1, <3>2, DifferencesOK
  <2>3. e.has /\ e.old = dfQuery[q].late /\ e.at = "idle"
        /\ e.diffs = Differences(dfQuery[q].scan, dfStore[q.against], DfRange[q.prefix])
    BY DEF NewEntry, EntryOf
  <2>6. e \in QueryState
    BY <1>1, <2>2, EntryOfOK DEF NewEntry, QueryState
  <2> HIDE DEF e
  <2>4. e.has => q.against # "" /\ (~e.old => e.diffs = Differing(q))
    BY <2>1, <2>3 DEF Differing
  <2>5. UNCHANGED <<dfStore, dfWrites, dfAsked, dfPage>> /\ dfAsked' \in 0..MaxDiffs
        /\ dfQuery' = [dfQuery EXCEPT ![q] = e]
    BY <1>5 DEF DiffAnswered, DiffPageInv, DiffPageTypeOK, e
  <2> QED
    BY <1>1, <2>3, <2>4, <2>5, <2>6, OneEntryOK
<1>6. ASSUME NEW q \in Question, DiffFails(q) PROVE DiffPageInv'
  <2>1. UNCHANGED <<dfStore, dfWrites, dfAsked, dfPage>> /\ dfAsked' \in 0..MaxDiffs
        /\ dfQuery' = [dfQuery EXCEPT ![q] = CacheEntry(q)]
    BY <1>6 DEF DiffFails, DiffPageInv, DiffPageTypeOK
  <2> QED
    BY <1>1, <2>1, CacheEntryOK, OneEntryOK
<1>7. ASSUME NEW c \in DfCluster, NEW k \in DfKey, NEW v \in 0..MaxValue, OthersWrite(c, k, v)
      PROVE  DiffPageInv'
  <2>1. /\ dfStore' = [dfStore EXCEPT ![c][k] = v] /\ UNCHANGED <<dfAsked, dfPage>>
        /\ \A x \in DfCluster: x # c => dfStore'[x] = dfStore[x]
    BY <1>7 DEF OthersWrite, DiffPageInv, DiffPageTypeOK
  <2>2. \A q \in Question:
          /\ dfQuery'[q].has = dfQuery[q].has /\ dfQuery'[q].diffs = dfQuery[q].diffs
          /\ dfQuery'[q].at = dfQuery[q].at /\ dfQuery'[q].scan = dfQuery[q].scan
          /\ c \in {q.left, q.against} =>
               /\ dfQuery'[q].old = dfQuery[q].has
               /\ dfQuery'[q].late = (dfQuery[q].at # "idle")
          /\ c \notin {q.left, q.against} => dfQuery'[q] = dfQuery[q]
          /\ dfQuery'[q] \in QueryState
    BY <1>1, <1>7 DEF OthersWrite, QueryState
  <2>3. DiffPageTypeOK'
    <3>1. dfStore' \in [DfCluster -> Contents]
      BY <1>7 DEF OthersWrite, DiffPageInv, DiffPageTypeOK, Contents
    <3>2. dfWrites' \in 0..MaxWrites
      <4>1. dfWrites \in 0..MaxWrites /\ dfWrites < MaxWrites /\ dfWrites' = dfWrites + 1
        BY <1>7 DEF OthersWrite, DiffPageInv, DiffPageTypeOK
      <4> QED
        BY <4>1, DiffBounds
    <3>3. dfQuery' \in [Question -> QueryState]
      BY <1>7, <2>2 DEF OthersWrite
    <3> QED
      BY <1>7, <3>1, <3>2, <3>3 DEF OthersWrite, DiffPageInv, DiffPageTypeOK
  <2>4. EntryTrue'
    BY <2>1, <2>2 DEF DiffPageInv, EntryTrue, Differing, Question
  <2>5. ScanTrue'
    <3>1. SUFFICES ASSUME NEW q \in Question, dfQuery'[q].at = "scanned"
                   PROVE  /\ q.against # ""
                          /\ ~dfQuery'[q].late => dfQuery'[q].scan = dfStore'[q.left]
      BY DEF ScanTrue
    <3>2. /\ q.against # "" /\ q.left \in DfCluster
          /\ ~dfQuery[q].late => dfQuery[q].scan = dfStore[q.left]
      BY <2>2, <3>1 DEF DiffPageInv, ScanTrue, Question
    <3>3. CASE c \in {q.left, q.against}
      BY <2>2, <3>1, <3>2, <3>3
    <3>4. CASE c \notin {q.left, q.against}
      BY <2>1, <2>2, <3>1, <3>2, <3>4
    <3> QED
      BY <3>3, <3>4
  <2> QED
    BY <2>3, <2>4, <2>5 DEF DiffPageInv
<1> QED
  BY <1>2, <1>3, <1>4, <1>5, <1>6, <1>7 DEF DiffPageNext

LEMMA DiffPageInConsole ==
  ASSUME DiffPageInv, [ConsoleNext]_consoleVars, route = "diff"
  PROVE  DiffPageInv'
<1>1. CASE DiffPageNext
  BY <1>1, DiffPageNextOK
<1>2. CASE UNCHANGED dfVars
  BY <1>2
  DEF dfVars, DiffPageInv, DiffPageTypeOK, EntryTrue, ScanTrue, Differing
<1>3. DiffPageNext \/ UNCHANGED dfVars
  BY DEF ConsoleNext, KeyPages, OtherPages, FormPages, Cards, Widgets, consoleVars
<1> QED
  BY <1>1, <1>2, <1>3

\* Whatever is asked again, answered late or failed, the differences listed are
\* those of the clusters and the prefix on the page, if neither was written since.
THEOREM DifferencesTold == ConsoleSpec => []DiffTellsTheDifferenceHere
<1> DEFINE Inv == route = "diff" => DiffPageInv
<1>1. ConsoleInit => Inv
  BY DiffInitOK DEF ConsoleInit
<1>2. Inv /\ [ConsoleNext]_consoleVars => Inv'
  BY DiffPageInConsole, RouteStays
<1>3. Inv => DiffTellsTheDifferenceHere
  <2> SUFFICES ASSUME DiffPageInv PROVE DiffPageTypeOK /\ DiffTellsTheDifference
    BY DEF DiffTellsTheDifferenceHere
  <2>1. CASE ShownEntry.has /\ ~ShownEntry.old
    BY <2>1, DiffFiltersOK DEF DiffPageInv
  <2>2. CASE ~(ShownEntry.has /\ ~ShownEntry.old)
    BY <2>2 DEF DiffPageInv, DiffTellsTheDifference
  <2> QED
    BY <2>1, <2>2
<1> QED
  BY <1>1, <1>2, <1>3, PTL DEF ConsoleSpec

----------------------------------------------------------------------------
(***************************************************************************)
(* The dialogs.  A question that is shown has not been answered, and if    *)
(* its word stands in the input, it was typed there since; the word that   *)
(* stands in the bulk delete was typed there at some time; and the keys    *)
(* counted are those of the file chosen, unless it is in doubt.            *)
(***************************************************************************)
AskedOK ==
  /\ \A id \in cfReq: id \notin cfYes \cup cfNo
  /\ \A id \in cfReq \cup cfYes \cup cfNo: cfAsked[id] # "unasked"
  /\ \A id \in cfReq: cfAsked[id] = Keyword /\ cfTyped = Keyword => id \in cfMeant

\* A file that is read or parsed has been chosen; a wizard that is open is one of those opened.
BoxesOK ==
  /\ biReads # {} \/ biBox.parsed # "" => biBox.file \in DlFile
  /\ awBox.open => awBox.n > 0
  /\ biBox.parsed \in {"", biBox.file} \/ biBox.file \in biReads \/ biLate
BulkTyped ==
  /\ bdBox.open => bdBox.n > 0
  /\ bdBox.typed => \E m \in bdMeant: m <= bdBox.n

\* The types, of each dialog on its own.
CfTypeOK ==
  /\ cfAsked \in [1..MaxAsks -> {"", Keyword, "unasked"}] /\ cfTyped \in {"", Keyword}
  /\ cfReq \subseteq 1..MaxAsks /\ \A id \in cfReq: cfReq = {id}
  /\ cfYes \subseteq 1..MaxAsks /\ cfNo \subseteq 1..MaxAsks /\ cfMeant \subseteq 1..MaxAsks
BdTypeOK ==
  /\ bdBox \in [open: BOOLEAN, typed: BOOLEAN, many: BOOLEAN, pending: BOOLEAN,
                n: 0..MaxAsks]
  /\ bdMeant \subseteq 1..MaxAsks /\ bdYes \subseteq 1..MaxAsks
BiTypeOK ==
  /\ biBox \in [open: BOOLEAN, file: DlFile \cup {""}, parsed: DlFile \cup {""},
                error: BOOLEAN, clear: BOOLEAN]
  /\ biReads \subseteq DlFile /\ biLate \in BOOLEAN
  /\ biCall \subseteq [file: DlFile, clear: BOOLEAN, parsed: DlFile, doubt: BOOLEAN]
AwTypeOK ==
  /\ awBox \in [open: BOOLEAN, id: PresetId \cup {"", "mine"}, endpoints: BOOLEAN,
                n: 0..MaxAsks]
  /\ awCalls \subseteq [id: PresetId \cup {"mine"}, n: 1..MaxAsks]
  /\ awError \in BOOLEAN

DialogsInv ==
  /\ CfTypeOK /\ BdTypeOK /\ BiTypeOK /\ AwTypeOK
  /\ ConfirmIsMeant /\ BulkIsMeant /\ ImportIsMeant
  /\ AskedOK /\ BoxesOK /\ BulkTyped

LEMMA DialogTypes == CfTypeOK /\ BdTypeOK /\ BiTypeOK /\ AwTypeOK => DialogsTypeOK
BY DEF DialogsTypeOK, CfTypeOK, BdTypeOK, BiTypeOK, AwTypeOK

LEMMA AsksBound == MaxAsks \in Nat
BY DialogsAssumption

LEMMA DialogsInitOK == DialogsInit => DialogsInv
<1> SUFFICES ASSUME DialogsInit PROVE DialogsInv
  OBVIOUS
<1>1. 0 \in 0..MaxAsks
  BY AsksBound
<1>2. AwTypeOK
  BY <1>1 DEF DialogsInit, AwTypeOK
<1>3. BiTypeOK /\ ImportIsMeant
  BY DEF DialogsInit, BiTypeOK, ImportIsMeant
<1>4. BdTypeOK /\ BulkIsMeant /\ BulkTyped
  BY <1>1 DEF DialogsInit, BdTypeOK, BulkIsMeant, BulkTyped
<1>5. CfTypeOK
  BY DEF DialogsInit, CfTypeOK
<1>6. BoxesOK
  BY DEF DialogsInit, BoxesOK
<1> QED
  BY <1>2, <1>3, <1>4, <1>5, <1>6 DEF DialogsInit, DialogsInv, ConfirmIsMeant, AskedOK

LEMMA ConfirmOK ==
  ASSUME DialogsInv, ConfirmNext, UNCHANGED <<bdVars, biVars, awVars>>
  PROVE  DialogsInv'
<1>1. /\ CfTypeOK /\ ConfirmIsMeant /\ AskedOK
      /\ cfAsked \in [1..MaxAsks -> {"", Keyword, "unasked"}]
      /\ cfReq \subseteq 1..MaxAsks /\ cfYes \subseteq 1..MaxAsks
      /\ cfNo \subseteq 1..MaxAsks /\ cfMeant \subseteq 1..MaxAsks
  BY DEF DialogsInv, CfTypeOK
<1>2. /\ BdTypeOK' /\ BiTypeOK' /\ AwTypeOK' /\ BoxesOK'
      /\ BulkIsMeant' /\ ImportIsMeant' /\ BulkTyped'
  <2>1. BdTypeOK' /\ BulkIsMeant' /\ BulkTyped'
    BY DEF DialogsInv, BdTypeOK, BulkIsMeant, BulkTyped, bdVars
  <2>2. BiTypeOK' /\ ImportIsMeant'
    BY DEF DialogsInv, BiTypeOK, ImportIsMeant, biVars
  <2>3. AwTypeOK'
    BY DEF DialogsInv, AwTypeOK, awVars
  <2>4. BoxesOK'
    BY DEF DialogsInv, BoxesOK, biVars, awVars
  <2> QED
    BY <2>1, <2>2, <2>3, <2>4
<1>3. ASSUME NEW id \in 1..MaxAsks, NEW word \in {"", Keyword}, Ask(id, word)
      PROVE  DialogsInv'
  <2>1. /\ cfAsked[id] = "unasked" /\ cfAsked' = [cfAsked EXCEPT ![id] = word]
        /\ cfReq' = {id} /\ cfTyped' = "" /\ UNCHANGED <<cfYes, cfNo, cfMeant>>
    BY <1>3 DEF Ask
  <2>2. cfAsked'[id] = word /\ \A i \in 1..MaxAsks: i # id => cfAsked'[i] = cfAsked[i]
    BY <1>1, <2>1
  <2>3. word # "unasked"
    BY DialogsAssumption
  <2>4. id \notin cfYes \cup cfNo
    BY <1>1, <2>1 DEF AskedOK
  <2>5. CfTypeOK'
    BY <1>1, <2>1 DEF CfTypeOK
  <2>6. ConfirmIsMeant'
    BY <1>1, <2>1, <2>2, <2>4 DEF ConfirmIsMeant
  <2>7. AskedOK'
    BY <1>1, <2>1, <2>2, <2>3, <2>4, DialogsAssumption DEF AskedOK
  <2> QED
    BY <1>2, <2>5, <2>6, <2>7 DEF DialogsInv
<1>4. ASSUME NEW t \in {"", Keyword}, TypeWord(t) PROVE DialogsInv'
  <2>1. PICK id \in cfReq: /\ cfAsked[id] = Keyword
                           /\ cfMeant' = IF t = Keyword THEN cfMeant \cup {id} ELSE cfMeant
    BY <1>4 DEF TypeWord
  <2>2. cfReq = {id} /\ cfTyped' = t /\ UNCHANGED <<cfReq, cfAsked, cfYes, cfNo>>
    BY <1>1, <1>4 DEF TypeWord, CfTypeOK
  <2>3. CfTypeOK'
    BY <1>1, <2>1, <2>2 DEF CfTypeOK
  <2>4. ConfirmIsMeant'
    BY <1>1, <2>1, <2>2 DEF ConfirmIsMeant
  <2>5. AskedOK'
    BY <1>1, <2>1, <2>2 DEF AskedOK
  <2> QED
    BY <1>2, <2>3, <2>4, <2>5 DEF DialogsInv
<1>5. CASE Confirmed
  <2>1. PICK id \in cfReq: cfAsked[id] \in {"", cfTyped} /\ cfYes' = cfYes \cup {id}
    BY <1>5 DEF Confirmed
  <2>2. cfReq' = {} /\ UNCHANGED <<cfTyped, cfAsked, cfNo, cfMeant>>
    BY <1>5 DEF Confirmed
  <2>3. cfAsked[id] = "" \/ id \in cfMeant
    <3>1. cfTyped \in {"", Keyword}
      BY <1>1 DEF CfTypeOK
    <3> QED
      BY <1>1, <2>1, <3>1 DEF AskedOK
  <2>4. CfTypeOK'
    <3>1. cfYes' \subseteq 1..MaxAsks
      BY <1>1, <2>1
    <3> QED
      BY <1>1, <2>2, <3>1 DEF CfTypeOK
  <2>5. ConfirmIsMeant'
    BY <1>1, <2>1, <2>2, <2>3 DEF ConfirmIsMeant, AskedOK
  <2>6. AskedOK'
    BY <1>1, <2>1, <2>2 DEF AskedOK
  <2> QED
    BY <1>2, <2>4, <2>5, <2>6 DEF DialogsInv
<1>6. CASE Cancelled
  <2>1. PICK id \in cfReq: cfNo' = cfNo \cup {id}
    BY <1>6 DEF Cancelled
  <2>2. cfReq' = {} /\ UNCHANGED <<cfTyped, cfAsked, cfYes, cfMeant>>
    BY <1>6 DEF Cancelled
  <2>3. CfTypeOK'
    <3>1. cfNo' \subseteq 1..MaxAsks
      BY <1>1, <2>1
    <3> QED
      BY <1>1, <2>2, <3>1 DEF CfTypeOK
  <2>4. ConfirmIsMeant' /\ AskedOK'
    BY <1>1, <2>1, <2>2 DEF ConfirmIsMeant, AskedOK
  <2> QED
    BY <1>2, <2>3, <2>4 DEF DialogsInv
<1> QED
  BY <1>3, <1>4, <1>5, <1>6 DEF ConfirmNext

\* The other dialogs have no question of confirm().
LEMMA OtherDialogsOK ==
  ASSUME DialogsInv, UNCHANGED cfVars, BdTypeOK', BiTypeOK', AwTypeOK', BoxesOK',
         BulkIsMeant', ImportIsMeant', BulkTyped'
  PROVE  DialogsInv'
BY DEF DialogsInv, cfVars, CfTypeOK, ConfirmIsMeant, AskedOK

LEMMA BulkOK ==
  ASSUME DialogsInv, BulkNext, UNCHANGED <<cfVars, biVars, awVars>>
  PROVE  DialogsInv'
<1> DEFINE BdBox == [open: BOOLEAN, typed: BOOLEAN, many: BOOLEAN, pending: BOOLEAN,
                     n: 0..MaxAsks]
           Fits == /\ bdBox \in BdBox /\ bdMeant \subseteq 1..MaxAsks
                   /\ bdYes \subseteq 1..MaxAsks /\ (bdBox.open => bdBox.n > 0)
                   /\ (bdBox.typed => \E m \in bdMeant: m <= bdBox.n)
                   /\ \A n \in bdYes: \E m \in bdMeant: m <= n
<1>1. Fits
  BY DEF DialogsInv, BdTypeOK, BulkTyped, BulkIsMeant
<1>2. Fits'
  <2>1. ASSUME NEW many \in BOOLEAN, BulkButton(many) PROVE Fits'
    <3>1. PICK k: k = bdBox.n + 1
      OBVIOUS
    <3>2. /\ bdBox' = [bdBox EXCEPT !.open = TRUE, !.many = many, !.n = k]
          /\ UNCHANGED <<bdMeant, bdYes>> /\ bdBox.n < MaxAsks
      BY <2>1, <3>1 DEF BulkButton
    <3>3. k \in 0..MaxAsks /\ k > 0 /\ \A m \in 1..MaxAsks: m <= bdBox.n => m <= k
      BY <1>1, <3>1, <3>2, AsksBound
    <3> QED
      BY <1>1, <3>2, <3>3
  <2>2. ASSUME NEW t \in BOOLEAN, TypeDelete(t) PROVE Fits'
    <3>1. bdBox.n \in 1..MaxAsks /\ bdBox.n <= bdBox.n
      BY <1>1, <2>2, AsksBound DEF TypeDelete
    <3> QED
      BY <1>1, <2>2, <3>1 DEF TypeDelete
  <2>3. CASE BulkConfirm
    <3>1. bdBox.n \in 1..MaxAsks
      BY <1>1, <2>3, AsksBound DEF BulkConfirm
    <3>2. bdBox' = [bdBox EXCEPT !.pending = TRUE] /\ bdMeant' = bdMeant
      BY <2>3 DEF BulkConfirm
    <3>3. CASE bdBox.many
      BY <1>1, <2>3, <3>1, <3>2, <3>3 DEF BulkConfirm
    <3>4. CASE ~bdBox.many
      BY <1>1, <2>3, <3>2, <3>4 DEF BulkConfirm
    <3> QED
      BY <3>3, <3>4
  <2>4. CASE BulkCancel
    BY <1>1, <2>4 DEF BulkCancel
  <2>5. CASE BulkSettles
    BY <1>1, <2>5 DEF BulkSettles
  <2> QED
    BY <2>1, <2>2, <2>3, <2>4, <2>5 DEF BulkNext
<1>3. BdTypeOK' /\ BulkTyped' /\ BulkIsMeant'
  BY <1>2 DEF BdTypeOK, BulkTyped, BulkIsMeant
<1>4. BiTypeOK' /\ ImportIsMeant' /\ AwTypeOK' /\ BoxesOK'
  <2>1. BiTypeOK' /\ ImportIsMeant'
    BY DEF DialogsInv, BiTypeOK, ImportIsMeant, biVars
  <2>2. AwTypeOK' /\ BoxesOK'
    BY DEF DialogsInv, AwTypeOK, BoxesOK, biVars, awVars
  <2> QED
    BY <2>1, <2>2
<1> QED
  BY <1>3, <1>4, OtherDialogsOK

LEMMA ImportOK ==
  ASSUME DialogsInv, ImportNext, UNCHANGED <<cfVars, bdVars, awVars>>
  PROVE  DialogsInv'
<1> DEFINE BiBox == [open: BOOLEAN, file: DlFile \cup {""}, parsed: DlFile \cup {""},
                     error: BOOLEAN, clear: BOOLEAN]
           Calls == [file: DlFile, clear: BOOLEAN, parsed: DlFile, doubt: BOOLEAN]
           Boxed == /\ biBox \in BiBox /\ biReads \subseteq DlFile /\ biLate \in BOOLEAN
                    /\ (biReads # {} \/ biBox.parsed # "" => biBox.file \in DlFile)
                    /\ \/ biBox.parsed \in {"", biBox.file}
                       \/ biBox.file \in biReads \/ biLate
           Sent == /\ biCall \subseteq Calls
                   /\ \A c \in biCall: c.parsed = c.file \/ c.doubt
<1>1. /\ BdTypeOK' /\ BulkIsMeant' /\ BulkTyped' /\ AwTypeOK' /\ UNCHANGED awBox
  <2>1. BdTypeOK' /\ BulkIsMeant' /\ BulkTyped'
    BY DEF DialogsInv, BdTypeOK, BulkIsMeant, BulkTyped, bdVars
  <2>2. AwTypeOK' /\ UNCHANGED awBox
    BY DEF DialogsInv, AwTypeOK, awVars
  <2> QED
    BY <2>1, <2>2
<1>2. Boxed /\ Sent
  BY DEF DialogsInv, BiTypeOK, BoxesOK, ImportIsMeant
<1>3. Boxed' /\ Sent'
  <2>1. ASSUME NEW b \in BOOLEAN, ImportOpens(b) \/ SetClearPrefix(b) PROVE Boxed' /\ Sent'
    BY <1>2, <2>1 DEF ImportOpens, SetClearPrefix, Boxes
  <2>2. ASSUME NEW f \in DlFile, HandleFile(f) PROVE Boxed' /\ Sent'
    BY <1>2, <2>2 DEF HandleFile
  <2>3. ASSUME NEW f \in DlFile, FileRead(f) PROVE Boxed' /\ Sent'
    BY <1>2, <2>3, DialogsAssumption DEF FileRead
  <2>4. CASE Import
    <3>1. /\ biBox.file \in DlFile /\ biBox.clear \in BOOLEAN /\ biBox.parsed \in DlFile
          /\ biBox.parsed = biBox.file \/ biBox.file \in biReads \/ biLate
      BY <1>2, <2>4 DEF Import
    <3> DEFINE call == [file |-> biBox.file, clear |-> biBox.clear,
                        parsed |-> biBox.parsed, doubt |-> biLate \/ biBox.file \in biReads]
    <3>2. call \in Calls /\ (call.parsed = call.file \/ call.doubt)
      BY <1>2, <3>1
    <3>3. biCall' = {call} /\ UNCHANGED <<biBox, biReads, biLate>>
      BY <2>4 DEF Import
    <3> HIDE DEF Calls, call
    <3> QED
      BY <1>2, <3>2, <3>3
  <2>5. CASE ImportEnds
    BY <1>2, <2>5 DEF ImportEnds
  <2> QED
    BY <2>1, <2>2, <2>3, <2>4, <2>5 DEF ImportNext
<1>4. BiTypeOK' /\ ImportIsMeant'
  BY <1>3 DEF BiTypeOK, ImportIsMeant
<1>5. BoxesOK'
  BY <1>1, <1>3 DEF DialogsInv, BoxesOK
<1> QED
  BY <1>1, <1>4, <1>5, OtherDialogsOK

LEMMA WizardOK ==
  ASSUME DialogsInv, WizardNext, UNCHANGED <<cfVars, bdVars, biVars>>
  PROVE  DialogsInv'
<1> DEFINE AwBox == [open: BOOLEAN, id: PresetId \cup {"", "mine"}, endpoints: BOOLEAN,
                     n: 0..MaxAsks]
           Calls == [id: PresetId \cup {"mine"}, n: 1..MaxAsks]
           Fits == /\ awBox \in AwBox /\ awCalls \subseteq Calls /\ awError \in BOOLEAN
                   /\ (awBox.open => awBox.n > 0)
<1>1. /\ BdTypeOK' /\ BulkIsMeant' /\ BulkTyped' /\ BiTypeOK' /\ ImportIsMeant'
      /\ UNCHANGED <<biBox, biReads, biLate>>
  <2>1. BdTypeOK' /\ BulkIsMeant' /\ BulkTyped'
    BY DEF DialogsInv, BdTypeOK, BulkIsMeant, BulkTyped, bdVars
  <2>2. BiTypeOK' /\ ImportIsMeant' /\ UNCHANGED <<biBox, biReads, biLate>>
    BY DEF DialogsInv, BiTypeOK, ImportIsMeant, biVars
  <2> QED
    BY <2>1, <2>2
<1>2. Fits
  BY DEF DialogsInv, AwTypeOK, BoxesOK
<1>3. Fits'
  <2>1. CASE WizardOpens
    <3>1. awBox.n \in 0..MaxAsks /\ awBox.n < MaxAsks
      BY <1>2, <2>1 DEF WizardOpens
    <3>2. PICK n: n = awBox.n + 1
      OBVIOUS
    <3>3. n \in 0..MaxAsks /\ n > 0
      BY <3>1, <3>2, AsksBound
    <3>4. /\ awBox' = [open |-> TRUE, id |-> "", endpoints |-> FALSE, n |-> n]
          /\ awError' = FALSE /\ awCalls' = awCalls
      BY <2>1, <3>2 DEF WizardOpens
    <3> QED
      BY <1>2, <3>3, <3>4
  <2>2. CASE WizardCloses
    BY <1>2, <2>2 DEF WizardCloses
  <2>3. CASE AddCluster
    <3>1. awBox.n \in 0..MaxAsks /\ awBox.n > 0 /\ awBox.id \in PresetId \cup {"mine"}
      BY <1>2, <2>3 DEF AddCluster
    <3>2. awBox.n \in 1..MaxAsks
      BY <3>1, AsksBound
    <3>3. [id |-> awBox.id, n |-> awBox.n] \in Calls
      BY <3>1, <3>2
    <3> HIDE DEF Calls
    <3> QED
      BY <1>2, <2>3, <3>3 DEF AddCluster
  <2>4. ASSUME NEW id \in PresetId, ChoosePreset(id) PROVE Fits'
    BY <1>2, <2>4 DEF ChoosePreset, Fills
  <2>5. ASSUME NEW id \in {awBox.id, "", "mine"}, NEW e \in BOOLEAN, FillField(id, e)
        PROVE  Fits'
    BY <1>2, <2>5 DEF FillField, Fills
  <2>6. ASSUME NEW c \in awCalls, Added(c) PROVE Fits'
    BY <1>2, <2>6 DEF Added
  <2> QED
    BY <2>1, <2>2, <2>3, <2>4, <2>5, <2>6 DEF WizardNext
<1>4. AwTypeOK'
  BY <1>3 DEF AwTypeOK
<1>5. BoxesOK'
  BY <1>1, <1>3 DEF DialogsInv, BoxesOK
<1> QED
  BY <1>1, <1>4, <1>5, OtherDialogsOK

DialogRoutes == {"confirm", "bulk-delete", "bulk-import", "wizard"}

LEMMA DialogsInConsole ==
  ASSUME DialogsInv, [ConsoleNext]_consoleVars, route \in DialogRoutes
  PROVE  DialogsInv'
<1>1. CASE UNCHANGED dlVars
  <2>1. UNCHANGED cfVars
    BY <1>1 DEF dlVars
  <2>2. BdTypeOK' /\ BulkIsMeant' /\ BulkTyped'
    BY <1>1 DEF dlVars, bdVars, DialogsInv, BdTypeOK, BulkIsMeant, BulkTyped
  <2>3. AwTypeOK'
    BY <1>1 DEF dlVars, awVars, DialogsInv, AwTypeOK
  <2>4. BoxesOK'
    BY <1>1 DEF dlVars, biVars, awVars, DialogsInv, BoxesOK
  <2>5. BiTypeOK' /\ ImportIsMeant'
    BY <1>1 DEF dlVars, biVars, DialogsInv, BiTypeOK, ImportIsMeant
  <2> QED
    BY <2>1, <2>2, <2>3, <2>4, <2>5, OtherDialogsOK
<1>2. \/ ConfirmNext /\ UNCHANGED <<bdVars, biVars, awVars>>
      \/ BulkNext /\ UNCHANGED <<cfVars, biVars, awVars>>
      \/ ImportNext /\ UNCHANGED <<cfVars, bdVars, awVars>>
      \/ WizardNext /\ UNCHANGED <<cfVars, bdVars, biVars>>
      \/ UNCHANGED dlVars
  BY DEF ConsoleNext, KeyPages, OtherPages, FormPages, Cards, Widgets, consoleVars
<1> QED
  BY <1>1, <1>2, ConfirmOK, BulkOK, ImportOK, WizardOK

\* confirm() is answered yes only by the word typed into this very dialog, however
\* questions replace each other, and never twice; a delete of many keys has had its
\* word typed at some time; and an import sends the file whose keys were counted,
\* but for a file still being read or read too late.
THEOREM YesAlwaysMeant == ConsoleSpec => []YesIsMeantHere
<1> DEFINE Inv == route \in DialogRoutes => DialogsInv
<1>1. ConsoleInit => Inv
  BY DialogsInitOK DEF ConsoleInit
<1>2. Inv /\ [ConsoleNext]_consoleVars => Inv'
  BY DialogsInConsole, RouteStays
<1>3. Inv => YesIsMeantHere
  BY DialogTypes DEF DialogRoutes, DialogsInv, YesIsMeant, YesIsMeantHere
<1> QED
  BY <1>1, <1>2, <1>3, PTL DEF ConsoleSpec

----------------------------------------------------------------------------
(***************************************************************************)
(* The locks.  Each lease is granted to one call and is in the queue once, *)
(* from the time its key is put; so who was told to have the lock stays at *)
(* the head of the queue while the lease lives.                            *)
(***************************************************************************)
Leases == FirstLease..(FirstLease + lkNext - 1)

LeasesOK ==
  /\ lkLive \subseteq Leases
  /\ \A c \in Caller: lkCall[c].at # "idle" => lkCall[c].lease \in Leases
  /\ \A c, d \in Caller:
       lkCall[c].at # "idle" /\ lkCall[d].at # "idle" /\ lkCall[c].lease = lkCall[d].lease
         => c = d

QueueOK ==
  /\ lkQueue \in Seq(Lease) /\ lkShown \in Seq(Lease) /\ IsInjective(lkQueue)
  /\ \A c \in Caller: lkCall[c].at = "granted" => lkCall[c].lease \notin ToSet(lkQueue)

HolderOK ==
  \A c \in Caller: lkCall[c].acquired =>
    /\ lkCall[c].at = "answered"
    /\ lkCall[c].lease \in lkLive => lkQueue # <<>> /\ Head(lkQueue) = lkCall[c].lease

LockInv == LockTypeOK /\ LeasesOK /\ QueueOK /\ HolderOK

LEMMA LeaseBounds == FirstLease \in Nat /\ FirstLease # 0 /\ MaxLeases \in Nat
BY LockAssumption

LEMMA LeasesAreLeases == LockInv => Leases \subseteq Lease
<1>1. LockInv => lkNext \in 0..MaxLeases
  BY DEF LockInv, LockTypeOK
<1> QED
  BY <1>1, LeaseBounds DEF Leases, Lease

LEMMA LastOfOnce ==
  ASSUME NEW S, NEW q \in Seq(S), NEW x \in S, IsInjective(q), x \notin ToSet(q)
  PROVE  /\ Append(q, x) \in Seq(S) /\ IsInjective(Append(q, x))
         /\ ToSet(Append(q, x)) = ToSet(q) \cup {x}
         /\ q # <<>> => Append(q, x) # <<>> /\ Head(Append(q, x)) = Head(q)
<1> DEFINE r == Append(q, x)
<1>1. /\ r \in Seq(S) /\ Len(r) = Len(q) + 1 /\ r[Len(q) + 1] = x
      /\ \A i \in 1..Len(q): r[i] = q[i]
  OBVIOUS
<1>2. x \in S /\ \A i \in 1..Len(q): q[i] # x
  BY DEF ToSet
<1> HIDE DEF r
<1>3. IsInjective(r)
  BY <1>1, <1>2 DEF IsInjective
<1>4. ToSet(r) = ToSet(q) \cup {x}
  <2>1. ToSet(r) \subseteq ToSet(q) \cup {x}
    BY <1>1 DEF ToSet
  <2>2. ToSet(q) \subseteq ToSet(r) /\ x \in ToSet(r)
    BY <1>1 DEF ToSet
  <2> QED
    BY <2>1, <2>2
<1>5. q # <<>> => r # <<>> /\ Head(r) = Head(q)
  BY <1>1
<1> QED
  BY <1>1, <1>3, <1>4, <1>5 DEF r

\* An element that occurs once is taken out of the sequence, and the rest stays in order.
LEMMA RemoveOnce ==
  ASSUME NEW S, NEW q \in Seq(S), NEW x, IsInjective(q)
  PROVE  /\ RemoveFirst(q, x) \in Seq(S) /\ IsInjective(RemoveFirst(q, x))
         /\ ToSet(RemoveFirst(q, x)) = ToSet(q) \ {x}
         /\ q # <<>> /\ Head(q) # x =>
              RemoveFirst(q, x) # <<>> /\ Head(RemoveFirst(q, x)) = Head(q)
<1>1. CASE ~ \E i \in 1..Len(q): q[i] = x
  BY <1>1 DEF RemoveFirst, ToSet
<1>2. ASSUME NEW i \in 1..Len(q), q[i] = x
      PROVE  /\ RemoveFirst(q, x) \in Seq(S) /\ IsInjective(RemoveFirst(q, x))
             /\ ToSet(RemoveFirst(q, x)) = ToSet(q) \ {x}
             /\ q # <<>> /\ Head(q) # x =>
                  RemoveFirst(q, x) # <<>> /\ Head(RemoveFirst(q, x)) = Head(q)
  <2>1. {j \in 1..Len(q) : q[j] = x} = {i}
    BY <1>2 DEF IsInjective
  <2>2. SelectInSeq(q, LAMBDA v: v = x) = i
    <3>1. Min({i}) = i
      BY DEF Min
    <3> QED
      BY <2>1, <3>1 DEF SelectInSeq
  <2>3. RemoveFirst(q, x) = SubSeq(q, 1, i - 1) \o SubSeq(q, i + 1, Len(q))
    BY <1>2, <2>2 DEF RemoveFirst, RemoveAt
  <2>4. PICK r: r = RemoveFirst(q, x)
    OBVIOUS
  <2>5. /\ r \in Seq(S) /\ Len(r) = Len(q) - 1
        /\ \A j \in 1..Len(r): r[j] = IF j < i THEN q[j] ELSE q[j + 1]
    <3> DEFINE a == SubSeq(q, 1, i - 1)
               b == SubSeq(q, i + 1, Len(q))
    <3>1. a \in Seq(S) /\ Len(a) = i - 1 /\ \A j \in 1..i - 1: a[j] = q[j]
      BY <1>2
    <3>2. b \in Seq(S) /\ Len(b) = Len(q) - i /\ \A j \in 1..Len(q) - i: b[j] = q[i + j]
      BY <1>2
    <3>3. r = a \o b
      BY <2>3, <2>4
    <3> HIDE DEF a, b
    <3>4. r \in Seq(S) /\ Len(r) = Len(q) - 1
      BY <1>2, <3>1, <3>2, <3>3
    <3>5. ASSUME NEW j \in 1..Len(r) PROVE r[j] = IF j < i THEN q[j] ELSE q[j + 1]
      <4>1. CASE j < i
        BY <1>2, <3>1, <3>2, <3>3, <3>4, <4>1
      <4>2. CASE j >= i
        <5>1. r[j] = b[j - (i - 1)]
          <6>1. j \in 1..Len(a) + Len(b) /\ ~(j <= Len(a)) /\ j - Len(a) = j - (i - 1)
            BY <1>2, <3>1, <3>2, <3>4, <4>2
          <6>2. (a \o b)[j] = b[j - Len(a)]
            BY <3>1, <3>2, <6>1
          <6> QED
            BY <3>3, <6>1, <6>2
        <5>2. j - (i - 1) \in 1..Len(q) - i /\ i + (j - (i - 1)) = j + 1
          BY <1>2, <3>4, <4>2
        <5> QED
          BY <1>2, <3>2, <3>4, <4>2, <5>1, <5>2
      <4> QED
        BY <1>2, <3>4, <4>1, <4>2
    <3> QED
      BY <3>4, <3>5
  <2>6. IsInjective(r)
    <3>1. SUFFICES ASSUME NEW j \in 1..Len(r), NEW k \in 1..Len(r), r[j] = r[k]
                   PROVE  j = k
      BY <2>5 DEF IsInjective
    <3>2. PICK m \in 1..Len(q), n \in 1..Len(q):
            /\ r[j] = q[m] /\ m = IF j < i THEN j ELSE j + 1
            /\ r[k] = q[n] /\ n = IF k < i THEN k ELSE k + 1
      BY <2>5
    <3>3. m = n
      <4>1. q[m] = q[n]
        BY <3>1, <3>2
      <4>2. m \in DOMAIN q /\ n \in DOMAIN q
        OBVIOUS
      <4> QED
        BY <4>1, <4>2 DEF IsInjective
    <3> QED
      BY <1>2, <2>5, <3>2, <3>3
  <2>7. ToSet(r) \subseteq ToSet(q) \ {x}
    BY <1>2, <2>5 DEF ToSet, IsInjective
  <2>8. ASSUME NEW y \in ToSet(q) \ {x} PROVE y \in ToSet(r)
    <3>1. PICK j \in 1..Len(q): q[j] = y
      BY DEF ToSet
    <3>2. CASE j < i
      BY <2>5, <3>1, <3>2 DEF ToSet
    <3>3. CASE j > i
      <4>1. j - 1 \in 1..Len(r) /\ r[j - 1] = y
        BY <2>5, <3>1, <3>3
      <4> QED
        BY <2>5, <4>1 DEF ToSet
    <3> QED
      BY <1>2, <3>1, <3>2, <3>3
  <2>9. q # <<>> /\ Head(q) # x => r # <<>> /\ Head(r) = Head(q)
    BY <1>2, <2>5
  <2> QED
    BY <2>4, <2>5, <2>6, <2>7, <2>8, <2>9
<1> QED
  BY <1>1, <1>2

LEMMA LockInitOK == LockInit => LockInv
<1> SUFFICES ASSUME LockInit PROVE LockInv
  OBVIOUS
<1>1. LockTypeOK
  BY LeaseBounds DEF LockInit, LockTypeOK, Call, NoCall, NoRelease, NoLease, ToSet
<1>2. LeasesOK /\ HolderOK
  BY DEF LockInit, LeasesOK, HolderOK, NoCall
<1>3. QueueOK
  BY DEF LockInit, QueueOK, IsInjective, NoCall
<1> QED
  BY <1>1, <1>2, <1>3 DEF LockInv

\* A lease that ends leaves the queue as it is for the others.
LEMMA EndsOK ==
  ASSUME LockInv, NEW l, Ends(l)
  PROVE  /\ lkLive' \subseteq Lease /\ lkLive' \subseteq Leases /\ lkLive' = lkLive \ {l}
         /\ ToSet(lkQueue') \subseteq lkLive' /\ ToSet(lkQueue') \subseteq ToSet(lkQueue)
         /\ lkQueue' \in Seq(Lease) /\ IsInjective(lkQueue')
         /\ \A c \in Caller: lkCall[c].acquired /\ lkCall[c].lease \in lkLive' =>
              lkQueue' # <<>> /\ Head(lkQueue') = lkCall[c].lease
<1>1. /\ lkQueue \in Seq(Lease) /\ IsInjective(lkQueue) /\ lkLive' = lkLive \ {l}
      /\ lkQueue' = RemoveFirst(lkQueue, l) /\ ToSet(lkQueue) \subseteq lkLive
      /\ lkLive \subseteq Lease /\ lkLive \subseteq Leases
  BY DEF LockInv, QueueOK, LockTypeOK, LeasesOK, Ends
<1>2. /\ lkQueue' \in Seq(Lease) /\ IsInjective(lkQueue') /\ ToSet(lkQueue') = ToSet(lkQueue) \ {l}
      /\ lkQueue # <<>> /\ Head(lkQueue) # l => lkQueue' # <<>> /\ Head(lkQueue') = Head(lkQueue)
  BY <1>1, RemoveOnce
<1>3. \A c \in Caller: lkCall[c].acquired /\ lkCall[c].lease \in lkLive' =>
        lkQueue' # <<>> /\ Head(lkQueue') = lkCall[c].lease
  BY <1>1, <1>2 DEF LockInv, HolderOK
<1> QED
  BY <1>1, <1>2, <1>3

LEMMA GrantOK == ASSUME LockInv, NEW c \in Caller, Grant(c) PROVE LockInv'
<1>1. PICK l: l = FirstLease + lkNext
  OBVIOUS
<1>2. /\ lkCall[c].at = "idle" /\ lkNext \in Nat /\ lkNext < MaxLeases /\ lkNext' = lkNext + 1
      /\ lkLive' = lkLive \cup {l}
      /\ lkCall' = [lkCall EXCEPT ![c].at = "granted", ![c].lease = l]
      /\ UNCHANGED <<lkQueue, lkMine, lkShown, lkRelease>>
      /\ lkCall \in [Caller -> Call] /\ ToSet(lkQueue) \subseteq lkLive
  BY <1>1, LeaseBounds DEF Grant, LockInv, LockTypeOK
<1>3. /\ l \in Lease /\ l \notin Leases /\ l \in Leases' /\ Leases \subseteq Leases'
      /\ lkNext' \in 0..MaxLeases
  BY <1>1, <1>2, LeaseBounds DEF Leases, Lease
<1>4. /\ lkCall'[c].at = "granted" /\ lkCall'[c].lease = l
      /\ lkCall'[c].acquired = lkCall[c].acquired /\ lkCall'[c] \in Call
      /\ \A d \in Caller: d # c => lkCall'[d] = lkCall[d]
      /\ lkCall' \in [Caller -> Call]
  <2>1. PICK call \in Call: call = [lkCall[c] EXCEPT !.at = "granted", !.lease = l]
    BY <1>2, <1>3 DEF Call
  <2>2. lkCall' = [lkCall EXCEPT ![c] = call]
    BY <1>2, <2>1
  <2>3. /\ call.at = "granted" /\ call.lease = l /\ call.acquired = lkCall[c].acquired
    BY <1>2, <2>1 DEF Call
  <2> QED
    BY <1>2, <2>2, <2>3
<1>5. LockTypeOK'
  <2>1. lkLive' \subseteq Lease /\ ToSet(lkQueue)' \subseteq lkLive'
    BY <1>2, <1>3 DEF LockInv, LockTypeOK, ToSet
  <2>2. /\ ToSet(lkShown) \subseteq Lease /\ lkMine \subseteq {Number(k) : k \in Lease}
        /\ lkRelease \in [lease: Lease \cup {NoLease}, at: {"none", "sent", "gone", "error"}]
    BY Zenon DEF LockInv, LockTypeOK
  <2> QED
    BY <1>2, <1>3, <1>4, <2>1, <2>2 DEF LockTypeOK
<1>6. LeasesOK'
  <2>1. lkLive' \subseteq Leases'
    BY <1>2, <1>3 DEF LockInv, LeasesOK
  <2>2. \A d \in Caller: lkCall'[d].at # "idle" => lkCall'[d].lease \in Leases'
    BY <1>3, <1>4 DEF LockInv, LeasesOK
  <2>3. \A d \in Caller \ {c}: lkCall[d].at # "idle" => lkCall[d].lease # l
    BY <1>3 DEF LockInv, LeasesOK
  <2>4. \A d, e \in Caller:
          lkCall'[d].at # "idle" /\ lkCall'[e].at # "idle" /\ lkCall'[d].lease = lkCall'[e].lease
            => d = e
    BY <1>4, <2>3 DEF LockInv, LeasesOK
  <2> QED
    BY <2>1, <2>2, <2>4 DEF LeasesOK
<1>7. QueueOK'
  <2>1. l \notin ToSet(lkQueue)
    BY <1>2, <1>3 DEF LockInv, LeasesOK
  <2> QED
    BY <1>2, <1>4, <2>1 DEF LockInv, QueueOK
<1>8. HolderOK'
  <2>1. ASSUME NEW d \in Caller, lkCall'[d].acquired
        PROVE  d # c /\ lkCall'[d] = lkCall[d] /\ lkCall[d].at = "answered" /\ lkCall[d].lease # l
    <3>1. lkCall[d].acquired /\ lkCall[d].at = "answered"
      BY <1>4, <2>1 DEF LockInv, HolderOK
    <3> QED
      BY <1>2, <1>3, <1>4, <3>1 DEF LockInv, LeasesOK
  <2> QED
    BY <1>2, <2>1 DEF LockInv, HolderOK
<1> QED
  BY <1>5, <1>6, <1>7, <1>8 DEF LockInv

\* A call that moves on with its lease.
LEMMA CallSet ==
  ASSUME LockInv, NEW c \in Caller, NEW call \in Call, lkCall[c].at # "idle",
         call.at # "idle", call.lease = lkCall[c].lease,
         lkCall' = [lkCall EXCEPT ![c] = call],
         UNCHANGED lkNext, lkLive' \subseteq lkLive
  PROVE  /\ lkCall' \in [Caller -> Call] /\ LeasesOK'
         /\ \A d \in Caller: lkCall'[d].lease = lkCall[d].lease
         /\ \A d \in Caller: d # c => lkCall'[d] = lkCall[d]
         /\ lkCall'[c] = call
<1>1. lkCall \in [Caller -> Call]
  BY DEF LockInv, LockTypeOK
<1>2. /\ lkCall' \in [Caller -> Call]
      /\ \A d \in Caller: lkCall'[d].lease = lkCall[d].lease
      /\ \A d \in Caller: d # c => lkCall'[d] = lkCall[d]
      /\ lkCall'[c] = call
  BY <1>1
<1>3. LeasesOK'
  BY <1>2 DEF LockInv, LeasesOK, Leases
<1> QED
  BY <1>2, <1>3

LEMMA CallMoves ==
  ASSUME LockInv, NEW c \in Caller, NEW to \in {"put", "answered"}, lkCall[c].at # "idle",
         NEW won \in BOOLEAN, NEW ok \in BOOLEAN,
         lkCall' = [lkCall EXCEPT ![c].at = to, ![c].acquired = won, ![c].ok = ok],
         UNCHANGED lkNext, lkLive' \subseteq lkLive
  PROVE  /\ lkCall' \in [Caller -> Call] /\ LeasesOK'
         /\ \A d \in Caller: lkCall'[d].lease = lkCall[d].lease
         /\ \A d \in Caller: d # c => lkCall'[d] = lkCall[d]
         /\ lkCall'[c].at = to /\ lkCall'[c].acquired = won
<1> DEFINE call == [lkCall[c] EXCEPT !.at = to, !.acquired = won, !.ok = ok]
<1>1. lkCall \in [Caller -> Call]
  BY DEF LockInv, LockTypeOK
<1>2. /\ call \in Call /\ call.at = to /\ call.acquired = won
      /\ call.lease = lkCall[c].lease /\ call.at # "idle"
  BY <1>1 DEF Call
<1>3. lkCall' = [lkCall EXCEPT ![c] = call]
  BY <1>1 DEF Call
<1> HIDE DEF call
<1>4. /\ lkCall' \in [Caller -> Call] /\ LeasesOK'
      /\ \A d \in Caller: lkCall'[d].lease = lkCall[d].lease
      /\ \A d \in Caller: d # c => lkCall'[d] = lkCall[d]
      /\ lkCall'[c] = call
  BY <1>2, <1>3, CallSet
<1> QED
  BY <1>2, <1>4

LEMMA PutOK == ASSUME LockInv, NEW c \in Caller, Put(c) PROVE LockInv'
<1>1. PICK l: l = lkCall[c].lease
  OBVIOUS
<1>2. /\ lkCall[c].at = "granted" /\ l \notin ToSet(lkQueue)
      /\ UNCHANGED <<lkNext, lkMine, lkShown, lkRelease>>
      /\ lkCall \in [Caller -> Call] /\ ~lkCall[c].acquired /\ lkCall[c].ok \in BOOLEAN
  BY <1>1 DEF Put, LockInv, LockTypeOK, QueueOK, HolderOK, Call
<1>3. CASE l \in lkLive /\ lkQueue' = Append(lkQueue, l) /\ UNCHANGED lkLive
           /\ \E at \in {"put", "answered"}: lkCall' = [lkCall EXCEPT ![c].at = at]
  <2> PICK at \in {"put", "answered"}: lkCall' = [lkCall EXCEPT ![c].at = at]
    BY <1>3
  <2>1. lkCall' = [lkCall EXCEPT ![c].at = at, ![c].acquired = FALSE, ![c].ok = lkCall[c].ok]
    BY <1>2 DEF Call
  <2>2. /\ lkCall' \in [Caller -> Call] /\ LeasesOK'
        /\ \A d \in Caller: lkCall'[d].lease = lkCall[d].lease
        /\ \A d \in Caller: d # c => lkCall'[d] = lkCall[d]
        /\ lkCall'[c].at = at /\ lkCall'[c].acquired = FALSE
    BY <1>2, <1>3, <2>1, CallMoves
  <2>3. /\ l \in Lease /\ lkQueue \in Seq(Lease) /\ IsInjective(lkQueue)
        /\ ToSet(lkQueue) \subseteq lkLive
    BY <1>3 DEF LockInv, LockTypeOK, QueueOK
  <2>4. /\ lkQueue' \in Seq(Lease) /\ IsInjective(lkQueue')
        /\ ToSet(lkQueue') = ToSet(lkQueue) \cup {l}
        /\ lkQueue # <<>> => lkQueue' # <<>> /\ Head(lkQueue') = Head(lkQueue)
    BY <1>2, <1>3, <2>3, LastOfOnce
  <2>5. LockTypeOK'
    BY <1>2, <1>3, <2>2, <2>3, <2>4 DEF LockInv, LockTypeOK
  <2>6. QueueOK'
    <3>1. ASSUME NEW d \in Caller, lkCall'[d].at = "granted"
          PROVE  lkCall'[d].lease \notin ToSet(lkQueue')
      <4>1. d # c /\ lkCall[d].at = "granted" /\ lkCall[d].lease # l
        BY <1>1, <1>2, <2>2, <3>1 DEF LockInv, LeasesOK
      <4> QED
        BY <2>2, <2>4, <4>1 DEF LockInv, QueueOK
    <3> QED
      BY <1>2, <2>4, <3>1 DEF LockInv, QueueOK
  <2>7. HolderOK'
    BY <1>3, <2>2, <2>4 DEF LockInv, HolderOK
  <2> QED
    BY <2>2, <2>5, <2>6, <2>7 DEF LockInv
<1>4. CASE /\ Ends(l) \/ UNCHANGED <<lkLive, lkQueue>>
           /\ lkCall' = [lkCall EXCEPT ![c].at = "answered"]
  <2>1. lkCall' = [lkCall EXCEPT ![c].at = "answered", ![c].acquired = FALSE,
                     ![c].ok = lkCall[c].ok]
    BY <1>2, <1>4 DEF Call
  <2>2. /\ lkLive' \subseteq Lease /\ lkLive' \subseteq lkLive
        /\ ToSet(lkQueue') \subseteq lkLive' /\ ToSet(lkQueue') \subseteq ToSet(lkQueue)
        /\ lkQueue' \in Seq(Lease) /\ IsInjective(lkQueue')
        /\ \A d \in Caller: lkCall[d].acquired /\ lkCall[d].lease \in lkLive' =>
             lkQueue' # <<>> /\ Head(lkQueue') = lkCall[d].lease
    <3>1. CASE Ends(l)
      BY <3>1, EndsOK
    <3>2. CASE UNCHANGED <<lkLive, lkQueue>>
      BY <3>2 DEF LockInv, LockTypeOK, QueueOK, HolderOK
    <3> QED
      BY <1>4, <3>1, <3>2
  <2>3. /\ lkCall' \in [Caller -> Call] /\ LeasesOK'
        /\ \A d \in Caller: lkCall'[d].lease = lkCall[d].lease
        /\ \A d \in Caller: d # c => lkCall'[d] = lkCall[d]
        /\ lkCall'[c].at = "answered" /\ lkCall'[c].acquired = FALSE
    BY <1>2, <2>1, <2>2, CallMoves
  <2>4. LockTypeOK'
    BY <1>2, <2>2, <2>3 DEF LockInv, LockTypeOK
  <2>5. QueueOK'
    BY <1>2, <2>2, <2>3 DEF LockInv, QueueOK
  <2>6. HolderOK'
    BY <2>2, <2>3 DEF LockInv, HolderOK
  <2> QED
    BY <2>3, <2>4, <2>5, <2>6 DEF LockInv
<1> QED
  BY <1>1, <1>3, <1>4 DEF Put

LEMMA InspectOK == ASSUME LockInv, NEW c \in Caller, Inspect(c) PROVE LockInv'
<1> DEFINE first == lkQueue # <<>> /\ Head(lkQueue) = lkCall[c].lease
<1>1. /\ lkCall[c].at = "put" /\ lkCall \in [Caller -> Call] /\ ~lkCall[c].acquired
      /\ UNCHANGED <<lkNext, lkLive, lkQueue, lkMine, lkShown, lkRelease>>
      /\ lkCall[c].ok \in BOOLEAN
  BY DEF Inspect, LockInv, LockTypeOK, HolderOK, Call
<1>2. PICK won \in BOOLEAN, ok \in BOOLEAN:
        /\ won => first
        /\ lkCall' = [lkCall EXCEPT ![c].at = "answered", ![c].acquired = won, ![c].ok = ok]
  <2>1. CASE lkCall' = [lkCall EXCEPT ![c].at = "answered", ![c].ok = TRUE, ![c].acquired = first]
    <3>1. PICK won \in BOOLEAN: won <=> first
      OBVIOUS
    <3>2. lkCall' = [lkCall EXCEPT ![c].at = "answered", ![c].ok = TRUE, ![c].acquired = won]
      BY <2>1, <3>1
    <3>3. lkCall' = [lkCall EXCEPT ![c].at = "answered", ![c].acquired = won, ![c].ok = TRUE]
      BY <1>1, <3>2 DEF Call
    <3> QED
      BY <3>1, <3>3
  <2>2. CASE lkCall' = [lkCall EXCEPT ![c].at = "answered"]
    <3>1. lkCall' = [lkCall EXCEPT ![c].at = "answered", ![c].acquired = FALSE,
                       ![c].ok = lkCall[c].ok]
      BY <1>1, <2>2 DEF Call
    <3> QED
      BY <1>1, <3>1
  <2> QED
    BY <2>1, <2>2 DEF Inspect
<1>3. /\ lkCall' \in [Caller -> Call] /\ LeasesOK'
      /\ \A d \in Caller: lkCall'[d].lease = lkCall[d].lease
      /\ \A d \in Caller: d # c => lkCall'[d] = lkCall[d]
      /\ lkCall'[c].at = "answered" /\ lkCall'[c].acquired = won
  BY <1>1, <1>2, CallMoves
<1>4. LockTypeOK'
  BY <1>1, <1>3 DEF LockInv, LockTypeOK
<1>5. QueueOK'
  BY <1>1, <1>3 DEF LockInv, QueueOK
<1>6. HolderOK'
  BY <1>1, <1>2, <1>3 DEF LockInv, HolderOK
<1> QED
  BY <1>3, <1>4, <1>5, <1>6 DEF LockInv

\* What the page shows and releases does not change who was told to have the lock.
LEMMA ShownIsLease ==
  ASSUME LockInv, NEW i \in DOMAIN lkShown
  PROVE  lkShown[i] \in Lease
BY DEF LockInv, QueueOK

LEMMA LockStepOK == LockInv /\ LockNext => LockInv'
<1> SUFFICES ASSUME LockInv, LockNext PROVE LockInv'
  OBVIOUS
<1>1. /\ lkQueue \in Seq(Lease) /\ ToSet(lkQueue) \subseteq Lease /\ lkShown \in Seq(Lease)
      /\ lkCall \in [Caller -> Call] /\ lkMine \subseteq {Number(l) : l \in Lease}
      /\ lkRelease \in [lease: Lease \cup {NoLease}, at: {"none", "sent", "gone", "error"}]
  BY DEF LockInv, LockTypeOK, QueueOK
<1>2. ASSUME NEW c \in Caller, Acquired(c) PROVE LockInv'
  <2>1. /\ lkMine' = lkMine \cup {Number(lkCall[c].lease)} /\ lkShown' = lkQueue
        /\ UNCHANGED <<lkNext, lkLive, lkQueue, lkCall, lkRelease>>
        /\ lkCall[c].at = "answered"
    BY <1>2 DEF Acquired
  <2>2. lkCall[c].lease \in Lease
    BY <2>1, LeasesAreLeases DEF LockInv, LeasesOK
  <2>3. LockTypeOK'
    BY <1>1, <2>1, <2>2 DEF LockInv, LockTypeOK
  <2>4. LeasesOK' /\ HolderOK'
    BY <2>1 DEF LockInv, LeasesOK, HolderOK, Leases
  <2>5. QueueOK'
    BY <2>1 DEF LockInv, QueueOK
  <2> QED
    BY <2>3, <2>4, <2>5 DEF LockInv
<1>3. CASE Poll
  <2>1. lkShown' = lkQueue /\ UNCHANGED <<lkNext, lkLive, lkQueue, lkCall, lkMine, lkRelease>>
    BY <1>3 DEF Poll
  <2>2. LockTypeOK'
    BY <1>1, <2>1 DEF LockInv, LockTypeOK
  <2>3. LeasesOK' /\ HolderOK'
    BY <2>1 DEF LockInv, LeasesOK, HolderOK, Leases
  <2>4. QueueOK'
    BY <2>1 DEF LockInv, QueueOK
  <2> QED
    BY <2>2, <2>3, <2>4 DEF LockInv
<1>4. ASSUME NEW i \in DOMAIN lkShown, Release(i) PROVE LockInv'
  <2>1. /\ lkRelease' = [lease |-> lkShown[i], at |-> "sent"]
        /\ UNCHANGED <<lkNext, lkLive, lkQueue, lkCall, lkMine, lkShown>>
    BY <1>4 DEF Release
  <2>2. LockTypeOK'
    BY <1>1, <2>1, ShownIsLease DEF LockInv, LockTypeOK
  <2>3. LeasesOK' /\ HolderOK'
    BY <2>1 DEF LockInv, LeasesOK, HolderOK, Leases
  <2>4. QueueOK'
    BY <2>1 DEF LockInv, QueueOK
  <2> QED
    BY <2>2, <2>3, <2>4 DEF LockInv
<1>5. ASSUME NEW l, Ends(l), UNCHANGED <<lkNext, lkCall>>, lkMine' \subseteq lkMine,
             lkShown' \in {lkShown, lkQueue'},
             lkRelease' \in [lease: Lease \cup {NoLease}, at: {"none", "sent", "gone", "error"}]
      PROVE  LockInv'
  <2>1. /\ lkLive' \subseteq Lease /\ lkLive' \subseteq Leases /\ lkLive' = lkLive \ {l}
        /\ ToSet(lkQueue') \subseteq lkLive' /\ ToSet(lkQueue') \subseteq ToSet(lkQueue)
        /\ lkQueue' \in Seq(Lease) /\ IsInjective(lkQueue')
        /\ \A c \in Caller: lkCall[c].acquired /\ lkCall[c].lease \in lkLive' =>
             lkQueue' # <<>> /\ Head(lkQueue') = lkCall[c].lease
    BY <1>5, EndsOK
  <2>2. ToSet(lkShown') \subseteq Lease /\ lkShown' \in Seq(Lease)
    BY <1>1, <1>5, <2>1 DEF LockInv, LockTypeOK
  <2>3. LockTypeOK'
    BY <1>1, <1>5, <2>1, <2>2 DEF LockInv, LockTypeOK
  <2>4. LeasesOK'
    BY <1>5, <2>1 DEF LockInv, LeasesOK, Leases
  <2>5. HolderOK'
    BY <1>5, <2>1 DEF LockInv, HolderOK
  <2>6. QueueOK'
    BY <1>5, <2>1, <2>2 DEF LockInv, QueueOK
  <2> QED
    BY <2>3, <2>4, <2>5, <2>6 DEF LockInv
<1>6. CASE Released
  <2>1. PICK id: id = Number(lkRelease.lease)
    OBVIOUS
  <2>2. CASE id \in lkLive
    <3>1. /\ Ends(id) /\ UNCHANGED <<lkNext, lkCall>> /\ lkMine' \subseteq lkMine
          /\ lkShown' = lkQueue' /\ lkRelease' = [lkRelease EXCEPT !.at = "gone"]
      BY <1>6, <2>1, <2>2 DEF Released
    <3> QED
      BY <1>1, <1>5, <3>1
  <2>3. CASE id \notin lkLive
    <3>1. /\ lkRelease' = [lkRelease EXCEPT !.at = "error"]
          /\ UNCHANGED <<lkNext, lkCall, lkLive, lkQueue, lkMine, lkShown>>
      BY <1>6, <2>1, <2>3 DEF Released
    <3>2. LockTypeOK'
      BY <1>1, <3>1 DEF LockInv, LockTypeOK
    <3>3. LeasesOK' /\ HolderOK'
      BY <3>1 DEF LockInv, LeasesOK, HolderOK, Leases
    <3>4. QueueOK'
      BY <3>1 DEF LockInv, QueueOK
    <3> QED
      BY <3>2, <3>3, <3>4 DEF LockInv
  <2> QED
    BY <2>2, <2>3
<1>7. ASSUME NEW l \in lkLive, Expires(l) PROVE LockInv'
  <2>1. Ends(l) /\ UNCHANGED <<lkNext, lkCall, lkMine, lkShown, lkRelease>>
    BY <1>7 DEF Expires
  <2> QED
    BY <1>1, <1>5, <2>1
<1> QED
  BY <1>2, <1>3, <1>4, <1>6, <1>7, GrantOK, PutOK, InspectOK DEF LockNext

LEMMA LocksInConsole ==
  ASSUME LockInv, [ConsoleNext]_consoleVars, route = "locks"
  PROVE  LockInv'
<1>1. CASE UNCHANGED lkVars
  <2>1. UNCHANGED <<lkNext, lkLive, lkQueue, lkCall, lkMine, lkShown, lkRelease>>
    BY <1>1 DEF lkVars
  <2>2. LockTypeOK'
    BY <2>1 DEF LockInv, LockTypeOK
  <2>3. LeasesOK' /\ HolderOK'
    BY <2>1 DEF LockInv, LeasesOK, HolderOK, Leases
  <2>4. QueueOK'
    BY <2>1 DEF LockInv, QueueOK
  <2> QED
    BY <2>2, <2>3, <2>4 DEF LockInv
<1>2. LockNext \/ UNCHANGED lkVars
  BY DEF ConsoleNext, KeyPages, OtherPages, FormPages, Cards, Widgets, consoleVars
<1> QED
  BY <1>1, <1>2, LockStepOK

\* However calls, expiries and releases interleave, no two live leases were told
\* to have the lock.
THEOREM OneHoldsTheLock == ConsoleSpec => []OneHolderHere
<1> DEFINE Inv == route = "locks" => LockInv
<1>1. ConsoleInit => Inv
  BY LockInitOK DEF ConsoleInit
<1>2. Inv /\ [ConsoleNext]_consoleVars => Inv'
  BY LocksInConsole, RouteStays
<1>3. LockInv => OneHolder
  BY DEF LockInv, LeasesOK, HolderOK, OneHolder
<1>4. Inv => OneHolderHere
  BY <1>3 DEF OneHolderHere, LockInv
<1> QED
  BY <1>1, <1>2, <1>4, PTL DEF ConsoleSpec

----------------------------------------------------------------------------
(***************************************************************************)
(* Users and roles.  What a query shows is what there is, or it is being   *)
(* read, or a mutation that is done will have it read, or one of those was *)
(* cut short.  A reading tells, from its list on, of the names asked for   *)
(* so far.  A mutation leaves alone what other queries tell, or takes the  *)
(* grants of a role that is gone.                                          *)
(***************************************************************************)
Due(q) == \E c \in rbCalls: c.at = "ok" /\ Invalidates(c) = q

QueryOK(q) ==
  \/ q \in rbDoubt \/ Due(q) \/ rbFetch[q].at = "sent"
  \/ rbFetch[q].at = "listed"
       /\ Tells(q, rbFetch[q].data, rbEtcd, rbFetch[q].known, rbGone.read)
  \/ rbFetch[q].at = "none" /\ Tells(q, rbShown, rbEtcd, rbKnown[q], rbGone.shown)

RolesInv == RolesTypeOK /\ \A q \in RolesQuery: QueryOK(q)

RolesGone == [shown: SUBSET RbRole, read: SUBSET RbRole]
Form == [user: RbUser \cup {""}, role: RbRole \cup {""}, perm: RbRole \cup {""}]

LEMMA ChangesBound == MaxChanges \in Nat
BY RolesAssumption

LEMMA NextChange ==
  ASSUME NEW n \in 0..MaxChanges, n < MaxChanges
  PROVE  n + 1 \in 1..MaxChanges /\ n + 1 \in 0..MaxChanges
BY ChangesBound

LEMMA RolesTypes ==
  ASSUME RolesInv
  PROVE  /\ rbEtcd \in RolesState /\ rbShown \in RolesState
         /\ rbFetch \in [RolesQuery -> RolesReading] /\ rbCalls \subseteq RolesCall
         /\ rbCount \in 0..MaxChanges /\ rbForm \in Form
         /\ rbKnown \in [RolesQuery -> SUBSET RbName] /\ rbGone \in RolesGone
         /\ rbDoubt \subseteq RolesQuery
         /\ \A q \in RolesQuery: QueryOK(q)
BY DEF RolesInv, RolesTypeOK, Form, RolesGone

LEMMA RolesTyped ==
  ASSUME rbEtcd' \in RolesState, rbShown' \in RolesState,
         rbFetch' \in [RolesQuery -> RolesReading], rbCalls' \subseteq RolesCall,
         rbCount' \in 0..MaxChanges, rbForm' \in Form,
         rbKnown' \in [RolesQuery -> SUBSET RbName], rbGone' \in RolesGone,
         rbDoubt' \subseteq RolesQuery, \A q \in RolesQuery: QueryOK(q)'
  PROVE  RolesInv'
BY DEF RolesInv, RolesTypeOK, Form, RolesGone

LEMMA ClustersOK ==
  NewCluster \in RolesState /\ FullCluster \in RolesState /\ NoRead \in RolesReading
<1>1. NewCluster \in RolesState
  BY RolesAssumption DEF NewCluster, RolesState
<1>2. {Root} \X RbRole \in SUBSET (RbUser \X RbRole)
  BY RolesAssumption
<1>3. FullCluster \in RolesState
  BY <1>1, <1>2 DEF FullCluster, RolesState
<1>4. NoRead \in RolesReading
  BY <1>1 DEF NoRead, RolesReading
<1> QED
  BY <1>1, <1>3, <1>4

LEMMA RolesInitOK == RolesInit => RolesInv
<1> SUFFICES ASSUME RolesInit PROVE RolesInv
  OBVIOUS
<1>1. /\ rbEtcd \in {NewCluster, FullCluster} /\ rbShown = rbEtcd
      /\ rbCalls = {} /\ rbCount = 0 /\ rbDoubt = {}
      /\ rbFetch = [q \in RolesQuery |-> NoRead] /\ rbGone = [shown |-> {}, read |-> {}]
      /\ rbKnown = [q \in RolesQuery |-> IF q = "status" THEN {} ELSE rbEtcd[q]]
      /\ rbForm = [user |-> "", role |-> "", perm |-> ""]
  BY DEF RolesInit
<1>2. rbCount \in 0..MaxChanges
  <2>1. 0 \in 0..MaxChanges
    BY ChangesBound
  <2> QED
    BY <1>1, <2>1
<1>3. rbFetch \in [RolesQuery -> RolesReading] /\ rbEtcd \in RolesState
  BY <1>1, ClustersOK
<1>4. /\ \A g \in rbEtcd.grants: g[1] \in rbEtcd.users
      /\ rbEtcd.perms \subseteq rbEtcd.roles
      /\ rbEtcd.users \subseteq RbUser /\ rbEtcd.roles \subseteq RbRole
  <2>1. CASE rbEtcd = NewCluster
    BY <2>1, RolesAssumption DEF NewCluster
  <2>2. CASE rbEtcd = FullCluster
    BY <2>2, RolesAssumption DEF NewCluster, FullCluster
  <2> QED
    BY <1>1, <2>1, <2>2
<1>5. rbKnown["status"] = {} /\ rbKnown["users"] = rbEtcd.users /\ rbKnown["roles"] = rbEtcd.roles
  BY <1>1 DEF RolesQuery
<1>6. rbKnown \in [RolesQuery -> SUBSET RbName]
  <2>1. \A q \in RolesQuery: rbKnown[q] \in SUBSET RbName
    BY <1>4, <1>5 DEF RolesQuery, RbName
  <2> QED
    BY <1>1, <2>1
<1>7. ASSUME NEW q \in RolesQuery PROVE QueryOK(q)
  <2>1. Tells(q, rbShown, rbEtcd, rbKnown[q], rbGone.shown)
    <3>1. CASE q = "status"
      BY <1>1, <3>1 DEF Tells
    <3>2. CASE q = "users"
      BY <1>1, <1>4, <1>5, <3>2 DEF Tells
    <3>3. CASE q = "roles"
      BY <1>1, <1>4, <1>5, <3>3 DEF Tells
    <3> QED
      BY <3>1, <3>2, <3>3 DEF RolesQuery
  <2>2. rbFetch[q].at = "none"
    BY <1>1 DEF NoRead
  <2> QED
    BY <2>1, <2>2 DEF QueryOK
<1>8. rbForm \in Form /\ rbGone \in RolesGone
  BY <1>1 DEF Form, RolesGone
<1> QED
  BY <1>1, <1>2, <1>3, <1>6, <1>7, <1>8 DEF RolesInv, RolesTypeOK, Form, RolesGone

\* What a call changes, of the queries it does not have read again.
LEMMA ChangedOK ==
  ASSUME NEW c \in RolesCall, rbEtcd \in RolesState
  PROVE  /\ Changed(c) \in RolesState /\ Invalidates(c) \in RolesQuery
         /\ Deleted(c) \subseteq RbRole
         /\ \A q \in RolesQuery \ {Invalidates(c)}:
              /\ q = "status" => Changed(c).auth = rbEtcd.auth
              /\ q = "users" => /\ Changed(c).users = rbEtcd.users
                                /\ Changed(c).grants \subseteq rbEtcd.grants
                                /\ \A g \in rbEtcd.grants:
                                     g \in Changed(c).grants \/ g[2] \in Deleted(c)
              /\ q = "roles" => /\ Changed(c).roles = rbEtcd.roles
                                /\ Changed(c).perms = rbEtcd.perms
<1>1. /\ c.user \in RbUser /\ c.role \in RbRole
      /\ c.op \in {"enable", "disable", "addUser", "delUser", "grantRole", "addRole",
                   "delRole", "grantPerm"}
  BY DEF RolesCall
<1>2. /\ rbEtcd.auth \in BOOLEAN /\ rbEtcd.users \subseteq RbUser /\ rbEtcd.roles \subseteq RbRole
      /\ rbEtcd.grants \subseteq RbUser \X RbRole /\ rbEtcd.perms \subseteq RbRole
  BY DEF RolesState
<1>3. Deleted(c) \subseteq RbRole
  BY <1>1 DEF Deleted
<1>4. CASE c.op \in {"enable", "disable"}
  <2>1. PICK a \in BOOLEAN: Changed(c) = [rbEtcd EXCEPT !.auth = a]
    BY <1>4 DEF Changed
  <2>2. Changed(c) \in RolesState
    BY <2>1 DEF RolesState
  <2>3. Invalidates(c) = "status"
    BY <1>4 DEF Invalidates
  <2> QED
    BY <1>3, <2>1, <2>2, <2>3 DEF RolesQuery, RolesState
<1>5. CASE c.op \in {"addUser", "delUser", "grantRole"}
  <2>1. PICK U \in SUBSET RbUser, G \in SUBSET (RbUser \X RbRole):
          Changed(c) = [rbEtcd EXCEPT !.users = U, !.grants = G]
    <3>1. CASE c.op = "addUser"
      <4>1. Changed(c) = [rbEtcd EXCEPT !.users = rbEtcd.users \cup {c.user}, !.grants = rbEtcd.grants]
        BY <3>1 DEF Changed, RolesState
      <4> QED
        BY <1>1, <1>2, <4>1
    <3>2. CASE c.op = "delUser"
      <4>1. Changed(c) = [rbEtcd EXCEPT !.users = rbEtcd.users \ {c.user},
                                        !.grants = {g \in rbEtcd.grants : g[1] # c.user}]
        BY <3>2 DEF Changed
      <4>2. {g \in rbEtcd.grants : g[1] # c.user} \in SUBSET (RbUser \X RbRole)
        BY <1>2
      <4> QED
        BY <1>1, <1>2, <4>1, <4>2
    <3>3. CASE c.op = "grantRole"
      <4>1. Changed(c) = [rbEtcd EXCEPT !.users = rbEtcd.users,
                                        !.grants = rbEtcd.grants \cup {<<c.user, c.role>>}]
        BY <3>3 DEF Changed, RolesState
      <4>2. rbEtcd.grants \cup {<<c.user, c.role>>} \in SUBSET (RbUser \X RbRole)
        BY <1>1, <1>2
      <4> QED
        BY <1>2, <4>1, <4>2
    <3> QED
      BY <1>5, <3>1, <3>2, <3>3
  <2>2. Changed(c) \in RolesState
    BY <2>1 DEF RolesState
  <2>3. Invalidates(c) = "users"
    BY <1>5 DEF Invalidates
  <2> QED
    BY <1>3, <2>1, <2>2, <2>3 DEF RolesQuery, RolesState
<1>6. CASE c.op \in {"addRole", "delRole", "grantPerm"}
  <2>1. PICK R \in SUBSET RbRole, P \in SUBSET RbRole, G \in SUBSET rbEtcd.grants:
          /\ Changed(c) = [rbEtcd EXCEPT !.roles = R, !.perms = P, !.grants = G]
          /\ \A g \in rbEtcd.grants: g \in G \/ g[2] \in Deleted(c)
    <3>1. CASE c.op = "addRole"
      <4>1. Changed(c) = [rbEtcd EXCEPT !.roles = rbEtcd.roles \cup {c.role},
                                        !.perms = rbEtcd.perms, !.grants = rbEtcd.grants]
        BY <3>1 DEF Changed, RolesState
      <4>2. rbEtcd.roles \cup {c.role} \in SUBSET RbRole /\ rbEtcd.grants \in SUBSET rbEtcd.grants
        BY <1>1, <1>2
      <4> QED
        BY <1>2, <4>1, <4>2
    <3>2. CASE c.op = "delRole"
      <4> DEFINE G == {g \in rbEtcd.grants : g[2] # c.role}
      <4>1. Changed(c) = [rbEtcd EXCEPT !.roles = rbEtcd.roles \ {c.role},
                                        !.perms = rbEtcd.perms \ {c.role}, !.grants = G]
        BY <3>2 DEF Changed
      <4>2. /\ rbEtcd.roles \ {c.role} \in SUBSET RbRole
            /\ rbEtcd.perms \ {c.role} \in SUBSET RbRole
            /\ G \in SUBSET rbEtcd.grants
        BY <1>2
      <4>3. \A g \in rbEtcd.grants: g \in G \/ g[2] \in Deleted(c)
        BY <3>2 DEF Deleted
      <4> HIDE DEF G
      <4> QED
        BY <4>1, <4>2, <4>3
    <3>3. CASE c.op = "grantPerm"
      <4>1. Changed(c) = [rbEtcd EXCEPT !.roles = rbEtcd.roles,
                                        !.perms = rbEtcd.perms \cup {c.role},
                                        !.grants = rbEtcd.grants]
        BY <3>3 DEF Changed, RolesState
      <4>2. rbEtcd.perms \cup {c.role} \in SUBSET RbRole /\ rbEtcd.grants \in SUBSET rbEtcd.grants
        BY <1>1, <1>2
      <4> QED
        BY <1>2, <4>1, <4>2
    <3> QED
      BY <1>6, <3>1, <3>2, <3>3
  <2>2. Changed(c) \in RolesState
    BY <1>2, <2>1 DEF RolesState
  <2>3. Invalidates(c) = "roles"
    BY <1>6 DEF Invalidates
  <2>4. /\ Changed(c).auth = rbEtcd.auth /\ Changed(c).users = rbEtcd.users
        /\ Changed(c).grants = G
    BY <2>1 DEF RolesState
  <2> QED
    BY <1>3, <2>1, <2>2, <2>3, <2>4 DEF RolesQuery
<1> QED
  BY <1>1, <1>4, <1>5, <1>6

LEMMA StillTells ==
  ASSUME NEW c \in RolesCall, rbEtcd \in RolesState,
         NEW q \in RolesQuery, q # Invalidates(c),
         NEW s, NEW known, NEW gone, Tells(q, s, rbEtcd, known, gone)
  PROVE  Tells(q, s, Changed(c), known, gone \cup Deleted(c))
<1> DEFINE e == Changed(c)
<1>1. /\ q = "status" => e.auth = rbEtcd.auth
      /\ q = "users" => /\ e.users = rbEtcd.users /\ e.grants \subseteq rbEtcd.grants
                        /\ \A g \in rbEtcd.grants: g \in e.grants \/ g[2] \in Deleted(c)
      /\ q = "roles" => e.roles = rbEtcd.roles /\ e.perms = rbEtcd.perms
  BY ChangedOK
<1> HIDE DEF e
<1>2. CASE q = "status"
  BY <1>1, <1>2 DEF Tells, e
<1>3. CASE q = "roles"
  BY <1>1, <1>3 DEF Tells, e
<1>4. CASE q = "users"
  <2>1. /\ s.users = rbEtcd.users
        /\ \A u \in RbUser, r \in RbRole:
             /\ <<u, r>> \in s.grants =>
                  u \in known /\ (<<u, r>> \in rbEtcd.grants \/ r \in gone)
             /\ <<u, r>> \in rbEtcd.grants /\ u \in known => <<u, r>> \in s.grants
    BY <1>4 DEF Tells
  <2>2. \A u \in RbUser, r \in RbRole:
          <<u, r>> \in rbEtcd.grants => <<u, r>> \in e.grants \/ r \in Deleted(c)
    BY <1>1, <1>4
  <2>3. \A u \in RbUser, r \in RbRole:
             /\ <<u, r>> \in s.grants =>
                  u \in known /\ (<<u, r>> \in e.grants \/ r \in gone \cup Deleted(c))
             /\ <<u, r>> \in e.grants /\ u \in known => <<u, r>> \in s.grants
    BY <1>1, <1>4, <2>1, <2>2
  <2> QED
    BY <1>1, <1>4, <2>1, <2>3 DEF Tells, e
<1> QED
  BY <1>2, <1>3, <1>4 DEF RolesQuery

\* The steps that leave the cluster and the queries alone: the forms, and a
\* mutation that is sent.
LEMMA FormsOK ==
  ASSUME RolesInv, UNCHANGED <<rbEtcd, rbShown, rbFetch, rbPast>>,
         rbCalls \subseteq rbCalls', rbCalls' \subseteq RolesCall, rbCount' \in 0..MaxChanges,
         rbForm' \in Form
  PROVE  RolesInv'
<1>0. UNCHANGED <<rbKnown, rbGone, rbDoubt>>
  BY DEF rbPast
<1>1. \A q \in RolesQuery: QueryOK(q)'
  <2>1. \A q \in RolesQuery: Due(q) => Due(q)'
    BY DEF Due
  <2> QED
    BY <1>0, <2>1, RolesTypes DEF QueryOK, Tells
<1> QED
  BY <1>0, <1>1, RolesTypes, RolesTyped

LEMMA FillFormOK ==
  ASSUME RolesInv, NEW form \in Form, FillForm(form)
  PROVE  RolesInv'
<1>1. /\ UNCHANGED <<rbEtcd, rbShown, rbFetch, rbPast>> /\ rbCalls \subseteq rbCalls'
      /\ rbCalls' \subseteq RolesCall /\ rbCount' \in 0..MaxChanges /\ rbForm' = form
  BY RolesTypes DEF FillForm
<1> QED
  BY <1>1, FormsOK

LEMMA MutateOK ==
  ASSUME RolesInv, NEW u \in RbUser, NEW r \in RbRole,
         NEW op \in {"enable", "disable", "addUser", "delUser", "grantRole", "addRole",
                     "delRole", "grantPerm"}, Mutate(op, u, r), rbForm' \in Form
  PROVE  RolesInv'
<1>1. PICK n: n = rbCount + 1
  OBVIOUS
<1>2. n \in 1..MaxChanges /\ n \in 0..MaxChanges /\ rbCount' = n
  <2>1. rbCount \in 0..MaxChanges
    BY RolesTypes
  <2>2. rbCount < MaxChanges /\ rbCount' = rbCount + 1
    BY DEF Mutate
  <2> QED
    BY <1>1, <2>1, <2>2, NextChange
<1>3. [id |-> n, op |-> op, user |-> u, role |-> r, at |-> "sent"] \in RolesCall
  BY <1>2 DEF RolesCall
<1>4. /\ UNCHANGED <<rbEtcd, rbShown, rbFetch, rbPast>>
      /\ rbCalls' = rbCalls \cup {[id |-> n, op |-> op, user |-> u, role |-> r, at |-> "sent"]}
  BY <1>1 DEF Mutate
<1>5. rbCalls \subseteq rbCalls' /\ rbCalls' \subseteq RolesCall
  BY <1>3, <1>4, RolesTypes
<1> QED
  BY <1>2, <1>4, <1>5, FormsOK

LEMMA HandledOK == ASSUME RolesInv, NEW c \in rbCalls, Handled(c) PROVE RolesInv'
<1>1. /\ rbEtcd \in RolesState /\ rbCalls \subseteq RolesCall /\ c \in RolesCall
      /\ c.at = "sent" /\ UNCHANGED <<rbShown, rbFetch, rbCount, rbForm, rbKnown>>
  BY RolesTypes DEF Handled
<1>2. PICK to \in {"ok", "error"}:
        /\ rbCalls' = (rbCalls \ {c}) \cup {[c EXCEPT !.at = to]}
        /\ \/ /\ rbEtcd' = Changed(c)
              /\ rbGone' = [shown |-> rbGone.shown \cup Deleted(c),
                            read |-> rbGone.read \cup Deleted(c)]
              /\ (to = "ok" /\ UNCHANGED rbDoubt) \/ rbDoubt' = rbDoubt \cup {Invalidates(c)}
           \/ UNCHANGED <<rbEtcd, rbGone, rbDoubt>>
  BY DEF Handled
<1>3. [c EXCEPT !.at = to] \in RolesCall
  BY <1>1 DEF RolesCall
<1>4. /\ rbCalls' \subseteq RolesCall /\ rbEtcd' \in RolesState /\ rbDoubt' \subseteq RolesQuery
      /\ rbGone' \in RolesGone
  <2>1. Deleted(c) \subseteq RbRole /\ rbGone \in RolesGone /\ rbDoubt \subseteq RolesQuery
        /\ Changed(c) \in RolesState /\ Invalidates(c) \in RolesQuery
    BY <1>1, ChangedOK, RolesTypes
  <2> QED
    BY <1>1, <1>2, <1>3, <2>1 DEF RolesGone
<1>5. \A q \in RolesQuery: Due(q) => Due(q)'
  BY <1>1, <1>2 DEF Due
<1>6. ASSUME NEW q \in RolesQuery PROVE QueryOK(q)'
  <2>1. QueryOK(q)
    BY RolesTypes
  <2>2. CASE UNCHANGED <<rbEtcd, rbGone, rbDoubt>>
    BY <1>1, <1>5, <2>1, <2>2 DEF QueryOK, Tells
  <2>3. CASE rbEtcd' = Changed(c) /\ q = Invalidates(c)
    <3>1. CASE to = "ok"
      <4>1. /\ [c EXCEPT !.at = to] \in rbCalls' /\ [c EXCEPT !.at = to].at = "ok"
            /\ Invalidates([c EXCEPT !.at = to]) = Invalidates(c)
        BY <1>1, <1>2, <3>1 DEF Invalidates, RolesCall
      <4> QED
        BY <2>3, <4>1 DEF QueryOK, Due
    <3>2. CASE q \in rbDoubt'
      BY <3>2 DEF QueryOK
    <3> QED
      BY <1>2, <2>2, <2>3, <3>1, <3>2
  <2>4. CASE /\ rbEtcd' = Changed(c) /\ q # Invalidates(c)
             /\ rbGone' = [shown |-> rbGone.shown \cup Deleted(c),
                           read |-> rbGone.read \cup Deleted(c)]
    <3>1. /\ Tells(q, rbShown, rbEtcd, rbKnown[q], rbGone.shown) =>
               Tells(q, rbShown, Changed(c), rbKnown[q], rbGone.shown \cup Deleted(c))
          /\ Tells(q, rbFetch[q].data, rbEtcd, rbFetch[q].known, rbGone.read) =>
               Tells(q, rbFetch[q].data, Changed(c), rbFetch[q].known,
                     rbGone.read \cup Deleted(c))
      BY <1>1, <2>4, StillTells, Zenon
    <3>2. q \in rbDoubt => q \in rbDoubt'
      BY <1>2
    <3>3. rbGone'.shown = rbGone.shown \cup Deleted(c) /\ rbGone'.read = rbGone.read \cup Deleted(c)
      BY <2>4
    <3>4. \/ q \in rbDoubt' \/ Due(q)' \/ rbFetch'[q].at = "sent"
          \/ rbFetch'[q].at = "listed"
               /\ Tells(q, rbFetch[q].data, Changed(c), rbFetch[q].known, rbGone'.read)
          \/ rbFetch'[q].at = "none" /\ Tells(q, rbShown, Changed(c), rbKnown[q], rbGone'.shown)
      BY <1>1, <1>5, <2>1, <3>1, <3>2, <3>3 DEF QueryOK
    <3> QED
      BY <1>1, <2>4, <3>4 DEF QueryOK, Tells
  <2> QED
    BY <1>2, <2>2, <2>3, <2>4
<1> QED
  BY <1>1, <1>4, <1>6, RolesTypes, RolesTyped

LEMMA AnswersOK == ASSUME RolesInv, NEW c \in rbCalls, Answers(c) PROVE RolesInv'
<1>1. /\ rbCalls' = rbCalls \ {c} /\ c.at \in {"ok", "error"} /\ c \in RolesCall
      /\ rbFetch' = IF c.at = "error" THEN rbFetch
                    ELSE [rbFetch EXCEPT ![Invalidates(c)] = [NoRead EXCEPT !.at = "sent"]]
      /\ UNCHANGED <<rbEtcd, rbShown, rbCount, rbForm, rbKnown, rbGone, rbDoubt>>
      /\ rbFetch \in [RolesQuery -> RolesReading] /\ rbEtcd \in RolesState
  BY RolesTypes DEF Answers, rbPast
<1>2. /\ [NoRead EXCEPT !.at = "sent"] \in RolesReading
      /\ [NoRead EXCEPT !.at = "sent"].at = "sent"
  BY ClustersOK DEF NoRead, RolesReading
<1>3. Invalidates(c) \in RolesQuery
  BY <1>1, ChangedOK
<1>4. rbFetch' \in [RolesQuery -> RolesReading]
  BY <1>1, <1>2, <1>3
<1>5. ASSUME NEW q \in RolesQuery PROVE QueryOK(q)'
  <2>1. QueryOK(q)
    BY RolesTypes
  <2>2. CASE c.at = "ok" /\ q = Invalidates(c)
    <3>1. rbFetch'[q].at = "sent"
      BY <1>1, <1>2, <2>2
    <3> QED
      BY <3>1 DEF QueryOK
  <2>3. CASE ~(c.at = "ok" /\ q = Invalidates(c))
    <3>1. Due(q) => Due(q)'
      BY <1>1, <2>3 DEF Due
    <3>2. rbFetch'[q] = rbFetch[q]
      BY <1>1, <2>3
    <3> QED
      BY <1>1, <2>1, <3>1, <3>2 DEF QueryOK, Tells
  <2> QED
    BY <2>2, <2>3
<1>6. rbCalls' \subseteq RolesCall
  BY <1>1, RolesTypes
<1> QED
  BY <1>1, <1>4, <1>5, <1>6, RolesTypes, RolesTyped

\* Does what is told by one also hold of what is told by another?
Passes(p, s, told) ==
  \A e, known, gone: Tells(p, s, e, known, gone) => Tells(p, told, e, known, gone)

SameTold(p, s, told) ==
  /\ p = "status" => s.auth = told.auth
  /\ p = "users" => s.users = told.users /\ s.grants = told.grants
  /\ p = "roles" => s.roles = told.roles /\ s.perms = told.perms

LEMMA SamePasses ==
  ASSUME NEW p \in RolesQuery, NEW s, NEW told, SameTold(p, s, told)
  PROVE  Passes(p, s, told)
<1> SUFFICES ASSUME NEW e, NEW known, NEW gone, Tells(p, s, e, known, gone)
             PROVE  Tells(p, told, e, known, gone)
  BY DEF Passes
<1>1. CASE p = "status"
  BY <1>1 DEF Tells, SameTold
<1>2. CASE p = "users"
  BY <1>2 DEF Tells, SameTold
<1>3. CASE p = "roles"
  BY <1>3 DEF Tells, SameTold
<1> QED
  BY <1>1, <1>2, <1>3 DEF RolesQuery

\* A step of a reading leaves the other queries alone.
LEMMA OthersTell ==
  ASSUME RolesInv, NEW q \in RolesQuery, NEW p \in RolesQuery, p # q,
         UNCHANGED <<rbEtcd, rbCalls>>, rbFetch'[p] = rbFetch[p], rbKnown'[p] = rbKnown[p],
         p \in rbDoubt => p \in rbDoubt', p = "users" => rbGone' = rbGone,
         Passes(p, rbShown, rbShown')
  PROVE  QueryOK(p)'
<1>1. QueryOK(p)
  BY RolesTypes
<1>2. Due(p) => Due(p)'
  BY DEF Due
<1>3. ASSUME NEW s, NEW known
      PROVE  /\ Tells(p, s, rbEtcd, known, rbGone.read) => Tells(p, s, rbEtcd, known, rbGone'.read)
             /\ Tells(p, s, rbEtcd, known, rbGone.shown) => Tells(p, s, rbEtcd, known, rbGone'.shown)
  <2>1. CASE p = "users"
    BY <2>1, Zenon
  <2>2. CASE p # "users"
    BY <2>2 DEF Tells, RolesQuery
  <2> QED
    BY <2>1, <2>2
<1>4. \A e, known, gone: Tells(p, rbShown, e, known, gone) => Tells(p, rbShown', e, known, gone)
  BY DEF Passes
<1>5. \/ p \in rbDoubt' \/ Due(p)' \/ rbFetch'[p].at = "sent"
      \/ rbFetch'[p].at = "listed"
           /\ Tells(p, rbFetch[p].data, rbEtcd, rbFetch[p].known, rbGone'.read)
      \/ rbFetch'[p].at = "none" /\ Tells(p, rbShown', rbEtcd, rbKnown[p], rbGone'.shown)
  BY <1>1, <1>2, <1>3, <1>4, Zenon DEF QueryOK
<1> QED
  BY <1>5 DEF QueryOK, Tells

LEMMA ListsOK == ASSUME RolesInv, NEW q \in RolesQuery, Lists(q) PROVE RolesInv'
<1> DEFINE names == CASE q = "users" -> rbEtcd.users
                      [] q = "roles" -> rbEtcd.roles
                      [] OTHER -> {}
           data == [rbEtcd EXCEPT !.grants = {}, !.perms = {}]
           f == [at |-> "listed", data |-> data, left |-> names, known |-> {}]
<1>1. /\ rbEtcd \in RolesState /\ rbFetch \in [RolesQuery -> RolesReading]
      /\ rbGone \in RolesGone /\ rbDoubt \subseteq RolesQuery
  BY RolesTypes
<1>2. /\ rbFetch' = [rbFetch EXCEPT ![q] = f]
      /\ rbGone' = IF q = "users" THEN [rbGone EXCEPT !.read = {}] ELSE rbGone
      /\ rbDoubt' = rbDoubt \ {q}
      /\ UNCHANGED <<rbEtcd, rbShown, rbCalls, rbCount, rbForm, rbKnown>>
  BY DEF Lists
<1>3. data \in RolesState /\ names \in SUBSET RbName
  BY <1>1 DEF RolesState, RbName, RolesQuery
<1>4. f \in RolesReading /\ f.at = "listed" /\ f.data = data /\ f.known = {}
  BY <1>3 DEF RolesReading
<1>5. \A gone: Tells(q, data, rbEtcd, {}, gone)
  BY <1>1 DEF Tells, RolesState, RolesQuery
<1> HIDE DEF f, data
<1>6. /\ rbFetch' \in [RolesQuery -> RolesReading] /\ rbFetch'[q] = f
      /\ \A p \in RolesQuery: p # q => rbFetch'[p] = rbFetch[p]
  BY <1>1, <1>2, <1>4
<1>7. rbGone' \in RolesGone
  BY <1>1, <1>2 DEF RolesGone
<1>8. ASSUME NEW p \in RolesQuery PROVE QueryOK(p)'
  <2>1. CASE p = q
    <3>1. Tells(q, rbFetch'[q].data, rbEtcd', rbFetch'[q].known, rbGone'.read)
      BY <1>2, <1>4, <1>5, <1>6
    <3>2. rbFetch'[q].at = "listed"
      BY <1>4, <1>6
    <3> QED
      BY <2>1, <3>1, <3>2 DEF QueryOK, Tells
  <2>2. CASE p # q
    <3>1. /\ rbFetch'[p] = rbFetch[p] /\ rbKnown'[p] = rbKnown[p] /\ rbShown' = rbShown
          /\ p \in rbDoubt => p \in rbDoubt'
          /\ p = "users" => rbGone' = rbGone
          /\ Passes(p, rbShown, rbShown')
      BY <1>2, <1>6, <2>2 DEF Passes
    <3> QED
      BY <1>2, <2>2, <3>1, OthersTell
  <2> QED
    BY <2>1, <2>2
<1>9. rbDoubt' \subseteq RolesQuery
  BY <1>1, <1>2
<1> QED
  BY <1>2, <1>6, <1>7, <1>8, <1>9, RolesTypes, RolesTyped

LEMMA GotOK ==
  ASSUME NEW data \in RolesState, NEW n, NEW q \in RolesQuery, NEW known, NEW gone,
         rbEtcd \in RolesState, Tells(q, data, rbEtcd, known, gone)
  PROVE  /\ Got(data, n, q) \in RolesState
         /\ Tells(q, Got(data, n, q), rbEtcd, known \cup {n}, gone)
<1> DEFINE G == {g \in rbEtcd.grants : g[1] = n}
           P == rbEtcd.perms \cap {n}
<1>1. /\ data.grants \in SUBSET (RbUser \X RbRole) /\ data.perms \in SUBSET RbRole
      /\ G \in SUBSET (RbUser \X RbRole) /\ P \in SUBSET RbRole
  BY DEF RolesState
<1>2. CASE q = "users"
  <2>1. Got(data, n, q) = [data EXCEPT !.grants = data.grants \cup G]
    BY <1>2 DEF Got
  <2>2. \A u \in RbUser, r \in RbRole: <<u, r>> \in G <=> u = n /\ <<u, r>> \in rbEtcd.grants
    OBVIOUS
  <2> HIDE DEF G
  <2>3. Got(data, n, q) \in RolesState
    BY <1>1, <2>1 DEF RolesState
  <2>4. Got(data, n, q).users = data.users /\ Got(data, n, q).grants = data.grants \cup G
    BY <2>1 DEF RolesState
  <2>5. /\ data.users = rbEtcd.users
        /\ \A u \in RbUser, r \in RbRole:
             /\ <<u, r>> \in data.grants =>
                  u \in known /\ (<<u, r>> \in rbEtcd.grants \/ r \in gone)
             /\ <<u, r>> \in rbEtcd.grants /\ u \in known => <<u, r>> \in data.grants
    BY <1>2 DEF Tells
  <2>6. \A u \in RbUser, r \in RbRole:
          /\ <<u, r>> \in data.grants \cup G =>
               u \in known \cup {n} /\ (<<u, r>> \in rbEtcd.grants \/ r \in gone)
          /\ <<u, r>> \in rbEtcd.grants /\ u \in known \cup {n} => <<u, r>> \in data.grants \cup G
    BY <2>2, <2>5
  <2> QED
    BY <1>2, <2>3, <2>4, <2>5, <2>6 DEF Tells
<1>3. CASE q # "users"
  <2>1. Got(data, n, q) = [data EXCEPT !.perms = data.perms \cup P]
    BY <1>3 DEF Got
  <2>2. Got(data, n, q) \in RolesState
    BY <1>1, <2>1 DEF RolesState
  <2>3. /\ Got(data, n, q).auth = data.auth /\ Got(data, n, q).roles = data.roles
        /\ Got(data, n, q).perms = data.perms \cup P
    BY <2>1 DEF RolesState
  <2> QED
    BY <1>3, <2>2, <2>3 DEF Tells, RolesQuery
<1> QED
  BY <1>2, <1>3

LEMMA GetsOK ==
  ASSUME RolesInv, NEW q \in RolesQuery, NEW n \in rbFetch[q].left, Gets(q, n)
  PROVE  RolesInv'
<1>1. /\ rbEtcd \in RolesState /\ rbFetch \in [RolesQuery -> RolesReading]
      /\ UNCHANGED <<rbEtcd, rbShown, rbCalls, rbCount, rbForm, rbKnown, rbGone, rbDoubt>>
  BY RolesTypes DEF Gets, rbPast
<1>2. PICK f \in RolesReading: f = rbFetch[q]
  BY <1>1
<1>3. /\ f.at \in {"none", "sent", "listed"} /\ f.data \in RolesState
      /\ f.left \in SUBSET RbName /\ f.known \in SUBSET RbName /\ n \in RbName
  BY <1>2 DEF RolesReading
<1>4. PICK g \in {[f EXCEPT !.data = Got(f.data, n, q), !.left = @ \ {n}, !.known = @ \cup {n}],
                  [f EXCEPT !.left = @ \ {n}]}:
        rbFetch' = [rbFetch EXCEPT ![q] = g]
  BY <1>2 DEF Gets
<1>5. /\ g.at = f.at /\ g.left = f.left \ {n}
      /\ \/ g.data = f.data /\ g.known = f.known
         \/ g.data = Got(f.data, n, q) /\ g.known = f.known \cup {n}
      /\ g = [at |-> g.at, data |-> g.data, left |-> g.left, known |-> g.known]
  BY <1>2, <1>4 DEF RolesReading
<1>6. ASSUME Tells(q, f.data, rbEtcd, f.known, rbGone.read)
      PROVE  Tells(q, g.data, rbEtcd, g.known, rbGone.read)
  <2>1. Tells(q, Got(f.data, n, q), rbEtcd, f.known \cup {n}, rbGone.read)
    BY <1>1, <1>3, <1>6, GotOK
  <2> QED
    BY <1>5, <1>6, <2>1
<1>7. g.data \in RolesState
  BY <1>1, <1>3, <1>5 DEF Got, RolesState
<1>8. g \in RolesReading
  BY <1>3, <1>5, <1>7 DEF RolesReading
<1>9. /\ rbFetch' \in [RolesQuery -> RolesReading] /\ rbFetch'[q] = g
      /\ \A p \in RolesQuery: p # q => rbFetch'[p] = rbFetch[p]
  BY <1>1, <1>4, <1>8
<1>10. ASSUME NEW p \in RolesQuery PROVE QueryOK(p)'
  <2>1. CASE p = q
    <3>1. QueryOK(q) /\ (Due(q) => Due(q)')
      BY <1>1, RolesTypes DEF Due
    <3>2. \/ q \in rbDoubt \/ Due(q)' \/ g.at = "sent"
          \/ g.at = "listed" /\ Tells(q, g.data, rbEtcd, g.known, rbGone.read)
          \/ g.at = "none" /\ Tells(q, rbShown, rbEtcd, rbKnown[q], rbGone.shown)
      BY <1>2, <1>5, <1>6, <3>1, Zenon DEF QueryOK
    <3> QED
      BY <1>1, <1>9, <2>1, <3>2 DEF QueryOK, Tells
  <2>2. CASE p # q
    <3>1. Passes(p, rbShown, rbShown')
      BY <1>1 DEF Passes
    <3> QED
      BY <1>1, <1>9, <2>2, <3>1, OthersTell
  <2> QED
    BY <2>1, <2>2
<1> QED
  BY <1>1, <1>9, <1>10, RolesTypes, RolesTyped

LEMMA DeliveredOK == ASSUME RolesInv, NEW q \in RolesQuery, Delivered(q) PROVE RolesInv'
<1> DEFINE f == rbFetch[q]
<1>1. /\ rbShown \in RolesState /\ rbFetch \in [RolesQuery -> RolesReading]
      /\ rbKnown \in [RolesQuery -> SUBSET RbName] /\ rbGone \in RolesGone
      /\ rbDoubt \subseteq RolesQuery
      /\ UNCHANGED <<rbEtcd, rbCalls, rbCount, rbForm>>
      /\ rbFetch' = [rbFetch EXCEPT ![q] = NoRead]
  BY RolesTypes DEF Delivered
<1>2. f.data \in RolesState /\ f.known \in SUBSET RbName
  BY <1>1 DEF RolesReading
<1>3. /\ rbFetch' \in [RolesQuery -> RolesReading] /\ rbFetch'[q] = NoRead
      /\ \A p \in RolesQuery: p # q => rbFetch'[p] = rbFetch[p]
  BY <1>1, ClustersOK
<1>4. CASE UNCHANGED <<rbShown, rbKnown, rbGone>> /\ rbDoubt' = rbDoubt \cup {q}
  <2>1. ASSUME NEW p \in RolesQuery PROVE QueryOK(p)'
    <3>1. CASE p = q
      BY <1>4, <3>1 DEF QueryOK
    <3>2. CASE p # q
      <4>1. Passes(p, rbShown, rbShown')
        BY <1>4 DEF Passes
      <4> QED
        BY <1>1, <1>3, <1>4, <3>2, <4>1, OthersTell
    <3> QED
      BY <3>1, <3>2
  <2>2. rbDoubt' \subseteq RolesQuery
    BY <1>1, <1>4
  <2> QED
    BY <1>1, <1>3, <1>4, <2>1, <2>2, RolesTypes, RolesTyped
<1>5. CASE /\ f.at = "listed" /\ UNCHANGED rbDoubt
           /\ rbShown' = CASE q = "status" -> [rbShown EXCEPT !.auth = f.data.auth]
                           [] q = "users" -> [rbShown EXCEPT !.users = f.data.users,
                                                             !.grants = f.data.grants]
                           [] q = "roles" -> [rbShown EXCEPT !.roles = f.data.roles,
                                                             !.perms = f.data.perms]
           /\ rbKnown' = [rbKnown EXCEPT ![q] = f.known]
           /\ rbGone' = IF q = "users" THEN [rbGone EXCEPT !.shown = rbGone.read] ELSE rbGone
  <2>1. PICK s: s = rbShown'
    OBVIOUS
  <2>2. /\ s \in RolesState
        /\ \A p \in RolesQuery \ {q}: SameTold(p, rbShown, s)
        /\ SameTold(q, f.data, s)
    <3>1. CASE q = "status"
      <4>1. s = [rbShown EXCEPT !.auth = f.data.auth]
        BY <1>5, <2>1, <3>1
      <4>2. /\ s.auth = f.data.auth /\ s.users = rbShown.users /\ s.grants = rbShown.grants
            /\ s.roles = rbShown.roles /\ s.perms = rbShown.perms /\ s \in RolesState
        BY <1>1, <1>2, <4>1 DEF RolesState
      <4> QED
        BY <3>1, <4>2 DEF SameTold, RolesQuery
    <3>2. CASE q = "users"
      <4>1. s = [rbShown EXCEPT !.users = f.data.users, !.grants = f.data.grants]
        BY <1>5, <2>1, <3>2
      <4>2. /\ s.auth = rbShown.auth /\ s.users = f.data.users /\ s.grants = f.data.grants
            /\ s.roles = rbShown.roles /\ s.perms = rbShown.perms /\ s \in RolesState
        BY <1>1, <1>2, <4>1 DEF RolesState
      <4> QED
        BY <3>2, <4>2 DEF SameTold, RolesQuery
    <3>3. CASE q = "roles"
      <4>1. s = [rbShown EXCEPT !.roles = f.data.roles, !.perms = f.data.perms]
        BY <1>5, <2>1, <3>3
      <4>2. /\ s.auth = rbShown.auth /\ s.users = rbShown.users /\ s.grants = rbShown.grants
            /\ s.roles = f.data.roles /\ s.perms = f.data.perms /\ s \in RolesState
        BY <1>1, <1>2, <4>1 DEF RolesState
      <4> QED
        BY <3>3, <4>2 DEF SameTold, RolesQuery
    <3> QED
      BY <3>1, <3>2, <3>3 DEF RolesQuery
  <2>3. /\ rbKnown' \in [RolesQuery -> SUBSET RbName] /\ rbKnown'[q] = f.known
        /\ \A p \in RolesQuery: p # q => rbKnown'[p] = rbKnown[p]
    BY <1>1, <1>2, <1>5
  <2>4. rbGone' \in RolesGone /\ (q = "users" => rbGone'.shown = rbGone.read)
        /\ (q # "users" => rbGone' = rbGone)
    BY <1>1, <1>5 DEF RolesGone
  <2>5. ASSUME NEW p \in RolesQuery PROVE QueryOK(p)'
    <3>1. CASE p # q
      <4>1. Passes(p, rbShown, rbShown')
        BY <2>1, <2>2, <3>1, SamePasses
      <4>2. p = "users" => rbGone' = rbGone
        BY <2>4, <3>1
      <4> QED
        BY <1>1, <1>3, <1>5, <2>3, <3>1, <4>1, <4>2, OthersTell
    <3>2. CASE p = q
      <4>1. QueryOK(q) /\ (Due(q) => Due(q)')
        BY <1>1, RolesTypes DEF Due
      <4>2. rbFetch'[q].at = "none"
        BY <1>3 DEF NoRead
      <4>3. ASSUME Tells(q, f.data, rbEtcd, f.known, rbGone.read)
            PROVE  Tells(q, s, rbEtcd, f.known, rbGone'.shown)
        <5>1. Tells(q, s, rbEtcd, f.known, rbGone.read)
          BY <2>2, <4>3, SamePasses DEF Passes
        <5>2. CASE q = "users"
          BY <2>4, <5>1, <5>2
        <5>3. CASE q # "users"
          BY <5>1, <5>3 DEF Tells, RolesQuery
        <5> QED
          BY <5>2, <5>3
      <4>4. q \in rbDoubt \/ Due(q)' \/ Tells(q, s, rbEtcd, f.known, rbGone'.shown)
        BY <1>5, <4>1, <4>3, Zenon DEF QueryOK
      <4> QED
        BY <1>1, <1>5, <2>1, <2>3, <3>2, <4>2, <4>4 DEF QueryOK, Tells
    <3> QED
      BY <3>1, <3>2
  <2>6. rbShown' \in RolesState /\ rbDoubt' \subseteq RolesQuery
    BY <1>1, <1>5, <2>1, <2>2
  <2> QED
    BY <1>1, <1>3, <2>3, <2>4, <2>5, <2>6, RolesTypes, RolesTyped
<1> QED
  BY <1>4, <1>5 DEF Delivered

LEMMA RolesStepOK == RolesInv /\ RolesNext => RolesInv'
<1> SUFFICES ASSUME RolesInv, RolesNext PROVE RolesInv'
  OBVIOUS
<1>1. /\ rbForm \in Form
      /\ Form = [user: RbUser \cup {""}, role: RbRole \cup {""}, perm: RbRole \cup {""}]
  BY RolesTypes DEF Form
<1>2. ASSUME NEW u \in RbUser, NEW r \in RbRole,
             ToggleAuth(u, r) \/ DeleteUser(u, r) \/ GrantRole(u, r) \/ DeleteRole(u, r)
      PROVE  RolesInv'
  <2>1. rbForm' \in Form
    BY <1>1, <1>2 DEF ToggleAuth, DeleteUser, GrantRole, DeleteRole
  <2>2. \/ Mutate("disable", u, r) \/ Mutate("enable", u, r) \/ Mutate("delUser", u, r)
        \/ Mutate("grantRole", u, r) \/ Mutate("delRole", u, r)
    BY <1>2 DEF ToggleAuth, DeleteUser, GrantRole, DeleteRole
  <2> QED
    BY <2>1, <2>2, MutateOK
<1>3. ASSUME NEW u \in RbUser, TypeUser(u) PROVE RolesInv'
  <2>1. [rbForm EXCEPT !.user = u] \in Form
    BY <1>1
  <2> QED
    BY <1>3, <2>1, FillFormOK DEF TypeUser
<1>4. ASSUME NEW r \in RbRole, TypeRole(r) \/ PickRole(r) PROVE RolesInv'
  <2>1. [rbForm EXCEPT !.role = r] \in Form /\ [rbForm EXCEPT !.perm = r] \in Form
    BY <1>1
  <2> QED
    BY <1>4, <2>1, FillFormOK DEF TypeRole, PickRole
<1>5. ASSUME NEW u \in RbUser, AddRole(u) PROVE RolesInv'
  <2>1. rbForm.role \in RbRole /\ rbForm' \in Form /\ Mutate("addRole", u, rbForm.role)
    BY <1>1, <1>5 DEF AddRole
  <2> QED
    BY <2>1, MutateOK
<1>6. ASSUME NEW u \in RbUser, GrantPermission(u) PROVE RolesInv'
  <2>1. rbForm.perm \in RbRole /\ rbForm' \in Form /\ Mutate("grantPerm", u, rbForm.perm)
    BY <1>1, <1>6 DEF GrantPermission
  <2> QED
    BY <2>1, MutateOK
<1>7. ASSUME NEW r \in RbRole, AddUser(r) PROVE RolesInv'
  <2>1. rbForm.user \in RbUser /\ rbForm' \in Form /\ Mutate("addUser", rbForm.user, r)
    BY <1>1, <1>7 DEF AddUser
  <2> QED
    BY <2>1, MutateOK
<1> QED
  BY <1>2, <1>3, <1>4, <1>5, <1>6, <1>7, HandledOK, AnswersOK, ListsOK, GetsOK, DeliveredOK
     DEF RolesNext

LEMMA RolesInConsole ==
  ASSUME RolesInv, [ConsoleNext]_consoleVars, route = "rbac"
  PROVE  RolesInv'
<1>1. CASE UNCHANGED rbVars
  <2>1. /\ UNCHANGED <<rbEtcd, rbShown, rbFetch, rbPast, rbForm>>
        /\ rbCalls' = rbCalls /\ rbCount' = rbCount
    BY <1>1 DEF rbVars
  <2> QED
    BY <2>1, RolesTypes, FormsOK
<1>2. RolesNext \/ UNCHANGED rbVars
  BY DEF ConsoleNext, KeyPages, OtherPages, FormPages, Cards, Widgets, consoleVars
<1> QED
  BY <1>1, <1>2, RolesStepOK

\* In whatever order mutations, the calls of a listing and answers come, a page at
\* rest shows the users, the roles and what they may as they are, but for what was
\* cut short, for names whose own call failed, and for grants of roles that are gone.
THEOREM RolesShown == ConsoleSpec => []RolesShowWhatIsHere
<1> DEFINE Inv == route = "rbac" => RolesInv
<1>1. ConsoleInit => Inv
  BY RolesInitOK DEF ConsoleInit
<1>2. Inv /\ [ConsoleNext]_consoleVars => Inv'
  BY RolesInConsole, RouteStays
<1>3. RolesInv => RolesShowWhatIs
  <2>1. ASSUME RolesInv, rbCalls = {}, \A q \in RolesQuery: rbFetch[q].at = "none",
               NEW q \in RolesQuery
        PROVE  q \in rbDoubt \/ Tells(q, rbShown, rbEtcd, rbKnown[q], rbGone.shown)
    BY <2>1 DEF RolesInv, QueryOK, Due
  <2> QED
    BY <2>1 DEF RolesShowWhatIs
<1>4. Inv => RolesShowWhatIsHere
  BY <1>3 DEF RolesShowWhatIsHere, RolesInv
<1> QED
  BY <1>1, <1>2, <1>4, PTL DEF ConsoleSpec

----------------------------------------------------------------------------
(***************************************************************************)
(* Numbers: a set of them that is not empty has a least one.  It stands in *)
(* for induction.                                                          *)
(***************************************************************************)
LEMMA LeastExists ==
  ASSUME NEW S \in SUBSET Nat, S # {}
  PROVE  \E x \in S: \A y \in S: x <= y
<1> DEFINE R == OpToRel(<, Nat)
<1>1. \E x \in S: \A y \in S: <<y, x>> \notin R
  BY WFMin, NatLessThanWellFounded
<1>2. \A x, y \in Nat: y < x => <<y, x>> \in R
  BY DEF OpToRel
<1> HIDE DEF R
<1>3. PICK x \in S: \A y \in S: <<y, x>> \notin R
  BY <1>1, Zenon
<1>4. \A y \in S: ~(y < x)
  BY <1>2, <1>3, Zenon
<1>5. \A y \in S: x <= y
  BY <1>4
<1> QED
  BY <1>5

LEMMA MinIsLeast ==
  ASSUME NEW S \in SUBSET Nat, S # {}
  PROVE  Min(S) \in S /\ \A y \in S: Min(S) <= y
<1>1. \E x \in S: \A y \in S: x <= y
  BY LeastExists
<1> QED
  BY <1>1 DEF Min

----------------------------------------------------------------------------
(***************************************************************************)
(* The views of the access rules.  Of a cell that shows rules, the key to  *)
(* ask for is the prefix of the rule whose access is shown, or no key if   *)
(* that is the whole keyspace: rules for the cluster itself score higher   *)
(* than those for any, and a longer prefix does not apply.                 *)
(***************************************************************************)
LEMMA RuleFields ==
  ASSUME NEW r \in Rule
  PROVE  /\ r.user \in AvUser /\ r.cluster \in AvCluster \cup {EveryCluster}
         /\ r.prefix \in AvPrefix /\ r.access \in 1..3
BY AccessViewsAssumption DEF Rule

LEMMA HighestAccess ==
  ASSUME NEW S \in SUBSET Rule, S # {}
  PROVE  /\ \E r \in S: r.access = Max({q.access : q \in S})
         /\ \A r \in S: r.access <= Max({q.access : q \in S})
<1> DEFINE A == {q.access : q \in S}
<1>1. A \subseteq 1..3 /\ A # {}
  BY RuleFields
<1>2. \E x \in A: \A y \in A: x >= y
  <2> HIDE DEF A
  <2>1. CASE 3 \in A
    BY <1>1, <2>1
  <2>2. CASE 3 \notin A /\ 2 \in A
    BY <1>1, <2>2
  <2>3. CASE 3 \notin A /\ 2 \notin A
    <3>1. \A y \in A: y = 1
      BY <1>1, <2>3
    <3>2. 1 \in A
      BY <1>1, <3>1
    <3> QED
      BY <3>1, <3>2
  <2> QED
    BY <2>1, <2>2, <2>3
<1>3. Max(A) \in A /\ \A y \in A: Max(A) >= y
  <2> HIDE DEF A
  <2> QED
    BY <1>2 DEF Max
<1>4. \A r \in S: r.access \in A /\ r.access \in 1..3
  BY RuleFields
<1>5. Max(A) \in 1..3
  <2> HIDE DEF A
  <2> QED
    BY <1>1, <1>3
<1> QED
  BY <1>3, <1>4, <1>5

\* What the score adds for a prefix.
Weight(p) == IF Scope(p) = NoPrefix THEN 0 ELSE LengthOf[p]

LEMMA ScoreIs ==
  ASSUME NEW r \in Rule, NEW c
  PROVE  /\ Weight(r.prefix) \in Nat
         /\ Score(r, c) = (IF r.cluster = c THEN 100 ELSE 10) + Weight(r.prefix)
         /\ Score(r, c) \in Nat
<1>1. Weight(r.prefix) \in Nat
  BY RuleFields, AccessViewsAssumption DEF Weight
<1>2. Score(r, c) = (IF r.cluster = c THEN 100 ELSE 10) + Weight(r.prefix)
  BY DEF Score, Weight
<1> QED
  BY <1>1, <1>2

\* Of the prefixes of a prefix, it is the longest.
LEMMA LongestIsOwn ==
  ASSUME NEW p \in AvPrefix, NEW q \in AvPrefix,
         Scope(q) # NoPrefix => Scope(p) \in StartWith[q]
  PROVE  /\ Weight(q) <= Weight(p)
         /\ Weight(q) = Weight(p) => Scope(q) = Scope(p)
<1>0. /\ NoPrefix \in AvPrefix
      /\ \A s \in AvPrefix: LengthOf[s] \in Nat
      /\ StartWith[NoPrefix] = AvKey /\ AvPrefix \subseteq AvKey
      /\ \A s, t \in AvPrefix: s \in StartWith[t] => s = t \/ LengthOf[t] < LengthOf[s]
  BY AccessViewsAssumption
<1>1. ASSUME NEW s \in AvPrefix, s # NoPrefix
      PROVE  LengthOf[NoPrefix] < LengthOf[s]
  <2>1. s \in StartWith[NoPrefix]
    BY <1>0, Zenon
  <2> QED
    BY <1>0, <1>1, <2>1, Zenon
<1>2. ASSUME NEW s \in AvPrefix, Scope(s) # NoPrefix
      PROVE  s # NoPrefix /\ Scope(s) = s /\ Weight(s) = LengthOf[s]
  BY <1>2, Zenon DEF Scope, Weight
<1>3. ASSUME NEW s \in AvPrefix, Scope(s) = NoPrefix
      PROVE  Weight(s) = 0
  BY <1>3, Zenon DEF Weight
<1>4. PICK l, m, n: l = LengthOf[NoPrefix] /\ m = LengthOf[p] /\ n = LengthOf[q]
                    /\ l \in Nat /\ m \in Nat /\ n \in Nat
  BY <1>0, Zenon
<1>5. CASE Scope(q) = NoPrefix
  <2>1. CASE Scope(p) = NoPrefix
    <3>1. Weight(q) = 0 /\ Weight(p) = 0
      BY <1>3, <1>5, <2>1, Zenon
    <3> QED
      BY <1>5, <2>1, <3>1
  <2>2. CASE Scope(p) # NoPrefix
    <3>1. Weight(q) = 0 /\ Weight(p) = m /\ l < m
      BY <1>1, <1>2, <1>3, <1>4, <1>5, <2>2, Zenon
    <3>2. 0 <= m /\ m # 0
      BY <1>4, <3>1
    <3> QED
      BY <3>1, <3>2, Zenon
  <2> QED
    BY <2>1, <2>2
<1>6. CASE Scope(q) # NoPrefix
  <2>1. Scope(p) \in StartWith[q] /\ n = Weight(q) /\ l < n
    BY <1>1, <1>2, <1>4, <1>6, Zenon
  <2>2. CASE Scope(p) = NoPrefix
    <3>1. NoPrefix = q \/ n < l
      BY <1>0, <1>4, <2>1, <2>2, Zenon
    <3> QED
      BY <1>2, <1>4, <1>6, <2>1, <3>1
  <2>3. CASE Scope(p) # NoPrefix
    <3>1. m = Weight(p) /\ (p = q \/ n < m)
      BY <1>0, <1>2, <1>4, <2>1, <2>3, Zenon
    <3>2. p = q \/ (n <= m /\ n # m)
      BY <1>4, <3>1
    <3>3. p = q => n <= m
      BY <1>4
    <3> QED
      BY <2>1, <3>1, <3>2, <3>3, Zenon
  <2> QED
    BY <2>2, <2>3
<1> QED
  BY <1>5, <1>6

\* Does a rule score no more than another, and as much only with its scope?
Behind(q, r, c) ==
  /\ Score(q, c) <= Score(r, c)
  /\ Score(q, c) = Score(r, c) => q.cluster = r.cluster /\ Scope(q.prefix) = Scope(r.prefix)

\* Does it apply where the other's scope begins, which is for the cluster if it is?
Under(q, r, u, c) ==
  /\ q \in Rule /\ r \in Rule
  /\ r.cluster \in {c, EveryCluster} /\ (q.cluster = c => r.cluster = c)
  /\ Applies(q, u, c, Scope(r.prefix))

LEMMA ScoreOrder ==
  ASSUME NEW q, NEW r, NEW u, NEW c, Under(q, r, u, c)
  PROVE  Behind(q, r, c)
<1>0. /\ q \in Rule /\ r \in Rule
      /\ r.cluster \in {c, EveryCluster} /\ (q.cluster = c => r.cluster = c)
      /\ Applies(q, u, c, Scope(r.prefix))
  BY DEF Under
<1>1. /\ Weight(q.prefix) <= Weight(r.prefix)
      /\ Weight(q.prefix) = Weight(r.prefix) => Scope(q.prefix) = Scope(r.prefix)
  <2>1. q.prefix \in AvPrefix /\ r.prefix \in AvPrefix
    BY <1>0, RuleFields
  <2>2. Scope(q.prefix) # NoPrefix => Scope(r.prefix) \in StartWith[q.prefix]
    BY <1>0, Zenon DEF Applies
  <2> QED
    BY <2>1, <2>2, LongestIsOwn
<1>2. q.cluster \in {c, EveryCluster}
  BY <1>0 DEF Applies
<1>3. PICK m, n: m = Weight(q.prefix) /\ n = Weight(r.prefix) /\ m \in Nat /\ n \in Nat
  BY <1>0, ScoreIs
<1>4. /\ q.cluster = c => Score(q, c) = 100 + m
      /\ q.cluster # c => Score(q, c) = 10 + m
      /\ r.cluster = c => Score(r, c) = 100 + n
      /\ r.cluster # c => Score(r, c) = 10 + n
  BY <1>0, <1>3, ScoreIs
<1>5. m <= n
  BY <1>1, <1>3
<1>6. q.cluster = c => r.cluster = c
  BY <1>0, Zenon
<1>7. /\ Score(q, c) <= Score(r, c)
      /\ Score(q, c) = Score(r, c) => m = n /\ (q.cluster = c <=> r.cluster = c)
  BY <1>3, <1>4, <1>5, <1>6
<1> QED
  BY <1>0, <1>1, <1>2, <1>3, <1>7 DEF Behind

\* Resolve gives the access of one of the rules that score highest.
LEMMA ResolvesTop ==
  ASSUME NEW rules \in Seq(Rule), NEW u, NEW c, NEW key
  PROVE  /\ Top(rules, u, c, key) = {} => Resolve(rules, u, c, key) = Nobody
         /\ \A j \in Top(rules, u, c, key): \E i \in Top(rules, u, c, key):
              i <= j /\ Resolve(rules, u, c, key) = rules[i].access
<1> DEFINE T == Top(rules, u, c, key)
<1>1. T \in SUBSET Nat
  BY DEF Top
<1>2. Resolve(rules, u, c, key) = IF T = {} THEN Nobody ELSE rules[Min(T)].access
  BY DEF Resolve
<1> HIDE DEF T
<1>3. T # {} => Min(T) \in T /\ \A j \in T: Min(T) <= j
  BY <1>1, MinIsLeast
<1> QED
  BY <1>2, <1>3 DEF T

LEMMA TopIs ==
  ASSUME NEW rules \in Seq(Rule), NEW u, NEW c, NEW key, NEW i
  PROVE  i \in Top(rules, u, c, key) <=>
           /\ i \in DOMAIN rules /\ Applies(rules[i], u, c, key)
           /\ \A j \in DOMAIN rules: Applies(rules[j], u, c, key) =>
                Score(rules[j], c) <= Score(rules[i], c)
BY DEF Top

\* The filter keeps all rules of a user, or none.
LEMMA FilterKeeps ==
  ASSUME NEW u \in {r.user : r \in FilteredRules}
  PROVE  /\ FilteredRules \subseteq ToSet(avBefore)
         /\ \A q \in ToSet(avBefore): q.user = u => q \in FilteredRules
BY DEF FilteredRules

\* A cell that shows something has a key for which a rule of its access counts, or
\* one that stands before it.
LEMMA CellHasKey ==
  ASSUME avBefore \in Seq(Rule), NEW u \in {r.user : r \in FilteredRules}, NEW c,
         ShownRules(FilteredRules, u, c) # {}
  PROVE  \E key \in AvKey, i, j \in DOMAIN avBefore:
           /\ i <= j /\ avBefore[j] \in ShownRules(FilteredRules, u, c)
           /\ avBefore[j].access = ShownAccess(FilteredRules, u, c)
           /\ Resolve(avBefore, u, c, key) = avBefore[i].access
           /\ avBefore[i].access # avBefore[j].access => Precedes(avBefore[i], avBefore[j])
<1> DEFINE F == FilteredRules
           S == ShownRules(F, u, c)
<1>1. \A i \in DOMAIN avBefore: avBefore[i] \in Rule /\ avBefore[i] \in ToSet(avBefore)
  BY DEF ToSet
<1>2. F \subseteq ToSet(avBefore) /\ \A q \in ToSet(avBefore): q.user = u => q \in F
  BY FilterKeeps
<1>3. S \subseteq {q \in F : q.user = u /\ q.cluster \in {c, EveryCluster}}
  BY DEF ShownRules, CellRules
<1>4. S \in SUBSET Rule /\ S # {}
  BY <1>1, <1>2, <1>3 DEF ToSet
<1>5. PICK r \in S: r.access = ShownAccess(F, u, c)
  <2>1. ShownAccess(F, u, c) = Max({q.access : q \in S})
    BY DEF ShownAccess
  <2> HIDE DEF S
  <2> QED
    BY <1>4, <2>1, HighestAccess
<1>6. PICK j \in DOMAIN avBefore: avBefore[j] = r
  BY <1>2, <1>3, <1>5 DEF ToSet
<1>7. r \in Rule /\ r \in F /\ r.user = u /\ r.cluster \in {c, EveryCluster}
  BY <1>3, <1>4, <1>5
<1>8. \A q \in F: q.user = u /\ q.cluster = c => r.cluster = c
  <2>1. ASSUME NEW q \in F, q.user = u, q.cluster = c PROVE r.cluster = c
    <3>1. CellRules(F, u, c) # {}
      BY <2>1 DEF CellRules
    <3>2. S = CellRules(F, u, c)
      BY <3>1 DEF ShownRules
    <3> QED
      BY <1>5, <3>2 DEF CellRules
  <2> QED
    BY <2>1
<1> DEFINE key == Scope(r.prefix)
<1>9. key \in AvKey /\ Applies(r, u, c, key)
  BY <1>7, RuleFields, AccessViewsAssumption DEF Scope, Applies
<1>10. ASSUME NEW i \in DOMAIN avBefore, Applies(avBefore[i], u, c, key)
       PROVE  Behind(avBefore[i], r, c)
  <2>1. avBefore[i] \in Rule /\ avBefore[i].user = u
    BY <1>1, <1>10 DEF Applies
  <2>2. avBefore[i].cluster = c => r.cluster = c
    BY <1>1, <1>2, <1>8, <2>1
  <2> HIDE DEF F, S, key
  <2>3. Applies(avBefore[i], u, c, Scope(r.prefix))
    BY <1>10 DEF key
  <2>4. avBefore[i] \in Rule /\ r \in Rule /\ r.cluster \in {c, EveryCluster}
    BY <1>7, <2>1, Zenon
  <2>5. Under(avBefore[i], r, u, c)
    BY <2>2, <2>3, <2>4 DEF Under
  <2> QED
    BY <2>5, ScoreOrder, Zenon
<1> HIDE DEF key
<1>11. j \in Top(avBefore, u, c, key)
  BY <1>6, <1>9, <1>10, TopIs DEF Behind
<1>12. PICK i \in Top(avBefore, u, c, key):
         i <= j /\ Resolve(avBefore, u, c, key) = avBefore[i].access
  BY <1>11, ResolvesTop
<1>13. i \in DOMAIN avBefore /\ Applies(avBefore[i], u, c, key)
       /\ Score(r, c) <= Score(avBefore[i], c)
  BY <1>6, <1>9, <1>12, TopIs
<1>14. Score(avBefore[i], c) = Score(r, c)
  <2>1. Score(avBefore[i], c) \in Nat /\ Score(r, c) \in Nat
    BY <1>1, <1>7, <1>13, ScoreIs
  <2> QED
    BY <1>10, <1>13, <2>1 DEF Behind
<1>15. avBefore[i].access # r.access => Precedes(avBefore[i], r)
  BY <1>7, <1>10, <1>13, <1>14 DEF Precedes, Applies, Behind
<1> QED
  BY <1>5, <1>6, <1>9, <1>12, <1>13, <1>15

LEMMA CellsHold == AccessViewsTypeOK => CellsAreGranted
<1> SUFFICES ASSUME AccessViewsTypeOK,
                    NEW u \in {r.user : r \in FilteredRules},
                    NEW c \in AvCluster \cup {EveryCluster}
             PROVE
    LET shown == ShownRules(FilteredRules, u, c)
        access == ShownAccess(FilteredRules, u, c)
    IN /\ shown = {} <=> \A key \in AvKey: Resolve(avBefore, u, c, key) = Nobody
       /\ \/ shown = {}
          \/ \E key \in AvKey: Resolve(avBefore, u, c, key) = access
          \/ \E i, j \in DOMAIN avBefore: i < j /\ Precedes(avBefore[i], avBefore[j])
                                       /\ avBefore[j] \in shown /\ avBefore[j].access = access
       /\ \A key \in AvKey:
            \/ Resolve(avBefore, u, c, key) = Nobody
            \/ \E d \in {c, EveryCluster}:
                 /\ ShownRules(FilteredRules, u, d) # {}
                 /\ Resolve(avBefore, u, c, key) <= ShownAccess(FilteredRules, u, d)
  BY DEF CellsAreGranted
<1> DEFINE F == FilteredRules
           S == ShownRules(F, u, c)
<1>0. avBefore \in Seq(Rule)
  BY DEF AccessViewsTypeOK
<1>1. \A i \in DOMAIN avBefore: avBefore[i] \in Rule /\ avBefore[i] \in ToSet(avBefore)
  BY <1>0 DEF ToSet
<1>2. F \subseteq Rule /\ \A q \in ToSet(avBefore): q.user = u => q \in F
  <2>1. F \subseteq ToSet(avBefore) /\ \A q \in ToSet(avBefore): q.user = u => q \in F
    BY FilterKeeps
  <2>2. ToSet(avBefore) \subseteq Rule
    BY <1>0 DEF ToSet
  <2> QED
    BY <2>1, <2>2
\* What counts for a key is in the cell for the cluster, or in that for any.
<1>3. ASSUME NEW key \in AvKey, Resolve(avBefore, u, c, key) # Nobody
      PROVE  \E d \in {c, EveryCluster}:
               /\ ShownRules(F, u, d) # {} /\ (d = c \/ ShownRules(F, u, c) # {})
               /\ Resolve(avBefore, u, c, key) <= ShownAccess(F, u, d)
  <2>1. PICK i \in Top(avBefore, u, c, key): Resolve(avBefore, u, c, key) = avBefore[i].access
    BY <1>0, <1>3, ResolvesTop
  <2>2. i \in DOMAIN avBefore /\ Applies(avBefore[i], u, c, key)
    BY <1>0, <2>1, TopIs
  <2> DEFINE r == avBefore[i]
             d == r.cluster
             D == CellRules(F, u, d)
  <2>3. r \in F /\ r.user = u /\ d \in {c, EveryCluster} /\ r \in D /\ D \in SUBSET Rule
    BY <1>1, <1>2, <2>2 DEF Applies, CellRules
  <2>4. ShownRules(F, u, d) = D /\ D # {}
    BY <2>3 DEF ShownRules
  <2>5. ShownAccess(F, u, d) = Max({q.access : q \in D})
    BY <2>4 DEF ShownAccess
  <2>6. r.access <= Max({q.access : q \in D})
    <3> HIDE DEF D
    <3> QED
      BY <2>3, HighestAccess
  <2>7. ShownRules(F, u, c) # {}
    BY <2>3, <2>4 DEF ShownRules
  <2> QED
    BY <2>1, <2>3, <2>4, <2>5, <2>6, <2>7
<1>4. ASSUME S # {}
      PROVE  /\ \E key \in AvKey: Resolve(avBefore, u, c, key) # Nobody
             /\ \/ \E key \in AvKey: Resolve(avBefore, u, c, key) = ShownAccess(F, u, c)
                \/ \E i, j \in DOMAIN avBefore:
                     /\ i < j /\ Precedes(avBefore[i], avBefore[j])
                     /\ avBefore[j] \in S /\ avBefore[j].access = ShownAccess(F, u, c)
  <2>1. PICK key \in AvKey, i \in DOMAIN avBefore, j \in DOMAIN avBefore:
           /\ i <= j /\ avBefore[j] \in S
           /\ avBefore[j].access = ShownAccess(F, u, c)
           /\ Resolve(avBefore, u, c, key) = avBefore[i].access
           /\ avBefore[i].access # avBefore[j].access => Precedes(avBefore[i], avBefore[j])
    BY <1>0, <1>4, CellHasKey
  <2>2. Resolve(avBefore, u, c, key) # Nobody
    BY <1>1, <2>1, RuleFields DEF Nobody
  <2>3. CASE avBefore[i].access = avBefore[j].access
    BY <2>1, <2>2, <2>3
  <2>4. CASE avBefore[i].access # avBefore[j].access
    <3>1. i < j
      BY <1>0, <2>1, <2>4
    <3> HIDE DEF F, S
    <3> QED
      BY <2>1, <2>2, <2>4, <3>1
  <2> QED
    BY <2>3, <2>4
<1> HIDE DEF F, S
<1>5. (S = {}) <=> \A key \in AvKey: Resolve(avBefore, u, c, key) = Nobody
  BY <1>3, <1>4 DEF S
<1> QED
  BY <1>3, <1>4, <1>5 DEF F, S

----------------------------------------------------------------------------
\* The last rule about something.
LEMMA MaxIsGreatest ==
  ASSUME NEW n \in Nat, NEW S \in SUBSET (1..n), S # {}
  PROVE  Max(S) \in S
<1> DEFINE T == {n - i : i \in S}
<1>1. T \in SUBSET Nat /\ T # {}
  OBVIOUS
<1>2. PICK t \in T: \A s \in T: t <= s
  <2> HIDE DEF T
  <2> QED
    BY <1>1, LeastExists
<1>3. PICK x \in S: t = n - x
  BY <1>2
<1>4. \A y \in S: n - y \in T
  OBVIOUS
<1>5. \A y \in S: x >= y
  <2> SUFFICES ASSUME NEW y \in S PROVE x >= y
    OBVIOUS
  <2>1. n - x <= n - y
    BY <1>2, <1>3, <1>4
  <2> QED
    BY <2>1
<1> QED
  BY <1>3, <1>5 DEF Max

LEMMA ByKeyIs ==
  ASSUME NEW rules \in Seq(Rule), NEW k
  PROVE  /\ \A i \in DOMAIN rules: RuleKey(rules[i]) \in DOMAIN ByKey(rules)
         /\ k \in DOMAIN ByKey(rules) =>
              \E i \in DOMAIN rules: RuleKey(rules[i]) = k /\ ByKey(rules)[k] = rules[i].access
<1>1. DOMAIN ByKey(rules) = {RuleKey(rules[i]) : i \in DOMAIN rules}
  BY DEF ByKey
<1>2. ASSUME k \in DOMAIN ByKey(rules)
      PROVE  \E i \in DOMAIN rules: RuleKey(rules[i]) = k /\ ByKey(rules)[k] = rules[i].access
  <2> DEFINE S == {i \in DOMAIN rules : RuleKey(rules[i]) = k}
  <2>1. S \in SUBSET (1..Len(rules)) /\ S # {} /\ Len(rules) \in Nat
    BY <1>1, <1>2
  <2>2. ByKey(rules)[k] = rules[Max(S)].access
    BY <1>1, <1>2 DEF ByKey
  <2>3. Max(S) \in S
    <3> HIDE DEF S
    <3> QED
      BY <2>1, MaxIsGreatest
  <2> QED
    BY <2>2, <2>3
<1> QED
  BY <1>1, <1>2

\* What rules are about decides where they apply and how they score.
LEMMA SameKey ==
  ASSUME NEW q \in Rule, NEW r \in Rule, RuleKey(q) = RuleKey(r), NEW u, NEW c, NEW key
  PROVE  /\ Applies(q, u, c, key) <=> Applies(r, u, c, key)
         /\ Applies(q, u, c, key) <=> Applies(RuleKey(q), u, c, key)
         /\ Score(q, c) = Score(r, c)
<1>1. q.user = r.user /\ q.cluster = r.cluster /\ q.prefix = r.prefix
  BY DEF RuleKey
<1>2. /\ RuleKey(q).user = q.user /\ RuleKey(q).cluster = q.cluster
      /\ RuleKey(q).prefix = q.prefix
  BY DEF RuleKey
<1> QED
  BY <1>1, <1>2 DEF Applies, Score

\* Two lists have the same rules there, but for their accesses.
Alike(rules, others, u, c, key) ==
  \A k \in DOMAIN ByKey(rules): Applies(k, u, c, key) =>
    k \in DOMAIN ByKey(others) /\ ByKey(others)[k] = ByKey(rules)[k]

LEMMA AlikeResolve ==
  ASSUME NEW rules \in Seq(Rule), NEW others \in Seq(Rule), NEW u, NEW c, NEW key,
         Alike(rules, others, u, c, key), Alike(others, rules, u, c, key),
         Top(rules, u, c, key) # {},
         ~Torn(rules, u, c, key), ~Torn(others, u, c, key)
  PROVE  Resolve(rules, u, c, key) = Resolve(others, u, c, key)
<1>1. /\ \A i \in DOMAIN rules: rules[i] \in Rule
      /\ \A i \in DOMAIN others: others[i] \in Rule
  OBVIOUS
<1>2. PICK i \in Top(rules, u, c, key): TRUE
  OBVIOUS
<1>3. /\ i \in DOMAIN rules /\ Applies(rules[i], u, c, key) /\ rules[i] \in Rule
      /\ \A j \in DOMAIN rules: Applies(rules[j], u, c, key) =>
           Score(rules[j], c) <= Score(rules[i], c)
  BY <1>1, <1>2, TopIs
<1> DEFINE k == RuleKey(rules[i])
<1>4. k \in DOMAIN ByKey(rules) /\ Applies(k, u, c, key)
  BY <1>3, ByKeyIs, SameKey
<1>5. k \in DOMAIN ByKey(others) /\ ByKey(others)[k] = ByKey(rules)[k]
  BY <1>4 DEF Alike
<1>6. PICK m \in DOMAIN rules: RuleKey(rules[m]) = k /\ ByKey(rules)[k] = rules[m].access
  BY <1>4, ByKeyIs
<1>7. PICK j \in DOMAIN others: RuleKey(others[j]) = k /\ ByKey(others)[k] = others[j].access
  BY <1>5, ByKeyIs
<1> HIDE DEF k
<1>8. m \in Top(rules, u, c, key)
  <2>1. Applies(rules[m], u, c, key) /\ Score(rules[m], c) = Score(rules[i], c)
    BY <1>1, <1>3, <1>6, SameKey DEF k
  <2> QED
    BY <1>3, <2>1, TopIs
<1>9. j \in Top(others, u, c, key)
  <2>1. Applies(others[j], u, c, key) /\ Score(others[j], c) = Score(rules[i], c)
    BY <1>1, <1>3, <1>7, SameKey DEF k
  <2>2. ASSUME NEW h \in DOMAIN others, Applies(others[h], u, c, key)
        PROVE  Score(others[h], c) <= Score(others[j], c)
    <3>1. RuleKey(others[h]) \in DOMAIN ByKey(others) /\ Applies(RuleKey(others[h]), u, c, key)
      BY <1>1, <2>2, ByKeyIs, SameKey
    <3>2. RuleKey(others[h]) \in DOMAIN ByKey(rules)
      BY <3>1 DEF Alike
    <3>3. PICK g \in DOMAIN rules: RuleKey(rules[g]) = RuleKey(others[h])
      BY <3>2, ByKeyIs
    <3>4. Applies(rules[g], u, c, key) /\ Score(rules[g], c) = Score(others[h], c)
      BY <1>1, <2>2, <3>3, SameKey
    <3> QED
      BY <1>3, <2>1, <3>4
  <2> QED
    BY <2>1, <2>2, TopIs
<1>10. Resolve(rules, u, c, key) = rules[m].access
  <2>1. PICK h \in Top(rules, u, c, key): Resolve(rules, u, c, key) = rules[h].access
    BY <1>2, ResolvesTop
  <2> QED
    BY <1>8, <2>1 DEF Torn
<1>11. Resolve(others, u, c, key) = others[j].access
  <2>1. PICK h \in Top(others, u, c, key): Resolve(others, u, c, key) = others[h].access
    BY <1>9, ResolvesTop
  <2> QED
    BY <1>9, <2>1 DEF Torn
<1> QED
  BY <1>5, <1>6, <1>7, <1>10, <1>11

LEMMA ChangesHold == AccessViewsTypeOK => EditsAreTold
<1> DEFINE d == Diff(avBefore, avDraft)
           told == DOMAIN d.added \cup DOMAIN d.changed \cup d.removed
<1> SUFFICES ASSUME AccessViewsTypeOK, NEW u \in AvUser, NEW c \in AvCluster, NEW key \in AvKey,
                    \A k \in told: ~Applies(k, u, c, key),
                    ~Torn(avBefore, u, c, key), ~Torn(avDraft, u, c, key)
             PROVE  Resolve(avBefore, u, c, key) = Resolve(avDraft, u, c, key)
  BY DEF EditsAreTold
<1> DEFINE b == ByKey(avBefore)
           a == ByKey(avDraft)
<1>0. avBefore \in Seq(Rule) /\ avDraft \in Seq(Rule)
  BY DEF AccessViewsTypeOK
<1>1. told = (DOMAIN a \ DOMAIN b) \cup {j \in DOMAIN a \cap DOMAIN b : a[j] # b[j]}
               \cup (DOMAIN b \ DOMAIN a)
  BY DEF Diff
<1> HIDE DEF told, a, b
<1>2. /\ \A k \in DOMAIN b: Applies(k, u, c, key) => k \in DOMAIN a /\ a[k] = b[k]
      /\ \A k \in DOMAIN a: Applies(k, u, c, key) => k \in DOMAIN b /\ b[k] = a[k]
  BY <1>1
<1>3. Alike(avBefore, avDraft, u, c, key) /\ Alike(avDraft, avBefore, u, c, key)
  BY <1>2 DEF Alike, a, b
<1>4. CASE Top(avBefore, u, c, key) # {}
  BY <1>0, <1>3, <1>4, AlikeResolve
<1>5. CASE Top(avDraft, u, c, key) # {}
  BY <1>0, <1>3, <1>5, AlikeResolve
<1>6. CASE Top(avBefore, u, c, key) = {} /\ Top(avDraft, u, c, key) = {}
  BY <1>0, <1>6, ResolvesTop
<1> QED
  BY <1>4, <1>5, <1>6

LEMMA DiffHolds == DiffAccounts
<1> DEFINE b == ByKey(avBefore)
           a == ByKey(avDraft)
           d == Diff(avBefore, avDraft)
<1>1. /\ b = [k \in DOMAIN b |-> b[k]]
      /\ a = [k \in DOMAIN a |-> a[k]]
  BY DEF ByKey
<1>2. /\ d.added = [k \in DOMAIN a \ DOMAIN b |-> a[k]]
      /\ d.changed = [k \in {j \in DOMAIN a \cap DOMAIN b : a[j] # b[j]} |-> a[k]]
      /\ d.removed = DOMAIN b \ DOMAIN a
  BY DEF Diff
<1> HIDE DEF a, b, d
<1>3. a = [k \in (DOMAIN b \ d.removed) \cup DOMAIN d.added |->
          IF k \in DOMAIN d.added THEN d.added[k]
          ELSE IF k \in DOMAIN d.changed THEN d.changed[k] ELSE b[k]]
  BY <1>1, <1>2
<1> QED
  BY <1>3 DEF DiffAccounts, a, b, d

LEMMA DeniedHolds == AccessViewsTypeOK => DeniedIsDenied
<1> SUFFICES ASSUME AccessViewsTypeOK, NEW u \in AvUser, NEW c \in AvCluster, NEW key \in AvKey,
                    PeerOf[u] # "", PolicyOf(avBefore, PeerOf[u]) = "denied"
             PROVE  Resolve(avBefore, u, c, key) = Nobody
  BY DEF DeniedIsDenied
<1>1. PeerRules(avBefore, PeerOf[u]) = {}
  BY DEF PolicyOf
<1>2. \A i \in DOMAIN avBefore: avBefore[i].user # u
  BY <1>1 DEF PeerRules, ToSet
<1>3. Top(avBefore, u, c, key) = {}
  BY <1>2 DEF Top, Applies
<1> QED
  BY <1>3 DEF Resolve

LEMMA ViewsHold == AccessViewsTypeOK => ViewsTellTheRules
BY CellsHold, DiffHolds, ChangesHold, DeniedHolds DEF ViewsTellTheRules

----------------------------------------------------------------------------
LEMMA RemoveAtType ==
  ASSUME NEW S, NEW s \in Seq(S), NEW i \in DOMAIN s
  PROVE  RemoveAt(s, i) \in Seq(S)
<1>1. i \in Int /\ Len(s) \in Int /\ i - 1 \in Int /\ i + 1 \in Int /\ 1 \in Int
  OBVIOUS
<1>2. /\ \A k \in 1..i - 1: s[k] \in S
      /\ \A k \in i + 1..Len(s): s[k] \in S
  OBVIOUS
<1>3. SubSeq(s, 1, i - 1) \in Seq(S) /\ SubSeq(s, i + 1, Len(s)) \in Seq(S)
  BY <1>1, <1>2, SubSeqProperties
<1> QED
  BY <1>3 DEF RemoveAt

LEMMA EditorOK ==
  ASSUME AccessViewsTypeOK, NEW editing \in BOOLEAN, NEW rules \in Seq(Rule),
         NEW edits \in 0..MaxRuleEdits, EditorIs(editing, rules, edits), avBefore' \in Seq(Rule)
  PROVE  AccessViewsTypeOK'
BY DEF EditorIs, AccessViewsTypeOK

LEMMA DraftsOK ==
  ASSUME AccessViewsTypeOK, NEW rules \in Seq(Rule), Drafts(rules)
  PROVE  AccessViewsTypeOK'
<1>1. avEdits \in 0..MaxRuleEdits /\ avEdits < MaxRuleEdits /\ MaxRuleEdits \in Nat
  BY AccessViewsAssumption, Zenon DEF Drafts, AccessViewsTypeOK
<1>2. avEdits + 1 \in 0..MaxRuleEdits
  BY <1>1
<1>3. avBefore' \in Seq(Rule) /\ EditorIs(TRUE, rules, avEdits + 1)
  BY Zenon DEF Drafts, AccessViewsTypeOK
<1> QED
  BY <1>2, <1>3, EditorOK, Zenon

LEMMA ViewsInConsole ==
  ASSUME AccessViewsTypeOK, [ConsoleNext]_consoleVars, route = "matrix"
  PROVE  AccessViewsTypeOK'
<1>0. avDraft \in Seq(Rule)
  BY DEF AccessViewsTypeOK
<1>1. /\ avBefore \in Seq(Rule) /\ avDraft \in Seq(Rule)
      /\ avPeerOnly \in BOOLEAN /\ avPeerFocus \in Peer \cup {""}
  BY DEF AccessViewsTypeOK
<1>2. CASE UNCHANGED avVars
  BY <1>1, <1>2 DEF avVars, avEditVars, AccessViewsTypeOK
<1>4. ASSUME NEW i \in DOMAIN avDraft, RemoveRule(i) PROVE AccessViewsTypeOK'
  <2>1. RemoveAt(avDraft, i) \in Seq(Rule)
    BY <1>0, RemoveAtType
  <2> QED
    BY <1>4, <2>1, DraftsOK DEF RemoveRule
<1>5. ASSUME NEW i \in DOMAIN avDraft, NEW rule \in Rule, UpdateRule(i, rule)
      PROVE  AccessViewsTypeOK'
  <2>1. [avDraft EXCEPT ![i] = rule] \in Seq(Rule)
    BY <1>0
  <2> QED
    BY <1>5, <2>1, DraftsOK DEF UpdateRule
<1>6. ASSUME NEW u \in AvUser, NEW c \in AvCluster \cup {EveryCluster}, AddRule(u, c)
      PROVE  AccessViewsTypeOK'
  <2>0. NoPrefix \in AvPrefix /\ 1 \in AvAccess
    BY AccessViewsAssumption, Zenon
  <2>1. [user |-> u, cluster |-> c, prefix |-> NoPrefix, access |-> 1] \in Rule
    BY <2>0 DEF Rule
  <2> DEFINE rule == [user |-> u, cluster |-> c, prefix |-> NoPrefix, access |-> 1]
  <2> HIDE DEF rule
  <2>2. Append(avDraft, rule) \in Seq(Rule)
    BY <1>0, <2>1 DEF rule
  <2>3. Drafts(Append(avDraft, rule))
    BY <1>6, Zenon DEF AddRule, rule
  <2> QED
    BY <2>2, <2>3, DraftsOK, Zenon
<1>7. CASE StartEditing \/ StopEditing \/ SavedRules
  <2>1. 0 \in 0..MaxRuleEdits
    <3>1. MaxRuleEdits \in Nat
      BY AccessViewsAssumption, Zenon
    <3> QED
      BY <3>1
  <2>2. PICK empty \in Seq(Rule): empty = <<>>
    <3>1. <<>> \in Seq(Rule)
      OBVIOUS
    <3> QED
      BY <3>1, Zenon
  <2>3. avBefore' \in Seq(Rule)
    BY <1>1, <1>7, Zenon DEF StartEditing, StopEditing, SavedRules
  <2>4. \/ EditorIs(TRUE, avBefore, 0)
        \/ EditorIs(FALSE, empty, 0)
    BY <1>7, <2>2, Zenon DEF StartEditing, StopEditing, SavedRules
  <2> QED
    BY <1>1, <2>1, <2>2, <2>3, <2>4, EditorOK, Zenon
<1>9. CASE TogglePeerOnly \/ ClearFocus
  <2>1. UNCHANGED <<avBefore, avEditing, avDraft, avEdits>>
    BY <1>9 DEF TogglePeerOnly, ClearFocus, avEditVars
  <2>2. avPeerOnly' \in BOOLEAN /\ avPeerFocus' \in Peer \cup {""}
    BY <1>1, <1>9 DEF TogglePeerOnly, ClearFocus
  <2> QED
    BY <2>1, <2>2 DEF AccessViewsTypeOK
<1>10. AccessViewsNext \/ UNCHANGED avVars
  BY DEF ConsoleNext, KeyPages, OtherPages, FormPages, Cards, Widgets, consoleVars
<1> QED
  BY <1>2, <1>4, <1>5, <1>6, <1>7, <1>9, <1>10 DEF AccessViewsNext

\* For any rules: the matrix shows no access that is not given, but for rules behind
\* others of the same scope, and hides none; who gains or loses access finds it in the
\* diff, but for rules of equal score; and a peer said to be denied is.
THEOREM ViewsTell == ConsoleSpec => []ViewsTellTheRulesHere
<1> DEFINE Inv == route = "matrix" => AccessViewsTypeOK
<1>1. ConsoleInit => Inv
  <2>1. <<>> \in Seq(Rule) /\ \A r \in Rule: <<r>> \in Seq(Rule)
    OBVIOUS
  <2>2. MaxRuleEdits \in Nat
    BY AccessViewsAssumption
  <2>3. 0 \in 0..MaxRuleEdits
    BY <2>2
  <2> QED
    BY <2>1, <2>3 DEF ConsoleInit, AccessViewsInit, AccessViewsTypeOK
<1>2. Inv /\ [ConsoleNext]_consoleVars => Inv'
  BY ViewsInConsole, RouteStays
<1>3. Inv => ViewsTellTheRulesHere
  BY ViewsHold DEF ViewsTellTheRulesHere
<1> QED
  BY <1>1, <1>2, <1>3, PTL DEF ConsoleSpec

----------------------------------------------------------------------------
(***************************************************************************)
(* Transactions.  What is in the store after the first rows of a branch is *)
(* told by the rows, whatever their order, since etcd refuses two of them  *)
(* that write one key if either puts it.                                   *)
(***************************************************************************)
LEMMA StoreAfterOK ==
  ASSUME NEW store, NEW ops, NEW rev, Len(ops) \in Nat
  PROVE  LET after == StoreAfter(store, ops, rev) IN
           /\ after[0] = store
           /\ \A i \in 1..Len(ops): after[i] = Stepped(after[i - 1], ops[i], rev)
<1> DEFINE Then(f, i) == IF i = 0 THEN store ELSE Stepped(f[i - 1], ops[i], rev)
           Runs(f, n) == f = [i \in 0..n |-> Then(f, i)]
           Bad == {n \in Nat : ~\E f: Runs(f, n)}
<1>1. Runs([i \in 0..0 |-> store], 0)
  OBVIOUS
<1>2. ASSUME NEW n \in Nat, NEW f, Runs(f, n)
      PROVE  \E g: Runs(g, n + 1)
  <2> DEFINE g == [i \in 0..(n + 1) |-> IF i = n + 1 THEN Stepped(f[n], ops[n + 1], rev) ELSE f[i]]
  <2>1. g[n + 1] = Stepped(f[n], ops[n + 1], rev) /\ \A i \in 0..n: g[i] = f[i]
    OBVIOUS
  <2>2. \A i \in 0..n: f[i] = Then(f, i)
    BY <1>2
  <2>3. ASSUME NEW i \in 0..(n + 1) PROVE g[i] = Then(g, i)
    <3> HIDE DEF g
    <3>1. CASE i = 0
      BY <2>1, <2>2, <3>1
    <3>2. CASE i \in 1..n
      <4>1. i \in 0..n /\ i - 1 \in 0..n /\ i # 0
        BY <3>2
      <4> QED
        BY <2>1, <2>2, <4>1
    <3>3. CASE i = n + 1
      <4>1. n \in 0..n /\ n + 1 # 0 /\ (n + 1) - 1 = n
        OBVIOUS
      <4> QED
        BY <2>1, <3>3, <4>1
    <3> QED
      BY <3>1, <3>2, <3>3
  <2> HIDE DEF Then
  <2>4. g = [i \in 0..(n + 1) |-> Then(g, i)]
    BY <2>3
  <2> HIDE DEF g
  <2> QED
    BY <2>4
<1> HIDE DEF Runs
<1>3. Bad = {}
  <2> SUFFICES ASSUME Bad # {} PROVE FALSE
    OBVIOUS
  <2>1. PICK n \in Bad: \A m \in Bad: n <= m
    BY LeastExists
  <2>2. n # 0
    BY <1>1
  <2>3. n - 1 \in Nat /\ n - 1 \notin Bad /\ (n - 1) + 1 = n
    BY <2>1, <2>2
  <2>4. PICK f: Runs(f, n - 1)
    BY <2>3
  <2> QED
    BY <1>2, <2>3, <2>4
<1>4. \E f: Runs(f, Len(ops))
  BY <1>3
<1>5. StoreAfter(store, ops, rev) = CHOOSE f: Runs(f, Len(ops))
  BY DEF StoreAfter, Runs
<1>6. Runs(StoreAfter(store, ops, rev), Len(ops))
  BY <1>4, <1>5
<1> QED
  BY <1>6 DEF Runs
TxEntry == [value: Int, createRevision: Nat, modRevision: Nat, version: Nat]
TxStore == [TxKey -> TxEntry]

\* The rows among the first n that write k in a way.
On(ops, n, type, k) == {i \in 1..n : ops[i].type = type /\ k \in Touched(ops[i])}

\* What Becomes says of a key, after n rows, ...
KeyBecomes(b, a, ops, n, rev, k) ==
  IF On(ops, n, "put", k) # {}
    THEN /\ \A i \in On(ops, n, "put", k): a.value = ops[i].value
         /\ a.modRevision = rev /\ a.version = b.version + 1
  ELSE IF On(ops, n, "delete", k) # {} THEN a = Absent
  ELSE a = b

\* ... with the revisions that it can have.
KeyRuns(b, a, ops, n, rev, k) ==
  /\ a \in TxEntry /\ a.createRevision \in {0, b.createRevision, rev}
  /\ a.modRevision \in {0, b.modRevision, rev}
  /\ KeyBecomes(b, a, ops, n, rev, k)

LEMMA AbsentOK == Absent \in TxEntry /\ Absent.version = 0
                  /\ Absent.createRevision = 0 /\ Absent.modRevision = 0
BY DEF Absent, TxEntry, NoText

\* No other row writes what a row puts.
LEMMA PutAlone ==
  ASSUME NEW ops \in Seq(Op), OpsValid(ops), NEW i \in 1..Len(ops), NEW j \in 1..Len(ops),
         i # j, ops[i].type = "put", ops[j].type \in {"put", "delete"},
         NEW k \in Touched(ops[i])
  PROVE  k \notin Touched(ops[j])
<1>1. ops[i] \in Op
  OBVIOUS
<1>2. ops[i].prefix = FALSE
  BY <1>1 DEF Op
<1>3. k = ops[i].key
  BY <1>2 DEF Touched
<1> QED
  BY <1>3 DEF OpsValid

LEMMA SteppedKey ==
  ASSUME NEW store, NEW o, NEW rev, NEW k \in TxKey
  PROVE  Stepped(store, o, rev)[k] =
           IF o.type = "get" \/ k \notin Touched(o) THEN store[k]
           ELSE IF o.type = "delete" THEN Absent
           ELSE [value |-> o.value, modRevision |-> rev, version |-> store[k].version + 1,
                 createRevision |-> IF store[k].version = 0 THEN rev
                                    ELSE store[k].createRevision]
BY DEF Stepped

LEMMA OnGrows ==
  ASSUME NEW ops, NEW n \in Nat, NEW type, NEW k
  PROVE  On(ops, n + 1, type, k) =
           On(ops, n, type, k) \cup
           (IF ops[n + 1].type = type /\ k \in Touched(ops[n + 1]) THEN {n + 1} ELSE {})
BY DEF On

LEMMA OnStays ==
  ASSUME NEW ops, NEW n \in Nat, NEW type, NEW k,
         ops[n + 1].type # type \/ k \notin Touched(ops[n + 1])
  PROVE  On(ops, n + 1, type, k) = On(ops, n, type, k)
<1>1. (IF ops[n + 1].type = type /\ k \in Touched(ops[n + 1]) THEN {n + 1} ELSE {}) = {}
  OBVIOUS
<1>2. On(ops, n + 1, type, k) = On(ops, n, type, k) \cup {}
  BY <1>1, OnGrows, Zenon
<1> QED
  BY <1>2

LEMMA RowRuns ==
  ASSUME NEW ops \in Seq(Op), OpsValid(ops), NEW n \in Nat, n + 1 \in 1..Len(ops),
         NEW rev \in Nat, NEW k \in TxKey, NEW b \in TxEntry, NEW store,
         KeyRuns(b, store[k], ops, n, rev, k)
  PROVE  KeyRuns(b, Stepped(store, ops[n + 1], rev)[k], ops, n + 1, rev, k)
<1> DEFINE o == ops[n + 1]
           a == store[k]
           c == Stepped(store, o, rev)[k]
<1>1. o \in Op /\ o.type \in {"put", "delete", "get"} /\ o.value \in Int
  <2>1. o \in Op
    OBVIOUS
  <2> QED
    BY <2>1 DEF Op
<1>2. CASE o.type = "get" \/ k \notin Touched(o)
  <2>1. c = a
    BY <1>2, SteppedKey
  <2>2. On(ops, n + 1, "put", k) = On(ops, n, "put", k)
        /\ On(ops, n + 1, "delete", k) = On(ops, n, "delete", k)
    BY <1>2, OnStays
  <2> QED
    BY <2>1, <2>2 DEF KeyRuns, KeyBecomes
<1>3. CASE o.type = "delete" /\ k \in Touched(o)
  <2>1. c = Absent
    <3>1. ~(o.type = "get" \/ k \notin Touched(o))
      BY <1>3
    <3> HIDE DEF o
    <3> QED
      BY <1>3, <3>1 DEF Stepped
  <2>2. On(ops, n, "put", k) = {}
    <3> SUFFICES ASSUME NEW i \in On(ops, n, "put", k) PROVE FALSE
      OBVIOUS
    <3>1. i \in 1..Len(ops) /\ i # n + 1 /\ ops[i].type = "put" /\ k \in Touched(ops[i])
      BY DEF On
    <3> QED
      BY <1>3, <3>1, PutAlone
  <2>3. On(ops, n + 1, "put", k) = {} /\ On(ops, n + 1, "delete", k) # {}
    <3>1. On(ops, n + 1, "put", k) = {}
      BY <1>3, <2>2, OnStays
    <3>2. n + 1 \in On(ops, n + 1, "delete", k)
      BY <1>3 DEF On
    <3> QED
      BY <3>1, <3>2
  <2> QED
    BY <2>1, <2>3, AbsentOK DEF KeyRuns, KeyBecomes
<1>4. CASE o.type = "put" /\ k \in Touched(o)
  <2>1. On(ops, n, "put", k) = {} /\ On(ops, n, "delete", k) = {}
    <3> SUFFICES ASSUME NEW i \in On(ops, n, "put", k) \cup On(ops, n, "delete", k)
                 PROVE  FALSE
      OBVIOUS
    <3>1. /\ i \in 1..Len(ops) /\ i # n + 1
          /\ ops[i].type \in {"put", "delete"} /\ k \in Touched(ops[i])
      BY DEF On
    <3> QED
      BY <1>4, <3>1, PutAlone
  <2>2. a = b
    BY <2>1 DEF KeyRuns, KeyBecomes
  <2>3. On(ops, n + 1, "put", k) = {n + 1}
    BY <1>4, <2>1, OnGrows
  <2>4. c = [value |-> o.value, modRevision |-> rev, version |-> a.version + 1,
             createRevision |-> IF a.version = 0 THEN rev ELSE a.createRevision]
    BY <1>4, SteppedKey
  <2>5. b.version \in Nat /\ b.createRevision \in Nat
    BY DEF TxEntry
  <2>6. c \in TxEntry /\ c.createRevision \in {0, b.createRevision, rev}
    BY <1>1, <2>2, <2>4, <2>5 DEF TxEntry
  <2>7. c.modRevision = rev /\ c.version = b.version + 1 /\ c.value = o.value
    BY <2>2, <2>4
  <2> QED
    BY <2>3, <2>6, <2>7 DEF KeyRuns, KeyBecomes
<1> QED
  BY <1>1, <1>2, <1>3, <1>4

LEMMA BranchRuns ==
  ASSUME NEW before \in TxStore, NEW ops \in Seq(Op), OpsValid(ops), NEW rev \in Nat,
         NEW k \in TxKey
  PROVE  KeyRuns(before[k], StoreAfter(before, ops, rev)[Len(ops)][k], ops, Len(ops), rev, k)
<1> DEFINE after == StoreAfter(before, ops, rev)
           Runs(n) == KeyRuns(before[k], after[n][k], ops, n, rev, k)
           Bad == {n \in 0..Len(ops) : ~Runs(n)}
<1>1. before[k] \in TxEntry
  BY DEF TxStore
<1>2. Len(ops) \in Nat
  OBVIOUS
<1>3. after[0] = before /\ \A i \in 1..Len(ops): after[i] = Stepped(after[i - 1], ops[i], rev)
  BY <1>2, StoreAfterOK
<1> HIDE DEF after
<1>4. Runs(0)
  <2>1. On(ops, 0, "put", k) = {} /\ On(ops, 0, "delete", k) = {}
    BY DEF On
  <2> QED
    BY <1>1, <1>3, <2>1 DEF KeyRuns, KeyBecomes
<1>5. ASSUME NEW n \in Nat, n + 1 \in 1..Len(ops), Runs(n) PROVE Runs(n + 1)
  <2>1. after[n + 1] = Stepped(after[n], ops[n + 1], rev)
    <3>1. (n + 1) - 1 = n
      OBVIOUS
    <3> QED
      BY <1>3, <1>5, <3>1
  <2> QED
    BY <1>1, <1>5, <2>1, RowRuns
<1> HIDE DEF Runs
<1>6. Bad = {}
  <2> SUFFICES ASSUME Bad # {} PROVE FALSE
    OBVIOUS
  <2>1. Bad \in SUBSET Nat
    OBVIOUS
  <2>2. PICK n \in Bad: \A m \in Bad: n <= m
    BY <2>1, LeastExists
  <2>3. n # 0
    BY <1>4
  <2>4. /\ n - 1 \in Nat /\ n - 1 \notin Bad /\ (n - 1) + 1 = n
        /\ n \in 1..Len(ops) /\ n - 1 \in 0..Len(ops)
    BY <2>2, <2>3
  <2>5. Runs(n - 1)
    BY <2>4
  <2> QED
    BY <1>5, <2>4, <2>5
<1> QED
  <2>1. Len(ops) \in 0..Len(ops) /\ Runs(Len(ops))
    BY <1>2, <1>6
  <2> QED
    BY <2>1 DEF Runs, after
----------------------------------------------------------------------------
TxRows == [conds: Seq(Cond), success: Seq(Op), failure: Seq(Op)]
TxCall == [at: {"idle", "pending", "committed"} \cup TxEnded, rev: Nat, rows: TxRows,
           won: BOOLEAN]

\* No number of a key is above the revision, ...
HistoryOK(hist) ==
  /\ hist \in Seq(TxStore) /\ hist # <<>>
  /\ \A r \in 1..Len(hist), k \in TxKey:
       /\ hist[r][k].version <= r
       /\ hist[r][k].createRevision <= r /\ hist[r][k].modRevision <= r

\* ... and what a call has done stays in the history as it was.
Ran(hist, call) ==
  /\ call.rev \in 1..Len(hist)
  /\ \E r \in {call.rev - 1, call.rev} \ {0}:
       /\ call.won <=> \A c \in ToSet(call.rows.conds): Holds(hist[r], c)
       /\ Becomes(hist[r], hist[call.rev],
                  IF call.won THEN call.rows.success ELSE call.rows.failure, call.rev)

TxnInv ==
  /\ HistoryOK(txHist) /\ txRows \in TxRows /\ txCall \in TxCall
  /\ txCall.rev <= Len(txHist) /\ txEdits \in 0..MaxEdits
  /\ txCall.at \in {"committed", "succeeded", "else"} => Ran(txHist, txCall)
  /\ txCall.at = "succeeded" => txCall.won
  /\ txCall.at = "else" => ~txCall.won

LEMMA TxnInvHolds == TxnInv => TxnTypeOK /\ TxnTellsWhatRan
<1> SUFFICES ASSUME TxnInv PROVE TxnTypeOK /\ TxnTellsWhatRan
  OBVIOUS
<1>1. HistoryOK(txHist) /\ txRows \in TxRows /\ txCall \in TxCall
      /\ txCall.rev <= Len(txHist) /\ txEdits \in 0..MaxEdits
  BY DEF TxnInv
<1>2. TxnTypeOK
  <2>1. \A r \in 1..Len(txHist), k \in TxKey: txHist[r][k] \in TxEntry
    BY <1>1 DEF HistoryOK, TxStore
  <2>2. \A r \in 1..Len(txHist), k \in TxKey:
          /\ txHist[r][k].version \in 0..r
          /\ {txHist[r][k].createRevision, txHist[r][k].modRevision} \subseteq 0..r
    BY <1>1, <2>1 DEF HistoryOK, TxEntry
  <2>3. ToSet(txRows.conds) \subseteq Cond
        /\ ToSet(txRows.success) \cup ToSet(txRows.failure) \subseteq Op
    BY <1>1 DEF TxRows, ToSet
  <2>4. /\ txCall.at \in {"idle", "pending", "committed"} \cup TxEnded
        /\ txCall.rev \in 0..Len(txHist)
    BY <1>1 DEF TxCall, HistoryOK
  <2> QED
    BY <1>1, <2>2, <2>3, <2>4 DEF TxnTypeOK, HistoryOK
<1>3. TxnTellsWhatRan
  <2> SUFFICES ASSUME txCall.at \in {"succeeded", "else"}
               PROVE  /\ Ran(txHist, txCall)
                      /\ txCall.won <=> txCall.at = "succeeded"
    BY DEF TxnTellsWhatRan, Ran
  <2> QED
    BY <1>1 DEF TxnInv, TxCall
<1> QED
  BY <1>2, <1>3

LEMMA TxnBounds == MaxEdits \in Nat /\ MaxTxRev \in Nat
BY TxnAssumption

LEMMA TxnChoices ==
  /\ TxText \subseteq Nat /\ "" \notin TxKey /\ TxKey \subseteq RowKey
  /\ CondChoice \subseteq Cond /\ OpChoice \subseteq Op
BY TxnAssumption DEF RowKey

LEMMA BlankOK ==
  /\ \A k \in TxKey: [BlankCond EXCEPT !.key = k] \in Cond
  /\ \A k \in TxKey: [BlankOp("put") EXCEPT !.key = k] \in Op
  /\ BlankCond \in Cond
  /\ \A type \in {"put", "delete", "get"}: BlankOp(type) \in Op
<1>0. NoText \in Int
  BY DEF NoText
<1>1. "" \in RowKey /\ TxKey \subseteq RowKey /\ NoText \in Int
  BY <1>0 DEF RowKey
<1>2. BlankCond \in Cond
  BY <1>1 DEF BlankCond, Cond
<1>3. ASSUME NEW type \in {"put", "delete", "get"} PROVE BlankOp(type) \in Op
  BY <1>1 DEF BlankOp, Op
<1>4. ASSUME NEW c \in Cond, NEW k \in TxKey PROVE [c EXCEPT !.key = k] \in Cond
  BY <1>1 DEF Cond
<1>5. ASSUME NEW o \in Op, NEW k \in TxKey PROVE [o EXCEPT !.key = k] \in Op
  BY <1>1 DEF Op
<1> QED
  BY <1>2, <1>3, <1>4, <1>5

LEMMA TxnInitOK == TxnInit => TxnInv
<1> SUFFICES ASSUME TxnInit PROVE TxnInv
  OBVIOUS
<1>1. PICK k \in TxKey:
        txRows = [conds |-> <<[BlankCond EXCEPT !.key = k]>>,
                  success |-> <<[BlankOp("put") EXCEPT !.key = k]>>, failure |-> <<>>]
  BY DEF TxnInit
<1>2. txRows \in TxRows
  <2>1. PICK c \in Cond: c = [BlankCond EXCEPT !.key = k]
    BY BlankOK
  <2>2. PICK o \in Op: o = [BlankOp("put") EXCEPT !.key = k]
    BY BlankOK
  <2>3. txRows = [conds |-> <<c>>, success |-> <<o>>, failure |-> <<>>]
    BY <1>1, <2>1, <2>2
  <2>4. <<c>> \in Seq(Cond) /\ <<o>> \in Seq(Op) /\ <<>> \in Seq(Op)
    OBVIOUS
  <2> QED
    BY <2>3, <2>4 DEF TxRows
<1>3. txCall \in TxCall /\ txCall.at = "idle" /\ txCall.rev = 0
  BY <1>2 DEF TxnInit, TxCall
<1>4. HistoryOK(txHist) /\ Len(txHist) = 1
  <2>1. PICK s \in TxStore: s = [i \in TxKey |-> Absent]
    BY AbsentOK DEF TxStore
  <2>2. txHist = <<s>>
    BY <2>1 DEF TxnInit
  <2>3. txHist \in Seq(TxStore) /\ txHist # <<>> /\ Len(txHist) = 1 /\ txHist[1] = s
    BY <2>2
  <2>4. \A i \in TxKey: s[i] = Absent
    BY <2>1
  <2>5. \A r \in 1..Len(txHist), i \in TxKey: r = 1 /\ txHist[r][i] = Absent
    BY <2>3, <2>4
  <2> QED
    BY <2>3, <2>5, AbsentOK DEF HistoryOK
<1>5. txEdits \in 0..MaxEdits
  BY TxnBounds DEF TxnInit
<1> QED
  BY <1>2, <1>3, <1>4, <1>5 DEF TxnInv
\* A transaction keeps the history, and what it makes of the store is told by
\* its rows.
LEMMA AppliedOK ==
  ASSUME HistoryOK(txHist), NEW ops \in Seq(Op), OpsValid(ops)
  PROVE  LET hist == Applied(ops)
             rev == Len(hist)
         IN /\ HistoryOK(hist) /\ rev \in {Len(txHist), Len(txHist) + 1}
            /\ \A r \in 1..Len(txHist): hist[r] = txHist[r]
            /\ Becomes(Now, hist[rev], ops, rev)
<1> DEFINE n == Len(txHist)
           rev == n + 1
           next == StoreAfter(Now, ops, rev)[Len(ops)]
<1>1. n \in Nat \ {0} /\ Now = txHist[n] /\ Now \in TxStore
  BY DEF HistoryOK, Now, Last
<1>2. ASSUME NEW k \in TxKey PROVE KeyRuns(Now[k], next[k], ops, Len(ops), rev, k)
  BY <1>1, BranchRuns
<1>3. next \in TxStore
  <2>1. next = [k \in TxKey |-> next[k]]
    <3>1. CASE ops = <<>>
      <4>1. Len(ops) = 0 /\ next = Now
        BY <3>1, StoreAfterOK
      <4> QED
        BY <1>1, <4>1 DEF TxStore
    <3>2. CASE ops # <<>>
      <4>1. Len(ops) \in Nat /\ Len(ops) \in 1..Len(ops)
        BY <3>2
      <4>2. next = Stepped(StoreAfter(Now, ops, rev)[Len(ops) - 1], ops[Len(ops)], rev)
        BY <4>1, StoreAfterOK
      <4> QED
        BY <4>2 DEF Stepped
    <3> QED
      BY <3>1, <3>2
  <2>2. \A k \in TxKey: next[k] \in TxEntry
    BY <1>2 DEF KeyRuns
  <2> HIDE DEF next
  <2> QED
    BY <2>1, <2>2 DEF TxStore
<1>4. Applied(ops) = IF next = Now THEN txHist ELSE Append(txHist, next)
  BY DEF Applied, Revision
<1>5. \A k \in TxKey: /\ Now[k] \in TxEntry /\ Now[k].version <= n
                      /\ Now[k].createRevision <= n /\ Now[k].modRevision <= n
  BY <1>1 DEF HistoryOK, TxStore
<1>6. \A k \in TxKey: KeyBecomes(Now[k], next[k], ops, Len(ops), rev, k)
  BY <1>2 DEF KeyRuns
<1>7. ASSUME NEW k \in TxKey
      PROVE  /\ next[k].version <= rev
             /\ next[k].createRevision <= rev /\ next[k].modRevision <= rev
  <2>1. next[k].version \in {Now[k].version + 1, 0, Now[k].version}
    BY <1>6, AbsentOK DEF KeyBecomes
  <2>2. /\ next[k].createRevision \in {0, Now[k].createRevision, rev}
        /\ next[k].modRevision \in {0, Now[k].modRevision, rev}
    BY <1>2 DEF KeyRuns
  <2>3. /\ Now[k].version \in Nat /\ Now[k].createRevision \in Nat
        /\ Now[k].modRevision \in Nat
    BY <1>5 DEF TxEntry
  <2> HIDE DEF next
  <2> QED
    BY <1>1, <1>5, <2>1, <2>2, <2>3
<1> HIDE DEF next
<1>8. CASE next # Now
  <2>1. Applied(ops) = Append(txHist, next)
    BY <1>4, <1>8
  <2> DEFINE hist == Append(txHist, next)
  <2>2. /\ hist \in Seq(TxStore) /\ Len(hist) = rev /\ hist[rev] = next
        /\ \A r \in 1..n: hist[r] = txHist[r]
    BY <1>1, <1>3 DEF HistoryOK
  <2> HIDE DEF hist
  <2>3. ASSUME NEW r \in 1..rev, NEW k \in TxKey
        PROVE  /\ hist[r][k].version <= r
               /\ hist[r][k].createRevision <= r /\ hist[r][k].modRevision <= r
    <3>1. CASE r = rev
      BY <1>7, <2>2, <3>1
    <3>2. CASE r \in 1..n
      BY <2>2, <3>2 DEF HistoryOK
    <3> QED
      BY <1>1, <3>1, <3>2
  <2>4. HistoryOK(hist)
    <3>1. hist # <<>>
      BY <1>1, <2>2
    <3> QED
      BY <2>2, <2>3, <3>1 DEF HistoryOK
  <2>5. Becomes(Now, hist[rev], ops, rev)
    BY <1>6, <2>2 DEF Becomes, KeyBecomes, On
  <2> QED
    BY <2>1, <2>2, <2>4, <2>5 DEF hist
<1>9. CASE next = Now
  <2>1. Applied(ops) = txHist
    BY <1>4, <1>9
  <2>2. ASSUME NEW k \in TxKey PROVE KeyBecomes(Now[k], next[k], ops, Len(ops), n, k)
    <3>1. Now[k].version \in Nat /\ next[k].version # Now[k].version + 1
      BY <1>5, <1>9 DEF TxEntry
    <3> QED
      BY <1>6, <3>1 DEF KeyBecomes
  <2>3. Becomes(Now, txHist[n], ops, n)
    BY <1>1, <1>9, <2>2 DEF Becomes, KeyBecomes, On
  <2> QED
    BY <1>1, <2>1, <2>3
<1> QED
  BY <1>8, <1>9
LEMMA RanStays ==
  ASSUME NEW old, NEW hist, HistoryOK(old), HistoryOK(hist), Len(hist) >= Len(old),
         \A r \in 1..Len(old): hist[r] = old[r], NEW call \in TxCall, Ran(old, call)
  PROVE  Ran(hist, call)
<1>1. Len(old) \in Nat /\ Len(hist) \in Nat /\ call.rev \in 1..Len(old)
  BY DEF HistoryOK, Ran
<1>2. PICK r \in {call.rev - 1, call.rev} \ {0}:
        /\ call.won <=> \A c \in ToSet(call.rows.conds): Holds(old[r], c)
        /\ Becomes(old[r], old[call.rev],
                   IF call.won THEN call.rows.success ELSE call.rows.failure, call.rev)
  BY DEF Ran
<1>3. r \in 1..Len(old) /\ call.rev \in 1..Len(hist)
  BY <1>1
<1>4. hist[r] = old[r] /\ hist[call.rev] = old[call.rev]
  BY <1>1, <1>3
<1> QED
  BY <1>2, <1>3, <1>4 DEF Ran

LEMMA OthersOK == TxnInv /\ Others => TxnInv'
<1> SUFFICES ASSUME TxnInv, Others PROVE TxnInv'
  OBVIOUS
<1>1. HistoryOK(txHist) /\ UNCHANGED <<txRows, txCall, txEdits>>
  BY DEF TxnInv, Others
<1>2. PICK k \in TxKey, v \in TxText, type \in {"put", "delete"}:
        txHist' = Applied(<<[type |-> type, key |-> k, value |-> v, prefix |-> FALSE]>>)
  BY DEF Others
<1>3. PICK o \in Op: o = [type |-> type, key |-> k, value |-> v, prefix |-> FALSE]
  <2>1. k \in RowKey /\ v \in Nat
    BY TxnChoices
  <2>2. [type |-> type, key |-> k, value |-> v, prefix |-> FALSE] \in Op
    BY <2>1 DEF Op
  <2> QED
    BY <2>2
<1>4. <<o>> \in Seq(Op) /\ OpsValid(<<o>>)
  <2>1. DOMAIN <<o>> = 1..1 /\ Len(<<o>>) = 1 /\ <<o>>[1] = o /\ <<o>> \in Seq(Op)
    OBVIOUS
  <2>2. o.key # ""
    BY <1>3, TxnChoices
  <2>3. \A i \in 1..Len(<<o>>): i = 1
    BY <2>1
  <2> QED
    BY <2>1, <2>2, <2>3 DEF OpsValid
<1>5. /\ HistoryOK(txHist') /\ Len(txHist') \in {Len(txHist), Len(txHist) + 1}
      /\ \A r \in 1..Len(txHist): txHist'[r] = txHist[r]
  BY <1>1, <1>2, <1>3, <1>4, AppliedOK
<1>6. Len(txHist') \in Nat /\ Len(txHist) \in Nat /\ Len(txHist') >= Len(txHist)
  BY <1>1, <1>5 DEF HistoryOK
<1>7. txCall \in TxCall /\ (Ran(txHist, txCall) => Ran(txHist', txCall))
  BY <1>1, <1>5, <1>6, RanStays DEF TxnInv
<1>8. txCall.rev <= Len(txHist')
  BY <1>6 DEF TxnInv, TxCall
<1> QED
  BY <1>1, <1>5, <1>7, <1>8 DEF TxnInv

LEMMA EditsOK == ASSUME TxnInv, NEW rows \in TxRows, Edits(rows) PROVE TxnInv'
<1>1. txEdits' \in 0..MaxEdits
  BY TxnBounds DEF TxnInv, Edits
<1> QED
  BY <1>1 DEF TxnInv, Edits

LEMMA RowStepsOK ==
  ASSUME TxnInv, NEW i \in 1..(MaxEdits + 1)
  PROVE  /\ AddCond => TxnInv'
         /\ RemoveCond(i) => TxnInv'
         /\ \A c \in CondChoice: ChangeCond(i, c) => TxnInv'
         /\ \A part \in {"success", "failure"}:
              /\ \A type \in {"put", "delete", "get"}: AddOp(part, type) => TxnInv'
              /\ RemoveOp(part, i) => TxnInv'
              /\ \A o \in OpChoice: ChangeOp(part, i, o) => TxnInv'
<1>1. /\ txRows \in TxRows /\ txRows.conds \in Seq(Cond)
      /\ txRows.success \in Seq(Op) /\ txRows.failure \in Seq(Op)
  BY DEF TxnInv, TxRows
<1>2. ASSUME NEW conds \in Seq(Cond) PROVE [txRows EXCEPT !.conds = conds] \in TxRows
  BY <1>1 DEF TxRows
<1>3. ASSUME NEW part \in {"success", "failure"}, NEW ops \in Seq(Op)
      PROVE  [txRows EXCEPT ![part] = ops] \in TxRows /\ txRows[part] \in Seq(Op)
  <2>1. CASE part = "success"
    BY <1>1, <2>1 DEF TxRows
  <2>2. CASE part = "failure"
    BY <1>1, <2>2 DEF TxRows
  <2> QED
    BY <2>1, <2>2
<1>4. ASSUME AddCond PROVE TxnInv'
  <2>1. Append(txRows.conds, BlankCond) \in Seq(Cond)
    BY <1>1, BlankOK
  <2> QED
    BY <1>2, <1>4, <2>1, EditsOK DEF AddCond
<1>5. ASSUME RemoveCond(i) PROVE TxnInv'
  <2>1. RemoveAt(txRows.conds, i) \in Seq(Cond)
    BY <1>1, <1>5, RemoveAtType DEF RemoveCond
  <2> QED
    BY <1>2, <1>5, <2>1, EditsOK DEF RemoveCond
<1>6. ASSUME NEW c \in CondChoice, ChangeCond(i, c) PROVE TxnInv'
  <2>1. c \in Cond /\ i \in 1..Len(txRows.conds)
    BY <1>6, TxnChoices DEF ChangeCond
  <2>2. [txRows.conds EXCEPT ![i] = c] \in Seq(Cond)
    BY <1>1, <2>1
  <2>3. [txRows EXCEPT !.conds[i] = c]
          = [txRows EXCEPT !.conds = [txRows.conds EXCEPT ![i] = c]]
    OBVIOUS
  <2> QED
    BY <1>2, <1>6, <2>2, <2>3, EditsOK DEF ChangeCond
<1>7. ASSUME NEW part \in {"success", "failure"}, NEW type \in {"put", "delete", "get"},
             AddOp(part, type)
      PROVE  TxnInv'
  <2>1. txRows[part] \in Seq(Op)
    BY <1>1, <1>3
  <2>2. Append(txRows[part], BlankOp(type)) \in Seq(Op)
    BY <2>1, BlankOK
  <2> QED
    BY <1>3, <1>7, <2>2, EditsOK DEF AddOp
<1>8. ASSUME NEW part \in {"success", "failure"}, RemoveOp(part, i) PROVE TxnInv'
  <2>1. txRows[part] \in Seq(Op)
    BY <1>1, <1>3
  <2>2. RemoveAt(txRows[part], i) \in Seq(Op)
    BY <1>8, <2>1, RemoveAtType DEF RemoveOp
  <2> QED
    BY <1>3, <1>8, <2>2, EditsOK DEF RemoveOp
<1>9. ASSUME NEW part \in {"success", "failure"}, NEW o \in OpChoice, ChangeOp(part, i, o)
      PROVE  TxnInv'
  <2>1. txRows[part] \in Seq(Op)
    BY <1>1, <1>3
  <2>2. o \in Op /\ i \in 1..Len(txRows[part])
    BY <1>9, TxnChoices DEF ChangeOp
  <2>3. [txRows[part] EXCEPT ![i] = o] \in Seq(Op)
    BY <2>1, <2>2
  <2>4. [txRows EXCEPT ![part][i] = o]
          = [txRows EXCEPT ![part] = [txRows[part] EXCEPT ![i] = o]]
    OBVIOUS
  <2> QED
    BY <1>3, <1>9, <2>3, <2>4, EditsOK DEF ChangeOp
<1> QED
  BY <1>4, <1>5, <1>6, <1>7, <1>8, <1>9

LEMMA CommittedOK == TxnInv /\ Committed => TxnInv'
<1> SUFFICES ASSUME TxnInv, Committed PROVE TxnInv'
  OBVIOUS
<1> DEFINE rows == txCall.rows
           won == Wins(rows)
           ops == IF won THEN rows.success ELSE rows.failure
<1>1. /\ HistoryOK(txHist) /\ rows \in TxRows /\ txCall \in TxCall
      /\ rows.conds \in Seq(Cond) /\ ops \in Seq(Op)
  BY DEF TxnInv, TxCall, TxRows
<1>2. OpsValid(ops) /\ txHist' = Applied(ops)
  BY DEF Committed, Built
<1>3. txCall' = [txCall EXCEPT !.at = "committed", !.won = won, !.rev = Len(txHist')]
  BY DEF Committed
<1>4. won \in BOOLEAN
  BY DEF Wins
<1> HIDE DEF ops
<1>5. /\ HistoryOK(txHist') /\ Len(txHist') \in {Len(txHist), Len(txHist) + 1}
      /\ \A r \in 1..Len(txHist): txHist'[r] = txHist[r]
      /\ Becomes(Now, txHist'[Len(txHist')], ops, Len(txHist'))
  BY <1>1, <1>2, AppliedOK
<1>6. /\ Len(txHist) \in Nat \ {0} /\ Len(txHist') \in Nat \ {0}
      /\ Now = txHist[Len(txHist)]
  BY <1>1, <1>5 DEF HistoryOK, Now, Last
<1>7. won <=> \A c \in ToSet(rows.conds): Holds(Now, c)
  <2>1. ToSet(rows.conds) = {rows.conds[i] : i \in 1..Len(rows.conds)}
    BY <1>1 DEF ToSet
  <2> QED
    BY <2>1 DEF Wins
<1> HIDE DEF won
<1>8. /\ txCall' \in TxCall /\ txCall'.at = "committed" /\ txCall'.won = won
      /\ txCall'.rev = Len(txHist') /\ txCall'.rows = rows
  BY <1>1, <1>3, <1>4, <1>6 DEF TxCall
<1>9. Ran(txHist', txCall')
  <2> DEFINE r == Len(txHist)
  <2>1. /\ r \in {txCall'.rev - 1, txCall'.rev} \ {0} /\ txHist'[r] = Now
        /\ txCall'.rev \in 1..Len(txHist')
    BY <1>5, <1>6, <1>8
  <2>2. ops = IF txCall'.won THEN txCall'.rows.success ELSE txCall'.rows.failure
    BY <1>8 DEF ops
  <2> HIDE DEF rows
  <2> QED
    BY <1>5, <1>7, <1>8, <2>1, <2>2 DEF Ran
<1>10. UNCHANGED <<txRows, txEdits>>
  BY DEF Committed
<1> QED
  BY <1>5, <1>6, <1>8, <1>9, <1>10 DEF TxnInv

LEMMA TxnNextOK == TxnInv /\ TxnNext => TxnInv'
<1> SUFFICES ASSUME TxnInv, TxnNext PROVE TxnInv'
  OBVIOUS
<1>1. HistoryOK(txHist) /\ txRows \in TxRows /\ txCall \in TxCall
  BY DEF TxnInv
<1>2. CASE CommitTxn
  <2>1. txCall' \in TxCall /\ txCall'.at = "pending" /\ txCall'.rev = 0
    BY <1>1, <1>2 DEF CommitTxn, TxCall
  <2>2. Len(txHist) \in Nat
    BY <1>1 DEF HistoryOK
  <2> QED
    BY <1>2, <2>1, <2>2 DEF CommitTxn, TxnInv
<1>3. CASE TxnAnswered
  <2>1. UNCHANGED <<txHist, txRows, txEdits>>
    BY <1>3 DEF TxnAnswered
  <2>2. ASSUME NEW at \in TxEnded, txCall' = [txCall EXCEPT !.at = at]
        PROVE  /\ txCall' \in TxCall /\ txCall'.at = at
               /\ txCall'.rev = txCall.rev /\ txCall'.won = txCall.won
               /\ txCall'.rows = txCall.rows
    BY <1>1, <2>2 DEF TxCall
  <2>3. CASE txCall' = [txCall EXCEPT !.at = "error"]
    BY <2>1, <2>2, <2>3 DEF TxnInv, TxEnded
  <2>4. CASE /\ txCall.at = "committed"
             /\ txCall' = [txCall EXCEPT !.at = IF txCall.won THEN "succeeded" ELSE "else"]
    <3>1. PICK at \in TxEnded: at = IF txCall.won THEN "succeeded" ELSE "else"
      BY DEF TxEnded
    <3>2. /\ txCall' \in TxCall /\ txCall'.at = at /\ txCall'.rev = txCall.rev
          /\ txCall'.won = txCall.won /\ txCall'.rows = txCall.rows
      BY <2>2, <2>4, <3>1
    <3>3. Ran(txHist, txCall')
      BY <2>4, <3>2 DEF TxnInv, Ran
    <3> QED
      BY <2>1, <3>1, <3>2, <3>3 DEF TxnInv
  <2> QED
    BY <1>3, <2>3, <2>4 DEF TxnAnswered
<1>4. 1 \in 1..(MaxEdits + 1)
  BY TxnBounds
<1> QED
  BY <1>2, <1>3, <1>4, OthersOK, CommittedOK, RowStepsOK DEF TxnNext

LEMMA TxnInConsole ==
  ASSUME TxnInv, [ConsoleNext]_consoleVars, route = "txn"
  PROVE  TxnInv'
<1>1. CASE TxnNext
  BY <1>1, TxnNextOK
<1>2. CASE UNCHANGED txVars
  BY <1>2 DEF txVars, TxnInv
<1>3. TxnNext \/ UNCHANGED txVars
  BY DEF ConsoleNext, KeyPages, OtherPages, FormPages, Cards, Widgets, consoleVars
<1> QED
  BY <1>1, <1>2, <1>3

\* The tag names the branch that ran and the revision it left, of the rows that were
\* sent, whatever others write and whatever is edited while the call is under way.
THEOREM TagTellsWhatRan == ConsoleSpec => []TxnTellsWhatRanHere
<1> DEFINE Inv == route = "txn" => TxnInv
<1>1. ConsoleInit => Inv
  BY TxnInitOK DEF ConsoleInit
<1>2. Inv /\ [ConsoleNext]_consoleVars => Inv'
  BY TxnInConsole, RouteStays
<1>3. Inv => TxnTellsWhatRanHere
  BY TxnInvHolds DEF TxnTellsWhatRanHere
<1> QED
  BY <1>1, <1>2, <1>3, PTL DEF ConsoleSpec

----------------------------------------------------------------------------
(***************************************************************************)
(* The stream client.  What is published of a stream follows its           *)
(* transports: "ws" is said of an open socket only, "sse" of an event      *)
(* source that may be trying again.                                        *)
(***************************************************************************)
WayOK(s) ==
  IF s \in Live
    THEN /\ \/ ws[s] # "none" /\ es[s] = "none" /\ timer[s] = FALSE
            \/ ws[s] = "none" /\ es[s] # "none" /\ timer[s] = FALSE
            \/ ws[s] = "none" /\ es[s] = "none" /\ timer[s] = TRUE
         /\ pinging[s] = (ws[s] = "open")
    ELSE /\ ws[s] = "none" /\ es[s] = "none"
         /\ timer[s] = FALSE /\ pinging[s] = FALSE

ShownOK(s) ==
  /\ s \notin Live <=> liveStreams[s].transport = "closed"
  /\ ws[s] = "open" <=> liveStreams[s].transport = "ws"
  /\ liveStreams[s].transport = "sse" => es[s] # "none"
  /\ es[s] = "open" => liveStreams[s].transport = "sse"
  /\ ws[s] = "open" => kind[s] = "ws"

StreamInv == StreamTypeOK /\ \A s \in Stream: WayOK(s) /\ ShownOK(s)

LEMMA WaysInOrder == StreamInv => OneWayOn
<1> SUFFICES ASSUME StreamInv, NEW s \in Stream
             PROVE  LET ways == <<ws[s] # "none", es[s] # "none", timer[s]>> IN
                      IF s \in Live
                        THEN /\ \E i \in 1..3: \A j \in 1..3: ways[j] <=> j = i
                             /\ pinging[s] <=> ws[s] = "open"
                        ELSE /\ \A i \in 1..3: ~ways[i]
                             /\ ~pinging[s]
  BY DEF OneWayOn
<1> DEFINE ways == <<ws[s] # "none", es[s] # "none", timer[s]>>
<1>1. /\ ways[1] <=> ws[s] # "none"
      /\ ways[2] <=> es[s] # "none"
      /\ ways[3] <=> timer[s]
  OBVIOUS
<1>2. 1..3 = {1, 2, 3}
  OBVIOUS
<1>3. WayOK(s)
  BY DEF StreamInv
<1> HIDE DEF ways
<1>4. CASE s \in Live
  <2>1. \E i \in {1, 2, 3}: \A j \in {1, 2, 3}: ways[j] <=> j = i
    BY <1>1, <1>3, <1>4 DEF WayOK
  <2>2. pinging[s] <=> ws[s] = "open"
    BY <1>3, <1>4 DEF WayOK
  <2> QED
    BY <1>2, <1>4, <2>1, <2>2 DEF ways
<1>5. CASE s \notin Live
  <2>1. \A i \in {1, 2, 3}: ~ways[i]
    BY <1>1, <1>3, <1>5 DEF WayOK
  <2> QED
    BY <1>2, <1>3, <1>5, <2>1 DEF ways, WayOK
<1> QED
  BY <1>4, <1>5

LEMMA StatusInOrder == StreamInv => StatusTrue
<1> SUFFICES ASSUME StreamInv PROVE StatusTrue
  OBVIOUS
<1> DEFINE As(k) == {s \in Stream : liveStreams[s].transport = k}
           Waiting == {s \in As("connecting") : liveStreams[s].waiting}
<1>1. \A s \in Live: s \in Stream
  BY StreamAssumption DEF StreamInv, StreamTypeOK, Live, Opened, Stream
<1>2. \A s \in Stream: ShownOK(s)
  BY DEF StreamInv
<1>3. As("closed") = Stream <=> Live = {}
  BY <1>1, <1>2 DEF ShownOK
<1>4. Pill = IF As("closed") = Stream THEN "hidden"
             ELSE IF Waiting # {} THEN "reconnect"
             ELSE IF As("connecting") # {} THEN "connecting"
             ELSE IF As("ws") = {} THEN "SSE" ELSE "WS"
  BY DEF Pill
<1>5. Pill = "hidden" <=> Live = {}
  BY <1>3, <1>4
<1>6. Pill = "WS" => \A s \in Live: ws[s] = "open" \/ es[s] # "none"
  <2> SUFFICES ASSUME Pill = "WS", NEW s \in Live PROVE ws[s] = "open" \/ es[s] # "none"
    OBVIOUS
  <2>1. liveStreams[s].transport # "connecting"
    BY <1>1, <1>4
  <2>2. liveStreams[s].transport \in {"connecting", "ws", "sse", "closed"}
    BY <1>1 DEF StreamInv, StreamTypeOK
  <2> QED
    BY <1>1, <1>2, <2>1, <2>2 DEF ShownOK
<1>7. Pill = "reconnect" => \E s \in Live: ~IsOpen(s)
  <2> SUFFICES ASSUME Pill = "reconnect" PROVE \E s \in Live: ~IsOpen(s)
    OBVIOUS
  <2>1. PICK s \in Stream: liveStreams[s].transport = "connecting"
    BY <1>4
  <2> QED
    BY <1>2, <2>1 DEF ShownOK, IsOpen
<1> QED
  BY <1>5, <1>6, <1>7 DEF StatusTrue

LEMMA StreamInitOK == StreamInit => StreamInv
BY StreamAssumption
DEF StreamInit, StreamInv, StreamTypeOK, WayOK, ShownOK, NoEntry, Live, Opened, Stream

\* Closing streams and opening one: those that go have nothing left, the new one
\* has a socket or an event source, the others stay as they are.
LEMMA ReopenOK ==
  ASSUME StreamInv, NEW S \in SUBSET Opened, NEW more \in BOOLEAN,
         Reopen(S, more), more => nextID < MaxStreams, UNCHANGED serviceVars
  PROVE  /\ StreamInv'
         /\ Live' = (Live \ S) \cup (IF more THEN {nextID + 1} ELSE {})
<1> DEFINE n == nextID + 1
           Gone == S \ closed
<1>1. /\ nextID \in 0..MaxStreams /\ nextID \in Nat /\ MaxStreams \in Nat
      /\ closed \subseteq 1..nextID /\ S \subseteq 1..nextID
      /\ more => n \in Stream
  BY StreamAssumption DEF StreamInv, StreamTypeOK, Opened, Stream
<1>2. /\ nextID' \in 0..MaxStreams /\ nextID' = IF more THEN n ELSE nextID
      /\ closed' = closed \cup S
  BY <1>1 DEF Reopen
<1>3. Live' = (Live \ S) \cup (IF more THEN {n} ELSE {})
  BY <1>1, <1>2 DEF Live, Opened
<1>4. Gone = Live \cap S /\ n \notin Live
  <2>1. Live = (1..nextID) \ closed
    BY DEF Live, Opened
  <2>2. n \notin 1..nextID
    BY <1>1
  <2> QED
    BY <1>1, <2>1, <2>2
<1>5. StreamTypeOK'
  <2>1. /\ ws' \in [Stream -> {"none", "connecting", "open"}]
        /\ es' \in [Stream -> {"none", "connecting", "open"}]
    BY DEF Reopen, StreamInv, StreamTypeOK
  <2>2. /\ kind' \in [Stream -> {"connecting", "ws", "sse"}]
        /\ backoff' \in [Stream -> 0..MaxBackoff]
    BY StreamAssumption DEF Reopen, StreamInv, StreamTypeOK
  <2>3. timer' \in [Stream -> BOOLEAN] /\ pinging' \in [Stream -> BOOLEAN]
    BY DEF Reopen, StreamInv, StreamTypeOK
  <2>4. liveStreams' \in [Stream ->
          [transport: {"connecting", "ws", "sse", "closed"}, waiting: BOOLEAN]]
    BY DEF Reopen, StreamInv, StreamTypeOK, NoEntry
  <2>5. closed' \subseteq Opened'
    BY <1>1, <1>2 DEF Opened
  <2>6. up' \in BOOLEAN /\ outages' \in 0..MaxOutages /\ upgrades' \in BOOLEAN
    BY DEF serviceVars, StreamInv, StreamTypeOK
  <2> QED
    BY <1>2, <2>1, <2>2, <2>3, <2>4, <2>5, <2>6 DEF StreamTypeOK
<1>6. ASSUME NEW s \in Stream PROVE WayOK(s)' /\ ShownOK(s)'
  <2>1. WayOK(s) /\ ShownOK(s) /\ StreamTypeOK
    BY DEF StreamInv
  <2>2. CASE s \in Gone
    BY <1>3, <1>4, <2>2 DEF Reopen, WayOK, ShownOK, NoEntry
  <2>3. CASE more /\ s = n
    <3>1. s \in Live' /\ s \notin Live /\ s \notin Gone
      BY <1>3, <1>4, <2>3
    <3>2. /\ \/ ws'[s] = "connecting" /\ es'[s] = "none"
             \/ ws'[s] = "none" /\ es'[s] = "connecting"
          /\ timer'[s] = FALSE /\ pinging'[s] = FALSE
          /\ liveStreams'[s].transport = "connecting"
      <4>1. PICK throws \in BOOLEAN:
              /\ ws'[s] = IF ~throws THEN "connecting" ELSE ws[s]
              /\ es'[s] = IF throws THEN "connecting" ELSE es[s]
        BY <2>3, <3>1 DEF Reopen
      <4>2. /\ timer'[s] = (timer[s] /\ s \notin Gone)
            /\ pinging'[s] = (pinging[s] /\ s \notin Gone)
            /\ liveStreams'[s].transport = "connecting"
        BY <2>3, <3>1 DEF Reopen
      <4>3. /\ ws[s] = "none" /\ es[s] = "none"
            /\ timer[s] = FALSE /\ pinging[s] = FALSE
        BY <2>1, <3>1 DEF WayOK
      <4>4. timer'[s] = FALSE /\ pinging'[s] = FALSE
        BY <4>2, <4>3
      <4>5. \/ ws'[s] = "connecting" /\ es'[s] = "none"
            \/ ws'[s] = "none" /\ es'[s] = "connecting"
        BY <4>1, <4>3
      <4> QED
        BY <4>2, <4>4, <4>5
    <3> QED
      BY <3>1, <3>2 DEF WayOK, ShownOK
  <2>4. CASE s \notin Gone /\ ~(more /\ s = n)
    <3>1. s \in Live' <=> s \in Live
      BY <1>3, <1>4, <2>4
    <3>2. /\ ws'[s] = ws[s] /\ es'[s] = es[s] /\ timer'[s] = timer[s]
          /\ pinging'[s] = pinging[s] /\ kind'[s] = kind[s]
          /\ liveStreams'[s] = liveStreams[s]
      BY <2>1, <2>4 DEF Reopen, StreamTypeOK
    <3> QED
      BY <2>1, <3>1, <3>2 DEF WayOK, ShownOK
  <2> QED
    BY <2>2, <2>3, <2>4
<1> QED
  BY <1>3, <1>5, <1>6 DEF StreamInv

\* What is the same in every stream that is not s.
LEMMA OthersStay ==
  ASSUME StreamInv, NEW s \in Stream, NEW t \in Stream, t # s,
         ws'[t] = ws[t], es'[t] = es[t], timer'[t] = timer[t], pinging'[t] = pinging[t],
         kind'[t] = kind[t], liveStreams'[t] = liveStreams[t],
         UNCHANGED <<nextID, closed>>
  PROVE  WayOK(t)' /\ ShownOK(t)'
BY DEF StreamInv, WayOK, ShownOK, Live, Opened

\* What the browser makes of a stream is only of streams that are not closed,
\* and leaves it one way to go on.
LEMMA CallbackOK ==
  ASSUME StreamInv, NEW s \in Stream, Callback(s), UNCHANGED serviceVars
  PROVE  StreamInv' /\ UNCHANGED <<nextID, closed>>
<1>1. StreamTypeOK /\ WayOK(s) /\ ShownOK(s)
  BY DEF StreamInv
<1>2. UNCHANGED <<nextID, closed>> /\ Live' = Live
  BY DEF Callback, SocketOpens, SocketCloses, TimerFires, SourceOpens, SourceDrops,
         SourceFails, Live, Opened
<1>3. s \in Live
  BY <1>1 DEF Callback, SocketOpens, SocketCloses, TimerFires, SourceOpens,
              SourceDrops, SourceFails, WayOK
<1>4. StreamTypeOK'
  <2>1. /\ nextID' \in 0..MaxStreams /\ closed' \subseteq Opened'
        /\ up' \in BOOLEAN /\ outages' \in 0..MaxOutages /\ upgrades' \in BOOLEAN
    BY <1>1, <1>2 DEF StreamTypeOK, serviceVars, Opened
  <2>2. /\ ws' \in [Stream -> {"none", "connecting", "open"}]
        /\ es' \in [Stream -> {"none", "connecting", "open"}]
        /\ kind' \in [Stream -> {"connecting", "ws", "sse"}]
    BY <1>1 DEF StreamTypeOK, Callback, SocketOpens, SocketCloses, TimerFires,
                SourceOpens, SourceDrops, SourceFails
  <2>3. backoff' \in [Stream -> 0..MaxBackoff]
    <3>1. \/ UNCHANGED backoff \/ backoff' = [backoff EXCEPT ![s] = 0]
          \/ backoff' = [backoff EXCEPT ![s] = IF @ < MaxBackoff THEN @ + 1 ELSE @]
      BY DEF Callback, SocketOpens, SocketCloses, TimerFires,
             SourceOpens, SourceDrops, SourceFails
    <3>2. backoff \in [Stream -> 0..MaxBackoff] /\ MaxBackoff \in Nat
      BY <1>1, StreamAssumption DEF StreamTypeOK
    <3>3. 0 \in 0..MaxBackoff
          /\ \A b \in 0..MaxBackoff: (IF b < MaxBackoff THEN b + 1 ELSE b) \in 0..MaxBackoff
      BY <3>2
    <3>4. backoff[s] \in 0..MaxBackoff
      BY <3>2
    <3> QED
      BY <3>1, <3>2, <3>3, <3>4
  <2>4. timer' \in [Stream -> BOOLEAN] /\ pinging' \in [Stream -> BOOLEAN]
    BY <1>1 DEF StreamTypeOK, Callback, SocketOpens, SocketCloses, TimerFires,
                SourceOpens, SourceDrops, SourceFails, ScheduleReconnect
  <2>5. liveStreams' \in [Stream ->
          [transport: {"connecting", "ws", "sse", "closed"}, waiting: BOOLEAN]]
    <3>1. \/ UNCHANGED liveStreams
          \/ \E k \in {"connecting", "ws", "sse"}, w \in BOOLEAN: Publish(s, k, w)
      BY DEF Callback, SocketOpens, SocketCloses, TimerFires,
             SourceOpens, SourceDrops, SourceFails, ScheduleReconnect
    <3> QED
      BY <1>1, <3>1 DEF StreamTypeOK, Publish
  <2> QED
    BY <2>1, <2>2, <2>3, <2>4, <2>5 DEF StreamTypeOK
<1>5. ASSUME NEW t \in Stream, t # s PROVE WayOK(t)' /\ ShownOK(t)'
  <2>1. /\ ws'[t] = ws[t] /\ es'[t] = es[t] /\ kind'[t] = kind[t]
        /\ liveStreams'[t] = liveStreams[t]
    BY <1>1, <1>5 DEF StreamTypeOK, Callback, SocketOpens, SocketCloses, TimerFires,
                SourceOpens, SourceDrops, SourceFails, ScheduleReconnect, Publish
  <2>2. timer'[t] = timer[t] /\ pinging'[t] = pinging[t]
    BY <1>1, <1>5 DEF StreamTypeOK, Callback, SocketOpens, SocketCloses, TimerFires,
                SourceOpens, SourceDrops, SourceFails, ScheduleReconnect
  <2> QED
    BY <1>2, <1>5, <2>1, <2>2, OthersStay
<1>6. WayOK(s)' /\ ShownOK(s)'
  <2> USE <1>1, <1>2, <1>3 DEF StreamTypeOK, WayOK, ShownOK
  <2>1. CASE SocketOpens(s)
    BY <2>1 DEF SocketOpens, Publish
  <2>2. CASE SocketCloses(s)
    <3>1. CASE kind[s] = "connecting"
      BY <2>2, <3>1 DEF SocketCloses
    <3>2. CASE kind[s] # "connecting"
      <4>1. timer[s] = FALSE
        BY <2>2 DEF SocketCloses
      <4>2. /\ ws'[s] = "none" /\ es'[s] = es[s] /\ es[s] = "none"
            /\ pinging'[s] = FALSE /\ timer'[s] = TRUE
            /\ liveStreams'[s].transport = "connecting"
        BY <2>2, <3>2, <4>1 DEF SocketCloses, ScheduleReconnect, Publish
      <4> QED
        BY <4>2
    <3> QED
      BY <3>1, <3>2
  <2>3. CASE TimerFires(s)
    BY <2>3 DEF TimerFires
  <2>4. CASE SourceOpens(s)
    BY <2>4 DEF SourceOpens, Publish
  <2>5. CASE SourceDrops(s)
    BY <2>5 DEF SourceDrops
  <2>6. CASE SourceFails(s)
    BY <2>6 DEF SourceFails, ScheduleReconnect, Publish
  <2> QED
    BY <2>1, <2>2, <2>3, <2>4, <2>5, <2>6 DEF Callback
<1> QED
  BY <1>2, <1>4, <1>5, <1>6 DEF StreamInv

LEMMA StreamsStay ==
  ASSUME StreamInv, UNCHANGED streamVars, UNCHANGED serviceVars \/ Goes \/ Comes
  PROVE  StreamInv'
<1>1. up' \in BOOLEAN /\ outages' \in 0..MaxOutages /\ upgrades' \in BOOLEAN
  <2>1. up \in BOOLEAN /\ outages \in 0..MaxOutages /\ upgrades \in BOOLEAN
    BY DEF StreamInv, StreamTypeOK
  <2>2. CASE UNCHANGED serviceVars
    BY <2>1, <2>2 DEF serviceVars
  <2>3. CASE Goes
    <3>1. outages' \in 0..MaxOutages
      BY <2>1, <2>3, StreamAssumption DEF Goes
    <3> QED
      BY <2>1, <2>3, <3>1 DEF Goes
  <2>4. CASE Comes
    BY <2>1, <2>4 DEF Comes
  <2> QED
    BY <2>2, <2>3, <2>4
<1> QED
  BY <1>1 DEF StreamInv, StreamTypeOK, WayOK, ShownOK, streamVars, Live, Opened

----------------------------------------------------------------------------
(***************************************************************************)
(* The page.  Only its own stream is fed, with writes under its prefix,    *)
(* the older ones first, all of them later than what the page lists.       *)
(***************************************************************************)
Coming(q, p) ==
  \A i \in 1..Len(q):
    /\ q[i] \in 1..Len(written)
    /\ p = All \/ written[q[i]] = p
    /\ \A j \in 1..Len(q): i < j => q[i] < q[j]
    /\ \A k \in 1..Len(events): events[k] < q[i]

PageTypeOK ==
  /\ written \in Seq(Prefix) /\ Len(written) <= MaxRev
  /\ path \in [Stream -> Watched \cup {"alerts"}]
  /\ feed \in [Stream -> Seq(1..MaxRev)]
  /\ prefix \in Watched /\ paused \in BOOLEAN
  /\ events \in Seq(1..MaxRev) /\ Len(events) <= EventCap
  /\ permission \in {"default", "granted"}

Subscribed ==
  /\ closer \in 0..MaxStreams /\ streamRef \in 0..MaxStreams
  /\ Live = {closer, streamRef} \ {0}
  /\ closer # 0 => closer # streamRef /\ path[closer] = prefix
  /\ paused = TRUE => closer = 0
  /\ \A s \in Stream: s # closer => path[s] = "alerts" /\ feed[s] = <<>>

ListOK ==
  /\ \A k \in 1..Len(events): events[k] \in 1..Len(written)
  /\ \A j, k \in 1..Len(events): j < k => events[j] > events[k]

PageInv == PageTypeOK /\ Subscribed /\ ListOK /\ \A s \in Stream: Coming(feed[s], path[s])

WatchInv == StreamInv /\ PageInv

LEMMA InvHolds == WatchInv => StreamsInOrder
<1> SUFFICES ASSUME WatchInv PROVE StreamsInOrder
  OBVIOUS
<1>1. TypeOK
  BY DEF WatchInv, PageInv, PageTypeOK, Subscribed, TypeOK, StreamInv
<1>2. OneWayOn /\ StatusTrue
  BY WaysInOrder, StatusInOrder DEF WatchInv
<1>3. NoStreamLeaks /\ NewestFirst
  BY DEF WatchInv, PageInv, Subscribed, ListOK, NoStreamLeaks, NewestFirst
<1> QED
  BY <1>1, <1>2, <1>3 DEF StreamsInOrder

\* An empty queue, and an empty list.
LEMMA NothingComing ==
  /\ \A S: <<>> \in Seq(S)
  /\ Len(<<>>) = 0 /\ 1..Len(<<>>) = {}
  /\ \A p: Coming(<<>>, p)
<1>1. \A S: <<>> \in Seq(S)
  OBVIOUS
<1>2. Len(<<>>) = 0 /\ 1..0 = {}
  OBVIOUS
<1> QED
  BY <1>1, <1>2 DEF Coming

LEMMA InitOK == Init => WatchInv
<1> SUFFICES ASSUME Init PROVE WatchInv
  OBVIOUS
<1>1. StreamInv
  BY StreamInitOK DEF Init
<1>2. written = <<>> /\ events = <<>> /\ \A s \in Stream: feed[s] = <<>>
  BY DEF Init
<1>3. PageTypeOK
  <2>1. /\ written \in Seq(Prefix) /\ Len(written) <= MaxRev
        /\ events \in Seq(1..MaxRev) /\ Len(events) <= EventCap
    BY <1>2, NothingComing, WatchAssumption
  <2>2. path \in [Stream -> Watched \cup {"alerts"}]
    BY DEF Init
  <2>3. feed \in [Stream -> Seq(1..MaxRev)]
    BY NothingComing DEF Init
  <2> QED
    BY <2>1, <2>2, <2>3, WatchAssumption DEF Init, PageTypeOK
<1>4. Live = {}
  BY DEF Init, StreamInit, Live, Opened
<1>5. Subscribed
  BY <1>2, <1>4, StreamAssumption DEF Init, Subscribed
<1>6. ListOK /\ \A s \in Stream: Coming(feed[s], path[s])
  BY <1>2, NothingComing DEF ListOK
<1> QED
  BY <1>1, <1>3, <1>5, <1>6 DEF WatchInv, PageInv

\* What Subscribe does to the streams, their paths and what is fed to them.
LEMMA SubscribeOK ==
  ASSUME WatchInv, NEW old \in {0} \cup Live, NEW p \in Watched \cup {"alerts"},
         Subscribe(old, p), UNCHANGED <<serviceVars, written, events>>
  PROVE  /\ StreamInv'
         /\ nextID + 1 \in Stream /\ nextID + 1 \notin Live \cup {0}
         /\ Live' = (Live \ {old}) \cup {nextID + 1}
         /\ path' \in [Stream -> Watched \cup {"alerts"}]
         /\ feed' \in [Stream -> Seq(1..MaxRev)]
         /\ path'[nextID + 1] = p /\ feed'[nextID + 1] = <<>>
         /\ \A s \in Stream: s = old => path'[s] = "alerts" /\ feed'[s] = <<>>
         /\ \A s \in Stream: s \notin {old, nextID + 1} =>
              path'[s] = path[s] /\ feed'[s] = feed[s]
         /\ \A s \in Stream: Coming(feed[s], path[s])'
<1> DEFINE n == nextID + 1
           S == {old} \ {0}
<1>1. /\ nextID \in Nat /\ MaxStreams \in Nat /\ nextID < MaxStreams
      /\ Live \subseteq 1..nextID /\ Opened = 1..nextID
  BY StreamAssumption DEF WatchInv, StreamInv, StreamTypeOK, Live, Opened, Subscribe
<1>2. n \in Stream /\ n \notin Live \cup {0} /\ n # old
  BY <1>1 DEF Stream
<1>3. S \in SUBSET Opened /\ Live \ S = Live \ {old}
  BY <1>1
<1>4. Reopen(S, TRUE)
  BY DEF Subscribe
<1>5. StreamInv' /\ Live' = (Live \ {old}) \cup {n}
  BY <1>1, <1>3, <1>4, ReopenOK DEF WatchInv
<1>6. /\ path' = [s \in Stream |-> IF s = n THEN p
                                   ELSE IF s = old THEN "alerts" ELSE path[s]]
      /\ feed' = [s \in Stream |-> IF s \in {old, n} THEN <<>> ELSE feed[s]]
  BY DEF Subscribe
<1>7. /\ path \in [Stream -> Watched \cup {"alerts"}]
      /\ feed \in [Stream -> Seq(1..MaxRev)]
      /\ <<>> \in Seq(1..MaxRev)
  BY NothingComing DEF WatchInv, PageInv, PageTypeOK
<1>8. /\ path' \in [Stream -> Watched \cup {"alerts"}]
      /\ feed' \in [Stream -> Seq(1..MaxRev)]
  BY <1>6, <1>7
<1>9. /\ path'[n] = p /\ feed'[n] = <<>>
      /\ \A s \in Stream: s = old => path'[s] = "alerts" /\ feed'[s] = <<>>
      /\ \A s \in Stream: s \notin {old, n} => path'[s] = path[s] /\ feed'[s] = feed[s]
  BY <1>2, <1>6
<1>10. ASSUME NEW s \in Stream PROVE Coming(feed[s], path[s])'
  <2>1. CASE s \in {old, n}
    <3>1. feed'[s] = <<>>
      BY <1>9, <2>1
    <3> QED
      BY <3>1, NothingComing DEF Coming
  <2>2. CASE s \notin {old, n}
    BY <1>9, <2>2 DEF Coming, WatchInv, PageInv
  <2> QED
    BY <2>1, <2>2
<1> QED
  BY <1>2, <1>5, <1>8, <1>9, <1>10

\* What a step that leaves the list and its streams' feeds alone preserves.
LEMMA ListStays ==
  ASSUME WatchInv, UNCHANGED <<written, events>> PROVE ListOK'
BY DEF WatchInv, PageInv, ListOK

LEMMA WatchOK ==
  ASSUME WatchInv, NEW p \in Watched, Watch(p) PROVE WatchInv'
<1>1. ListOK'
  BY ListStays DEF Watch
<1>2. CASE paused
  <2>1. UNCHANGED <<streamVars, serviceVars, path, feed, closer, written, paused, events,
                    alertVars>>
    BY <1>2 DEF Watch
  <2>2. StreamInv'
    BY <2>1, StreamsStay DEF WatchInv
  <2>3. PageTypeOK'
    BY <2>1 DEF Watch, WatchInv, PageInv, PageTypeOK, alertVars
  <2>4. Subscribed'
    BY <1>2, <2>1 DEF WatchInv, PageInv, PageTypeOK, Subscribed, alertVars, streamVars, Live, Opened
  <2>5. \A s \in Stream: Coming(feed[s], path[s])'
    BY <2>1 DEF WatchInv, PageInv, Coming
  <2> QED
    BY <1>1, <2>2, <2>3, <2>4, <2>5 DEF WatchInv, PageInv
<1>3. CASE ~paused
  <2>1. /\ Subscribe(closer, p) /\ closer' = nextID + 1 /\ prefix' = p
        /\ UNCHANGED <<serviceVars, written, paused, events, streamRef, permission>>
    BY <1>3 DEF Watch, alertVars
  <2>2. closer \in {0} \cup Live
    BY DEF WatchInv, PageInv, Subscribed
  <2>3. p \in Watched \cup {"alerts"}
    OBVIOUS
  <2> DEFINE n == nextID + 1
  <2>4. /\ StreamInv'
        /\ n \in Stream /\ n \notin Live \cup {0}
        /\ Live' = (Live \ {closer}) \cup {n}
        /\ path' \in [Stream -> Watched \cup {"alerts"}]
        /\ feed' \in [Stream -> Seq(1..MaxRev)]
        /\ path'[n] = p
        /\ \A s \in Stream: s = closer => path'[s] = "alerts" /\ feed'[s] = <<>>
        /\ \A s \in Stream: s \notin {closer, n} => path'[s] = path[s] /\ feed'[s] = feed[s]
        /\ \A s \in Stream: Coming(feed[s], path[s])'
    BY <2>1, <2>2, <2>3, SubscribeOK
  <2> HIDE DEF n
  <2>5. PageTypeOK'
    BY <2>1, <2>4 DEF WatchInv, PageInv, PageTypeOK
  <2>6. Subscribed'
    <3>1. Subscribed /\ paused = FALSE
      BY <1>3 DEF WatchInv, PageInv, PageTypeOK
    <3>2. closer' \in 0..MaxStreams /\ streamRef' \in 0..MaxStreams
      BY <2>1, <2>4, <3>1, StreamAssumption DEF Subscribed, Stream, n
    <3>3. closer' # streamRef' /\ path'[closer'] = prefix'
      BY <2>1, <2>4, <3>1 DEF Subscribed, n
    <3>4. Live' = {closer', streamRef'} \ {0}
      BY <2>1, <2>4, <3>1 DEF Subscribed, n
    <3>5. \A s \in Stream: s # closer' => path'[s] = "alerts" /\ feed'[s] = <<>>
      BY <2>1, <2>4, <3>1 DEF Subscribed, n
    <3> QED
      BY <2>1, <3>1, <3>2, <3>3, <3>4, <3>5 DEF Subscribed
  <2> QED
    BY <1>1, <2>4, <2>5, <2>6 DEF WatchInv, PageInv
<1> QED
  BY <1>2, <1>3

LEMMA ResumeOK ==
  ASSUME WatchInv, Resume PROVE WatchInv'
<1> DEFINE n == nextID + 1
<1>1. /\ Subscribe(0, prefix) /\ closer' = nextID + 1 /\ paused' = FALSE /\ paused
      /\ UNCHANGED <<serviceVars, written, prefix, events, streamRef, permission>>
  BY DEF Resume, alertVars
<1>2. Subscribed /\ PageTypeOK /\ closer = 0 /\ prefix \in Watched \cup {"alerts"}
  BY <1>1 DEF WatchInv, PageInv, PageTypeOK, Subscribed
<1>3. /\ StreamInv'
      /\ n \in Stream /\ n \notin Live \cup {0}
      /\ Live' = (Live \ {0}) \cup {n}
      /\ path' \in [Stream -> Watched \cup {"alerts"}]
      /\ feed' \in [Stream -> Seq(1..MaxRev)]
      /\ path'[n] = prefix
      /\ \A s \in Stream: s \notin {0, n} => path'[s] = path[s] /\ feed'[s] = feed[s]
      /\ \A s \in Stream: Coming(feed[s], path[s])'
  BY <1>1, <1>2, SubscribeOK
<1> HIDE DEF n
<1>4. PageTypeOK'
  BY <1>1, <1>2, <1>3 DEF PageTypeOK
<1>5. Subscribed'
  <2>1. closer' \in 0..MaxStreams /\ streamRef' \in 0..MaxStreams
    BY <1>1, <1>2, <1>3, StreamAssumption DEF Subscribed, Stream, n
  <2>2. closer' # streamRef' /\ path'[closer'] = prefix'
    BY <1>1, <1>2, <1>3 DEF Subscribed, n
  <2>3. Live' = {closer', streamRef'} \ {0}
    BY <1>1, <1>2, <1>3 DEF Subscribed, n
  <2>4. \A s \in Stream: s # closer' => path'[s] = "alerts" /\ feed'[s] = <<>>
    <3>1. 0 \notin Stream
      BY DEF Stream
    <3> QED
      BY <1>1, <1>2, <1>3, <3>1 DEF Subscribed, n
  <2> QED
    BY <1>1, <2>1, <2>2, <2>3, <2>4 DEF Subscribed
<1> QED
  BY <1>1, <1>3, <1>4, <1>5, ListStays DEF WatchInv, PageInv

LEMMA WatchAlertsOK ==
  ASSUME WatchInv, NEW answer \in {"default", "granted"}, WatchAlerts(answer) PROVE WatchInv'
<1> DEFINE n == nextID + 1
<1>1. /\ Subscribe(streamRef, "alerts") /\ streamRef' = nextID + 1 /\ permission' = answer
      /\ UNCHANGED <<serviceVars, written, prefix, paused, events, closer>>
  BY DEF WatchAlerts, pageVars
<1>2. Subscribed /\ PageTypeOK /\ streamRef \in {0} \cup Live
  BY <1>1 DEF WatchInv, PageInv, PageTypeOK, Subscribed
<1>3. /\ StreamInv'
      /\ n \in Stream /\ n \notin Live \cup {0}
      /\ Live' = (Live \ {streamRef}) \cup {n}
      /\ path' \in [Stream -> Watched \cup {"alerts"}]
      /\ feed' \in [Stream -> Seq(1..MaxRev)]
      /\ path'[n] = "alerts" /\ feed'[n] = <<>>
      /\ \A s \in Stream: s = streamRef => path'[s] = "alerts" /\ feed'[s] = <<>>
      /\ \A s \in Stream: s \notin {streamRef, n} => path'[s] = path[s] /\ feed'[s] = feed[s]
      /\ \A s \in Stream: Coming(feed[s], path[s])'
  BY <1>1, <1>2, SubscribeOK
<1> HIDE DEF n
<1>4. PageTypeOK'
  BY <1>1, <1>2, <1>3 DEF PageTypeOK
<1>5. Subscribed'
  <2>1. closer' \in 0..MaxStreams /\ streamRef' \in 0..MaxStreams
    BY <1>1, <1>2, <1>3, StreamAssumption DEF Subscribed, Stream, n
  <2>2. closer # 0 => closer \in Live /\ closer \in Stream
    <3>1. Live \subseteq Stream
      BY StreamAssumption DEF WatchInv, StreamInv, StreamTypeOK, Live, Opened, Stream
    <3> QED
      BY <1>2, <3>1 DEF Subscribed
  <2>3. closer' # 0 => closer' # streamRef' /\ path'[closer'] = prefix'
    BY <1>1, <1>2, <1>3, <2>2 DEF Subscribed, n
  <2>4. Live' = {closer', streamRef'} \ {0}
    BY <1>1, <1>2, <1>3 DEF Subscribed, n
  <2>5. \A s \in Stream: s # closer' => path'[s] = "alerts" /\ feed'[s] = <<>>
    BY <1>1, <1>2, <1>3 DEF Subscribed, n
  <2> QED
    BY <1>1, <1>2, <2>1, <2>3, <2>4, <2>5 DEF Subscribed
<1> QED
  BY <1>1, <1>3, <1>4, <1>5, ListStays DEF WatchInv, PageInv

LEMMA PauseOK ==
  ASSUME WatchInv, Pause PROVE WatchInv'
<1>1. /\ Reopen({closer}, FALSE) /\ closer # 0 /\ closer' = 0 /\ paused' = TRUE
      /\ feed' = [feed EXCEPT ![closer] = <<>>]
      /\ path' = [path EXCEPT ![closer] = "alerts"]
      /\ UNCHANGED <<serviceVars, written, prefix, events, streamRef, permission>>
  BY DEF Pause, alertVars
<1>2. Subscribed /\ PageTypeOK /\ StreamInv
  BY DEF WatchInv, PageInv
<1>3. Live \subseteq Stream /\ Live \subseteq Opened /\ closer \in Live
  <2>1. Live \subseteq Stream /\ Live \subseteq Opened
    BY <1>2, StreamAssumption DEF StreamInv, StreamTypeOK, Live, Opened, Stream
  <2>2. closer \in Live
    BY <1>1, <1>2 DEF Subscribed
  <2> QED
    BY <2>1, <2>2
<1>4. StreamInv' /\ Live' = Live \ {closer}
  <2>1. {closer} \in SUBSET Opened /\ FALSE \in BOOLEAN
    BY <1>3
  <2>2. /\ StreamInv'
        /\ Live' = (Live \ {closer}) \cup (IF FALSE THEN {nextID + 1} ELSE {})
    BY <1>1, <1>2, <2>1, ReopenOK
  <2> QED
    BY <2>2
<1>5. /\ path' \in [Stream -> Watched \cup {"alerts"}]
      /\ feed' \in [Stream -> Seq(1..MaxRev)]
      /\ path'[closer] = "alerts" /\ feed'[closer] = <<>>
      /\ \A s \in Stream: s # closer => path'[s] = path[s] /\ feed'[s] = feed[s]
  BY <1>1, <1>2, <1>3, NothingComing DEF PageTypeOK
<1>6. PageTypeOK'
  BY <1>1, <1>2, <1>5 DEF PageTypeOK
<1>7. Subscribed'
  <2>1. closer' \in 0..MaxStreams /\ streamRef' \in 0..MaxStreams
    BY <1>1, <1>2, StreamAssumption DEF Subscribed
  <2>2. Live' = {closer', streamRef'} \ {0}
    BY <1>1, <1>2, <1>4 DEF Subscribed
  <2>3. \A s \in Stream: path'[s] = "alerts" /\ feed'[s] = <<>>
    BY <1>2, <1>5 DEF Subscribed
  <2>4. closer' = 0
    BY <1>1
  <2> QED
    BY <2>1, <2>2, <2>3, <2>4 DEF Subscribed
<1>8. \A s \in Stream: Coming(feed[s], path[s])'
  <2>1. \A s \in Stream: feed'[s] = <<>>
    BY <1>2, <1>5 DEF Subscribed
  <2> QED
    BY <2>1, NothingComing DEF Coming
<1> QED
  BY <1>1, <1>4, <1>6, <1>7, <1>8, ListStays DEF WatchInv, PageInv

LEMMA ClearOK ==
  ASSUME WatchInv, Clear PROVE WatchInv'
<1>1. /\ events' = <<>>
      /\ UNCHANGED <<streamVars, serviceVars, written, path, feed, prefix, paused,
                     closer, streamRef, permission>>
  BY DEF Clear, alertVars
<1>2. StreamInv'
  BY <1>1, StreamsStay DEF WatchInv
<1>3. PageTypeOK'
  BY <1>1, NothingComing, WatchAssumption DEF WatchInv, PageInv, PageTypeOK
<1>4. Subscribed'
  BY <1>1 DEF WatchInv, PageInv, Subscribed, streamVars, Live, Opened
<1>5. ListOK' /\ \A s \in Stream: Coming(feed[s], path[s])'
  BY <1>1, NothingComing DEF WatchInv, PageInv, ListOK, Coming
<1> QED
  BY <1>2, <1>3, <1>4, <1>5 DEF WatchInv, PageInv

\* A stream that goes on: what was under way in it may be lost.
LEMMA StreamStepOK ==
  ASSUME WatchInv, NEW s \in Stream, StreamStep(s) PROVE WatchInv'
<1>1. /\ Callback(s) /\ feed' = IF IsOpen(s) THEN [feed EXCEPT ![s] = <<>>] ELSE feed
      /\ UNCHANGED <<serviceVars, written, path, prefix, paused, events, closer,
                     streamRef, permission>>
  BY DEF StreamStep, pageVars, alertVars
<1>2. StreamInv' /\ UNCHANGED <<nextID, closed>>
  BY <1>1, CallbackOK DEF WatchInv
<1>3. /\ feed' \in [Stream -> Seq(1..MaxRev)]
      /\ \A t \in Stream: feed'[t] = feed[t] \/ feed'[t] = <<>>
  BY <1>1, NothingComing DEF WatchInv, PageInv, PageTypeOK
<1>4. PageTypeOK'
  BY <1>1, <1>3 DEF WatchInv, PageInv, PageTypeOK
<1>5. Subscribed'
  BY <1>1, <1>2, <1>3 DEF WatchInv, PageInv, Subscribed, Live, Opened
<1>6. ASSUME NEW t \in Stream PROVE Coming(feed[t], path[t])'
  <2>1. CASE feed'[t] = feed[t]
    BY <1>1, <2>1 DEF WatchInv, PageInv, Coming
  <2>2. CASE feed'[t] = <<>>
    BY <2>2, NothingComing DEF Coming
  <2> QED
    BY <1>3, <2>1, <2>2
<1> QED
  BY <1>1, <1>2, <1>4, <1>5, <1>6, ListStays DEF WatchInv, PageInv

\* The service goes and comes.
LEMMA OutageOK ==
  ASSUME WatchInv, Outage \/ Recovery PROVE WatchInv'
<1>1. /\ Goes \/ Comes
      /\ UNCHANGED <<streamVars, written, path, feed, prefix, paused, events, closer,
                     streamRef, permission>>
  BY DEF Outage, Recovery, pageVars, alertVars
<1>2. StreamInv'
  BY <1>1, StreamsStay DEF WatchInv
<1>3. PageTypeOK'
  BY <1>1 DEF WatchInv, PageInv, PageTypeOK
<1>4. Subscribed'
  BY <1>1 DEF WatchInv, PageInv, Subscribed, streamVars, Live, Opened
<1>5. \A s \in Stream: Coming(feed[s], path[s])'
  BY <1>1 DEF WatchInv, PageInv, Coming
<1> QED
  BY <1>1, <1>2, <1>3, <1>4, <1>5, ListStays DEF WatchInv, PageInv

\* The first event of a feed, and the rest.
LEMMA FirstAndRest ==
  ASSUME NEW q \in Seq(1..MaxRev), q # <<>>
  PROVE  /\ Len(q) \in Nat /\ Len(q) > 0 /\ 1 \in 1..Len(q)
         /\ Head(q) = q[1] /\ Head(q) \in 1..MaxRev
         /\ Tail(q) \in Seq(1..MaxRev) /\ Len(Tail(q)) = Len(q) - 1
         /\ \A i \in 1..Len(Tail(q)): i + 1 \in 1..Len(q) /\ Tail(q)[i] = q[i + 1]
<1>1. Len(q) \in Nat /\ Len(q) > 0
  OBVIOUS
<1>2. Head(q) = q[1] /\ Head(q) \in 1..MaxRev
  <2>1. Head(q) = q[1]
    BY <1>1
  <2>2. 1 \in 1..Len(q)
    BY <1>1
  <2>3. q[1] \in 1..MaxRev
    BY <2>2, ElementOfSeq
  <2> QED
    BY <2>1, <2>3
<1>3. Tail(q) \in Seq(1..MaxRev) /\ Len(Tail(q)) = Len(q) - 1
  BY <1>1
<1>4. \A i \in 1..(Len(q) - 1): Tail(q)[i] = q[i + 1]
  BY <1>1
<1> QED
  BY <1>1, <1>2, <1>3, <1>4

\* The list gains an event in front and loses the last if it is full.
LEMMA KeepNewest ==
  ASSUME NEW e \in 1..MaxRev, events \in Seq(1..MaxRev), Len(events) <= EventCap,
         events' = SubSeq(<<e>> \o events, 1,
                          IF Len(events) < EventCap THEN Len(events) + 1 ELSE EventCap)
  PROVE  /\ events' \in Seq(1..MaxRev) /\ Len(events') <= EventCap
         /\ Len(events') > 0 /\ events'[1] = e
         /\ \A i \in 1..Len(events'):
              i # 1 => i - 1 \in 1..Len(events) /\ events'[i] = events[i - 1]
<1> DEFINE m == IF Len(events) < EventCap THEN Len(events) + 1 ELSE EventCap
           g == <<e>> \o events
<1>1. /\ Len(events) \in Nat /\ EventCap \in Nat \ {0}
      /\ m \in Nat /\ m > 0 /\ m <= EventCap /\ m <= Len(events) + 1
  BY WatchAssumption
<1>2. /\ g \in Seq(1..MaxRev) /\ Len(g) = Len(events) + 1 /\ g[1] = e
      /\ \A i \in 1..Len(g): i # 1 => i - 1 \in 1..Len(events) /\ g[i] = events[i - 1]
  OBVIOUS
<1>3. events' = SubSeq(g, 1, m)
  OBVIOUS
<1> HIDE DEF m, g
<1>4. /\ events' \in Seq(1..MaxRev) /\ Len(events') = m
      /\ \A i \in 1..m: events'[i] = g[i]
  <2>1. \A i \in 1..m: i \in 1..Len(g) /\ g[i] \in 1..MaxRev
    <3>1. \A i \in 1..Len(g): g[i] \in 1..MaxRev
      BY <1>2, ElementOfSeq
    <3> QED
      BY <1>1, <1>2, <3>1
  <2>2. 1 \in Int /\ m \in Int /\ m - 1 + 1 = m /\ 1 <= m
    BY <1>1
  <2>3. /\ SubSeq(g, 1, m) \in Seq(1..MaxRev)
        /\ Len(SubSeq(g, 1, m)) = IF 1 <= m THEN m - 1 + 1 ELSE 0
        /\ \A i \in 1..(m - 1 + 1): SubSeq(g, 1, m)[i] = g[1 + i - 1]
    BY <2>1, <2>2, SubSeqProperties
  <2>4. \A i \in 1..m: 1 + i - 1 = i
    BY <1>1
  <2> QED
    BY <1>3, <2>2, <2>3, <2>4
<1> QED
  BY <1>1, <1>2, <1>4

LEMMA DeliverOK ==
  ASSUME WatchInv, NEW s \in Stream, Deliver(s)
  PROVE  /\ WatchInv' /\ s = closer
         /\ Len(events') > 0
         /\ prefix = All \/ written[events'[1]] = prefix
<1> DEFINE e == Head(feed[s])
           q == feed[s]
<1>1. /\ q # <<>> /\ feed' = [feed EXCEPT ![s] = Tail(@)]
      /\ events' = SubSeq(<<e>> \o events, 1,
                          IF Len(events) < EventCap THEN Len(events) + 1 ELSE EventCap)
      /\ UNCHANGED <<streamVars, serviceVars, written, path, prefix, paused, closer,
                     streamRef, permission>>
  BY DEF Deliver, alertVars
<1>2. /\ PageTypeOK /\ Subscribed /\ ListOK /\ Coming(q, path[s])
      /\ q \in Seq(1..MaxRev)
  BY DEF WatchInv, PageInv, PageTypeOK
<1>3. s = closer /\ path[s] = prefix
  <2>1. s = closer
    BY <1>1, <1>2 DEF Subscribed
  <2>2. s # 0
    BY DEF Stream
  <2> QED
    BY <1>2, <2>1, <2>2 DEF Subscribed
<1>4. /\ Len(q) \in Nat /\ Len(q) > 0 /\ 1 \in 1..Len(q)
      /\ e = q[1] /\ e \in 1..MaxRev
      /\ Tail(q) \in Seq(1..MaxRev) /\ Len(Tail(q)) = Len(q) - 1
      /\ \A i \in 1..Len(Tail(q)): i + 1 \in 1..Len(q) /\ Tail(q)[i] = q[i + 1]
  BY <1>1, <1>2, FirstAndRest
<1>5. /\ events' \in Seq(1..MaxRev) /\ Len(events') <= EventCap
      /\ Len(events') > 0 /\ events'[1] = e
      /\ \A i \in 1..Len(events'):
           i # 1 => i - 1 \in 1..Len(events) /\ events'[i] = events[i - 1]
  BY <1>1, <1>2, <1>4, KeepNewest DEF PageTypeOK
<1>6. /\ feed' \in [Stream -> Seq(1..MaxRev)] /\ feed'[s] = Tail(q)
      /\ \A t \in Stream: t # s => feed'[t] = feed[t]
  BY <1>1, <1>2, <1>4 DEF PageTypeOK
<1>7. /\ e \in 1..Len(written)
      /\ path[s] = All \/ written[e] = path[s]
      /\ \A k \in 1..Len(events): events[k] < e
      /\ \A i \in 1..Len(q): i # 1 => e < q[i]
  BY <1>2, <1>4 DEF Coming
<1> HIDE DEF e, q
<1>8. StreamInv'
  BY <1>1, StreamsStay DEF WatchInv
<1>9. PageTypeOK'
  BY <1>1, <1>2, <1>5, <1>6 DEF PageTypeOK
<1>10. Subscribed'
  BY <1>1, <1>2, <1>3, <1>6 DEF Subscribed, streamVars, Live, Opened
<1>11. ListOK'
  <2>1. \A k \in 1..Len(events'): events'[k] \in 1..Len(written)
    <3> SUFFICES ASSUME NEW k \in 1..Len(events') PROVE events'[k] \in 1..Len(written)
      OBVIOUS
    <3>1. CASE k = 1
      BY <1>5, <1>7, <3>1
    <3>2. CASE k # 1
      BY <1>2, <1>5, <3>2 DEF ListOK
    <3> QED
      BY <3>1, <3>2
  <2>2. ASSUME NEW j \in 1..Len(events'), NEW k \in 1..Len(events'), j < k
        PROVE  events'[j] > events'[k]
    <3>1. k # 1 /\ k - 1 \in 1..Len(events) /\ events'[k] = events[k - 1]
      BY <1>5, <2>2
    <3>2. CASE j = 1
      BY <1>2, <1>5, <1>7, <3>1, <3>2 DEF ListOK
    <3>3. CASE j # 1
      <4>1. j - 1 \in 1..Len(events) /\ events'[j] = events[j - 1] /\ j - 1 < k - 1
        BY <1>5, <2>2, <3>3
      <4> QED
        BY <1>2, <3>1, <4>1 DEF ListOK
    <3> QED
      BY <3>2, <3>3
  <2> QED
    BY <1>1, <2>1, <2>2 DEF ListOK
<1>12. ASSUME NEW t \in Stream PROVE Coming(feed[t], path[t])'
  <2>1. CASE t # s
    <3>1. feed'[t] = <<>>
      BY <1>2, <1>3, <1>6, <2>1 DEF Subscribed
    <3> QED
      BY <3>1, NothingComing DEF Coming
  <2>2. CASE t = s
    <3> SUFFICES ASSUME NEW i \in 1..Len(Tail(q))
                 PROVE  /\ Tail(q)[i] \in 1..Len(written)
                        /\ path[s] = All \/ written[Tail(q)[i]] = path[s]
                        /\ \A j \in 1..Len(Tail(q)): i < j => Tail(q)[i] < Tail(q)[j]
                        /\ \A k \in 1..Len(events'): events'[k] < Tail(q)[i]
      <4>1. feed'[t] = Tail(q) /\ path'[t] = path[s] /\ written' = written
        BY <1>1, <1>6, <2>2
      <4> QED
        BY <4>1 DEF Coming
    <3>1. i + 1 \in 1..Len(q) /\ Tail(q)[i] = q[i + 1] /\ i + 1 # 1
      BY <1>4
    <3>2. /\ q[i + 1] \in 1..Len(written)
          /\ path[s] = All \/ written[q[i + 1]] = path[s]
          /\ \A j \in 1..Len(q): i + 1 < j => q[i + 1] < q[j]
          /\ \A k \in 1..Len(events): events[k] < q[i + 1]
      BY <1>2, <3>1 DEF Coming
    <3>3. \A j \in 1..Len(Tail(q)): i < j => Tail(q)[i] < Tail(q)[j]
      BY <1>4, <3>1, <3>2
    <3>4. e < q[i + 1]
      BY <1>7, <3>1
    <3>5. \A k \in 1..Len(events'): events'[k] < q[i + 1]
      BY <1>5, <3>2, <3>4
    <3> QED
      BY <3>1, <3>2, <3>3, <3>5
  <2> QED
    BY <2>1, <2>2
<1>13. prefix = All \/ written[events'[1]] = prefix
  BY <1>3, <1>5, <1>7
<1> QED
  BY <1>3, <1>5, <1>8, <1>9, <1>10, <1>11, <1>12, <1>13 DEF WatchInv, PageInv

LEMMA WriteOK ==
  ASSUME WatchInv, NEW p \in Prefix, Write(p) PROVE WatchInv'
<1> DEFINE r == Len(written) + 1
           told(s) == up /\ IsOpen(s) /\ path[s] \in {p, All}
<1>1. /\ Len(written) < MaxRev /\ written' = Append(written, p)
      /\ feed' = [s \in Stream |-> IF told(s) THEN Append(feed[s], r) ELSE feed[s]]
      /\ UNCHANGED <<streamVars, serviceVars, path, prefix, paused, events, closer,
                     streamRef, permission>>
  BY DEF Write, pageVars, alertVars
<1>2. PageTypeOK /\ Subscribed /\ ListOK /\ \A s \in Stream: Coming(feed[s], path[s])
  BY DEF WatchInv, PageInv
<1>3. /\ Len(written) \in Nat /\ MaxRev \in Nat /\ r \in 1..MaxRev
      /\ written' \in Seq(Prefix) /\ Len(written') = r
      /\ written'[r] = p /\ \A i \in 1..Len(written): written'[i] = written[i]
  <2>1. written \in Seq(Prefix) /\ MaxRev \in Nat /\ Len(written) \in Nat
    BY <1>2, WatchAssumption DEF PageTypeOK
  <2>2. r \in 1..MaxRev
    BY <1>1, <2>1
  <2> QED
    BY <1>1, <2>1, <2>2
<1>4. /\ feed' \in [Stream -> Seq(1..MaxRev)]
      /\ \A s \in Stream: feed'[s] = IF told(s) THEN Append(feed[s], r) ELSE feed[s]
  <2>1. \A s \in Stream: feed[s] \in Seq(1..MaxRev) /\ Append(feed[s], r) \in Seq(1..MaxRev)
    BY <1>2, <1>3 DEF PageTypeOK
  <2> QED
    BY <1>1, <2>1
<1>5. StreamInv'
  BY <1>1, StreamsStay DEF WatchInv
<1>6. PageTypeOK'
  BY <1>1, <1>2, <1>3, <1>4 DEF PageTypeOK
<1>7. Subscribed'
  <2>1. \A s \in Stream: s # closer => ~told(s)
    BY <1>2, WatchAssumption DEF Subscribed
  <2> QED
    BY <1>1, <1>2, <1>4, <2>1 DEF Subscribed, streamVars, Live, Opened
<1>8. ListOK'
  BY <1>1, <1>2, <1>3 DEF ListOK
<1>9. ASSUME NEW s \in Stream PROVE Coming(feed[s], path[s])'
  <2> DEFINE q == feed[s]
  <2>1. q \in Seq(1..MaxRev) /\ Coming(q, path[s])
    BY <1>2 DEF PageTypeOK
  <2>2. CASE ~told(s)
    <3>1. feed'[s] = q
      BY <1>4, <2>2
    <3> QED
      <4> HIDE DEF q, r, told
      <4>0. Len(written') = r /\ path'[s] = path[s] /\ events' = events
        BY <1>1, <1>3
      <4> SUFFICES ASSUME NEW i \in 1..Len(q)
                   PROVE  /\ q[i] \in 1..r
                          /\ path[s] = All \/ written'[q[i]] = path[s]
                          /\ \A j \in 1..Len(q): i < j => q[i] < q[j]
                          /\ \A k \in 1..Len(events): events[k] < q[i]
        BY <3>1, <4>0 DEF Coming
      <4>1. /\ q[i] \in 1..Len(written)
            /\ path[s] = All \/ written[q[i]] = path[s]
            /\ \A j \in 1..Len(q): i < j => q[i] < q[j]
            /\ \A k \in 1..Len(events): events[k] < q[i]
        BY <2>1 DEF Coming
      <4>2. q[i] \in 1..r /\ written'[q[i]] = written[q[i]]
        BY <1>3, <4>1 DEF r
      <4> QED
        BY <4>1, <4>2
  <2>3. CASE told(s)
    <3>1. /\ feed'[s] = Append(q, r) /\ path[s] \in {p, All}
          /\ Len(q) \in Nat
      BY <1>4, <2>1, <2>3
    <3> HIDE DEF q, r, told
    <3> DEFINE f == Append(q, r)
    <3>2. /\ Len(f) = Len(q) + 1 /\ f[Len(q) + 1] = r
          /\ \A i \in 1..Len(q): f[i] = q[i]
      BY <2>1
    <3> HIDE DEF f
    <3>5. feed'[s] = f /\ Len(written') = r /\ path'[s] = path[s] /\ events' = events
      BY <1>1, <1>3, <3>1 DEF f
    <3> SUFFICES ASSUME NEW i \in 1..Len(f)
                 PROVE  /\ f[i] \in 1..r
                        /\ path[s] = All \/ written'[f[i]] = path[s]
                        /\ \A j \in 1..Len(f): i < j => f[i] < f[j]
                        /\ \A k \in 1..Len(events): events[k] < f[i]
      BY <3>5 DEF Coming
    <3>3. CASE i = Len(q) + 1
      <4>1. f[i] = r /\ \A j \in 1..Len(f): ~(i < j)
        BY <3>1, <3>2, <3>3
      <4>2. \A k \in 1..Len(events): events[k] < r
        BY <1>2, <1>3 DEF ListOK, r
      <4>3. r \in 1..r /\ (path[s] = All \/ written'[r] = path[s])
        <5>1. written'[r] = p /\ r \in Nat \ {0}
          BY <1>3 DEF r
        <5> QED
          BY <3>1, <5>1
      <4>4. \A j \in 1..Len(f): i < j => f[i] < f[j]
        BY <4>1
      <4> QED
        BY <4>1, <4>2, <4>3, <4>4
    <3>4. CASE i # Len(q) + 1
      <4>1. i \in 1..Len(q) /\ f[i] = q[i]
        BY <3>1, <3>2, <3>4
      <4>2. /\ q[i] \in 1..Len(written)
            /\ path[s] = All \/ written[q[i]] = path[s]
            /\ \A j \in 1..Len(q): i < j => q[i] < q[j]
            /\ \A k \in 1..Len(events): events[k] < q[i]
        BY <2>1, <4>1 DEF Coming
      <4>3. q[i] < r /\ q[i] \in 1..r /\ written'[q[i]] = written[q[i]]
        BY <1>3, <4>2 DEF r
      <4>4. \A j \in 1..Len(f): i < j => f[i] < f[j]
        BY <3>1, <3>2, <4>1, <4>2, <4>3
      <4>5. path[s] = All \/ written'[f[i]] = path[s]
        BY <4>1, <4>2, <4>3
      <4>6. \A k \in 1..Len(events): events[k] < f[i]
        BY <4>1, <4>2
      <4> QED
        BY <4>1, <4>3, <4>4, <4>5, <4>6
    <3> QED
      BY <3>3, <3>4
  <2> QED
    BY <2>2, <2>3
<1> QED
  BY <1>5, <1>6, <1>7, <1>8, <1>9 DEF WatchInv, PageInv

----------------------------------------------------------------------------
LEMMA NextOK == WatchInv /\ [Next]_vars => WatchInv'
<1> SUFFICES ASSUME WatchInv, [Next]_vars PROVE WatchInv'
  OBVIOUS
<1>1. CASE UNCHANGED vars
  <2>1. UNCHANGED <<streamVars, serviceVars, written, path, feed, prefix, paused, events,
                    closer, streamRef, permission>>
    BY <1>1 DEF vars, pageVars, alertVars
  <2>2. StreamInv'
    BY <2>1, StreamsStay DEF WatchInv
  <2>3. PageTypeOK' /\ Subscribed' /\ \A s \in Stream: Coming(feed[s], path[s])'
    BY <2>1 DEF WatchInv, PageInv, PageTypeOK, Subscribed, Coming, streamVars, Live, Opened
  <2> QED
    BY <2>1, <2>2, <2>3, ListStays DEF WatchInv, PageInv
<1>2. CASE Next
  BY <1>2, WatchOK, PauseOK, ResumeOK, ClearOK, WatchAlertsOK, StreamStepOK, DeliverOK,
     WriteOK, OutageOK DEF Next
<1> QED
  BY <1>1, <1>2

\* The streams, what is published of them and what the page lists are in order in
\* every state: no stream leaks, none is stuck or goes on twice, the status bar
\* tells the truth, and the list has each event once, the newest first.
THEOREM StreamsStayInOrder == Spec => []StreamsInOrder
BY InitOK, NextOK, InvHolds, PTL DEF Spec

\* What the list gains is under the prefix that is watched, and never while the
\* page is paused.
THEOREM ListsWhatIsWatched == Spec => OnlyWatched
<1>1. WatchInv /\ [Next]_vars
        => [Len(events') > Len(events) =>
              ~paused /\ (prefix = All \/ written[events'[1]] = prefix)]_vars
  <2> SUFFICES ASSUME WatchInv, Next, Len(events') > Len(events)
               PROVE  ~paused /\ (prefix = All \/ written[events'[1]] = prefix)
    BY DEF vars
  <2>1. PICK s \in Stream: Deliver(s)
    <3>1. events' # events /\ events' # <<>>
      BY NothingComing DEF WatchInv, PageInv, PageTypeOK
    <3> QED
      BY <3>1
      DEF Next, Watch, Pause, Resume, Clear, WatchAlerts, StreamStep, Write, Outage,
          Recovery, pageVars
  <2>2. closer # 0 /\ (prefix = All \/ written[events'[1]] = prefix)
    BY <2>1, DeliverOK DEF Stream
  <2> QED
    BY <2>2 DEF WatchInv, PageInv, Subscribed
<1> QED
  BY <1>1, InitOK, NextOK, PTL DEF Spec, OnlyWatched
============================================================================
