---------------------------- MODULE TerminalPage ----------------------------
(***************************************************************************)
(* The etcdctl page (web/src/pages/Terminal.tsx): a scrollback of commands *)
(* with their results, one command at a time, and a history to recall.     *)
(***************************************************************************)
EXTENDS Integers, Sequences

CONSTANTS
  Cmd,       \* commands: "help", "clear", and what is sent to the service
  MaxEntries \* bound: commands entered

ASSUME TerminalAssumption == {"help", "clear"} \subseteq Cmd /\ MaxEntries \in Nat

VARIABLES
  tmInput, tmIdx,   \* the prompt, and historyIdx
  tmEntries,        \* the scrollback
  tmRun,            \* the entry whose command the service runs, or 0
  tmCount           \* the ids given

tmVars == <<tmInput, tmIdx, tmEntries, tmRun, tmCount>>

\* An empty prompt.
Blank == ""

TerminalTypeOK ==
  /\ tmInput \in Cmd \cup {Blank} /\ tmIdx \in -1..MaxEntries
  /\ \A i \in DOMAIN tmEntries:
       tmEntries[i] \in [id: 1..tmCount, cmd: Cmd, pending: BOOLEAN]
  /\ tmRun \in 0..tmCount /\ tmCount \in 0..MaxEntries

TerminalInit ==
  tmInput = Blank /\ tmIdx = -1 /\ tmEntries = <<>> /\ tmRun = 0 /\ tmCount = 0

\* The prompt, and the history, cannot be used while a command runs; the
\* suggestions can.
Suggestion(c) ==
  /\ tmInput' = c /\ tmInput # c
  /\ UNCHANGED <<tmIdx, tmEntries, tmRun, tmCount>>

Finish(id, entries) ==
  [i \in DOMAIN entries |->
     IF entries[i].id = id THEN [entries[i] EXCEPT !.pending = FALSE] ELSE entries[i]]

\* submit: help and clear are answered by the page.
SubmitCmd ==
  LET id == tmCount + 1
      entry == [id |-> id, cmd |-> tmInput, pending |-> TRUE]
      more == Append(tmEntries, entry)
  IN /\ tmRun = 0 /\ tmInput # Blank /\ tmCount < MaxEntries
     /\ tmCount' = id /\ tmInput' = Blank /\ tmIdx' = -1
     /\ \/ tmInput = "help" /\ tmEntries' = Finish(id, more) /\ UNCHANGED tmRun
        \/ tmInput = "clear" /\ tmEntries' = <<>> /\ UNCHANGED tmRun
        \/ /\ tmInput \notin {"help", "clear"}
           /\ tmEntries' = more /\ tmRun' = id

\* Mutant: the result goes to the entry that has the command's place.
CmdEndsLast ==
  /\ tmRun # 0 /\ tmRun' = 0
  /\ tmEntries' = [i \in DOMAIN tmEntries |->
       IF i = 1 THEN [tmEntries[i] EXCEPT !.pending = FALSE] ELSE tmEntries[i]]
  /\ UNCHANGED <<tmInput, tmIdx, tmCount>>

\* The result, or the error.
CmdEnds ==
  /\ tmRun # 0 /\ tmRun' = 0
  /\ tmEntries' = Finish(tmRun, tmEntries)
  /\ UNCHANGED <<tmInput, tmIdx, tmCount>>

\* The Clear button, also while a command runs.
ClearScrollback ==
  /\ tmEntries # <<>> /\ tmEntries' = <<>>
  /\ UNCHANGED <<tmInput, tmIdx, tmRun, tmCount>>

Recalled(n) ==
  LET i == Len(tmEntries) - n IN
    IF i \in DOMAIN tmEntries THEN tmEntries[i].cmd ELSE Blank

\* The arrow keys: up goes back in the history, down forth.
RecallUp ==
  LET n == IF tmIdx + 1 < Len(tmEntries) THEN tmIdx + 1 ELSE Len(tmEntries) - 1 IN
  /\ tmRun = 0 /\ tmEntries # <<>>
  /\ tmIdx' = n /\ tmInput' = Recalled(n)
  /\ UNCHANGED <<tmEntries, tmRun, tmCount>>

RecallDown ==
  /\ tmRun = 0
  /\ IF tmIdx < 1 THEN tmIdx' = -1 /\ tmInput' = Blank
     ELSE tmIdx' = tmIdx - 1 /\ tmInput' = Recalled(tmIdx - 1)
  /\ UNCHANGED <<tmEntries, tmRun, tmCount>>

TerminalNext ==
  \/ \E c \in Cmd: Suggestion(c)
  \/ SubmitCmd \/ CmdEnds \/ ClearScrollback \/ RecallUp \/ RecallDown

----------------------------------------------------------------------------
\* "running..." stands at the one command that runs, unless it was cleared away,
\* and at no other: each result finds its entry.
ResultsFindTheirEntry ==
  \A i \in DOMAIN tmEntries: tmEntries[i].pending <=> tmEntries[i].id = tmRun
============================================================================
