------------------------------ MODULE Dialogs ------------------------------
(***************************************************************************)
(* The dialogs that ask before something is done: confirm() and its        *)
(* Confirmer (web/src/components/Confirm.tsx), the preview of a bulk       *)
(* delete (BulkDeletePreview.tsx, Browser.tsx), the import of a file       *)
(* (BulkImportDialog.tsx) and the wizard that adds a cluster               *)
(* (AddClusterWizard.tsx, Settings.tsx).  One of them is in use at a time. *)
(***************************************************************************)
EXTENDS Integers

CONSTANTS
  Keyword,  \* what some questions want typed
  MaxAsks,  \* bound: questions, files chosen, clusters added
  DlFile,   \* files to import
  GoodFile, \* those that can be parsed
  PresetId  \* the wizard's presets: the id each fills in, "" for none

ASSUME DialogsAssumption ==
  /\ MaxAsks \in Nat /\ GoodFile \subseteq DlFile /\ "" \notin DlFile
  /\ Keyword \notin {"", "unasked"}

VARIABLES
  cfReq,    \* the question shown: its number and the word it wants, in a set
  cfTyped,  \* typed
  cfAsked,  \* the questions asked so far: the word each wants
  cfYes, cfNo, \* questions answered
  cfMeant,  \* history variable: questions whose word was typed into them
  bdBox,    \* BulkDeletePreview: open, typed, many (more than ten keys), pending,
            \* and how many questions there were
  bdMeant,  \* history variable: questions the word was typed into
  bdYes,    \* history variable: questions on many keys that were answered yes
  biBox,    \* BulkImportDialog: open, file, parsed, error, clearing a prefix
  biReads,  \* files that are being read
  biLate,   \* history variable: a file read to its end was no longer the one chosen
  biCall,   \* apply: the file sent, in a set, and whether a prefix is cleared; for the
            \* history, what was parsed and whether it may be of an earlier choice
  awBox,    \* AddClusterWizard: open, id, endpoints, and how many were opened
  awCalls,  \* the calls of add: the id, and the wizard it was made in
  awError

cfVars == <<cfReq, cfTyped, cfAsked, cfYes, cfNo, cfMeant>>
bdVars == <<bdBox, bdMeant, bdYes>>
biVars == <<biBox, biReads, biLate, biCall>>
awVars == <<awBox, awCalls, awError>>
dlVars == <<cfVars, bdVars, biVars, awVars>>

DialogsTypeOK ==
  /\ cfAsked \in [1..MaxAsks -> {"", Keyword, "unasked"}] /\ cfTyped \in {"", Keyword}
  /\ cfReq \subseteq 1..MaxAsks /\ \A id \in cfReq: cfReq = {id}
  /\ {cfYes, cfNo, cfMeant} \subseteq SUBSET (1..MaxAsks)
  /\ bdBox \in [open: BOOLEAN, typed: BOOLEAN, many: BOOLEAN, pending: BOOLEAN,
                n: 0..MaxAsks]
  /\ bdMeant \subseteq 1..MaxAsks /\ bdYes \subseteq 1..MaxAsks
  /\ biBox \in [open: BOOLEAN, file: DlFile \cup {""}, parsed: DlFile \cup {""},
                error: BOOLEAN, clear: BOOLEAN]
  /\ biReads \subseteq DlFile /\ biLate \in BOOLEAN
  /\ biCall \subseteq [file: DlFile, clear: BOOLEAN, parsed: DlFile, doubt: BOOLEAN]
  /\ awBox \in [open: BOOLEAN, id: PresetId \cup {"", "mine"}, endpoints: BOOLEAN,
                n: 0..MaxAsks]
  /\ awCalls \subseteq [id: PresetId \cup {"mine"}, n: 1..MaxAsks]
  /\ awError \in BOOLEAN

DialogsInit ==
  /\ cfReq = {} /\ cfTyped = "" /\ cfAsked = [id \in 1..MaxAsks |-> "unasked"]
  /\ cfYes = {} /\ cfNo = {} /\ cfMeant = {}
  /\ bdBox = [open |-> FALSE, typed |-> FALSE, many |-> FALSE, pending |-> FALSE,
             n |-> 0]
  /\ bdMeant = {} /\ bdYes = {}
  /\ biBox = [open |-> FALSE, file |-> "", parsed |-> "", error |-> FALSE, clear |-> FALSE]
  /\ biReads = {} /\ biLate = FALSE /\ biCall = {}
  /\ awBox = [open |-> FALSE, id |-> "", endpoints |-> FALSE, n |-> 0]
  /\ awCalls = {} /\ awError = FALSE

----------------------------------------------------------------------------
(***************************************************************************)
(* confirm().                                                              *)
(***************************************************************************)
\* Mutant: what was typed into the last dialog is still there.
AskAgain(id, word) ==
  /\ cfAsked[id] = "unasked" /\ \A i \in 1..(id - 1): cfAsked[i] # "unasked"
  /\ cfAsked' = [cfAsked EXCEPT ![id] = word] /\ cfReq' = {id}
  /\ UNCHANGED <<cfTyped, cfYes, cfNo, cfMeant>>

\* A question takes the place of one that is shown, which is never answered.
Ask(id, word) ==
  /\ cfAsked[id] = "unasked" /\ \A i \in 1..(id - 1): cfAsked[i] # "unasked"
  /\ cfAsked' = [cfAsked EXCEPT ![id] = word] /\ cfReq' = {id}
  /\ cfTyped' = "" /\ UNCHANGED <<cfYes, cfNo, cfMeant>>

TypeWord(t) ==
  /\ \E id \in cfReq: /\ cfAsked[id] = Keyword
                      /\ cfMeant' = IF t = Keyword THEN cfMeant \cup {id} ELSE cfMeant
  /\ cfTyped' = t /\ UNCHANGED <<cfReq, cfAsked, cfYes, cfNo>>

\* close: by the button or by Enter, ...
Confirmed ==
  /\ \E id \in cfReq: cfAsked[id] \in {"", cfTyped} /\ cfYes' = cfYes \cup {id}
  /\ cfReq' = {} /\ UNCHANGED <<cfTyped, cfAsked, cfNo, cfMeant>>

\* ... or by Cancel, the cross, the backdrop or Escape.
Cancelled ==
  /\ \E id \in cfReq: cfNo' = cfNo \cup {id}
  /\ cfReq' = {} /\ UNCHANGED <<cfTyped, cfAsked, cfYes, cfMeant>>

ConfirmNext ==
  \/ \E id \in 1..MaxAsks, word \in {"", Keyword}: Ask(id, word)
  \/ \E t \in {"", Keyword}: TypeWord(t)
  \/ Confirmed \/ Cancelled

----------------------------------------------------------------------------
(***************************************************************************)
(* The bulk delete.  It is mounted with the page: what was typed stays,    *)
(* also into the next question.                                            *)
(***************************************************************************)
BulkButton(many) ==
  /\ ~bdBox.open /\ ~bdBox.pending /\ bdBox.n < MaxAsks
  /\ bdBox' = [bdBox EXCEPT !.open = TRUE, !.many = many, !.n = @ + 1]
  /\ UNCHANGED <<bdMeant, bdYes>>
TypeDelete(t) ==
  /\ bdBox.open /\ bdBox.many /\ bdBox' = [bdBox EXCEPT !.typed = t]
  /\ bdMeant' = IF t THEN bdMeant \cup {bdBox.n} ELSE bdMeant
  /\ UNCHANGED bdYes
BulkConfirm ==
  /\ bdBox.open /\ ~bdBox.pending /\ (bdBox.many => bdBox.typed)
  /\ bdBox' = [bdBox EXCEPT !.pending = TRUE]
  /\ bdYes' = IF bdBox.many THEN bdYes \cup {bdBox.n} ELSE bdYes
  /\ UNCHANGED bdMeant
\* The backdrop and the cross work while the delete runs.
BulkCancel ==
  bdBox.open /\ bdBox' = [bdBox EXCEPT !.open = FALSE] /\ UNCHANGED <<bdMeant, bdYes>>
BulkSettles ==
  /\ bdBox.pending /\ bdBox' = [bdBox EXCEPT !.pending = FALSE, !.open = FALSE]
  /\ UNCHANGED <<bdMeant, bdYes>>

BulkNext ==
  \/ \E b \in BOOLEAN: BulkButton(b) \/ TypeDelete(b)
  \/ BulkConfirm \/ BulkCancel \/ BulkSettles

----------------------------------------------------------------------------
(***************************************************************************)
(* The import.  Its state outlives its closing.                            *)
(***************************************************************************)
Boxes(box) == biBox' = box /\ box # biBox

ImportOpens(open) ==
  Boxes([biBox EXCEPT !.open = open]) /\ UNCHANGED <<biReads, biLate, biCall>>
SetClearPrefix(clear) ==
  /\ biBox.open /\ Boxes([biBox EXCEPT !.clear = clear])
  /\ UNCHANGED <<biReads, biLate, biCall>>

\* handleFile, before and after the file has been read.
HandleFile(f) ==
  /\ biBox.open /\ f \notin biReads
  /\ biBox' = [biBox EXCEPT !.file = f, !.error = FALSE]
  /\ biReads' = biReads \cup {f} /\ UNCHANGED <<biLate, biCall>>
FileRead(f) ==
  /\ f \in biReads /\ biReads' = biReads \ {f} /\ biLate' = (f # biBox.file)
  /\ biBox' = IF f \in GoodFile THEN [biBox EXCEPT !.parsed = f]
              ELSE [biBox EXCEPT !.parsed = "", !.error = TRUE]
  /\ UNCHANGED biCall

\* apply sends the file chosen last, once anything has been parsed.
Import ==
  /\ biBox.open /\ biBox.parsed # "" /\ biCall = {}
  /\ biCall' = {[file |-> biBox.file, clear |-> biBox.clear, parsed |-> biBox.parsed,
                 doubt |-> biLate \/ biBox.file \in biReads]}
  /\ UNCHANGED <<biBox, biReads, biLate>>
ImportEnds ==
  /\ biCall # {} /\ biCall' = {}
  /\ biBox' \in {biBox, [biBox EXCEPT !.open = FALSE]}
  /\ UNCHANGED <<biReads, biLate>>

ImportNext ==
  \/ \E b \in BOOLEAN: ImportOpens(b) \/ SetClearPrefix(b)
  \/ \E f \in DlFile: HandleFile(f) \/ FileRead(f)
  \/ Import \/ ImportEnds

----------------------------------------------------------------------------
(***************************************************************************)
(* The wizard.  Each time it is opened, it is a new one.                   *)
(***************************************************************************)
WizardOpens ==
  /\ ~awBox.open /\ awBox.n < MaxAsks
  /\ awBox' = [open |-> TRUE, id |-> "", endpoints |-> FALSE, n |-> awBox.n + 1]
  /\ awError' = FALSE /\ UNCHANGED awCalls
WizardCloses ==
  awBox.open /\ awBox' = [awBox EXCEPT !.open = FALSE] /\ UNCHANGED <<awCalls, awError>>

\* choose: a preset fills the form in, without endpoints.
Fills(box) == awBox.open /\ awBox' = box /\ box # awBox /\ UNCHANGED <<awCalls, awError>>
ChoosePreset(id) == Fills([awBox EXCEPT !.id = id, !.endpoints = FALSE])
FillField(id, endpoints) == Fills([awBox EXCEPT !.id = id, !.endpoints = endpoints])

AddCluster ==
  /\ awBox.open /\ awBox.id # "" /\ awBox.endpoints
  /\ \A c \in awCalls: c.n # awBox.n
  /\ awCalls' = awCalls \cup {[id |-> awBox.id, n |-> awBox.n]}
  /\ awError' = FALSE /\ UNCHANGED awBox

\* Whichever wizard is open by now is closed; an error is shown in its own.
Added(c) ==
  /\ awCalls' = awCalls \ {c}
  /\ \/ awBox' = [awBox EXCEPT !.open = FALSE] /\ UNCHANGED awError
     \/ awError' = (awError \/ awBox.n = c.n) /\ UNCHANGED awBox

WizardNext ==
  \/ WizardOpens \/ WizardCloses \/ AddCluster
  \/ \E id \in PresetId: ChoosePreset(id)
  \/ \E id \in {awBox.id, "", "mine"}, e \in BOOLEAN: FillField(id, e)
  \/ \E c \in awCalls: Added(c)

DialogsNext ==
  \/ ConfirmNext /\ UNCHANGED <<bdVars, biVars, awVars>>
  \/ BulkNext /\ UNCHANGED <<cfVars, biVars, awVars>>
  \/ ImportNext /\ UNCHANGED <<cfVars, bdVars, awVars>>
  \/ WizardNext /\ UNCHANGED <<cfVars, bdVars, biVars>>

----------------------------------------------------------------------------
\* "the user must type this exact string to enable the confirm button"
\* (Confirm.tsx), and into this dialog, not an earlier one; and no promise of
\* confirm() is answered yes and no.
ConfirmIsMeant ==
  /\ \A id \in cfYes: cfAsked[id] = "" \/ id \in cfMeant
  /\ cfYes \cap cfNo = {}

\* The bulk delete, which "echoes" that pattern, does less: more than ten keys are
\* deleted only if the word was typed into this question or into an earlier one.
BulkIsMeant == \A n \in bdYes: \E m \in bdMeant: m <= n

\* What an import sends is the file whose keys were counted, except while the file
\* chosen last is still being read, or after an earlier one was read last.
ImportIsMeant == \A c \in biCall: c.parsed = c.file \/ c.doubt

\* What the user is asked about is what is then done: each dialog by its own rule.
YesIsMeant == ConfirmIsMeant /\ BulkIsMeant /\ ImportIsMeant
============================================================================
