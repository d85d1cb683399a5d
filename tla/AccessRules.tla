---------------------------- MODULE AccessRules ----------------------------
(***************************************************************************)
(* Editing the access rules: the Permissions page                          *)
(* (web/src/pages/Permissions.tsx), and the handlers of the gateway that   *)
(* save and restore them and keep a history (cmd/gateway/main.go,          *)
(* internal/httpx/acl_history.go).  The history's cap of 200 files, and    *)
(* edits of the file by hand, are left out.                                *)
(***************************************************************************)
EXTENDS Naturals

CONSTANTS
  RuleSet,  \* rule sets, opaque ones
  NoRules,  \* the empty one
  FirstSet, \* the one the gateway starts with
  Valid,    \* those that aclValidate accepts
  CanEdit,  \* aclCanEdit: who may edit under each
  PageUser, \* the user of the page...
  OtherUser, \* ... and another, who uses the API
  MaxSaves  \* bound: saves and restores

ASSUME AccessAssumption ==
  /\ NoRules \in Valid /\ FirstSet \in Valid /\ Valid \subseteq RuleSet
  /\ MaxSaves \in Nat
  /\ CanEdit \in [RuleSet -> SUBSET {PageUser, OtherUser}]

VARIABLES
  arLive,    \* the rules in force
  arHistory, \* the snapshots
  arReq,     \* the request of each user
  arSent,    \* how many there were
  arCache,   \* aclQ.data of the page
  arPage,    \* editing, previewing, historyOpen, draft
  arCheck,   \* the draft whose validation is under way, in a set
  arWere,    \* history variable: rule sets that have been in force
  arUnkept   \* history variable: rule sets of which a snapshot has failed

arServer == <<arLive, arHistory, arWere, arUnkept>>
arVars == <<arServer, arReq, arSent, arCache, arPage, arCheck>>

AccessUser == {PageUser, OtherUser}
NoSave == [at |-> "idle", undo |-> FALSE, rules |-> NoRules]

AccessTypeOK ==
  /\ arLive \in Valid
  /\ {arHistory, arWere, arUnkept, arCheck} \subseteq SUBSET RuleSet
  /\ arReq \in [AccessUser ->
       [at: {"idle", "sent", "allowed", "kept", "written", "ok", "error"},
        undo: BOOLEAN, rules: RuleSet]]
  /\ arCache \in RuleSet /\ arSent \in 0..MaxSaves
  /\ arPage \in [editing: BOOLEAN, previewing: BOOLEAN, drawer: BOOLEAN, draft: RuleSet]

AccessInit ==
  /\ arLive = FirstSet /\ arHistory = {} /\ arWere = {FirstSet} /\ arUnkept = {}
  /\ arReq = [u \in AccessUser |-> NoSave] /\ arSent = 0
  /\ arCache = FirstSet /\ arCheck = {}
  /\ arPage = [editing |-> FALSE, previewing |-> FALSE, drawer |-> FALSE,
               draft |-> NoRules]

----------------------------------------------------------------------------
(***************************************************************************)
(* The gateway.                                                            *)
(***************************************************************************)
Reaches(u, at) == arReq' = [arReq EXCEPT ![u].at = at] /\ UNCHANGED arSent

\* The caller is checked against the rules in force now.
MayEdit(u) ==
  /\ arReq[u].at = "sent"
  /\ Reaches(u, IF u \in CanEdit[arLive] THEN "allowed" ELSE "error")
  /\ UNCHANGED <<arServer, arCache, arPage, arCheck>>

\* SnapshotHistory: an error is ignored.
SnapshotHistory(rules) ==
  /\ \/ arHistory' = arHistory \cup {rules} /\ UNCHANGED arUnkept
     \/ arUnkept' = arUnkept \cup {rules} /\ UNCHANGED arHistory
  /\ UNCHANGED <<arLive, arWere>>

SnapshotBefore(u) ==
  /\ arReq[u].at = "allowed" /\ Reaches(u, "kept")
  /\ SnapshotHistory(arLive)
  /\ UNCHANGED <<arCache, arPage, arCheck>>

\* acl.Save validates the rules and replaces file and memory, or fails.
SaveRules(u) ==
  LET r == arReq[u].rules IN
  /\ arReq[u].at = "kept"
  /\ \/ /\ r \in Valid
        /\ arLive' = r /\ arWere' = arWere \cup {r}
        /\ Reaches(u, IF arReq[u].undo THEN "ok" ELSE "written")
     \/ Reaches(u, "error") /\ UNCHANGED <<arLive, arWere>>
  /\ UNCHANGED <<arHistory, arUnkept, arCache, arPage, arCheck>>

\* Mutant: the snapshot after a save is of the rules in force by then.
SnapshotNow(u) ==
  /\ arReq[u].at = "written" /\ Reaches(u, "ok")
  /\ SnapshotHistory(arLive)
  /\ UNCHANGED <<arCache, arPage, arCheck>>

SnapshotAfter(u) ==
  /\ arReq[u].at = "written" /\ Reaches(u, "ok")
  /\ SnapshotHistory(arReq[u].rules)
  /\ UNCHANGED <<arCache, arPage, arCheck>>

\* PUT /api/acl, or POST /api/acl/restore of a snapshot.
SendRules(u, undo, rules) ==
  /\ arReq[u].at = "idle" /\ arSent < MaxSaves /\ (undo => rules \in arHistory)
  /\ arReq' = [arReq EXCEPT ![u] = [at |-> "sent", undo |-> undo, rules |-> rules]]
  /\ arSent' = arSent + 1

OtherSends(undo, rules) ==
  /\ SendRules(OtherUser, undo, rules)
  /\ UNCHANGED <<arServer, arCache, arPage, arCheck>>
OtherAnswered ==
  /\ arReq[OtherUser].at \in {"ok", "error"}
  /\ arReq' = [arReq EXCEPT ![OtherUser] = NoSave]
  /\ UNCHANGED <<arServer, arSent, arCache, arPage, arCheck>>

----------------------------------------------------------------------------
(***************************************************************************)
(* The page.                                                               *)
(***************************************************************************)
Turns(page) ==
  /\ arPage' = page /\ arPage' # arPage
  /\ UNCHANGED <<arServer, arReq, arSent, arCache, arCheck>>

\* The rules are fetched: at first, and later when the page is looked at again.
RulesFetched ==
  /\ arCache' = arLive
  /\ UNCHANGED <<arServer, arReq, arSent, arPage, arCheck>>

\* The editor and the diff are there only if the cached rules are not empty, the
\* buttons in any case.
StartEdit == ~arPage.editing /\ Turns([arPage EXCEPT !.editing = TRUE, !.draft = arCache])
EditRules(rules) ==
  /\ arCache # NoRules /\ arPage.editing /\ ~arPage.previewing
  /\ Turns([arPage EXCEPT !.draft = rules])
CancelEdit ==
  arPage.editing /\ ~arPage.previewing /\ Turns([arPage EXCEPT !.editing = FALSE])
BackToEditor == arPage.previewing /\ Turns([arPage EXCEPT !.previewing = FALSE])
HistoryButton == ~arPage.editing /\ Turns([arPage EXCEPT !.drawer = TRUE])
CloseHistory == arPage.drawer /\ Turns([arPage EXCEPT !.drawer = FALSE])

\* preview (one at a time is enough): the draft of now is validated, and if it is
\* fine, the page previews what is the draft by then, even if the editing was
\* cancelled.
Preview ==
  /\ arPage.editing /\ ~arPage.previewing /\ arCheck = {}
  /\ arCheck' = {arPage.draft}
  /\ UNCHANGED <<arServer, arReq, arSent, arCache, arPage>>
Validated(rules) ==
  /\ rules \in arCheck /\ arCheck' = arCheck \ {rules}
  /\ \/ rules \in Valid /\ arPage' = [arPage EXCEPT !.previewing = TRUE]
     \/ UNCHANGED arPage
  /\ UNCHANGED <<arServer, arReq, arSent, arCache>>

\* Save, once it is confirmed.
SaveDraft ==
  /\ arPage.previewing /\ SendRules(PageUser, FALSE, arPage.draft)
  /\ UNCHANGED <<arServer, arCache, arPage, arCheck>>
RestoreSnapshot(rules) ==
  /\ arPage.drawer /\ SendRules(PageUser, TRUE, rules)
  /\ UNCHANGED <<arServer, arCache, arPage, arCheck>>

\* Its answer: the editor is left, whatever is in it by now, or the drawer.
PageAnswered ==
  LET req == arReq[PageUser] IN
  /\ req.at \in {"ok", "error"}
  /\ arReq' = [arReq EXCEPT ![PageUser] = NoSave]
  /\ arPage' = IF req.at = "error" THEN arPage
               ELSE IF req.undo THEN [arPage EXCEPT !.drawer = FALSE]
               ELSE [arPage EXCEPT !.editing = FALSE, !.previewing = FALSE]
  /\ UNCHANGED <<arServer, arSent, arCache, arCheck>>

AccessNext ==
  \/ \E u \in AccessUser:
       MayEdit(u) \/ SnapshotBefore(u) \/ SaveRules(u) \/ SnapshotAfter(u)
  \/ \E rules \in RuleSet:
       \/ EditRules(rules) \/ Validated(rules) \/ RestoreSnapshot(rules)
       \/ \E undo \in BOOLEAN: OtherSends(undo, rules)
  \/ OtherAnswered \/ RulesFetched
  \/ StartEdit \/ CancelEdit \/ Preview \/ BackToEditor
  \/ HistoryButton \/ CloseHistory \/ SaveDraft \/ PageAnswered

----------------------------------------------------------------------------
\* "Snapshot *before* image so undo is itself undo-able" (cmd/gateway/main.go):
\* rules that were in force and are not any more can be restored, or the request
\* that put them is about to record them, unless a snapshot of them failed,
\* however two editors' saves and restores overlap.
NoRulesAreLost ==
  arWere \subseteq {arLive} \cup arHistory \cup arUnkept
                   \cup {arReq[u].rules : u \in {v \in AccessUser : arReq[v].at = "written"}}
============================================================================
