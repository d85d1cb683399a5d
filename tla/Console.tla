------------------------------ MODULE Console ------------------------------
(***************************************************************************)
(* The pages of the web console (web/src/App.tsx): one route, and so one  *)
(* page, is mounted at a time.  A behaviour of this specification is one   *)
(* of one page, from its mounting on; the parts of a page that share no    *)
(* state (the dialogs, the cards of Maintenance, the widgets of the header *)
(* and of the key browser's toolbar) take a behaviour each.                *)
(***************************************************************************)
EXTENDS KeyTree, KeyHistory, Suggestions, TerminalPage, LockPage, AccessRules,
        AccessViews, RolesPage, Dialogs, Maintenance, MetricsPage, Pickers,
        TxnPage, DiffPage

VARIABLE route

consoleVars == <<route, ktVars, khVars, acVars, tmVars, lkVars, arVars,
                 avVars, rbVars, dlVars, mtVars, mxVars, pkVars, txVars, dfVars>>

\* Each group of variables is changed by the steps of its routes only.
Route == {"tree", "history", "autocomplete", "terminal", "locks",
          "permissions", "matrix", "rbac",
          "confirm", "bulk-delete", "bulk-import", "wizard",
          "forecast", "leases", "cards", "metrics",
          "pins", "views", "limit", "width", "txn", "diff"}

\* The variables of the page that is mounted; all others keep their first values.
Page ==
  CASE route = "tree" -> ktVars
    [] route = "history" -> khVars
    [] route = "autocomplete" -> acVars
    [] route = "terminal" -> tmVars
    [] route = "locks" -> lkVars
    [] route = "permissions" -> arVars
    [] route = "matrix" -> avVars
    [] route = "rbac" -> rbVars
    [] route \in {"confirm", "bulk-delete", "bulk-import", "wizard"} -> dlVars
    [] route \in {"forecast", "leases", "cards"} -> mtVars
    [] route = "metrics" -> mxVars
    [] route = "txn" -> txVars
    [] route = "diff" -> dfVars
    [] OTHER -> pkVars

ConsoleInit ==
  /\ route \in Route
  /\ KeyTreeInit /\ KeyHistoryInit /\ SuggestionsInit
  /\ TerminalInit /\ LockInit /\ AccessInit /\ AccessViewsInit /\ RolesInit
  /\ DialogsInit /\ MaintenanceInit /\ MetricsInit /\ PickersInit
  /\ TxnInit /\ DiffInit

\* What is in the key browser.
KeyPages ==
  /\ UNCHANGED <<route, tmVars, lkVars, arVars, avVars, rbVars, dlVars, mtVars,
                 mxVars, pkVars, txVars, dfVars>>
  /\ \/ route = "tree" /\ UNCHANGED <<khVars, acVars>> /\ KeyTreeNext
     \/ route = "history" /\ UNCHANGED <<ktVars, acVars>> /\ KeyHistoryNext
     \/ route = "autocomplete" /\ UNCHANGED <<ktVars, khVars>> /\ SuggestionsNext

\* Pages of their own.
OtherPages ==
  /\ UNCHANGED <<route, ktVars, khVars, acVars, dlVars, mtVars, pkVars, txVars, dfVars>>
  /\ \/ /\ route = "terminal" /\ UNCHANGED <<lkVars, arVars, avVars, rbVars, mxVars>>
        /\ TerminalNext
     \/ /\ route = "locks" /\ UNCHANGED <<tmVars, arVars, avVars, rbVars, mxVars>>
        /\ LockNext
     \/ /\ route = "permissions" /\ UNCHANGED <<tmVars, lkVars, avVars, rbVars, mxVars>>
        /\ AccessNext
     \/ /\ route = "matrix" /\ UNCHANGED <<tmVars, lkVars, arVars, rbVars, mxVars>>
        /\ AccessViewsNext
     \/ /\ route = "rbac" /\ UNCHANGED <<tmVars, lkVars, arVars, avVars, mxVars>>
        /\ RolesNext
     \/ /\ route = "metrics" /\ UNCHANGED <<tmVars, lkVars, arVars, avVars, rbVars>>
        /\ MetricsNext

\* Pages of one form and one answer.
FormPages ==
  /\ UNCHANGED <<route, ktVars, khVars, acVars, tmVars, lkVars, arVars, avVars,
                 rbVars, dlVars, mtVars, mxVars, pkVars>>
  /\ \/ route = "txn" /\ UNCHANGED dfVars /\ TxnNext
     \/ route = "diff" /\ UNCHANGED txVars /\ DiffPageNext

\* The dialogs and the cards of Maintenance.
Cards ==
  /\ UNCHANGED <<route, ktVars, khVars, acVars, tmVars, lkVars, arVars,
                 avVars, rbVars, mxVars, pkVars, txVars, dfVars>>
  /\ \/ /\ route = "confirm" /\ UNCHANGED <<bdVars, biVars, awVars, mtVars>>
        /\ ConfirmNext
     \/ /\ route = "bulk-delete" /\ UNCHANGED <<cfVars, biVars, awVars, mtVars>>
        /\ BulkNext
     \/ /\ route = "bulk-import" /\ UNCHANGED <<cfVars, bdVars, awVars, mtVars>>
        /\ ImportNext
     \/ /\ route = "wizard" /\ UNCHANGED <<cfVars, bdVars, biVars, mtVars>>
        /\ WizardNext
     \/ /\ route = "forecast" /\ UNCHANGED <<mtLeaseVars, mtCardVars, dlVars>>
        /\ ForecastNext
     \/ /\ route = "leases"
        /\ UNCHANGED <<mtCluster, mtForecastVars, mtCardVars, dlVars>>
        /\ LeasesNext
     \/ /\ route = "cards" /\ UNCHANGED <<mtForecastVars, mtLeaseVars, dlVars>>
        /\ CardsNext

\* What the header and the toolbar of the key browser hold.
Widgets ==
  /\ UNCHANGED <<route, ktVars, khVars, acVars, tmVars, lkVars, arVars,
                 avVars, rbVars, dlVars, mtVars, mxVars, txVars, dfVars>>
  /\ \/ route = "pins" /\ UNCHANGED <<pkViewVars, pkLimitVars, pkWidth>> /\ PinsNext
     \/ route = "views" /\ UNCHANGED <<pkPinVars, pkLimitVars, pkWidth>> /\ ViewsNext
     \/ route = "limit" /\ UNCHANGED <<pkPinVars, pkViewVars, pkWidth>> /\ LimitNext
     \/ route = "width" /\ UNCHANGED <<pkPinVars, pkViewVars, pkLimitVars>> /\ WidthNext

ConsoleNext == KeyPages \/ OtherPages \/ FormPages \/ Cards \/ Widgets

ConsoleSpec == ConsoleInit /\ [][ConsoleNext]_consoleVars

----------------------------------------------------------------------------
(***************************************************************************)
(* The property of each page, stated in its module, while it is mounted,   *)
(* with the types of its variables.                                        *)
(***************************************************************************)
\* The rows are the tree of the loaded keys, each under its folder.
RowsAreTheTreeHere ==
  route = "tree" => KeyTreeTypeOK /\ RowsAreTheTree

\* The comparison of two versions has both in it, and hides no change.
DiffTellsTheChangeHere ==
  route = "history" => KeyHistoryTypeOK /\ DiffTellsTheChange

\* The suggestions are those for what is typed now.
SuggestionsFitHere ==
  route = "autocomplete" => SuggestionsTypeOK /\ SuggestionsFit

\* Each result stands under the command it answers.
ResultsFindTheirEntryHere ==
  route = "terminal" => TerminalTypeOK /\ ResultsFindTheirEntry

\* No two callers that were told they have the lock have it.
OneHolderHere ==
  route = "locks" => LockTypeOK /\ OneHolder

\* Rules that were in force can be restored.
NoRulesAreLostHere ==
  route = "permissions" => AccessTypeOK /\ NoRulesAreLost

\* Matrix, diff and policy say what the gateway makes of the rules.
ViewsTellTheRulesHere ==
  route = "matrix" => AccessViewsTypeOK /\ ViewsTellTheRules

\* At rest, no user, role or grant is missing.
RolesShowWhatIsHere ==
  route = "rbac" => RolesTypeOK /\ RolesShowWhatIs

\* What asks for a typed word had it typed into it.
YesIsMeantHere ==
  route \in {"confirm", "bulk-delete", "bulk-import", "wizard"} => DialogsTypeOK /\ YesIsMeant

\* Growth is forecast from this cluster's samples, and revoked leases are gone; the
\* change log and the charts account for the polls.
FiguresTellHere ==
  /\ route \in {"forecast", "leases", "cards"} => MaintenanceTypeOK /\ MaintenanceTells
  /\ route = "metrics" => MetricsTypeOK /\ MetricsTell

\* Every cluster once, every view once, the limit that is in force.
PickersShowWhatIsHere ==
  route \in {"pins", "views", "limit", "width"} => PickersTypeOK /\ PickersShowWhatIs

\* The tag says which branch of the rows that were sent has run.
TxnTellsWhatRanHere ==
  route = "txn" => TxnTypeOK /\ TxnTellsWhatRan

\* Listed is what differs between the two clusters that are named.
DiffTellsTheDifferenceHere ==
  route = "diff" => DiffPageTypeOK /\ DiffTellsTheDifference
============================================================================
