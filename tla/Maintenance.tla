---------------------------- MODULE Maintenance ----------------------------
(***************************************************************************)
(* The Maintenance page (web/src/pages/Maintenance.tsx): the forecast of   *)
(* the database's growth (web/src/lib/dbForecast.ts), the leases, and the  *)
(* cards whose buttons start a job or validate a snapshot.                 *)
(***************************************************************************)
EXTENDS Integers, SequencesExt

CONSTANTS
  MtCluster,   \* clusters that may be selected; with none the page only asks for one
  MtEndpoint,  \* endpoints: members of a cluster, each with a database file of its own
  MtEndpoints, \* those of each cluster
  MaxClock,    \* bound: the time
  MaxSize,     \* bound: the size of a database
  MtWindow, MaxSamples, SameSample, MtQuota, \* WINDOW_MS, MAX_SAMPLES, 500 ms, quota
  MtLease,     \* leases of the cluster shown
  MtFile       \* snapshots to validate

ASSUME MaintenanceAssumption ==
  /\ {MaxClock, MaxSize, MtWindow, MaxSamples, SameSample, MtQuota} \subseteq Nat \ {0}
  /\ MtCluster # {} /\ "none" \notin MtEndpoint
  /\ MtEndpoints \in [MtCluster -> SUBSET MtEndpoint]

VARIABLES
  mtCluster, \* selectedCluster
  mtClock, mtSize, \* the time, and the size of each endpoint's database
  mtFrom,    \* history variable: the endpoint that first told each cluster's size
  mtMixed,   \* history variable: clusters of which another endpoint told a size, or
             \* this one was defragmented
  mtSummary, \* the data of the query of each cluster: its size, 0 for none
  mtSamples, \* history of dbForecast, of each cluster
  mtCard,    \* the samples of which the card was last rendered
  mtLeases,  \* the leases there are; those listed; how they are read, and whether
             \* the last reading failed
  mtRevokes, \* the leases that are being revoked, and how far that is
  mtGone,    \* history variable: the leases of which the page heard they are gone
  mtJobs,    \* each job's button: under way or not, and the cluster its result is of
  mtCheck    \* SnapshotValidator: file, the file that is sent, whose result it shows

mtForecastVars == <<mtClock, mtSize, mtFrom, mtMixed, mtSummary, mtSamples, mtCard>>
mtLeaseVars == <<mtLeases, mtRevokes, mtGone>>
mtCardVars == <<mtJobs, mtCheck>>
mtVars == <<mtCluster, mtForecastVars, mtLeaseVars, mtCardVars>>

Job == {"compact", "defrag", "disarm"}
FirstMtCluster == CHOOSE c \in MtCluster: TRUE

MaintenanceTypeOK ==
  /\ mtCluster \in MtCluster /\ mtClock \in 0..MaxClock
  /\ mtSize \in [MtCluster -> [MtEndpoint -> 1..MaxSize]]
  /\ mtFrom \in [MtCluster -> MtEndpoint \cup {"none"}] /\ mtMixed \subseteq MtCluster
  /\ mtSummary \in [MtCluster -> 0..MaxSize]
  /\ \A s \in {mtSamples[c] : c \in MtCluster} \cup {mtCard}:
       /\ Len(s) <= MaxSamples
       /\ \A i \in 1..Len(s): s[i] \in (0..MaxClock) \X (1..MaxSize)
  /\ mtLeases \in [here: SUBSET MtLease, shown: SUBSET MtLease,
                   fetch: {"none", "sent", "read"}, read: SUBSET MtLease, failed: BOOLEAN]
  /\ mtRevokes \in [MtLease -> {"none", "sent", "ok", "error"}]
  /\ mtGone \subseteq MtLease
  /\ mtJobs \in [Job -> [pending: BOOLEAN, of: MtCluster \cup {""}, result: MtCluster \cup {""}]]
  /\ mtCheck \in [file: MtFile \cup {""}, sent: MtFile \cup {""}, result: MtFile \cup {""}]

MaintenanceInit ==
  /\ mtCluster = FirstMtCluster /\ mtClock = 0
  /\ mtSize = [c \in MtCluster |-> [e \in MtEndpoint |-> 1]]
  /\ mtFrom = [c \in MtCluster |-> "none"] /\ mtMixed = {}
  /\ mtSummary = [c \in MtCluster |-> 0]
  /\ mtSamples = [c \in MtCluster |-> <<>>] /\ mtCard = <<>>
  /\ mtLeases = [here |-> MtLease, shown |-> {}, fetch |-> "sent", read |-> {},
                  failed |-> FALSE]
  /\ mtRevokes = [l \in MtLease |-> "none"] /\ mtGone = {}
  /\ mtJobs = [j \in Job |-> [pending |-> FALSE, of |-> "", result |-> ""]]
  /\ mtCheck = [file |-> "", sent |-> "", result |-> ""]

----------------------------------------------------------------------------
(***************************************************************************)
(* The forecast.                                                           *)
(***************************************************************************)
\* recordDBSize: a sample replaces the last one if that is of the same time.
\* Otherwise the old ones are shifted out, and the first of too many.
Recorded(samples, bytes) ==
  LET all == Append(samples, <<mtClock, bytes>>)
      first == Min({i \in 1..Len(all) : all[i][1] >= mtClock - MtWindow})
  IN IF samples # <<>> /\ mtClock - Last(samples)[1] < SameSample
       THEN [samples EXCEPT ![Len(samples)] = <<@[1], bytes>>]
       ELSE SubSeq(all, Max({first, Len(all) - MaxSamples + 1}), Len(all))

\* No size, no sample.
RecordDBSize(c, bytes) ==
  mtSamples' = IF bytes > 0 THEN [mtSamples EXCEPT ![c] = Recorded(@, bytes)] ELSE mtSamples

\* The service's answer is of the first endpoint that answers it, or without a size.
\* The card is rendered with it, and only then does the effect record it.  One that
\* comes after a switch of cluster is only cached; a failed poll changes nothing.
SummaryHas(c, bytes) ==
  /\ mtSummary' = [mtSummary EXCEPT ![c] = bytes]
  /\ IF c = mtCluster THEN RecordDBSize(c, bytes) /\ mtCard' = mtSamples[c]
                      ELSE UNCHANGED <<mtSamples, mtCard>>
  /\ UNCHANGED <<mtCluster, mtClock, mtSize>>

SummaryRead(c, e) ==
  /\ SummaryHas(c, mtSize[c][e])
  /\ mtFrom' = IF mtFrom[c] = "none" THEN [mtFrom EXCEPT ![c] = e] ELSE mtFrom
  /\ mtMixed' = IF mtFrom[c] \in {"none", e} THEN mtMixed ELSE mtMixed \cup {c}
SummaryReadsNothing(c) == SummaryHas(c, 0) /\ UNCHANGED <<mtFrom, mtMixed>>

\* The effect runs for a summary of the other cluster that is cached, too.
SwitchCluster(c) ==
  /\ mtCluster' = c /\ c # mtCluster
  /\ mtCard' = mtSamples[c] /\ RecordDBSize(c, mtSummary[c])
  /\ UNCHANGED <<mtClock, mtSize, mtFrom, mtMixed, mtSummary>>

\* The page is rendered for another reason, such as its other query.
RenderCard ==
  /\ mtCard' = mtSamples[mtCluster] /\ mtCard' # mtCard
  /\ UNCHANGED <<mtCluster, mtClock, mtSize, mtFrom, mtMixed, mtSummary, mtSamples>>

DatabaseGrows(c, e) ==
  /\ mtSize[c][e] < MaxSize /\ mtSize' = [mtSize EXCEPT ![c][e] = @ + 1]
  /\ UNCHANGED <<mtCluster, mtClock, mtFrom, mtMixed, mtSummary, mtSamples, mtCard>>
DatabaseIsDefragmented(c, e) ==
  /\ mtSize[c][e] > 1 /\ mtSize' = [mtSize EXCEPT ![c][e] = 1]
  /\ mtMixed' = IF mtFrom[c] = e THEN mtMixed \cup {c} ELSE mtMixed
  /\ UNCHANGED <<mtCluster, mtClock, mtFrom, mtSummary, mtSamples, mtCard>>

MinutePasses ==
  /\ mtClock < MaxClock /\ mtClock' = mtClock + 1
  /\ UNCHANGED <<mtCluster, mtSize, mtFrom, mtMixed, mtSummary, mtSamples, mtCard>>

\* The sums that forecast makes of the samples; x is counted from the first one's time.
Sums(s) ==
  LET sum[n \in 0..Len(s)] ==
        IF n = 0 THEN [x |-> 0, b |-> 0, xx |-> 0, xb |-> 0]
        ELSE LET x == s[n][1] - s[1][1] IN
             [x |-> sum[n - 1].x + x, b |-> sum[n - 1].b + s[n][2],
              xx |-> sum[n - 1].xx + x * x, xb |-> sum[n - 1].xb + x * s[n][2]]
  IN sum[Len(s)]

\* The regression's slope is Slope / Spread, forecast is null when that is 0.
Spread(s) == Len(s) * Sums(s).xx - Sums(s).x * Sums(s).x
Slope(s) == Len(s) * Sums(s).xb - Sums(s).x * Sums(s).b

HasForecast(s) == Len(s) >= 2 /\ Spread(s) # 0

\* msUntilQuota is a number: the line rises, and is still below the quota.
TellsWhenFull(s) ==
  LET xNow == Last(s)[1] - s[1][1] IN
  /\ HasForecast(s) /\ Slope(s) > 0 /\ Last(s)[2] < MtQuota
  /\ Spread(s) * Sums(s).b + Slope(s) * (Len(s) * xNow - Sums(s).x)
       < Len(s) * Spread(s) * MtQuota

ForecastNext ==
  \/ MinutePasses \/ RenderCard
  \/ \E c \in MtCluster: SwitchCluster(c) \/ SummaryReadsNothing(c)
  \/ \E c \in MtCluster: \E e \in MtEndpoints[c]:
       SummaryRead(c, e) \/ DatabaseGrows(c, e) \/ DatabaseIsDefragmented(c, e)

----------------------------------------------------------------------------
(***************************************************************************)
(* The leases.                                                             *)
(***************************************************************************)
PollLeases ==
  /\ mtLeases.fetch = "none" /\ mtLeases' = [mtLeases EXCEPT !.fetch = "sent"]
  /\ UNCHANGED <<mtRevokes, mtGone>>
LeasesRead ==
  /\ mtLeases.fetch = "sent"
  /\ mtLeases' = [mtLeases EXCEPT !.fetch = "read", !.read = mtLeases.here]
  /\ UNCHANGED <<mtRevokes, mtGone>>
LeasesShown ==
  /\ mtLeases.fetch = "read"
  /\ mtLeases' = [mtLeases EXCEPT !.fetch = "none", !.shown = mtLeases.read, !.read = {},
                                  !.failed = FALSE]
  /\ UNCHANGED <<mtRevokes, mtGone>>
\* The query fails, at the first try and the next: what was listed stays.
LeasesFail ==
  /\ mtLeases.fetch # "none"
  /\ mtLeases' = [mtLeases EXCEPT !.fetch = "none", !.read = {}, !.failed = TRUE]
  /\ UNCHANGED <<mtRevokes, mtGone>>

\* The button of a row, which does not wait for an earlier click.
RevokeLease(l) ==
  /\ l \in mtLeases.shown /\ mtRevokes[l] = "none"
  /\ mtRevokes' = [mtRevokes EXCEPT ![l] = "sent"] /\ UNCHANGED <<mtLeases, mtGone>>
RevokeServed(l) ==
  /\ mtRevokes[l] = "sent"
  /\ \/ /\ l \in mtLeases.here /\ mtLeases' = [mtLeases EXCEPT !.here = @ \ {l}]
        /\ \E at \in {"ok", "error"}: mtRevokes' = [mtRevokes EXCEPT ![l] = at]
     \/ mtRevokes' = [mtRevokes EXCEPT ![l] = "error"] /\ UNCHANGED mtLeases
  /\ UNCHANGED mtGone
\* onSuccess: the list is read again, from the start if it is being read.
RevokeEnds(l) ==
  /\ mtRevokes[l] \in {"ok", "error"} /\ mtRevokes' = [mtRevokes EXCEPT ![l] = "none"]
  /\ IF mtRevokes[l] = "ok"
       THEN mtGone' = mtGone \cup {l} /\ mtLeases' = [mtLeases EXCEPT !.fetch = "sent", !.read = {}]
       ELSE UNCHANGED <<mtGone, mtLeases>>

LeasesNext ==
  \/ PollLeases \/ LeasesRead \/ LeasesShown \/ LeasesFail
  \/ \E l \in MtLease: RevokeLease(l) \/ RevokeServed(l) \/ RevokeEnds(l)

----------------------------------------------------------------------------
(***************************************************************************)
(* The jobs and the validator: what is shown outlives a switch of cluster, *)
(* and an answer is shown with whatever file is chosen by then.            *)
(***************************************************************************)
StartJob(j) ==
  /\ ~mtJobs[j].pending
  /\ mtJobs' = [mtJobs EXCEPT ![j] = [pending |-> TRUE, of |-> mtCluster, result |-> ""]]
  /\ UNCHANGED <<mtCluster, mtCheck>>
JobEnds(j) ==
  /\ mtJobs[j].pending
  /\ \E result \in {mtJobs[j].of, ""}:
       mtJobs' = [mtJobs EXCEPT ![j] = [pending |-> FALSE, of |-> "", result |-> result]]
  /\ UNCHANGED <<mtCluster, mtCheck>>

ChooseSnapshot(f) ==
  /\ mtCheck' = [mtCheck EXCEPT !.file = f, !.result = ""]
  /\ UNCHANGED <<mtCluster, mtJobs>>
Validate ==
  /\ mtCheck.file # "" /\ mtCheck.sent = ""
  /\ mtCheck' = [mtCheck EXCEPT !.sent = mtCheck.file, !.result = ""]
  /\ UNCHANGED <<mtCluster, mtJobs>>
ValidatorAnswers ==
  /\ mtCheck.sent # ""
  /\ \E result \in {mtCheck.sent, ""}:
       mtCheck' = [mtCheck EXCEPT !.sent = "", !.result = result]
  /\ UNCHANGED <<mtCluster, mtJobs>>
OtherCluster(c) == mtCluster' = c /\ c # mtCluster /\ UNCHANGED mtCardVars

CardsNext ==
  \/ \E j \in Job: StartJob(j) \/ JobEnds(j)
  \/ \E f \in MtFile \cup {""}: ChooseSnapshot(f)
  \/ Validate \/ ValidatorAnswers \/ \E c \in MtCluster: OtherCluster(c)

----------------------------------------------------------------------------
\* Over samples that one endpoint told of a database that was not defragmented, the
\* card says that it grew, or that it stayed as it was, as it did, and tells when it is
\* full only if it grows; whatever answers have no size, are late, cached, recorded
\* twice, merged into one, too old or too many.  Its current size is that of an answer
\* before or that of the last one, once it is rendered again.
GrowthIsTold ==
  /\ HasForecast(mtCard) => Last(mtCard)[1] - mtCard[1][1] <= MtWindow
  /\ mtCluster \notin mtMixed =>
       /\ HasForecast(mtCard) =>
            /\ Slope(mtCard) >= 0 /\ (Slope(mtCard) > 0) = (mtCard[1][2] < Last(mtCard)[2])
            /\ TellsWhenFull(mtCard) => mtCard[1][2] < Last(mtCard)[2]
       /\ mtCard # <<>> => /\ mtSamples[mtCluster] # <<>>
                          /\ Last(mtCard)[2] <= Last(mtSamples[mtCluster])[2]
  /\ mtSummary[mtCluster] # 0 =>
       /\ mtSamples[mtCluster] # <<>>
       /\ Last(mtSamples[mtCluster])[2] = mtSummary[mtCluster]

\* A lease whose revocation was confirmed is listed no more once a list was read
\* since: only while it is read, or when the last reading failed.
RevokedIsGone ==
  mtLeases.shown \cap mtGone = {} \/ mtLeases.fetch # "none" \/ mtLeases.failed

MaintenanceTells == GrowthIsTold /\ RevokedIsGone
============================================================================
