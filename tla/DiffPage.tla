------------------------------ MODULE DiffPage ------------------------------
(***************************************************************************)
(* The comparison of two clusters: the page (web/src/pages/Diff.tsx), with *)
(* what the query cache keeps for each question it asks, and the handler   *)
(* that scans one cluster after the other (cmd/kv/diff.go).  What the page *)
(* says of an error, beside the answer it has, is left out.                *)
(***************************************************************************)
EXTENDS Naturals

CONSTANTS
  DfCluster, DfKey,
  DfPrefix,  \* what is typed as a prefix
  DfRange,   \* the keys that rangeAll reads for it
  FirstStore, \* what the clusters hold at first
  MaxDiffs,  \* bound: questions asked
  MaxValue,  \* values are numbers up to it, and 0 stands for no key
  MaxWrites  \* bound: writes of others

ASSUME DiffAssumption ==
  /\ DfRange \in [DfPrefix -> SUBSET DfKey] /\ "" \notin DfCluster /\ "" \in DfPrefix
  /\ MaxDiffs \in Nat /\ MaxValue \in Nat /\ MaxWrites \in Nat
  /\ FirstStore \in [DfCluster -> [DfKey -> 0..MaxValue]]

VARIABLES
  dfStore,  \* the values of each cluster's keys
  dfWrites, dfAsked, \* how many there were
  dfPage,   \* selectedCluster, diffAgainst ("" for null), prefix
  dfQuery   \* of each question, the cache's entry and the request under way

dfVars == <<dfStore, dfWrites, dfAsked, dfPage, dfQuery>>

Kind == {"only-left", "only-right", "different"}
Question == [left: DfCluster, against: DfCluster \cup {""}, prefix: DfPrefix]
DiffRow == [key: DfKey, kind: Kind, left: 0..MaxValue, right: 0..MaxValue]
Contents == [DfKey -> 0..MaxValue]
NoContents == [k \in DfKey |-> 0]

\* has and diffs are the entry; at and scan the request.  old and late are history:
\* one of the two clusters was written after the request of the entry, and that
\* under way, had started.
EntryOf(has, diffs, old) == [has |-> has, diffs |-> diffs, old |-> old,
                             at |-> "idle", scan |-> NoContents, late |-> FALSE]
Fresh == EntryOf(FALSE, {}, FALSE)
QueryState == [has: BOOLEAN, diffs: SUBSET DiffRow, old: BOOLEAN,
               at: {"idle", "asked", "scanned"}, scan: Contents, late: BOOLEAN]

DiffPageTypeOK ==
  /\ dfStore \in [DfCluster -> Contents]
  /\ dfWrites \in 0..MaxWrites /\ dfAsked \in 0..MaxDiffs
  /\ dfPage \in Question
  /\ dfQuery \in [Question -> QueryState]

\* diffAgainst is null, or what was chosen an earlier time: it may be the cluster
\* that is selected by now.
DiffInit ==
  /\ dfStore = FirstStore /\ dfWrites = 0 /\ dfAsked = 0
  /\ \E c \in DfCluster: dfPage = [left |-> c, against |-> "", prefix |-> ""]
  /\ dfQuery \in [Question -> {Fresh}]

\* Without the request.
CacheEntry(q) == EntryOf(dfQuery[q].has, dfQuery[q].diffs, dfQuery[q].old)
Asks(q) == [dfQuery EXCEPT ![q] = [CacheEntry(q) EXCEPT !.at = "asked"]]

----------------------------------------------------------------------------
\* Another question: it is asked if it is complete and there is no answer, or one
\* that is stale by now, and no request for it is under way.
Turn(q) ==
  /\ dfPage # q /\ dfPage' = q
  /\ IF q.against = "" \/ dfQuery[q].at # "idle" THEN UNCHANGED <<dfQuery, dfAsked>>
     ELSE \/ /\ dfAsked < MaxDiffs /\ dfAsked' = dfAsked + 1 /\ dfQuery' = Asks(q)
          \/ dfQuery[q].has /\ UNCHANGED <<dfQuery, dfAsked>>
  /\ UNCHANGED <<dfStore, dfWrites>>

SelectLeft(c) == Turn([dfPage EXCEPT !.left = c])
SelectRight(c) == c # dfPage.left /\ Turn([dfPage EXCEPT !.against = c])
TypePrefix(p) == Turn([dfPage EXCEPT !.prefix = p])

\* "Compare" asks again, also with nothing to compare to; of a request that is
\* under way for an entry that has an answer, the answer is dropped.
CompareButton ==
  LET q == dfPage IN
  /\ dfAsked < MaxDiffs /\ (dfQuery[q].at = "idle" \/ dfQuery[q].has)
  /\ dfAsked' = dfAsked + 1 /\ dfQuery' = Asks(q)
  /\ UNCHANGED <<dfStore, dfWrites, dfPage>>

----------------------------------------------------------------------------
ScanLeft(q) ==
  /\ dfQuery[q].at = "asked" /\ q.against # ""
  /\ dfQuery' = [dfQuery EXCEPT ![q].at = "scanned", ![q].scan = dfStore[q.left]]
  /\ UNCHANGED <<dfStore, dfWrites, dfAsked, dfPage>>

\* seen: first what the left has, then what only the right has.
Differences(left, right, keys) ==
  LET row(k, kind) == [key |-> k, kind |-> kind, left |-> left[k], right |-> right[k]]
      inLeft == {k \in keys : left[k] # 0}
      inRight == {k \in keys : right[k] # 0}
  IN {row(k, "different") : k \in {x \in inLeft \cap inRight : left[x] # right[x]}}
     \cup {row(k, "only-left") : k \in inLeft \ inRight}
     \cup {row(k, "only-right") : k \in inRight \ inLeft}

NewEntry(q) ==
  EntryOf(TRUE, Differences(dfQuery[q].scan, dfStore[q.against], DfRange[q.prefix]),
          dfQuery[q].late)

\* Mutant: an answer is shown whatever it answers.
DiffAnsweredHere(q) ==
  /\ dfQuery[q].at = "scanned"
  /\ dfQuery' = [dfQuery EXCEPT ![q] = CacheEntry(q), ![dfPage] = NewEntry(q)]
  /\ UNCHANGED <<dfStore, dfWrites, dfAsked, dfPage>>

\* The right is scanned, and the answer kept with its question.
DiffAnswered(q) ==
  /\ dfQuery[q].at = "scanned" /\ dfQuery' = [dfQuery EXCEPT ![q] = NewEntry(q)]
  /\ UNCHANGED <<dfStore, dfWrites, dfAsked, dfPage>>

\* An error, after which an earlier answer is still there.
DiffFails(q) ==
  /\ dfQuery[q].at # "idle"
  /\ dfQuery' = [dfQuery EXCEPT ![q] = CacheEntry(q)]
  /\ UNCHANGED <<dfStore, dfWrites, dfAsked, dfPage>>

OthersWrite(c, k, v) ==
  /\ dfWrites < MaxWrites /\ dfWrites' = dfWrites + 1 /\ dfStore[c][k] # v
  /\ dfStore' = [dfStore EXCEPT ![c][k] = v]
  /\ dfQuery' = [q \in Question |->
       IF c \in {q.left, q.against}
         THEN [dfQuery[q] EXCEPT !.old = dfQuery[q].has, !.late = dfQuery[q].at # "idle"]
         ELSE dfQuery[q]]
  /\ UNCHANGED <<dfAsked, dfPage>>

----------------------------------------------------------------------------
ShownEntry == dfQuery[dfPage]
Filtered(filter) == {d \in ShownEntry.diffs : filter \in {"all", d.kind}}

DiffView(filter) ==
  IF ~ShownEntry.has /\ ShownEntry.at # "idle" THEN "computing"
  ELSE IF ~ShownEntry.has THEN "compare two clusters"
  ELSE IF Filtered(filter) = {} THEN "all keys match" ELSE "rows"

DiffPageNext ==
  \/ \E c \in DfCluster: SelectLeft(c) \/ SelectRight(c) \/
       \E k \in DfKey, v \in 0..MaxValue: OthersWrite(c, k, v)
  \/ SelectRight("") \/ CompareButton
  \/ \E p \in DfPrefix: TypePrefix(p)
  \/ \E q \in Question: ScanLeft(q) \/ DiffAnswered(q) \/ DiffFails(q)

----------------------------------------------------------------------------
\* "Identical keys are hidden" (the page), the others are shown: unless one of
\* the two clusters was written after the request had started, what is listed is
\* where the clusters named on the page differ now, under the prefix typed there,
\* and of what kind, in whatever order questions are asked, answered and failed;
\* and "All keys match" is said of clusters that do, as far as the filter goes.
DiffTellsTheDifference ==
  ShownEntry.has /\ ~ShownEntry.old =>
    LET left(k) == dfStore[dfPage.left][k]
        right(k) == dfStore[dfPage.against][k]
        differ == {k \in DfRange[dfPage.prefix] : left(k) # right(k)}
    IN \A filter \in Kind \cup {"all"}:
         /\ {d.key : d \in Filtered(filter)} =
              {k \in differ : CASE filter = "only-left" -> right(k) = 0
                                [] filter = "only-right" -> left(k) = 0
                                [] filter = "different" -> 0 \notin {left(k), right(k)}
                                [] OTHER -> TRUE}
         /\ \A d \in Filtered(filter): d.left = left(d.key) /\ d.right = right(d.key)
         /\ DiffView("all") = "all keys match" => differ = {}
============================================================================
