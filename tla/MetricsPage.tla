---------------------------- MODULE MetricsPage ----------------------------
(***************************************************************************)
(* The Metrics page (web/src/pages/Metrics.tsx): what it keeps of the      *)
(* samples it polls, the charts of a node or of all, and the log of the    *)
(* changes of leader.  A sample stands for one of the counters, that of    *)
(* the changes of leader, which starts anew when its node does.            *)
(***************************************************************************)
EXTENDS Integers, FiniteSets, SequencesExt

CONSTANTS
  MxNode,    \* endpoints
  MaxPolls,  \* bound: answers of the metrics service
  MaxCount,  \* bound: the counter
  MxPoints,  \* points kept of a node
  MxEntries, \* entries kept of a node's log
  MxRows,    \* rows of the merged list that are shown
  SameTime   \* how close rows of the log are that may be one

ASSUME MetricsAssumption ==
  /\ {MaxPolls, MaxCount, SameTime} \subseteq Nat
  /\ {MxPoints, MxEntries, MxRows} \subseteq Nat \ {0}
  /\ IsFiniteSet(MxNode) /\ "__all__" \notin MxNode

VARIABLES
  mxCounter,  \* the counter of each node
  mxNew,      \* history variable: nodes that were started anew
  mxTime,     \* answers so far, and so the time
  mxQuery,    \* the query: loading, failed, or data
  mxData,     \* its data: the sample of each node listed, NoSample if it failed
  mxHistory,  \* of each node, points: a time and a value
  mxLog,      \* leaderLog: of each node, entries, newest first
  mxLast,     \* lastLeaderSeen
  mxFirst,    \* history variable: the first one seen
  mxDisk      \* the times of the changes that the cluster service recorded

mxVars == <<mxCounter, mxNew, mxTime, mxQuery, mxData, mxHistory, mxLog, mxLast,
            mxFirst, mxDisk>>

NoSample == -1
MxSample == NoSample..MaxCount
LeaderChange == [at: 1..MaxPolls, from: 0..MaxCount, to: 0..MaxCount]

MetricsTypeOK ==
  /\ mxCounter \in [MxNode -> 0..MaxCount] /\ mxNew \subseteq MxNode
  /\ mxTime \in 0..MaxPolls /\ mxQuery \in {"loading", "failed", "data"}
  /\ DOMAIN mxData \subseteq MxNode /\ \A n \in DOMAIN mxData: mxData[n] \in MxSample
  /\ {mxLast, mxFirst} \subseteq [MxNode -> MxSample]
  /\ \A n \in MxNode:
       /\ Len(mxHistory[n]) <= MxPoints /\ Len(mxLog[n]) <= MxEntries
       /\ \A i \in 1..Len(mxHistory[n]): mxHistory[n][i] \in (1..MaxPolls) \X (0..MaxCount)
       /\ \A i \in 1..Len(mxLog[n]): mxLog[n][i] \in LeaderChange
  /\ mxDisk \subseteq 0..MaxPolls

MetricsInit ==
  /\ mxCounter = [n \in MxNode |-> 0] /\ mxNew = {} /\ mxTime = 0 /\ mxQuery = "loading"
  /\ mxData = [n \in {} |-> NoSample] /\ mxHistory = [n \in MxNode |-> <<>>]
  /\ mxLog = [n \in MxNode |-> <<>>] /\ mxDisk = {}
  /\ mxLast = [n \in MxNode |-> NoSample] /\ mxFirst = mxLast

----------------------------------------------------------------------------
(***************************************************************************)
(* The effect on q.data.                                                   *)
(***************************************************************************)
Told(data) == {n \in DOMAIN data : data[n] # NoSample}

\* Mutant: what was seen last stays what was seen first.
LastKept(data) ==
  mxLast' = [n \in MxNode |-> IF n \in Told(data) /\ mxLast[n] = NoSample THEN data[n]
                              ELSE mxLast[n]]

\* lastLeaderSeen is the last counter, higher than before or not.
LastSeen(data) ==
  mxLast' = [n \in MxNode |-> IF n \in Told(data) THEN data[n] ELSE mxLast[n]]

KeepPoints(data) ==
  mxHistory' = [n \in MxNode |->
    IF n \in Told(data)
      THEN LET kept == Append(mxHistory[n], <<mxTime', data[n]>>)
           IN SubSeq(kept, Max({1, Len(kept) - MxPoints + 1}), Len(kept))
      ELSE mxHistory[n]]

KeepChanges(data) ==
  mxLog' = [n \in MxNode |->
    IF n \in Told(data) /\ mxLast[n] # NoSample /\ data[n] > mxLast[n]
      THEN LET log == <<[at |-> mxTime', from |-> mxLast[n], to |-> data[n]]>> \o mxLog[n]
           IN SubSeq(log, 1, Min({MxEntries, Len(log)}))
      ELSE mxLog[n]]

Polled(listed, up) ==
  LET data == [n \in listed |-> IF n \in up THEN mxCounter[n] ELSE NoSample] IN
  /\ mxTime < MaxPolls /\ mxTime' = mxTime + 1
  /\ mxQuery' = "data" /\ mxData' = data
  /\ KeepPoints(data) /\ KeepChanges(data) /\ LastSeen(data)
  /\ mxFirst' = [n \in MxNode |-> IF n \in Told(data) /\ mxFirst[n] = NoSample THEN data[n]
                                  ELSE mxFirst[n]]
  /\ UNCHANGED <<mxCounter, mxNew, mxDisk>>

\* A poll fails: what there is of data stays.
PollFails ==
  /\ mxQuery = "loading" /\ mxQuery' = "failed"
  /\ UNCHANGED <<mxCounter, mxNew, mxTime, mxData, mxHistory, mxLog, mxLast, mxFirst,
                 mxDisk>>

\* A change of leader, which the cluster service may record; a node starts anew,
\* once as a bound.
LeaderChanges ==
  /\ \A n \in MxNode: mxCounter[n] < MaxCount
  /\ mxCounter' = [n \in MxNode |-> mxCounter[n] + 1]
  /\ mxDisk' \in {mxDisk, mxDisk \cup {mxTime}}
  /\ UNCHANGED <<mxNew, mxTime, mxQuery, mxData, mxHistory, mxLog, mxLast, mxFirst>>
NodeStarts(n) ==
  /\ n \notin mxNew /\ mxCounter' = [mxCounter EXCEPT ![n] = 0]
  /\ mxNew' = mxNew \cup {n}
  /\ UNCHANGED <<mxTime, mxQuery, mxData, mxHistory, mxLog, mxLast, mxFirst, mxDisk>>

----------------------------------------------------------------------------
(***************************************************************************)
(* The page.                                                               *)
(***************************************************************************)
OkNodes == Told(mxData)
MetricsView ==
  IF mxQuery = "loading" THEN "skeleton"
  ELSE IF DOMAIN mxData = {} THEN "unreachable"
  ELSE IF OkNodes = {} THEN "no samples"
  ELSE "charts"

\* With a node selected, or "__all__": the nodes the figures may be of, ...
ActiveNodes(sel) ==
  IF sel = "__all__" THEN OkNodes ELSE {sel} \cap DOMAIN mxData

\* ... and histFor, of all the sums of the points of the same number.
Total(nodes, i) ==
  LET sum[k \in 0..Len(nodes)] ==
        IF k = 0 THEN 0 ELSE sum[k - 1] + mxHistory[nodes[k]][i][2]
  IN sum[Len(nodes)]

HistFor(sel) ==
  LET nodes == SetToSeq(OkNodes) IN
  IF sel # "__all__" THEN mxHistory[sel]
  ELSE [i \in 1..Min({Len(mxHistory[n]) : n \in OkNodes}) |->
          <<mxHistory[Last(nodes)][i][1], Total(nodes, i)>>]

\* toRate.
ToRate(points) ==
  [i \in 1..(Len(points) - 1) |->
     <<points[i + 1][1], Max({0, points[i + 1][2] - points[i][2]}) \div
                         (points[i + 1][1] - points[i][1])>>]

\* The value over a chart: that of the point hovered over (0 for none), if it is
\* still there, or of the last.
Headline(points, hover) ==
  IF hover \in 1..Len(points) THEN points[hover]
  ELSE IF points = <<>> THEN <<0, 0>> ELSE Last(points)

\* PersistentLeaderLog: what was recorded, which names members, and of what the
\* page saw the changes to a count that no other node's row near it has.
WithChange(rows, ev) ==
  IF \E r \in rows: r.src = "session" /\ r.to = ev.to /\ (r.at - ev.at) \in -SameTime..SameTime
    THEN rows
    ELSE rows \cup {[src |-> "session", at |-> ev.at, to |-> ev.to]}

Merged ==
  LET nodes == SetToSeq(OkNodes)
      seen == FlattenSeq([k \in 1..Len(nodes) |-> mxLog[nodes[k]]])
      rows[k \in 0..Len(seen)] ==
        IF k = 0 THEN {[src |-> "disk", at |-> t, to |-> 0] : t \in mxDisk}
        ELSE WithChange(rows[k - 1], seen[k])
  IN rows[Len(seen)]

\* It is sorted, and the first rows are shown.  Rows of one time stay in the order in
\* which they were put in: what was recorded first; those of several nodes in that of
\* the nodes, here of their counts.
Newer(q, r) ==
  \/ q.at > r.at
  \/ q.at = r.at /\ q.src = "disk" /\ r.src = "session"
  \/ q.at = r.at /\ q.src = r.src /\ q.to < r.to
FirstRows(rows) == {r \in rows : Cardinality({q \in rows : Newer(q, r)}) < MxRows}

MetricsNext ==
  \/ \E listed \in SUBSET MxNode, up \in SUBSET MxNode:
       up \subseteq listed /\ Polled(listed, up)
  \/ PollFails \/ LeaderChanges
  \/ \E n \in MxNode: NodeStarts(n)

----------------------------------------------------------------------------
\* The log of a node that was not started anew tells of every change since the
\* page first saw its counter, whatever polls failed or left the node out: the
\* entries follow one another from that count to the last one seen.
LogAccountsForTheCounter ==
  \A n \in MxNode \ mxNew: LET log == mxLog[n] IN
    /\ log # <<>> => log[1].to = mxLast[n]
    /\ \A i \in 1..(Len(log) - 1): log[i].from = log[i + 1].to /\ log[i].at > log[i + 1].at
    /\ Len(log) < MxEntries =>
         mxFirst[n] = IF log = <<>> THEN mxLast[n] ELSE Last(log).from

\* What the page saw of a node it shows is in the list, in its own row or in that of
\* another node near it, unless as many rows as are shown, none older, push it out.
ChangesAreListed ==
  LET merged == Merged
      shown == FirstRows(merged)
  IN \A n \in OkNodes: \A i \in 1..Len(mxLog[n]): \E r \in merged:
       /\ r.src = "session" /\ r.to = mxLog[n][i].to
       /\ (r.at - mxLog[n][i].at) \in -SameTime..SameTime
       /\ \/ r \in shown
          \/ Cardinality(shown) = MxRows /\ \A q \in shown: q.at >= r.at

\* Whatever is selected and hovered over, a chart draws points in the order of
\* their time, shows one of them in figures, and no rate that is a loss.
ChartsRunForward ==
  MetricsView = "charts" => \A sel \in MxNode \cup {"__all__"}:
    LET points == HistFor(sel) IN
    /\ \A i \in 1..(Len(points) - 1): points[i][1] < points[i + 1][1]
    /\ points # <<>> => \A i \in 0..MxPoints: Headline(points, i) \in ToSet(points)
    /\ \A p \in ToSet(ToRate(points)): p[2] >= 0
    /\ points # <<>> /\ sel \in OkNodes => Last(points) = <<mxTime, mxData[sel]>>

MetricsTell == LogAccountsForTheCounter /\ ChangesAreListed /\ ChartsRunForward
============================================================================
