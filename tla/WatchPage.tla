----------------------------- MODULE WatchPage -----------------------------
(***************************************************************************)
(* What is built on the streams: the watch page (web/src/pages/WatchPage),  *)
(* which lists the events under a prefix until it is paused, and the       *)
(* AlertWatcher, which stays subscribed whatever page is shown.  The       *)
(* watch handler of the kv service watches from the present on.            *)
(***************************************************************************)
EXTENDS StreamClient, Sequences

CONSTANTS
  Prefix,     \* prefixes of the keys that are written
  All,        \* the prefix "", which they all have
  Watched,    \* the prefixes the user watches
  EventCap,   \* how many events the page keeps
  MaxRev      \* bound: writes

ASSUME WatchAssumption ==
  /\ EventCap \in Nat \ {0} /\ MaxRev \in Nat
  /\ All \in Watched /\ Watched \subseteq Prefix \cup {All}
  /\ "alerts" \notin Prefix \cup {All}

VARIABLES
  written,   \* the prefix of each write, in order: its place is its revision
  path,      \* what each stream watches
  feed,      \* the events a stream's service has sent and the page has not got
  prefix, paused, events,  \* the page's state
  closer,    \* the page's stream, or 0
  streamRef, \* the AlertWatcher's stream
  permission \* whether notifications are welcome; a refusal counts as an answer, too

pageVars == <<prefix, paused, events, closer>>
alertVars == <<streamRef, permission>>
vars == <<streamVars, serviceVars, written, path, feed, pageVars, alertVars>>

TypeOK ==
  /\ StreamTypeOK
  /\ written \in Seq(Prefix) /\ Len(written) <= MaxRev
  /\ path \in [Stream -> Watched \cup {"alerts"}]
  /\ \A s \in Stream: feed[s] \in Seq(1..MaxRev)
  /\ prefix \in Watched /\ paused \in BOOLEAN
  /\ events \in Seq(1..MaxRev) /\ Len(events) <= EventCap
  /\ closer \in 0..MaxStreams /\ streamRef \in 0..MaxStreams
  /\ permission \in {"default", "granted"}

Init ==
  /\ StreamInit
  /\ written = <<>>
  /\ path = [s \in Stream |-> "alerts"] /\ feed = [s \in Stream |-> <<>>]
  /\ prefix = All /\ paused = FALSE /\ events = <<>>
  /\ closer = 0 /\ streamRef = 0 /\ permission = "default"

----------------------------------------------------------------------------
\* Mutant: the effect has no cleanup.
SubscribeAgain(old, p) ==
  /\ nextID < MaxStreams
  /\ Reopen({}, TRUE)
  /\ path' = [path EXCEPT ![nextID + 1] = p]
  /\ feed' = [feed EXCEPT ![nextID + 1] = <<>>]

\* An effect runs again: what it opened before is closed, whatever was under
\* way in it is lost, and a stream for p is opened.
Subscribe(old, p) ==
  /\ nextID < MaxStreams
  /\ Reopen({old} \ {0}, TRUE)
  /\ path' = [s \in Stream |-> IF s = nextID + 1 THEN p
                               ELSE IF s = old THEN "alerts" ELSE path[s]]
  /\ feed' = [s \in Stream |-> IF s \in {old, nextID + 1} THEN <<>> ELSE feed[s]]

\* The page is shown, or another prefix is watched.
Watch(p) ==
  /\ closer = 0 \/ p # prefix
  /\ prefix' = p
  /\ IF paused
       THEN UNCHANGED <<streamVars, path, feed, closer>>
       ELSE Subscribe(closer, p) /\ closer' = nextID + 1
  /\ UNCHANGED <<serviceVars, written, paused, events, alertVars>>

Pause ==
  /\ ~paused /\ closer # 0
  /\ paused' = TRUE /\ closer' = 0
  /\ Reopen({closer}, FALSE)
  /\ feed' = [feed EXCEPT ![closer] = <<>>]
  /\ path' = [path EXCEPT ![closer] = "alerts"]
  /\ UNCHANGED <<serviceVars, written, prefix, events, alertVars>>

Resume ==
  /\ paused
  /\ paused' = FALSE /\ closer' = nextID + 1
  /\ Subscribe(0, prefix)
  /\ UNCHANGED <<serviceVars, written, prefix, events, alertVars>>

Clear ==
  /\ events # <<>> /\ events' = <<>>
  /\ UNCHANGED <<streamVars, serviceVars, written, path, feed, prefix, paused,
                 closer, alertVars>>

\* The AlertWatcher is mounted, or the user answers; then it subscribes again.
WatchAlerts(answer) ==
  /\ permission = "default"
  /\ (streamRef = 0) <=> (answer = "default")
  /\ permission' = answer
  /\ Subscribe(streamRef, "alerts") /\ streamRef' = nextID + 1
  /\ UNCHANGED <<serviceVars, written, pageVars>>

----------------------------------------------------------------------------
\* A stream's next message reaches the page, which keeps the newest events.
Deliver(s) ==
  /\ feed[s] # <<>>
  /\ events' = SubSeq(<<Head(feed[s])>> \o events, 1,
                      IF Len(events) < EventCap THEN Len(events) + 1 ELSE EventCap)
  /\ feed' = [feed EXCEPT ![s] = Tail(@)]
  /\ UNCHANGED <<streamVars, serviceVars, written, path, prefix, paused,
                 closer, alertVars>>

\* Someone writes a key under p; the services tell the watches that are open.
Write(p) ==
  /\ Len(written) < MaxRev
  /\ written' = Append(written, p)
  /\ feed' = [s \in Stream |->
       IF up /\ IsOpen(s) /\ path[s] \in {p, All}
       THEN Append(feed[s], Len(written) + 1) ELSE feed[s]]
  /\ UNCHANGED <<streamVars, serviceVars, path, pageVars, alertVars>>

\* A stream goes on; a connection that ends takes what is on its way with it.
StreamStep(s) ==
  /\ Callback(s)
  /\ feed' = IF IsOpen(s) THEN [feed EXCEPT ![s] = <<>>] ELSE feed
  /\ UNCHANGED <<serviceVars, written, path, pageVars, alertVars>>

Outage == Goes /\ UNCHANGED <<streamVars, written, path, feed, pageVars, alertVars>>
Recovery == Comes /\ UNCHANGED <<streamVars, written, path, feed, pageVars, alertVars>>

Next ==
  \/ \E p \in Watched: Watch(p)
  \/ Pause \/ Resume \/ Clear
  \/ \E answer \in {"default", "granted"}: WatchAlerts(answer)
  \/ \E s \in Stream: StreamStep(s) \/ Deliver(s)
  \/ \E p \in Prefix: Write(p)
  \/ Outage \/ Recovery

\* Timers fire, browsers tell how a connection fares, services come back.
Spec ==
  /\ Init /\ [][Next]_vars
  /\ \A s \in Stream: WF_vars(StreamStep(s)) /\ WF_vars(Deliver(s))
  /\ WF_vars(Recovery)

----------------------------------------------------------------------------
\* The page and the AlertWatcher each have one stream at a time and close all
\* others, however often they subscribe again.
NoStreamLeaks == Live = {closer, streamRef} \ {0}

\* The list shows every event once, the newest first: no reconnect, no fallback
\* and no other subscription brings an event again or out of order.
NewestFirst == \A i, j \in 1..Len(events): i < j => events[i] > events[j]

\* The streams, what is published of them and what the page shows, at any time.
StreamsInOrder == TypeOK /\ OneWayOn /\ StatusTrue /\ NoStreamLeaks /\ NewestFirst

\* What the list gains is under the prefix the page shows, and not while paused.
OnlyWatched ==
  [][Len(events') > Len(events) =>
       ~paused /\ (prefix = All \/ written[events'[1]] = prefix)]_vars

\* A stream that is wanted is open again at last after any outage: a WebSocket
\* if the proxies let it through, or else an EventSource, but that only if the
\* first connection has not been lost.
Wanted == closer # 0
Recovers ==
  Wanted ~> (~Wanted \/ IsOpen(closer) \/ (~upgrades /\ outages > 0))

============================================================================
