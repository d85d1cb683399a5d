----------------------------- MODULE AuditTrail -----------------------------
(***************************************************************************)
(* The way of an audit event from the gateway to the audit page: the       *)
(* gateway's emitter (cmd/gateway/main.go), the audit service's handlers   *)
(* and hub (cmd/audit/main.go), and the page (web/src/pages/Audit.tsx).    *)
(* The service's store is an AuditLog, which AuditStore implements.        *)
(***************************************************************************)
EXTENDS AuditLog, SequencesExt

CONSTANTS
  Request,    \* the requests the gateway gets
  MaxServed,  \* bound: requests served
  ChanCap,    \* the emitter's channel: 1024 events
  Batch,      \* the emitter's buffer: 64 events
  PrimeLen,   \* what a new stream starts with: 50 events
  SubCap,     \* a subscriber's channel: 16 events
  MaxBreaks   \* bound: crashes and broken connections

\* prevs is the number of deleted values in the response's Bulk-Prev header.
ASSUME RequestAssumption ==
  \A r \in Request: r.path \in Seq(STRING) /\ r.prevs \in Nat

ASSUME CapacityAssumption ==
  /\ MaxServed \in Nat /\ MaxBreaks \in Nat
  /\ ChanCap \in Nat /\ PrimeLen \in Nat /\ SubCap \in Nat
  /\ Batch \in Nat \ {0}

VARIABLES
  served,     \* history variable: the requests the gateway has served
  ch, buf,    \* the emitter's channel, and the events it has taken from it
  flushing,   \* whether it is posting buf
  answering,  \* whether the service has recorded buf's first event
  late,       \* posts whose client has timed out and that may still arrive
  dropped,    \* events dropped at a full channel (the metric counts them)
  lost,       \* history variable: events lost to failed posts and crashes
  origin,     \* history variable: origin[n] became recorded[n]
  up,         \* whether the audit service runs
  unsent,     \* the events it has recorded and not yet broadcast
  stream,     \* the page's stream: "off", "subscribed" or "streaming"
  queue,      \* the stream's channel in the hub
  prime,      \* what is left of the stream's first events
  page,       \* the events the page has got
  since,      \* history variable: the first event after the subscription
  skipped,    \* history variable: events the hub dropped for this stream
  breaks

gatewayVars == <<served, ch, buf, flushing, answering, late, dropped, lost>>
streamVars == <<stream, queue, prime, page, since, skipped>>
vars == <<logVars, gatewayVars, origin, up, unsent, streamVars, breaks>>

\* The k-th event of the i-th request.
GatewayEvent == (1..MaxServed) \X (Nat \ {0})

TypeOK ==
  /\ LogTypeOK
  /\ served \in Seq(Request)
  /\ ch \in Seq(GatewayEvent) /\ Len(ch) <= ChanCap
  /\ buf \in Seq(GatewayEvent) /\ Len(buf) <= Batch
  /\ flushing \in BOOLEAN /\ answering \in BOOLEAN /\ up \in BOOLEAN
  /\ late \subseteq GatewayEvent /\ dropped \subseteq GatewayEvent
  /\ lost \subseteq GatewayEvent
  /\ origin \in Seq(GatewayEvent) /\ Len(origin) = Len(recorded)
  /\ unsent \subseteq DOMAIN recorded
  /\ stream \in {"off", "subscribed", "streaming"}
  /\ queue \in Seq(DOMAIN recorded) /\ Len(queue) <= SubCap
  /\ prime \in Seq(DOMAIN recorded)
  /\ page \subseteq DOMAIN recorded
  /\ since \in 1..Len(recorded) + 1
  /\ skipped \subseteq DOMAIN recorded
  /\ breaks \in 0..MaxBreaks

Init ==
  /\ LogInit
  /\ served = <<>> /\ ch = <<>> /\ buf = <<>>
  /\ flushing = FALSE /\ answering = FALSE
  /\ late = {} /\ dropped = {} /\ lost = {}
  /\ origin = <<>>
  /\ up = TRUE /\ unsent = {}
  /\ stream = "off" /\ queue = <<>> /\ prime = <<>> /\ page = {}
  /\ since = 1 /\ skipped = {}
  /\ breaks = 0

----------------------------------------------------------------------------
(***************************************************************************)
(* The gateway.                                                            *)
(***************************************************************************)
\* What apiRouter makes of a request's path, in place: the upstream's path.
\* The gateway's own routes keep theirs.
Routed(path) ==
  IF Len(path) < 2 \/ path[1] # "api" THEN path
  ELSE CASE path[2] = "audit" -> SubSeq(path, 3, Len(path))
         [] path[2] \in {"alerts", "clusters"} -> Tail(path)
         [] OTHER -> path

IsMutation(method, path) ==
  /\ method \notin {"GET", "OPTIONS", "HEAD"}
  /\ path # <<>> /\ path[1] = "api"
  /\ ~(Len(path) > 1 /\ path[2] = "audit")

\* The number of events of request r: the emitter looks at it after its handler.
Events(r) ==
  IF ~IsMutation(r.method, Routed(r.path)) THEN 0
  ELSE IF r.prevs > 0 THEN r.prevs ELSE 1

EventsOf(i) == {i} \X (1..Events(served[i]))

\* How many of n events go on the channel; the sends do not block.
Fits(n) == IF n < ChanCap - Len(ch) THEN n ELSE ChanCap - Len(ch)

\* A request is served, and its events are put on the channel as far as they fit.
Serve(r) ==
  LET i == Len(served) + 1
      n == Events(r)
  IN /\ Len(served) < MaxServed
     /\ served' = Append(served, r)
     /\ ch' = ch \o [k \in 1..Fits(n) |-> <<i, k>>]
     /\ dropped' = dropped \cup ({i} \X (Fits(n) + 1..n))
     /\ UNCHANGED <<logVars, buf, flushing, answering, late, lost, origin, up,
                    unsent, streamVars, breaks>>

\* The emitter's loop: an event from the channel; a full buffer is flushed.
Take ==
  /\ ~flushing
  /\ ch # <<>>
  /\ ch' = Tail(ch)
  /\ buf' = Append(buf, Head(ch))
  /\ flushing' = (Len(buf') >= Batch)
  /\ UNCHANGED <<logVars, served, answering, late, dropped, lost, origin, up,
                 unsent, streamVars, breaks>>

\* Mutant: the ticker flushes full buffers only.
FlushTickFull ==
  /\ ~flushing
  /\ Len(buf) >= Batch
  /\ flushing' = TRUE
  /\ UNCHANGED <<logVars, served, ch, buf, answering, late, dropped, lost, origin,
                 up, unsent, streamVars, breaks>>

\* The 500 ms ticker: a buffer that is not empty is flushed.
FlushTick ==
  /\ ~flushing
  /\ buf # <<>>
  /\ flushing' = TRUE
  /\ UNCHANGED <<logVars, served, ch, buf, answering, late, dropped, lost, origin,
                 up, unsent, streamVars, breaks>>

\* Mutant: a post that timed out is tried again.
PostDoneRetry ==
  /\ buf' = IF answering THEN Tail(buf) ELSE buf
  /\ flushing' = (buf' # <<>>)
  /\ answering' = FALSE

\* Mutant: a post that failed ends the flush, and the buffer is reset.
PostDoneStops ==
  /\ buf' = IF answering THEN Tail(buf) ELSE <<>>
  /\ flushing' = (buf' # <<>>)
  /\ answering' = FALSE

\* On to the next post of the flush.
PostDone ==
  /\ buf' = Tail(buf)
  /\ flushing' = (buf' # <<>>)
  /\ answering' = FALSE

\* The service answers the post: not before it has broadcast the event.
PostAnswered ==
  /\ flushing /\ answering
  /\ Len(recorded) \notin unsent
  /\ PostDone
  /\ UNCHANGED <<logVars, served, ch, late, dropped, lost, origin, up, unsent,
                 streamVars, breaks>>

\* The post fails, or takes longer than 3 s: there is no second try.  It may
\* still be on its way.
PostFails ==
  /\ flushing
  /\ PostDone
  /\ IF answering THEN UNCHANGED <<late, lost>>
     ELSE \/ lost' = lost \cup {Head(buf)} /\ UNCHANGED late
          \/ late' = late \cup {Head(buf)} /\ UNCHANGED lost
  /\ UNCHANGED <<logVars, served, ch, dropped, origin, up, unsent, streamVars,
                 breaks>>

Emitter == Take \/ FlushTick \/ PostAnswered \/ PostFails

\* The events the emitter still has to post.
Unposted == IF answering THEN Tail(buf) ELSE buf

\* The gateway dies, or shuts down without draining its emitter.  A post may be
\* on its way.
GatewayStops ==
  /\ breaks < MaxBreaks
  /\ breaks' = breaks + 1
  /\ ch' = <<>> /\ buf' = <<>>
  /\ flushing' = FALSE /\ answering' = FALSE
  /\ \/ lost' = lost \cup ToSet(ch) \cup ToSet(Unposted) /\ UNCHANGED late
     \/ /\ flushing /\ ~answering
        /\ late' = late \cup {Head(buf)}
        /\ lost' = lost \cup ToSet(ch) \cup ToSet(Tail(buf))
  /\ UNCHANGED <<logVars, served, dropped, origin, up, unsent, streamVars>>

----------------------------------------------------------------------------
(***************************************************************************)
(* The audit service.                                                      *)
(***************************************************************************)
\* POST /events: the event is recorded; it will be broadcast in a second step.
RecordEvent(g) ==
  /\ up
  /\ Record(now)
  /\ origin' = Append(origin, g)
  /\ unsent' = unsent \cup {Len(recorded')}

PostArrives ==
  /\ flushing /\ ~answering
  /\ RecordEvent(Head(buf))
  /\ answering' = TRUE
  /\ UNCHANGED <<served, ch, buf, flushing, late, dropped, lost, up, streamVars,
                 breaks>>

LateArrives(g) ==
  /\ g \in late
  /\ late' = late \ {g}
  /\ RecordEvent(g)
  /\ UNCHANGED <<served, ch, buf, flushing, answering, dropped, lost, up,
                 streamVars, breaks>>

LateIsLost(g) ==
  /\ g \in late
  /\ late' = late \ {g}
  /\ lost' = lost \cup {g}
  /\ UNCHANGED <<logVars, served, ch, buf, flushing, answering, dropped, origin,
                 up, unsent, streamVars, breaks>>

\* hub.broadcast: a subscriber whose channel is full does not get the event.
Broadcast(n) ==
  /\ up
  /\ n \in unsent
  /\ unsent' = unsent \ {n}
  /\ IF stream = "off" THEN UNCHANGED <<queue, skipped>>
     ELSE IF Len(queue) < SubCap
     THEN queue' = Append(queue, n) /\ UNCHANGED skipped
     ELSE skipped' = skipped \cup {n} /\ UNCHANGED queue
  /\ UNCHANGED <<logVars, gatewayVars, origin, up, stream, prime, page, since, breaks>>

Disconnected ==
  /\ stream' = "off"
  /\ queue' = <<>> /\ prime' = <<>> /\ skipped' = {}

ServiceStops ==
  /\ up
  /\ breaks < MaxBreaks
  /\ breaks' = breaks + 1
  /\ UNCHANGED recorded
  /\ Stop
  /\ up' = FALSE
  /\ unsent' = {}
  /\ Disconnected
  /\ UNCHANGED <<gatewayVars, origin, page, since>>

ServiceStarts ==
  /\ ~up
  /\ up' = TRUE
  /\ \E found \in SUBSET DOMAIN recorded: window' = Picked(recorded, found)
  /\ Reopen
  /\ UNCHANGED <<gatewayVars, origin, unsent, streamVars, breaks>>

----------------------------------------------------------------------------
(***************************************************************************)
(* The page and its stream.                                                *)
(***************************************************************************)
Numbers(s) == [i \in DOMAIN s |-> s[i].no]

\* The page's query: the newest events, all there are here.
Fetch ==
  /\ up
  /\ page' = page \cup ToSet(Numbers(window))
  /\ UNCHANGED <<logVars, gatewayVars, origin, up, unsent, stream, queue, prime,
                 since, skipped, breaks>>

\* GET /events/stream subscribes first...  (The page opens the stream once its
\* first query has ended, well or not, and again whenever it breaks.)
Subscribe ==
  /\ up
  /\ stream = "off"
  /\ stream' = "subscribed"
  /\ since' = Len(recorded) + 1
  /\ UNCHANGED <<logVars, gatewayVars, origin, up, unsent, queue, prime, page,
                 skipped, breaks>>

\* Mutant: what has come in meanwhile is thrown away.
PrimeAndClear ==
  /\ stream = "subscribed"
  /\ stream' = "streaming"
  /\ prime' = Numbers(Newest(window, PrimeLen))
  /\ queue' = <<>>
  /\ UNCHANGED <<logVars, gatewayVars, origin, up, unsent, page, since, skipped, breaks>>

\* ... and then takes the newest events from the store.
Prime ==
  /\ stream = "subscribed"
  /\ stream' = "streaming"
  /\ prime' = Numbers(Newest(window, PrimeLen))
  /\ UNCHANGED <<logVars, gatewayVars, origin, up, unsent, queue, page, since,
                 skipped, breaks>>

\* The stream sends what it took from the store, then what the hub gives it.
Push ==
  /\ stream = "streaming"
  /\ IF prime # <<>>
     THEN /\ page' = page \cup {Head(prime)}
          /\ prime' = Tail(prime)
          /\ UNCHANGED queue
     ELSE /\ queue # <<>>
          /\ page' = page \cup {Head(queue)}
          /\ queue' = Tail(queue)
          /\ UNCHANGED prime
  /\ UNCHANGED <<logVars, gatewayVars, origin, up, unsent, stream, since, skipped,
                 breaks>>

\* The connection breaks; the page subscribes again.
StreamBreaks ==
  /\ stream # "off"
  /\ breaks < MaxBreaks
  /\ breaks' = breaks + 1
  /\ Disconnected
  /\ UNCHANGED <<logVars, gatewayVars, origin, up, unsent, page, since>>

Next ==
  \/ \E r \in Request: Serve(r)
  \/ Emitter
  \/ GatewayStops
  \/ PostArrives
  \/ \E g \in late: LateArrives(g) \/ LateIsLost(g)
  \/ \E n \in unsent: Broadcast(n)
  \/ ServiceStops
  \/ ServiceStarts
  \/ Fetch
  \/ Subscribe
  \/ Prime
  \/ Push
  \/ StreamBreaks

\* Every post ends: the emitter's client has a timeout of 3 s.
Fairness == WF_vars(Emitter)

Spec == Init /\ [][Next]_vars /\ Fairness

----------------------------------------------------------------------------
\* An event is recorded at most once, whatever times out and arrives late.
RecordedOnce ==
  \A m, n \in DOMAIN origin: origin[m] = origin[n] => m = n

\* The same, of channels and buffers that keep within their capacities.
RecordedOnceInBounds == TypeOK /\ RecordedOnce

\* Every event the gateway has made is in exactly one place: waiting in the
\* emitter, on its way, recorded, counted as dropped, or lost with a post or a
\* process.
Accounted ==
  LET places == <<ToSet(ch), ToSet(Unposted), late, ToSet(origin), dropped, lost>>
  IN /\ UNION ToSet(places) = UNION {EventsOf(i) : i \in DOMAIN served}
     /\ \A p, q \in DOMAIN places: p # q => places[p] \cap places[q] = {}

\* A stream misses nothing recorded since it subscribed, nothing it had to catch
\* up with, except what the hub dropped because the page was slow.
StreamHasNoGap ==
  stream = "streaming" =>
    \A n \in since..Len(recorded):
      n \in page \cup ToSet(prime) \cup ToSet(queue) \cup unsent \cup skipped

\* No event stays in the emitter for ever.
Waiting(i) ==
  i \in DOMAIN served /\ EventsOf(i) \cap (ToSet(ch) \cup ToSet(buf)) # {}
EmitterDrains == \A i \in 1..MaxServed: Waiting(i) ~> ~Waiting(i)

============================================================================
