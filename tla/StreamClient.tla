---------------------------- MODULE StreamClient ----------------------------
(***************************************************************************)
(* openStream of the web client (web/src/lib/stream.ts): a stream tries a  *)
(* WebSocket first, falls back to an EventSource, reconnects with a        *)
(* backoff, and publishes how it fares to the status bar.  The browser's   *)
(* sockets are modelled by the callbacks they make.                        *)
(***************************************************************************)
EXTENDS Naturals

CONSTANTS
  MaxStreams,  \* bound: streams opened
  MaxBackoff,  \* how often the backoff doubles before it reaches its cap
  MaxOutages   \* bound: outages of the service

ASSUME StreamAssumption ==
  MaxStreams \in Nat /\ MaxBackoff \in Nat /\ MaxOutages \in Nat

Stream == 1..MaxStreams

VARIABLES
  nextID,      \* the last stream opened
  closed,      \* streams the caller has closed
  ws, es,      \* the state of each stream's WebSocket and EventSource
  kind,        \* the transport a stream remembers
  backoff,     \* doublings of the delay before the next attempt
  timer,       \* whether reconnectTimer is set
  pinging,     \* whether pingTimer is set
  liveStreams, \* what is published of each stream
  up, outages, \* the service
  upgrades     \* whether the proxies in between let a WebSocket through

streamVars ==
  <<nextID, closed, ws, es, kind, backoff, timer, pinging, liveStreams>>
serviceVars == <<up, outages, upgrades>>

NoEntry == [transport |-> "closed", waiting |-> FALSE]
Opened == 1..nextID
Live == Opened \ closed
IsOpen(s) == ws[s] = "open" \/ es[s] = "open"

StreamTypeOK ==
  /\ nextID \in 0..MaxStreams /\ closed \subseteq Opened
  /\ ws \in [Stream -> {"none", "connecting", "open"}]
  /\ es \in [Stream -> {"none", "connecting", "open"}]
  /\ kind \in [Stream -> {"connecting", "ws", "sse"}]
  /\ backoff \in [Stream -> 0..MaxBackoff]
  /\ timer \in [Stream -> BOOLEAN] /\ pinging \in [Stream -> BOOLEAN]
  /\ liveStreams \in [Stream ->
       [transport: {"connecting", "ws", "sse", "closed"}, waiting: BOOLEAN]]
  /\ up \in BOOLEAN /\ outages \in 0..MaxOutages /\ upgrades \in BOOLEAN

StreamInit ==
  /\ nextID = 0 /\ closed = {}
  /\ ws = [s \in Stream |-> "none"] /\ es = [s \in Stream |-> "none"]
  /\ kind = [s \in Stream |-> "connecting"]
  /\ backoff = [s \in Stream |-> 0]
  /\ timer = [s \in Stream |-> FALSE] /\ pinging = [s \in Stream |-> FALSE]
  /\ liveStreams = [s \in Stream |-> NoEntry]
  /\ up = TRUE /\ outages = 0 /\ upgrades \in BOOLEAN

Publish(s, k, waiting) ==
  liveStreams' = [liveStreams EXCEPT ![s] = [transport |-> k, waiting |-> waiting]]

----------------------------------------------------------------------------
\* close(s), for the streams in S, and openStream, if more: both run to the end
\* without the browser calling back in between.  The WebSocket's constructor
\* throws if the bearer token cannot be a subprotocol.  What a closed stream
\* remembers is out of reach.
Reopen(S, more) ==
  LET n == nextID + 1
      Gone == S \ closed
  IN /\ closed' = closed \cup S
     /\ nextID' = IF more THEN n ELSE nextID
     /\ \E throws \in BOOLEAN:
          /\ ws' = [s \in Stream |-> IF s \in Gone THEN "none"
                                     ELSE IF more /\ s = n /\ ~throws THEN "connecting"
                                     ELSE ws[s]]
          /\ es' = [s \in Stream |-> IF s \in Gone THEN "none"
                                     ELSE IF more /\ s = n /\ throws THEN "connecting"
                                     ELSE es[s]]
     /\ timer' = [s \in Stream |-> timer[s] /\ s \notin Gone]
     /\ pinging' = [s \in Stream |-> pinging[s] /\ s \notin Gone]
     /\ liveStreams' = [s \in Stream |->
          IF s \in Gone THEN NoEntry
          ELSE IF more /\ s = n THEN [transport |-> "connecting", waiting |-> FALSE]
          ELSE liveStreams[s]]
     /\ kind' = [s \in Stream |-> IF s \in Gone THEN "connecting" ELSE kind[s]]
     /\ backoff' = [s \in Stream |-> IF s \in Gone THEN 0 ELSE backoff[s]]

SocketOpens(s) ==
  /\ ws[s] = "connecting"
  /\ up /\ upgrades
  /\ ws' = [ws EXCEPT ![s] = "open"]
  /\ kind' = [kind EXCEPT ![s] = "ws"]
  /\ backoff' = [backoff EXCEPT ![s] = 0]
  /\ pinging' = [pinging EXCEPT ![s] = TRUE]
  /\ Publish(s, "ws", FALSE)
  /\ UNCHANGED <<nextID, closed, es, timer>>

\* scheduleReconnect: the transport that is remembered stays.
ScheduleReconnect(s) ==
  /\ timer' = [timer EXCEPT ![s] = TRUE]
  /\ IF timer[s] THEN UNCHANGED liveStreams ELSE Publish(s, "connecting", TRUE)

\* Mutant: a socket that has been lost is not tried again, as if it had closed
\* with code 1000.
SocketGivesUp(s) ==
  /\ ws[s] # "none" /\ ~(up /\ upgrades)
  /\ ws' = [ws EXCEPT ![s] = "none"]
  /\ pinging' = [pinging EXCEPT ![s] = FALSE]
  /\ es' = IF kind[s] = "connecting" THEN [es EXCEPT ![s] = "connecting"] ELSE es
  /\ UNCHANGED <<nextID, closed, kind, backoff, timer, liveStreams>>

\* ws.onclose, with a code other than 1000, which no service sends.
SocketCloses(s) ==
  /\ ws[s] # "none" /\ ~(up /\ upgrades)
  /\ ws' = [ws EXCEPT ![s] = "none"]
  /\ pinging' = [pinging EXCEPT ![s] = FALSE]
  /\ IF kind[s] = "connecting"
       THEN /\ es' = [es EXCEPT ![s] = "connecting"]
            /\ UNCHANGED <<timer, liveStreams>>
       ELSE /\ ScheduleReconnect(s)
            /\ UNCHANGED es
  /\ UNCHANGED <<nextID, closed, kind, backoff>>

\* Mutant: the timer fires once and is not forgotten.
TimerStays(s) ==
  /\ timer[s]
  /\ backoff' = [backoff EXCEPT ![s] = IF @ < MaxBackoff THEN @ + 1 ELSE @]
  /\ \/ ws' = [ws EXCEPT ![s] = "connecting"] /\ UNCHANGED es
     \/ es' = [es EXCEPT ![s] = "connecting"] /\ UNCHANGED ws
  /\ UNCHANGED <<nextID, closed, kind, timer, pinging, liveStreams>>

\* The reconnect timer fires: connect() again, a WebSocket first.
TimerFires(s) ==
  /\ timer[s]
  /\ timer' = [timer EXCEPT ![s] = FALSE]
  /\ backoff' = [backoff EXCEPT ![s] = IF @ < MaxBackoff THEN @ + 1 ELSE @]
  /\ \/ ws' = [ws EXCEPT ![s] = "connecting"] /\ UNCHANGED es
     \/ es' = [es EXCEPT ![s] = "connecting"] /\ UNCHANGED ws
  /\ UNCHANGED <<nextID, closed, kind, pinging, liveStreams>>

SourceOpens(s) ==
  /\ es[s] = "connecting"
  /\ up
  /\ es' = [es EXCEPT ![s] = "open"]
  /\ kind' = [kind EXCEPT ![s] = "sse"]
  /\ backoff' = [backoff EXCEPT ![s] = 0]
  /\ Publish(s, "sse", FALSE)
  /\ UNCHANGED <<nextID, closed, ws, timer, pinging>>

\* es.onerror: the EventSource reconnects by itself, and nothing is done about it...
SourceDrops(s) ==
  /\ es[s] = "open" /\ ~up
  /\ es' = [es EXCEPT ![s] = "connecting"]
  /\ UNCHANGED <<nextID, closed, ws, kind, backoff, timer, pinging, liveStreams>>

\* ... or the gateway answers with an error, which closes it for good.
SourceFails(s) ==
  /\ es[s] = "connecting" /\ ~up
  /\ es' = [es EXCEPT ![s] = "none"]
  /\ ScheduleReconnect(s)
  /\ UNCHANGED <<nextID, closed, ws, kind, backoff, pinging>>

Goes ==
  /\ up /\ outages < MaxOutages
  /\ up' = FALSE /\ outages' = outages + 1 /\ UNCHANGED upgrades
Comes == ~up /\ up' = TRUE /\ UNCHANGED <<outages, upgrades>>

\* What the browser makes of one stream.
Callback(s) ==
  \/ SocketOpens(s) \/ SocketCloses(s) \/ TimerFires(s)
  \/ SourceOpens(s) \/ SourceDrops(s) \/ SourceFails(s)

----------------------------------------------------------------------------
\* What StreamStatus makes of the published streams.
Pill ==
  LET As(k) == {s \in Stream : liveStreams[s].transport = k}
      Waiting == {s \in As("connecting") : liveStreams[s].waiting}
  IN IF As("closed") = Stream THEN "hidden"
     ELSE IF Waiting # {} THEN "reconnect"
     ELSE IF As("connecting") # {} THEN "connecting"
     ELSE IF As("ws") = {} THEN "SSE" ELSE "WS"

\* A stream that is not closed has exactly one thing that will go on with it (a
\* socket, an event source or a timer) and sends pings while its socket is
\* open; one that is closed has none of them.
OneWayOn ==
  \A s \in Stream:
    LET ways == <<ws[s] # "none", es[s] # "none", timer[s]>> IN
      IF s \in Live
        THEN /\ \E i \in 1..3: \A j \in 1..3: ways[j] <=> j = i
             /\ pinging[s] <=> ws[s] = "open"
        ELSE /\ \A i \in 1..3: ~ways[i]
             /\ ~pinging[s]

\* The status bar is hidden only if there is no stream; it says that all is well
\* only if every stream's WebSocket is open, or an EventSource stands in for it;
\* and it counts down only if some stream is not open.
StatusTrue ==
  /\ Pill = "hidden" <=> Live = {}
  /\ Pill = "WS" => \A s \in Live: ws[s] = "open" \/ es[s] # "none"
  /\ Pill = "reconnect" => \E s \in Live: ~IsOpen(s)
============================================================================
