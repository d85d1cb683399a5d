-------------------------- MODULE AuditTrailProofs --------------------------
(***************************************************************************)
(* The audit trail, for any requests, capacities and bounds: no event is   *)
(* recorded twice, every event can be accounted for, and a stream has no   *)
(* gap but what the hub skipped.  The invariant says of the emitter when   *)
(* its buffer may be full and when a post has been recorded; of the events *)
(* that each is in one place only, and there once; of the log that its     *)
(* numbers are positions; and of a stream that what it misses is in one of *)
(* the places it will still be sent from, from the subscription on.        *)
(***************************************************************************)
EXTENDS AuditTrail, SequenceTheorems, FiniteSetTheorems, TLAPS

----------------------------------------------------------------------------
(***************************************************************************)
(* Sequences and the sets of their elements.                               *)
(***************************************************************************)
\* Taking the first element...
LEMMA HeadTailSet ==
  ASSUME NEW S, NEW s \in Seq(S), s # <<>>
  PROVE  /\ Head(s) \in S /\ Tail(s) \in Seq(S) /\ Len(Tail(s)) = Len(s) - 1
         /\ ToSet(s) = {Head(s)} \cup ToSet(Tail(s))
         /\ IsInjective(s) => IsInjective(Tail(s)) /\ Head(s) \notin ToSet(Tail(s))
<1>1. /\ Head(s) \in S /\ Tail(s) \in Seq(S) /\ Len(Tail(s)) = Len(s) - 1
      /\ \A i \in 1..Len(Tail(s)): Tail(s)[i] = s[i + 1]
      /\ Len(s) \in Nat \ {0} /\ DOMAIN s = 1..Len(s) /\ DOMAIN Tail(s) = 1..Len(s) - 1
      /\ Head(s) = s[1]
  BY HeadTailProperties, EmptySeq, LenProperties
<1>2. ToSet(s) = {s[1]} \cup ToSet(Tail(s))
  <2>1. ASSUME NEW x \in ToSet(s) PROVE x = s[1] \/ x \in ToSet(Tail(s))
    <3>1. PICK i \in 1..Len(s): x = s[i]
      BY <1>1, <2>1 DEF ToSet
    <3>2. i # 1 => i - 1 \in 1..Len(Tail(s)) /\ Tail(s)[i - 1] = s[i]
      BY <1>1
    <3> QED
      BY <1>1, <3>1, <3>2 DEF ToSet
  <2>2. ASSUME NEW x \in ToSet(Tail(s)) PROVE x \in ToSet(s)
    <3>1. PICK i \in 1..Len(Tail(s)): x = Tail(s)[i]
      BY <1>1, <2>2 DEF ToSet
    <3> QED
      BY <1>1, <3>1, i + 1 \in 1..Len(s) DEF ToSet
  <2>3. s[1] \in ToSet(s)
    BY <1>1 DEF ToSet
  <2> QED
    BY <2>1, <2>2, <2>3
<1>3. ASSUME IsInjective(s) PROVE IsInjective(Tail(s)) /\ s[1] \notin ToSet(Tail(s))
  <2>1. \A i, j \in 1..Len(s): s[i] = s[j] => i = j
    BY <1>1, <1>3 DEF IsInjective
  <2>2. \A i \in 1..Len(Tail(s)): i + 1 \in 1..Len(s) /\ i + 1 # 1 /\ Tail(s)[i] = s[i + 1]
    BY <1>1
  <2>3. IsInjective(Tail(s))
    BY <1>1, <2>1, <2>2 DEF IsInjective
  <2>4. s[1] \notin ToSet(Tail(s))
    BY <1>1, <2>1, <2>2 DEF ToSet
  <2> QED
    BY <2>3, <2>4
<1> QED
  BY <1>1, <1>2, <1>3

\* ... putting two sequences together...
LEMMA ConcatSet ==
  ASSUME NEW S, NEW s \in Seq(S), NEW t \in Seq(S)
  PROVE  /\ s \o t \in Seq(S) /\ Len(s \o t) = Len(s) + Len(t)
         /\ ToSet(s \o t) = ToSet(s) \cup ToSet(t)
         /\ IsInjective(s) /\ IsInjective(t) /\ ToSet(s) \cap ToSet(t) = {}
              => IsInjective(s \o t)
<1>1. /\ s \o t \in Seq(S) /\ Len(s \o t) = Len(s) + Len(t)
      /\ \A i \in 1..Len(s) + Len(t): (s \o t)[i] = IF i <= Len(s) THEN s[i] ELSE t[i - Len(s)]
      /\ Len(s) \in Nat /\ Len(t) \in Nat /\ DOMAIN s = 1..Len(s) /\ DOMAIN t = 1..Len(t)
      /\ DOMAIN (s \o t) = 1..Len(s) + Len(t)
  BY ConcatProperties, LenProperties
<1> DEFINE u == s \o t
<1>2. \A i \in 1..Len(s): i \in DOMAIN u /\ u[i] = s[i]
  BY <1>1
<1>3. \A i \in 1..Len(t): i + Len(s) \in DOMAIN u /\ u[i + Len(s)] = t[i]
  BY <1>1
<1>4. \A i \in DOMAIN u: \/ i \in 1..Len(s) /\ u[i] = s[i]
                         \/ i - Len(s) \in 1..Len(t) /\ u[i] = t[i - Len(s)]
  BY <1>1
<1>5. DOMAIN u \subseteq Int
  BY <1>1
<1> HIDE DEF u
<1>6. ToSet(u) = ToSet(s) \cup ToSet(t)
  BY <1>1, <1>2, <1>3, <1>4 DEF ToSet
<1>7. ASSUME IsInjective(s), IsInjective(t), ToSet(s) \cap ToSet(t) = {}
      PROVE  IsInjective(u)
  <2> SUFFICES ASSUME NEW i \in DOMAIN u, NEW j \in DOMAIN u, u[i] = u[j] PROVE i = j
    BY DEF IsInjective
  <2>1. CASE i \in 1..Len(s) /\ j \in 1..Len(s) /\ u[i] = s[i] /\ u[j] = s[j]
    BY <1>1, <1>7, <2>1 DEF IsInjective
  <2>2. CASE /\ i - Len(s) \in 1..Len(t) /\ j - Len(s) \in 1..Len(t)
             /\ u[i] = t[i - Len(s)] /\ u[j] = t[j - Len(s)]
    <3>1. i - Len(s) = j - Len(s)
      BY <1>1, <1>7, <2>2 DEF IsInjective
    <3> QED
      BY <1>1, <1>5, <3>1
  <2>3. CASE i \in 1..Len(s) /\ j - Len(s) \in 1..Len(t) /\ u[i] = s[i] /\ u[j] = t[j - Len(s)]
    BY <1>1, <1>7, <2>3 DEF ToSet
  <2>4. CASE j \in 1..Len(s) /\ i - Len(s) \in 1..Len(t) /\ u[j] = s[j] /\ u[i] = t[i - Len(s)]
    BY <1>1, <1>7, <2>4 DEF ToSet
  <2> QED
    BY <1>4, <2>1, <2>2, <2>3, <2>4
<1> QED
  BY <1>1, <1>6, <1>7 DEF u

\* ... and adding a last element.
LEMMA AppendSet ==
  ASSUME NEW S, NEW s \in Seq(S), NEW e \in S
  PROVE  /\ Append(s, e) \in Seq(S) /\ Len(Append(s, e)) = Len(s) + 1
         /\ DOMAIN Append(s, e) = 1..Len(s) + 1
         /\ Append(s, e)[Len(s) + 1] = e /\ \A i \in 1..Len(s): Append(s, e)[i] = s[i]
         /\ ToSet(Append(s, e)) = ToSet(s) \cup {e}
         /\ IsInjective(s) /\ e \notin ToSet(s) => IsInjective(Append(s, e))
<1>1. /\ Append(s, e) \in Seq(S) /\ Len(Append(s, e)) = Len(s) + 1
      /\ Append(s, e)[Len(s) + 1] = e /\ \A i \in 1..Len(s): Append(s, e)[i] = s[i]
      /\ Len(s) \in Nat /\ DOMAIN s = 1..Len(s) /\ DOMAIN Append(s, e) = 1..Len(s) + 1
  BY AppendProperties, LenProperties
<1> DEFINE u == Append(s, e)
<1>2. \A i \in DOMAIN u: i \in 1..Len(s) \/ i = Len(s) + 1
  BY <1>1
<1>3. 1..Len(s) \subseteq DOMAIN u /\ Len(s) + 1 \in DOMAIN u
  BY <1>1
<1>4. ToSet(u) = ToSet(s) \cup {e}
  BY <1>1, <1>2, <1>3 DEF ToSet
<1>5. ASSUME IsInjective(s), e \notin ToSet(s) PROVE IsInjective(u)
  BY <1>1, <1>2, <1>5 DEF IsInjective, ToSet
<1> QED
  BY <1>1, <1>4, <1>5

----------------------------------------------------------------------------
(***************************************************************************)
(* The way of the events.  The six places partition the events that were   *)
(* made; no place holds one of them twice.                                 *)
(***************************************************************************)
Made == UNION {EventsOf(i) : i \in DOMAIN served}

Partition(All, C, U, L, O, D, X) ==
  /\ All = C \cup U \cup L \cup O \cup D \cup X
  /\ C \cap (U \cup L \cup O \cup D \cup X) = {}
  /\ U \cap (L \cup O \cup D \cup X) = {}
  /\ L \cap (O \cup D \cup X) = {}
  /\ O \cap (D \cup X) = {}
  /\ D \cap X = {}

EachInOnePlace ==
  Partition(Made, ToSet(ch), ToSet(Unposted), late, ToSet(origin), dropped, lost)

NoneTwice == IsInjective(ch) /\ IsInjective(Unposted) /\ IsInjective(origin)

LEMMA AccountedIs == Accounted <=> EachInOnePlace
<1> DEFINE places == <<ToSet(ch), ToSet(Unposted), late, ToSet(origin), dropped, lost>>
<1>1. /\ DOMAIN places = 1..6
      /\ places[1] = ToSet(ch) /\ places[2] = ToSet(Unposted) /\ places[3] = late
      /\ places[4] = ToSet(origin) /\ places[5] = dropped /\ places[6] = lost
  OBVIOUS
<1>2. Accounted <=> /\ UNION ToSet(places) = Made
                    /\ \A p, q \in DOMAIN places: p # q => places[p] \cap places[q] = {}
  BY DEF Accounted, Made
<1> HIDE DEF places
<1>3. \A x: x \in UNION ToSet(places) <=>
        x \in ToSet(ch) \cup ToSet(Unposted) \cup late \cup ToSet(origin) \cup dropped \cup lost
  <2>1. 1..6 = {1, 2, 3, 4, 5, 6}
    OBVIOUS
  <2>2. ToSet(places) = {places[1], places[2], places[3], places[4], places[5], places[6]}
    BY <1>1, <2>1 DEF ToSet
  <2> QED
    BY <1>1, <2>2
<1>4. (\A p, q \in DOMAIN places: p # q => places[p] \cap places[q] = {}) <=>
        /\ ToSet(ch) \cap (ToSet(Unposted) \cup late \cup ToSet(origin) \cup dropped \cup lost) = {}
        /\ ToSet(Unposted) \cap (late \cup ToSet(origin) \cup dropped \cup lost) = {}
        /\ late \cap (ToSet(origin) \cup dropped \cup lost) = {}
        /\ ToSet(origin) \cap (dropped \cup lost) = {}
        /\ dropped \cap lost = {}
  <2>1. DOMAIN places = {1, 2, 3, 4, 5, 6}
    BY <1>1
  <2> DEFINE apart(p, q) == places[p] \cap places[q] = {}
  <2>2. (\A p, q \in DOMAIN places: p # q => apart(p, q)) <=>
          /\ apart(1, 2) /\ apart(1, 3) /\ apart(1, 4) /\ apart(1, 5) /\ apart(1, 6)
          /\ apart(2, 3) /\ apart(2, 4) /\ apart(2, 5) /\ apart(2, 6)
          /\ apart(3, 4) /\ apart(3, 5) /\ apart(3, 6)
          /\ apart(4, 5) /\ apart(4, 6) /\ apart(5, 6)
    <3>1. \A p, q: apart(p, q) <=> apart(q, p)
      OBVIOUS
    <3> HIDE DEF apart
    <3> QED
      BY <2>1, <3>1
  <2> QED
    BY <1>1, <2>2
<1> QED
  BY <1>2, <1>3, <1>4 DEF EachInOnePlace, Partition

----------------------------------------------------------------------------
(***************************************************************************)
(* The inductive invariant.                                                *)
(***************************************************************************)
FlushOK ==
  /\ flushing => buf # <<>>
  /\ answering => flushing
  /\ ~flushing => Len(buf) < Batch

Known == /\ \A n \in DOMAIN recorded: recorded[n].no = n
         /\ \A i \in DOMAIN window: window[i].no \in DOMAIN recorded

StreamInv ==
  /\ stream # "streaming" => prime = <<>>
  /\ stream # "off" =>
       \A n \in since..Len(recorded):
         n \in page \cup ToSet(prime) \cup ToSet(queue) \cup unsent \cup skipped

TrailInv == TypeOK /\ FlushOK /\ Known /\ EachInOnePlace /\ NoneTwice /\ StreamInv

LEMMA TrailInvHolds == TrailInv => RecordedOnceInBounds /\ Accounted /\ StreamHasNoGap
BY AccountedIs
DEF TrailInv, RecordedOnceInBounds, RecordedOnce, NoneTwice, IsInjective, StreamInv, StreamHasNoGap

\* What steps of the gateway that record nothing leave alone.
LEMMA GatewayOnly ==
  ASSUME TrailInv, UNCHANGED <<logVars, origin, up, unsent, streamVars>>,
         served' \in Seq(Request), breaks' \in 0..MaxBreaks,
         ch' \in Seq(GatewayEvent), Len(ch') <= ChanCap,
         buf' \in Seq(GatewayEvent), Len(buf') <= Batch,
         flushing' \in BOOLEAN, answering' \in BOOLEAN,
         late' \subseteq GatewayEvent, dropped' \subseteq GatewayEvent,
         lost' \subseteq GatewayEvent,
         FlushOK', EachInOnePlace', IsInjective(ch'), IsInjective(Unposted')
  PROVE  TrailInv'
<1>1. TypeOK'
  BY DEF TrailInv, TypeOK, logVars, LogTypeOK, streamVars
<1>2. Known' /\ StreamInv' /\ NoneTwice'
  BY DEF TrailInv, Known, StreamInv, NoneTwice, logVars, streamVars
<1> QED
  BY <1>1, <1>2 DEF TrailInv

LEMMA InitOK == Init => TrailInv
<1> SUFFICES ASSUME Init PROVE TrailInv
  OBVIOUS
<1>1. TypeOK
  <2>1. /\ 0 \in 0..MaxBreaks /\ Len(<<>>) = 0 /\ 0 <= ChanCap /\ 0 <= Batch /\ 0 <= SubCap
        /\ \A S: <<>> \in Seq(S)
    BY CapacityAssumption
  <2>2. LogTypeOK
    BY <2>1 DEF Init, LogInit, LogTypeOK
  <2>3. /\ served \in Seq(Request) /\ ch \in Seq(GatewayEvent) /\ buf \in Seq(GatewayEvent)
        /\ origin \in Seq(GatewayEvent) /\ queue \in Seq(DOMAIN recorded)
        /\ prime \in Seq(DOMAIN recorded)
    BY <2>1 DEF Init
  <2>4. /\ Len(ch) <= ChanCap /\ Len(buf) <= Batch /\ Len(queue) <= SubCap
        /\ Len(origin) = Len(recorded) /\ since \in 1..Len(recorded) + 1 /\ breaks \in 0..MaxBreaks
    BY <2>1 DEF Init, LogInit
  <2> QED
    BY <2>2, <2>3, <2>4 DEF Init, TypeOK
<1>2. FlushOK /\ Known /\ StreamInv
  BY CapacityAssumption DEF Init, LogInit, FlushOK, Known, StreamInv
<1>3. EachInOnePlace
  BY DEF Init, EachInOnePlace, Partition, Made, Unposted, ToSet
<1>4. NoneTwice
  BY DEF Init, NoneTwice, Unposted, IsInjective
<1> QED
  BY <1>1, <1>2, <1>3, <1>4 DEF TrailInv

\* The gateway serves a request: its events are new, and each has its place.
LEMMA ServeOK == ASSUME TrailInv, NEW r \in Request, Serve(r) PROVE TrailInv'
<1>0. PICK i: i = Len(served) + 1
  OBVIOUS
<1> DEFINE n == Events(r)
           k == Fits(n)
           fit == [j \in 1..k |-> <<i, j>>]
<1>1. /\ served \in Seq(Request) /\ ch \in Seq(GatewayEvent) /\ Len(ch) \in Nat
      /\ Len(ch) <= ChanCap /\ ChanCap \in Nat /\ Len(served) \in Nat /\ Len(served) < MaxServed
      /\ MaxServed \in Nat
  BY CapacityAssumption, LenProperties DEF TrailInv, TypeOK, Serve
<1>2. n \in Nat
  BY RequestAssumption DEF Events
<1>3. k \in 0..n /\ Len(ch) + k <= ChanCap /\ i \in 1..MaxServed
  BY <1>0, <1>1, <1>2 DEF Fits
<1>4. /\ served' = Append(served, r) /\ ch' = ch \o fit
      /\ dropped' = dropped \cup ({i} \X (k + 1..n))
      /\ UNCHANGED <<logVars, buf, flushing, answering, late, lost, origin, up,
                     unsent, streamVars, breaks>>
  BY <1>0 DEF Serve
<1> HIDE DEF n, k
<1>5. /\ fit \in Seq(GatewayEvent) /\ Len(fit) = k /\ IsInjective(fit)
      /\ ToSet(fit) = {i} \X (1..k)
  <2>1. \A j \in 1..k: <<i, j>> \in GatewayEvent
    BY <1>2, <1>3 DEF GatewayEvent
  <2>2. fit \in Seq(GatewayEvent) /\ Len(fit) = k
    BY <1>2, <1>3, <2>1
  <2>3. IsInjective(fit)
    BY DEF IsInjective
  <2>4. ToSet(fit) = {i} \X (1..k)
    BY DEF ToSet
  <2> QED
    BY <2>2, <2>3, <2>4
<1> HIDE DEF fit
<1>6. Made' = Made \cup ({i} \X (1..n))
  <2>1. /\ DOMAIN served' = 1..i /\ DOMAIN served = 1..Len(served) /\ served' \in Seq(Request)
        /\ served'[i] = r /\ \A j \in DOMAIN served: served'[j] = served[j]
    BY <1>0, <1>1, <1>4, AppendSet, LenProperties
  <2>2. \A j \in DOMAIN served: EventsOf(j)' = EventsOf(j)
    BY <2>1 DEF EventsOf
  <2>3. EventsOf(i)' = {i} \X (1..n)
    BY <2>1 DEF EventsOf, n
  <2>4. DOMAIN served' = DOMAIN served \cup {i}
    BY <1>0, <1>1, <2>1
  <2> QED
    BY <2>2, <2>3, <2>4 DEF Made
<1>7. Made \cap ({i} \X (1..n)) = {}
  <2>1. i \notin DOMAIN served
    BY <1>0, <1>1, LenProperties
  <2> QED
    BY <2>1 DEF Made, EventsOf
<1>8. {i} \X (1..n) = ToSet(fit) \cup ({i} \X (k + 1..n))
      /\ ToSet(fit) \cap ({i} \X (k + 1..n)) = {}
  BY <1>2, <1>3, <1>5
<1>9. /\ ch' \in Seq(GatewayEvent) /\ Len(ch') <= ChanCap
      /\ ToSet(ch') = ToSet(ch) \cup ToSet(fit)
  BY <1>1, <1>2, <1>3, <1>4, <1>5, ConcatSet
<1>10. ToSet(ch) \subseteq Made
  BY DEF TrailInv, EachInOnePlace, Partition
<1>11. IsInjective(ch')
  BY <1>1, <1>4, <1>5, <1>7, <1>8, <1>10, ConcatSet DEF TrailInv, NoneTwice
<1>12. EachInOnePlace'
  <2>1. UNCHANGED <<Unposted, late, origin, lost>>
    BY <1>4 DEF Unposted
  <2> DEFINE new == {i} \X (1..n)
             rest == {i} \X (k + 1..n)
  <2>2. /\ Made' = Made \cup new /\ Made \cap new = {}
        /\ new = ToSet(fit) \cup rest /\ ToSet(fit) \cap rest = {}
        /\ dropped' = dropped \cup rest
    BY <1>4, <1>6, <1>7, <1>8
  <2> HIDE DEF new, rest
  <2> QED
    BY <1>9, <2>1, <2>2 DEF TrailInv, EachInOnePlace, Partition
<1>13. dropped' \subseteq GatewayEvent
  BY <1>2, <1>3, <1>4, SMTT(30) DEF TrailInv, TypeOK, GatewayEvent
<1>14. served' \in Seq(Request) /\ IsInjective(Unposted') /\ FlushOK'
  BY <1>1, <1>4, AppendSet DEF TrailInv, NoneTwice, Unposted, FlushOK
<1> QED
  BY <1>4, <1>9, <1>11, <1>12, <1>13, <1>14, GatewayOnly DEF TrailInv, TypeOK

\* The emitter takes an event from its channel.
LEMMA TakeOK == TrailInv /\ Take => TrailInv'
<1> SUFFICES ASSUME TrailInv, Take PROVE TrailInv'
  OBVIOUS
<1>1. /\ ch \in Seq(GatewayEvent) /\ ch # <<>> /\ buf \in Seq(GatewayEvent)
      /\ Len(ch) \in Nat /\ Len(buf) \in Nat /\ Len(ch) <= ChanCap /\ Len(buf) <= Batch
      /\ ChanCap \in Nat /\ Batch \in Nat /\ ~flushing /\ ~answering
  BY CapacityAssumption, LenProperties DEF TrailInv, TypeOK, FlushOK, Take
<1>2. /\ ch' = Tail(ch) /\ buf' = Append(buf, Head(ch)) /\ flushing' = (Len(buf') >= Batch)
      /\ UNCHANGED <<logVars, served, answering, late, dropped, lost, origin, up,
                     unsent, streamVars, breaks>>
  BY DEF Take
<1>3. Unposted = buf /\ Unposted' = buf'
  BY <1>1, <1>2 DEF Unposted
<1>4. /\ Head(ch) \in GatewayEvent /\ ch' \in Seq(GatewayEvent) /\ Len(ch') = Len(ch) - 1
      /\ ToSet(ch) = {Head(ch)} \cup ToSet(ch') /\ Head(ch) \notin ToSet(ch') /\ IsInjective(ch')
  BY <1>1, <1>2, HeadTailSet DEF TrailInv, NoneTwice
<1>5. Head(ch) \notin ToSet(buf)
  BY <1>3, <1>4 DEF TrailInv, EachInOnePlace, Partition
<1>6. /\ buf' \in Seq(GatewayEvent) /\ Len(buf') = Len(buf) + 1
      /\ ToSet(buf') = ToSet(buf) \cup {Head(ch)} /\ IsInjective(buf')
  BY <1>1, <1>2, <1>3, <1>4, <1>5, AppendSet DEF TrailInv, NoneTwice
<1>7. EachInOnePlace'
  <2>1. Made' = Made
    BY <1>2 DEF Made, EventsOf
  <2> QED
    BY <1>2, <1>3, <1>4, <1>6, <2>1 DEF TrailInv, EachInOnePlace, Partition
<1>8. Len(buf') <= Batch /\ FlushOK'
  <2>1. Len(buf) < Batch
    BY <1>1 DEF TrailInv, FlushOK
  <2>2. buf' # <<>>
    BY <1>1, <1>6, EmptySeq
  <2>3. Len(buf') <= Batch /\ (Len(buf') < Batch <=> ~(Len(buf') >= Batch))
    BY <1>1, <1>6, <2>1
  <2>4. flushing' <=> Len(buf') >= Batch
    BY <1>2
  <2> QED
    BY <1>1, <1>2, <2>2, <2>3, <2>4 DEF FlushOK
<1>9. Len(ch') <= ChanCap /\ served' \in Seq(Request) /\ breaks' \in 0..MaxBreaks
      /\ flushing' \in BOOLEAN /\ answering' \in BOOLEAN /\ late' \subseteq GatewayEvent
      /\ dropped' \subseteq GatewayEvent /\ lost' \subseteq GatewayEvent
  BY <1>1, <1>2, <1>4 DEF TrailInv, TypeOK
<1> QED
  BY <1>2, <1>3, <1>4, <1>6, <1>7, <1>8, <1>9, GatewayOnly

\* The ticker starts a flush.
LEMMA FlushTickOK == TrailInv /\ FlushTick => TrailInv'
<1> SUFFICES ASSUME TrailInv, FlushTick PROVE TrailInv'
  OBVIOUS
<1>1. /\ buf # <<>> /\ flushing' = TRUE
      /\ UNCHANGED <<logVars, served, ch, buf, answering, late, dropped, lost, origin,
                     up, unsent, streamVars, breaks>>
  BY DEF FlushTick
<1>2. UNCHANGED <<Unposted, Made>>
  BY <1>1 DEF Unposted, Made, EventsOf
<1>3. EachInOnePlace' /\ IsInjective(ch') /\ IsInjective(Unposted')
  BY <1>1, <1>2 DEF TrailInv, EachInOnePlace, NoneTwice
<1>4. FlushOK'
  BY <1>1 DEF TrailInv, FlushOK
<1> QED
  BY <1>1, <1>3, <1>4, GatewayOnly DEF TrailInv, TypeOK

\* The end of a post takes the first event from the buffer.
LEMMA PostDoneOK ==
  ASSUME TrailInv, flushing, PostDone
  PROVE  /\ buf' \in Seq(GatewayEvent) /\ Len(buf') <= Batch /\ FlushOK'
         /\ flushing' \in BOOLEAN /\ answering' \in BOOLEAN
         /\ Head(buf) \in GatewayEvent /\ Unposted' = buf' /\ IsInjective(buf')
         /\ answering => buf' = Unposted
         /\ ~answering => ToSet(Unposted) = {Head(buf)} \cup ToSet(buf')
                          /\ Head(buf) \notin ToSet(buf')
<1>1. /\ buf \in Seq(GatewayEvent) /\ buf # <<>> /\ Len(buf) \in Nat /\ Len(buf) <= Batch
      /\ Batch \in Nat \ {0}
  BY CapacityAssumption, LenProperties DEF TrailInv, TypeOK, FlushOK
<1>2. buf' = Tail(buf) /\ flushing' = (buf' # <<>>) /\ answering' = FALSE
  BY DEF PostDone
<1>3. /\ Head(buf) \in GatewayEvent /\ buf' \in Seq(GatewayEvent) /\ Len(buf') = Len(buf) - 1
      /\ ToSet(buf) = {Head(buf)} \cup ToSet(buf')
      /\ IsInjective(buf) => IsInjective(buf') /\ Head(buf) \notin ToSet(buf')
  BY <1>1, <1>2, HeadTailSet
<1>8. Len(buf') <= Batch /\ flushing' \in BOOLEAN /\ answering' \in BOOLEAN
  <2>1. Len(buf') <= Batch
    BY <1>1, <1>3
  <2> QED
    BY <1>2, <2>1
<1>4. FlushOK'
  <2>1. Len(<<>>) < Batch
    BY <1>1
  <2> QED
    BY <1>2, <2>1 DEF FlushOK
<1>5. Unposted' = buf'
  BY <1>2 DEF Unposted
<1>6. CASE answering
  BY <1>2, <1>3, <1>4, <1>5, <1>6, <1>8 DEF TrailInv, NoneTwice, Unposted
<1>7. CASE ~answering
  BY <1>2, <1>3, <1>4, <1>5, <1>7, <1>8 DEF TrailInv, NoneTwice, Unposted
<1> QED
  BY <1>6, <1>7 DEF TrailInv, TypeOK

LEMMA PostAnsweredOK == TrailInv /\ PostAnswered => TrailInv'
<1> SUFFICES ASSUME TrailInv, PostAnswered PROVE TrailInv'
  OBVIOUS
<1>1. /\ flushing /\ answering /\ PostDone
      /\ UNCHANGED <<logVars, served, ch, late, dropped, lost, origin, up, unsent,
                     streamVars, breaks>>
  BY DEF PostAnswered
<1>2. UNCHANGED <<Unposted, Made>>
  BY <1>1, PostDoneOK DEF Made, EventsOf
<1>3. EachInOnePlace' /\ IsInjective(ch') /\ IsInjective(Unposted')
  BY <1>1, <1>2 DEF TrailInv, EachInOnePlace, NoneTwice
<1> QED
  BY <1>1, <1>3, PostDoneOK, GatewayOnly DEF TrailInv, TypeOK

\* A failed post has put its event into the log, is under way, or is lost.
LEMMA PostFailsOK == TrailInv /\ PostFails => TrailInv'
<1> SUFFICES ASSUME TrailInv, PostFails PROVE TrailInv'
  OBVIOUS
<1>1. /\ flushing /\ PostDone
      /\ UNCHANGED <<logVars, served, ch, dropped, origin, up, unsent, streamVars, breaks>>
  BY DEF PostFails
<1>2. Made' = Made
  BY <1>1 DEF Made, EventsOf
<1>3. /\ late' \subseteq GatewayEvent /\ lost' \subseteq GatewayEvent
      /\ EachInOnePlace'
  <2>1. CASE answering
    <3>1. UNCHANGED <<Unposted, late, lost>>
      BY <1>1, <2>1, PostDoneOK DEF PostFails
    <3> QED
      BY <1>1, <1>2, <3>1 DEF TrailInv, EachInOnePlace, TypeOK
  <2>2. CASE ~answering
    <3>1. \/ lost' = lost \cup {Head(buf)} /\ late' = late
          \/ late' = late \cup {Head(buf)} /\ lost' = lost
      BY <2>2 DEF PostFails
    <3>2. /\ ToSet(Unposted) = {Head(buf)} \cup ToSet(Unposted')
          /\ Head(buf) \notin ToSet(Unposted') /\ Head(buf) \in GatewayEvent
      BY <1>1, <2>2, PostDoneOK
    <3>3. EachInOnePlace'
      BY <1>1, <1>2, <3>1, <3>2 DEF TrailInv, EachInOnePlace, Partition
    <3> QED
      BY <3>1, <3>2, <3>3 DEF TrailInv, TypeOK
  <2> QED
    BY <2>1, <2>2
<1>4. IsInjective(ch') /\ IsInjective(Unposted')
  BY <1>1, PostDoneOK DEF TrailInv, NoneTwice
<1> QED
  BY <1>1, <1>3, <1>4, PostDoneOK, GatewayOnly DEF TrailInv, TypeOK

\* What the gateway had is lost with it, but for a post that is under way.
LEMMA GatewayStopsOK == TrailInv /\ GatewayStops => TrailInv'
<1> SUFFICES ASSUME TrailInv, GatewayStops PROVE TrailInv'
  OBVIOUS
<1>1. /\ breaks < MaxBreaks /\ breaks' = breaks + 1
      /\ ch' = <<>> /\ buf' = <<>> /\ flushing' = FALSE /\ answering' = FALSE
      /\ UNCHANGED <<logVars, served, dropped, origin, up, unsent, streamVars>>
  BY DEF GatewayStops
<1>2. Unposted' = <<>> /\ Made' = Made
  BY <1>1 DEF Unposted, Made, EventsOf
<1>3. /\ ToSet(<<>>) = {} /\ IsInjective(<<>>) /\ Len(<<>>) = 0
      /\ <<>> \in Seq(GatewayEvent)
  BY DEF ToSet, IsInjective
<1>4. ToSet(ch) \subseteq GatewayEvent /\ ToSet(buf) \subseteq GatewayEvent
      /\ ToSet(Unposted) \subseteq ToSet(buf)
  <2>1. ch \in Seq(GatewayEvent) /\ buf \in Seq(GatewayEvent)
    BY DEF TrailInv, TypeOK
  <2>2. answering => ToSet(Tail(buf)) \subseteq ToSet(buf)
    BY <2>1, HeadTailSet DEF TrailInv, FlushOK
  <2> QED
    BY <2>1, <2>2, ElementOfSeq, LenProperties DEF ToSet, Unposted
<1>5. late' \subseteq GatewayEvent /\ lost' \subseteq GatewayEvent /\ EachInOnePlace'
  <2>1. CASE lost' = lost \cup ToSet(ch) \cup ToSet(Unposted) /\ late' = late
    <3>1. EachInOnePlace'
      BY <1>1, <1>2, <1>3, <2>1 DEF TrailInv, EachInOnePlace, Partition
    <3> QED
      BY <1>4, <2>1, <3>1 DEF TrailInv, TypeOK
  <2>2. CASE /\ flushing /\ ~answering
             /\ late' = late \cup {Head(buf)}
             /\ lost' = lost \cup ToSet(ch) \cup ToSet(Tail(buf))
    <3>1. /\ ToSet(Unposted) = {Head(buf)} \cup ToSet(Tail(buf)) /\ Unposted = buf
          /\ Head(buf) \notin ToSet(Tail(buf))
      BY <2>2, HeadTailSet DEF TrailInv, TypeOK, FlushOK, Unposted, NoneTwice
    <3>2. EachInOnePlace'
      BY <1>1, <1>2, <1>3, <2>2, <3>1 DEF TrailInv, EachInOnePlace, Partition
    <3> QED
      BY <1>4, <2>2, <3>1, <3>2 DEF TrailInv, TypeOK
  <2> QED
    BY <2>1, <2>2 DEF GatewayStops
<1>6. FlushOK' /\ breaks' \in 0..MaxBreaks /\ Len(ch') <= ChanCap /\ Len(buf') <= Batch
  BY <1>1, <1>3, CapacityAssumption DEF TrailInv, TypeOK, FlushOK
<1> QED
  BY <1>1, <1>2, <1>3, <1>5, <1>6, GatewayOnly DEF TrailInv, TypeOK

----------------------------------------------------------------------------
(***************************************************************************)
(* The audit service.                                                      *)
(***************************************************************************)
LEMMA NewestOK ==
  ASSUME NEW S, NEW s \in Seq(S), NEW n \in Nat
  PROVE  /\ Newest(s, n) \in Seq(S)
         /\ \A i \in DOMAIN Newest(s, n): \E j \in DOMAIN s: Newest(s, n)[i] = s[j]
<1> DEFINE m == IF Len(s) > n THEN Len(s) - n + 1 ELSE 1
<1>1. Len(s) \in Nat /\ DOMAIN s = 1..Len(s)
  BY LenProperties
<1>2. m \in 1..Len(s) + 1
  BY <1>1
<1> HIDE DEF m
<1>3. \A i \in m..Len(s): i \in 1..Len(s) /\ s[i] \in S
  BY <1>1, <1>2, ElementOfSeq
<1>4. /\ SubSeq(s, m, Len(s)) \in Seq(S)
      /\ Len(SubSeq(s, m, Len(s))) = IF m <= Len(s) THEN Len(s) - m + 1 ELSE 0
      /\ \A i \in 1..Len(s) - m + 1: SubSeq(s, m, Len(s))[i] = s[m + i - 1]
  BY <1>1, <1>2, <1>3, SubSeqProperties
<1>5. DOMAIN SubSeq(s, m, Len(s)) = 1..Len(s) - m + 1
  BY <1>1, <1>2, <1>4, LenProperties
<1>6. \A i \in 1..Len(s) - m + 1: m + i - 1 \in 1..Len(s)
  BY <1>1, <1>2
<1> QED
  BY <1>1, <1>4, <1>5, <1>6 DEF Newest, m

\* What a recorded event changes beside the places of the events.
LEMMA RecordEventOK ==
  ASSUME TrailInv, NEW g \in GatewayEvent, RecordEvent(g)
  PROVE  /\ LogTypeOK' /\ Known'
         /\ origin' \in Seq(GatewayEvent) /\ Len(origin') = Len(recorded')
         /\ Len(recorded') = Len(recorded) + 1 /\ Len(recorded) \in Nat
         /\ DOMAIN recorded = 1..Len(recorded) /\ DOMAIN recorded' = 1..Len(recorded) + 1
         /\ unsent' = unsent \cup {Len(recorded')}
         /\ ToSet(origin') = ToSet(origin) \cup {g}
         /\ g \notin ToSet(origin) => IsInjective(origin')
<1> DEFINE e == NewEvent(lastID + 1, now)
<1>1. /\ recorded' = Append(recorded, e) /\ window' = Newest(Append(window, e), Cap)
      /\ lastID' = lastID + 1 /\ now' = now
      /\ origin' = Append(origin, g) /\ unsent' = unsent \cup {Len(recorded')}
  BY DEF RecordEvent, Record
<1>2. /\ recorded \in Seq(Event) /\ window \in Seq(Event) /\ lastID \in Nat /\ now \in Nat
      /\ Len(recorded) \in Nat /\ DOMAIN recorded = 1..Len(recorded)
      /\ DOMAIN window = 1..Len(window) /\ Len(window) \in Nat
      /\ origin \in Seq(GatewayEvent) /\ Len(origin) = Len(recorded) /\ IsInjective(origin)
  BY LenProperties DEF TrailInv, TypeOK, LogTypeOK, NoneTwice
<1>3. e \in Event /\ e.no = Len(recorded) + 1
  BY <1>2 DEF NewEvent, Event
<1> HIDE DEF e
<1>4. /\ recorded' \in Seq(Event) /\ Len(recorded') = Len(recorded) + 1
      /\ DOMAIN recorded' = 1..Len(recorded) + 1 /\ recorded'[Len(recorded) + 1] = e
      /\ \A i \in 1..Len(recorded): recorded'[i] = recorded[i]
  BY <1>1, <1>2, <1>3, AppendSet
<1>5. /\ origin' \in Seq(GatewayEvent) /\ Len(origin') = Len(origin) + 1
      /\ ToSet(origin') = ToSet(origin) \cup {g}
      /\ g \notin ToSet(origin) => IsInjective(origin')
  BY <1>1, <1>2, AppendSet
<1> DEFINE w == Append(window, e)
<1>6. /\ w \in Seq(Event) /\ DOMAIN w = 1..Len(window) + 1 /\ w[Len(window) + 1] = e
      /\ \A i \in 1..Len(window): w[i] = window[i]
  BY <1>2, <1>3, AppendSet
<1>7. /\ window' \in Seq(Event)
      /\ \A i \in DOMAIN window': \E j \in DOMAIN w: window'[i] = w[j]
  <2>1. window' = Newest(w, Cap) /\ w \in Seq(Event) /\ Cap \in Nat
    BY <1>1, <1>6, CapAssumption
  <2> HIDE DEF w
  <2>2. Newest(w, Cap) \in Seq(Event)
    BY <2>1, NewestOK
  <2>3. \A i \in DOMAIN Newest(w, Cap): \E j \in DOMAIN w: Newest(w, Cap)[i] = w[j]
    BY <2>1, NewestOK
  <2> QED
    BY <2>1, <2>2, <2>3
<1>8. LogTypeOK'
  BY <1>1, <1>2, <1>4, <1>7 DEF LogTypeOK
<1>9. Known'
  <2>1. ASSUME NEW n \in DOMAIN recorded' PROVE recorded'[n].no = n
    BY <1>2, <1>3, <1>4 DEF TrailInv, Known
  <2>2. ASSUME NEW j \in DOMAIN w PROVE w[j].no \in DOMAIN recorded'
    <3>1. CASE j \in 1..Len(window)
      BY <1>2, <1>4, <1>6, <3>1 DEF TrailInv, Known
    <3>2. CASE j = Len(window) + 1
      BY <1>2, <1>3, <1>4, <1>6, <3>2
    <3> QED
      BY <1>2, <1>6, <3>1, <3>2
  <2> HIDE DEF w
  <2> QED
    BY <1>7, <2>1, <2>2 DEF Known
<1> QED
  BY <1>1, <1>2, <1>4, <1>5, <1>8, <1>9

\* The stream misses nothing when an event is recorded: it is not yet broadcast.
LEMMA RecordStreamOK ==
  ASSUME TrailInv, NEW g \in GatewayEvent, RecordEvent(g), UNCHANGED <<streamVars, up>>
  PROVE  /\ StreamInv' /\ unsent' \subseteq DOMAIN recorded'
         /\ queue' \in Seq(DOMAIN recorded') /\ prime' \in Seq(DOMAIN recorded')
         /\ page' \subseteq DOMAIN recorded' /\ skipped' \subseteq DOMAIN recorded'
         /\ since' \in 1..Len(recorded') + 1
<1>1. /\ Len(recorded') = Len(recorded) + 1 /\ Len(recorded) \in Nat
      /\ DOMAIN recorded = 1..Len(recorded) /\ DOMAIN recorded' = 1..Len(recorded) + 1
      /\ unsent' = unsent \cup {Len(recorded) + 1}
  BY RecordEventOK
<1>2. DOMAIN recorded \subseteq DOMAIN recorded' /\ Len(recorded) + 1 \in DOMAIN recorded'
  BY <1>1
<1>3. queue \in Seq(DOMAIN recorded') /\ prime \in Seq(DOMAIN recorded')
  BY <1>2, SeqMonotonic DEF TrailInv, TypeOK
<1>4. since \in 1..Len(recorded') + 1
  BY <1>1 DEF TrailInv, TypeOK
<1>5. StreamInv'
  <2>1. ASSUME stream # "off", NEW n \in since..Len(recorded) + 1
        PROVE  n \in page \cup ToSet(prime) \cup ToSet(queue) \cup unsent' \cup skipped
    <3>1. n \in since..Len(recorded) \/ n = Len(recorded) + 1
      BY <1>1, SMTT(30) DEF TrailInv, TypeOK
    <3> QED
      BY <1>1, <2>1, <3>1 DEF TrailInv, StreamInv
  <2> QED
    BY <1>1, <2>1 DEF TrailInv, StreamInv, streamVars
<1> QED
  BY <1>1, <1>2, <1>3, <1>4, <1>5 DEF TrailInv, TypeOK, streamVars

LEMMA PostArrivesOK == TrailInv /\ PostArrives => TrailInv'
<1> SUFFICES ASSUME TrailInv, PostArrives PROVE TrailInv'
  OBVIOUS
<1>1. /\ flushing /\ ~answering /\ RecordEvent(Head(buf)) /\ answering' = TRUE
      /\ UNCHANGED <<served, ch, buf, flushing, late, dropped, lost, up, streamVars, breaks>>
  BY DEF PostArrives
<1>2. /\ buf \in Seq(GatewayEvent) /\ buf # <<>> /\ Unposted = buf /\ Unposted' = Tail(buf)
  BY <1>1 DEF TrailInv, TypeOK, FlushOK, Unposted
<1>3. /\ Head(buf) \in GatewayEvent /\ ToSet(Unposted) = {Head(buf)} \cup ToSet(Unposted')
      /\ IsInjective(Unposted') /\ Head(buf) \notin ToSet(Unposted')
  BY <1>2, HeadTailSet DEF TrailInv, NoneTwice
<1>4. Head(buf) \notin ToSet(origin) /\ Made' = Made
  BY <1>1, <1>3 DEF TrailInv, EachInOnePlace, Partition, Made, EventsOf
<1>5. ToSet(origin') = ToSet(origin) \cup {Head(buf)} /\ IsInjective(origin')
  BY <1>1, <1>3, <1>4, RecordEventOK
<1>6. EachInOnePlace' /\ NoneTwice'
  <2>1. EachInOnePlace'
    BY <1>1, <1>3, <1>4, <1>5 DEF TrailInv, EachInOnePlace, Partition
  <2> QED
    BY <1>1, <1>3, <1>5, <2>1 DEF TrailInv, NoneTwice
<1>7. TypeOK'
  BY <1>1, <1>3, RecordEventOK, RecordStreamOK DEF TrailInv, TypeOK, streamVars
<1>8. FlushOK' /\ Known' /\ StreamInv'
  BY <1>1, <1>3, RecordEventOK, RecordStreamOK DEF TrailInv, FlushOK, streamVars
<1> QED
  BY <1>6, <1>7, <1>8 DEF TrailInv

\* A post whose client has given up is recorded all the same, once.
LEMMA LateArrivesOK == ASSUME TrailInv, NEW g \in late, LateArrives(g) PROVE TrailInv'
<1>1. /\ late' = late \ {g} /\ RecordEvent(g)
      /\ UNCHANGED <<served, ch, buf, flushing, answering, dropped, lost, up, streamVars, breaks>>
  BY DEF LateArrives
<1>2. g \in GatewayEvent /\ UNCHANGED <<Unposted, Made>>
  BY <1>1 DEF TrailInv, TypeOK, Unposted, Made, EventsOf
<1>3. g \notin ToSet(origin)
  BY DEF TrailInv, EachInOnePlace, Partition
<1>4. ToSet(origin') = ToSet(origin) \cup {g} /\ IsInjective(origin')
  BY <1>1, <1>2, <1>3, RecordEventOK
<1>5. EachInOnePlace'
  BY <1>1, <1>2, <1>4 DEF TrailInv, EachInOnePlace, Partition
<1>6. TypeOK'
  BY <1>1, <1>2, RecordEventOK, RecordStreamOK DEF TrailInv, TypeOK, streamVars
<1>7. FlushOK' /\ Known' /\ StreamInv'
  BY <1>1, <1>2, RecordEventOK, RecordStreamOK DEF TrailInv, FlushOK, streamVars
<1> QED
  BY <1>1, <1>2, <1>4, <1>5, <1>6, <1>7 DEF TrailInv, NoneTwice

LEMMA LateIsLostOK == ASSUME TrailInv, NEW g \in late, LateIsLost(g) PROVE TrailInv'
<1>1. /\ late' = late \ {g} /\ lost' = lost \cup {g}
      /\ UNCHANGED <<logVars, served, ch, buf, flushing, answering, dropped, origin,
                     up, unsent, streamVars, breaks>>
  BY DEF LateIsLost
<1>2. g \in GatewayEvent /\ UNCHANGED <<Unposted, Made>>
  BY <1>1 DEF TrailInv, TypeOK, Unposted, Made, EventsOf
<1>3. EachInOnePlace'
  BY <1>1, <1>2 DEF TrailInv, EachInOnePlace, Partition
<1> QED
  BY <1>1, <1>2, <1>3, GatewayOnly DEF TrailInv, TypeOK, NoneTwice, FlushOK

----------------------------------------------------------------------------
(***************************************************************************)
(* The hub, the stream, and crashes of the service.                        *)
(***************************************************************************)
\* Steps that record nothing and leave the gateway alone.
LEMMA ServiceOnly ==
  ASSUME TrailInv, UNCHANGED <<gatewayVars, origin, recorded>>,
         LogTypeOK', Known', StreamInv', up' \in BOOLEAN, unsent' \subseteq unsent,
         stream' \in {"off", "subscribed", "streaming"},
         queue' \in Seq(DOMAIN recorded), Len(queue') <= SubCap,
         prime' \in Seq(DOMAIN recorded),
         page' \subseteq DOMAIN recorded, since' \in 1..Len(recorded) + 1,
         skipped' \subseteq DOMAIN recorded, breaks' \in 0..MaxBreaks
  PROVE  TrailInv'
<1>1. TypeOK'
  BY DEF TrailInv, TypeOK, gatewayVars
<1>2. FlushOK' /\ NoneTwice' /\ UNCHANGED <<Unposted, Made>>
  BY DEF TrailInv, FlushOK, NoneTwice, gatewayVars, Unposted, Made, EventsOf
<1>3. EachInOnePlace'
  BY <1>2 DEF TrailInv, EachInOnePlace, gatewayVars
<1> QED
  BY <1>1, <1>2, <1>3 DEF TrailInv

\* One more break is within the bound.
LEMMA BreakOK == ASSUME TrailInv, breaks < MaxBreaks PROVE breaks + 1 \in 0..MaxBreaks
BY CapacityAssumption DEF TrailInv, TypeOK

LEMMA LogStays == TrailInv /\ UNCHANGED logVars => LogTypeOK' /\ Known'
BY DEF TrailInv, TypeOK, LogTypeOK, Known, logVars

LEMMA BroadcastOK == ASSUME TrailInv, NEW n \in unsent, Broadcast(n) PROVE TrailInv'
<1>1. /\ unsent' = unsent \ {n}
      /\ UNCHANGED <<logVars, gatewayVars, origin, up, stream, prime, page, since, breaks>>
      /\ \/ stream = "off" /\ UNCHANGED <<queue, skipped>>
         \/ Len(queue) < SubCap /\ queue' = Append(queue, n) /\ skipped' = skipped
         \/ stream # "off" /\ skipped' = skipped \cup {n} /\ queue' = queue
  BY DEF Broadcast
<1>2. n \in DOMAIN recorded /\ queue \in Seq(DOMAIN recorded) /\ Len(queue) \in Nat
      /\ SubCap \in Nat /\ Len(queue) <= SubCap /\ recorded' = recorded
  BY <1>1, CapacityAssumption, LenProperties DEF TrailInv, TypeOK, logVars
<1>3. /\ queue' \in Seq(DOMAIN recorded) /\ Len(queue') <= SubCap
      /\ skipped' \subseteq DOMAIN recorded
      /\ stream # "off" => ToSet(queue') \cup skipped' = ToSet(queue) \cup skipped \cup {n}
  <2>1. CASE Len(queue) < SubCap /\ queue' = Append(queue, n) /\ skipped' = skipped
    <3>1. /\ queue' \in Seq(DOMAIN recorded) /\ Len(queue') = Len(queue) + 1
          /\ ToSet(queue') = ToSet(queue) \cup {n}
      BY <1>2, <2>1, AppendSet
    <3>2. Len(queue') <= SubCap
      BY <1>2, <2>1, <3>1
    <3> QED
      BY <2>1, <3>1, <3>2 DEF TrailInv, TypeOK
  <2> QED
    BY <1>1, <1>2, <2>1 DEF TrailInv, TypeOK
<1>4. StreamInv'
  BY <1>1, <1>2, <1>3 DEF TrailInv, StreamInv
<1> QED
  BY <1>1, <1>2, <1>3, <1>4, LogStays, ServiceOnly DEF TrailInv, TypeOK

\* The service's crash, and the break of a stream.
LEMMA DisconnectedOK ==
  Disconnected => /\ stream' = "off" /\ StreamInv'
                  /\ queue' = <<>> /\ prime' = <<>> /\ skipped' = {}
BY DEF Disconnected, StreamInv

LEMMA ServiceStopsOK == TrailInv /\ ServiceStops => TrailInv'
<1> SUFFICES ASSUME TrailInv, ServiceStops PROVE TrailInv'
  OBVIOUS
<1>1. /\ breaks < MaxBreaks /\ breaks' = breaks + 1 /\ recorded' = recorded
      /\ window' = <<>> /\ lastID' = 0 /\ now' = now /\ up' = FALSE /\ unsent' = {}
      /\ Disconnected /\ UNCHANGED <<gatewayVars, origin, page, since>>
  BY DEF ServiceStops, Stop
<1>2. LogTypeOK' /\ Known'
  BY <1>1 DEF TrailInv, TypeOK, LogTypeOK, Known
<1>3. queue' \in Seq(DOMAIN recorded) /\ prime' \in Seq(DOMAIN recorded) /\ Len(queue') <= SubCap
  BY <1>1, DisconnectedOK, CapacityAssumption
<1> QED
  BY <1>1, <1>2, <1>3, BreakOK, DisconnectedOK, ServiceOnly DEF TrailInv, TypeOK

LEMMA StreamBreaksOK == TrailInv /\ StreamBreaks => TrailInv'
<1> SUFFICES ASSUME TrailInv, StreamBreaks PROVE TrailInv'
  OBVIOUS
<1>1. /\ breaks < MaxBreaks /\ breaks' = breaks + 1 /\ Disconnected
      /\ UNCHANGED <<logVars, gatewayVars, origin, up, unsent, page, since>>
  BY DEF StreamBreaks
<1>2. queue' \in Seq(DOMAIN recorded) /\ prime' \in Seq(DOMAIN recorded) /\ Len(queue') <= SubCap
  BY DisconnectedOK, CapacityAssumption, <1>1
<1> QED
  BY <1>1, <1>2, BreakOK, DisconnectedOK, LogStays, ServiceOnly DEF TrailInv, TypeOK, logVars

\* A restart finds some of the recorded events.
LEMMA ServiceStartsOK == TrailInv /\ ServiceStarts => TrailInv'
<1> SUFFICES ASSUME TrailInv, ServiceStarts PROVE TrailInv'
  OBVIOUS
<1>1. /\ up' = TRUE /\ UNCHANGED <<gatewayVars, origin, unsent, streamVars, breaks, now, recorded>>
      /\ \A i \in DOMAIN window': \E j \in DOMAIN recorded: window'[i] = recorded[j]
      /\ lastID' = IF window' = <<>> THEN 0 ELSE window'[Len(window')].id
  BY DEF ServiceStarts, Reopen
<1>2. recorded \in Seq(Event) /\ \A n \in DOMAIN recorded: recorded[n] \in Event
  BY LenProperties, ElementOfSeq DEF TrailInv, TypeOK, LogTypeOK
<1>3. window' \in Seq(Event)
  <2>1. PICK found \in SUBSET DOMAIN recorded: window' = Picked(recorded, found)
    BY DEF ServiceStarts
  <2>2. Cardinality(found) \in Nat
    <3>1. IsFiniteSet(DOMAIN recorded)
      BY <1>2, LenProperties, FS_Interval
    <3> QED
      BY <3>1, FS_Subset, FS_CardinalityType
  <2>3. PICK n \in Nat: DOMAIN window' = 1..n /\ window' = [i \in 1..n |-> window'[i]]
    BY <2>1, <2>2 DEF Picked
  <2>4. \A i \in 1..n: window'[i] \in Event
    BY <1>1, <1>2, <2>3
  <2> QED
    BY <2>3, <2>4
<1>4. LogTypeOK'
  <2>1. lastID' \in Nat
    <3>1. CASE window' # <<>>
      <4>1. Len(window') \in 1..Len(window')
        BY <1>3, <3>1, EmptySeq, LenProperties
      <4>2. window'[Len(window')] \in Event
        BY <1>3, <4>1, ElementOfSeq
      <4> QED
        BY <1>1, <3>1, <4>2 DEF Event
    <3> QED
      BY <1>1, <3>1
  <2> QED
    BY <1>1, <1>3, <2>1 DEF TrailInv, TypeOK, LogTypeOK
<1>5. Known' /\ StreamInv'
  BY <1>1, <1>2 DEF TrailInv, Known, StreamInv, streamVars
<1> QED
  BY <1>1, <1>4, <1>5, ServiceOnly DEF TrailInv, TypeOK, streamVars

\* What the window and its newest events say of their numbers.
LEMMA NumbersOK ==
  ASSUME NEW s \in Seq(Event), \A i \in DOMAIN s: s[i].no \in DOMAIN recorded
  PROVE  Numbers(s) \in Seq(DOMAIN recorded) /\ ToSet(Numbers(s)) \subseteq DOMAIN recorded
BY LenProperties DEF Numbers, ToSet

LEMMA FetchOK == TrailInv /\ Fetch => TrailInv'
<1> SUFFICES ASSUME TrailInv, Fetch PROVE TrailInv'
  OBVIOUS
<1>1. /\ page' = page \cup ToSet(Numbers(window))
      /\ UNCHANGED <<logVars, gatewayVars, origin, up, unsent, stream, queue, prime,
                     since, skipped, breaks>>
  BY DEF Fetch
<1>2. page' \subseteq DOMAIN recorded
  BY <1>1, NumbersOK DEF TrailInv, TypeOK, LogTypeOK, Known
<1>3. StreamInv'
  BY <1>1 DEF TrailInv, StreamInv, logVars
<1> QED
  BY <1>1, <1>2, <1>3, LogStays, ServiceOnly DEF TrailInv, TypeOK, logVars

LEMMA SubscribeOK == TrailInv /\ Subscribe => TrailInv'
<1> SUFFICES ASSUME TrailInv, Subscribe PROVE TrailInv'
  OBVIOUS
<1>1. /\ stream = "off" /\ stream' = "subscribed" /\ since' = Len(recorded) + 1
      /\ UNCHANGED <<logVars, gatewayVars, origin, up, unsent, queue, prime, page,
                     skipped, breaks>>
  BY DEF Subscribe
<1>2. Len(recorded) \in Nat
  BY LenProperties DEF TrailInv, TypeOK, LogTypeOK
<1>3. since' \in 1..Len(recorded) + 1 /\ since'..Len(recorded) = {}
  BY <1>1, <1>2
<1>4. StreamInv'
  BY <1>1, <1>3 DEF TrailInv, StreamInv, logVars
<1> QED
  BY <1>1, <1>3, <1>4, LogStays, ServiceOnly DEF TrailInv, TypeOK, logVars

LEMMA PrimeOK == TrailInv /\ Prime => TrailInv'
<1> SUFFICES ASSUME TrailInv, Prime PROVE TrailInv'
  OBVIOUS
<1>1. /\ stream = "subscribed" /\ stream' = "streaming"
      /\ prime' = Numbers(Newest(window, PrimeLen))
      /\ UNCHANGED <<logVars, gatewayVars, origin, up, unsent, queue, page, since,
                     skipped, breaks>>
  BY DEF Prime
<1>2. prime' \in Seq(DOMAIN recorded)
  <2>1. window \in Seq(Event) /\ PrimeLen \in Nat
    BY CapacityAssumption DEF TrailInv, TypeOK, LogTypeOK
  <2>2. Newest(window, PrimeLen) \in Seq(Event)
    BY <2>1, NewestOK
  <2>3. \A i \in DOMAIN Newest(window, PrimeLen):
          \E j \in DOMAIN window: Newest(window, PrimeLen)[i] = window[j]
    BY <2>1, NewestOK
  <2> QED
    BY <1>1, <2>2, <2>3, NumbersOK DEF TrailInv, Known
<1>3. StreamInv'
  BY <1>1 DEF TrailInv, StreamInv, logVars, ToSet
<1> QED
  BY <1>1, <1>2, <1>3, LogStays, ServiceOnly DEF TrailInv, TypeOK, logVars

LEMMA PushOK == TrailInv /\ Push => TrailInv'
<1> SUFFICES ASSUME TrailInv, Push PROVE TrailInv'
  OBVIOUS
<1>1. /\ stream = "streaming"
      /\ UNCHANGED <<logVars, gatewayVars, origin, up, unsent, stream, since, skipped, breaks>>
      /\ \/ prime # <<>> /\ page' = page \cup {Head(prime)} /\ prime' = Tail(prime) /\ queue' = queue
         \/ queue # <<>> /\ page' = page \cup {Head(queue)} /\ queue' = Tail(queue) /\ prime' = prime
  BY DEF Push
<1>2. queue \in Seq(DOMAIN recorded) /\ prime \in Seq(DOMAIN recorded) /\ Len(queue) \in Nat
      /\ Len(queue) <= SubCap /\ SubCap \in Nat
  BY LenProperties, CapacityAssumption DEF TrailInv, TypeOK
<1>3. /\ queue' \in Seq(DOMAIN recorded) /\ prime' \in Seq(DOMAIN recorded)
      /\ Len(queue') <= SubCap /\ page' \subseteq DOMAIN recorded
      /\ page' \cup ToSet(prime') \cup ToSet(queue') = page \cup ToSet(prime) \cup ToSet(queue)
  <2>1. CASE prime # <<>> /\ page' = page \cup {Head(prime)} /\ prime' = Tail(prime)
             /\ queue' = queue
    <3>1. /\ Head(prime) \in DOMAIN recorded /\ Tail(prime) \in Seq(DOMAIN recorded)
          /\ ToSet(prime) = {Head(prime)} \cup ToSet(Tail(prime))
      BY <1>2, <2>1, HeadTailSet
    <3> QED
      BY <1>2, <2>1, <3>1 DEF TrailInv, TypeOK
  <2>2. CASE queue # <<>> /\ page' = page \cup {Head(queue)} /\ queue' = Tail(queue)
             /\ prime' = prime
    <3>1. /\ Head(queue) \in DOMAIN recorded /\ Tail(queue) \in Seq(DOMAIN recorded)
          /\ Len(Tail(queue)) = Len(queue) - 1
          /\ ToSet(queue) = {Head(queue)} \cup ToSet(Tail(queue))
      BY <1>2, <2>2, HeadTailSet
    <3>2. Len(queue') <= SubCap
      BY <1>2, <2>2, <3>1
    <3> QED
      BY <1>2, <2>2, <3>1, <3>2 DEF TrailInv, TypeOK
  <2> QED
    BY <1>1, <2>1, <2>2
<1>4. StreamInv'
  BY <1>1, <1>3 DEF TrailInv, StreamInv, logVars
<1> QED
  BY <1>1, <1>3, <1>4, LogStays, ServiceOnly DEF TrailInv, TypeOK, logVars

----------------------------------------------------------------------------
LEMMA NextOK == TrailInv /\ [Next]_vars => TrailInv'
<1> SUFFICES ASSUME TrailInv, [Next]_vars PROVE TrailInv'
  OBVIOUS
<1>1. CASE UNCHANGED vars
  <2>1. UNCHANGED <<logVars, gatewayVars, origin, up, unsent, streamVars, breaks>>
    BY <1>1 DEF vars
  <2>2. StreamInv'
    BY <2>1 DEF TrailInv, StreamInv, streamVars, logVars
  <2> QED
    BY <2>1, <2>2, LogStays, ServiceOnly DEF TrailInv, TypeOK, streamVars, logVars
<1> QED
  BY <1>1, ServeOK, TakeOK, FlushTickOK, PostAnsweredOK, PostFailsOK, GatewayStopsOK,
     PostArrivesOK, LateArrivesOK, LateIsLostOK, BroadcastOK, ServiceStopsOK,
     ServiceStartsOK, FetchOK, SubscribeOK, PrimeOK, PushOK, StreamBreaksOK
  DEF Next, Emitter

LEMMA Invariance == Spec => []TrailInv
BY InitOK, NextOK, PTL DEF Spec

\* Whatever times out, arrives late, is dropped or dies, no event is recorded twice, and
\* the channels keep within their capacities.
THEOREM Recorded == Spec => []RecordedOnceInBounds
BY Invariance, TrailInvHolds, PTL

\* Every event of the gateway is in exactly one place: none is lost without being
\* counted as dropped, or lost with a post or a process that failed.
THEOREM AllAccounted == Spec => []Accounted
BY Invariance, TrailInvHolds, PTL

\* A stream that subscribed before it read the store has, or will get, everything
\* recorded since, except what the hub skipped because its channel was full.
THEOREM NoGap == Spec => []StreamHasNoGap
BY Invariance, TrailInvHolds, PTL
============================================================================
