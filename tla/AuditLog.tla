------------------------------ MODULE AuditLog ------------------------------
(***************************************************************************)
(* What the audit service promises its readers: a window onto the events   *)
(* it has recorded, at most Cap of them, oldest first, never reordered,    *)
(* duplicated or made up.  A new event is in the window at once; events    *)
(* leave it as the oldest when there is no room, when they are too old, or *)
(* in a restart, which keeps the promise about order but not about which   *)
(* events are there.                                                       *)
(*                                                                         *)
(* AuditStore, the ring buffer and its file, implements this.              *)
(***************************************************************************)
EXTENDS Naturals, Sequences, FiniteSets

CONSTANTS
  Cap,       \* capacity of the window
  MaxAge,    \* the age at which a compaction drops an event
  MaxPosts,  \* bound: events ever recorded
  MaxNow     \* bound: the clock stops here

ASSUME CapAssumption == Cap \in Nat \ {0}
ASSUME MaxAgeAssumption == MaxAge \in Nat
ASSUME LogBounds == MaxPosts \in Nat /\ MaxNow \in Nat

VARIABLES
  now,       \* the clock
  recorded,  \* history variable: every event that was given an ID, in order
  window,    \* the events a reader can see; none while the service is down
  lastID     \* the highest ID given since the service started

logVars == <<now, recorded, window, lastID>>

\* id is what the service assigns, at the event's own time, which the gateway
\* set.  no tells apart events that were given the same ID.
Event == [id: Nat \ {0}, at: Nat, no: Nat \ {0}]

LogTypeOK ==
  /\ now \in Nat
  /\ recorded \in Seq(Event)
  /\ window \in Seq(Event)
  /\ lastID \in Nat

LogInit ==
  /\ now = 0
  /\ recorded = <<>>
  /\ window = <<>>
  /\ lastID = 0

----------------------------------------------------------------------------
\* The last n elements of s, or all of them if there are fewer.
Newest(s, n) == SubSeq(s, IF Len(s) > n THEN Len(s) - n + 1 ELSE 1, Len(s))

\* The k-th of the positions D, and the elements of s at them, in order.
Position(D, k) == CHOOSE i \in D: Cardinality(D \cap (1..i)) = k
Picked(s, D) == [k \in 1..Cardinality(D) |-> s[Position(D, k)]]

NewEvent(id, at) == [id |-> id, at |-> at, no |-> Len(recorded) + 1]

\* Not older than the retention's maxAge.
Young(e) == e.at + MaxAge >= now
AllYoung(s) == Picked(s, {i \in DOMAIN s : Young(s[i])})

\* Later in s means a higher ID and a later recording.
InOrder(s) ==
  \A i, j \in DOMAIN s: i < j => s[i].id < s[j].id /\ s[i].no < s[j].no

----------------------------------------------------------------------------
Record(at) ==
  LET e == NewEvent(lastID + 1, at) IN
    /\ Len(recorded) < MaxPosts
    /\ recorded' = Append(recorded, e)
    /\ window' = Newest(Append(window, e), Cap)
    /\ lastID' = lastID + 1
    /\ UNCHANGED now

Expire ==
  /\ window' = AllYoung(window)
  /\ UNCHANGED <<now, recorded, lastID>>

\* An event that was being recorded may or may not be found again later.
Stop ==
  /\ window' = <<>>
  /\ lastID' = 0
  /\ \/ UNCHANGED recorded
     \/ \E at \in 0..now: recorded' = Append(recorded, NewEvent(lastID + 1, at))
  /\ UNCHANGED now

\* The service is back with the events it found.
Reopen ==
  /\ Len(window') <= Cap
  /\ \A i \in DOMAIN window': \E j \in DOMAIN recorded: window'[i] = recorded[j]
  /\ InOrder(window')
  /\ lastID' = IF window' = <<>> THEN 0 ELSE window'[Len(window')].id
  /\ UNCHANGED <<now, recorded>>

Tick ==
  /\ now < MaxNow
  /\ now' = now + 1
  /\ UNCHANGED <<recorded, window, lastID>>

LogNext ==
  \/ \E at \in 0..now: Record(at)
  \/ Expire
  \/ Stop
  \/ Reopen
  \/ Tick

LogSpec == LogInit /\ [][LogNext]_logVars
============================================================================
