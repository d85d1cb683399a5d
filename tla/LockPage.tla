----------------------------- MODULE LockPage -----------------------------
(***************************************************************************)
(* The locks page (web/src/pages/Locks.tsx) and the lock handlers of the   *)
(* ops service (cmd/ops/locks.go): a lock is a key with a lease, and the   *)
(* oldest key under the prefix has it.  The page knows a lease by the      *)
(* JavaScript number its id is read into.                                  *)
(***************************************************************************)
EXTENDS Integers, Sequences, SequencesExt

CONSTANTS
  Caller,     \* acquire calls, of this page and of others
  Own,        \* those of this page
  FirstLease, \* the first lease id etcd hands out; the ids are above 2^62, ...
  Spacing,    \* ... where the numbers of JavaScript lie this far apart
  MaxLeases   \* bound: leases granted

ASSUME LockAssumption ==
  /\ Own \subseteq Caller
  /\ FirstLease \in Nat \ {0} /\ Spacing \in Nat \ {0} /\ MaxLeases \in Nat

VARIABLES
  lkNext,    \* leases granted so far
  lkLive,    \* leases that live
  lkQueue,   \* the leases of the keys under the prefix, the oldest key first
  lkCall,    \* each acquire call: where it is, its lease, what it has found
  lkMine,    \* mine: the numbers of the leases this page has minted
  lkShown,   \* the list the page shows
  lkRelease  \* the last release of the page: the lease of its row, and how it ended

lkVars == <<lkNext, lkLive, lkQueue, lkCall, lkMine, lkShown, lkRelease>>

Lease == FirstLease..(FirstLease + MaxLeases - 1)
NoLease == 0

\* JSON.parse: the nearest number that a double can be.
Number(id) == ((id + Spacing \div 2) \div Spacing) * Spacing

Call == [at: {"idle", "granted", "put", "answered"}, lease: Lease \cup {NoLease},
         acquired: BOOLEAN, ok: BOOLEAN]
NoCall == [at |-> "idle", lease |-> NoLease, acquired |-> FALSE, ok |-> FALSE]
NoRelease == [lease |-> NoLease, at |-> "none"]

LockTypeOK ==
  /\ lkNext \in 0..MaxLeases /\ lkLive \subseteq Lease
  /\ ToSet(lkQueue) \subseteq lkLive /\ ToSet(lkShown) \subseteq Lease
  /\ lkCall \in [Caller -> Call]
  /\ lkMine \subseteq {Number(l) : l \in Lease}
  /\ lkRelease \in [lease: Lease \cup {NoLease}, at: {"none", "sent", "gone", "error"}]

LockInit ==
  /\ lkNext = 0 /\ lkLive = {} /\ lkQueue = <<>> /\ lkShown = <<>>
  /\ lkCall = [c \in Caller |-> NoCall]
  /\ lkMine = {} /\ lkRelease = NoRelease

\* A lease is revoked or runs out: etcd deletes its key.
Ends(l) == lkLive' = lkLive \ {l} /\ lkQueue' = RemoveFirst(lkQueue, l)

----------------------------------------------------------------------------
\* lockAcquireHandler: a lease is minted; the page has one acquire at a time...
Grant(c) ==
  LET l == FirstLease + lkNext IN
  /\ lkCall[c].at = "idle" /\ lkNext < MaxLeases
  /\ c \in Own => \A d \in Own: lkCall[d].at \in {"idle", "answered"}
  /\ lkNext' = lkNext + 1 /\ lkLive' = lkLive \cup {l}
  /\ lkCall' = [lkCall EXCEPT ![c].at = "granted", ![c].lease = l]
  /\ UNCHANGED <<lkQueue, lkMine, lkShown, lkRelease>>

\* ... the call's own key is put with it.  If that fails, the key may be there for
\* all that, and the lease is revoked, which may fail too...
Put(c) ==
  LET l == lkCall[c].lease
      Answers(at) == lkCall' = [lkCall EXCEPT ![c].at = at] IN
  /\ lkCall[c].at = "granted"
  /\ \/ /\ l \in lkLive
        /\ lkQueue' = Append(lkQueue, l) /\ UNCHANGED lkLive
        /\ Answers("put") \/ Answers("answered")
     \/ /\ Ends(l) \/ UNCHANGED <<lkLive, lkQueue>>
        /\ Answers("answered")
  /\ UNCHANGED <<lkNext, lkMine, lkShown, lkRelease>>

\* Mutant: the keys are sorted by name, which is their lease.
InspectByName(c) ==
  LET l == lkCall[c].lease IN
  /\ lkCall[c].at = "put"
  /\ lkCall' = [lkCall EXCEPT ![c].at = "answered", ![c].ok = TRUE,
                  ![c].acquired = l \in ToSet(lkQueue)
                                  /\ \A m \in ToSet(lkQueue): l <= m]
  /\ UNCHANGED <<lkNext, lkLive, lkQueue, lkMine, lkShown, lkRelease>>

\* ... and the keys are read back, the oldest first, unless that fails.
Inspect(c) ==
  LET l == lkCall[c].lease IN
  /\ lkCall[c].at = "put"
  /\ \/ lkCall' = [lkCall EXCEPT ![c].at = "answered", ![c].ok = TRUE,
                     ![c].acquired = lkQueue # <<>> /\ Head(lkQueue) = l]
     \/ lkCall' = [lkCall EXCEPT ![c].at = "answered"]
  /\ UNCHANGED <<lkNext, lkLive, lkQueue, lkMine, lkShown, lkRelease>>

\* acquire: the page has the answer, remembers the lease and reads the list again.
Acquired(c) ==
  /\ c \in Own /\ lkCall[c].at = "answered" /\ lkCall[c].ok
  /\ Number(lkCall[c].lease) \notin lkMine
  /\ lkMine' = lkMine \cup {Number(lkCall[c].lease)}
  /\ lkShown' = lkQueue
  /\ UNCHANGED <<lkNext, lkLive, lkQueue, lkCall, lkRelease>>

\* The list is polled.
Poll ==
  /\ lkShown' = lkQueue /\ lkShown # lkQueue
  /\ UNCHANGED <<lkNext, lkLive, lkQueue, lkCall, lkMine, lkRelease>>

\* A row of the list: is it marked as the holder, and as one of "yours".
HolderRow(i) == i = 1
YoursRow(i) == Number(lkShown[i]) \in lkMine

\* The release button of a row, anybody's.
Release(i) ==
  /\ i \in DOMAIN lkShown /\ lkRelease.at # "sent"
  /\ lkRelease' = [lease |-> lkShown[i], at |-> "sent"]
  /\ UNCHANGED <<lkNext, lkLive, lkQueue, lkCall, lkMine, lkShown>>

\* lockReleaseHandler revokes the lease it is given, an error if there is none.
Released ==
  LET id == Number(lkRelease.lease) IN
  /\ lkRelease.at = "sent"
  /\ IF id \in lkLive
       THEN /\ Ends(id)
            /\ lkRelease' = [lkRelease EXCEPT !.at = "gone"]
            /\ lkMine' = lkMine \ {id}
            /\ lkShown' = lkQueue'
       ELSE /\ lkRelease' = [lkRelease EXCEPT !.at = "error"]
            /\ UNCHANGED <<lkLive, lkQueue, lkMine, lkShown>>
  /\ UNCHANGED <<lkNext, lkCall>>

\* The lease of a lock runs out: nobody keeps it alive.
Expires(l) ==
  /\ l \in lkLive /\ Ends(l)
  /\ UNCHANGED <<lkNext, lkCall, lkMine, lkShown, lkRelease>>

LockNext ==
  \/ \E c \in Caller: Grant(c) \/ Put(c) \/ Inspect(c) \/ Acquired(c)
  \/ \E i \in DOMAIN lkShown: Release(i)
  \/ Poll \/ Released
  \/ \E l \in lkLive: Expires(l)

----------------------------------------------------------------------------
\* "smallest CreateRevision wins, others wait" (Locks.tsx): of two callers that
\* were told they have the lock, one has lost it since, whatever the order in
\* which their leases were minted and their keys put.
OneHolder ==
  \A c, d \in Caller:
    lkCall[c].acquired /\ lkCall[d].acquired
      /\ {lkCall[c].lease, lkCall[d].lease} \subseteq lkLive => c = d
============================================================================
