------------------------------ MODULE EtcdKey ------------------------------
(***************************************************************************)
(* One key of an etcd cluster as the kv service (cmd/kv) sees it: the      *)
(* key's MVCC history, its compaction, and the requests of the kv service  *)
(* that write it without looking at it (/put, /delete).                    *)
(*                                                                         *)
(* etcd itself is external.  It is modelled from the calls cmd/kv makes:   *)
(* Get, Get WithRev, Txn If/Then, Put, Delete and Compact.  Revisions of   *)
(* the store that belong to other keys are left out: revisions are only    *)
(* compared for equality with this key's, and with the compaction point.   *)
(***************************************************************************)
EXTENDS Naturals, Sequences, FiniteSets

CONSTANTS
  Value,         \* the values the key can hold
  Empty,         \* the empty string, what a handler reads for an absent key
  Draft,         \* the values clients write
  WeaveLines(_, _, _), \* the line weave of threewaymerge, past its shortcuts
  MaxRev         \* bound: no request starts a write at this revision or later

(***************************************************************************)
(* A weave of three texts ends clean or in conflict, in a value.           *)
(***************************************************************************)
WeaveResult == [status: {"clean", "conflict"}, merged: Value]

ASSUME ValueAssumption ==
  /\ Empty \in Value
  /\ Draft \subseteq Value

ASSUME WeaveAssumption ==
  \A b, o, t \in Value: b # o /\ b # t /\ o # t => WeaveLines(b, o, t) \in WeaveResult

ASSUME MaxRevAssumption == MaxRev \in Nat

VARIABLES
  hist,       \* hist[r] is the state of the key at store revision r
  compacted,  \* reads below this revision fail with ErrCompacted
  inflight    \* guarded puts whose handler has given up: they apply late or never

storeVars == <<hist, compacted, inflight>>

KeyState == [val: Value, mod: Nat]
Absent == [val |-> Empty, mod |-> 0]

\* A transaction If ModRevision(key) = guard Then Put(key, val); guard 0 stands
\* for CreateRevision(key) = 0, which holds exactly when the key is absent.
GuardedPut == [guard: Nat, val: Value]

StoreTypeOK ==
  /\ hist \in Seq(KeyState) /\ hist # <<>>
  /\ compacted \in Nat
  /\ inflight \subseteq GuardedPut

StoreInit ==
  /\ hist = <<Absent>>
  /\ compacted = 0
  /\ inflight = {}

Live == hist[Len(hist)]

\* Mutant: revision 0 means no guard.
GuardHoldsBlind(g) == g = 0 \/ Live.mod = g

GuardHolds(g) == Live.mod = g

\* The key's history after a put of v.
PutResult(v) == Append(hist, [val |-> v, mod |-> Len(hist) + 1])

----------------------------------------------------------------------------
(***************************************************************************)
(* threewaymerge.Merge: three shortcuts, then the weave.                   *)
(***************************************************************************)
Merge(base, ours, theirs) ==
  IF ours = theirs THEN [status |-> "nochange", merged |-> ours]
  ELSE IF base = ours THEN [status |-> "clean", merged |-> theirs]
  ELSE IF base = theirs THEN [status |-> "clean", merged |-> ours]
  ELSE WeaveLines(base, ours, theirs)

----------------------------------------------------------------------------
\* POST /put: last write wins.
PlainPut(v) ==
  /\ Len(hist) < MaxRev
  /\ hist' = PutResult(v)
  /\ UNCHANGED <<compacted, inflight>>

\* POST /delete; deleting an absent key makes no revision.
PlainDelete ==
  /\ Len(hist) < MaxRev
  /\ Live.mod # 0
  /\ hist' = Append(hist, Absent)
  /\ UNCHANGED <<compacted, inflight>>

\* POST /compact of the ops service, or etcd's own auto-compaction.
Compact(r) ==
  /\ compacted < r
  /\ r <= Len(hist)
  /\ compacted' = r
  /\ UNCHANGED <<hist, inflight>>

\* A guarded put whose handler has already answered 502 reaches the store: its
\* guard is evaluated then.
ApplyLate(p) ==
  /\ p \in inflight
  /\ inflight' = inflight \ {p}
  /\ hist' = IF GuardHolds(p.guard) THEN PutResult(p.val) ELSE hist
  /\ UNCHANGED compacted

StoreNext ==
  \/ \E v \in Draft: PlainPut(v)
  \/ PlainDelete
  \/ \E r \in 2..Len(hist): Compact(r)
  \/ \E p \in inflight: ApplyLate(p)
============================================================================
