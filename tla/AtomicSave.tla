----------------------------- MODULE AtomicSave -----------------------------
(***************************************************************************)
(* What the save endpoints of the kv service promise: a save is one atomic *)
(* step.  Either it replaces the live state of the key by the merge of the *)
(* client's value with exactly that state, or it writes nothing and its    *)
(* answer is justified by a state the key had while the call was open.     *)
(*                                                                         *)
(* PutCas, the retry loop the handlers run, implements this specification. *)
(***************************************************************************)
EXTENDS EtcdKey

CONSTANTS
  Editor,        \* the clients; each has at most one save open
  MaxAttempts,   \* maxAttempts of casHandler
  Faults         \* the calls to etcd that may fail

VARIABLES
  req,    \* the open request of each editor, or NoRequest
  since,  \* the store revision when that request arrived
  reply   \* the answer to each editor's latest request, or NoReply

vars == <<storeVars, req, since, reply>>

\* The requests with a value in V and a baseRev in B; only put-cas has
\* acceptConflicts.
RequestFrom(V, B) ==
  [kind: {"cas"}, val: V, base: B, accept: BOOLEAN]
    \cup [kind: {"k8s"}, val: V, base: B, accept: {FALSE}]
Request == RequestFrom(Value, Nat)
NoRequest == [kind |-> "none"]
Status == {"none", "ok", "merged", "conflict", "busy", "error"}
\* val is the value the client takes to be stored, rev the revision it is told.
Reply == [status: Status, rev: Nat, val: Value]
Answer(status, rev, val) == [status |-> status, rev |-> rev, val |-> val]
NoReply == Answer("none", 0, Empty)

TypeOK ==
  /\ StoreTypeOK
  /\ req \in [Editor -> Request \cup {NoRequest}]
  /\ since \in [Editor -> Nat]
  /\ reply \in [Editor -> Reply]

Init ==
  /\ StoreInit
  /\ req = [e \in Editor |-> NoRequest]
  /\ since = [e \in Editor |-> 0]
  /\ reply = [e \in Editor |-> NoReply]

Invoke(e, r) ==
  /\ req[e] = NoRequest
  /\ Len(hist) < MaxRev
  /\ req' = [req EXCEPT ![e] = r]
  /\ since' = [since EXCEPT ![e] = Len(hist)]
  /\ reply' = [reply EXCEPT ![e] = NoReply]
  /\ UNCHANGED storeVars

Return(e, answer) ==
  /\ req' = [req EXCEPT ![e] = NoRequest]
  /\ since' = [since EXCEPT ![e] = 0]
  /\ reply' = [reply EXCEPT ![e] = answer]

----------------------------------------------------------------------------
\* The states the key has had while e's request was open.
Witnessed(e) == {hist[i] : i \in since[e]..Len(hist)}

\* Request r found state s and needs no merge.
Straight(r, s) == r.kind = "k8s" \/ r.base = 0 \/ s.mod = r.base

\* The merges of r with state s.  The base is the value the client opened, or,
\* when that revision cannot be read, s itself.
Bases(r, s) ==
  {hist[r.base].val} \cup IF "getBase" \in Faults \/ r.base < compacted THEN {s.val} ELSE {}

Merges(r, s) ==
  IF Straight(r, s) THEN {} ELSE {Merge(b, r.val, s.val) : b \in Bases(r, s)}

\* Whether a merge may be written: cleanly, or with its markers if r says so.
Writable(r, m) == m.status = "clean" \/ (m.status = "conflict" /\ r.accept)

\* The writes that save r when the key is in state s.
Puts(r, s) ==
  IF Straight(r, s)
  THEN {[guard |-> r.base, val |-> r.val, status |-> "ok"]}
  ELSE {[guard |-> s.mod, val |-> m.merged, status |-> "merged"] :
          m \in {n \in Merges(r, s) : Writable(r, n)}}

----------------------------------------------------------------------------
\* The save takes place: one revision, made from the live state.
Save(e) ==
  \E p \in Puts(req[e], Live):
    /\ GuardHolds(p.guard)
    /\ hist' = PutResult(p.val)
    /\ Return(e, Answer(p.status, Len(hist) + 1, p.val))
    /\ UNCHANGED <<compacted, inflight>>

\* The key already held the client's value: answered ok, nothing written.
AlreadySaved(e) ==
  \E s \in Witnessed(e):
    /\ ~Straight(req[e], s)
    /\ s.val = req[e].val
    /\ Return(e, Answer("ok", s.mod, s.val))
    /\ UNCHANGED storeVars

\* A conflict with a state the key had: nothing written.
Conflict(e) ==
  /\ \E s \in Witnessed(e):
       \/ /\ req[e].kind = "k8s"
          /\ s.mod # req[e].base
       \/ /\ ~req[e].accept
          /\ \E m \in Merges(req[e], s): m.status = "conflict"
  /\ Return(e, Answer("conflict", 0, Empty))
  /\ UNCHANGED storeVars

\* Given up, nothing written: the key has moved MaxAttempts times during the
\* call, or a new-key save found the key present.
Busy(e) ==
  /\ req[e].kind = "cas"
  /\ IF req[e].base = 0 THEN \E s \in Witnessed(e): s.mod # 0
                        ELSE Len(hist) >= since[e] + MaxAttempts
  /\ Return(e, Answer("busy", 0, Empty))
  /\ UNCHANGED storeVars

\* A call to etcd failed.  A write that was on its way may still apply, under
\* its guard: the caller is told nothing about it.
Fail(e) ==
  /\ Faults \ {"getBase"} # {}
  /\ \/ UNCHANGED inflight
     \/ \E s \in Witnessed(e): \E p \in Puts(req[e], s):
          inflight' = inflight \cup {[guard |-> p.guard, val |-> p.val]}
  /\ Return(e, Answer("error", 0, Empty))
  /\ UNCHANGED <<hist, compacted>>

Environment == StoreNext /\ UNCHANGED <<req, since, reply>>

Next ==
  \/ \E e \in Editor:
       /\ req[e] # NoRequest
       /\ Save(e) \/ AlreadySaved(e) \/ Conflict(e) \/ Busy(e) \/ Fail(e)
  \/ Environment
  \/ \E e \in Editor: \E r \in RequestFrom(Draft, 0..Len(hist)): Invoke(e, r)

Spec == Init /\ [][Next]_vars
============================================================================
