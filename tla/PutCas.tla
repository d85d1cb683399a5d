------------------------------- MODULE PutCas -------------------------------
(***************************************************************************)
(* The save endpoints of the kv service, one etcd call per step: casHandler*)
(* and tryCAS (cmd/kv/cas.go) with their retry loop, and putK8sHandler     *)
(* (cmd/kv/put_k8s.go).  Any number of clients save the same key while     *)
(* others overwrite or delete it, the history is compacted, and calls to   *)
(* etcd fail.  Only v3 clusters: for v2 the handlers fall back to a plain  *)
(* set, which is EtcdKey's PlainPut.                                       *)
(***************************************************************************)
EXTENDS EtcdKey

CONSTANTS
  Editor,        \* the clients; each has at most one save open
  MaxAttempts,   \* maxAttempts of casHandler
  Faults,        \* the calls to etcd that may fail
  EditApart(_, _, _),   \* ours and theirs edited different places of the base
  EditsOfBoth(_, _, _), \* the base with the edits of ours and of theirs
  MaxInflight    \* bound: guarded puts in flight behind failed calls

ASSUME MaxAttemptsAssumption == MaxAttempts \in Nat \ {0}
ASSUME FaultsAssumption == Faults \subseteq {"getLive", "getBase", "commit"}

\* Edits of different places are merged.  Nothing is assumed of edits that meet:
\* threewaymerge may drop the one side's and call the result clean.
ASSUME ApartAssumption ==
  \A b, o, t \in Value: EditApart(b, o, t) => Merge(b, o, t).merged = EditsOfBoth(b, o, t)

VARIABLES
  req, since, reply,  \* as in AtomicSave
  pc,        \* where the handler of each editor's request is
  attempt,   \* the retry loop's counter
  seen,      \* what the attempt's first Get returned: liveValue, liveRev
  seenAt,    \* history variable: the revision that Get was served at
  todo       \* the transaction the attempt will commit

Atomic == INSTANCE AtomicSave

handlerVars == <<pc, attempt, seen, seenAt, todo>>
vars == <<storeVars, req, since, reply, handlerVars>>

PC == {"idle", "getLive", "getBase", "commit"}
Txn == [guard: Nat, val: Value, status: {"ok", "merged"}]
NoTxn == [guard |-> 0, val |-> Empty, status |-> "ok"]

TypeOK ==
  /\ Atomic!TypeOK
  /\ pc \in [Editor -> PC]
  /\ attempt \in [Editor -> 0..MaxAttempts]
  /\ seen \in [Editor -> KeyState]
  /\ seenAt \in [Editor -> Nat]
  /\ todo \in [Editor -> Txn]

Init ==
  /\ Atomic!Init
  /\ pc = [e \in Editor |-> "idle"]
  /\ attempt = [e \in Editor |-> 0]
  /\ seen = [e \in Editor |-> Absent]
  /\ seenAt = [e \in Editor |-> 0]
  /\ todo = [e \in Editor |-> NoTxn]

----------------------------------------------------------------------------
\* The handler leaves its locals behind with its answer.
Return(e, answer) ==
  /\ Atomic!Return(e, answer)
  /\ pc' = [pc EXCEPT ![e] = "idle"]
  /\ attempt' = [attempt EXCEPT ![e] = 0]
  /\ seen' = [seen EXCEPT ![e] = Absent]
  /\ seenAt' = [seenAt EXCEPT ![e] = 0]
  /\ todo' = [todo EXCEPT ![e] = NoTxn]

\* On to the transaction txn.
Prepare(e, txn) ==
  /\ pc' = [pc EXCEPT ![e] = "commit"]
  /\ todo' = [todo EXCEPT ![e] = txn]

\* A save arrives.  put-k8s goes straight to its one transaction.
Submit(e, r) ==
  /\ Atomic!Invoke(e, r)
  /\ IF r.kind = "cas"
     THEN pc' = [pc EXCEPT ![e] = "getLive"] /\ UNCHANGED todo
     ELSE Prepare(e, [guard |-> r.base, val |-> r.val, status |-> "ok"])
  /\ UNCHANGED <<attempt, seen, seenAt>>

\* tryCAS's first Get, and the trivial paths: a new key, or no contention.
GetLive(e) ==
  /\ pc[e] = "getLive"
  /\ seen' = [seen EXCEPT ![e] = Live]
  /\ seenAt' = [seenAt EXCEPT ![e] = Len(hist)]
  /\ IF req[e].base = 0 \/ Live.mod = req[e].base
     THEN Prepare(e, [guard |-> req[e].base, val |-> req[e].val, status |-> "ok"])
     ELSE pc' = [pc EXCEPT ![e] = "getBase"] /\ UNCHANGED todo
  /\ UNCHANGED <<storeVars, req, since, reply, attempt>>

\* Mutant: the live value is always the base.
BaseValuesLive(e) == {seen[e].val}

\* What the Get at the base revision leaves in baseValue.  Any error of it,
\* ErrCompacted or a failed call, makes the live value the base.
BaseValues(e) ==
  (IF req[e].base < compacted THEN {} ELSE {hist[req[e].base].val})
    \cup (IF "getBase" \in Faults \/ req[e].base < compacted THEN {seen[e].val} ELSE {})

\* The rest of tryCAS up to its transaction: the Get at the base revision, the
\* merge, and the answers that write nothing.
GetBase(e) ==
  /\ pc[e] = "getBase"
  /\ \E base \in BaseValues(e):
       LET m == Merge(base, req[e].val, seen[e].val) IN
         \/ /\ m.status = "nochange"
            /\ Return(e, Atomic!Answer("ok", seen[e].mod, seen[e].val))
         \/ /\ Atomic!Writable(req[e], m)
            /\ Prepare(e, [guard |-> seen[e].mod, val |-> m.merged, status |-> "merged"])
            /\ UNCHANGED <<req, since, reply, attempt, seen, seenAt>>
         \/ /\ m.status = "conflict" /\ ~req[e].accept
            /\ Return(e, Atomic!Answer("conflict", 0, Empty))
  /\ UNCHANGED storeVars

\* Mutant: the transaction has no If.
CommitUnguarded(e) ==
  /\ pc[e] = "commit"
  /\ hist' = PutResult(todo[e].val)
  /\ Return(e, Atomic!Answer(todo[e].status, Len(hist) + 1, todo[e].val))
  /\ UNCHANGED <<compacted, inflight>>

\* Mutant: the answer names the revision before the transaction.
CommitOldRevision(e) ==
  /\ pc[e] = "commit"
  /\ GuardHolds(todo[e].guard)
  /\ hist' = PutResult(todo[e].val)
  /\ Return(e, Atomic!Answer(todo[e].status, Len(hist), todo[e].val))
  /\ UNCHANGED <<compacted, inflight>>

\* The transaction commits: cas answers with the revision it made.
Commit(e) ==
  /\ pc[e] = "commit"
  /\ GuardHolds(todo[e].guard)
  /\ hist' = PutResult(todo[e].val)
  /\ Return(e, Atomic!Answer(todo[e].status, Len(hist) + 1, todo[e].val))
  /\ UNCHANGED <<compacted, inflight>>

\* Mutant: the loop does not count.
StartOverUncounted(e) ==
  /\ pc' = [pc EXCEPT ![e] = "getLive"]
  /\ UNCHANGED <<attempt, seen, seenAt, todo>>

\* Mutant: a retry commits the old merge under the key's new revision.
StartOverStale(e) ==
  /\ attempt' = [attempt EXCEPT ![e] = @ + 1]
  /\ todo' = [todo EXCEPT ![e].guard = Live.mod]
  /\ UNCHANGED <<pc, seen, seenAt>>

\* The next attempt, from the first Get on.
StartOver(e) ==
  /\ pc' = [pc EXCEPT ![e] = "getLive"]
  /\ attempt' = [attempt EXCEPT ![e] = @ + 1]
  /\ seen' = [seen EXCEPT ![e] = Absent]
  /\ seenAt' = [seenAt EXCEPT ![e] = 0]
  /\ todo' = [todo EXCEPT ![e] = NoTxn]

\* The guard fails.  put-k8s answers 409; put-cas starts over, MaxAttempts times.
LoseRace(e) ==
  /\ pc[e] = "commit"
  /\ ~GuardHolds(todo[e].guard)
  /\ \/ /\ req[e].kind = "k8s"
        /\ Return(e, Atomic!Answer("conflict", 0, Empty))
     \/ /\ req[e].kind = "cas"
        /\ attempt[e] + 1 < MaxAttempts
        /\ StartOver(e)
        /\ UNCHANGED <<req, since, reply>>
     \/ /\ req[e].kind = "cas"
        /\ attempt[e] + 1 >= MaxAttempts
        /\ Return(e, Atomic!Answer("busy", 0, Empty))
  /\ UNCHANGED storeVars

\* The first Get or the transaction fails or runs into its deadline: 502, with
\* no retry.  The transaction may have been on its way.
CallFails(e) ==
  /\ pc[e] \in Faults \ {"getBase"}
  /\ \/ UNCHANGED inflight
     \/ /\ pc[e] = "commit"
        /\ Cardinality(inflight) < MaxInflight
        /\ inflight' = inflight \cup {[guard |-> todo[e].guard, val |-> todo[e].val]}
  /\ Return(e, Atomic!Answer("error", 0, Empty))
  /\ UNCHANGED <<hist, compacted>>

Handler(e) == GetLive(e) \/ GetBase(e) \/ Commit(e) \/ LoseRace(e) \/ CallFails(e)

Environment == StoreNext /\ UNCHANGED <<req, since, reply, handlerVars>>

Next ==
  \/ \E e \in Editor: \E r \in Atomic!RequestFrom(Draft, 0..Len(hist)): Submit(e, r)
  \/ \E e \in Editor: Handler(e)
  \/ Environment

\* The handler of a request keeps running: every call to etcd has a deadline.
Fairness == \A e \in Editor: WF_vars(Handler(e))

Spec == Init /\ [][Next]_vars
FairSpec == Spec /\ Fairness

----------------------------------------------------------------------------
(***************************************************************************)
(* Properties.                                                             *)
(***************************************************************************)
\* The handlers implement AtomicSave: whatever is interleaved with the three
\* calls of an attempt, and however often it is retried, a save is one atomic
\* merge with the state it replaces, or writes nothing and answers truthfully.
Implements == Atomic!Spec

\* An acknowledged save names a revision that holds the value the client takes
\* to be stored.  (Revision 0: an empty value, on a key deleted meanwhile.)
AnswerOK(e) ==
  reply[e].status \in {"ok", "merged"} =>
    \/ /\ reply[e].rev \in 1..Len(hist)
       /\ hist[reply[e].rev] = [val |-> reply[e].val, mod |-> reply[e].rev]
    \/ reply[e].rev = 0 /\ reply[e].val = Empty

AnsweredSaveIsStored == \A e \in Editor: AnswerOK(e)

(***************************************************************************)
(* The inductive invariant behind both.                                    *)
(***************************************************************************)
\* A modRevision identifies a state of the key.
HistOK ==
  \A i \in 1..Len(hist):
    \/ hist[i] = Absent
    \/ hist[i].mod \in 1..i /\ hist[hist[i].mod] = hist[i]

\* An open request arrived at an earlier revision and read its base before.
RequestOK(e) ==
  IF req[e] = Atomic!NoRequest
  THEN pc[e] = "idle"
  ELSE /\ since[e] \in 1..Len(hist)
       /\ req[e].base \in 0..Len(hist)
       /\ reply[e] = Atomic!NoReply
       /\ IF req[e].kind = "k8s" THEN pc[e] = "commit" ELSE pc[e] # "idle"

\* Every failed attempt of a put-cas saw the key move.
AttemptOK(e) ==
  /\ attempt[e] < MaxAttempts
  /\ IF pc[e] = "idle" THEN attempt[e] = 0
     ELSE since[e] + attempt[e] <= Len(hist) \/ req[e].base = 0

\* What an attempt read was the state of the key when it was read, and that was
\* after every failed attempt.
SeenOK(e) ==
  pc[e] \in {"getBase", "commit"} /\ req[e].kind = "cas" =>
    /\ seenAt[e] \in since[e]..Len(hist)
    /\ seen[e] = hist[seenAt[e]]
    /\ since[e] + attempt[e] <= seenAt[e] \/ req[e].base = 0
    /\ pc[e] = "getBase" => ~Atomic!Straight(req[e], seen[e])

\* A prepared transaction saves the request, for the state that was read.
TodoOK(e) ==
  pc[e] = "commit" => todo[e] \in Atomic!Puts(req[e], seen[e])

EditorOK(e) ==
  RequestOK(e) /\ AttemptOK(e) /\ SeenOK(e) /\ TodoOK(e) /\ AnswerOK(e)

IInv == TypeOK /\ HistOK /\ \A e \in Editor: EditorOK(e)

(***************************************************************************)
(* Edits of others.                                                        *)
(***************************************************************************)
\* The step in which e's save writes a revision.
Saves(e) ==
  /\ req[e] # Atomic!NoRequest
  /\ reply'[e].status \in {"ok", "merged"}
  /\ Len(hist') = Len(hist) + 1

\* What e's request was written on.
Opened(e) == IF req[e].base = 0 THEN Empty ELSE hist[req[e].base].val

\* Whether the Get at the base revision can only succeed.
BaseReadable(e) == "getBase" \notin Faults /\ req[e].base >= compacted

\* e saves its edits and those made since it opened the key; when the base cannot
\* be read the live value stands in for it, and e's whole value is saved.
EditsKept(e) ==
  LET saved == hist'[Len(hist')].val IN
    EditApart(Opened(e), req[e].val, Live.val) =>
      \/ saved = EditsOfBoth(Opened(e), req[e].val, Live.val)
      \/ saved = req[e].val /\ ~BaseReadable(e)

\* Edits of others in places the client did not edit survive its save, and its own
\* get in, whatever others do between the three calls of an attempt; they are lost
\* only where the revision the save is based on cannot be read.
ForeignEditsSurvive == [][\A e \in Editor: Saves(e) => EditsKept(e)]_vars

\* A request the service has accepted is answered.
SaveReturns ==
  \A e \in Editor: req[e] # Atomic!NoRequest ~> req[e] = Atomic!NoRequest
============================================================================
