---------------------------- MODULE PutCasProofs ----------------------------
(***************************************************************************)
(* Proofs about PutCas, for any number of editors, any values and weave,   *)
(* any number of attempts, and with or without failing calls: the type     *)
(* invariant, the inductive invariant IInv, what an acknowledged save      *)
(* means, and that the handlers implement AtomicSave.  And about the tabs  *)
(* that save through it: what a tab has not shown is not overwritten.      *)
(***************************************************************************)
EXTENDS BrowserTabs, TLAPS

(***************************************************************************)
(* A step of the store: the history stays or grows by one state.           *)
(***************************************************************************)
Grown ==
  \/ hist' = hist
  \/ \E v \in Value: hist' = PutResult(v)
  \/ hist' = Append(hist, Absent)

\* The three ways a history grows keep its type, its past, and the fact that a
\* modRevision identifies a state.
LEMMA Growth ==
  ASSUME hist \in Seq(KeyState), hist # <<>>, HistOK, Grown
  PROVE  /\ hist' \in Seq(KeyState) /\ hist' # <<>>
         /\ Len(hist') >= Len(hist)
         /\ \A i \in 1..Len(hist): hist'[i] = hist[i]
         /\ HistOK'
<1> Absent \in KeyState
  BY ValueAssumption DEF Absent, KeyState
<1>1. CASE hist' = hist
  BY <1>1 DEF HistOK
<1>2. ASSUME NEW s \in KeyState, hist' = Append(hist, s),
             s = Absent \/ s.mod = Len(hist) + 1
      PROVE  /\ hist' \in Seq(KeyState) /\ hist' # <<>>
             /\ Len(hist') >= Len(hist)
             /\ \A i \in 1..Len(hist): hist'[i] = hist[i]
             /\ HistOK'
  <2>1. /\ hist' \in Seq(KeyState) /\ hist' # <<>>
        /\ Len(hist') = Len(hist) + 1
        /\ \A i \in 1..Len(hist): hist'[i] = hist[i]
        /\ hist'[Len(hist) + 1] = s
    BY <1>2
  <2>2. HistOK'
    <3> SUFFICES ASSUME NEW i \in 1..Len(hist')
                 PROVE  \/ hist'[i] = Absent
                        \/ hist'[i].mod \in 1..i /\ hist'[hist'[i].mod] = hist'[i]
      BY DEF HistOK, Absent
    <3>1. CASE i \in 1..Len(hist)
      BY <2>1, <3>1 DEF HistOK
    <3>2. CASE i = Len(hist) + 1
      BY <2>1, <3>2, <1>2
    <3> QED
      BY <2>1, <3>1, <3>2
  <2> QED
    BY <2>1, <2>2
<1>3. CASE \E v \in Value: hist' = PutResult(v)
  <2> PICK v \in Value: hist' = PutResult(v)
    BY <1>3
  <2> DEFINE s == [val |-> v, mod |-> Len(hist) + 1]
  <2>1. s \in KeyState /\ hist' = Append(hist, s) /\ s.mod = Len(hist) + 1
    BY DEF PutResult, KeyState
  <2> QED
    BY <2>1, <1>2
<1>4. CASE hist' = Append(hist, Absent)
  BY <1>4, <1>2
<1> QED
  BY <1>1, <1>3, <1>4 DEF Grown

----------------------------------------------------------------------------
(***************************************************************************)
(* What an open request can be saved as is not lost when the store moves.  *)
(***************************************************************************)
Moves ==
  /\ Grown
  /\ compacted' \in Nat
  /\ compacted' >= compacted

\* A transaction prepared for a state stays one of that state's: compaction only adds some.
LEMMA PutsStay ==
  ASSUME IInv, Moves, NEW r \in Atomic!Request, r.base \in 0..Len(hist),
         NEW s \in KeyState
  PROVE  Atomic!Puts(r, s) \subseteq Atomic!Puts(r, s)'
<1>1. /\ hist \in Seq(KeyState) /\ hist # <<>> /\ HistOK /\ Grown /\ compacted \in Nat
  BY DEF IInv, TypeOK, Atomic!TypeOK, Atomic!StoreTypeOK, Atomic!KeyState, KeyState, Moves
<1>2. Len(hist') >= Len(hist) /\ \A i \in 1..Len(hist): hist'[i] = hist[i]
  BY <1>1, Growth
<1>3. CASE Atomic!Straight(r, s)
  BY <1>3 DEF Atomic!Puts, Atomic!Straight
<1>4. CASE ~Atomic!Straight(r, s)
  <2>1. r.base \in 1..Len(hist) /\ r.base \in Nat
    BY <1>4, <1>1 DEF Atomic!Straight
  <2>2. Atomic!Bases(r, s) \subseteq Atomic!Bases(r, s)'
    BY <1>1, <1>2, <2>1 DEF Atomic!Bases, Moves
  <2>3. Atomic!Merges(r, s) \subseteq Atomic!Merges(r, s)'
    BY <2>2, <1>4 DEF Atomic!Merges, Atomic!Straight
  <2> QED
    BY <2>3, <1>4 DEF Atomic!Puts, Atomic!Straight
<1> QED
  BY <1>3, <1>4

\* The locals of e's handler and its request stay as they are.
Untouched(e) ==
  /\ req'[e] = req[e] /\ since'[e] = since[e] /\ reply'[e] = reply[e]
  /\ pc'[e] = pc[e] /\ attempt'[e] = attempt[e]
  /\ seen'[e] = seen[e] /\ seenAt'[e] = seenAt[e] /\ todo'[e] = todo[e]

\* A move of the store disturbs nothing that was established for an editor.
LEMMA StoreMoves ==
  ASSUME IInv, Moves, NEW e \in Editor, Untouched(e)
  PROVE  EditorOK(e)'
<1>1. /\ hist \in Seq(KeyState) /\ hist # <<>> /\ HistOK /\ Grown
      /\ req[e] \in Atomic!Request \cup {Atomic!NoRequest}
      /\ since[e] \in Nat /\ attempt[e] \in Nat /\ seenAt[e] \in Nat
      /\ seen[e] \in KeyState
  BY MaxAttemptsAssumption
  DEF IInv, TypeOK, Atomic!TypeOK, Atomic!StoreTypeOK, Atomic!KeyState, KeyState, Moves
<1>2. Len(hist') >= Len(hist) /\ \A i \in 1..Len(hist): hist'[i] = hist[i]
  BY <1>1, Growth
<1>3. Len(hist) \in Nat /\ Len(hist') \in Nat
  BY <1>1, Growth
<1>4. EditorOK(e)
  BY DEF IInv
<1>5. RequestOK(e)'
  BY <1>1, <1>2, <1>3, <1>4
  DEF EditorOK, RequestOK, Untouched, Atomic!NoRequest, Atomic!NoReply, Atomic!Answer,
      Atomic!Request, Atomic!RequestFrom
<1>6. AttemptOK(e)'
  BY <1>1, <1>2, <1>3, <1>4 DEF EditorOK, AttemptOK, Untouched
<1>7. SeenOK(e)'
  BY <1>1, <1>2, <1>3, <1>4 DEF EditorOK, RequestOK, SeenOK, Untouched, Atomic!Straight
<1>8. TodoOK(e)'
  <2> SUFFICES ASSUME pc[e] = "commit", req[e] # Atomic!NoRequest
               PROVE  TodoOK(e)'
    BY <1>4 DEF EditorOK, TodoOK, RequestOK, Untouched
  <2>1. PICK r \in Atomic!Request, s \in KeyState: r = req[e] /\ s = seen[e]
    BY <1>1
  <2>2. r.base \in 0..Len(hist)
    BY <1>4, <2>1 DEF EditorOK, RequestOK
  <2>3. todo[e] \in Atomic!Puts(r, s)'
    BY <1>4, <2>1, <2>2, PutsStay DEF EditorOK, TodoOK
  <2>4. r = req'[e] /\ s = seen'[e] /\ todo[e] = todo'[e]
    BY <2>1 DEF Untouched
  <2> QED
    BY <2>3, <2>4
    DEF TodoOK, Atomic!Puts, Atomic!Merges, Atomic!Bases, Atomic!Straight, Atomic!Writable
<1>9. AnswerOK(e)'
  BY <1>1, <1>2, <1>3, <1>4 DEF EditorOK, AnswerOK, Untouched
<1> QED
  BY <1>5, <1>6, <1>7, <1>8, <1>9 DEF EditorOK

----------------------------------------------------------------------------
(***************************************************************************)
(* The steps of one handler.                                               *)
(***************************************************************************)
Others(e) == \A f \in Editor \ {e}: Untouched(f)

\* What a step of e has to establish for IInv to survive it.
Progress(e) == TypeOK' /\ Moves /\ Others(e) /\ EditorOK(e)'

\* The type invariant, variable by variable.
LEMMA Types ==
  ASSUME TypeOK
  PROVE  /\ hist \in Seq(KeyState) /\ hist # <<>> /\ Len(hist) \in Nat \ {0}
         /\ Live \in KeyState
         /\ compacted \in Nat /\ inflight \subseteq GuardedPut
         /\ req \in [Editor -> Atomic!Request \cup {Atomic!NoRequest}]
         /\ since \in [Editor -> Nat]
         /\ reply \in [Editor -> Atomic!Reply]
         /\ pc \in [Editor -> PC]
         /\ attempt \in [Editor -> 0..MaxAttempts]
         /\ seen \in [Editor -> KeyState]
         /\ seenAt \in [Editor -> Nat]
         /\ todo \in [Editor -> Txn]
<1>1. hist \in Seq(KeyState) /\ hist # <<>>
  BY DEF TypeOK, Atomic!TypeOK, Atomic!StoreTypeOK, Atomic!KeyState, KeyState
<1>2. Len(hist) \in Nat \ {0} /\ Live \in KeyState
  BY <1>1 DEF Live
<1> QED
  BY <1>1, <1>2
  DEF TypeOK, Atomic!TypeOK, Atomic!StoreTypeOK, Atomic!GuardedPut, GuardedPut

\* The types of the values the handlers fall back on.
LEMMA Defaults ==
  /\ Absent \in KeyState
  /\ NoTxn \in Txn
  /\ Atomic!NoReply \in Atomic!Reply
BY ValueAssumption
DEF Absent, KeyState, NoTxn, Txn, Atomic!NoReply, Atomic!Answer, Atomic!Reply, Atomic!Status

\* A step that changes the store by a legal move and the locals to values of
\* their types keeps the type invariant.
LEMMA TypesBack ==
  ASSUME IInv, Moves, inflight' \subseteq GuardedPut,
         req' \in [Editor -> Atomic!Request \cup {Atomic!NoRequest}],
         since' \in [Editor -> Nat],
         reply' \in [Editor -> Atomic!Reply],
         pc' \in [Editor -> PC],
         attempt' \in [Editor -> 0..MaxAttempts],
         seen' \in [Editor -> KeyState],
         seenAt' \in [Editor -> Nat],
         todo' \in [Editor -> Txn]
  PROVE  TypeOK'
<1>1. hist' \in Seq(KeyState) /\ hist' # <<>>
  BY Growth, Types DEF IInv, Moves
<1> QED
  BY <1>1
  DEF TypeOK, Atomic!TypeOK, Atomic!StoreTypeOK, Atomic!GuardedPut, GuardedPut,
      Atomic!KeyState, KeyState, Moves, Atomic!Request, Atomic!NoRequest,
      Atomic!RequestFrom, Atomic!Reply, PC, Txn

\* A handler that answers: what it says must be true.
LEMMA Returning ==
  ASSUME IInv, Moves, inflight' \subseteq GuardedPut,
         NEW e \in Editor, NEW answer \in Atomic!Reply, Return(e, answer),
         answer.status \in {"ok", "merged"} =>
           \/ /\ answer.rev \in 1..Len(hist')
              /\ hist'[answer.rev] = [val |-> answer.val, mod |-> answer.rev]
           \/ answer.rev = 0 /\ answer.val = Empty
  PROVE  Progress(e)
<1>1. TypeOK
  BY DEF IInv
<1>2. TypeOK'
  <2>1. 0 \in 0..MaxAttempts /\ 0 \in Nat /\ "idle" \in PC
    BY MaxAttemptsAssumption DEF PC
  <2> QED
    BY <1>1, <2>1, Types, Defaults, TypesBack DEF Return, Atomic!Return
<1>3. Others(e)
  BY <1>1, Types DEF Others, Untouched, Return, Atomic!Return
<1>4. /\ req'[e] = Atomic!NoRequest
      /\ pc'[e] = "idle"
      /\ reply'[e] = answer
      /\ attempt'[e] = 0
  BY <1>1, Types DEF Return, Atomic!Return
<1>5. EditorOK(e)'
  BY <1>4, MaxAttemptsAssumption
  DEF EditorOK, RequestOK, AttemptOK, SeenOK, TodoOK, AnswerOK
<1> QED
  BY <1>2, <1>3, <1>5 DEF Progress

\* A merge answers with a value and with how it ended.
LEMMA MergeTypes ==
  ASSUME NEW b \in Value, NEW o \in Value, NEW t \in Value
  PROVE  /\ Merge(b, o, t).status \in {"nochange", "clean", "conflict"}
         /\ Merge(b, o, t).merged \in Value
BY WeaveAssumption DEF Merge, WeaveResult

\* A request arrives: it names a revision that exists.
LEMMA SubmitProgress ==
  ASSUME IInv, NEW e \in Editor,
         NEW r \in Atomic!RequestFrom(Value, 0..Len(hist)), Submit(e, r)
  PROVE  Progress(e)
<1>1. TypeOK /\ EditorOK(e)
  BY DEF IInv
<1>2. /\ hist' = hist /\ compacted' = compacted /\ inflight' = inflight
      /\ req' = [req EXCEPT ![e] = r] /\ since' = [since EXCEPT ![e] = Len(hist)]
      /\ reply' = [reply EXCEPT ![e] = Atomic!NoReply]
      /\ req[e] = Atomic!NoRequest
      /\ attempt' = attempt /\ seen' = seen /\ seenAt' = seenAt
  BY DEF Submit, Atomic!Invoke, Atomic!storeVars
<1>3. Moves /\ inflight' \subseteq GuardedPut
  BY <1>1, <1>2, Types DEF Moves, Grown
<1>4. r \in Atomic!Request /\ r.base \in 0..Len(hist) /\ r.kind \in {"cas", "k8s"}
  <2>1. 0..Len(hist) \subseteq Nat
    BY <1>1, Types
  <2>2. CASE r \in [kind: {"cas"}, val: Value, base: 0..Len(hist), accept: BOOLEAN]
    BY <2>1, <2>2 DEF Atomic!Request, Atomic!RequestFrom
  <2>3. CASE r \in [kind: {"k8s"}, val: Value, base: 0..Len(hist), accept: {FALSE}]
    BY <2>1, <2>3 DEF Atomic!Request, Atomic!RequestFrom
  <2> QED
    BY <2>2, <2>3 DEF Atomic!RequestFrom
<1>5. /\ pc' = [pc EXCEPT ![e] = IF r.kind = "cas" THEN "getLive" ELSE "commit"]
      /\ todo' = [todo EXCEPT ![e] = IF r.kind = "cas" THEN todo[e]
                    ELSE [guard |-> r.base, val |-> r.val, status |-> "ok"]]
  BY <1>1, <1>4, Types DEF Submit, Prepare
<1>6. [guard |-> r.base, val |-> r.val, status |-> "ok"] \in Txn
  BY <1>4 DEF Txn, Atomic!Request, Atomic!RequestFrom
<1>7. TypeOK'
  BY <1>1, <1>2, <1>3, <1>4, <1>5, <1>6, Types, Defaults, TypesBack DEF PC
<1>8. Others(e)
  BY <1>1, <1>2, <1>5, Types DEF Others, Untouched
<1>9. EditorOK(e)'
  <2>1. /\ req'[e] = r /\ since'[e] = Len(hist) /\ reply'[e] = Atomic!NoReply
        /\ attempt'[e] = 0 /\ pc'[e] = IF r.kind = "cas" THEN "getLive" ELSE "commit"
    BY <1>1, <1>2, <1>5, Types DEF EditorOK, RequestOK, AttemptOK
  <2>2. RequestOK(e)'
    BY <1>1, <1>2, <1>4, <2>1, Types DEF RequestOK, Atomic!NoRequest
  <2>3. AttemptOK(e)'
    BY <1>1, <1>2, <2>1, Types, MaxAttemptsAssumption DEF AttemptOK
  <2>4. SeenOK(e)'
    BY <1>4, <2>1 DEF SeenOK
  <2>5. TodoOK(e)'
    BY <1>1, <1>4, <1>5, <2>1, Types DEF TodoOK, Atomic!Puts, Atomic!Straight
  <2>6. AnswerOK(e)'
    BY <2>1 DEF AnswerOK, Atomic!NoReply, Atomic!Answer
  <2> QED
    BY <2>2, <2>3, <2>4, <2>5, <2>6 DEF EditorOK
<1> QED
  BY <1>3, <1>7, <1>8, <1>9 DEF Progress

\* The read of the live state, which starts an attempt.
LEMMA GetLiveProgress ==
  ASSUME IInv, NEW e \in Editor, GetLive(e)
  PROVE  Progress(e)
<1> DEFINE straight == req[e].base = 0 \/ Live.mod = req[e].base
           txn == [guard |-> req[e].base, val |-> req[e].val, status |-> "ok"]
<1>1. TypeOK /\ EditorOK(e)
  BY DEF IInv
<1>2. /\ hist' = hist /\ compacted' = compacted /\ inflight' = inflight
      /\ req' = req /\ since' = since /\ reply' = reply /\ attempt' = attempt
      /\ seen' = [seen EXCEPT ![e] = Live] /\ seenAt' = [seenAt EXCEPT ![e] = Len(hist)]
  BY DEF GetLive, storeVars
<1>3. Moves /\ inflight' \subseteq GuardedPut
  BY <1>1, <1>2, Types DEF Moves, Grown
<1>4. /\ req[e] \in Atomic!Request /\ req[e].kind = "cas" /\ req[e].base \in 0..Len(hist)
      /\ since[e] \in 1..Len(hist) /\ reply[e] = Atomic!NoReply
  BY <1>1, Types DEF GetLive, EditorOK, RequestOK, Atomic!Request, Atomic!RequestFrom
<1>5. /\ pc' = [pc EXCEPT ![e] = IF straight THEN "commit" ELSE "getBase"]
      /\ todo' = [todo EXCEPT ![e] = IF straight THEN txn ELSE todo[e]]
  BY <1>1, Types DEF GetLive, Prepare
<1>6. txn \in Txn
  BY <1>4 DEF Txn, Atomic!Request, Atomic!RequestFrom
<1>7. TypeOK'
  BY <1>1, <1>2, <1>3, <1>5, <1>6, Types, TypesBack DEF PC
<1>8. Others(e)
  BY <1>1, <1>2, <1>5, Types DEF Others, Untouched
<1>9. EditorOK(e)'
  <2>1. /\ seen'[e] = Live /\ seenAt'[e] = Len(hist)
        /\ pc'[e] = IF straight THEN "commit" ELSE "getBase"
        /\ straight => todo'[e] = txn
    BY <1>1, <1>2, <1>5, Types
  <2>2. RequestOK(e)'
    BY <1>1, <1>2, <1>4, <2>1 DEF EditorOK, RequestOK, GetLive
  <2>3. AttemptOK(e)'
    BY <1>1, <1>2, <2>1 DEF EditorOK, AttemptOK, GetLive
  <2>4. SeenOK(e)'
    BY <1>1, <1>2, <1>4, <2>1, Types
    DEF EditorOK, AttemptOK, SeenOK, GetLive, Live, Atomic!Straight
  <2>5. TodoOK(e)'
    BY <1>2, <2>1 DEF TodoOK, Atomic!Puts, Atomic!Straight
  <2>6. AnswerOK(e)'
    BY <1>2, <1>4 DEF AnswerOK, Atomic!NoReply, Atomic!Answer
  <2> QED
    BY <2>2, <2>3, <2>4, <2>5, <2>6 DEF EditorOK
<1> QED
  BY <1>3, <1>7, <1>8, <1>9 DEF Progress

\* What is known of a handler past its first Get, where a merge is needed.
LEMMA AtGetBase ==
  ASSUME IInv, NEW e \in Editor, pc[e] = "getBase"
  PROVE  /\ req[e] \in Atomic!Request /\ req[e].kind = "cas" /\ req[e].val \in Value
         /\ req[e].base \in 1..Len(hist) /\ req[e].accept \in BOOLEAN
         /\ since[e] \in 1..Len(hist) /\ reply[e] = Atomic!NoReply
         /\ seen[e] \in KeyState /\ ~Atomic!Straight(req[e], seen[e])
         /\ seenAt[e] \in since[e]..Len(hist) /\ seen[e] = hist[seenAt[e]]
         /\ BaseValues(e) \subseteq Value
         /\ BaseValues(e) \subseteq Atomic!Bases(req[e], seen[e])
<1>1. TypeOK /\ EditorOK(e)
  BY DEF IInv
<1>2. /\ req[e] \in Atomic!Request /\ req[e].base \in 0..Len(hist)
      /\ since[e] \in 1..Len(hist) /\ reply[e] = Atomic!NoReply /\ req[e].kind # "k8s"
  BY <1>1, Types DEF EditorOK, RequestOK
<1>3. /\ req[e].kind = "cas" /\ req[e].val \in Value /\ req[e].accept \in BOOLEAN
  BY <1>2 DEF Atomic!Request, Atomic!RequestFrom
<1>4. /\ seenAt[e] \in since[e]..Len(hist) /\ seen[e] = hist[seenAt[e]]
      /\ ~Atomic!Straight(req[e], seen[e])
  BY <1>1, <1>3 DEF EditorOK, SeenOK
<1>5. req[e].base \in 1..Len(hist)
  BY <1>1, <1>2, <1>4, Types DEF Atomic!Straight
<1>6. hist[req[e].base] \in KeyState /\ seen[e] \in KeyState
  BY <1>1, <1>5, Types
<1>7. BaseValues(e) \subseteq Value
  BY <1>6 DEF BaseValues, KeyState
<1>8. BaseValues(e) \subseteq Atomic!Bases(req[e], seen[e])
  BY DEF BaseValues, Atomic!Bases
<1> QED
  BY <1>2, <1>3, <1>4, <1>5, <1>6, <1>7, <1>8

\* The read of the base revision, which decides what the attempt does.
LEMMA GetBaseProgress ==
  ASSUME IInv, NEW e \in Editor, GetBase(e)
  PROVE  Progress(e)
<1>1. TypeOK /\ HistOK /\ EditorOK(e) /\ pc[e] = "getBase"
  BY DEF IInv, GetBase
<1>2. hist' = hist /\ compacted' = compacted /\ inflight' = inflight
  BY DEF GetBase, storeVars
<1>3. Moves /\ inflight' \subseteq GuardedPut
  BY <1>1, <1>2, Types DEF Moves, Grown
<1>4. PICK base \in BaseValues(e):
        LET m == Merge(base, req[e].val, seen[e].val) IN
         \/ /\ m.status = "nochange"
            /\ Return(e, Atomic!Answer("ok", seen[e].mod, seen[e].val))
         \/ /\ Atomic!Writable(req[e], m)
            /\ Prepare(e, [guard |-> seen[e].mod, val |-> m.merged, status |-> "merged"])
            /\ UNCHANGED <<req, since, reply, attempt, seen, seenAt>>
         \/ /\ m.status = "conflict" /\ ~req[e].accept
            /\ Return(e, Atomic!Answer("conflict", 0, Empty))
  BY DEF GetBase
<1> DEFINE m == Merge(base, req[e].val, seen[e].val)
<1>5. m.merged \in Value
  BY <1>1, AtGetBase, MergeTypes DEF KeyState
<1>6. CASE Return(e, Atomic!Answer("ok", seen[e].mod, seen[e].val))
  <2> DEFINE answer == Atomic!Answer("ok", seen[e].mod, seen[e].val)
  <2>1. seen[e] \in KeyState /\ seenAt[e] \in 1..Len(hist) /\ seen[e] = hist[seenAt[e]]
    BY <1>1, AtGetBase, Types
  <2>2. answer \in Atomic!Reply
    BY <2>1 DEF Atomic!Answer, Atomic!Reply, Atomic!Status, KeyState
  <2>3. \/ answer.rev = 0 /\ answer.val = Empty
        \/ /\ answer.rev \in 1..Len(hist')
           /\ hist'[answer.rev] = [val |-> answer.val, mod |-> answer.rev]
    <3>1. CASE seen[e] = Absent
      BY <3>1 DEF Absent, Atomic!Answer
    <3>2. CASE seen[e] # Absent
      <4>1. seen[e].mod \in 1..Len(hist) /\ hist[seen[e].mod] = seen[e]
        BY <1>1, <2>1, <3>2, Types DEF HistOK
      <4> QED
        BY <1>2, <2>1, <4>1 DEF KeyState, Atomic!Answer
    <3> QED
      BY <3>1, <3>2
  <2> QED
    BY <1>3, <1>6, <2>2, <2>3, Returning
<1>7. CASE /\ Atomic!Writable(req[e], m)
           /\ Prepare(e, [guard |-> seen[e].mod, val |-> m.merged, status |-> "merged"])
           /\ UNCHANGED <<req, since, reply, attempt, seen, seenAt>>
  <2> DEFINE txn == [guard |-> seen[e].mod, val |-> m.merged, status |-> "merged"]
  <2>1. /\ pc' = [pc EXCEPT ![e] = "commit"] /\ todo' = [todo EXCEPT ![e] = txn]
        /\ UNCHANGED <<req, since, reply, attempt, seen, seenAt>>
    BY <1>7 DEF Prepare
  <2>2. txn \in Txn
    BY <1>1, <1>5, AtGetBase DEF Txn, KeyState
  <2>3. TypeOK'
    BY <1>1, <1>3, <2>1, <2>2, Types, TypesBack DEF PC
  <2>4. Others(e)
    BY <1>1, <2>1, Types DEF Others, Untouched
  <2>5. pc'[e] = "commit" /\ todo'[e] = txn
    BY <1>1, <2>1, Types
  <2>6. txn \in Atomic!Puts(req[e], seen[e])
    <3>1. m \in Atomic!Merges(req[e], seen[e])
      BY <1>1, AtGetBase DEF Atomic!Merges, Merge, Atomic!Merge
    <3> QED
      BY <1>1, <1>7, <3>1, AtGetBase DEF Atomic!Puts
  <2>7. TodoOK(e)'
    BY <1>2, <2>1, <2>5, <2>6
    DEF TodoOK, Atomic!Puts, Atomic!Merges, Atomic!Bases, Atomic!Straight, Atomic!Writable
  <2>8. EditorOK(e)'
    BY <1>1, <1>2, <2>1, <2>5, <2>7, AtGetBase
    DEF EditorOK, RequestOK, AttemptOK, SeenOK, AnswerOK, Atomic!NoReply, Atomic!Answer
  <2> QED
    BY <1>3, <2>3, <2>4, <2>8 DEF Progress
<1>8. CASE Return(e, Atomic!Answer("conflict", 0, Empty))
  BY <1>3, <1>8, Returning, ValueAssumption
  DEF Atomic!Answer, Atomic!Reply, Atomic!Status
<1> QED
  BY <1>4, <1>6, <1>7, <1>8

\* What is known of a handler about to commit.
LEMMA AtCommit ==
  ASSUME IInv, NEW e \in Editor, pc[e] = "commit"
  PROVE  /\ req[e] \in Atomic!Request /\ req[e].kind \in {"cas", "k8s"}
         /\ req[e].base \in 0..Len(hist)
         /\ since[e] \in 1..Len(hist) /\ reply[e] = Atomic!NoReply
         /\ todo[e] \in Txn /\ todo[e] \in Atomic!Puts(req[e], seen[e])
         /\ req[e].base # 0 /\ req[e].kind = "cas" =>
              /\ todo[e].guard = seen[e].mod
              /\ seenAt[e] \in since[e]..Len(hist) /\ seen[e] = hist[seenAt[e]]
              /\ since[e] + attempt[e] <= seenAt[e]
<1>1. TypeOK /\ EditorOK(e)
  BY DEF IInv
<1>2. /\ req[e] \in Atomic!Request /\ req[e].kind \in {"cas", "k8s"}
      /\ req[e].base \in 0..Len(hist)
      /\ since[e] \in 1..Len(hist) /\ reply[e] = Atomic!NoReply
  BY <1>1, Types DEF EditorOK, RequestOK, Atomic!Request, Atomic!RequestFrom
<1>3. todo[e] \in Txn /\ todo[e] \in Atomic!Puts(req[e], seen[e])
  BY <1>1, Types DEF EditorOK, TodoOK
<1>4. ASSUME req[e].base # 0, req[e].kind = "cas"
      PROVE  todo[e].guard = seen[e].mod
  BY <1>3, <1>4 DEF Atomic!Puts, Atomic!Straight
<1> QED
  BY <1>1, <1>2, <1>3, <1>4 DEF EditorOK, SeenOK

\* The guarded transaction whose guard holds.
LEMMA CommitProgress ==
  ASSUME IInv, NEW e \in Editor, Commit(e)
  PROVE  Progress(e)
<1> DEFINE answer == Atomic!Answer(todo[e].status, Len(hist) + 1, todo[e].val)
<1>1. TypeOK /\ pc[e] = "commit"
  BY DEF IInv, Commit
<1>2. todo[e].val \in Value /\ todo[e].status \in {"ok", "merged"}
  BY <1>1, Types DEF Txn
<1>3. hist' = PutResult(todo[e].val) /\ compacted' = compacted /\ inflight' = inflight
  BY DEF Commit
<1>4. Moves /\ inflight' \subseteq GuardedPut
  BY <1>1, <1>2, <1>3, Types DEF Moves, Grown
<1>5. answer \in Atomic!Reply
  BY <1>1, <1>2, Types DEF Atomic!Answer, Atomic!Reply, Atomic!Status
<1>6. /\ answer.rev \in 1..Len(hist')
      /\ hist'[answer.rev] = [val |-> answer.val, mod |-> answer.rev]
  BY <1>1, <1>2, <1>3, Types DEF PutResult, Atomic!Answer, KeyState
<1> QED
  BY <1>4, <1>5, <1>6, Returning DEF Commit

\* A guard that fails after a retry's Get shows the key has moved since.
LEMMA LostMeansMoved ==
  ASSUME IInv, NEW e \in Editor, pc[e] = "commit", ~GuardHolds(todo[e].guard),
         req[e].kind = "cas", req[e].base # 0
  PROVE  since[e] + attempt[e] + 1 <= Len(hist)
<1>1. TypeOK
  BY DEF IInv
<1>2. seenAt[e] # Len(hist)
  BY AtCommit DEF GuardHolds, Live
<1> QED
  BY <1>1, <1>2, AtCommit, Types, MaxAttemptsAssumption

\* The guarded transaction whose guard fails: another attempt, or the last answer.
LEMMA LoseRaceProgress ==
  ASSUME IInv, NEW e \in Editor, LoseRace(e)
  PROVE  Progress(e)
<1>1. TypeOK /\ EditorOK(e) /\ pc[e] = "commit" /\ ~GuardHolds(todo[e].guard)
  BY DEF IInv, LoseRace
<1>2. hist' = hist /\ compacted' = compacted /\ inflight' = inflight
  BY DEF LoseRace, storeVars
<1>3. Moves /\ inflight' \subseteq GuardedPut
  BY <1>1, <1>2, Types DEF Moves, Grown
<1>4. CASE \E st \in {"conflict", "busy"}: Return(e, Atomic!Answer(st, 0, Empty))
  BY <1>3, <1>4, Returning, ValueAssumption
  DEF Atomic!Answer, Atomic!Reply, Atomic!Status
<1>5. CASE /\ req[e].kind = "cas"
           /\ attempt[e] + 1 < MaxAttempts
           /\ StartOver(e)
           /\ UNCHANGED <<req, since, reply>>
  <2>1. TypeOK'
    <3>1. "getLive" \in PC /\ 0 \in Nat /\ attempt[e] + 1 \in 0..MaxAttempts
      BY <1>1, <1>5, Types, MaxAttemptsAssumption DEF PC
    <3> QED
      BY <1>1, <1>3, <1>5, <3>1, Types, Defaults, TypesBack DEF StartOver
  <2>2. Others(e)
    BY <1>1, <1>5, Types DEF Others, Untouched, StartOver
  <2>3. pc'[e] = "getLive" /\ attempt'[e] = attempt[e] + 1
    BY <1>1, <1>5, Types DEF StartOver
  <2>4. AttemptOK(e)'
    BY <1>1, <1>2, <1>5, <2>3, LostMeansMoved, Types, MaxAttemptsAssumption DEF AttemptOK
  <2>5. EditorOK(e)'
    BY <1>1, <1>2, <1>5, <2>3, <2>4, AtCommit
    DEF EditorOK, RequestOK, SeenOK, TodoOK, AnswerOK, Atomic!NoReply, Atomic!Answer
  <2> QED
    BY <1>3, <2>1, <2>2, <2>5 DEF Progress
<1> QED
  BY <1>4, <1>5 DEF LoseRace

\* A call to etcd that fails ends the handler.
LEMMA CallFailsProgress ==
  ASSUME IInv, NEW e \in Editor, CallFails(e)
  PROVE  Progress(e)
<1>1. TypeOK
  BY DEF IInv
<1>2. hist' = hist /\ compacted' = compacted
      /\ Return(e, Atomic!Answer("error", 0, Empty))
  BY DEF CallFails
<1>3. inflight' \subseteq GuardedPut
  BY <1>1, Types DEF CallFails, Txn, GuardedPut
<1>4. Moves
  BY <1>1, <1>2, Types DEF Moves, Grown
<1> QED
  BY <1>2, <1>3, <1>4, Returning, ValueAssumption
  DEF Atomic!Answer, Atomic!Reply, Atomic!Status

\* The store moves by itself: every editor is left alone.
LEMMA EnvironmentMoves ==
  ASSUME IInv, Environment
  PROVE  /\ TypeOK' /\ Moves
         /\ \A e \in Editor: Untouched(e)
<1>1. TypeOK
  BY DEF IInv
<1>2. UNCHANGED <<req, since, reply, pc, attempt, seen, seenAt, todo>>
  BY DEF Environment, handlerVars
<1>3. Moves /\ inflight' \subseteq GuardedPut
  <2>1. CASE \E v \in Draft: PlainPut(v)
    BY <1>1, <2>1, Types, ValueAssumption DEF PlainPut, Moves, Grown
  <2>2. CASE PlainDelete
    BY <1>1, <2>2, Types DEF PlainDelete, Moves, Grown
  <2>3. CASE \E r \in 2..Len(hist): Compact(r)
    BY <1>1, <2>3, Types DEF Compact, Moves, Grown
  <2>4. CASE \E p \in inflight: ApplyLate(p)
    <3> PICK p \in inflight: ApplyLate(p)
      BY <2>4
    <3>1. p.val \in Value
      BY <1>1, Types DEF GuardedPut
    <3> QED
      BY <1>1, <3>1, Types DEF ApplyLate, Moves, Grown
  <2> QED
    BY <2>1, <2>2, <2>3, <2>4 DEF Environment, StoreNext
<1>4. TypeOK'
  BY <1>1, <1>2, <1>3, Types, TypesBack
<1> QED
  BY <1>2, <1>3, <1>4 DEF Untouched

----------------------------------------------------------------------------
(***************************************************************************)
(* The invariant.                                                          *)
(***************************************************************************)
LEMMA InitIInv == Init => IInv
<1> SUFFICES ASSUME Init PROVE IInv
  OBVIOUS
<1>1. /\ hist = <<Absent>> /\ compacted = 0 /\ inflight = {}
      /\ req = [e \in Editor |-> Atomic!NoRequest]
      /\ since = [e \in Editor |-> 0]
      /\ reply = [e \in Editor |-> Atomic!NoReply]
  BY DEF Init, Atomic!Init, Atomic!StoreInit, Atomic!Absent, Absent
<1>2. TypeOK
  BY <1>1, Defaults, MaxAttemptsAssumption
  DEF Init, TypeOK, Atomic!TypeOK, Atomic!StoreTypeOK, Atomic!KeyState, KeyState, PC
<1>3. HistOK
  BY <1>1 DEF HistOK
<1>4. ASSUME NEW e \in Editor PROVE EditorOK(e)
  BY <1>1, MaxAttemptsAssumption
  DEF Init, EditorOK, RequestOK, AttemptOK, SeenOK, TodoOK, AnswerOK, Atomic!NoReply,
      Atomic!Answer
<1> QED
  BY <1>2, <1>3, <1>4 DEF IInv

\* Whatever a handler does, or the store, the inductive invariant is kept.
LEMMA ProgressIInv ==
  ASSUME IInv, NEW e \in Editor, Progress(e)
  PROVE  IInv'
<1>1. HistOK'
  BY Growth, Types DEF IInv, Progress, Moves
<1>2. ASSUME NEW f \in Editor PROVE EditorOK(f)'
  BY StoreMoves DEF Progress, Others
<1> QED
  BY <1>1, <1>2 DEF IInv, Progress

LEMMA HandlerIInv == ASSUME IInv, NEW e \in Editor, Handler(e) PROVE IInv'
BY ProgressIInv, GetLiveProgress, GetBaseProgress, CommitProgress, LoseRaceProgress,
   CallFailsProgress
DEF Handler

LEMMA EnvironmentIInv == IInv /\ Environment => IInv'
<1> SUFFICES ASSUME IInv, Environment PROVE IInv'
  OBVIOUS
<1>1. TypeOK' /\ Moves /\ \A e \in Editor: EditorOK(e)'
  BY EnvironmentMoves, StoreMoves
<1>2. HistOK'
  BY <1>1, Growth, Types DEF IInv, Moves
<1> QED
  BY <1>1, <1>2 DEF IInv

LEMMA StutterIInv == IInv /\ UNCHANGED vars => IInv'
<1> SUFFICES ASSUME IInv, UNCHANGED vars PROVE IInv'
  OBVIOUS
<1>1. /\ UNCHANGED <<hist, compacted, inflight, req, since, reply>>
      /\ UNCHANGED <<pc, attempt, seen, seenAt, todo>>
  BY DEF vars, storeVars, handlerVars
<1>2. Moves /\ \A e \in Editor: Untouched(e)
  BY <1>1, Types DEF IInv, Moves, Grown, Untouched
<1>3. TypeOK'
  BY <1>1, <1>2, Types, TypesBack DEF IInv
<1>4. HistOK'
  BY <1>2, Growth, Types DEF IInv, Moves
<1> QED
  BY <1>2, <1>3, <1>4, StoreMoves DEF IInv

LEMMA NextIInv == IInv /\ [Next]_vars => IInv'
<1> SUFFICES ASSUME IInv, [Next]_vars PROVE IInv'
  OBVIOUS
<1>1. ASSUME NEW e \in Editor, NEW r \in Atomic!RequestFrom(Draft, 0..Len(hist)),
             Submit(e, r)
      PROVE  IInv'
  <2>1. r \in Atomic!RequestFrom(Value, 0..Len(hist))
    BY ValueAssumption DEF Atomic!RequestFrom
  <2> QED
    BY <1>1, <2>1, SubmitProgress, ProgressIInv
<1> QED
  BY <1>1, HandlerIInv, EnvironmentIInv, StutterIInv DEF Next

\* IInv holds in every reachable state: the history's revisions identify its
\* states, and every open request is at a point its handler can be at.
THEOREM Invariance == Spec => []IInv
BY InitIInv, NextIInv, PTL DEF Spec

\* Every variable of the save endpoints has its type.
THEOREM TypeCorrect == Spec => []TypeOK
<1>1. IInv => TypeOK
  BY DEF IInv
<1> QED
  BY <1>1, Invariance, PTL

\* An acknowledged save names a revision that holds the value the client takes
\* to be stored, for any number of editors, attempts, failures and compactions.
THEOREM AnswersHold == Spec => []AnsweredSaveIsStored
<1>1. IInv => AnsweredSaveIsStored
  BY DEF IInv, EditorOK, AnsweredSaveIsStored
<1> QED
  BY <1>1, Invariance, PTL

----------------------------------------------------------------------------
(***************************************************************************)
(* PutCas implements AtomicSave.  The save takes place when the            *)
(* transaction commits: its guard can only hold if the key is then in the  *)
(* very state that the attempt read and merged with.                       *)
(***************************************************************************)
\* A modRevision identifies a state: two states of the history that have the
\* same one are the same.
LEMMA ModIdentifies ==
  ASSUME hist \in Seq(KeyState), HistOK,
         NEW i \in 1..Len(hist), NEW j \in 1..Len(hist), hist[i].mod = hist[j].mod
  PROVE  hist[i] = hist[j]
BY DEF HistOK, Absent, KeyState

\* An editor with an open request: a step of the promise it stands for.
LEMMA AtomicStep ==
  ASSUME NEW e \in Editor, req[e] # Atomic!NoRequest,
         Atomic!Save(e) \/ Atomic!AlreadySaved(e) \/ Atomic!Conflict(e)
           \/ Atomic!Busy(e) \/ Atomic!Fail(e)
  PROVE  Atomic!Next
BY DEF Atomic!Next

\* The read of the base revision answers at once, or stutters.
LEMMA GetBaseRefines ==
  ASSUME IInv, NEW e \in Editor, GetBase(e)
  PROVE  Atomic!Next \/ UNCHANGED Atomic!vars
<1>1. TypeOK /\ pc[e] = "getBase" /\ EditorOK(e)
  BY DEF IInv, GetBase
<1>2. hist' = hist /\ compacted' = compacted /\ inflight' = inflight
  BY DEF GetBase, storeVars
<1>3. PICK base \in BaseValues(e):
        LET m == Merge(base, req[e].val, seen[e].val) IN
         \/ /\ m.status = "nochange"
            /\ Return(e, Atomic!Answer("ok", seen[e].mod, seen[e].val))
         \/ /\ Atomic!Writable(req[e], m)
            /\ Prepare(e, [guard |-> seen[e].mod, val |-> m.merged, status |-> "merged"])
            /\ UNCHANGED <<req, since, reply, attempt, seen, seenAt>>
         \/ /\ m.status = "conflict" /\ ~req[e].accept
            /\ Return(e, Atomic!Answer("conflict", 0, Empty))
  BY DEF GetBase
<1> DEFINE m == Merge(base, req[e].val, seen[e].val)
<1>4. seen[e] \in Atomic!Witnessed(e)
  BY <1>1, AtGetBase, Types DEF Atomic!Witnessed
<1>5. req[e] # Atomic!NoRequest
  BY <1>1 DEF EditorOK, RequestOK
<1>6. CASE m.status = "nochange" /\ Return(e, Atomic!Answer("ok", seen[e].mod, seen[e].val))
  <2>1. base \in Value /\ req[e].val \in Value /\ seen[e].val \in Value
    BY <1>1, AtGetBase DEF KeyState
  <2>2. seen[e].val = req[e].val
    BY <1>6, <2>1, WeaveAssumption DEF Merge, WeaveResult
  <2>3. Atomic!AlreadySaved(e)
    BY <1>1, <1>2, <1>4, <1>6, <2>2, AtGetBase
    DEF Atomic!AlreadySaved, Return, Atomic!storeVars
  <2> QED
    BY <1>5, <2>3, AtomicStep
<1>7. CASE UNCHANGED <<req, since, reply, attempt, seen, seenAt>>
  BY <1>2, <1>7 DEF Atomic!vars, Atomic!storeVars
<1>8. CASE /\ m.status = "conflict" /\ ~req[e].accept
           /\ Return(e, Atomic!Answer("conflict", 0, Empty))
  <2>1. m \in Atomic!Merges(req[e], seen[e])
    BY <1>1, AtGetBase DEF Atomic!Merges, Merge, Atomic!Merge
  <2>2. Atomic!Conflict(e)
    BY <1>2, <1>4, <1>8, <2>1 DEF Atomic!Conflict, Return, Atomic!storeVars
  <2> QED
    BY <1>5, <2>2, AtomicStep
<1> QED
  BY <1>3, <1>6, <1>7, <1>8

\* The transaction that goes through saves the request for the live state.
LEMMA CommitPuts ==
  ASSUME IInv, NEW e \in Editor, Commit(e)
  PROVE  todo[e] \in Atomic!Puts(req[e], Live)
<1>1. TypeOK /\ HistOK /\ pc[e] = "commit" /\ GuardHolds(todo[e].guard) /\ EditorOK(e)
  BY DEF IInv, Commit
<1>2. CASE req[e].base = 0 \/ req[e].kind = "k8s"
  BY <1>1, <1>2, AtCommit DEF Atomic!Puts, Atomic!Straight
<1>3. CASE req[e].base # 0 /\ req[e].kind = "cas"
  <2>1. hist[seenAt[e]].mod = Live.mod
    BY <1>1, <1>3, AtCommit DEF GuardHolds
  <2>2. seenAt[e] \in 1..Len(hist) /\ Len(hist) \in 1..Len(hist)
    BY <1>1, <1>3, AtCommit, Types
  <2>3. seen[e] = Live
    BY <1>1, <1>3, <2>1, <2>2, AtCommit, ModIdentifies, Types DEF Live
  <2> QED
    BY <1>1, <2>3, AtCommit
<1> QED
  BY <1>1, <1>2, <1>3, AtCommit

\* The transaction that goes through is the atomic save.
LEMMA CommitRefines ==
  ASSUME IInv, NEW e \in Editor, Commit(e)
  PROVE  Atomic!Next
<1>1. TypeOK /\ HistOK /\ pc[e] = "commit" /\ GuardHolds(todo[e].guard) /\ EditorOK(e)
  BY DEF IInv, Commit
<1>2. todo[e] \in Atomic!Puts(req[e], Live)
  BY CommitPuts
<1>3. Atomic!Save(e)
  <2>1. Atomic!Live = Live /\ Atomic!GuardHolds(todo[e].guard)
        /\ Atomic!PutResult(todo[e].val) = PutResult(todo[e].val)
    BY <1>1 DEF Atomic!Live, Live, Atomic!GuardHolds, GuardHolds, Atomic!PutResult, PutResult
  <2> QED
    BY <1>2, <2>1 DEF Atomic!Save, Commit, Return
<1>4. req[e] # Atomic!NoRequest
  BY <1>1 DEF EditorOK, RequestOK
<1> QED
  BY <1>3, <1>4, AtomicStep

\* A lost race stutters; the last one is an answer.
LEMMA LoseRaceRefines ==
  ASSUME IInv, NEW e \in Editor, LoseRace(e)
  PROVE  Atomic!Next \/ UNCHANGED Atomic!vars
<1>1. TypeOK /\ EditorOK(e) /\ pc[e] = "commit" /\ ~GuardHolds(todo[e].guard)
  BY DEF IInv, LoseRace
<1>2. hist' = hist /\ compacted' = compacted /\ inflight' = inflight
  BY DEF LoseRace, storeVars
<1>3. Live \in Atomic!Witnessed(e)
  BY <1>1, AtCommit, Types DEF Atomic!Witnessed, Live
<1>4. req[e] # Atomic!NoRequest
  BY <1>1 DEF EditorOK, RequestOK
<1>5. ASSUME req[e].base = 0 \/ req[e].kind = "k8s" PROVE Live.mod # req[e].base
  <2>1. todo[e] \in Atomic!Puts(req[e], seen[e])
    BY <1>1, AtCommit
  <2>2. todo[e].guard = req[e].base
    BY <1>5, <2>1 DEF Atomic!Puts, Atomic!Straight
  <2> QED
    BY <1>1, <2>2 DEF GuardHolds
<1>6. CASE req[e].kind = "k8s" /\ Return(e, Atomic!Answer("conflict", 0, Empty))
  <2>1. Atomic!Conflict(e)
    BY <1>2, <1>3, <1>5, <1>6 DEF Atomic!Conflict, Return, Atomic!storeVars
  <2> QED
    BY <1>4, <2>1, AtomicStep
<1>7. CASE UNCHANGED <<req, since, reply>>
  BY <1>2, <1>7 DEF Atomic!vars, Atomic!storeVars
<1>8. CASE /\ req[e].kind = "cas"
           /\ attempt[e] + 1 >= MaxAttempts
           /\ Return(e, Atomic!Answer("busy", 0, Empty))
  <2>1. CASE req[e].base = 0
    BY <1>2, <1>3, <1>4, <1>5, <1>8, <2>1, AtomicStep
    DEF Atomic!Busy, Return, Atomic!storeVars
  <2>2. CASE req[e].base # 0
    <3>1. Len(hist) >= since[e] + MaxAttempts
      BY <1>1, <1>8, <2>2, LostMeansMoved, AtCommit, Types, MaxAttemptsAssumption
    <3> QED
      BY <1>2, <1>4, <1>8, <2>2, <3>1, AtomicStep
      DEF Atomic!Busy, Return, Atomic!storeVars
  <2> QED
    BY <2>1, <2>2
<1> QED
  BY <1>6, <1>7, <1>8 DEF LoseRace

\* A call that fails is a save that fails.
LEMMA CallFailsRefines ==
  ASSUME IInv, NEW e \in Editor, CallFails(e)
  PROVE  Atomic!Next
<1>1. TypeOK /\ EditorOK(e) /\ pc[e] \in {"getLive", "commit"}
  BY FaultsAssumption DEF IInv, CallFails
<1>2. req[e] # Atomic!NoRequest
  BY <1>1 DEF EditorOK, RequestOK
<1>3. ASSUME pc[e] = "commit"
      PROVE  \E s \in Atomic!Witnessed(e): todo[e] \in Atomic!Puts(req[e], s)
  <2>1. CASE req[e].base = 0 \/ req[e].kind = "k8s"
    <3>1. Live \in Atomic!Witnessed(e)
      BY <1>1, <1>3, AtCommit, Types DEF Atomic!Witnessed, Live
    <3>2. todo[e] \in Atomic!Puts(req[e], Live)
      BY <1>3, <2>1, AtCommit DEF Atomic!Puts, Atomic!Straight
    <3> QED
      BY <3>1, <3>2
  <2>2. CASE req[e].base # 0 /\ req[e].kind = "cas"
    <3>1. seen[e] \in Atomic!Witnessed(e)
      BY <1>3, <2>2, AtCommit DEF Atomic!Witnessed
    <3> QED
      BY <1>3, <3>1, AtCommit
  <2> QED
    BY <1>3, <2>1, <2>2, AtCommit
<1>4. Atomic!Fail(e)
  <2>1. /\ Faults \ {"getBase"} # {}
        /\ Return(e, Atomic!Answer("error", 0, Empty)) /\ UNCHANGED <<hist, compacted>>
    BY DEF CallFails
  <2>2. \/ UNCHANGED inflight
        \/ \E s \in Atomic!Witnessed(e): \E p \in Atomic!Puts(req[e], s):
             inflight' = inflight \cup {[guard |-> p.guard, val |-> p.val]}
    BY <1>3 DEF CallFails
  <2> QED
    BY <2>1, <2>2 DEF Atomic!Fail, Return
<1> QED
  BY <1>2, <1>4, AtomicStep

\* Every step is an abstract step or a stutter.
LEMMA NextRefines == IInv /\ [Next]_vars => [Atomic!Next]_(Atomic!vars)
<1> SUFFICES ASSUME IInv, [Next]_vars PROVE Atomic!Next \/ UNCHANGED Atomic!vars
  OBVIOUS
<1>1. ASSUME NEW e \in Editor, NEW r \in Atomic!RequestFrom(Draft, 0..Len(hist)),
             Submit(e, r)
      PROVE  Atomic!Next
  BY <1>1 DEF Submit, Atomic!Next
<1>2. ASSUME NEW e \in Editor, GetLive(e) PROVE UNCHANGED Atomic!vars
  BY <1>2 DEF GetLive, storeVars, Atomic!vars, Atomic!storeVars
<1>3. CASE Environment
  <2>1. UNCHANGED <<req, since, reply>>
    BY <1>3 DEF Environment
  <2>2. Atomic!StoreNext
    BY <1>3
    DEF Environment, StoreNext, PlainPut, PlainDelete, Compact, ApplyLate, PutResult,
        Live, GuardHolds, Absent, Atomic!StoreNext, Atomic!PlainPut, Atomic!PlainDelete,
        Atomic!Compact, Atomic!ApplyLate, Atomic!PutResult, Atomic!Live,
        Atomic!GuardHolds, Atomic!Absent
  <2> QED
    BY <2>1, <2>2 DEF Atomic!Next, Atomic!Environment
<1>4. CASE UNCHANGED vars
  BY <1>4 DEF vars, storeVars, Atomic!vars, Atomic!storeVars
<1> QED
  BY <1>1, <1>2, <1>3, <1>4, GetBaseRefines, CommitRefines, LoseRaceRefines,
     CallFailsRefines
  DEF Next, Handler

\* The handlers implement AtomicSave: whatever the other editors, the plain
\* writes, the compactions and the failing calls do between the three etcd
\* calls of an attempt, and however often it is retried.
THEOREM Refinement == Spec => Implements
<1>1. Init => Atomic!Init
  BY DEF Init
<1> QED
  BY <1>1, NextRefines, Invariance, PTL DEF Spec, Implements, Atomic!Spec

----------------------------------------------------------------------------
(***************************************************************************)
(* Edits of others.  The transaction replaces the very state the attempt   *)
(* merged with, so that what it writes has the edits the merge had.        *)
(***************************************************************************)
LEMMA SameMerge ==
  ASSUME NEW b, NEW o, NEW t
  PROVE  Atomic!Merge(b, o, t) = Merge(b, o, t)
BY DEF Merge, Atomic!Merge

\* The request found the state it was written on.
Unmoved(e) ==
  /\ todo[e].status = "ok" /\ todo[e].val = req[e].val /\ todo[e].guard = req[e].base
  /\ Live = IF req[e].base = 0 THEN Absent ELSE hist[req[e].base]

\* The request is merged with the live state: on what it was written on, or, if that
\* cannot be read, on the live state itself.
MergedOn(e, base) ==
  /\ todo[e].status = "merged" /\ req[e].base # 0
  /\ todo[e].val = Merge(base, req[e].val, Live.val).merged

LEMMA CommitIs ==
  ASSUME IInv, NEW e \in Editor, Commit(e)
  PROVE  /\ \/ Unmoved(e)
            \/ MergedOn(e, hist[req[e].base].val)
            \/ MergedOn(e, Live.val) /\ ~BaseReadable(e)
         /\ hist'[Len(hist')].val = todo[e].val
         /\ reply'[e].status = todo[e].status
<1> DEFINE r == req[e]
<1>1. TypeOK /\ HistOK /\ pc[e] = "commit" /\ GuardHolds(todo[e].guard) /\ EditorOK(e)
  BY DEF IInv, Commit
<1>2. todo[e] \in Atomic!Puts(r, Live)
  BY <1>1, CommitPuts
<1>3. /\ r \in Atomic!Request /\ r.val \in Value /\ r.base \in 0..Len(hist)
      /\ Len(hist) \in Nat \ {0} /\ Live \in KeyState /\ Live = hist[Len(hist)]
      /\ hist \in Seq(KeyState) /\ compacted \in Nat
  BY <1>1, Types DEF EditorOK, RequestOK, Live, Atomic!Request, Atomic!RequestFrom
<1>4. hist'[Len(hist')].val = todo[e].val
  BY <1>3 DEF Commit, PutResult
<1>5. reply'[e].status = todo[e].status
  BY <1>1, Types DEF Commit, Return, Atomic!Return, Atomic!Answer
<1>6. CASE Atomic!Straight(r, Live)
  <2>1. todo[e] = [guard |-> r.base, val |-> r.val, status |-> "ok"] /\ Live.mod = r.base
    BY <1>1, <1>2, <1>6 DEF Atomic!Puts, GuardHolds
  <2>2. Live = Absent \/ (Live.mod \in 1..Len(hist) /\ hist[Live.mod] = Live)
    BY <1>1, <1>3 DEF HistOK
  <2>3. Live = IF r.base = 0 THEN Absent ELSE hist[r.base]
    BY <2>1, <2>2 DEF Absent
  <2>4. Unmoved(e)
    BY <2>1, <2>3 DEF Unmoved
  <2> QED
    BY <1>4, <1>5, <2>4
<1>7. CASE ~Atomic!Straight(r, Live)
  <2>1. r.base # 0
    BY <1>7 DEF Atomic!Straight
  <2>2. PICK b \in Atomic!Bases(r, Live):
          todo[e].status = "merged" /\ todo[e].val = Atomic!Merge(b, r.val, Live.val).merged
    BY <1>2, <1>7 DEF Atomic!Puts, Atomic!Merges
  <2>3. MergedOn(e, b)
    BY <2>1, <2>2, SameMerge DEF MergedOn
  <2>4. b = hist[r.base].val \/ (b = Live.val /\ ~BaseReadable(e))
    BY <1>3, <2>2 DEF Atomic!Bases, BaseReadable
  <2> QED
    BY <1>4, <1>5, <2>3, <2>4
<1> QED
  BY <1>6, <1>7

\* Where the edits do not meet, both are in what is written, or the base was not
\* read.
LEMMA CommitKeeps ==
  ASSUME IInv, NEW e \in Editor, Commit(e)
  PROVE  EditsKept(e)
<1> DEFINE r == req[e]
           saved == hist'[Len(hist')].val
<1>1. TypeOK /\ HistOK /\ EditorOK(e)
  BY DEF IInv, Commit
<1>2. /\ r \in Atomic!Request /\ r.val \in Value /\ r.base \in 0..Len(hist)
      /\ Len(hist) \in Nat \ {0} /\ Live \in KeyState /\ hist \in Seq(KeyState)
  BY <1>1, Types DEF Commit, EditorOK, RequestOK, Live, Atomic!Request, Atomic!RequestFrom
<1>3. Live.val \in Value
  BY <1>2 DEF KeyState
<1>4. Opened(e) \in Value
  <2>1. r.base # 0 => hist[r.base] \in KeyState
    BY <1>2
  <2> QED
    BY <2>1, ValueAssumption DEF Opened, KeyState
<1>5. SUFFICES ASSUME EditApart(Opened(e), r.val, Live.val)
               PROVE  \/ saved = EditsOfBoth(Opened(e), r.val, Live.val)
                      \/ saved = r.val /\ ~BaseReadable(e)
  BY DEF EditsKept
<1>6. Merge(Opened(e), r.val, Live.val).merged = EditsOfBoth(Opened(e), r.val, Live.val)
  BY <1>2, <1>3, <1>4, <1>5, ApartAssumption
<1>7. saved = todo[e].val
  BY CommitIs
<1>8. CASE Unmoved(e)
  <2>1. Opened(e) = Live.val /\ saved = r.val
    BY <1>7, <1>8 DEF Unmoved, Opened, Absent
  <2>2. Merge(Live.val, r.val, Live.val).merged = r.val
    BY DEF Merge
  <2> QED
    BY <1>6, <2>1, <2>2
<1>9. CASE MergedOn(e, hist[r.base].val)
  BY <1>6, <1>7, <1>9 DEF MergedOn, Opened
<1>10. CASE MergedOn(e, Live.val) /\ ~BaseReadable(e)
  <2>1. Merge(Live.val, r.val, Live.val).merged = r.val
    BY DEF Merge
  <2> QED
    BY <1>7, <1>10, <2>1 DEF MergedOn
<1> QED
  BY <1>8, <1>9, <1>10, CommitIs

\* Steps of others leave a request without an answer.
LEMMA NoAnswerYet ==
  ASSUME IInv, NEW e \in Editor, req[e] # Atomic!NoRequest
  PROVE  reply[e].status = "none"
BY DEF IInv, EditorOK, RequestOK, Atomic!NoReply, Atomic!Answer

\* Only a transaction answers a save by writing.
LEMMA SavesCommits ==
  ASSUME IInv, NEW e \in Editor, Saves(e),
         NEW f \in Editor, Commit(f)
  PROVE  f = e
<1>1. f # e => reply'[e] = reply[e]
  BY Types DEF Commit, Return, Atomic!Return, IInv
<1> QED
  BY <1>1, NoAnswerYet DEF Saves

\* Edits of others survive a save where they do not meet the client's own, and those
\* get in, unless the base cannot be read: for any values, any weave that merges what
\* does not meet, any number of editors, attempts, writes, compactions and calls that
\* fail.  (ApartEditsAreMerged: the weave of threewaymerge does, for all texts.)
THEOREM EditsSurvive == Spec => ForeignEditsSurvive
<1>1. IInv /\ [Next]_vars => [\A e \in Editor: Saves(e) => EditsKept(e)]_vars
  <2> SUFFICES ASSUME IInv, Next, NEW e \in Editor, Saves(e)
               PROVE  EditsKept(e)
    OBVIOUS
  <2>1. reply' # reply
    BY NoAnswerYet DEF Saves
  <2>2. hist' # hist
    BY Types DEF IInv, Saves
  <2>3. PICK f \in Editor: Commit(f)
    BY <2>1, <2>2
    DEF Next, Submit, Atomic!Invoke, Atomic!storeVars, Handler, GetLive, GetBase, LoseRace,
        CallFails, Environment, storeVars
  <2> QED
    BY <2>3, SavesCommits, CommitKeeps
<1> QED
  BY <1>1, Invariance, PTL DEF Spec, ForeignEditsSurvive

----------------------------------------------------------------------------
(***************************************************************************)
(* The tabs.  They send whatever they show on whatever revision they kept; *)
(* that the handlers' invariant survives this needs of a tab that its      *)
(* draft is a value and its base revision one of the store.  What a tab    *)
(* has opened is the state its base revision names.                        *)
(***************************************************************************)
\* s is the state of the key on base revision b.
IsOn(s, b) == s = IF b = 0 THEN Absent ELSE hist[b]

TabsOK ==
  /\ draft \in [Editor -> Value]
  /\ overlay \in [Editor -> SUBSET Value]
  /\ baseRev \in [Editor -> Nat] /\ \A e \in Editor: baseRev[e] <= Len(hist)

OpenedOK ==
  /\ opened \in [Editor -> SUBSET KeyState]
  /\ sentOn \in [Editor -> SUBSET KeyState]
  /\ \A e \in Editor: \A s \in opened[e]: IsOn(s, baseRev[e])
  /\ \A e \in Editor: req[e] # Atomic!NoRequest => \A s \in sentOn[e]: IsOn(s, req[e].base)

TabsInv == IInv /\ TabsOK /\ OpenedOK

LEMMA TabsInitOK == TabsInit => TabsInv
<1> SUFFICES ASSUME TabsInit PROVE TabsInv
  OBVIOUS
<1>1. IInv
  BY InitIInv DEF TabsInit
<1>2. /\ draft = [e \in Editor |-> Empty] /\ baseRev = [e \in Editor |-> 0]
      /\ overlay = [e \in Editor |-> {}] /\ opened = [e \in Editor |-> {Absent}]
      /\ sentOn = [e \in Editor |-> {}]
  BY DEF TabsInit
<1>3. Len(hist) \in Nat /\ Absent \in KeyState
  BY <1>1, Types, ValueAssumption DEF IInv, Absent, KeyState
<1>4. TabsOK
  BY <1>2, <1>3, ValueAssumption DEF TabsOK
<1>5. OpenedOK
  BY <1>2, <1>3 DEF OpenedOK, IsOn
<1> QED
  BY <1>1, <1>4, <1>5 DEF TabsInv

\* The history never shrinks, so that a base revision stays one of it, with the
\* state it had.
LEMMA PastStays ==
  ASSUME IInv, Moves
  PROVE  /\ Len(hist) \in Nat /\ Len(hist') \in Nat /\ Len(hist') >= Len(hist)
         /\ \A s: \A b \in 0..Len(hist): IsOn(s, b) => IsOn(s, b)'
<1>1. /\ Len(hist) \in Nat /\ Len(hist') \in Nat /\ Len(hist') >= Len(hist)
      /\ \A i \in 1..Len(hist): hist'[i] = hist[i]
  BY Growth, Types DEF IInv, Moves
<1>2. ASSUME NEW s, NEW b \in 0..Len(hist), IsOn(s, b) PROVE IsOn(s, b)'
  <2>1. b # 0 => hist'[b] = hist[b]
    BY <1>1
  <2> QED
    BY <1>2, <2>1 DEF IsOn, Absent
<1> QED
  BY <1>1, <1>2

\* An open request names a revision of the store.
LEMMA BaseOfRequest ==
  ASSUME IInv, NEW e \in Editor, req[e] # Atomic!NoRequest
  PROVE  req[e].base \in 0..Len(hist)
BY DEF IInv, EditorOK, RequestOK

LEMMA TabsStay ==
  ASSUME TabsInv, IInv', Moves, UNCHANGED <<draft, baseRev, overlay, opened, sentOn, req>>
  PROVE  TabsInv'
<1>1. /\ Len(hist) \in Nat /\ Len(hist') \in Nat /\ Len(hist') >= Len(hist)
      /\ \A s: \A b \in 0..Len(hist): IsOn(s, b) => IsOn(s, b)'
  BY PastStays DEF TabsInv
<1>2. TabsOK'
  BY <1>1 DEF TabsInv, TabsOK
<1>3. OpenedOK'
  <2>1. /\ opened' \in [Editor -> SUBSET KeyState] /\ sentOn' \in [Editor -> SUBSET KeyState]
    BY DEF TabsInv, OpenedOK
  <2>2. ASSUME NEW e \in Editor, NEW s \in opened'[e] PROVE IsOn(s, baseRev[e])'
    <3>1. IsOn(s, baseRev[e]) /\ baseRev[e] \in 0..Len(hist)
      BY <1>1, <2>2 DEF TabsInv, OpenedOK, TabsOK
    <3> QED
      BY <1>1, <3>1
  <2>3. ASSUME NEW e \in Editor, req'[e] # Atomic!NoRequest, NEW s \in sentOn'[e]
        PROVE  IsOn(s, req[e].base)'
    <3>1. IsOn(s, req[e].base) /\ req[e].base \in 0..Len(hist)
      BY <2>3, BaseOfRequest DEF TabsInv, OpenedOK
    <3> QED
      BY <1>1, <3>1
  <2> QED
    BY <2>1, <2>2, <2>3 DEF OpenedOK
<1> QED
  BY <1>2, <1>3 DEF TabsInv

\* What a tab shows, it shows on a revision of the store, and on its state if it
\* claims to.
LEMMA ShowsOK ==
  ASSUME TabsInv, NEW e \in Editor, NEW v \in Value, NEW b \in 0..Len(hist),
         NEW states \in SUBSET KeyState, \A s \in states: IsOn(s, b),
         \/ Shows(e, v, b, states)
         \/ /\ draft' = [draft EXCEPT ![e] = v] /\ baseRev' = [baseRev EXCEPT ![e] = b]
            /\ opened' = [opened EXCEPT ![e] = states] /\ UNCHANGED <<vars, overlay, sentOn>>
  PROVE  TabsInv'
<1>1. /\ draft' = [draft EXCEPT ![e] = v] /\ baseRev' = [baseRev EXCEPT ![e] = b]
      /\ opened' = [opened EXCEPT ![e] = states] /\ UNCHANGED <<vars, overlay, sentOn>>
  BY DEF Shows
<1>2. Len(hist) \in Nat /\ hist' = hist /\ req' = req
  BY <1>1, Types DEF TabsInv, IInv, vars, storeVars
<1>3. TabsOK'
  <2>1. draft' \in [Editor -> Value] /\ overlay' \in [Editor -> SUBSET Value]
    BY <1>1 DEF TabsInv, TabsOK
  <2>2. baseRev' \in [Editor -> Nat] /\ \A f \in Editor: baseRev'[f] <= Len(hist)
    BY <1>1, <1>2 DEF TabsInv, TabsOK
  <2> QED
    BY <1>2, <2>1, <2>2 DEF TabsOK
<1>4. OpenedOK'
  <2>1. opened' \in [Editor -> SUBSET KeyState] /\ sentOn' \in [Editor -> SUBSET KeyState]
    BY <1>1 DEF TabsInv, OpenedOK
  <2>2. ASSUME NEW f \in Editor, NEW s \in opened'[f] PROVE IsOn(s, baseRev'[f])
    BY <1>1, <2>2 DEF TabsInv, TabsOK, OpenedOK
  <2>3. \A f \in Editor: req[f] # Atomic!NoRequest => \A s \in sentOn'[f]: IsOn(s, req[f].base)
    BY <1>1 DEF TabsInv, OpenedOK
  <2> QED
    BY <1>2, <2>1, <2>2, <2>3 DEF OpenedOK, IsOn
<1>5. IInv'
  BY <1>1, StutterIInv DEF TabsInv
<1> QED
  BY <1>3, <1>4, <1>5 DEF TabsInv

LEMMA EditingOK ==
  ASSUME TabsInv, NEW e \in Editor,
         Select(e) \/ SelectFolder(e) \/ NewKey(e) \/ \E v \in Draft: Type(e, v)
  PROVE  TabsInv'
<1>1. /\ hist \in Seq(KeyState) /\ HistOK /\ Len(hist) \in Nat \ {0}
  BY Types DEF TabsInv, IInv
<1>2. ASSUME NEW s \in Rows \cup {Absent}
      PROVE  s \in KeyState /\ s.val \in Value /\ s.mod \in 0..Len(hist) /\ IsOn(s, s.mod)
  <2>1. CASE s = Absent
    BY <1>1, <2>1, ValueAssumption DEF Absent, IsOn, KeyState
  <2>2. CASE s \in Rows
    <3>1. PICK r \in 1..Len(hist): s = hist[r] /\ s.mod # 0
      BY <2>2 DEF Rows
    <3>2. s \in KeyState /\ s # Absent
      BY <1>1, <3>1 DEF Absent
    <3>3. s.mod \in 1..r /\ hist[s.mod] = s
      BY <1>1, <3>1, <3>2 DEF HistOK
    <3> QED
      BY <1>1, <3>1, <3>2, <3>3 DEF IsOn, KeyState
  <2> QED
    BY <1>2, <2>1, <2>2
<1>3. /\ baseRev[e] \in 0..Len(hist) /\ opened[e] \in SUBSET KeyState
      /\ \A s \in opened[e]: IsOn(s, baseRev[e])
  BY <1>1 DEF TabsInv, TabsOK, OpenedOK
<1>4. CASE Select(e)
  <2>1. ASSUME NEW s \in Rows, Shows(e, s.val, s.mod, {s}) PROVE TabsInv'
    <3>1. \A t \in {s}: IsOn(t, s.mod)
      BY <1>2
    <3> QED
      BY <1>2, <2>1, <3>1, ShowsOK
  <2>2. ASSUME NEW v \in overlay[e], NEW s \in Rows \cup {Absent}, Shows(e, v, s.mod, {})
        PROVE  TabsInv'
    <3>1. v \in Value
      BY DEF TabsInv, TabsOK
    <3>2. s.mod \in 0..Len(hist)
      BY <1>2
    <3> QED
      BY <2>2, <3>1, <3>2, ShowsOK
  <2> QED
    BY <1>4, <2>1, <2>2 DEF Select
<1>5. CASE SelectFolder(e)
  <2>1. /\ {Absent} \in SUBSET KeyState /\ 0 \in 0..Len(hist) /\ Empty \in Value
        /\ \A s \in {Absent}: IsOn(s, 0)
    BY <1>1, <1>2, ValueAssumption DEF IsOn
  <2>2. /\ draft' = [draft EXCEPT ![e] = Empty] /\ baseRev' = [baseRev EXCEPT ![e] = 0]
        /\ opened' = [opened EXCEPT ![e] = {Absent}] /\ UNCHANGED <<vars, overlay, sentOn>>
    BY <1>5 DEF SelectFolder
  <2> QED
    BY <2>1, <2>2, ShowsOK
<1>6. CASE NewKey(e)
  <2>1. ASSUME NEW b \in 1..Len(hist), Shows(e, Empty, b, {}) PROVE TabsInv'
    <3>1. b \in 0..Len(hist)
      BY <1>1
    <3> QED
      BY <2>1, <3>1, ShowsOK, ValueAssumption
  <2> QED
    BY <1>3, <1>6, <2>1, ShowsOK, ValueAssumption DEF NewKey
<1>7. CASE \E v \in Draft: Type(e, v)
  BY <1>3, <1>7, ShowsOK, ValueAssumption DEF Type
<1> QED
  BY <1>4, <1>5, <1>6, <1>7

LEMMA SaveOK == ASSUME TabsInv, NEW e \in Editor, Save(e) PROVE TabsInv'
<1> DEFINE r == [kind |-> "cas", val |-> draft[e], base |-> baseRev[e], accept |-> FALSE]
<1>1. /\ Submit(e, r) /\ UNCHANGED <<draft, baseRev, opened>>
      /\ overlay' = [overlay EXCEPT ![e] = {draft[e]}]
      /\ sentOn' = [sentOn EXCEPT ![e] = opened[e]]
  BY DEF Save
<1>2. r \in Atomic!RequestFrom(Value, 0..Len(hist)) /\ draft[e] \in Value
  <2>1. draft[e] \in Value /\ baseRev[e] \in 0..Len(hist)
    BY Types DEF TabsInv, TabsOK, IInv
  <2> QED
    BY <2>1 DEF Atomic!RequestFrom
<1>3. Progress(e)
  BY <1>1, <1>2, SubmitProgress DEF TabsInv
<1>4. hist' = hist /\ req' = [req EXCEPT ![e] = r]
  BY <1>1 DEF Submit, Atomic!Invoke, Atomic!storeVars
<1>5. req \in [Editor -> Atomic!Request \cup {Atomic!NoRequest}]
  BY DEF TabsInv, IInv, TypeOK, Atomic!TypeOK
<1>6. TabsOK'
  BY <1>1, <1>2, <1>4 DEF TabsInv, TabsOK
<1>7. OpenedOK'
  <2>1. opened' \in [Editor -> SUBSET KeyState] /\ sentOn' \in [Editor -> SUBSET KeyState]
    BY <1>1 DEF TabsInv, OpenedOK
  <2>2. \A f \in Editor: \A s \in opened'[f]: IsOn(s, baseRev'[f])
    BY <1>1 DEF TabsInv, OpenedOK
  <2>3. ASSUME NEW f \in Editor, req'[f] # Atomic!NoRequest, NEW s \in sentOn'[f]
        PROVE  IsOn(s, req'[f].base)
    <3>1. CASE f = e
      <4>1. sentOn'[f] = opened[e] /\ req'[f].base = baseRev[e]
        BY <1>1, <1>4, <1>5, <3>1 DEF TabsInv, OpenedOK
      <4> QED
        BY <2>3, <4>1 DEF TabsInv, OpenedOK
    <3>2. CASE f # e
      <4>1. sentOn'[f] = sentOn[f] /\ req'[f] = req[f]
        BY <1>1, <1>4, <1>5, <3>2 DEF TabsInv, OpenedOK
      <4> QED
        BY <2>3, <4>1 DEF TabsInv, OpenedOK
    <3> QED
      BY <3>1, <3>2
  <2> QED
    BY <1>4, <2>1, <2>2, <2>3 DEF OpenedOK, IsOn
<1> QED
  BY <1>3, <1>6, <1>7, ProgressIInv DEF TabsInv

\* The list is read anew: nothing the tab has opened changes.
LEMMA RefetchOK == ASSUME TabsInv, NEW e \in Editor, Refetch(e) PROVE TabsInv'
<1>1. /\ UNCHANGED <<vars, draft, baseRev, opened, sentOn>>
      /\ overlay' = [overlay EXCEPT ![e] = {}]
  BY DEF Refetch
<1>2. hist' = hist /\ req' = req
  BY <1>1 DEF vars, storeVars
<1>3. IInv'
  BY <1>1, StutterIInv DEF TabsInv
<1>4. TabsOK'
  BY <1>1, <1>2 DEF TabsInv, TabsOK
<1>5. OpenedOK'
  BY <1>1, <1>2 DEF TabsInv, OpenedOK, IsOn
<1> QED
  BY <1>3, <1>4, <1>5 DEF TabsInv

\* An answer ends the request, so that what it was sent on says nothing any more.
LEMMA ReceiveOK == ASSUME TabsInv, NEW e \in Editor, Receive(e) PROVE TabsInv'
<1>1. Handler(e)
  BY DEF Receive
<1>2. Progress(e)
  BY <1>1, GetLiveProgress, GetBaseProgress, CommitProgress, LoseRaceProgress,
     CallFailsProgress
  DEF Handler, TabsInv
<1>3. IInv' /\ Moves
  BY <1>2, ProgressIInv DEF TabsInv, Progress
<1>4. /\ Len(hist) \in Nat /\ Len(hist') \in Nat /\ Len(hist') >= Len(hist)
      /\ \A s: \A b \in 0..Len(hist): IsOn(s, b) => IsOn(s, b)'
  BY <1>3, PastStays DEF TabsInv
<1>5. /\ draft' \in [Editor -> Value] /\ overlay' \in [Editor -> SUBSET Value]
      /\ draft' = draft \/ draft' = [draft EXCEPT ![e] = Empty]
      /\ \/ baseRev' = baseRev /\ opened' = opened
         \/ /\ baseRev' = [baseRev EXCEPT ![e] = 0]
            /\ opened' = [opened EXCEPT ![e] = {Absent}]
      /\ sentOn' = sentOn \/ sentOn' = [sentOn EXCEPT ![e] = {}]
  BY ValueAssumption DEF Receive, TabsInv, TabsOK
<1>6. TabsOK'
  <2>1. baseRev \in [Editor -> Nat] /\ \A f \in Editor: baseRev[f] <= Len(hist)
    BY DEF TabsInv, TabsOK
  <2>2. baseRev' = baseRev \/ baseRev' = [baseRev EXCEPT ![e] = 0]
    BY <1>5
  <2>3. baseRev' \in [Editor -> Nat]
    BY <2>1, <2>2
  <2>4. ASSUME NEW f \in Editor PROVE baseRev'[f] <= Len(hist')
    <3>1. baseRev'[f] = baseRev[f] \/ baseRev'[f] = 0
      BY <2>1, <2>2
    <3>2. baseRev[f] \in Nat /\ baseRev[f] <= Len(hist)
      BY <2>1
    <3> QED
      BY <1>4, <3>1, <3>2
  <2> QED
    BY <1>5, <2>3, <2>4 DEF TabsOK
<1>7. OpenedOK'
  <2>1. opened' \in [Editor -> SUBSET KeyState] /\ sentOn' \in [Editor -> SUBSET KeyState]
    BY <1>5, ValueAssumption DEF TabsInv, OpenedOK, Absent, KeyState
  <2>2. ASSUME NEW f \in Editor, NEW s \in opened'[f] PROVE IsOn(s, baseRev[f])'
    <3>1. CASE opened'[f] = opened[f] /\ baseRev'[f] = baseRev[f]
      <4>1. IsOn(s, baseRev[f]) /\ baseRev[f] \in 0..Len(hist)
        BY <1>4, <2>2, <3>1 DEF TabsInv, OpenedOK, TabsOK
      <4> QED
        BY <1>4, <3>1, <4>1 DEF IsOn
    <3>2. CASE opened'[f] = {Absent} /\ baseRev'[f] = 0
      BY <2>2, <3>2 DEF IsOn, Absent
    <3> QED
      BY <1>5, <3>1, <3>2 DEF TabsInv, TabsOK, OpenedOK
  <2>3. ASSUME NEW f \in Editor, req'[f] # Atomic!NoRequest, NEW s \in sentOn'[f]
        PROVE  IsOn(s, req[f].base)'
    <3>1. s \in sentOn[f]
      BY <1>5, <2>3 DEF TabsInv, OpenedOK
    <3>2. req'[f] = req[f]
      BY <1>1, <2>3
      DEF TabsInv, IInv, TypeOK, Atomic!TypeOK, Handler, GetLive, GetBase, Commit, LoseRace,
          CallFails, Return, Atomic!Return
    <3>3. IsOn(s, req[f].base) /\ req[f].base \in 0..Len(hist)
      BY <2>3, <3>1, <3>2, BaseOfRequest DEF TabsInv, OpenedOK
    <3> QED
      BY <1>4, <3>2, <3>3 DEF IsOn
  <2> QED
    BY <2>1, <2>2, <2>3 DEF OpenedOK
<1> QED
  BY <1>3, <1>6, <1>7 DEF TabsInv

LEMMA TabsNextOK == TabsInv /\ [TabsNext]_allVars => TabsInv'
<1> SUFFICES ASSUME TabsInv, [TabsNext]_allVars PROVE TabsInv'
  OBVIOUS
<1>1. CASE Environment /\ UNCHANGED tabVars
  BY <1>1, EnvironmentMoves, EnvironmentIInv, TabsStay DEF TabsInv, tabVars, Environment
<1>2. CASE UNCHANGED allVars
  <2>1. UNCHANGED vars /\ UNCHANGED <<draft, baseRev, overlay, opened, sentOn>>
    BY <1>2 DEF allVars, tabVars
  <2>2. IInv' /\ hist' = hist /\ req' = req
    BY <2>1, StutterIInv DEF TabsInv, vars, storeVars
  <2>3. TabsOK'
    BY <2>1, <2>2 DEF TabsInv, TabsOK
  <2>4. OpenedOK'
    BY <2>1, <2>2 DEF TabsInv, OpenedOK, IsOn
  <2> QED
    BY <2>2, <2>3, <2>4 DEF TabsInv
<1> QED
  BY <1>1, <1>2, EditingOK, SaveOK, RefetchOK, ReceiveOK DEF TabsNext

----------------------------------------------------------------------------
\* What a transaction replaces unmerged, or merges on, is the state on the base
\* revision.
LEMMA CommitReplacesOpened ==
  ASSUME TabsInv, NEW e \in Editor, Commit(e), NEW s \in sentOn[e]
  PROVE  ReplacesOpened(e, s)
<1>1. IInv /\ req[e] # Atomic!NoRequest
  BY DEF TabsInv, IInv, EditorOK, RequestOK, Commit
<1>2. IsOn(s, req[e].base)
  BY <1>1 DEF TabsInv, OpenedOK
<1>3. CASE Unmoved(e)
  BY <1>1, <1>2, <1>3, CommitIs DEF Unmoved, IsOn, ReplacesOpened
<1>4. CASE MergedOn(e, hist[req[e].base].val)
  BY <1>1, <1>2, <1>4, CommitIs DEF MergedOn, IsOn, ReplacesOpened
<1>5. CASE MergedOn(e, Live.val) /\ ~BaseReadable(e)
  BY <1>1, <1>5, CommitIs DEF MergedOn, ReplacesOpened
<1> QED
  BY <1>1, <1>3, <1>4, <1>5, CommitIs

\* What a tab has not shown is not overwritten, for any number of tabs, writers,
\* attempts and failing calls, any list however stale and any weave.
THEOREM SeenIsReplaced == TabsSpec => OnlySeenIsReplaced
<1>1. TabsInv /\ [TabsNext]_allVars
        => [\A e \in Editor: Saves(e) => \A s \in sentOn[e]: ReplacesOpened(e, s)]_allVars
  <2> SUFFICES ASSUME TabsInv, TabsNext, NEW e \in Editor, Saves(e), NEW s \in sentOn[e]
               PROVE  ReplacesOpened(e, s)
    OBVIOUS
  <2>1. reply' # reply
    BY NoAnswerYet DEF TabsInv, Saves
  <2>2. hist' # hist
    BY Types DEF TabsInv, IInv, Saves
  <2>3. PICK f \in Editor: Commit(f)
    BY <2>1, <2>2
    DEF TabsNext, Select, SelectFolder, NewKey, Type, Shows, Save, Refetch, Submit,
        Atomic!Invoke, Atomic!storeVars, Receive, Handler, GetLive, GetBase, LoseRace,
        CallFails, Environment, vars, storeVars
  <2>4. f = e
    BY <2>3, SavesCommits DEF TabsInv
  <2> QED
    BY <2>3, <2>4, CommitReplacesOpened
<1> QED
  BY <1>1, TabsInitOK, TabsNextOK, PTL DEF TabsSpec, OnlySeenIsReplaced
============================================================================
