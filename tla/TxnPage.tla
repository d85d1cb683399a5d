------------------------------ MODULE TxnPage ------------------------------
(***************************************************************************)
(* The Transactions page (web/src/pages/Txn.tsx), the handler that builds  *)
(* and commits what its rows say (cmd/kv/bulk.go, txn_builder.go), and     *)
(* what etcd makes of a transaction.  Texts are numbers in their order;    *)
(* the empty one is the lowest, and the only one that is not a number.     *)
(***************************************************************************)
EXTENDS Integers, SequencesExt

CONSTANTS
  TxKey,
  Below,      \* of each key, and of "": the keys that start with it
  TxText,     \* values that others put
  CondChoice, \* what users make of the rows of "If", ...
  OpChoice,   \* ... and of those of "Then" and "Else"
  MaxTxRev,   \* bound: revisions at which others write and calls are sent
  MaxEdits    \* bound: changes of rows

NoText == -1
Text == TxText \cup {NoText}
RowKey == TxKey \cup {""}
Cond == [key: RowKey, field: {"value", "createRevision", "modRevision", "version"},
         op: {"equal", "not-equal", "greater", "less"}, target: Int]
\* The checkbox for a prefix is that of deletes and gets.
Op == [type: {"put"}, key: RowKey, value: Int, prefix: {FALSE}] \cup
      [type: {"delete", "get"}, key: RowKey, value: Int, prefix: BOOLEAN]

ASSUME TxnAssumption ==
  /\ "" \notin TxKey /\ TxText \subseteq Nat /\ {MaxTxRev, MaxEdits} \subseteq Nat
  /\ Below \in [RowKey -> SUBSET TxKey] /\ Below[""] = TxKey
  /\ \A k \in TxKey: k \in Below[k]
  /\ CondChoice \subseteq Cond /\ OpChoice \subseteq Op

VARIABLES
  txHist,  \* etcd: the state of all keys at each revision
  txRows,  \* conds, success and failure
  txCall,  \* the mutation: idle, pending, or at its end, with the rows it was given
  txEdits  \* how many changes of rows there were

txVars == <<txHist, txRows, txCall, txEdits>>

Absent == [value |-> NoText, createRevision |-> 0, modRevision |-> 0, version |-> 0]
BlankCond == [key |-> "", field |-> "value", op |-> "equal", target |-> NoText]
BlankOp(type) == [type |-> type, key |-> "", value |-> NoText, prefix |-> FALSE]
TxEnded == {"succeeded", "else", "error"}

TxnTypeOK ==
  /\ txHist # <<>>
  /\ \A r \in 1..Len(txHist), k \in TxKey:
       /\ txHist[r][k].version \in 0..r
       /\ {txHist[r][k].createRevision, txHist[r][k].modRevision} \subseteq 0..r
  /\ ToSet(txRows.conds) \subseteq Cond
  /\ ToSet(txRows.success) \cup ToSet(txRows.failure) \subseteq Op
  /\ txCall.at \in {"idle", "pending", "committed"} \cup TxEnded
  /\ txCall.rev \in 0..Len(txHist) /\ txEdits \in 0..MaxEdits

\* The page opens on a row that compares and a row that puts.
TxnInit ==
  /\ txHist = <<[k \in TxKey |-> Absent]>> /\ txEdits = 0
  /\ \E k \in TxKey:
       txRows = [conds |-> <<[BlankCond EXCEPT !.key = k]>>,
                 success |-> <<[BlankOp("put") EXCEPT !.key = k]>>, failure |-> <<>>]
  /\ txCall = [at |-> "idle", rev |-> 0, rows |-> txRows, won |-> FALSE]

Now == Last(txHist)
Revision == Len(txHist)

----------------------------------------------------------------------------
(***************************************************************************)
(* etcd.                                                                   *)
(***************************************************************************)
\* A value is compared with none if there is no key; numbers of no key are 0.
Holds(store, c) ==
  LET x == store[c.key][c.field] IN
  /\ c.field = "value" => store[c.key].version > 0
  /\ CASE c.op = "equal" -> x = c.target
       [] c.op = "not-equal" -> x # c.target
       [] c.op = "greater" -> x > c.target
       [] OTHER -> x < c.target

Touched(o) == IF o.prefix THEN Below[o.key] ELSE {o.key} \cap TxKey

Stepped(store, o, rev) ==
  [k \in TxKey |->
    IF o.type = "get" \/ k \notin Touched(o) THEN store[k]
    ELSE IF o.type = "delete" THEN Absent
    ELSE [value |-> o.value, modRevision |-> rev, version |-> store[k].version + 1,
          createRevision |-> IF store[k].version = 0 THEN rev ELSE store[k].createRevision]]

\* The store after the first i rows of a branch.
StoreAfter(store, ops, rev) ==
  LET after[i \in 0..Len(ops)] ==
        IF i = 0 THEN store ELSE Stepped(after[i - 1], ops[i], rev)
  IN after

\* A transaction that writes nothing makes no revision.
Applied(ops) ==
  LET next == StoreAfter(Now, ops, Revision + 1)[Len(ops)] IN
  IF next = Now THEN txHist ELSE Append(txHist, next)

\* Refused at once: an empty key, or one that is put twice, or put and deleted.
OpsValid(ops) ==
  /\ \A i \in 1..Len(ops): ops[i].key # "" \/ ops[i].prefix
  /\ \A i, j \in 1..Len(ops):
       i # j /\ ops[i].type = "put" /\ ops[j].type \in {"put", "delete"} =>
         ops[i].key \notin Touched(ops[j])

Others ==
  /\ Revision < MaxTxRev /\ UNCHANGED <<txRows, txCall, txEdits>>
  /\ \E k \in TxKey, v \in TxText, type \in {"put", "delete"}:
       /\ txHist' = Applied(<<[type |-> type, key |-> k, value |-> v, prefix |-> FALSE]>>)
       /\ txHist' # txHist

----------------------------------------------------------------------------
(***************************************************************************)
(* The rows.  What changes in a row is any of its fields; a row of another *)
(* type has no value, and no prefix.                                       *)
(***************************************************************************)
Edits(rows) ==
  /\ txEdits < MaxEdits /\ txEdits' = txEdits + 1 /\ rows # txRows
  /\ txRows' = rows /\ UNCHANGED <<txHist, txCall>>

AddCond == Edits([txRows EXCEPT !.conds = Append(@, BlankCond)])
ChangeCond(i, c) ==
  i \in 1..Len(txRows.conds) /\ Edits([txRows EXCEPT !.conds[i] = c])
RemoveCond(i) ==
  i \in 1..Len(txRows.conds) /\ Edits([txRows EXCEPT !.conds = RemoveAt(@, i)])

\* "Else" has one button, which adds a put.
AddOp(part, type) ==
  /\ part = "failure" => type = "put"
  /\ Edits([txRows EXCEPT ![part] = Append(@, BlankOp(type))])
ChangeOp(part, i, o) ==
  i \in 1..Len(txRows[part]) /\ Edits([txRows EXCEPT ![part][i] = o])
RemoveOp(part, i) ==
  i \in 1..Len(txRows[part]) /\ Edits([txRows EXCEPT ![part] = RemoveAt(@, i)])

----------------------------------------------------------------------------
(***************************************************************************)
(* The call.                                                               *)
(***************************************************************************)
\* The button: the rows are those of now, what was shown is gone.
CommitTxn ==
  /\ txCall.at # "pending" /\ txCall.at # "committed" /\ Revision <= MaxTxRev
  /\ txCall' = [at |-> "pending", rev |-> 0, rows |-> txRows, won |-> FALSE]
  /\ UNCHANGED <<txHist, txRows, txEdits>>

\* buildCompares: targets of revisions and versions have to be numbers.
Built(rows) ==
  /\ \A i \in 1..Len(rows.conds): LET c == rows.conds[i] IN
       c.key # "" /\ (c.field # "value" => c.target # NoText)
  /\ OpsValid(rows.success) /\ OpsValid(rows.failure)

\* Mutant: one condition that holds is enough.
WinsWithOne(rows) ==
  rows.conds = <<>> \/ \E i \in 1..Len(rows.conds): Holds(Now, rows.conds[i])

Wins(rows) == \A i \in 1..Len(rows.conds): Holds(Now, rows.conds[i])

Committed ==
  LET rows == txCall.rows
      won == Wins(rows) IN
  /\ txCall.at = "pending" /\ Built(rows)
  /\ txHist' = Applied(IF won THEN rows.success ELSE rows.failure)
  /\ txCall' = [txCall EXCEPT !.at = "committed", !.won = won, !.rev = Len(txHist')]
  /\ UNCHANGED <<txRows, txEdits>>

\* The answer, or an error in its place: 400, a call to etcd that failed, the
\* committed one's included, or a request that did.
TxnAnswered ==
  /\ \/ /\ txCall.at = "committed"
        /\ txCall' = [txCall EXCEPT !.at = IF txCall.won THEN "succeeded" ELSE "else"]
     \/ /\ txCall.at \in {"pending", "committed"}
        /\ txCall' = [txCall EXCEPT !.at = "error"]
  /\ UNCHANGED <<txHist, txRows, txEdits>>

TxnNext ==
  \/ Others \/ AddCond \/ CommitTxn \/ Committed \/ TxnAnswered
  \/ \E i \in 1..(MaxEdits + 1):
       RemoveCond(i) \/ \E c \in CondChoice: ChangeCond(i, c)
  \/ \E part \in {"success", "failure"}:
       \/ \E type \in {"put", "delete", "get"}: AddOp(part, type)
       \/ \E i \in 1..(MaxEdits + 1): RemoveOp(part, i) \/ \E o \in OpChoice: ChangeOp(part, i, o)

----------------------------------------------------------------------------
\* What the branch has put, deleted or left alone, whatever the order of its rows.
Becomes(before, after, ops, rev) ==
  \A k \in TxKey:
    LET on(type) == {i \in 1..Len(ops) : ops[i].type = type /\ k \in Touched(ops[i])} IN
    IF on("put") # {}
      THEN /\ \A i \in on("put"): after[k].value = ops[i].value
           /\ after[k].modRevision = rev /\ after[k].version = before[k].version + 1
    ELSE IF on("delete") # {} THEN after[k] = Absent
    ELSE after[k] = before[k]

\* The tag beside the button tells what has become of the rows as they were when
\* it was pressed: at the revision named, the store is what the branch named makes
\* of the store before, in which the conditions did choose that branch, and
\* nothing of anybody else's is in it, however others write and rows are edited.
TxnTellsWhatRan ==
  txCall.at \in {"succeeded", "else"} =>
    LET rows == txCall.rows
        won == txCall.at = "succeeded"
        rev == txCall.rev
    IN \E r \in {rev - 1, rev} \ {0}:
         /\ won <=> \A c \in ToSet(rows.conds): Holds(txHist[r], c)
         /\ Becomes(txHist[r], txHist[rev], IF won THEN rows.success ELSE rows.failure, rev)
============================================================================
