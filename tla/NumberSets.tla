------------------------------ MODULE NumberSets ---------------------------
(***************************************************************************)
(* Numbers of a set in their order, and what stands at them in a sequence. *)
(***************************************************************************)
EXTENDS Integers, Sequences, FiniteSets

\* A set of numbers, in their order, and the entries of a sequence that are in a set.
Ascending(set) ==
  [n \in 1..Cardinality(set) |-> CHOOSE i \in set: Cardinality({j \in set : j < i}) = n - 1]
Only(seq, set) ==
  LET at == Ascending({i \in 1..Len(seq) : seq[i] \in set}) IN [n \in DOMAIN at |-> seq[at[n]]]
============================================================================
