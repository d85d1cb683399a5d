----------------------------- MODULE MCRegistry -----------------------------
(***************************************************************************)
(* Users add, change and delete two clusters, and discovery finds one of   *)
(* them under the same ID.                                                 *)
(***************************************************************************)
EXTENDS Registry, TLC

CONSTANTS c1, c2, e1, e2

Cluster(id, endpoint, source, readOnly) ==
  [id |-> id, endpoint |-> endpoint, source |-> source, password |-> FALSE,
   readOnly |-> readOnly]

MCPosted == {Cluster(c1, e1, "manual", TRUE), Cluster(c2, e1, "manual", FALSE)}
MCDiscovered == {Cluster(c1, e2, "discovered", FALSE)}

Symmetry == Permutations(Client) \cup Permutations(Handler)
============================================================================
