----------------------------- MODULE MCSession -----------------------------
(***************************************************************************)
(* Two calls in one tab, one in another, each with its SessionKeepalive.   *)
(***************************************************************************)
EXTENDS Session

CONSTANTS t1, t2, r1, r2, r3

MCTabOf == [r \in Req |-> IF r = r3 THEN t2 ELSE t1]
============================================================================
