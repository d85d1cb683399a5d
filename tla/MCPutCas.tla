------------------------------ MODULE MCPutCas ------------------------------
(***************************************************************************)
(* PutCas on a key whose value is a text of two lines or none, merged by   *)
(* the weave of ThreeWayMerge, with all that it does to edits that meet.   *)
(* Of a conflict's text the model keeps that it is one: the line "x".      *)
(***************************************************************************)
EXTENDS PutCas, TLC

TW == INSTANCE ThreeWayMerge

Symmetry == Permutations(Editor)

MCEmpty == <<>>
MCValue == {<<p, q>> : p \in {"o", "a"}, q \in {"p", "b"}} \cup {MCEmpty, <<"x">>}
MCDraft == {<<"o", "p">>, <<"a", "p">>, <<"o", "b">>}

\* What ThreeWayMerge says of every three values, computed once.
Of(F(_, _, _)) == [b \in MCValue |-> [o \in MCValue |-> [t \in MCValue |-> F(b, o, t)]]]
Told(m) == [m EXCEPT !.merged = IF m.status = "clean" THEN @ ELSE <<"x">>]
Weaves == Of(LAMBDA b, o, t: Told([status |-> TW!Weave(b, o, t).status,
                                    merged |-> TW!Weave(b, o, t).merged]))
AreApart == Of(TW!Apart)
InBoth == Of(LAMBDA b, o, t: IF TW!Apart(b, o, t) THEN TW!Both(b, o, t) ELSE b)

MCWeave(base, ours, theirs) == Weaves[base][ours][theirs]
MCApart(base, ours, theirs) == AreApart[base][ours][theirs]
MCBoth(base, ours, theirs) == InBoth[base][ours][theirs]
=============================================================================
