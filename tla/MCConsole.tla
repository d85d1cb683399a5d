------------------------------ MODULE MCConsole ------------------------------
(***************************************************************************)
(* A small instance of the web console.                                    *)
(***************************************************************************)
EXTENDS Console

\* "a" and "ab" share the segment 1; "ec" is a key of two segments.
MCParts == [k \in TreeKey |-> CASE k = "a" -> <<1>>
                                [] k = "ab" -> <<1, 2>>
                                [] OTHER -> <<3, 5>>]

\* Values of a key, line by line: lines put in front, behind and in between, and
\* runs of lines that did not change.
MCText == {<<"x">>, <<"y", "x">>, <<"x", "y", "x", "y">>, <<"x", "x", "x", "x">>,
           <<"y", "x", "x", "x", "x">>, <<"x", "x", "x", "x", "y">>}

MCCompletions == [v \in Input |-> IF v = "b" THEN <<"b">> ELSE <<"a", "b">>]

\* Rules that let nobody edit them, and rules that let everybody.
MCCanEdit == [r \in RuleSet |-> IF r = "none" THEN {} ELSE {"me", "you"}]

\* A local user and one of the peer "p".
MCPeerOf == [u \in AvUser |-> IF u = "ann" THEN "" ELSE "p"]

\* Keys, and the prefixes of rules: a long one, and "*", which is a text like others.
MCLengthOf == [p \in AvPrefix |-> CASE p = "" -> 0 [] p = "/long" -> 95 [] OTHER -> 1]
MCStartWith == [p \in AvPrefix |->
  CASE p = "" -> AvKey [] p = "/" -> {"/", "/long"} [] OTHER -> {p}]

MCClusters == <<"c", "d", "e">>
MCStored == <<"v">>

\* Of the second cluster no endpoint answers.
MCEndpoints == [c \in MtCluster |-> IF c = "c" THEN MtEndpoint ELSE {}]

\* "kk" starts with "k".  Conditions of a number and of a value, a put and the
\* deletion of all keys.
MCBelow == [k \in RowKey |-> IF k = "kk" THEN {"kk"} ELSE {"k", "kk"}]
MCCond == {[key |-> "k", field |-> "createRevision", op |-> "equal", target |-> 0],
           [key |-> "kk", field |-> "value", op |-> "less", target |-> 2]}
MCOp == {[type |-> "put", key |-> "kk", value |-> 2, prefix |-> FALSE],
         [type |-> "delete", key |-> "", value |-> NoText, prefix |-> TRUE]}

\* Of two clusters one has the first key only, with another value.
MCRange == [p \in DfPrefix |-> IF p = "" THEN DfKey ELSE {p}]
MCStore == [c \in DfCluster |-> [k \in DfKey |->
  IF c = "c" THEN 1 ELSE IF k = "a" THEN 2 ELSE 0]]

\* A state is told from others by the page that is mounted.
View == <<route, Page>>
=============================================================================
