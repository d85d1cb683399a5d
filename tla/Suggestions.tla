---------------------------- MODULE Suggestions ----------------------------
(***************************************************************************)
(* The Autocomplete input (web/src/components/Autocomplete.tsx): it asks   *)
(* for suggestions while the user types, and answers come in any order.    *)
(***************************************************************************)
EXTENDS Integers, Sequences

CONSTANTS
  Input,       \* what can be in the input
  Completions, \* all suggestions for each, in the server's order
  PageSize, MaxPages,
  MaxSeq       \* bound: questions asked

ASSUME SuggestionsAssumption ==
  /\ Completions \in [Input -> Seq(Input)]
  /\ {PageSize, MaxPages, MaxSeq} \subseteq Nat \ {0}

VARIABLES
  acValue, acOpen, acPages, acCursor,
  acItems,   \* the suggestions shown
  acLoading,
  acSeq,     \* seqRef: the last question
  acTimer,   \* whether the debounce of that question is still running
  acFlights  \* questions that have been sent

acVars == <<acValue, acOpen, acPages, acCursor, acItems, acLoading, acSeq,
            acTimer, acFlights>>

Upto(s, n) == SubSeq(s, 1, IF n < Len(s) THEN n ELSE Len(s))
\* One more than fits tells that there are more.
Answer(v, pages) == Upto(Completions[v], pages * PageSize + 1)
Visible == Upto(acItems, acPages * PageSize)
HasMore == Len(acItems) > Len(Visible) /\ acPages < MaxPages

SuggestionsTypeOK ==
  /\ acValue \in Input /\ acOpen \in BOOLEAN /\ acPages \in 1..MaxPages
  /\ acCursor \in -1..(PageSize * MaxPages - 1)
  /\ \A i \in DOMAIN acItems: acItems[i] \in Input
  /\ acLoading \in BOOLEAN /\ acTimer \in BOOLEAN /\ acSeq \in 0..MaxSeq
  /\ acFlights \subseteq [seq: 1..acSeq, value: Input, pages: 1..MaxPages]

SuggestionsInit ==
  /\ acValue \in Input /\ acOpen = FALSE /\ acPages = 1 /\ acCursor = -1
  /\ acItems = <<>> /\ acLoading = FALSE /\ acSeq = 0 /\ acTimer = FALSE
  /\ acFlights = {}

----------------------------------------------------------------------------
\* The effect runs again: the timer of the last question is cleared, and if the
\* list is open, a new one is about to be asked.
Effect ==
  IF acOpen'
    THEN /\ acSeq < MaxSeq
         /\ acSeq' = acSeq + 1 /\ acLoading' = TRUE /\ acTimer' = TRUE
    ELSE /\ acTimer' = FALSE
         /\ UNCHANGED <<acSeq, acLoading>>

EffectIfChanged ==
  IF <<acOpen, acValue, acPages>>' = <<acOpen, acValue, acPages>>
    THEN UNCHANGED <<acSeq, acLoading, acTimer>>
    ELSE Effect

Typed(v) ==
  /\ v # acValue
  /\ acValue' = v /\ acOpen' = TRUE /\ acPages' = 1
  /\ UNCHANGED <<acCursor, acItems, acFlights>>
  /\ EffectIfChanged

Focused ==
  /\ ~acOpen /\ acOpen' = TRUE
  /\ UNCHANGED <<acValue, acPages, acCursor, acItems, acFlights>>
  /\ EffectIfChanged

\* The page around it is rendered anew, with another query function.
Rerendered ==
  /\ UNCHANGED <<acValue, acOpen, acPages, acCursor, acItems, acFlights>>
  /\ acOpen /\ Effect

Debounced ==
  /\ acTimer /\ acTimer' = FALSE
  /\ acFlights' = acFlights \cup
       {[seq |-> acSeq, value |-> acValue, pages |-> acPages]}
  /\ UNCHANGED <<acValue, acOpen, acPages, acCursor, acItems, acLoading, acSeq>>

\* Mutant: every answer is shown.
AnsweredLate(f) ==
  /\ f \in acFlights /\ acFlights' = acFlights \ {f}
  /\ acItems' = Answer(f.value, f.pages)
  /\ acCursor' = -1 /\ acLoading' = FALSE
  /\ UNCHANGED <<acValue, acOpen, acPages, acSeq, acTimer>>

\* An answer, or an error, arrives; it counts if nothing was asked since.
Answered(f) ==
  /\ f \in acFlights /\ acFlights' = acFlights \ {f}
  /\ IF f.seq = acSeq
       THEN /\ acLoading' = FALSE
            /\ \/ acItems' = Answer(f.value, f.pages) /\ acCursor' = -1
               \/ acItems' = <<>> /\ UNCHANGED acCursor
       ELSE UNCHANGED <<acItems, acCursor, acLoading>>
  /\ UNCHANGED <<acValue, acOpen, acPages, acSeq, acTimer>>

----------------------------------------------------------------------------
ArrowDown ==
  /\ acOpen' = TRUE
  /\ acCursor' = IF Len(Visible) - 1 < acCursor + 1 THEN Len(Visible) - 1
                 ELSE acCursor + 1
  /\ UNCHANGED <<acValue, acPages, acItems, acFlights>>
  /\ EffectIfChanged

ArrowUp ==
  /\ acCursor > -1 /\ acCursor' = acCursor - 1
  /\ UNCHANGED <<acValue, acOpen, acPages, acItems, acLoading, acSeq, acTimer, acFlights>>

\* Tab takes the highlighted suggestion, or the first, and leaves the list open.
Tab ==
  LET i == IF acCursor >= 0 THEN acCursor + 1 ELSE 1 IN
  /\ acOpen /\ i <= Len(Visible)
  /\ acValue' = Visible[i]
  /\ UNCHANGED <<acOpen, acPages, acCursor, acItems, acFlights>>
  /\ EffectIfChanged

Commit(i) ==
  /\ i \in DOMAIN Visible
  /\ acValue' = Visible[i] /\ acOpen' = FALSE
  /\ UNCHANGED <<acPages, acCursor, acItems, acFlights>>
  /\ EffectIfChanged

Enter == acOpen /\ acCursor >= 0 /\ Commit(acCursor + 1)

\* A row is shown while the list is open; the mouse highlights it and picks it.
Hover(i) ==
  /\ acOpen /\ i \in DOMAIN Visible
  /\ acCursor' = i - 1
  /\ UNCHANGED <<acValue, acOpen, acPages, acItems, acLoading, acSeq, acTimer, acFlights>>
Pick(i) == acOpen /\ Commit(i)

\* Escape, or the mouse goes down outside.
Close ==
  /\ acOpen /\ acOpen' = FALSE
  /\ UNCHANGED <<acValue, acPages, acCursor, acItems, acFlights>>
  /\ EffectIfChanged

LoadMore ==
  /\ acOpen /\ HasMore
  /\ acPages' = acPages + 1
  /\ UNCHANGED <<acValue, acOpen, acCursor, acItems, acFlights>>
  /\ EffectIfChanged

SuggestionsNext ==
  \/ \E v \in Input: Typed(v)
  \/ Focused \/ Rerendered \/ Debounced \/ ArrowDown \/ ArrowUp \/ Tab \/ Enter
  \/ Close \/ LoadMore
  \/ \E f \in acFlights: Answered(f)
  \/ \E i \in DOMAIN Visible: Hover(i) \/ Pick(i)

----------------------------------------------------------------------------
\* "Track the latest in-flight query so a slow earlier call doesn't overwrite a
\* fast later one (out-of-order completion)" (Autocomplete.tsx): a list that is
\* not loading shows the answer to what is in the input now, unless it failed.
SuggestionsFit ==
  acOpen /\ ~acLoading => acItems \in {<<>>, Answer(acValue, acPages)}
============================================================================
