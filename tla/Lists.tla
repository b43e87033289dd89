------------------------------- MODULE Lists -------------------------------
(***************************************************************************)
(* Storage arrays of the contracts as sequences: the sum of a loop over an *)
(* array, and the removal of an element by a search and a shift.           *)
(* They are recursive functions and CHOOSE expressions, not the folds of   *)
(* the community modules, so that ListProofs can prove facts about them.   *)
(***************************************************************************)
EXTENDS Integers, Sequences, FiniteSets, Functions

\* The sum of a sequence of numbers.
SumOf(s) ==
    LET upTo[n \in 0..Len(s)] == IF n = 0 THEN 0 ELSE upTo[n - 1] + s[n]
    IN  upTo[Len(s)]

\* The set S of numbers as an increasing sequence.
Ascending(S) ==
    CHOOSE s \in [1..Cardinality(S) -> S] :
        \A i, j \in 1..Cardinality(S) : i < j => s[i] < s[j]

\* The search of claimInbound and processOutboundPeriod: the first position
\* that holds x, and the first position of all when none does.
PositionOf(ids, x) ==
    IF x \in Range(ids)
    THEN CHOOSE k \in DOMAIN ids : /\ ids[k] = x
                                   /\ \A j \in 1..(k - 1) : ids[j] # x
    ELSE 1

\* Broken variant: the shift starts one place too late.
RemoveIdLate(ids, x) ==
    [k \in 1..(Len(ids) - 1) |->
        IF k <= PositionOf(ids, x) THEN ids[k] ELSE ids[k + 1]]

\* The shift to the left of both functions, followed by ids.length--.
RemoveId(ids, x) ==
    [k \in 1..(Len(ids) - 1) |->
        IF k < PositionOf(ids, x) THEN ids[k] ELSE ids[k + 1]]
=============================================================================
