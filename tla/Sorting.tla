------------------------------- MODULE Sorting -------------------------------
(***************************************************************************)
(* What the sorts and filters of the code return, said of sets: the stuck  *)
(* check's seed (internal/store/seed_history.go), the province table and   *)
(* the finder (web/src/lib/table.js, find.js) and the kit's table          *)
(* (design-kit/ui_kits/app/oblast-table.js).                               *)
(***************************************************************************)
EXTENDS Integers, FiniteSets

\* The members of a set by the pairs of before: each stands after those before it.
Sorted(S, before) ==
    [i \in 1 .. Cardinality(S) |->
        CHOOSE x \in S : Cardinality({y \in S : <<y, x>> \in before}) = i - 1]

\* A set of numbers, the smallest first.
Ascending(S) == Sorted(S, {p \in S \X S : p[1] < p[2]})

\* filter: the rows at these places, in the order they stood.
Only(rows, places) ==
    LET order == Ascending(places) IN [k \in DOMAIN order |-> rows[order[k]]]
=============================================================================
