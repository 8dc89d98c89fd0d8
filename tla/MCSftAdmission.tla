--------------------------- MODULE MCSftAdmission ---------------------------
EXTENDS SftAdmission, TLC

CONSTANTS l1, l2, e1, e2, e3, e4

\* Three are selected: e4 is the longest, and the upper quantiles round to it.
MCOrdered == <<e1, e2, e3, e4>>

\* A selection of the right shape from other data, and one with two longest examples.
MCOthers == {(e1 :> {"longest"}) @@ (e2 :> {"p50"}) @@ (e4 :> {"p90", "p99"}),
             (e1 :> {"longest"}) @@ (e2 :> {"p50", "longest"}) @@ (e3 :> {"p90", "p99"})}

\* A dataset of at least count examples, four or more, gives a selection that
\* phase_plan accepts, whatever its length.
ASSUME SelectionHasItsShape ==
  \A n \in 4..24 : \A count \in 4..n :
    LET sel == select([i \in 1..n |-> i], count)
    IN  /\ Cardinality(DOMAIN sel) = count
        /\ \A role \in Strata \cup {"longest"} : Cardinality(having(sel, role)) = 1
        /\ "longest" \in sel[n]

MCSymmetry == Permutations({l1, l2})
=============================================================================
