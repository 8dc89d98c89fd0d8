-------------------------- MODULE MCFormalCollector --------------------------
EXTENDS FormalCollector, TLC

\* Two slots of one stratum that share one reserve task.
PairSlots   == {0, 1}
PairTasks   == {"p0", "p1", "r1"}
PairPrimary == [s \in PairSlots |-> IF s = 0 THEN "p0" ELSE "p1"]
PairStratum == [s \in PairSlots |-> 1]
PairReserve == [k \in {1} |-> <<"r1">>]
NoReserve   == [k \in {1} |-> <<>>]

\* One slot with its reserve task.
OneSlot    == {0}
OneTasks   == {"p0", "r1"}
OnePrimary == [s \in OneSlot |-> "p0"]
OneStratum == [s \in OneSlot |-> 1]

Symmetry == Permutations(Workers) \cup Permutations(Behaviors)

=============================================================================
