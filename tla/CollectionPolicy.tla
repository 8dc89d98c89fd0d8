-------------------------- MODULE CollectionPolicy --------------------------
(***************************************************************************)
(* The pure part of the formal teacher collector: the scheduler's state    *)
(* record and the functions of src/rollout/formal_collector.py that read   *)
(* it to choose the next rollout or fold a finished one into it.  The      *)
(* state machines that own such a record are in other modules.             *)
(*                                                                         *)
(* A record m stands for the dictionary the code calls `state`; an item    *)
(* for a WorkItem; a row for one row of the `attempts` table together with *)
(* the part of its JSON artifact that the scheduler reads.                 *)
(***************************************************************************)
EXTENDS NatSets, Sequences

CONSTANTS
  Slots,         \* coverage slots, numbered as in the primary manifest
  Tasks,         \* every task id of the TRAIN manifest in play
  Strata,        \* (domain, category) keys, numbered in sorted order
  PrimaryTask,   \* the frozen primary task of each slot
  Stratum,       \* the stratum of each slot
  ReserveQueue,  \* the ranked unused TRAIN tasks of each stratum
  Target,        \* accepted demonstrations the run must reach
  FirstCap,      \* genuine Pass A attempts per task
  PostCap,       \* genuine B+C attempts per task
  BCap,          \* genuine Pass B attempts per task
  DemoCap,       \* accepted demonstrations per task
  StopAfterA,    \* stop_after_pass = "A" (the smoke run)
  Results,       \* what a successful rollout may carry: a behaviour fingerprint,
  NoPurchase     \* or this, a record that fails the acceptance integrity check

NoSlot == -1

ReserveTasks(k) == {ReserveQueue[k][i] : i \in 1..Len(ReserveQueue[k])}

ASSUME ShapeAssumption ==
  /\ IsFiniteSet(Slots) /\ Slots # {} /\ Slots \subseteq Nat
  /\ IsFiniteSet(Tasks)
  /\ IsFiniteSet(Strata) /\ Strata \subseteq Nat
  /\ PrimaryTask \in [Slots -> Tasks]
  /\ Stratum \in [Slots -> Strata]
  /\ ReserveQueue \in [Strata -> Seq(Tasks)]
  /\ StopAfterA \in BOOLEAN

\* load_task_inputs: primaries are distinct, a reserve task is not a primary,
\* occurs once in its queue and in the queue of one stratum only.
ASSUME ManifestAssumption ==
  /\ \A s, u \in Slots : PrimaryTask[s] = PrimaryTask[u] => s = u
  /\ \A k \in Strata, s \in Slots : PrimaryTask[s] \notin ReserveTasks(k)
  /\ \A k, l \in Strata : k # l => ReserveTasks(k) \cap ReserveTasks(l) = {}
  /\ \A k \in Strata : \A i, j \in 1..Len(ReserveQueue[k]) :
        ReserveQueue[k][i] = ReserveQueue[k][j] => i = j

ASSUME BudgetAssumption ==
  /\ Target \in Nat \ {0} /\ FirstCap \in Nat \ {0}
  /\ PostCap \in Nat /\ BCap \in Nat /\ DemoCap \in Nat \ {0}

\* validate_collection_policy: "Pass B must not exceed the post-first-success budget",
\* and a task may have more than one accepted demonstration (its target is two).
ASSUME CapAssumption == BCap <= PostCap /\ DemoCap >= 2

\* The target covers one demonstration of every slot, and two of them unless the run
\* ends with Pass A: 6000 for 3000 primaries, and len(inputs.primary) for the smoke run.
ASSUME TargetAssumption ==
  IF StopAfterA THEN Cardinality(Slots) <= Target ELSE 2 * Cardinality(Slots) <= Target

----------------------------------------------------------------------------
(* The scheduler's state.                                                  *)

Passes      == {"A", "B", "C"}
RunStatuses == {"in_progress", "complete", "quota_unmet", "stopped"}
TerminalRunStates == {"complete", "quota_unmet"}

\* Attempt-row statuses; "interrupted" stands for every INFRA_STATUSES value
\* and "failed" for every genuine failure a worker reports.
InfraStatuses   == {"interrupted"}
RejectStatuses  == {"rejected_acceptance_integrity", "rejected_exact_duplicate"}
GenuineStatuses == {"failed", "accepted"} \cup RejectStatuses
RowStatuses     == {"in_progress", "candidate_success"} \cup InfraStatuses \cup GenuineStatuses

\* The results that have a behaviour to compare: each stands for a fingerprint.
Behaviors == Results \ {NoPurchase}

initial_state ==
  [ status    |-> "in_progress",
    pass      |-> "A",
    current   |-> PrimaryTask,
    fulfilled |-> {},
    exhausted |-> {},
    slotOf    |-> [t \in Tasks |-> IF \E s \in Slots : PrimaryTask[s] = t
                                   THEN CHOOSE s \in Slots : PrimaryTask[s] = t
                                   ELSE NoSlot],
    first     |-> [t \in Tasks |-> 0],
    post      |-> [t \in Tasks |-> 0],
    bTries    |-> [t \in Tasks |-> 0],
    demos     |-> [t \in Tasks |-> 0],
    success   |-> {},
    bDone     |-> {},
    processed |-> {},
    active    |-> {} ]

\* state["tasks"]: the primaries and the reserves allocated so far.
Known(m) == {t \in Tasks : m.slotOf[t] # NoSlot}

\* sum(accepted_count), over all tasks or over those of one stratum: the
\* number of pairs <<task, k>> with k up to the task's own count.
Demonstrations(m, T) == UNION {{t} \X (1..m.demos[t]) : t \in T}
AcceptedTotal(m)     == Cardinality(Demonstrations(m, Tasks))
AcceptedIn(m, k)     ==
  Cardinality(Demonstrations(m, {t \in Known(m) : Stratum[m.slotOf[t]] = k}))

----------------------------------------------------------------------------
(* Pass A: cover every slot, from its own task or from the reserve.        *)

\* Mutant: a task in flight is not skipped.
OpenOrInFlight(m) == Slots \ (m.fulfilled \cup m.exhausted)

OpenSlots(m) ==
  {s \in Slots \ (m.fulfilled \cup m.exhausted) : m.current[s] \notin m.active}

\* Mutants: one attempt too few, one too many.
HasRetryEarly(m, s) == m.first[m.current[s]] + 1 < FirstCap
HasRetryLate(m, s)  == m.first[m.current[s]] <= FirstCap

HasRetry(m, s) == m.first[m.current[s]] < FirstCap

UnusedReserve(m, s) ==
  {i \in 1..Len(ReserveQueue[Stratum[s]]) : ReserveQueue[Stratum[s]][i] \notin Known(m)}

\* Slots the scan can serve, with the current task or with a reserve task.
Servable(m) == {s \in OpenSlots(m) : HasRetry(m, s) \/ UnusedReserve(m, s) # {}}

\* The slots the scan gives up on its way to the first servable one.
GivenUp(m) ==
  {s \in OpenSlots(m) \ Servable(m) : \A u \in Servable(m) : s < u}

\* Mutant: the new task is not entered in state["tasks"].
allocate_unknown(m, s) ==
  [m EXCEPT !.current[s] = ReserveQueue[Stratum[s]][First(UnusedReserve(m, s))]]

\* The head of the stratum's unused reserve takes over slot s.
allocate_reserve(m, s) ==
  LET t == ReserveQueue[Stratum[s]][First(UnusedReserve(m, s))]
  IN  [m EXCEPT !.slotOf[t] = s, !.current[s] = t]

\* The scan of _pass_a_work(workers=1): the slots it gives up, the slot it
\* serves (at most one), and the state with a task for that slot.
pass_a_scan(m)     == [m EXCEPT !.exhausted = @ \cup GivenUp(m)]
pass_a_work(m)     == {s \in Servable(m) : \A u \in Servable(m) : s <= u}
pass_a_serve(m, s) == IF HasRetry(m, s) THEN m ELSE allocate_reserve(m, s)

----------------------------------------------------------------------------
(* Pass B: a second demonstration.  Pass C: fill the quota.                *)

PassBEligible(m) ==
  {t \in m.success \ (m.active \cup m.bDone) : m.bTries[t] < BCap}

pass_b_work(m) ==
  {t \in PassBEligible(m) : \A u \in PassBEligible(m) : m.slotOf[t] <= m.slotOf[u]}

\* largest_remainder_targets in exact arithmetic: the whole part of the share
\* of a stratum, plus one for the strata with the largest remainders.
SlotsIn(k)   == Cardinality({s \in Slots : Stratum[s] = k})
Share(k)     == (Target * SlotsIn(k)) \div Cardinality(Slots)
Remainder(k) == (Target * SlotsIn(k)) % Cardinality(Slots)
UsedStrata   == {Stratum[s] : s \in Slots}
Before(l, k) == Remainder(l) > Remainder(k) \/ (Remainder(l) = Remainder(k) /\ l < k)
Unassigned   ==
  Target - Cardinality(UNION {{k} \X (1..Share(k)) : k \in UsedStrata})
largest_remainder_target(k) ==
  Share(k) + IF Cardinality({l \in UsedStrata : Before(l, k)}) < Unassigned THEN 1 ELSE 0

Deficit(m, t) ==
  largest_remainder_target(Stratum[m.slotOf[t]]) - AcceptedIn(m, Stratum[m.slotOf[t]])

\* Mutant: one post-success attempt too many.
PassCEligibleLate(m) ==
  {t \in m.success \ m.active : m.demos[t] < DemoCap /\ m.post[t] <= PostCap}

PassCEligible(m) ==
  {t \in m.success \ m.active : m.demos[t] < DemoCap /\ m.post[t] < PostCap}

\* The sort key (accepted_count, -deficit, coverage_slot).
PassCBefore(m, t, u) ==
  \/ m.demos[t] < m.demos[u]
  \/ /\ m.demos[t] = m.demos[u]
     /\ \/ Deficit(m, t) > Deficit(m, u)
        \/ Deficit(m, t) = Deficit(m, u) /\ m.slotOf[t] <= m.slotOf[u]

\* Mutant: an attempt in flight reserves nothing.
UnreservedQuota(m) == Target - AcceptedTotal(m)

\* Every in-flight attempt reserves one possible success.
RemainingQuota(m) == Target - AcceptedTotal(m) - Cardinality(m.active)

pass_c_work(m) ==
  {t \in PassCEligible(m) : /\ RemainingQuota(m) > 0
                            /\ \A u \in PassCEligible(m) : PassCBefore(m, t, u)}

----------------------------------------------------------------------------
(* Folding a finished attempt into the state.                              *)

BumpIf(P, n) == IF P THEN n + 1 ELSE n

\* _apply_attempt_to_state for the row with id i, whose final status is st.
apply_attempt(m, i, row, st) ==
  LET t        == row.task
      genuine  == st \notin InfraStatuses
      accepted == st = "accepted"
      tries    == BumpIf(genuine /\ row.pass = "B", m.bTries[t])
  IN  [m EXCEPT
        !.first[t]  = BumpIf(genuine /\ row.pass = "A", @),
        !.post[t]   = BumpIf(genuine /\ row.pass # "A", @),
        !.bTries[t] = tries,
        !.demos[t]  = BumpIf(accepted, @),
        !.success   = IF accepted /\ row.pass = "A" THEN @ \cup {t} ELSE @,
        !.fulfilled = IF accepted /\ row.pass = "A" THEN @ \cup {row.slot} ELSE @,
        !.bDone     = IF row.pass = "B" /\ (accepted \/ tries >= BCap)
                      THEN @ \cup {t} ELSE @,
        !.processed = @ \cup {i}]

\* Mutant: duplicates are accepted.
verdict_unchecked(b, prior) ==
  IF b = NoPurchase THEN "rejected_acceptance_integrity" ELSE "accepted"

\* _accept_candidate: the fate of a candidate whose result is b, given the
\* results already accepted for its task.
verdict(b, prior) ==
  CASE b = NoPurchase                   -> "rejected_acceptance_integrity"
    [] b # NoPurchase /\ b \in prior    -> "rejected_exact_duplicate"
    [] b # NoPurchase /\ b \notin prior -> "accepted"

=============================================================================
