--------------------------- MODULE FormalCollector ---------------------------
(***************************************************************************)
(* The formal teacher collector: run_engine's main thread, its worker      *)
(* threads, the global stop, the durable ledger (SQLite plus JSON          *)
(* artifacts), and the process around them, which can crash, be            *)
(* interrupted from the keyboard, and be started again on the same run.    *)
(*                                                                         *)
(* The main thread is the only writer of the scheduler's state `mem`; a    *)
(* worker only writes its own attempt row.  `saved` is the formal_state    *)
(* key of the ledger: what a restart reads.                                *)
(*                                                                         *)
(* One action is one durable effect (a row, an artifact, a state dump) or  *)
(* one read of something another thread writes (the stop event, a future,  *)
(* a row); in-memory work between two of these is folded into them.        *)
(***************************************************************************)
EXTENDS CollectionPolicy

CONSTANTS
  Workers,     \* executor threads
  Faults,      \* the failures that may occur, a subset of FaultKinds
  MaxFaults,   \* bound: failures of workers and of the main thread, altogether
  MaxCrashes,  \* bound: process crashes
  MaxSigints,  \* bound: Ctrl+C
  MaxTotal,    \* bound: failures, crashes and Ctrl+C, altogether
  MaxReruns    \* bound: starts on a run that already reported a terminal status

\* Of a worker: "recoverable" and "permanent" are FormalRunStop with and without
\* auto_resumable, whichever auto_resumable_error makes of the client's exception;
\* "unsaved" is any other exception, which saves nothing.
\* "main" is an exception in the main thread (a ledger or artifact write).
FaultKinds == {"recoverable", "permanent", "unsaved", "main"}

ASSUME EngineAssumption ==
  /\ IsFiniteSet(Workers) /\ Workers # {}
  /\ Faults \subseteq FaultKinds
  /\ MaxFaults \in Nat /\ MaxCrashes \in Nat /\ MaxSigints \in Nat /\ MaxReruns \in Nat
  /\ MaxTotal \in Nat

VARIABLES
  \* the durable ledger
  rows,         \* the attempts table in rowid order
  saved,        \* the formal_state key
  \* the process
  pc,           \* where the main thread is
  stage,        \* whose reconcile runs: boot, the loop, or the exception path
  mem,          \* the scheduler's state in memory
  picked,       \* the item reserved for submission
  pool,         \* the executor's threads
  stop,         \* GlobalStop
  userStop,     \* user_interrupted
  seen,         \* recoverable_failure_seen / permanent_failure_seen
  \* what the last finished process reported
  report,
  \* counters of the bounds
  faults, crashes, sigints, reruns

ledger  == <<rows, saved>>
bounds  == <<faults, crashes, sigints, reruns>>
vars    == <<rows, saved, pc, stage, mem, picked, pool, stop, userStop, seen,
             report, faults, crashes, sigints, reruns>>

Disturbable == faults + crashes + sigints < MaxTotal

----------------------------------------------------------------------------

\* A WorkItem, and the value `picked` and an unused thread have instead of one.
Item(m, t) == [task |-> t, pass |-> m.pass, slot |-> m.slotOf[t]]
NoItem     == Item(initial_state, PrimaryTask[First(Slots)])
Thread(p, item) == [pc |-> p, item |-> item, row |-> 0, result |-> "ok"]
Idle       == Thread("free", NoItem)

\* in_flight: futures submitted and not yet popped by the main thread.
InFlight == {w \in Workers : pool[w].pc # "free"}
Finished == {w \in Workers : pool[w].pc = "done"}
TasksOf(W) == {pool[w].item.task : w \in W}

AcceptedRows == {i \in DOMAIN rows : rows[i].status = "accepted"}
PriorResults(t) == {rows[i].result : i \in {j \in AcceptedRows : rows[j].task = t}}

\* Mutant: processed rows are not skipped.
PendingAgain ==
  {i \in DOMAIN rows :
     /\ rows[i].task \notin mem.active
     /\ rows[i].status # "in_progress"
     /\ rows[i].work}

\* reconcile_attempts skips rows of active tasks, processed rows, rows in
\* progress and rows whose artifact has no formal_work yet.
Pending ==
  {i \in DOMAIN rows :
     /\ rows[i].task \notin mem.active
     /\ i \notin mem.processed
     /\ rows[i].status # "in_progress"
     /\ rows[i].work}

NextRow == First(Pending)

Init ==
  /\ rows = <<>>
  /\ saved = initial_state
  /\ pc = "down" /\ stage = "boot"
  /\ mem = initial_state
  /\ picked = NoItem
  /\ pool = [w \in Workers |-> Idle]
  /\ stop = FALSE /\ userStop = FALSE
  /\ seen = {}
  /\ report = [status |-> "none", eligible |-> FALSE]
  /\ faults = 0 /\ crashes = 0 /\ sigints = 0 /\ reruns = 0

----------------------------------------------------------------------------
(* The process comes up on the ledger: run_from_configuration loads and    *)
(* dumps the state, run_engine marks stale rows and forgets reservations.  *)

\* Mutants: every row that is not accepted is stale; a resumed run keeps the
\* status it stopped with.
MarkUnaccepted ==
  [i \in DOMAIN rows |-> IF rows[i].status # "accepted"
                         THEN [rows[i] EXCEPT !.status = "interrupted"] ELSE rows[i]]

ResumedAsSaved(m) == m

mark_stale_in_progress ==
  [i \in DOMAIN rows |-> IF rows[i].status = "in_progress"
                         THEN [rows[i] EXCEPT !.status = "interrupted"] ELSE rows[i]]

Resumed(m) == [m EXCEPT !.status = "in_progress"]

\* --resume finds the run unless its persisted status is terminal.
find_resume_run == saved.status \notin TerminalRunStates

Boot ==
  /\ pc = "down"
  /\ find_resume_run
  /\ report.status \in TerminalRunStates => reruns < MaxReruns
  /\ reruns' = BumpIf(report.status \in TerminalRunStates, reruns)
  /\ saved' = Resumed(saved)
  /\ mem' = [Resumed(saved) EXCEPT !.active = {}]
  /\ rows' = mark_stale_in_progress
  /\ pc' = "reconcile" /\ stage' = "boot"
  /\ stop' = FALSE /\ userStop' = FALSE /\ seen' = {}
  /\ report' = [status |-> "none", eligible |-> FALSE]
  /\ UNCHANGED <<picked, pool, faults, crashes, sigints>>

----------------------------------------------------------------------------
(* reconcile_attempts, one row at a time in rowid order.                   *)

Verdict(i) ==
  IF rows[i].status = "candidate_success"
  THEN verdict(rows[i].result, PriorResults(rows[i].task))
  ELSE rows[i].status

\* A row that needs no acceptance, or a candidate that is rejected: the row
\* takes its final status and is counted.
ReconcileRow ==
  /\ pc = "reconcile" /\ Pending # {}
  /\ \/ rows[NextRow].status # "candidate_success"
     \/ Verdict(NextRow) # "accepted"
  /\ rows' = [rows EXCEPT ![NextRow].status = Verdict(NextRow)]
  /\ mem' = apply_attempt(mem, NextRow, rows[NextRow], Verdict(NextRow))
  /\ UNCHANGED <<saved, pc, stage, picked, pool, stop, userStop, seen, report, bounds>>

\* ledger.accept first publishes the accepted JSON ...
PublishAccepted ==
  /\ pc = "reconcile" /\ Pending # {}
  /\ rows[NextRow].status = "candidate_success"
  /\ Verdict(NextRow) = "accepted"
  /\ rows' = [rows EXCEPT ![NextRow].files = @ + 1]
  /\ pc' = "commit"
  /\ UNCHANGED <<saved, stage, mem, picked, pool, stop, userStop, seen, report, bounds>>

\* ... then inserts the accepted row and updates the attempt in one transaction.
CommitAccepted ==
  /\ pc = "commit"
  /\ rows' = [rows EXCEPT ![NextRow].status = "accepted"]
  /\ mem' = apply_attempt(mem, NextRow, rows[NextRow], "accepted")
  /\ pc' = "reconcile"
  /\ UNCHANGED <<saved, stage, picked, pool, stop, userStop, seen, report, bounds>>

\* Everything is applied: dump, and go on with the loop.
ReconcileDone ==
  /\ pc = "reconcile" /\ Pending = {} /\ stage # "repair"
  /\ saved' = mem
  /\ pc' = "dispatch" /\ stage' = "loop"
  /\ UNCHANGED <<rows, mem, picked, pool, stop, userStop, seen, report, bounds>>

----------------------------------------------------------------------------
(* The dispatch loop.  Its guard, once false, stays false until a future is *)
(* popped: the stop is never cleared and only this thread changes the rest. *)

CanFill == ~stop /\ mem.status = "in_progress" /\ InFlight # Workers

CallsNextWork == (pc = "dispatch" /\ CanFill) \/ pc = "next_work"
Waits         == (pc = "dispatch" /\ ~CanFill) \/ pc = "wait"

\* next_work, run to its next return or change of pass.  It does not look at
\* the stop again when it goes on with the next pass.
Selecting(p) ==
  /\ CallsNextWork
  /\ AcceptedTotal(mem) < Target
  /\ mem.pass = p
  /\ UNCHANGED <<rows, stage, pool, stop, userStop, seen, report, bounds>>

\* Mutant: the reservation is not dumped.
ReserveInMemory(m, t) ==
  /\ mem' = [m EXCEPT !.active = @ \cup {t}]
  /\ picked' = Item(m, t)
  /\ pc' = "submit"
  /\ UNCHANGED saved

\* An item was found: its reservation is dumped before anything is submitted.
Reserve(m, t) ==
  /\ mem' = [m EXCEPT !.active = @ \cup {t}]
  /\ saved' = mem'
  /\ picked' = Item(m, t)
  /\ pc' = "submit"

\* No item although rollouts are in flight: the loop waits for them.
NoItemYet(m) ==
  /\ m.active # {}
  /\ mem' = m
  /\ pc' = "wait"
  /\ UNCHANGED <<saved, picked>>

\* Mutant: the pass changes while rollouts are in flight.
NextPassEarly(m, p) ==
  /\ mem' = [m EXCEPT !.pass = p]
  /\ pc' = "next_work"
  /\ UNCHANGED <<saved, picked>>

NextPass(m, p) ==
  /\ m.active = {}
  /\ mem' = [m EXCEPT !.pass = p]
  /\ pc' = "next_work"
  /\ UNCHANGED <<saved, picked>>

\* A terminal status is set in memory only; the loop's guards see it next.
SetTerminal(m, status) ==
  /\ mem' = [m EXCEPT !.status = status]
  /\ pc' = "dispatch"
  /\ UNCHANGED <<saved, picked>>

TargetReached ==
  /\ CallsNextWork
  /\ AcceptedTotal(mem) >= Target
  /\ SetTerminal(mem, "complete")
  /\ UNCHANGED <<rows, stage, pool, stop, userStop, seen, report, bounds>>

PassA ==
  /\ Selecting("A")
  /\ \/ \E s \in pass_a_work(mem) :
          LET m == pass_a_serve(pass_a_scan(mem), s) IN Reserve(m, m.current[s])
     \/ Servable(mem) = {} /\ NoItemYet(pass_a_scan(mem))
     \/ Servable(mem) = {} /\ ~StopAfterA /\ NextPass(pass_a_scan(mem), "B")

\* The smoke run ends with its first pass.
SmokeEnd ==
  /\ Selecting("A")
  /\ Servable(mem) = {} /\ mem.active = {} /\ StopAfterA
  /\ SetTerminal(pass_a_scan(mem), "quota_unmet")

PassB ==
  /\ Selecting("B")
  /\ \/ \E t \in pass_b_work(mem) : Reserve(mem, t)
     \/ PassBEligible(mem) = {} /\ NoItemYet(mem)
     \/ PassBEligible(mem) = {} /\ NextPass(mem, "C")

PassC ==
  /\ Selecting("C")
  /\ \/ \E t \in pass_c_work(mem) : Reserve(mem, t)
     \/ pass_c_work(mem) = {} /\ NoItemYet(mem)
     \/ pass_c_work(mem) = {} /\ mem.active = {} /\ SetTerminal(mem, "quota_unmet")

\* The stop is checked once more between the dump and the submission.
Submit ==
  /\ pc = "submit" /\ ~stop
  /\ \E w \in Workers \ InFlight :
       pool' = [pool EXCEPT ![w] = Thread("queued", picked)]
  /\ pc' = "dispatch" /\ picked' = NoItem
  /\ UNCHANGED <<ledger, stage, mem, stop, userStop, seen, report, bounds>>

WithdrawReservation ==
  /\ pc = "submit" /\ stop
  /\ mem' = [mem EXCEPT !.active = TasksOf(InFlight)]
  /\ saved' = mem'
  /\ pc' = "dispatch" /\ picked' = NoItem
  /\ UNCHANGED <<rows, stage, pool, stop, userStop, seen, report, bounds>>

\* wait(FIRST_COMPLETED): every finished future is popped, its error noted,
\* the remaining reservations dumped; then its row is reconciled.
Collect ==
  /\ Waits
  /\ Finished # {}
  /\ stop' = (stop \/ \E w \in Finished : pool[w].result # "ok")
  /\ seen' = seen \cup ({pool[w].result : w \in Finished} \cap {"recoverable", "permanent"})
  /\ pool' = [w \in Workers |-> IF w \in Finished THEN Idle ELSE pool[w]]
  /\ mem' = [mem EXCEPT !.active = TasksOf(InFlight \ Finished)]
  /\ saved' = mem'
  /\ pc' = "reconcile" /\ stage' = "loop"
  /\ UNCHANGED <<rows, picked, userStop, report, bounds>>

----------------------------------------------------------------------------
(* The engine returns, or raises; the process exits and closes the ledger. *)

Exit(status, eligible) ==
  /\ pc' = "down" /\ stage' = "boot"
  /\ mem' = saved'
  /\ picked' = NoItem
  /\ pool' = [w \in Workers |-> Idle]
  /\ stop' = FALSE /\ userStop' = FALSE /\ seen' = {}
  /\ report' = [status |-> status, eligible |-> eligible]

\* Whether --auto-resume may start the run again.  Mutant: a permanent failure
\* does not veto it.
AnyFailure == seen # {} /\ ~userStop

auto_resume_eligible ==
  "recoverable" \in seen /\ "permanent" \notin seen /\ ~userStop

\* Only a stop is dumped here; a terminal status already is, or never is.
Finish ==
  /\ pc = "dispatch" /\ ~CanFill /\ InFlight = {}
  /\ LET stopped == stop /\ mem.status = "in_progress"
     IN  /\ saved' = IF stopped THEN [mem EXCEPT !.status = "stopped"] ELSE saved
         /\ Exit(IF stopped THEN "stopped" ELSE mem.status,
                 stopped /\ auto_resume_eligible)
  /\ UNCHANGED <<rows, bounds>>

\* An exception in the main thread (a ledger or artifact write fails): stop,
\* then join the executor.
MainFault ==
  /\ pc \in {"reconcile", "commit", "dispatch", "submit", "wait"} /\ stage = "loop"
  /\ "main" \in Faults /\ faults < MaxFaults /\ Disturbable
  /\ faults' = faults + 1
  /\ stop' = TRUE
  /\ pc' = "join" /\ picked' = NoItem
  /\ UNCHANGED <<ledger, stage, mem, pool, userStop, seen, report, crashes, sigints, reruns>>

\* Mutant: the reservations survive the join.
JoinedStillActive ==
  /\ pc = "join" /\ InFlight = Finished
  /\ pool' = [w \in Workers |-> Idle]
  /\ pc' = "reconcile" /\ stage' = "repair"
  /\ UNCHANGED <<ledger, mem, picked, stop, userStop, seen, report, bounds>>

Joined ==
  /\ pc = "join" /\ InFlight = Finished
  /\ pool' = [w \in Workers |-> Idle]
  /\ mem' = [mem EXCEPT !.active = {}]
  /\ pc' = "reconcile" /\ stage' = "repair"
  /\ UNCHANGED <<ledger, picked, stop, userStop, seen, report, bounds>>

RepairDone ==
  /\ pc = "reconcile" /\ Pending = {} /\ stage = "repair"
  /\ saved' = [mem EXCEPT !.status = "stopped"]
  /\ Exit("error", FALSE)
  /\ UNCHANGED <<rows, bounds>>

----------------------------------------------------------------------------
(* Worker threads: invoke and execute_rollout.                             *)

WorkerStep(w, step) ==
  /\ pool' = [pool EXCEPT ![w] = step]
  /\ UNCHANGED <<saved, pc, stage, mem, picked, userStop, seen, report, crashes, sigints, reruns>>

\* invoke refuses to start once the stop is set; no row is created.
Cancelled(w) ==
  /\ pool[w].pc = "queued" /\ stop
  /\ WorkerStep(w, [pool[w] EXCEPT !.pc = "done", !.result = "cancelled"])
  /\ UNCHANGED <<rows, stop, faults>>

StartAttempt(w) ==
  /\ pool[w].pc = "queued" /\ ~stop
  /\ rows' = Append(rows,
       [task |-> pool[w].item.task, pass |-> pool[w].item.pass, slot |-> pool[w].item.slot,
        status |-> "in_progress", work |-> FALSE, result |-> NoPurchase, files |-> 0])
  /\ WorkerStep(w, [pool[w] EXCEPT !.pc = "started", !.row = Len(rows) + 1])
  /\ UNCHANGED <<stop, faults>>

\* save_progress puts formal_work into the artifact; from here on the rollout
\* talks to the environment and the teacher.
SaveWork(w) ==
  /\ pool[w].pc = "started"
  /\ rows' = [rows EXCEPT ![pool[w].row].work = TRUE]
  /\ WorkerStep(w, [pool[w] EXCEPT !.pc = "rolling"])
  /\ UNCHANGED <<stop, faults>>

\* The row and the artifact of attempt i with its outcome.
save_attempt(i, status, result) ==
  [rows EXCEPT ![i] = [@ EXCEPT !.status = status, !.result = result]]

\* save_attempt of the outcome.  Until the main thread pops the future the row
\* belongs to an active task, so releasing the session and resolving the future,
\* which follow, are part of this step; an exception sets the stop.
Persist(w, status, result, outcome) ==
  /\ pool[w].pc = "rolling"
  /\ rows' = save_attempt(pool[w].row, status, result)
  /\ WorkerStep(w, [pool[w] EXCEPT !.pc = "done", !.result = outcome])
  /\ stop' = (stop \/ outcome # "ok")

Succeed(w) ==
  \E b \in Results : Persist(w, "candidate_success", b, "ok") /\ UNCHANGED faults

Fail(w) == Persist(w, "failed", NoPurchase, "ok") /\ UNCHANGED faults

\* check_before_external_call sees the stop.
GiveUp(w) == stop /\ Persist(w, "interrupted", NoPurchase, "cancelled") /\ UNCHANGED faults

\* A teacher or environment error ends the rollout and the run.
Break(w) ==
  /\ faults < MaxFaults /\ Disturbable /\ faults' = faults + 1
  /\ \E f \in Faults \cap {"recoverable", "permanent"} :
       Persist(w, "interrupted", NoPurchase, f)

\* Any other exception (a ledger or artifact write of this worker fails) leaves
\* the row as it is, if there already is one.
LoseRow(w) ==
  /\ pool[w].pc \in {"queued", "started", "rolling"}
  /\ "unsaved" \in Faults /\ faults < MaxFaults /\ Disturbable /\ faults' = faults + 1
  /\ WorkerStep(w, [pool[w] EXCEPT !.pc = "done", !.result = "permanent"])
  /\ stop' = TRUE
  /\ UNCHANGED rows

----------------------------------------------------------------------------
(* The world outside.                                                      *)

Sigint ==
  /\ pc # "down" /\ ~userStop
  /\ sigints < MaxSigints /\ Disturbable /\ sigints' = sigints + 1
  /\ stop' = TRUE /\ userStop' = TRUE
  /\ UNCHANGED <<ledger, pc, stage, mem, picked, pool, seen, report, faults, crashes, reruns>>

Crash ==
  /\ pc # "down"
  /\ crashes < MaxCrashes /\ Disturbable /\ crashes' = crashes + 1
  /\ UNCHANGED <<ledger, faults, sigints, reruns>>
  /\ Exit("crashed", FALSE)

----------------------------------------------------------------------------

Main ==
  \/ ReconcileRow \/ PublishAccepted \/ CommitAccepted \/ ReconcileDone
  \/ TargetReached \/ PassA \/ SmokeEnd \/ PassB \/ PassC
  \/ Submit \/ WithdrawReservation \/ Collect \/ Finish \/ Joined \/ RepairDone

Worker(w) ==
  \/ Cancelled(w) \/ StartAttempt(w) \/ SaveWork(w)
  \/ Succeed(w) \/ Fail(w) \/ GiveUp(w) \/ Break(w) \/ LoseRow(w)

Next ==
  \/ Boot \/ Main \/ MainFault \/ Sigint \/ Crash
  \/ \E w \in Workers : Worker(w)

Spec == Init /\ [][Next]_vars

----------------------------------------------------------------------------
(* Types.                                                                  *)

Items  == [task : Tasks, pass : Passes, slot : Slots]
States ==
  [ status : RunStatuses, pass : Passes,
    current : [Slots -> Tasks], fulfilled : SUBSET Slots, exhausted : SUBSET Slots,
    slotOf : [Tasks -> Slots \cup {NoSlot}],
    first : [Tasks -> Nat], post : [Tasks -> Nat], bTries : [Tasks -> Nat],
    demos : [Tasks -> Nat],
    success : SUBSET Tasks, bDone : SUBSET Tasks,
    processed : SUBSET Nat, active : SUBSET Tasks ]
Rows ==
  [ task : Tasks, pass : Passes, slot : Slots, status : RowStatuses,
    work : BOOLEAN, result : Results \cup {NoPurchase}, files : Nat ]
Threads ==
  [ pc : {"free", "queued", "started", "rolling", "done"}, item : Items,
    row : Nat, result : {"ok", "cancelled", "recoverable", "permanent"} ]

\* Every variable keeps its type: in particular an item, a row and a thread
\* always name a coverage slot, never NoSlot (WorkItem.coverage_slot).
TypeOK ==
  /\ rows \in Seq(Rows)
  /\ saved \in States /\ mem \in States
  /\ pc \in {"down", "reconcile", "commit", "dispatch", "next_work", "submit", "wait",
             "join"}
  /\ stage \in {"boot", "loop", "repair"}
  /\ picked \in Items
  /\ pool \in [Workers -> Threads]
  /\ stop \in BOOLEAN /\ userStop \in BOOLEAN
  /\ seen \subseteq {"recoverable", "permanent"}
  /\ report \in [status : RunStatuses \cup {"none", "crashed", "error"}, eligible : BOOLEAN]
  /\ faults \in Nat /\ crashes \in Nat /\ sigints \in Nat /\ reruns \in Nat

----------------------------------------------------------------------------
(* Safety.                                                                 *)

\* Rows that used up an attempt of task t in one of the passes P.
Genuine(t, P) ==
  {i \in DOMAIN rows : /\ rows[i].task = t /\ rows[i].pass \in P
                       /\ rows[i].status \in GenuineStatuses \cup {"candidate_success"}}

CandidateRows == {i \in DOMAIN rows : rows[i].status = "candidate_success"}

CountsOf(m) ==
  \A t \in Tasks :
    /\ m.first[t]  = Cardinality(m.processed \cap Genuine(t, {"A"}))
    /\ m.post[t]   = Cardinality(m.processed \cap Genuine(t, {"B", "C"}))
    /\ m.bTries[t] = Cardinality(m.processed \cap Genuine(t, {"B"}))
    /\ m.demos[t]  = Cardinality(m.processed \cap AcceptedRows \cap Genuine(t, Passes))
    /\ t \in m.success <=> m.processed \cap AcceptedRows \cap Genuine(t, {"A"}) # {}

\* "Exactly-once apply" (reconcile_attempts): across crashes, retried
\* reconciles and restarts, the budgets in memory and in the ledger count
\* every processed attempt row once and nothing else.
ExactlyOnce == CountsOf(mem) /\ CountsOf(saved)

\* attempt_budgets of the policy hold of the rows themselves, processed or
\* not: an attempt that was made but not yet counted when the process died is
\* not made again beyond its cap, and interrupted rows consume nothing.
LedgerWithinBudgets ==
  \A t \in Tasks :
    /\ Cardinality(Genuine(t, {"A"})) <= FirstCap
    /\ Cardinality(Genuine(t, {"B"})) <= BCap
    /\ Cardinality(Genuine(t, {"B", "C"})) <= PostCap
    /\ Cardinality(AcceptedRows \cap Genuine(t, Passes)) <= DemoCap

\* No task has two attempts in flight, the reserved one included
\* (the RuntimeError of run_engine's scheduler invariant is unreachable).
OneFlightPerTask ==
  /\ \A v, w \in InFlight : pool[v].item.task = pool[w].item.task => v = w
  /\ pc = "submit" => picked.task \notin TasksOf(InFlight)

\* allocate_and_persist_before_dispatch: whatever a thread works on or a row
\* was made for is in the persisted state, at the same coverage slot, and a
\* rollout in flight is among the persisted reservations.
DispatchIsDurable ==
  /\ \A i \in DOMAIN rows : saved.slotOf[rows[i].task] = rows[i].slot
  /\ \A w \in InFlight : /\ saved.slotOf[pool[w].item.task] = pool[w].item.slot
                         /\ pool[w].item.task \in saved.active

\* A slot is covered exactly when the task that has it has a counted accepted
\* Pass A row. Coverage moves to a reserve task of the same stratum, never
\* shared by two slots, only when the former task used its budget without a
\* success; a slot is given up only when its stratum has no unused reserve left.
CoverageIsEarned ==
  \A s \in Slots :
    /\ mem.current[s] = PrimaryTask[s] \/ mem.current[s] \in ReserveTasks(Stratum[s])
    /\ mem.slotOf[mem.current[s]] = s
    /\ \A t \in Known(mem) : mem.slotOf[t] = s /\ t # mem.current[s] =>
          t \notin mem.success /\ Cardinality(Genuine(t, {"A"})) = FirstCap
    /\ s \in mem.fulfilled <=>
          mem.processed \cap AcceptedRows \cap Genuine(mem.current[s], {"A"}) # {}
    /\ s \in mem.exhausted =>
          /\ s \notin mem.fulfilled
          /\ Cardinality(Genuine(mem.current[s], {"A"})) = FirstCap
          /\ ReserveTasks(Stratum[s]) \subseteq Known(mem)

PassRank(p) == CASE p = "A" -> 1 [] p = "B" -> 2 [] p = "C" -> 3

\* Passes change only with nothing in flight: attempts of a later pass come
\* after every attempt of an earlier one in the ledger, across restarts, and
\* a post-success attempt is only made for a task with a first success when
\* every slot is fulfilled or exhausted.
PassBarrier ==
  /\ \A i, j \in DOMAIN rows : i < j => PassRank(rows[i].pass) <= PassRank(rows[j].pass)
  /\ \A v, w \in InFlight : pool[v].item.pass = pool[w].item.pass
  /\ \A i \in DOMAIN rows : rows[i].pass # "A" =>
        rows[i].task \in saved.success /\ saved.fulfilled \cup saved.exhausted = Slots

\* accepted + in flight <= target in Pass C, and no run ever holds more
\* successes than its target, so none has to be discarded.
QuotaIsReserved ==
  /\ mem.pass = "C" => AcceptedTotal(mem) + Cardinality(mem.active) <= Target
  /\ Cardinality(AcceptedRows \cup CandidateRows) <= Target

\* Accepted demonstrations of a task differ pairwise, and a row is marked
\* accepted only after its accepted artifact was published.
AcceptedAreDistinct ==
  /\ \A i, j \in AcceptedRows :
        rows[i].task = rows[j].task /\ rows[i].result = rows[j].result => i = j
  /\ \A i \in AcceptedRows : rows[i].files > 0 /\ rows[i].result \in Behaviors

\* When a process ends other than by a crash, every finished attempt has been
\* applied, every published demonstration is committed, and the persisted
\* counts equal the accepted table.
ExitLeavesNothingBehind ==
  pc = "down" /\ report.status \notin {"none", "crashed"} =>
    /\ \A i \in DOMAIN rows :
         rows[i].work /\ rows[i].status # "in_progress" => i \in saved.processed
    /\ CandidateRows = {}
    /\ \A i \in DOMAIN rows : rows[i].files > 0 => rows[i].status = "accepted"
    /\ AcceptedTotal(saved) = Cardinality(AcceptedRows)
    /\ saved.active = {}

\* An automatic resume follows only a drained run: every attempt of the run
\* that just ended reached a final status (an unsaved one vetoes the resume).
EligibleStopIsDrained ==
  pc = "down" /\ report.eligible => \A i \in DOMAIN rows : rows[i].status # "in_progress"

\* A row that was counted never changes again, and a status that consumed an
\* attempt (or was ruled not to) is never replaced by another one.
CountedRowsAreFinal ==
  [][ \A i \in DOMAIN rows :
        /\ i \in saved.processed => rows'[i] = rows[i]
        /\ rows[i].status \in GenuineStatuses => rows'[i].status = rows[i].status ]_rows

----------------------------------------------------------------------------
(* What the collection promises, read off the attempts table: a candidate  *)
(* counts as an attempt from the moment its fate is decided.               *)

Paid(t, P) ==
  Cardinality({i \in DOMAIN rows : /\ rows[i].task = t /\ rows[i].pass \in P
                                   /\ rows[i].status \in GenuineStatuses})

Contract == INSTANCE CollectionContract WITH
  dataset <- {<<rows[i].task, rows[i].result>> : i \in AcceptedRows},
  first   <- [t \in Tasks |-> Paid(t, {"A"})],
  post    <- [t \in Tasks |-> Paid(t, {"B", "C"})]

\* The collector implements its contract: through every interleaving, stop,
\* crash and restart the attempts table grows like a dataset of distinct
\* demonstrations, each attempt paid from the right budget of its task.
ImplementsContract == Contract!Spec

----------------------------------------------------------------------------
(* Liveness: the main thread and the threads are scheduled, calls return    *)
(* (every client has a timeout); nobody has to restart a process but the    *)
(* --auto-resume loop after an eligible stop.                               *)

AutoResume == report.eligible /\ Boot

FairSpec ==
  /\ Spec
  /\ WF_vars(Main) /\ WF_vars(AutoResume)
  /\ \A w \in Workers : WF_vars(Worker(w))

\* A started engine always returns (no lost future, no endless refill), and the
\* automatic resume brings the run to complete or quota_unmet, unless a Ctrl+C, a
\* crash, an error of the main thread or a permanent failure ends it before.
EventuallyTerminal ==
  pc # "down" ~>
    /\ pc = "down" /\ ~report.eligible
    /\ report.status = "stopped" =>
         sigints > 0 \/ Faults \cap {"permanent", "unsaved"} # {}

\* The status a run ended with is the one --resume will read.
TerminalStatusIsDurable ==
  pc = "down" /\ report.status \in TerminalRunStates => saved.status = report.status

=============================================================================
