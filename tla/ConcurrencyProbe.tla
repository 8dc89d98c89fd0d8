-------------------------- MODULE ConcurrencyProbe --------------------------
(***************************************************************************)
(* The concurrency probe: run_bounded hands a list of tasks to a pool of   *)
(* threads under one GlobalStop, each task is one episode whose requests   *)
(* to the teacher are the calls of TeacherClient, and its artifact is kept *)
(* in a ConcurrentArtifactStore.                                           *)
(*                                                                         *)
(* The callers of TeacherClient are the tasks.  Between two shared reads   *)
(* or writes (the stop, the queue) a thread's work is one step; a request  *)
(* to the environment is one step, which ShopEnvService looks into.        *)
(***************************************************************************)
EXTENDS TeacherClient, Sequences

CONSTANTS
  TaskList,   \* the frozen task ids, in order
  Threads,    \* the number of threads of the executor
  MaxSteps    \* MAX_ACTION_STEPS: 30 in the code

ASSUME ProbeAssumption ==
  /\ TaskList \in Seq(Callers)
  /\ Callers = {TaskList[i] : i \in DOMAIN TaskList}
  /\ \A i, j \in DOMAIN TaskList : TaskList[i] = TaskList[j] => i = j
  /\ Threads \in Nat \ {0}
  /\ MaxSteps \in Nat \ {0}

VARIABLES
  job,        \* per task: where its thread is, its record, what it raised
  artifact,   \* tasks/<id>.json: "absent", "in_progress" or the final outcome
  result,     \* the WorkerResult of each future: "none" until it is there
  report      \* the manifest's status

probeVars == <<call, stop, late, job, artifact, result, report>>

\* outcome is what _finish puts into the record; raised is the exception that
\* leaves _run_task.
Job(pc) == [pc |-> pc, steps |-> 0, outcome |-> "none", raised |-> "none"]

TaskOutcomes == {"success", "terminal_unsuccessful", "malformed_action",
                 "invalid_action", "max_steps", "environment_error",
                 "provider_protocol_error", "infrastructure_interrupted"}

\* Exceptions that neither _run_task nor run_bounded knows: the extraction's, a sleep's
\* on an infinite delay, and assert_no_evaluator_leakage's.
Uncaught == {"AttributeError", "OverflowError", "AssertionError"}

Busy == {t \in Callers : job[t].pc \notin {"queued", "returned"}}
Over == \A t \in Callers : job[t].pc = "returned"

Init ==
  /\ ClientInit
  /\ job = [t \in Callers |-> Job("queued")]
  /\ artifact = [t \in Callers |-> "absent"]
  /\ result = [t \in Callers |-> "none"]
  /\ report = "in_progress"

----------------------------------------------------------------------------
(* One task.  To(t, pc) moves its thread; Ends sets the record's outcome   *)
(* and goes to the finally block.                                          *)

To(t, pc) == job' = [job EXCEPT ![t].pc = pc]

Ends(t, outcome) ==
  job' = [job EXCEPT ![t].pc = "finally", ![t].outcome = outcome]

\* A free thread takes the first queued item.
Take(t) ==
  /\ job[t].pc = "queued"
  /\ Cardinality(Busy) < Threads
  /\ \A i, j \in DOMAIN TaskList :
       TaskList[j] = t /\ i < j => job[TaskList[i]].pc # "queued"
  /\ To(t, "taken")
  /\ UNCHANGED <<call, stop, late, artifact, result>>

\* ConcurrentArtifactStore: a new artifact, which nobody else writes, and its
\* replacement as a whole by the record of a task that ended.
write(t)          == artifact' = [artifact EXCEPT ![t] = "in_progress"]
update(t, record) == artifact' = [artifact EXCEPT ![t] = IF record.outcome = "none"
                                                         THEN "in_progress" ELSE record.outcome]

\* invoke: a queued item of a stopped pool is cancelled, any other writes its
\* artifact and starts.
Begin(t) ==
  /\ job[t].pc = "taken"
  /\ IF stop
     THEN /\ To(t, "returned")
          /\ result' = [result EXCEPT ![t] = "cancelled"]
          /\ UNCHANGED artifact
     ELSE /\ To(t, "reset")
          /\ write(t)
          /\ UNCHANGED result
  /\ UNCHANGED <<call, stop, late>>

Leaves(t, exception) ==
  job' = [job EXCEPT ![t].pc = "finally", ![t].raised = exception]

\* The environment gives a session, whose first messages may fail the check for
\* evaluator-only fields, fails, or is unreachable; a reset that is refused by the
\* client's checks has a session it does not know of.
Reset(t) ==
  /\ job[t].pc = "reset"
  /\ \/ /\ To(t, "check") \/ Leaves(t, "AssertionError")
        /\ UNCHANGED stop
     \/ /\ Ends(t, "environment_error")
        /\ UNCHANGED stop
     \/ /\ Ends(t, "infrastructure_interrupted")
        /\ stop' = TRUE
  /\ UNCHANGED <<call, late, artifact, result>>

\* check_before_external_call raises WorkerCancelled, which _run_task does not
\* catch; otherwise generate is called.
Check(t) ==
  /\ job[t].pc = "check"
  /\ \/ /\ Generate(t)
        /\ To(t, "generate")
     \/ /\ stop
        /\ Leaves(t, "WorkerCancelled")
        /\ UNCHANGED <<call, late>>
  /\ UNCHANGED <<stop, artifact, result>>

Calling(t) ==
  /\ job[t].pc = "generate"
  /\ Post(t) \/ Sleep(t)
  /\ UNCHANGED <<stop, job, artifact, result>>

\* except (TeacherClientError, ..., ValueError): which kinds set the stop.
SetsStop(outcome) == outcome \in {"infrastructure", "provider_protocol_error"}

\* What _run_task makes of an exception of generate.
Raised(t, outcome) ==
  IF outcome \in Uncaught
  THEN Leaves(t, outcome)
  ELSE Ends(t, IF SetsStop(outcome) THEN "infrastructure_interrupted"
                                    ELSE "environment_error")

\* The call's outcome reaches the worker: an error, a foreign model, a malformed
\* action, or an action to play.
Answered(t) ==
  /\ job[t].pc = "generate"
  /\ call[t].pc = "over"
  /\ Return(t)
  /\ IF call[t].outcome = "ok"
     THEN /\ \E pc \in {"step", "finally"} :
               \E outcome \in {"none", "provider_protocol_error", "malformed_action"} :
                 /\ (pc = "step") = (outcome = "none")
                 /\ job' = [job EXCEPT ![t].pc = pc, ![t].outcome = outcome]
          /\ UNCHANGED stop
     ELSE /\ Raised(t, call[t].outcome)
          /\ stop' = (stop \/ SetsStop(call[t].outcome))
  /\ UNCHANGED <<artifact, result>>

\* One action in the environment.
Step(t) ==
  /\ job[t].pc = "step"
  /\ \/ /\ job[t].steps + 1 < MaxSteps
        /\ job' = [job EXCEPT ![t].pc = "check", ![t].steps = @ + 1]
        /\ UNCHANGED stop
     \/ /\ job[t].steps + 1 = MaxSteps
        /\ Ends(t, "max_steps")
        /\ UNCHANGED stop
     \/ /\ \E outcome \in {"success", "terminal_unsuccessful", "invalid_action",
                           "environment_error"} : Ends(t, outcome)
        /\ UNCHANGED stop
     \/ /\ Ends(t, "infrastructure_interrupted")
        /\ stop' = TRUE
  /\ UNCHANGED <<call, late, artifact, result>>

\* The value run_bounded's wrapper makes of how _run_task ended.
WorkerResult(j) ==
  CASE j.raised = "WorkerCancelled" -> "cancelled"
    [] j.raised \in Uncaught        -> "worker_error"
    [] OTHER                        -> j.outcome

\* Mutants: an unknown exception does not set the stop; the record is not saved.
FinallyGoesOn(t) ==
  /\ job[t].pc = "finally"
  /\ To(t, "returned")
  /\ update(t, job[t])
  /\ result' = [result EXCEPT ![t] = WorkerResult(job[t])]
  /\ UNCHANGED <<call, stop, late>>

FinallyUnsaved(t) ==
  /\ job[t].pc = "finally"
  /\ To(t, "returned")
  /\ result' = [result EXCEPT ![t] = WorkerResult(job[t])]
  /\ stop' = (stop \/ job[t].raised \in Uncaught)
  /\ UNCHANGED <<call, late, artifact>>

\* finally: release, the record into the artifact, and back to invoke, which
\* sets the stop for an exception it does not know.
Finally(t) ==
  /\ job[t].pc = "finally"
  /\ To(t, "returned")
  /\ update(t, job[t])
  /\ result' = [result EXCEPT ![t] = WorkerResult(job[t])]
  /\ stop' = (stop \/ job[t].raised \in Uncaught)
  /\ UNCHANGED <<call, late>>

\* Every future has its result: the aggregate and the manifest's status.
Aggregate ==
  /\ Over /\ report = "in_progress"
  /\ report' = IF stop THEN "stopped" ELSE "complete"
  /\ UNCHANGED <<call, stop, late, job, artifact, result>>

Work(t) == Take(t) \/ Begin(t) \/ Reset(t) \/ Check(t) \/ Calling(t)
             \/ Answered(t) \/ Step(t) \/ Finally(t)

Next == Aggregate \/ \E t \in Callers : Work(t) /\ UNCHANGED report

Spec == /\ Init /\ [][Next]_probeVars
        /\ WF_probeVars(Aggregate)
        /\ \A t \in Callers : WF_probeVars(Work(t) /\ UNCHANGED report)

----------------------------------------------------------------------------

TypeOK ==
  /\ ClientTypeOK
  /\ job \in [Callers ->
       [pc : {"queued", "taken", "reset", "check", "generate", "step", "finally",
              "returned"},
        steps : 0 .. MaxSteps - 1, outcome : TaskOutcomes \cup {"none"},
        raised : Uncaught \cup {"none", "WorkerCancelled"}]]
  /\ artifact \in [Callers -> TaskOutcomes \cup {"absent", "in_progress"}]
  /\ result \in [Callers -> TaskOutcomes \cup {"none", "cancelled", "worker_error"}]
  /\ report \in {"in_progress", "complete", "stopped"}
  /\ Cardinality(Busy) <= Threads

\* A probe reports complete only when every task ran to an outcome of its own;
\* one that stopped has a task whose failure stopped it.
StatusIsEarned ==
  /\ report = "complete" =>
       \A t \in Callers : result[t] \in TaskOutcomes \ {"infrastructure_interrupted"}
  /\ report = "stopped" =>
       \E t \in Callers : result[t] \in {"infrastructure_interrupted", "worker_error"}

\* What the store holds at the end agrees with what run_bounded returned: the
\* artifact of a task that returned has its outcome, that of a task that did not
\* was never written or is still in progress.
ArtifactsAgree ==
  report # "in_progress" =>
    \A t \in Callers :
      IF result[t] \in TaskOutcomes THEN artifact[t] = result[t]
                                    ELSE artifact[t] \in {"absent", "in_progress"}

\* Whatever the relay and the environment answer, the probe ends.
ProbeEnds == <>(report # "in_progress")

\* WorkerCancelled: "a task was queued before a global stop and never started".
CancelledNeverStarted ==
  \A t \in Callers : result[t] = "cancelled" => artifact[t] = "absent"

=============================================================================
