----------------------------- MODULE ProfileRun -----------------------------
(***************************************************************************)
(* A profiling run: one process works through a frozen list of tasks, up   *)
(* to FirstMax attempts for a first success of each and then SecondMax     *)
(* second demonstrations, and records every attempt in a TeacherLedger     *)
(* opened with profile=True.  Ctrl+C runs GracefulCollectionStop's handler *)
(* between any two steps of that process, a crash ends it between any two, *)
(* and the run is started again on the same ledger.                        *)
(*                                                                         *)
(* An attempt has a row in SQLite and a JSON file, attempts/<id>.json; a   *)
(* success gets a second file, trajectories/<id>.json, to which the row    *)
(* then points.  Writing is three steps: the row is read, the file is      *)
(* replaced, the row is updated; the handler can come between them.        *)
(* The statuses of an attempt the teacher or the environment failed        *)
(* (teacher_failure, malformed_action, invalid_action, max_steps,          *)
(* environment_failure) are one, "failure"; provider_config_error and      *)
(* provider_model_mismatch are "provider_error".                           *)
(***************************************************************************)
EXTENDS Naturals, Sequences, FiniteSets

CONSTANTS
  TaskList,    \* the frozen task ids, in order
  FirstMax,    \* PROFILE_LIMITS["first_success_max_attempts"]: 3
  SecondMax,   \* PROFILE_LIMITS["second_demo_max_attempts"]: 2
  MaxSteps,    \* PROFILE_LIMITS["max_action_steps"]: 30
  OtherRuns,   \* the scenario's other run directories
  Faults,      \* what may go wrong outside the teacher's answers
  MaxFaults, MaxCrashes, MaxSigints, MaxReruns   \* bounds

\* "infrastructure": the relay or the environment is out of reach; "provider": a
\* config error or a foreign model; "contract": an exception nothing catches (a
\* reset without an observation, a body the client trips over).
FaultKinds == {"infrastructure", "provider", "contract"}

\* When this run was created; the other runs are older or younger.
Created == 1

ASSUME ProfileAssumption ==
  /\ TaskList \in Seq({TaskList[i] : i \in DOMAIN TaskList}) \ {<<>>}
  /\ \A i, j \in DOMAIN TaskList : TaskList[i] = TaskList[j] => i = j
  /\ FirstMax \in Nat \ {0} /\ SecondMax \in Nat /\ MaxSteps \in Nat \ {0}
  /\ Faults \subseteq FaultKinds
  /\ \A r \in OtherRuns : r.created \in Nat \ {Created}
  /\ {MaxFaults, MaxCrashes, MaxSigints, MaxReruns} \subseteq Nat

VARIABLES
  rows,     \* the attempts table in rowid order, each with its files
  saved,    \* run_state's status, "none" before the first
  open,     \* the ledger's connection (not ledger.closed)
  pc,       \* where the main thread is
  run,      \* run_profile's and _execute_attempt's local state
  guard,    \* GracefulCollectionStop: the registered attempt, stop_requested
  used      \* how much of each bound is used

vars == <<rows, saved, open, pc, run, guard, used>>

Tasks == {TaskList[i] : i \in DOMAIN TaskList}

Phases   == {"first_success", "second_demo"}
Verdicts == {"failure", "success"}
Statuses == Verdicts \cup {"in_progress", "provider_error",
                           "infrastructure_interrupted", "profile_unsolved"}

\* The JSON of an attempt: attempt_phase is missing until the first save.
File(status, phase) == [status |-> status, phase |-> phase]

\* A row as start_attempt inserts it.  phase and genuine are auxiliary: what the
\* attempt was made for, and whether it ever got a verdict.
NewRow(t, p) ==
  [task |-> t, status |-> "in_progress", path |-> "attempt",
   attempt |-> File("in_progress", "none"), trajectory |-> File("absent", "none"),
   phase |-> p, genuine |-> FALSE]

\* The file the row points to.
Artifact(row) == IF row.path = "attempt" THEN row.attempt ELSE row.trajectory

RowsOf(t)    == {i \in DOMAIN rows : rows[i].task = t}
CountedOf(t) == {i \in RowsOf(t) : rows[i].status # "infrastructure_interrupted"}

\* How run_profile counts attempts: by the phase in the artifact, a missing one
\* counting as first_success.
SecondAttempts(t) ==
  Cardinality({i \in CountedOf(t) : Artifact(rows[i]).phase = "second_demo"})
FirstAttempts(t) ==
  Cardinality({i \in CountedOf(t) : Artifact(rows[i]).phase # "second_demo"})

\* Mutant: a success counts before its trajectory is published.
success_rows(t) == {i \in RowsOf(t) : rows[i].status = "success"}

\* _success_records: only a published trajectory has profiling_status success.
success_records(t) ==
  {i \in RowsOf(t) : /\ rows[i].status = "success"
                     /\ rows[i].path = "trajectory"
                     /\ rows[i].trajectory.status = "success"}

NewRun == [at |-> 1, firsts |-> 0, seconds |-> 0, phase |-> "first_success",
           row |-> 0, steps |-> 0, session |-> FALSE,
           save |-> "in_progress", then |-> "turn", exit |-> "none"]

Quiet == [attempt |-> 0, stop |-> FALSE]

Init ==
  /\ rows = <<>> /\ saved = "none" /\ open = FALSE
  /\ pc = "down" /\ run = NewRun /\ guard = Quiet
  /\ used = [faults |-> 0, crashes |-> 0, sigints |-> 0, reruns |-> 0]

----------------------------------------------------------------------------
(* Steps of the main thread.  A call of the ledger fails when the handler  *)
(* has closed it: sqlite3.ProgrammingError, which nothing catches.         *)

Task == TaskList[run.at]

Go(p)   == pc' = p /\ UNCHANGED run
Fail(e) == /\ pc' = IF run.session THEN "release" ELSE "closing"
           /\ run' = [run EXCEPT !.exit = e]

\* Leave _execute_attempt through its finally block.
Leave(e) == pc' = "release" /\ run' = [run EXCEPT !.exit = e]

\* Call save_attempt or save_progress, and go on at `then`.
Save(status, then) ==
  pc' = "read" /\ run' = [run EXCEPT !.save = status, !.then = then]

Fault(kind) ==
  /\ kind \in Faults /\ used.faults < MaxFaults
  /\ used' = [used EXCEPT !.faults = @ + 1]

NoFault == UNCHANGED used

\* This run among the runs of its scenario: same is for a manifest with the tasks
\* and the teacher of the command line.
This == [created |-> Created, status |-> saved, same |-> TRUE]

latest(runs) == {r \in runs : \A s \in runs : s.created <= r.created}

\* Mutant: a run that stopped is not found again.
find_interrupted(runs) ==
  latest({r \in runs : r.status \in {"none", "infrastructure_interrupted"} /\ r.same})

\* What --resume finds: the youngest run with this identity that is not complete.
_find_resume_run(runs) == latest({r \in runs : r.status # "complete" /\ r.same})

\* run_profile up to its loop, for this run: made, found again by --resume, or
\* named with --run-id, which nothing but a rerun of a complete run has to be.
Start ==
  /\ pc = "down"
  /\ IF This \in _find_resume_run(OtherRuns \cup {This})
     THEN NoFault
     ELSE used.reruns < MaxReruns /\ used' = [used EXCEPT !.reruns = @ + 1]
  /\ open' = TRUE /\ guard' = Quiet
  /\ pc' = "task" /\ run' = NewRun
  /\ UNCHANGED <<rows, saved>>

\* Mutant: an unsolved task is left as it is.
GivesUpSilently(firsts, seconds) ==
  LET solved == success_records(Task) # {}
  IN IF (~solved /\ firsts < FirstMax) \/ (solved /\ seconds < SecondMax)
     THEN /\ pc' = "start"
          /\ run' = [run EXCEPT !.firsts = firsts, !.seconds = seconds,
                                !.phase = IF solved THEN "second_demo" ELSE "first_success"]
     ELSE pc' = "task" /\ run' = [NewRun EXCEPT !.at = run.at + 1]

\* The phase of a task decides what comes next, from the counts in memory.
Decide(firsts, seconds) ==
  LET solved == success_records(Task) # {}
      next(p, phase) == /\ pc' = p
                        /\ run' = [run EXCEPT !.firsts = firsts, !.seconds = seconds,
                                              !.phase = phase]
  IN CASE ~solved /\ firsts < FirstMax -> next("start", "first_success")
       [] ~solved /\ firsts >= FirstMax -> next("unsolved", "first_success")
       [] solved /\ seconds < SecondMax -> next("start", "second_demo")
       [] OTHER -> pc' = "task" /\ run' = [NewRun EXCEPT !.at = run.at + 1]

\* The next task of the list, counted from the ledger; after the last one the
\* run is complete.
NextTask ==
  /\ pc = "task"
  /\ IF ~open THEN Fail("error") /\ UNCHANGED saved
     ELSE IF run.at > Len(TaskList) THEN saved' = "complete" /\ Go("closing")
     ELSE Decide(FirstAttempts(Task), SecondAttempts(Task)) /\ UNCHANGED saved
  /\ UNCHANGED <<rows, open, guard, used>>

\* After an attempt of this process.
NextAttempt ==
  /\ pc = "decide"
  /\ IF open THEN Decide(run.firsts + (IF run.phase = "first_success" THEN 1 ELSE 0),
                         run.seconds + (IF run.phase = "second_demo" THEN 1 ELSE 0))
             ELSE Fail("error")
  /\ UNCHANGED <<rows, saved, open, guard, used>>

\* mark_profile_unsolved saves the task's last row that is not interrupted.
MarkUnsolved ==
  /\ pc = "unsolved"
  /\ IF open THEN LET last == CHOOSE i \in CountedOf(Task) :
                                \A j \in CountedOf(Task) : j <= i
                  IN /\ pc' = "read"
                     /\ run' = [run EXCEPT !.row = last, !.save = "profile_unsolved",
                                           !.then = "task"]
             ELSE Fail("error")
  /\ UNCHANGED <<rows, saved, open, guard, used>>

StartAttempt ==
  /\ pc = "start"
  /\ IF open THEN /\ rows' = Append(rows, NewRow(Task, run.phase))
                  /\ pc' = "reset"
                  /\ run' = [run EXCEPT !.row = Len(rows) + 1, !.steps = 0]
             ELSE Fail("error") /\ UNCHANGED rows
  /\ UNCHANGED <<saved, open, guard, used>>

\* env.reset, and the context built from it: only then does the guard know the
\* attempt.
Reset ==
  /\ pc = "reset"
  /\ \/ /\ pc' = "turn" /\ run' = [run EXCEPT !.session = TRUE]
        /\ guard' = [guard EXCEPT !.attempt = run.row]
        /\ NoFault
     \/ /\ Save("failure", "return") /\ NoFault /\ UNCHANGED guard
     \/ /\ Fault("infrastructure")
        /\ Save("infrastructure_interrupted", "stop") /\ UNCHANGED guard
     \/ /\ Fault("contract")
        /\ pc' = "closing" /\ run' = [run EXCEPT !.session = TRUE, !.exit = "lost"]
        /\ UNCHANGED guard
  /\ UNCHANGED <<rows, saved, open>>

\* The loop head of a step: the stop is looked at before every teacher call.
Turn ==
  /\ pc = "turn"
  /\ IF guard.stop THEN Leave("stop") ELSE Go("call")
  /\ UNCHANGED <<rows, saved, open, guard, used>>

\* generate_or_interrupt and the checks of its answer.
CallTeacher ==
  /\ pc = "call"
  /\ \/ Go("play") /\ NoFault
     \/ Save("failure", "return") /\ NoFault
     \/ Fault("infrastructure") /\ Save("infrastructure_interrupted", "shutdown")
     \/ Fault("provider") /\ Save("provider_error", "raise")
     \/ Fault("contract") /\ Leave("error")
  /\ UNCHANGED <<rows, saved, open, guard>>

\* env.step: an action that plays on, ends the episode, or fails.
Play ==
  /\ pc = "play"
  /\ \/ /\ pc' = "read" /\ NoFault
        /\ \E then \in {IF run.steps + 1 < MaxSteps THEN "turn" ELSE "lost",
                        "won", "lost"} :
             run' = [run EXCEPT !.steps = @ + 1, !.save = "in_progress", !.then = then]
     \/ Save("failure", "return") /\ NoFault
     \/ Fault("infrastructure") /\ Save("infrastructure_interrupted", "stop")
     \/ Fault("contract") /\ Leave("error")
  /\ UNCHANGED <<rows, saved, open, guard>>

\* After save_progress of the last action.
Terminal ==
  /\ pc \in {"won", "lost"}
  /\ IF pc = "won" THEN Save("success", "trajectory") ELSE Save("failure", "return")
  /\ UNCHANGED <<rows, saved, open, guard, used>>

----------------------------------------------------------------------------
(* The ledger: save_attempt, save_progress and save_trajectory.            *)

ReadRow ==
  /\ pc \in {"read", "trajectory"}
  /\ IF ~open THEN Fail("error")
     ELSE Go(IF pc = "read" THEN "publish" ELSE "publish_trajectory")
  /\ UNCHANGED <<rows, saved, open, guard, used>>

\* What is written over the file: a record that knows its phase, or for
\* mark_profile_unsolved the record that was there.
Over(row) == File(run.save, IF run.save = "profile_unsolved" THEN Artifact(row).phase
                                                             ELSE run.phase)

replaced(row, file) ==
  IF row.path = "attempt" THEN [row EXCEPT !.attempt = file]
                          ELSE [row EXCEPT !.trajectory = file]

\* Mutant: the row is updated before its file.
PublishLate ==
  /\ pc = "publish" /\ Go("commit")
  /\ rows' = [rows EXCEPT ![run.row].status = run.save]
  /\ UNCHANGED <<saved, open, guard, used>>

Publish ==
  /\ pc = "publish" /\ Go("commit")
  /\ rows' = [rows EXCEPT ![run.row] = replaced(rows[run.row], Over(rows[run.row]))]
  /\ UNCHANGED <<saved, open, guard, used>>

Commit ==
  /\ pc = "commit"
  /\ IF open THEN /\ rows' = [rows EXCEPT ![run.row].status = run.save,
                                          ![run.row].genuine =
                                            @ \/ run.save \in Verdicts]
                  /\ pc' = run.then
                  /\ run' = IF run.then = "task" THEN [NewRun EXCEPT !.at = run.at + 1]
                                                 ELSE run
             ELSE Fail("error") /\ UNCHANGED rows
  /\ UNCHANGED <<saved, open, guard, used>>

PublishTrajectory ==
  /\ pc = "publish_trajectory" /\ Go("commit_trajectory")
  /\ rows' = [rows EXCEPT ![run.row].trajectory = File("success", run.phase)]
  /\ UNCHANGED <<saved, open, guard, used>>

CommitTrajectory ==
  /\ pc = "commit_trajectory"
  /\ IF open THEN /\ rows' = [rows EXCEPT ![run.row].status = "success",
                                          ![run.row].path = "trajectory"]
                  /\ Leave("none")
             ELSE Fail("error") /\ UNCHANGED rows
  /\ UNCHANGED <<saved, open, guard, used>>

----------------------------------------------------------------------------
(* The ways out.                                                           *)

\* What follows an attempt's last save: a status is returned, ProfileStop or
\* TeacherModelMismatch is raised, or the infrastructure stop is recorded first
\* (by generate_or_interrupt, which also closes the ledger).
Conclude ==
  /\ pc \in {"return", "raise", "stop", "shutdown"}
  /\ IF pc \in {"return", "raise"}
     THEN /\ Leave(IF pc = "return" THEN "none" ELSE "stop")
          /\ UNCHANGED <<saved, open>>
     ELSE IF open
     THEN /\ Leave("stop")
          /\ saved' = "infrastructure_interrupted"
          /\ open' = (pc = "stop")
     ELSE Fail("error") /\ UNCHANGED <<saved, open>>
  /\ UNCHANGED <<rows, guard, used>>

\* finally of _execute_attempt: the session is released, a call over the network
\* whose failure is ignored, and only then is the attempt unregistered.
Release ==
  /\ pc = "release"
  /\ run' = [run EXCEPT !.session = FALSE]
  /\ guard' = [guard EXCEPT !.attempt = 0]
  /\ pc' = CASE run.exit = "none" -> "decide"
             [] run.exit = "stop" -> "stopping"
             [] OTHER             -> "closing"
  /\ UNCHANGED <<rows, saved, open, used>>

\* run_profile's except clause.
Stopping ==
  /\ pc = "stopping" /\ Go("closing")
  /\ saved' = IF open /\ saved = "none" THEN "stopped" ELSE saved
  /\ UNCHANGED <<rows, open, guard, used>>

\* guard.close: the old handler back, the ledger closed.
Close ==
  /\ pc = "closing"
  /\ pc' = "down" /\ run' = [run EXCEPT !.session = FALSE]
  /\ open' = FALSE /\ guard' = Quiet
  /\ UNCHANGED <<rows, saved, used>>

\* handle_sigint, between any two steps: the registered attempt is saved as
\* interrupted wherever its row points, and the ledger is closed.  A second
\* Ctrl+C finds it closed and raises; the release swallows that.
Interrupted(i) ==
  LET row == replaced(rows[i], File("infrastructure_interrupted", run.phase))
  IN [rows EXCEPT ![i] = [row EXCEPT !.status = "infrastructure_interrupted"]]

Sigint ==
  /\ pc # "down" /\ used.sigints < MaxSigints
  /\ used' = [used EXCEPT !.sigints = @ + 1]
  /\ IF open
     THEN /\ rows' = IF guard.attempt = 0 THEN rows ELSE Interrupted(guard.attempt)
          /\ guard' = [attempt |-> 0, stop |-> TRUE]
          /\ saved' = "infrastructure_interrupted" /\ open' = FALSE
          /\ UNCHANGED <<pc, run>>
     ELSE /\ IF pc \in {"release", "closing"} THEN UNCHANGED <<pc, run>> ELSE Fail("error")
          /\ guard' = [guard EXCEPT !.stop = TRUE]
          /\ UNCHANGED <<rows, saved, open>>

Crash ==
  /\ pc # "down" /\ used.crashes < MaxCrashes
  /\ used' = [used EXCEPT !.crashes = @ + 1]
  /\ pc' = "down" /\ run' = NewRun /\ guard' = Quiet /\ open' = FALSE
  /\ UNCHANGED <<rows, saved>>

Main ==
  \/ NextTask \/ NextAttempt \/ MarkUnsolved \/ StartAttempt \/ Reset \/ Turn
  \/ CallTeacher \/ Play \/ Terminal
  \/ ReadRow \/ Publish \/ Commit \/ PublishTrajectory \/ CommitTrajectory
  \/ Conclude \/ Release \/ Stopping \/ Close

Next == Start \/ Main \/ Sigint \/ Crash

\* Every call the main thread makes has a timeout, so it moves on; in Resumed
\* the user also starts an unfinished run again, however often it stops.
Spec    == Init /\ [][Next]_vars /\ WF_vars(Main)
Resumed == Spec /\ WF_vars(Start /\ saved # "complete")

----------------------------------------------------------------------------

\* A demonstration as the data set sees it: a published trajectory, and a row
\* that points to it.
Demonstrations(t) ==
  {i \in RowsOf(t) : /\ rows[i].status = "success" /\ rows[i].path = "trajectory"
                     /\ rows[i].trajectory.status = "success"}

PcValues == {"down", "task", "decide", "unsolved", "start", "reset", "turn", "call",
             "play", "won", "lost", "read", "publish", "commit", "trajectory",
             "publish_trajectory", "commit_trajectory", "return", "raise", "stop",
             "shutdown", "release", "stopping", "closing"}

Files(none) == [status : Statuses \cup none, phase : Phases \cup {"none"}]

RowType ==
  [task : Tasks, status : Statuses, path : {"attempt", "trajectory"},
   attempt : Files({}), trajectory : Files({"absent"}), phase : Phases,
   genuine : BOOLEAN]

TypeOK ==
  /\ rows \in Seq(RowType)
  /\ saved \in {"none", "infrastructure_interrupted", "stopped", "complete"}
  /\ open \in BOOLEAN
  /\ pc \in PcValues
  /\ run \in [at : 1 .. Len(TaskList) + 1, firsts : Nat, seconds : Nat,
              phase : Phases, row : Nat, steps : 0 .. MaxSteps, session : BOOLEAN,
              save : Statuses, then : PcValues,
              exit : {"none", "stop", "error", "lost"}]
  /\ guard \in [attempt : Nat, stop : BOOLEAN]
  /\ used \in [faults : 0 .. MaxFaults, crashes : 0 .. MaxCrashes,
               sigints : 0 .. MaxSigints, reruns : 0 .. MaxReruns]

\* Attempts of one phase that ended, whatever ended them, an interruption excepted.
Ended(t, p) ==
  {i \in CountedOf(t) : rows[i].phase = p /\ rows[i].status # "in_progress"}

\* However often the run is stopped and resumed, a task never ends more than
\* FirstMax attempts for a first success, nor more than SecondMax second
\* demonstrations (PROFILE_LIMITS); the counts are rebuilt from artifacts.
AttemptsWithinLimits ==
  \A t \in Tasks : /\ Cardinality(Ended(t, "first_success")) <= FirstMax
                   /\ Cardinality(Ended(t, "second_demo")) <= SecondMax

\* A second demonstration is only asked for when a success of the same task, its
\* trajectory published and its row pointing to it, came before; and that success
\* stays while the demonstrations are interrupted, resumed and lost.
SecondDemoFollowsSuccess ==
  \A i \in DOMAIN rows : rows[i].phase = "second_demo" =>
    \E j \in Demonstrations(rows[i].task) : j < i

\* No attempt is made that the ledger does not call for: the two together.
AttemptsAreDue == AttemptsWithinLimits /\ SecondDemoFollowsSuccess

\* SQLite is never ahead of the files it points to: resume reads the rows, the
\* summary reads the files, and a row that says how an attempt ended points to a
\* file that no longer says it is in progress, through every crash and Ctrl+C.
\* (A row the handler marked interrupted may be: the write it interrupted goes on.)
FilesAreAhead ==
  \A i \in DOMAIN rows :
    rows[i].status \notin {"in_progress", "infrastructure_interrupted"}
      => Artifact(rows[i]).status \notin {"in_progress", "absent"}

\* A run whose status is complete has settled every task: two demonstrations
\* after a first success, or FirstMax attempts without one and the last of them
\* relabelled profile_unsolved.
CompleteIsSettled ==
  saved = "complete" =>
    \A t \in Tasks :
      \/ Demonstrations(t) # {} /\ SecondAttempts(t) >= SecondMax
      \/ /\ Demonstrations(t) = {} /\ FirstAttempts(t) >= FirstMax
         /\ \E i \in CountedOf(t) : /\ \A j \in CountedOf(t) : j <= i
                                    /\ rows[i].status = "profile_unsolved"

\* A run that is resumed as often as it stops ends complete: no process hangs in
\* a closed ledger, and no start makes less of the run than the one before.
RunCompletes == <>(saved = "complete")

\* An interruption consumes no teacher attempt: a task is unsolved only after
\* FirstMax attempts that got a verdict.
UnsolvedIsEarned ==
  \A i \in DOMAIN rows : rows[i].status = "profile_unsolved" =>
    Cardinality({j \in RowsOf(rows[i].task) : rows[j].genuine}) >= FirstMax

\* "A completed unsolved task ... never enters trajectories."
UnsolvedHasNoTrajectory ==
  \A i, j \in DOMAIN rows :
    rows[i].status = "profile_unsolved" /\ rows[j].task = rows[i].task
      => rows[j].trajectory.status = "absent"

\* "Upon an infrastructure interruption the completed profiling artifacts are
\* kept": a published trajectory stays a success.
TrajectoryIsKept ==
  [][\A i \in DOMAIN rows : rows[i].path = "trajectory" /\ rows[i].status = "success"
       => rows'[i].status = "success" /\ rows'[i].trajectory = rows[i].trajectory]_vars

=============================================================================
