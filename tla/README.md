# A verification project for Shopping-Agent-RL

TLA+ models of the parts of this repository whose correctness depends on
interleavings, failures and restarts, TLC configurations that check them on
small instances, and TLAPS proofs about them for every instance. Paths below are
relative to the root of the repository; `formal_collector.py` is
`src/rollout/formal_collector.py`.

## 1. Inventory of the system

Shopping-Agent-RL trains a shopping agent in four stages: a teacher model is
rolled out in a shopping environment and its accepted demonstrations are
collected; the demonstrations are frozen into an SFT dataset; a policy is
fine-tuned (SFT, then GRPO); the policy is evaluated.

| Component | Source | State it keeps | Operations | What is hard |
|---|---|---|---|---|
| Collection policy functions | `formal_collector.py` 254-626 | the scheduler's state record: pass, coverage of slots, budgets per task, reservations | `next_work` and passes A/B/C, reserve allocation, quota, `_accept_candidate`, `_apply_attempt_to_state` | budgets at their caps, two slots sharing a reserve, quota with attempts in flight |
| Formal collector engine | `formal_collector.py` 628-1360, `concurrency.py` | futures in flight, the stop event, failure flags; the state record in memory and in the ledger | dispatch loop, worker threads, drain, reconcile, resume | every interleaving of main thread, workers, Ctrl+C, crash, restart |
| Teacher ledger | `storage.py` | SQLite tables `attempts`, `accepted`, `formal_state`; JSON artifacts | `start_attempt`, `save_progress`, `save_attempt`, `accept`, `save_trajectory` | crash between the artifact and the row |
| Collection CLI | `scripts/collect_teacher.py` | none beyond one run's report | start, resume, automatic resume | which stop may be resumed without a human |
| Teacher API client | `teacher_client.py` | none beyond one call | request with retries, backoff, response protocol | retries against a global stop, late answers |
| Environment client and service | `teacher_env_client.py`, `scripts/remote_teacher_env_service.py` | sessions, goal slots, a shared server object rebound per request | reset, step, release, close | concurrent sessions on one object, capacity, lost replies |
| Random streams of the TEST environment | `evaluation_rng.py`, the service | one stream for the runtime, one per goal, one per session | scopes entered and left around upstream code | which scope a draw falls into, after a restart too |
| Profiling run | `profiler.py`, `runtime.py` | attempts, trajectories, signal handler | profile, resume | Ctrl+C between any two saves |
| Bounded worker pool | `concurrency.py`, `scripts/test_teacher_concurrency.py` | futures, stop event, artifact store | `run_bounded`, the probe that uses it | drain after a failure |
| Policy rollout, token trace, reward | `training/rollout.py`, `token_trace.py`, `policy.py`, `rewards/shopsim_reward.py` | one episode, its token segments | turns, masks, reward | a response the window cut off, alignment of the trace |
| GRPO training | `training/grpo.py`, `scripts/train_grpo.py` | schedule, groups, checkpoints, hash log | rollout batches, updates, saves, resume, admission phases | a resume from a checkpoint of another state |
| Policy evaluation | `training/eval.py`, `scripts/eval_policy.py` | rows, errors, summary | evaluate, resume, summarise | resume on a partial directory, another service behind the endpoint |
| Run directories | `training/runtime.py` | run manifest | `prepare_run` | identity of a resumed run |
| SFT GPU admission | `scripts/prepare_sft_gpu_admission.py`, `run_sft_gpu_admission.py`, `.sh` | the output directory, report, checkpoint | selection, preflight, three phases, save | several launches on one directory, writes cut short, gradients left over |
| SFT data and training, data preparation, inspection and diagnostic scripts | `training/sft*.py`, `scripts/` | files | one-shot pipelines | little: sequential file conversions |

How they interact. The CLI calls the engine in its own process. The engine's
main thread is the only writer of the scheduler's state; it submits work to an
executor, and each worker thread talks to one environment session and one
teacher client and writes its own attempt row through the shared ledger (one
lock, one SQLite connection). A worker tells the main thread its outcome by its
future and by the status of its row; everybody communicates stops by the
`GlobalStop` event. After a process has died the ledger is all that is left;
the next process marks stale rows, reconciles and goes on. The environment
service is a separate process behind HTTP. Training and evaluation read the
frozen dataset and talk to the same environment service.

What makes each part correct: for the collector, that budgets are respected and
counted exactly once whatever happens, that nothing is dispatched which a
restart could not account for, that the accepted set is made of distinct
demonstrations within the quota, and that a run ends and leaves nothing behind;
for the environment service, that a session only ever sees its own slot and that
capacity returns; for the teacher client, that a stop drains in a bounded number of
posts and that a call is given up only when its retries are used up; for a
profiling run, that files and rows agree through every crash and Ctrl+C and that a
resumed run completes; for a policy episode, that nothing cut off is played and that
the trained tokens are the policy's; for evaluation and training, that a resumed run
neither loses nor repeats a row and goes on with the state it saved; for the SFT
admission, that its report says what happened.

`PROJECT.json` lists every component with its status, and under `hazards` every
place of the code that is hard to test, with the properties that cover it.

## 2. The modules

| Module | Kind | What it models |
|---|---|---|
| `CollectionPolicy` | operators | the pure functions of the collector and the record `m` that stands for the dictionary `state` |
| `FormalCollector` | state machine | the engine, its threads, the ledger, the process around them |
| `CollectionContract` | abstract specification | what the attempts table promises to the dataset |
| `MCFormalCollector` | model values | instances for TLC |
| `FormalCollectorProofs` | proofs | types, one flight per task, durable dispatch, the counting, the pass barrier, coverage and quota, what an exit leaves behind, the refinement of `CollectionContract` |
| `ShopEnvService` | state machine | the environment service, the rollouts that use it, and HTTP between them |
| `PrivateEnvironments` | abstract specification | what the service promises to rollouts that share it |
| `MCShopEnvService` | model values | symmetry sets for TLC |
| `ShopEnvServiceProofs` | proofs | private slots, the refinement of `PrivateEnvironments`, what is lost and who is refused |
| `TeacherClient` | state machine | one request with its retries, and threads that make such requests under one stop |
| `ConcurrencyProbe` | state machine, extends `TeacherClient` | `run_bounded`, its artifact store, and the episode each task plays |
| `ConcurrencyProbeProofs`, `MCConcurrencyProbe` | proofs, model values | |
| `ProfileRun`, `MCProfileRun` | state machine, model values | a profiling run on its ledger, with the SIGINT handler between any two steps |
| `ProfileRunProofs` | proofs | |
| `PolicyEpisode` | state machine | one episode of the local policy, for evaluation or GRPO |
| `PolicyEpisodeProofs`, `MCPolicyEpisode` | proofs, model values | |
| `EvalRun`, `MCEvalRun` | state machine, model values | an evaluation, its run directory, the service behind the endpoint and its random streams |
| `EvalRunProofs` | proofs | |
| `GrpoRun`, `MCGrpoRun` | state machine, model values | a GRPO run, its checkpoints and its resumes |
| `GrpoRunProofs` | proofs | |
| `SftAdmission` | state machine | launches of the SFT GPU admission on one output directory |
| `SftAdmissionProofs`, `MCSftAdmission` | proofs, model values | |
| `NatSets` | operators | the search for the first candidate, used by the scheduler (sorted slots) and by the service (first free slot) |

### CollectionPolicy

Every operator has the name of the function it translates (`pass_a_work`,
`allocate_reserve`, `largest_remainder_target`, `apply_attempt`, `verdict`, ...).
`pass_a_work`, `pass_b_work` and `pass_c_work` are sets with at most one element:
the item the function returns, or nothing. A pass A call is split in two for
reading: `pass_a_scan` is the state with the slots the scan gave up before the
first one it can serve, `pass_a_serve` the state with the task that serves it.

The dictionary of per-task records becomes functions of the task. `slotOf[t]` is
`NoSlot` while `t` is not in `state["tasks"]`; `success` is `first_success`;
`bDone` is `pass_b_complete`; `processed` holds row numbers instead of attempt
ids (rows are never deleted and their order is the rowid order). A rollout's
result is one of a few fingerprints, or `NoPurchase` for a record that fails the
acceptance integrity check. `interrupted` stands for all of `INFRA_STATUSES` and
`failed` for all genuine failures a worker reports: nothing in the scheduler
tells them apart. Left out are counters nobody reads (`genuine_attempts`,
`exact_duplicate_rejects`, attempt ordinals, timestamps).
`largest_remainder_targets` is in exact arithmetic; with the production
quotas (6000 over 3000 slots) the code's shares are integral, hence exact too.
The code's literal budgets (2 attempts, 2 and 3 after a success, 3
demonstrations) are the constants `FirstCap`, `BCap`, `PostCap`, `DemoCap`.
The code breaks ties in passes B and C by task id after the slot; two
tasks with a success never share a slot, so the slot decides.

### FormalCollector

| State | Code |
|---|---|
| `rows` | table `attempts` with the part of the JSON artifact the scheduler reads: `work` (has `formal_work`), `result`, `files` (published accepted JSON files) |
| `saved` | the `formal_state` key of the ledger, written by `dump_state` |
| `mem`, `picked` | `state` in memory; the item between its reservation and its submission |
| `pool` | the executor: each thread with its item, row and outcome; `free` means no unpopped future |
| `stop`, `userStop`, `seen` | `GlobalStop`, `user_interrupted`, the two failure flags of `run_engine` |
| `pc`, `stage` | where the main thread is; `stage` tells whose reconcile is running |
| `report` | what the process that ended last reported |

One action is one durable effect, or one read of something another thread
writes. `Boot` is the start of a process on the ledger; `ReconcileRow`,
`PublishAccepted`, `CommitAccepted`, `ReconcileDone` are `reconcile_attempts` row
by row, with the accepted JSON and the transaction of `ledger.accept` as two
steps; `TargetReached`, `PassA`, `SmokeEnd`, `PassB`, `PassC` are `next_work`;
`Submit` and `WithdrawReservation` the second look at the stop; `Collect` the
`wait(FIRST_COMPLETED)` and the pops; `MainFault`, `Joined`, `RepairDone` the
exception path; `Finish` the normal one. `Cancelled` ... `LoseRow` are `invoke` and
`execute_rollout` in a worker. `Sigint` and `Crash` come from outside.

What is merged, and why that loses nothing:

* Releasing the environment session and resolving the future belong to `Persist`.
  Until the main thread pops the future the row belongs to an active task, which
  `reconcile_attempts` skips, so nobody can see the difference.
* `invoke`'s look at the stop and `start_attempt` are one step; a stop in between
  is the same as a stop just after.
* `save_attempt`'s artifact and row are one step: what a crash between them leaves
  is a row in progress, which is what a crash before them leaves, because the
  next start goes by the row's status and overwrites nothing.
* `dump_state` writes two keys; only the terminal test of `find_resume_run`
  reads the second.
* `mark_stale_in_progress` and the dumps of the start are one step: they are
  idempotent and no thread runs yet.
* `auto_resumable_error`'s classification of an exception is an input: the kind of
  failure a worker meets (`recoverable`, `permanent`, or one its row could not be
  saved after, `unsaved`) is what the property is about, not the exception's text.
* An exception in the main thread during the start or during the repair after
  another exception ends the process without a final dump: that is `Crash`.
* The dispatch loop's guard is not re-read while it is false: the stop is never
  cleared and only the main thread changes the rest.

Not modelled: capacities of API profiles (a fixed bound on the number of
workers), `client.close()` and `env.close()` raising, a Ctrl+C that arrives after
the engine returned, the hygiene rejection at reconcile (unreachable: the worker
checks it before it reports a candidate), the smoke run's selection of other than
primary tasks, logging.

### CollectionContract

The abstract specification: a dataset of distinct demonstrations and two counts
of paid attempts per task; a step accepts a demonstration or records a miss, and
pays from the right budget. `FormalCollector!ImplementsContract` is that
specification under the mapping that reads it off the attempts table.

### ShopEnvService

`scripts/remote_teacher_env_service.py` (the service), `env/teacher_env_client.py`
and `execute_rollout` (its clients). All sessions share one `server` object whose
`goals` and `user_sessions` are indexed by the session's slot; every request
replaces `goals` by a list that holds the session's goal and nothing else.

| State | Code |
|---|---|
| `loaded` | `settings["server"]` is there (the catalog is loaded by the first reset) |
| `goals`, `pages` | `server.goals`, `server.user_sessions`, per slot; a page is the goal it was made from and the turns taken on it |
| `sessions`, `nextId` | the `sessions` table; `uuid4`, an id no session had before |
| `version` | what the running process reports: the expected environment, another version, another RNG contract |
| `inbox`, `outbox` | HTTP requests not served yet, answers not received yet; both sets, so that any order is possible |
| `pc`, `task`, `session`, `obs` | a rollout: the call it waits for, its task, its session id, what it observed last |

A handler is one action because it runs under `environment_lock`: `ResetRefused`,
`ResetServed`, `ResetFailed` (before the session is registered, or after, with
`_close_session`), `StepUnknown`, `StepServed`, `StepFailed` (rejected action; an
exception before or after the turn), `ReleaseServed`, `ReleaseFailed` (`env.close`
raises, and the session is not removed). A rollout: `Begin`, `Opened`, `NotOpened`,
`WrongContract`, `Step`, `Leave`, `Stepped`, `NotStepped`, `Released`. `CallFails` is a
timeout or a broken connection: the request may be lost, or be served later, after
the client has released its session or begun another rollout; requests carry the
number of their rollout, which the code does not have, only so that the model can
tell which answer a client still reads. `Killed` is a client that ends without
releasing; `Restart` a service that starts again, possibly as another deployment.

`env_reset` and `env_step` are the environment package, which is not part of the
repository: what they do to `user_sessions` is what the service's pops and the
fixtures of its tests assume (an entry that is there is continued).

Not modelled: the contents of observations and rewards, the legacy interface with one
`active` session, the closing of a replaced legacy session, an `env.close` that raises
inside a failing reset, the scripts that transfer and start the service. `/health`
and the random streams of the TEST split are in `EvalRun`.

### PrivateEnvironments

Every client has an episode of its own or none: opened for a task, it shows that
task (in the goal that is scored and on the page that is shown) and counts the
actions of its client. `ShopEnvService!EpisodesArePrivate` is that specification
under the mapping that reads the episode off `task` and `obs`.

### TeacherClient

`TeacherClient.generate`: a post, a retry after a transient failure or a reply that
does not follow the protocol, up to `max_retries`, and the verdict on the last reply.

| State | Code |
|---|---|
| `call[c]` | the call of thread `c`: about to post, sleeping, over; `attempt` of the loop; the last reply; how the call ended |
| `stop` | `GlobalStop` |
| `late[c]` | auxiliary: posts sent with the stop set |

`Generate` is `check_before_external_call` and the entry of the loop, `Post` one
request with everything one can bring (a member of `Replies`), `Sleep` the backoff.
`Retry-After` is taken as it comes: a value that is no duration makes `time.sleep`
raise, a NaN or negative one `ValueError`, an infinite one `OverflowError` (`BadDelay`). An
exception of the extraction itself (`untyped`) leaves `generate` as it is. Not modelled: the payload, usage, finish reasons, the length of a
delay (a large `Retry-After` delays the drain of a stop as long as it asks for).

### ConcurrencyProbe

`run_bounded` as `scripts/test_teacher_concurrency.py` uses it: a frozen list of tasks,
an executor, `GlobalStop`, a `ConcurrentArtifactStore`; the callers of `TeacherClient`
are the tasks, and a request of a task is a call of that module.

| State | Code |
|---|---|
| `job[t]` | where the thread of `t` is (`queued` ... `returned`), steps played, the record's outcome, the exception that leaves `_run_task` |
| `artifact[t]` | `tasks/<id>.json` |
| `result[t]` | the `WorkerResult` of the future |
| `report` | the status in the manifest |

`Take` and `Begin` are the executor and `invoke` (a queued item of a stopped pool is
cancelled), `Reset`, `Check`, `Calling`, `Answered`, `Step` the episode, `Finally` its
finally block together with what `invoke` makes of an exception, `Aggregate` the end.
The thread's work between two reads or writes of something shared is one step.
What `_run_task` does not catch (`Uncaught`: `AttributeError` of an odd body, `OverflowError`
of an infinite `Retry-After`, the `AssertionError` of `assert_no_evaluator_leakage`) leaves
it after its finally block and is made a worker error that sets the stop.
Not modelled: timings, preparation of inputs, the API profile of the test.

### ProfileRun

`run_profile`, `_execute_attempt`, the ledger calls they make, `GracefulCollectionStop`
and `_find_resume_run`. The main thread is the only one, but its handler runs between
any two of its steps, so every ledger call is split where a handler can come between:
the row is read (`ReadRow`), the file replaced (`Publish`), the row updated
(`Commit`), and the same for trajectories.

| State | Code |
|---|---|
| `rows` | table `attempts` in rowid order, each row with its two files, `attempts/<id>.json` and `trajectories/<id>.json`, and the `path` it points to |
| `saved` | `run_state`'s status |
| `open` | `not ledger.closed`; a call on a closed ledger raises |
| `pc`, `run` | where the main thread is; its local counts, phase, pending save and exit |
| `guard` | the attempt `GracefulCollectionStop` knows of, and `stop_requested` |
| `OtherRuns` | other run directories of the scenario, among which `--resume` chooses |

`Sigint` is `handle_sigint`; `Crash` ends the process; `Start` is the command, which
`_find_resume_run` decides (this run is picked as long as it is the youngest that is
not complete and has this identity) or a rerun by `--run-id`. The failures the teacher
or the environment is to blame for are one status, `failure`; a configuration error
and a foreign model are `provider_error`. Not modelled: progress output, statistics,
the preflight of `profile_teacher.py`.

### PolicyEpisode

`AgentRollout.run` with `QwenPolicy.generate` (evaluation: the conversation is rendered
again each turn) or with `TokenTrace` and `QwenPolicy.sample` (GRPO: one token stream).
Tokens are counted: a prompt, an observation and a response are lengths, a text is
canonical (`action`) or not (`prose`).

| State | Code |
|---|---|
| `ep` | the `RolloutResult`: status, steps, `context_limit_at_step`, reward |
| `prompt`, `inserted`, `trace` | tokens of the rendered messages; of the observation not yet in the trace; length and `env_mask` of `TokenTrace`, run by run |
| `sample` | the last response: where it began, its length, whether it ended by itself, whether the window cut it |
| `session`, `sent`, `paid` | the environment session; auxiliaries: what was played, what the environment paid |

`Reset`, `Generate`, `SampleTurn`, `Play`, `OutOfSteps`, `Leave` are the pieces of `run`
between its calls. `Stepped` is the precedence of statuses (an action that was not
valid ends the episode before its reward is looked at) with
`metrics_from_environment` and `combine_reward`. Not modelled: tokenisation, chat
templates, sampling itself, the strict parsing of the metrics.

### EvalRun

`eval_policy.py`, `evaluate_policy`, `prepare_eval_run` and `prepare_run`: invocations
with and without `--resume` on one directory, and the service behind the endpoint,
which may be redeployed with another split or seed.

| State | Code |
|---|---|
| `dir` | the run directory: manifest, `episodes.jsonl` (row by row, or torn), `errors.jsonl`, markers, `summary.json` |
| `endpoint` | the deployed service: split, seed, whether its server object is built, and where its prices were drawn |
| `rows`, `play`, `rng` | the rows in memory, the episode being played, the evaluator's random state |
| `refused` | why the last invocation ended before it evaluated anything |

`Validate`, `Health`, `Prepare`, `WriteManifest`, `Load` are `main` before the policy
plays; `NextTask` ... `SaveSummary` the loop, with the row appended to the file
(`AppendRow`) before it is kept in memory (`KeepRow`); `Handler` the
`except (Exception, KeyboardInterrupt)`. `Interrupt`, `Crash`, `PowerLoss`,
`Invalidate`, `Redeploy` come from outside.

The random streams. A request to a TEST service is a list of scopes entered and left
and of draws between them (`Requests`), each draw is made from the innermost scope
(`scopes`, `drawn_at`: `upstream_rng_scope` and `_ScopedRandom`), and a row remembers
the stream and the position of its prices, its goal and its first page. Draws of later
steps follow the session's stream by the same rule and are left out. Whether the
upstream constructor of an environment draws (`EnvironmentDraws`) is not in this
repository; see section 3. Not modelled: the contents of `responses.jsonl`, metrics,
the loading of the model.

### GrpoRun

`train_grpo.py`, `grpo.py` and `prepare_run`: the schedule, groups, updates,
checkpoints, the hash log of an admission run, and launches by an operator who resumes
from a checkpoint, in an admission also with more updates than before.

| State | Code |
|---|---|
| `manifest`, `made` | `run_manifest.json` (a set with at most one configuration), the directory |
| `ckpts`, `final` | `checkpoints/checkpoint-N` with adapter, optimizer and `trainer_state.json` as three writes; `checkpoints/final` |
| `hashes`, `phases` | the `after_update` hashes in `metrics.jsonl`; `max_steps` of the accepted invocations |
| `step`, `live`, `optimizer`, `batch` | `state.global_step`; the trainable weights, known by their update and by the schedule rows they have seen; the optimizer state, known by its update and by the horizon its learning rate is of; the groups of the rollout |
| `strayed` | auxiliary: a resume was from an older checkpoint than the newest whole one |

`Launch` is `main` and `prepare_run`; `StepBegin`, `Rollout`, `Update`, `StepEnd`,
`SaveAdapter`, `SaveOptimizer`, `SaveState`, `SaveFinal` a training step as TRL and HF
call the repository's code. TRL and HF are external: they skip the batches consumed
before a resume, and write a checkpoint in that order. Loss and gradients are theirs.
`Launch` may resume from any whole checkpoint, as `prepare_run` lets it (`runtime.py`
67-72); a process that started from an older one writes over the newer ones, file by file.
`TearState` is a kill in the middle of `trainer_state.json`: `prepare_run` accepts a torn
one, which is a file, but HF fails on it before anything has changed, so that such a launch
is a step that leaves everything alone, and the operator resumes from an older one. The
learning rate is part of the optimizer state that HF restores, so the first update of a
resumed process is made at the rate its checkpoint was saved with, and only the scheduler's
step after it follows the new horizon.

### SftAdmission

`prepare_sft_gpu_admission.py` (`select`, the choice of examples),
`run_sft_gpu_admission.py` and its `.sh` wrapper: launches on one output directory,
which nothing locks.

| State | Code |
|---|---|
| `dir` | the output directory: who made it, the report in it (complete, or torn by a write cut short), the wrapper's log, the files of `checkpoint-1` |
| `run[l]` | a launch: where it is, its report in memory, `current_phase`, gradients accumulated per example, examples to play, whether the LoRA parameters were updated and from which gradients, files saved, exit code |

`Start`, `Preflight`, `Refuse`, `MakeDirectory`, `WriteRunning` lead to the guarded
part; `LoadModel`, `Probe`, `WritePhase`, `Optimizer`, `Accumulate`, `Update`, `Save`,
`Pass` are the phases A, B, C and what follows; `Fail` the handler, which also gets the
exception of a print that fails after PASS was written (`Pass`) and then overwrites the report;
`CopyLog` the wrapper. Any write may be cut short. `Kill` ends the script between any two
steps, and its wrapper copies the log all the same; `KillWrapper` ends the wrapper and
leaves the script at work. A wrapper whose `cp` fails exits 1 (`set -e`).

The report and the files of the checkpoint are of the launch that made the directory, and
that is what `OneLaunchPerDirectory` says. The log is not: a wrapper whose script lost the
race for the directory copies its own log into it (`run_sft_gpu_admission.sh` 24-26 look only
whether there is a directory), possibly over the winner's.
Not modelled: the numbers in the report, losses, memory figures.

## 3. What the runs check

| Run | Instance and bounds | Question |
|---|---|---|
| `faults` | 2 slots of one stratum sharing 1 reserve task, 1 attempt per task, 2 threads, pass A; any two of: a worker failure of each kind, an exception of the main thread, Ctrl+C (837,000 states) | types; a task is in flight once; coverage is given up only when it is exhausted; what is left when a process has ended, and when an automatic resume is allowed |
| `quota` | 2 slots, target 4, passes A to C, 2 threads, 1 crash (1,150,000) | pass boundaries are drained, quota with attempts in flight, budgets, everything dispatched is in the persisted state |
| `terminates` | 1 slot and 1 reserve task, passes A to C, 1 thread, any two of a recoverable failure, a main exception, a crash and Ctrl+C, and a rerun of the finished run; fairness (202,000) | every attempt counted once, distinct demonstrations, counted rows final, the refinement of `CollectionContract`, the automatic resume ends the run |
| `status` | 1 slot, no failure | a violation: see the finding |
| `private` | 2 clients with 2 rollouts each, 2 tasks, 2 slots, 1 step, 1 loss, 1 environment exception, 1 restart (535,000) | slots are private, the refinement of `PrivateEnvironments`, when a reset is refused |
| `rollouts` | 1 rollout per client, a task outside the manifest, deployments the client rejects; fairness (19,000) | which paths leave a session behind; every rollout ends |
| `probe` | 3 tasks on 2 threads, 2 retries, 2 steps, every reply of the relay and the environment; fairness (711,000) | what is given up, how many posts follow the stop, that status, artifacts and results agree, that the probe ends |
| `profile` | 1 task, 2 first and 2 second attempts, 1 step, one each of: failure outside the teacher's answers, crash, Ctrl+C, rerun; three other run directories; fairness (875,000) | attempts are due, files are ahead of rows, a complete run is settled, a resumed run completes |
| `episode` | window of 9 tokens, responses up to 3, 3 turns, prompts of 2 and 9, both modes; fairness (143,000) | only whole actions are played, whose tokens the trace holds, the session is released |
| `evaluation` | 3 tasks, 2 turns, any two of Ctrl+C (early or later), kill, infrastructure error, torn line, marker, redeployment, and 2 invocations nothing calls for; fairness (25,000) | rows are replayable from their seeds and streams, the summary is backed, a resumed evaluation completes |
| `formal_run` | 3 updates, save every 2, formal configurations and an admission in phases, refused ones among them, 2 faults, 4 launches, each from any whole checkpoint; fairness (1,365,000) | checkpoints are trained on the schedule, weights and optimizer resume together, a resumable run finishes |
| `update` | 2 launches, a dataset of 4, 3 selected, any two of a kill of script or wrapper, failing write or print, non-finite loss, unchanged parameters, loading error (126,000) | the report is true, report and checkpoint are one launch's |

The bounds. In the collector two slots and one reserve task are the least in which
slots compete; two threads the least that interleave; the main thread treats threads
symmetrically and looks at all of them at once, so a third adds no new kind of step.
One crash reaches every crash point; a second start from the same ledger is the same
step again, because a start forgets everything that is not in the ledger. The `quota` run has no reserve task, so what a
crash does to a reserve that was just allocated is in `faults` only without the crash, and
rests on the theorem `DurableDispatch`; the `terminates` run has one thread, so that a row is
not applied before its sibling's rests on `faults` and on the theorem `AppliedExactlyOnce`.
Disturbances
come in twos (`MaxTotal`): a permanent failure vetoes the resume that a recoverable one
would allow, and Ctrl+C meets a failure that is being handled; each alone is included.
`QuotaIsReserved` is a statement about passes that reserve quota; passes A and B do not
look at it, and it holds because the target is at least two demonstrations per slot
(6000 for 3000; 4 for 2 in the run). Budgets smaller than the code's keep the same
order (caps of 1 and 2) and every cap is reached. Threads and fingerprints are only
compared with each other, so permuting them is sound; runs with liveness properties
use no symmetry.

In the service runs two clients are the least that share the server object, and two
rollouts each are the least in which a slot is used again and a late request of an
abandoned rollout meets its successor; the actions of a rollout after its first step
repeat it. `RefusedOnlyWhenOrphaned` needs at least as many slots as clients, which
is the default deployment (`MAX_SESSIONS` of the service and `MAX_WORKERS` of
`concurrency.py` are both 32); with fewer, a refusal is the normal answer. One loss is
enough for `OrphansAreAccounted`, which compares the number of sessions left behind
with the number of losses.

Three tasks on two threads leave one queued when the stop is set. Two retries are the
least with a first, a middle and a last attempt. The profiling run works through its
tasks one after the other and keeps nothing from one to the next except the ledger, so
one task is enough; two attempts per phase have a first and a last. In an episode the
window of nine is exceeded at every place: by the prompt, by an observation, by a
response that is cut, and by one that is not. Three evaluation tasks are a first, a
middle and a last row; the seed base is one of two that may be deployed. Three
updates with saves every second one give a checkpoint in the middle, one at the end that
is no multiple, and an admission in three phases; saves of the last update of each phase make
the neighbours that a resume from an older checkpoint writes over. Of the admission, two launches are the
least that race for the directory; the choice of three examples of four has an example
with two roles, and `SelectionHasItsShape` evaluates `select` for every dataset of up to 24
examples and every count from 4 on.

Deadlock is an error only in `update`, where launches that have all ended stutter
(`Done`). The other systems really stop: a run that has ended and may not be started again
by the bounds, a directory that cannot be resumed for good.

Fairness of the collector (`FormalCollector!FairSpec`): weak fairness of the main thread
and of every worker thread, because they are threads of a running process and every
external call has a timeout (the teacher and environment clients pass one to every
request); weak fairness of an eligible automatic resume, because the CLI's loop does it.
Nothing else is fair: no human has to restart a run, no failure has to happen.

Fairness of the service (`ShopEnvService!FairSpec`): the service serves a request
somebody waits for (handlers hold the lock for a bounded time), a client reads its
answer and goes on (teacher calls have timeouts), and a client whose request nothing
will answer gives the call up (every httpx call has a timeout). No call has to
fail while it can still be answered.

Fairness of the others. `ConcurrencyProbe!Spec`: the thread of every task and the
aggregation at the end go on, for the same reason; `MaxRetries` and `MaxSteps` bound them.
`PolicyEpisode!Spec`: `run` goes on, for an environment call has a timeout and a model
call a token budget. `ProfileRun!Resumed`, `EvalRun!Retried`, `GrpoRun!FairSpec`: the
process goes on, and somebody starts it again as long as its run is not complete. That is
an assumption about the operator, not about the code: what is shown is that the code never
makes such a restart useless, except where a property says so (`EvalRun!Unresumable`).

Two premises about what is outside the repository. `EpisodesAreReplayable` holds if the
upstream constructor of an environment makes no random draw (`EnvironmentDraws` is
FALSE). If it does, the first reset after a restart of the service makes the draw in the
runtime scope and every later one in the session's (`remote_teacher_env_service.py`
265-285), so pages would depend on restarts, against
`docs/P6A_BASELINE_SEMANTICS_AUDIT.md` 75-80; with TRUE, TLC finds that violation. And
`ResumedTogether` takes HF's checkpoint order (adapter, optimizer, `trainer_state.json`)
for granted.

What a GRPO run may count on depends on its operator. Whichever whole checkpoint a resume
starts from, the weights of every checkpoint have seen the schedule exactly
(`WholeOnSchedule`, the first part of `TrainedOnSchedule`). That weights and optimizer state
are of one update (`ResumedTogether`), and that an exported adapter is still held by a
checkpoint (the second part), is so only of a run that never strayed from its newest
checkpoint; the code does not see to that. Without `~strayed` TLC finds both violated: an
older checkpoint is resumed, a newer whole one is written over, and a kill after the adapter
leaves the optimizer state of another update under a `trainer_state.json` that is whole.

Each property has a mutant in `PROJECT.json`: a definition of the model changed
as a plausible bug would change the code (a reservation that is not dumped, a
pass that changes with attempts in flight, an off-by-one in a cap, ...), under
which TLC finds the property violated. The mutated forms stand before the
definition they change and are used nowhere else.

### Finding

`status`: a run that finishes while nothing is in flight keeps `in_progress` in its
ledger. `next_work` sets `complete` or `quota_unmet` in memory and `run_engine` dumps
the state after its loop only for a stop (`formal_collector.py` 995-997), while
`find_resume_run` and `docs/P3C_FORMAL_COLLECTOR.md` 44-45 rely on the persisted
status to tell a finished run from an incomplete one. Nothing is lost (the
`terminates` run includes the rerun such a ledger allows, and it makes no further
attempt beyond the budgets), but `--resume` may select a finished run, or find its
choice ambiguous.

### Other disagreements between code and documentation

Each has a configuration of its own beside the runs, in which TLC finds the named
property violated: `tlc -config X.cfg M`.

| Configuration, module, property | The code | The statement |
|---|---|---|
| `drain`, `MCConcurrencyProbe`, `NoRequestAfterStop` | the retry loop (`teacher_client.py` 230) sleeps and posts again without a look at the stop, which is checked once before `generate`; `DrainIsBounded` says how many posts that are | `docs/P3B_COLLECTION_POLICY.md` 192: after the stop other workers send no new API request |
| `shape`, `MCConcurrencyProbe`, `EveryBodyIsClassified` | a JSON body whose `choices[0]` is no object raises `AttributeError` in `_content_from_response` (`teacher_client.py` 85): not retried, not classified | `docs/P3_TEACHER_COLLECTION.md` 24-26: such a body is uniformly `provider_protocol_error` |
| `cancelled`, `MCConcurrencyProbe`, `CancelledNeverStarted` | `check_before_external_call` raises `WorkerCancelled` in the middle of a task, which has an artifact and a session | `concurrency.py` 26: "A task was queued before a global stop and never started." |
| `unsolved`, `MCProfileRun`, `UnsolvedIsEarned` | the guard learns of an attempt only after the reset and the first messages (`profiler.py` 333); Ctrl+C before that leaves the row `in_progress`, and the next start counts it (563-569) | `docs/P3_TEACHER_COLLECTION.md` 30: an interruption does not consume the task's attempt quota |
| `untrained`, `MCProfileRun`, `UnsolvedHasNoTrajectory` | `save_trajectory` publishes the file before it updates the row (`storage.py` 250); a crash in between leaves a trajectory the resume does not see, and the task may end `profile_unsolved` | `profiler.py` 580-581: "A completed unsolved task ... never enters trajectories." |
| `kept`, `MCProfileRun`, `TrajectoryIsKept` | the attempt stays registered with the guard until its session is released (`profiler.py` 455); Ctrl+C meanwhile overwrites the published trajectory | `docs/P3_TEACHER_COLLECTION.md` 150: finished profiling artifacts are kept |
| `interrupted`, `MCEvalRun`, `InterruptedRunResumes` | `prepare_run` makes two directories and calls git twice before it writes the manifest (`runtime.py` 102); after Ctrl+C in between neither `--resume` nor a plain start is accepted | `docs/P6A_BASE_128_COMMAND_PREP.md` 121-122: `--resume` also works if interrupted before the first episode was saved |
| `phases`, `MCGrpoRun`, `PhasesOnlyIncrease` | the manifest keeps the first phase's configuration (`runtime.py` 110), so an admission extended from 1 to 3 updates accepts 2 afterwards | `runtime.py` 88: "admission resume only permits increasing grpo.max_steps" |
| `horizon`, `MCGrpoRun`, `AdmissionKeepsItsSchedule` | an admission without `--scheduler-horizon` is valid (`grpo.py` 51), and extending it changes the horizon of its learning rate (364), from the second update after it on; the first one is made at the restored rate, which the old horizon has brought to zero | `grpo.py` 368: "Admission stops at 1/2 updates but follows formal 200-step LR." |

## 4. What is proved

### The collector

`FormalCollectorProofs` proves, for any finite set of slots and tasks, any
stratification, reserve queues, budgets, number of threads and bounds that
satisfy the assumptions of the modules:

* `TypeCorrect`: `Spec => []TypeOK`,
* `OneFlight`: `Spec => []OneFlightPerTask`,
* `DurableDispatch`: `Spec => []DispatchIsDurable`.

Assumptions: `ShapeAssumption` (finite sets, slots are natural numbers, functions
of the right types) and `ManifestAssumption` (distinct primary tasks), which are
what `load_task_inputs` validates; `BudgetAssumption` and `EngineAssumption` are the
types of the remaining constants.

The argument. `DispatchIsDurable` is not inductive: that the persisted state knows
the task of a row at the right slot depends on memory and ledger agreeing about
places (`PlacesAgree`: they may differ in everything but the allocation, because
an allocation is always dumped with the reservation it is made for), on every
busy thread being reserved in both (`ThreadsReserved`), and, between dump and
submission, on the same of the picked item (`PickedReserved`). That a task enters a
second flight is excluded because what is in flight is reserved, what passes B and
C pick is not, and a reserve task that pass A allocates has no slot yet while
everything in flight has one. `PhaseOK` supplies that no thread outlives its
process and that the row being committed is still pending. The conjunction
`IInv` is inductive: one lemma per action, most by one of three frame lemmas (a
thread moves; the main thread moves and keeps the reservations; nobody works any
more). `FirstIsLeast` (a non-empty set of naturals has a least element, which is what
`NatSets!First` chooses) follows from the well-foundedness of `<`.

It then proves every other safety property that the collector's runs check, for the
same constants under two more assumptions (below):

* `CountedRowsNeverChange`: `Spec => CountedRowsAreFinal`,
* `AppliedExactlyOnce`: `Spec => []ExactlyOnce`,
* `PassesDoNotOverlap`: `Spec => []PassBarrier`,
* `DemonstrationsAreDistinct`: `Spec => []AcceptedAreDistinct`,
* `BudgetsHold`: `Spec => []LedgerWithinBudgets`,
* `EndsClean`: `Spec => []ExitLeavesNothingBehind`,
* `ResumesAreDrained`: `Spec => []EligibleStopIsDrained`,
* `CoverageMovesWhenEarned`: `Spec => []CoverageIsEarned`,
* `NothingIsDiscarded`: `Spec => []QuotaIsReserved`,
* `CollectorKeepsItsContract`: `Spec => ImplementsContract`, the refinement of
  `CollectionContract`.

The argument, in layers, each inductive over the ones before it:

1. Counting. A thread owns its row until it has decided it, and a row that was counted has a
   final status (`Own`); hence every step does one of a few things to the table: it opens a
   row, begins its work, decides it, publishes it, applies the next candidate, or relabels at
   start what no process attends to. With that, the counters of memory and ledger are the
   cardinalities of the sets of rows each has processed (`Counts`).
2. Order. What is in flight is of the pass that memory and ledger agree on (`Barrier`), and
   while it dispatches the main thread has reconciled everything but the tasks in flight and
   the one it picked (`Serial`). With the invariants before it this is `Sched`.
3. Budgets. Whoever is about to make an attempt has room for it in the rows, not only in the
   counters (`Budgets`): at the time of the pick there was nothing unprocessed of its task.
4. Exits. A published demonstration is accepted or will be, because nothing else of its task
   is decided meanwhile (`Published`); a row in progress is attended to by a thread, or lost
   by one that reports it (`Drained`).
5. Coverage. A slot moves on only from a task whose Pass A budget is used up in rows the
   ledger has processed (`Spent`, `Earned`), and it is fulfilled exactly when the task that has it
   has an accepted Pass A row among those memory has processed (`CoverageCarried`).
6. Quota. The successes counted, and the tasks that are reserved or hold an undecided
   success, are together no more than the target (`Claims`, `Quota`). In Pass C the picks are
   counted against the target; in A and B a reserved task serves a slot (`Reserved`), and a slot
   is served by one task.

The refinement is then a case split: under `Promised` (5, 6, and that accepted demonstrations
are distinct) every step of the collector is quiet for the attempts table or pays for one
attempt, and the abstract guard of the latter is what the layers give.

The two assumptions, both in `CollectionPolicy`. `CapAssumption` is what
`collection_policy.py` 104-108 and 141-153 validate: Pass B does not exceed the budget after a
first success, and a task may have two demonstrations. `TargetAssumption`: the target covers one
demonstration of every slot, or two unless the run ends with Pass A (`formal_collector.py` 122 and
1280: 6000 for 3000 primaries, and the number of primaries in a smoke run). Without it passes
A and B, which do not look at the target, may accept more.

Nothing of the collector's safety is only model-checked any more; its termination
(`EventuallyTerminal`) is.

### The environment service

`ShopEnvServiceProofs` proves, for any finite sets of clients and tasks and any
number of slots, steps, rollouts, losses, exceptions and restarts
(`ServiceAssumption`: the types of the constants, and `NoTask` is not a task):

* `ServiceTypeCorrect`: `Spec => []TypeOK`,
* `PrivateSlots`: `Spec => []SlotsArePrivate`,
* `PrivateEpisodes`: `Spec => EpisodesArePrivate`, the refinement of
  `PrivateEnvironments`.

The argument. What a client observes is right if the page of its session is where
the client believes it is. That is three statements (`PagesOK`): between calls the
page is the one observed last; when the answer to a reset is on its way, it is the
first; when the answer to a step is, it is one further. Nobody else moves the page:
a session id belongs to one client, and every request that carries it is that
client's, of its current rollout (`OwnIds`); a request of the current rollout is the
call the client waits for, or the client has given that call up, and then only
release follows (`RequestsInOrder`); a client is sent one answer per call
(`ResponsesInOrder`). Requests of older rollouts carry ids no client has any more.
A fresh slot is nobody's (`SlotsArePrivate`, by `FirstIsLeast`) and its page is dropped
before it is bound, or there is none because the runtime was just loaded
(`ColdIsEmpty`). The conjunction `IInv` is inductive: one lemma per handler and per
client action, over two frame lemmas (`Answered`, for handlers that open no session
and move no page but the named session's; `Moved`, for a client's step). The
refinement maps `Opened` to opening an episode, `Stepped` to an action, the ends of a
rollout to closing it or to a stutter, and everything else to a stutter.

* `LossesCoverOrphans`: `Spec => []OrphansAreAccounted`,
* `RefusedForOrphans`: if `Cardinality(Clients) <= MaxSessions` then
  `Spec => []RefusedOnlyWhenOrphaned`.

Their argument is a balance. A session is lost when it is an orphan, or when its client gives
it back in vain (`Lost`); a request for a reset that nobody waits for will open another one
(`Late`). `Accounted` says that both together are no more than the losses so far: a step that makes
one of the two larger counts a loss, and a late reset that is served moves from the second to
the first (`Balance`, `ServeBooks`, `ClientBooks`). A client is refused only when the table is
full; if no session is an orphan, every session is of a client other than the one that asks, so
there are fewer of them than clients. The premise is the deployment the run checks: no more
rollouts at a time than `max_sessions`; with more of them a refusal is right.

### The concurrency probe

`ConcurrencyProbeProofs` proves, for any list of distinct tasks, any number of threads,
retries and steps (`TeacherClientAssumption`, `ProbeAssumption`):

* `ProbeTypes`: `Spec => []TypeOK`,
* `GivenUpAfterEveryRetry`: `Spec => []GivenUpOnlyWhenExhausted`,
* `StopDrainsTheCalls`: `Spec => []DrainIsBounded`,
* `ReportsAreEarned`: `Spec => []StatusIsEarned`,
* `StoreAgreesWithResults`: `Spec => []ArtifactsAgree`.

The argument. `DrainIsBounded` counts posts, and is inductive only together with where
the call is: a thread that sleeps has posted at most one more than its attempt
(`ClientInv`). That a stop is somebody's needs the outcome of the task that set it, which
is in its record long before its result is (`StopIsCaused`, `Recorded`); that artifact
and result agree needs that both are made of the same record in the same step (`Ended`). The
conjunction `IInv` is inductive over three frame lemmas: `ClientStep` (a thread's call
moves), `TaskStep` (its task moves), `RunningStep` (a task that is running moves and
publishes nothing). `Cardinality(Busy) <= Threads` is the only place where the number of
tasks matters.

### The profiling run

`ProfileRunProofs` proves, for any list of distinct tasks, any budgets and number of steps, any
other runs, and any number of faults, crashes, Ctrl+C and reruns (`ProfileAssumption`):

* `TypeCorrect`: `Spec => []TypeOK`,
* `DueAttempts`: `Spec => []AttemptsAreDue`,
* `FilesFirst`: `Spec => []FilesAreAhead`,
* `CompleteSettles`: `Spec => []CompleteIsSettled`.

The argument has to hold between any two of the steps a handler can come between, where file,
row and memory say different things; `IInv` says how far apart they may be.

1. A row and its file (`RowOK`). A row that says how the attempt ended points to a file that says
   it ended, because `Publish` precedes `Commit`. `run_profile` counts by the phase in the file,
   the budgets are about what the attempt was made for; the two agree because the file of an
   attempt that ended knows its phase. The file of `start_attempt` does not, and counts as a first
   success until the attempt is saved. TLC refuted the first form of this: a relabelled row may point to
   a file that knows no phase (`profile_unsolved` of an attempt a crash cut short), so of it only
   the phase of the row is known, which is that of a first success.
2. The budgets (`Budgets`) hold of the rows, not of the counts in memory: `Made` and `Tried`, which
   `AttemptsAreDue` bounds, are subsets of what `run_profile` counts (`Firsts`, `Seconds`),
   and the counts in memory are those of every row but the one under way (`Counts`), with room
   for it. That an interrupted row leaves these sets and a resumed one never
   returns to them is what makes a resume harmless.
3. Who may change what (`Control`, `OnRow`, `Progress`). The attempt under way is the last row;
   what a save is followed by is fixed by what it saves (`Continues`); and the handler knows
   an attempt only while that one is under way (`Guarding`), so that it overwrites no other.
   It may overwrite that one at any step: therefore an attempt under way is `in_progress` or
   interrupted, and one that is decided while the ledger is open is not interrupted any more.
4. Giving up and completing (`GivingUp`, `Settling`). Every task before the one under way is settled:
   it has its demonstrations and no second attempt left, or nothing succeeded,
   the first attempts are used up and the last of them is relabelled (`Last`). Another task's
   attempt does not undo it, because the tasks of the list are distinct.

The lemmas are in this order: what each action does to the plain variables, the rows as sets of
numbers (their cardinalities when one row changes), a step that changes one row only (`Touched`),
and one lemma per action for the ledger and one for the rest. `ProfileAssumption` says what
`load_tasks` returns: a finite, non-empty list without repetition.

### The policy episode

`PolicyEpisodeProofs` proves, for every window, budget, number of steps, lengths of prompts
and observations and reward weight (`PolicyEpisodeAssumption`):

* `EpisodeTypes`: `Spec => []TypeOK`,
* `EpisodeFitsTheWindow`: `Spec => []WithinContext`,
* `CutResponsesAreNotPlayed`: `Spec => []OnlyWholeActionsArePlayed`,
* `StreamIsOwned`: `Spec => []TraceIsOwned`,
* `RewardsAreEarned`: `Spec => []RewardIsEarned`.

The argument. Where `run` may still ask for a response nothing has been paid and the
status is still the initial one (`Ongoing`); a response about to be played is whole
(`PlayedWhole`), because `Receive` looks at `cut` first; the owners of the trace
alternate, one response per action played and one more while it waits (`Owned`), for an
observation is inserted exactly when a response was played. `WithinContext` and
`RewardIsEarned` are checked by no run: the theorems show them for every instance.

### The SFT GPU admission

`SftAdmissionProofs` proves, for any finite set of launches, any dataset without
repetition, any selections of it, and any faults (`SftAdmissionAssumption`; of `select`
nothing is used but that it names examples of the dataset):

* `AdmissionTypes`: `Spec => []TypeOK`,
* `DirectoryIsOneLaunchs`: `Spec => []OneLaunchPerDirectory`,
* `ReportCanBeBelieved`: `Spec => []ReportIsTrue`.

The argument. That a PASS is backed is not inductive: it needs, for the launch that is at
work, that its report in memory has just the phases it completed, that the checkpoint
holds just the files it saved, and that the gradients it accumulated are those of the
frozen examples it has played, each once (`Good`, `EachOnce`): the last holds from the
`zero_grad` after the probes on, whatever the probes left. And it needs that nobody else
touches the directory while a launch works there (`dir.by = l` for every launch at work), which
is what `mkdir` without `exist_ok` gives: a launch that makes the directory finds none, and one
that works finds its own. The frame lemma `OthersKeep` says that a step of a launch that
leaves the directory alone, works in its own, or makes it, keeps what holds of every other
launch; over it stand `QuietStep` (the directory is not changed), `ReportStep` (a report
is written), `CutShortStep` (it is torn) and `MadeStep`. One lemma per action follows.

### The GRPO run

`GrpoRunProofs` proves, for every schedule, save interval, number of generations, set of
configurations, any number of launches and faults, and whichever whole checkpoint each
resume starts from:

* `CheckpointInvariant`: `Spec => []IInv`,
* `ResumesTogether`: `Spec => []ResumedTogether`,

and, if admission configurations give the horizon of their learning rate (`Scheduled`; without it
the extension of an admission changes the rate, see section 3),

* `WholeFollowTheSchedule`: `Spec => []WholeOnSchedule`,
* `CheckpointsFollowTheSchedule`: `Spec => []TrainedOnSchedule`.

The argument. A checkpoint is three writes, and one that is whole and is written over mixes an
adapter with the optimizer state of another update. `Base` says what holds all the same:
between the writes, the files of a save hold what the process holds (`Halfway`), and a
process starts with nothing or from a whole checkpoint (`Started`). As long as no resume was
from an older checkpoint (`Steady`), a whole one is never written over: a process starts at the
newest (`Newest` while `pc = "build"`), `Update` leaves every whole one behind, and so what it
saves is at a step that is not whole yet (`Newest` at `Saving`). What it holds is of one
update (`Together`); `SaveState` then makes whole a checkpoint that is consistent
(`Consistent`), and `Build` reads one that is. Neither the schedule nor the configuration enters.

`WholeOnSchedule` needs no `Steady`. `SInv` adds to `Base` that a process past `prepare_run`
trains the run of the manifest (`Identity`), that the rollout under way is the next one of its
schedule (`InStep`), that the learning rate in force is of the schedule process and manifest
follow (`Rated`), and that weights in memory and in whole checkpoints have seen the schedule
up to their step (`Learned`): a checkpoint that is written over at step n held, and holds,
weights that have seen n updates of the same schedule. What was exported is held by a
checkpoint (`Exported`) only as long as none is written over, so this part is proved over
`Steady` again. `OrderAssumption` is a type: the tasks of a seed are a list.

### The evaluation

`EvalRunProofs` proves, for every length of the manifest, number of turns, base seed, set of
seeds that may be deployed, and any number of interrupts, kills, torn lines, invalidations,
redeployments and resumes (`EvalRunAssumption`):

* `SummariesAreBacked`: `Spec => []SummaryIsBacked`,

and, if the constructor of an environment draws nothing (`~EnvironmentDraws`, the premise of the
run `evaluation`, see section 3),

* `TypeCorrect`: `Spec => []TypeOK`,
* `EpisodesReplay`: `Spec => []EpisodesAreReplayable`.

The argument has three parts. First, where a reset draws: a request is a list of eight or nine
entries, and `Followed` turns the recursion of `scopes` into one step per entry, so that the stack
at every draw is known (`WarmRequests`, `ColdRequests`). The draw of the goal is the only one
from the goal's stream, and the first one of the session's is the page (`WarmDraws`,
`ColdDraws`), whichever of the two kinds of reset it is: this is where a constructor that draws
would make the two differ. Second, the directory (`Kept`): a process past the checks works in a
directory that is made, what it starts from is what the file holds (`Fresh`), and from then on the
rows in memory are the saved ones, one less between the append and the memory (`InMemory`); so no
summary counts more than is saved (`Backed`). The values drawn are left open here
(`\E R, P : Values(R, P)`), because without the premise they have no type. Third, the streams
(`FromTheStart`): the policy's stream is that of the task that is played, unused at its start; a
service that has built its server was asked by an evaluation that had found its split and seed
right (`Served`), and a redeployed one has not built it. The row that is appended is the next
of the file by the second part, and drawn from its own streams by the third (`RowReplayed`).

### What is only model-checked

Every safety property of a passing run has a theorem. Liveness under fairness
(`EventuallyTerminal`, `RolloutsEnd`, `ProbeEnds`, `RunCompletes`, `SessionIsReleased`,
`EvaluationCompletes`, `ResumableRunFinishes`) and ENABLED are out of the prover's reach, and
so is induction over data: what the folds of `select` compute for every input is checked for
bounded inputs only.

## 5. Not modelled

* Validation of the collection policy (`collection_policy.py`) compares a file with frozen
  values; prompt and protocol functions convert strings. They keep no state, and what
  follows from a refused policy or a malformed action is modelled where it is handled.
* SFT training and the preparation of its data, and the other preparation, inspection,
  transfer and smoke scripts: one pass over files, or one call of a trainer that is not in
  the repository. Their correctness is about contents, not about states or order.
* The preflight of `--auto-resume` and of `profile_teacher.py`: checks of versions and
  files before a process starts, which end it or leave everything alone.
* The legacy interface of the environment service with one `active` session, which the
  collector and the trainers do not use.
* Numerical code (loss, advantages, metrics), timing, logging and progress output.
* How long a `Retry-After` delays the drain of a stop: delays have no length here.
* Two hazards without a property, listed in `PROJECT.json` with the reason: an accepted JSON
  file left without its row by a crash (`storage.py` 219), and the eligibility for an automatic
  resume after a permanent failure whose row was saved, or after Ctrl+C (`formal_collector.py`
  968), where a property would restate the flags the code computes.
* The double fault in which `env.close()` raises inside the cleanup of a reset that failed
  (`remote_teacher_env_service.py` 343, 195): it would leave a session nobody knows.

What the next step would be: an abstract specification of the profiling ledger that `ProfileRun`
implements, and a profiling run of two tasks for TLC (the theorems cover any number).
