------------------------------- MODULE GrpoRun -------------------------------
(***************************************************************************)
(* A GRPO training run (train_grpo.py): one process at a time trains on    *)
(* the task schedule and leaves manifest, log and checkpoints in a run     *)
(* directory; it dies, and the operator starts it again from a checkpoint, *)
(* in an admission run also with more updates than before.                 *)
(*                                                                         *)
(* TRL and HF are outside src/: they skip the consumed batches on resume,  *)
(* call the callbacks in order and write a checkpoint as adapter,          *)
(* optimizer, trainer_state.json.  Weights are known by the update that    *)
(* made them and by the schedule rows they have seen.  The learning rate   *)
(* belongs to the optimizer's state, so a resumed process makes its first  *)
(* update at the rate that was in force when the checkpoint was saved.     *)
(***************************************************************************)
EXTENDS Naturals, Sequences

CONSTANTS
  Order,       \* Order[seed][i]: the i-th task random.Random(seed) schedules
  G,           \* num_generations
  SaveSteps,   \* save_steps
  Configs,     \* configurations the operator may launch with
  Faults,      \* \subseteq {"error", "crash"}
  MaxFaults, MaxLaunches   \* bounds: faults, accepted invocations that do not die of one

\* task_groups_per_update, max_steps, per_device_train_batch_size, scheduler_horizon
\* (0 for None) and --admission; the seed stands for all the rest of the identity.
Config == [seed : DOMAIN Order, groups : Nat, steps : Nat, micro : Nat,
           horizon : Nat, admission : BOOLEAN]

ASSUME GrpoRunAssumption ==
  /\ G \in Nat \ {0} /\ SaveSteps \in Nat \ {0}
  /\ Configs \subseteq Config
  /\ \A c \in Configs : c.groups * c.steps <= Len(Order[c.seed])
  /\ MaxFaults \in Nat /\ MaxLaunches \in Nat

\* The epochs of a seed, one after the other: a list of tasks.
ASSUME OrderAssumption ==
  \A s \in DOMAIN Order : Order[s] \in Seq({Order[s][i] : i \in DOMAIN Order[s]})

VARIABLES
  manifest,   \* the config of run_manifest.json, a set with at most one
  made,       \* the run directory exists
  ckpts,      \* checkpoints/checkpoint-N, by N
  final,      \* checkpoints/final: the adapters exported so far, newest last
  hashes,     \* metrics.jsonl: last after_update hash of each step, 0 if none
  phases,     \* max_steps of the accepted invocations, in order (history)
  pc, config, resume,
  step,       \* state.global_step
  live,       \* trainable weights: the update that made them, the rows seen
  optimizer,  \* the update that made it, and the horizon its learning rate is of
  batch,      \* rows of the current rollout, one for each group
  updates,    \* updates ever made; numbers the weights
  faults,
  strayed     \* a resume was from an older checkpoint than the newest (history)

vars == <<manifest, made, ckpts, final, hashes, phases, pc, config, resume, step,
          live, optimizer, batch, updates, faults, strayed>>
disk == <<manifest, made, ckpts, final, hashes>>
process == <<config, resume, step, live, optimizer, batch>>

Fresh == [id |-> 0, seen |-> <<>>]

Steps == UNION {1 .. Len(Order[s]) : s \in DOMAIN Order}

NoOptimizer == [made |-> 0, horizon |-> 0]

\* A checkpoint directory: adapter, optimizer and, if it is whole, trainer_state.json.
NoCheckpoint == [there |-> FALSE, adapter |-> Fresh, optimizer |-> NoOptimizer, whole |-> FALSE]

Init ==
  /\ manifest = {} /\ made = FALSE
  /\ ckpts = [n \in Steps |-> NoCheckpoint]
  /\ final = <<>>
  /\ hashes = [n \in Steps |-> 0]
  /\ phases = <<>>
  /\ pc = "off" /\ config \in Configs /\ resume = 0
  /\ step = 0 /\ live = Fresh /\ optimizer = NoOptimizer /\ batch = <<>>
  /\ updates = 0 /\ faults = 0 /\ strayed = FALSE

Go(p) == pc' = p

Fault(kind) == kind \in Faults /\ faults < MaxFaults /\ faults' = faults + 1

----------------------------------------------------------------------------
(* parse_config, main and prepare_run                                      *)

\* GRPOSpec.validate, of the fields that vary here.
validate(c) ==
  /\ G >= 2 /\ c.groups >= 1 /\ c.steps >= 1
  /\ c.micro >= 1
  /\ (G * c.groups) % c.micro = 0
  /\ c.horizon # 0 => c.horizon >= c.steps

\* task_schedule: the first groups * max_steps tasks of the seeded order.
task_schedule(c) == SubSeq(Order[c.seed], 1, c.groups * c.steps)

Scheduler(c) == IF c.horizon # 0 THEN c.horizon ELSE c.steps

\* The admission extension: all but max_steps as recorded by the first invocation,
\* a longer schedule, and the recorded one its prefix.
Extends(old, c) ==
  /\ old.admission /\ c.admission
  /\ [old EXCEPT !.steps = c.steps] = c
  /\ c.steps > old.steps
  /\ Len(task_schedule(old)) < Len(task_schedule(c))
  /\ SubSeq(task_schedule(c), 1, Len(task_schedule(old))) = task_schedule(old)

SameRun(old, c) == old = c \/ Extends(old, c)

\* Checkpoints a resume can start from.  prepare_run takes any that has a
\* trainer_state.json: HF fails on one that was cut short, before anything here has
\* changed, and the operator goes back to an older one.
Whole == {n \in Steps : ckpts[n].there /\ ckpts[n].whole}

\* What an invocation does up to prepare_run's first write; a refused one writes
\* nothing and is no step.
Launch ==
  /\ pc = "off" /\ Len(phases) < MaxLaunches + faults
  /\ config' \in Configs /\ validate(config')
  /\ \/ /\ ~made
        /\ made' = TRUE /\ resume' = 0
        /\ Go("manifest") /\ UNCHANGED strayed
     \/ /\ resume' \in Whole
        /\ \E old \in manifest : SameRun(old, config')
        /\ Go("build") /\ UNCHANGED made
        /\ strayed' = (strayed \/ \E n \in Whole : n > resume')
  /\ phases' = Append(phases, config'.steps)
  /\ UNCHANGED <<manifest, ckpts, final, hashes, step, live, optimizer, batch, updates, faults>>

WriteManifest ==
  /\ pc = "manifest"
  /\ manifest' = {config}
  /\ Go("build")
  /\ UNCHANGED <<made, ckpts, final, hashes, phases, updates, faults, strayed, process>>

\* Fresh LoRA, or what the checkpoint holds; a run that has all its updates only
\* exports again.
Build ==
  /\ pc = "build"
  /\ step' = resume
  /\ live' = IF resume = 0 THEN Fresh ELSE ckpts[resume].adapter
  /\ optimizer' = IF resume = 0 THEN [NoOptimizer EXCEPT !.horizon = Scheduler(config)]
                                ELSE ckpts[resume].optimizer
  /\ batch' = <<>>
  /\ Go(IF resume < config.steps THEN "begin" ELSE "final")
  /\ UNCHANGED <<disk, phases, config, resume, updates, faults, strayed>>

----------------------------------------------------------------------------
(* The training loop                                                       *)

\* on_step_begin: in an admission run the weights must be those the log has for
\* this step.
StepBegin ==
  /\ pc = "begin"
  /\ Go(IF config.admission /\ step > 0 /\ hashes[step] # live.id THEN "off" ELSE "rollout")
  /\ UNCHANGED <<disk, phases, updates, faults, strayed, process>>

\* task_dataset_rows as RepeatSampler delivers them from position p on: every row G
\* times.
RowsFrom(p) ==
  LET schedule == task_schedule(config)
  IN [k \in 1 .. config.groups * G |->
        LET i == p + (k - 1) \div G + 1 IN [task |-> schedule[i], index |-> i]]

\* group_metadata: complete, contiguous groups.
group_metadata(rows) ==
  /\ Len(rows) > 0 /\ Len(rows) % G = 0
  /\ \A k \in 1 .. Len(rows) : rows[k] = rows[((k - 1) \div G) * G + 1]

\* Mutant: a resumed process starts over with the schedule.
PositionLost == (step - resume) * config.groups

\* Batches consumed before this update, which HF skips.
Position == step * config.groups

\* The metadata bridge and collect_online_batch: an episode for each row, by the
\* live weights.
Rollout ==
  /\ pc = "rollout"
  /\ LET rows == RowsFrom(Position)
     IN /\ group_metadata(rows)
        /\ batch' = [g \in 1 .. Len(rows) \div G |->
                       [task |-> rows[g * G].task, index |-> rows[g * G].index,
                        horizon |-> optimizer.horizon]]
  /\ Go("update")
  /\ UNCHANGED <<disk, phases, config, resume, step, live, optimizer, updates, faults, strayed>>

\* The optimizer's step on the rollout, and the scheduler's.
Update ==
  /\ pc = "update"
  /\ updates' = updates + 1
  /\ live' = [id |-> updates', seen |-> live.seen \o batch]
  /\ optimizer' = [made |-> updates', horizon |-> Scheduler(config)]
  /\ step' = step + 1 /\ batch' = <<>>
  /\ Go("end")
  /\ UNCHANGED <<disk, phases, config, resume, faults, strayed>>

\* save_strategy "steps", and after the last update.
Saves == step % SaveSteps = 0 \/ step = config.steps

AfterSave == IF step = config.steps THEN "final" ELSE "begin"

\* Mutant: a step that has a hash row gets no other.
StepEndOnce ==
  /\ pc = "end"
  /\ hashes' = IF config.admission /\ hashes[step] = 0
               THEN [hashes EXCEPT ![step] = live.id] ELSE hashes
  /\ Go(IF Saves THEN "adapter" ELSE AfterSave)
  /\ UNCHANGED <<manifest, made, ckpts, final, phases, updates, faults, strayed, process>>

\* on_step_end: the update row and, in an admission run, the hash row.
StepEnd ==
  /\ pc = "end"
  /\ hashes' = IF config.admission THEN [hashes EXCEPT ![step] = live.id] ELSE hashes
  /\ Go(IF Saves THEN "adapter" ELSE AfterSave)
  /\ UNCHANGED <<manifest, made, ckpts, final, phases, updates, faults, strayed, process>>

\* A checkpoint that is written again keeps its old files until they are replaced.
Saved(p, field, value, next) ==
  /\ pc = p
  /\ ckpts' = [ckpts EXCEPT ![step][field] = value, ![step].there = TRUE]
  /\ Go(next)
  /\ UNCHANGED <<manifest, made, final, hashes, phases, updates, faults, strayed, process>>

\* Mutant: save_only_model.
SaveAdapterOnly == Saved("adapter", "adapter", live, "state")

SaveAdapter == Saved("adapter", "adapter", live, "optimizer")

SaveOptimizer == Saved("optimizer", "optimizer", optimizer, "state")

SaveState == Saved("state", "whole", TRUE, AfterSave)

\* train_grpo: the adapter export, which is no checkpoint.
SaveFinal ==
  /\ pc = "final"
  /\ final' = Append(final, live)
  /\ Go("off")
  /\ UNCHANGED <<manifest, made, ckpts, hashes, phases, updates, faults, strayed, process>>

----------------------------------------------------------------------------
\* An exception (imports, GPU count, a lost environment, memory): the process ends.
Raise ==
  /\ pc \in {"build", "rollout", "update", "final"} /\ Fault("error")
  /\ Go("off")
  /\ UNCHANGED <<disk, phases, updates, strayed, process>>

Crash ==
  /\ pc # "off" /\ Fault("crash")
  /\ Go("off")
  /\ UNCHANGED <<disk, phases, updates, strayed, process>>

\* A kill that cuts trainer_state.json short.
TearState ==
  /\ pc = "state" /\ Fault("crash")
  /\ ckpts' = IF step \in Whole THEN [ckpts EXCEPT ![step].whole = FALSE] ELSE ckpts
  /\ Go("off")
  /\ UNCHANGED <<manifest, made, final, hashes, phases, updates, strayed, process>>

Process ==
  \/ WriteManifest \/ Build \/ StepBegin \/ Rollout \/ Update
  \/ StepEnd \/ SaveAdapter \/ SaveOptimizer \/ SaveState \/ SaveFinal

Next == Launch \/ Process \/ Raise \/ Crash \/ TearState

Spec == Init /\ [][Next]_vars

\* A process runs on, and the operator resumes a run that died.
FairSpec == Spec /\ WF_vars(Process) /\ WF_vars(Launch)

----------------------------------------------------------------------------
(* Properties                                                              *)

Row == [task : UNION {{Order[s][i] : i \in DOMAIN Order[s]} : s \in DOMAIN Order},
        index : Nat, horizon : Nat]

Weights == [id : Nat, seen : Seq(Row)]

\* The variables have their types, and a rollout is as many groups as an update
\* takes, no hash or weights newer than the last update (collect_online_batch).
TypeOK ==
  /\ manifest \subseteq Configs /\ made \in BOOLEAN
  /\ \A n \in Steps : ckpts[n] \in [there : BOOLEAN, adapter : Weights,
                                    optimizer : [made : Nat, horizon : Nat], whole : BOOLEAN]
  /\ final \in Seq(Weights)
  /\ hashes \in [Steps -> 0 .. updates]
  /\ phases \in Seq(Nat)
  /\ pc \in {"off", "manifest", "build", "begin", "rollout", "update", "end",
             "adapter", "optimizer", "state", "final"}
  /\ config \in Configs /\ resume \in {0} \cup Steps /\ step \in {0} \cup Steps
  /\ live \in Weights /\ live.id <= updates
  /\ optimizer \in [made : 0 .. updates, horizon : Nat]
  /\ batch \in Seq(Row) /\ Len(batch) \in {0, config.groups}
  /\ updates \in Nat /\ faults \in 0 .. MaxFaults /\ strayed \in BOOLEAN

\* Weights after n updates of the run the manifest describes have seen the first
\* n * groups rows of its schedule, each once, in order, and at a learning rate the
\* linear schedule has not brought to zero.
OnSchedule(w, n) ==
  \E c \in manifest :
    /\ Len(w.seen) = n * c.groups
    /\ \A i \in DOMAIN w.seen : /\ w.seen[i].index = i
                                /\ w.seen[i].task = Order[c.seed][i]
                                /\ (i - 1) \div c.groups < w.seen[i].horizon

\* Whatever died and was resumed or extended, from whichever checkpoint, one that a run
\* can go on from was trained on exactly the schedule up to its step (task_schedule's
\* promise that there is no cursor to restore; prepare_run's identity check).
WholeOnSchedule == \A n \in Whole : OnSchedule(ckpts[n].adapter, n)

\* Besides, in a run that was only resumed from its newest one, what was exported as
\* final is held by such a checkpoint, so that the run can be extended from it.
TrainedOnSchedule ==
  /\ WholeOnSchedule
  /\ ~strayed => \A i \in DOMAIN final : \E n \in Whole : ckpts[n].adapter = final[i]

\* In such a run the weights and the optimizer state a process trains with come from the
\* same update, also when the directory of a checkpoint that was cut short is written over
\* (grpo.py resumes what trainer_state.json marks as whole).
ResumedTogether ==
  ~strayed /\ pc \in {"begin", "rollout", "update", "end"} => optimizer.made = live.id

\* A run that died after its first whole checkpoint is finished by resuming the newest
\* one: none is refused, also not by the hash check of an admission run, and weights
\* with all the updates that were asked for are exported.
ResumableRunFinishes ==
  Whole # {} /\ ~strayed ~> strayed \/ \E i \in DOMAIN final : Len(final[i].seen) >= config.groups * config.steps

\* "admission resume only permits increasing grpo.max_steps" (runtime.py:88).
PhasesOnlyIncrease ==
  \A i, k \in DOMAIN phases : i < k => phases[i] <= phases[k]

\* "Admission stops at 1/2 updates but follows formal 200-step LR" (grpo.py:368): the
\* updates of an admission run all follow one schedule of the learning rate.
AdmissionKeepsItsSchedule ==
  \A i, k \in DOMAIN live.seen : live.seen[i].horizon = live.seen[k].horizon
=============================================================================
