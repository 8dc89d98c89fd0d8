---------------------------- MODULE GrpoRunProofs ----------------------------
(***************************************************************************)
(* The checkpoints of a run have seen the task schedule row by row,        *)
(* whichever of them it was resumed from; one that is resumed from its     *)
(* newest whole checkpoint trains with weights and an optimizer state of   *)
(* the same update and loses no exported adapter: for any schedule, save   *)
(* interval and configurations, and any number of errors, kills and        *)
(* launches.                                                               *)
(***************************************************************************)
EXTENDS GrpoRun, SequenceTheorems, TLAPS

Training == {"begin", "rollout", "update", "end", "adapter", "optimizer", "state"}
Saving   == {"end", "adapter", "optimizer", "state"}

\* The parts of a checkpoint.
Shape ==
  /\ step \in Nat /\ resume \in Nat /\ updates \in Nat
  /\ DOMAIN ckpts = Steps
  /\ \A n \in Steps : /\ DOMAIN ckpts[n] = {"there", "adapter", "optimizer", "whole"}
                      /\ ckpts[n].whole => ckpts[n].there

\* A process starts with nothing or from a whole checkpoint, in a directory that is made.
Started ==
  /\ ~made => Whole = {} /\ pc = "off"
  /\ pc = "manifest" => Whole = {} /\ resume = 0
  /\ pc \in {"manifest", "build"} => resume \in {0} \cup Whole

\* The files of a save that is under way.
Halfway ==
  step \in Steps =>
    /\ pc \in {"optimizer", "state"} => ckpts[step].adapter = live
    /\ pc = "state" => ckpts[step].optimizer = optimizer

\* What holds whichever checkpoint the operator resumes.
Base == Shape /\ Started /\ Halfway

\* A whole checkpoint holds weights and optimizer state of one update.
Consistent == \A n \in Whole : ckpts[n].adapter.id = ckpts[n].optimizer.made

\* A process that starts from the newest whole checkpoint never comes back to one: what
\* it saves is at a step beyond every one that is whole.
Newest ==
  /\ pc \in {"manifest", "build"} => \A n \in Whole : n <= resume
  /\ pc \in Training => \A n \in Whole : n <= step
  /\ pc \in Saving => step \notin Whole

Together == pc \in Training => optimizer.made = live.id

\* What holds in a run that was only resumed from its newest checkpoint.
Steady == Consistent /\ Newest /\ Together

\* The inductive invariant of the checkpoints.
IInv == Base /\ (~strayed => Steady)

----------------------------------------------------------------------------
(* Any operator.                                                           *)

LEMMA StepsType == Steps \subseteq Nat
  BY DEF Steps

LEMMA InitInv == Init => IInv
<1> SUFFICES ASSUME Init PROVE IInv
  OBVIOUS
<1>1. /\ step = 0 /\ resume = 0 /\ updates = 0 /\ pc = "off" /\ DOMAIN ckpts = Steps
      /\ \A n \in Steps : ckpts[n] = NoCheckpoint
  BY DEF Init
<1>2. /\ DOMAIN NoCheckpoint = {"there", "adapter", "optimizer", "whole"}
      /\ NoCheckpoint.whole = FALSE
  BY DEF NoCheckpoint
<1>3. Whole = {}
  BY <1>1, <1>2 DEF Whole
<1>4. Shape
  BY <1>1, <1>2 DEF Shape
<1> QED
  BY <1>1, <1>3, <1>4 DEF IInv, Steady, Base, Started, Consistent, Newest, Halfway, Together,
                          Training, Saving

\* A step that leaves the checkpoints alone.
LEMMA WholeKept ==
  ASSUME UNCHANGED ckpts
  PROVE  Whole' = Whole
  BY DEF Whole

\* A step of a process that writes no checkpoint and goes on with what it has.
Quiet ==
  /\ UNCHANGED <<ckpts, step, live, optimizer, resume, updates>>
  /\ made' \/ ~made
  /\ \/ pc' = "off"
     \/ pc = "manifest" /\ pc' = "build"
     \/ pc \in Training \ Saving /\ pc' \in Training \ Saving
     \/ pc = "end" /\ pc' \in {"adapter", "begin", "final"}
     \/ pc = "final" /\ pc' = "final"

\* The steps that are quiet.
LEMMA QuietSteps ==
  ASSUME WriteManifest \/ StepBegin \/ Rollout \/ StepEnd \/ SaveFinal \/ Raise \/ Crash,
         made \/ pc = "off"
  PROVE  Quiet
<1>1. CASE WriteManifest
  BY <1>1 DEF WriteManifest, Go, process, Quiet
<1>2. CASE StepBegin
  BY <1>2 DEF StepBegin, Go, disk, process, Training, Saving, Quiet
<1>3. CASE Rollout
  BY <1>3 DEF Rollout, Go, disk, Training, Saving, Quiet
<1>4. CASE StepEnd
  BY <1>4 DEF StepEnd, Go, process, AfterSave, Quiet
<1>5. CASE SaveFinal \/ Raise \/ Crash
  BY <1>5 DEF SaveFinal, Raise, Crash, Go, disk, process, Quiet
<1> QED
  BY <1>1, <1>2, <1>3, <1>4, <1>5

\* What a launch does.
LEMMA LaunchDoes ==
  ASSUME Launch
  PROVE  /\ pc = "off" /\ pc' \in {"manifest", "build"}
         /\ UNCHANGED <<ckpts, step, live, optimizer, updates>> /\ Whole' = Whole
         /\ \/ ~made /\ made' = TRUE /\ resume' = 0
            \/ /\ made' = made /\ resume' \in Whole /\ pc' = "build"
               /\ strayed' = (strayed \/ \E n \in Whole : n > resume')
         /\ resume' \in Nat
<1>1. UNCHANGED <<ckpts, step, live, optimizer, updates>>
  BY DEF Launch
<1>2. Whole' = Whole
  BY <1>1, WholeKept
<1>3. \A n \in Whole : n \in Nat
  BY StepsType DEF Whole
<1> QED
  BY <1>1, <1>2, <1>3 DEF Launch, Go

\* A record with two fields replaced.
LEMMA TwoFields ==
  ASSUME NEW k, NEW l, NEW field \in {"adapter", "optimizer", "whole"}, NEW value,
         DOMAIN k = {"there", "adapter", "optimizer", "whole"},
         l = [[k EXCEPT ![field] = value] EXCEPT !.there = TRUE]
  PROVE  /\ DOMAIN l = {"there", "adapter", "optimizer", "whole"}
         /\ l.there = TRUE
         /\ l[field] = value
         /\ \A f \in {"adapter", "optimizer", "whole"} \ {field} : l[f] = k[f]
  OBVIOUS

\* What a save does to the checkpoint at this step.
LEMMA SavedFields ==
  ASSUME Shape, NEW p, NEW field \in {"adapter", "optimizer", "whole"}, NEW value, NEW next,
         Saved(p, field, value, next)
  PROVE  /\ pc = p /\ pc' = next /\ UNCHANGED <<made, step, live, optimizer, resume, updates>>
         /\ DOMAIN ckpts' = Steps
         /\ \A n \in Steps \ {step} : ckpts'[n] = ckpts[n]
         /\ step \in Steps =>
              /\ DOMAIN ckpts'[step] = {"there", "adapter", "optimizer", "whole"}
              /\ ckpts'[step].there = TRUE
              /\ ckpts'[step][field] = value
              /\ \A f \in {"adapter", "optimizer", "whole"} \ {field} :
                   ckpts'[step][f] = ckpts[step][f]
<1>1. /\ pc = p /\ pc' = next /\ UNCHANGED <<made, step, live, optimizer, resume, updates>>
      /\ ckpts' = [ckpts EXCEPT ![step][field] = value, ![step].there = TRUE]
  BY DEF Saved, Go, process
<1>2. DOMAIN ckpts' = Steps /\ \A n \in Steps \ {step} : ckpts'[n] = ckpts[n]
  BY <1>1 DEF Shape
<1>3. ASSUME step \in Steps
      PROVE  ckpts'[step] = [[ckpts[step] EXCEPT ![field] = value] EXCEPT !.there = TRUE]
  BY <1>1, <1>3 DEF Shape
<1>4. ASSUME step \in Steps
      PROVE  DOMAIN ckpts[step] = {"there", "adapter", "optimizer", "whole"}
  BY <1>4 DEF Shape
<1>5. ASSUME step \in Steps
      PROVE  /\ DOMAIN ckpts'[step] = {"there", "adapter", "optimizer", "whole"}
             /\ ckpts'[step].there = TRUE
             /\ ckpts'[step][field] = value
             /\ \A f \in {"adapter", "optimizer", "whole"} \ {field} :
                  ckpts'[step][f] = ckpts[step][f]
  <2> DEFINE k == ckpts[step]
             l == ckpts'[step]
  <2>1. DOMAIN k = {"there", "adapter", "optimizer", "whole"}
    BY <1>4, <1>5
  <2>2. l = [[k EXCEPT ![field] = value] EXCEPT !.there = TRUE]
    BY <1>3, <1>5
  <2> HIDE DEF k, l
  <2>3. /\ DOMAIN l = {"there", "adapter", "optimizer", "whole"}
        /\ l.there = TRUE /\ l[field] = value
        /\ \A f \in {"adapter", "optimizer", "whole"} \ {field} : l[f] = k[f]
    BY <2>1, <2>2, TwoFields
  <2> QED
    BY <2>3 DEF k, l
<1> QED
  BY <1>1, <1>2, <1>5, Zenon

\* A file that does not make the checkpoint whole.
LEMMA FileDoes ==
  ASSUME Base, SaveAdapter \/ SaveOptimizer
  PROVE  /\ UNCHANGED <<made, step, live, optimizer, resume, updates>>
         /\ Whole' = Whole /\ Shape' /\ Halfway'
         /\ pc \in {"adapter", "optimizer"} /\ pc' \in {"optimizer", "state"}
         /\ \A n \in Steps \ {step} : ckpts'[n] = ckpts[n]
         /\ step \in Steps =>
              /\ ckpts'[step].adapter \in {live, ckpts[step].adapter}
              /\ ckpts'[step].optimizer \in {optimizer, ckpts[step].optimizer}
<1>1. /\ UNCHANGED <<made, step, live, optimizer, resume, updates>>
      /\ DOMAIN ckpts' = Steps
      /\ \A n \in Steps \ {step} : ckpts'[n] = ckpts[n]
      /\ step \in Steps => /\ DOMAIN ckpts'[step] = {"there", "adapter", "optimizer", "whole"}
                           /\ ckpts'[step].there = TRUE
                           /\ ckpts'[step].whole = ckpts[step].whole
  BY SavedFields DEF SaveAdapter, SaveOptimizer, Base
<1>2. \/ /\ pc = "adapter" /\ pc' = "optimizer"
         /\ step \in Steps => /\ ckpts'[step].adapter = live
                              /\ ckpts'[step].optimizer = ckpts[step].optimizer
      \/ /\ pc = "optimizer" /\ pc' = "state"
         /\ step \in Steps => /\ ckpts'[step].adapter = ckpts[step].adapter
                              /\ ckpts'[step].optimizer = optimizer
  BY SavedFields DEF SaveAdapter, SaveOptimizer, Base
<1>3. \A n \in Steps : ckpts[n].whole => ckpts[n].there
  BY DEF Base, Shape
<1>4. Whole' = Whole
  BY <1>1, <1>3 DEF Whole, Steps
<1>5. Shape'
  BY <1>1 DEF Base, Shape, Steps
<1>6. Halfway'
  BY <1>1, <1>2 DEF Base, Halfway, Steps
<1> QED
  BY <1>1, <1>2, <1>4, <1>5, <1>6

\* trainer_state.json, which makes it whole.
LEMMA StateDoes ==
  ASSUME Base, SaveState
  PROVE  /\ UNCHANGED <<made, step, live, optimizer, resume, updates>>
         /\ pc = "state" /\ pc' = AfterSave /\ pc' \in {"begin", "final"} /\ Shape'
         /\ Whole' \subseteq Whole \cup {step} /\ Whole \subseteq Whole'
         /\ step \in Steps => step \in Whole' /\ ckpts[step].adapter = live
                                              /\ ckpts[step].optimizer = optimizer
         /\ \A n \in Steps : /\ ckpts'[n].adapter = ckpts[n].adapter
                             /\ ckpts'[n].optimizer = ckpts[n].optimizer
<1>1. /\ UNCHANGED <<made, step, live, optimizer, resume, updates>>
      /\ pc = "state" /\ pc' = AfterSave
      /\ DOMAIN ckpts' = Steps
      /\ \A n \in Steps \ {step} : ckpts'[n] = ckpts[n]
      /\ step \in Steps => /\ DOMAIN ckpts'[step] = {"there", "adapter", "optimizer", "whole"}
                           /\ ckpts'[step].there = TRUE /\ ckpts'[step].whole = TRUE
                           /\ ckpts'[step].adapter = ckpts[step].adapter
                           /\ ckpts'[step].optimizer = ckpts[step].optimizer
  BY SavedFields DEF SaveState, Base
<1>2. Whole' \subseteq Whole \cup {step} /\ Whole \subseteq Whole'
  BY <1>1 DEF Whole, Steps
<1>3. step \in Steps => step \in Whole'
  BY <1>1 DEF Whole, Steps
<1>4. step \in Steps => ckpts[step].adapter = live /\ ckpts[step].optimizer = optimizer
  BY <1>1 DEF Base, Halfway
<1>5. Shape'
  BY <1>1 DEF Base, Shape, Steps
<1>6. \A n \in Steps : /\ ckpts'[n].adapter = ckpts[n].adapter
                       /\ ckpts'[n].optimizer = ckpts[n].optimizer
  BY <1>1
<1>7. pc' \in {"begin", "final"}
  BY <1>1 DEF AfterSave
<1> QED
  BY <1>1, <1>2, <1>3, <1>4, <1>5, <1>6, <1>7

\* trainer_state.json, cut short: the checkpoint is whole no more.
LEMMA TearDoes ==
  ASSUME Base, TearState
  PROVE  /\ UNCHANGED <<made, step, live, optimizer, resume, updates>>
         /\ pc = "state" /\ pc' = "off" /\ Shape'
         /\ Whole' \subseteq Whole /\ (step \notin Whole => ckpts' = ckpts)
         /\ \A n \in Steps : /\ ckpts'[n].adapter = ckpts[n].adapter
                             /\ ckpts'[n].optimizer = ckpts[n].optimizer
<1>1. /\ UNCHANGED <<made, step, live, optimizer, resume, updates>>
      /\ pc = "state" /\ pc' = "off"
      /\ ckpts' = IF step \in Whole THEN [ckpts EXCEPT ![step].whole = FALSE] ELSE ckpts
  BY DEF TearState, Go, process
<1>2. CASE step \in Whole
  <2>1. DOMAIN ckpts = Steps /\ DOMAIN ckpts[step] = {"there", "adapter", "optimizer", "whole"}
        /\ step \in Steps
    BY <1>2 DEF Base, Shape, Whole
  <2>2. /\ DOMAIN ckpts' = Steps /\ \A n \in Steps \ {step} : ckpts'[n] = ckpts[n]
        /\ ckpts'[step] = [ckpts[step] EXCEPT !.whole = FALSE]
    BY <1>1, <1>2, <2>1
  <2>3. PICK k, l : k = ckpts[step] /\ l = ckpts'[step]
    OBVIOUS
  <2>4. /\ DOMAIN l = {"there", "adapter", "optimizer", "whole"} /\ l.whole = FALSE
        /\ l.adapter = k.adapter /\ l.optimizer = k.optimizer
    BY <2>1, <2>2, <2>3
  <2>5. Shape'
    BY <1>1, <2>2, <2>3, <2>4 DEF Base, Shape, Steps
  <2>6. Whole' \subseteq Whole
    BY <2>2, <2>3, <2>4 DEF Whole, Steps
  <2> QED
    BY <1>1, <1>2, <2>2, <2>3, <2>4, <2>5, <2>6
<1>3. CASE step \notin Whole
  <2>1. ckpts' = ckpts
    BY <1>1, <1>3
  <2> QED
    BY <1>1, <2>1, WholeKept DEF Base, Shape, Steps
<1> QED
  BY <1>2, <1>3

LEMMA BaseStep == Base /\ [Next]_vars => Base'
<1> SUFFICES ASSUME Base, [Next]_vars PROVE Base'
  OBVIOUS
<1>1. CASE UNCHANGED vars
  BY <1>1 DEF vars, Base, Shape, Started, Halfway, Whole
<1>2. CASE Launch
  <2>1. Shape' /\ Halfway'
    BY <1>2, LaunchDoes DEF Base, Shape, Halfway
  <2>2. Started'
    <3>1. Whole' = Whole /\ pc = "off" /\ pc' \in {"manifest", "build"}
      BY <1>2, LaunchDoes
    <3>2. \/ ~made /\ made' = TRUE /\ resume' = 0
          \/ made' = made /\ resume' \in Whole /\ pc' = "build"
      BY <1>2, LaunchDoes
    <3>3. ~made => Whole = {}
      BY DEF Base, Started
    <3> QED
      BY <3>1, <3>2, <3>3 DEF Started
  <2> QED
    BY <2>1, <2>2 DEF Base
<1>3. CASE WriteManifest \/ StepBegin \/ Rollout \/ StepEnd \/ SaveFinal \/ Raise \/ Crash
  <2>1. Quiet /\ Whole' = Whole
    BY <1>3, QuietSteps, WholeKept DEF Base, Started, Quiet
  <2> QED
    BY <2>1 DEF Base, Shape, Started, Halfway, Quiet, Training, Saving
<1>4. CASE Build
  <2>1. Whole' = Whole /\ UNCHANGED <<ckpts, made, resume, updates>> /\ step' = resume
        /\ pc = "build" /\ pc' \in {"begin", "final"}
    BY <1>4, WholeKept DEF Build, Go, disk
  <2> QED
    BY <2>1 DEF Base, Shape, Started, Halfway
<1>5. CASE Update
  <2>1. /\ Whole' = Whole /\ UNCHANGED <<ckpts, made, resume>> /\ step' = step + 1
        /\ pc = "update" /\ pc' = "end" /\ updates' = updates + 1
    BY <1>5, WholeKept DEF Update, Go, disk
  <2> QED
    BY <2>1 DEF Base, Shape, Started, Halfway
<1>6. CASE SaveAdapter \/ SaveOptimizer
  BY <1>6, FileDoes DEF Base, Started
<1>7. CASE SaveState
  BY <1>7, StateDoes DEF Base, Started, Halfway
<1>8. CASE TearState
  BY <1>8, TearDoes DEF Base, Started, Halfway
<1> QED
  BY <1>1, <1>2, <1>3, <1>4, <1>5, <1>6, <1>7, <1>8 DEF Next, Process

----------------------------------------------------------------------------
(* An operator who resumes the newest whole checkpoint.                    *)

LEMMA SteadyStep == Base /\ Steady /\ [Next]_vars /\ ~strayed' => Steady'
<1> SUFFICES ASSUME Base, Steady, [Next]_vars, ~strayed'
             PROVE  Consistent' /\ Newest' /\ Together'
  BY DEF Steady
<1>0. Shape
  BY DEF Base
<1>1. CASE UNCHANGED vars
  BY <1>1 DEF vars, Steady, Consistent, Newest, Together, Whole
<1>2. CASE Launch
  <2>1. (resume' = 0 /\ ~made /\ Whole = {}) \/ \A n \in Whole : n <= resume'
    <3>1. CASE ~made /\ resume' = 0
      BY <3>1 DEF Base, Started
    <3>2. CASE resume' \in Whole /\ strayed' = (strayed \/ \E n \in Whole : n > resume')
      <4>1. \A n \in Whole : ~(n > resume')
        BY <3>2
      <4>2. \A n \in Whole : n \in Nat
        BY StepsType DEF Whole
      <4> QED
        BY <3>2, <4>1, <4>2
    <3> QED
      BY <1>2, <3>1, <3>2, LaunchDoes
  <2> QED
    BY <1>2, <2>1, LaunchDoes DEF Steady, Consistent, Newest, Together, Training, Saving
<1>3. CASE WriteManifest \/ StepBegin \/ Rollout \/ StepEnd \/ SaveFinal \/ Raise \/ Crash
  <2>1. Quiet /\ Whole' = Whole
    BY <1>0, <1>3, QuietSteps, WholeKept DEF Base, Started, Quiet
  <2> QED
    BY <2>1 DEF Steady, Consistent, Newest, Together, Quiet, Training, Saving
<1>4. CASE Build
  <2>1. Whole' = Whole /\ UNCHANGED <<ckpts, made, resume, updates>> /\ step' = resume
        /\ pc = "build" /\ pc' \in {"begin", "final"}
    BY <1>4, WholeKept DEF Build, Go, disk
  <2>2. optimizer'.made = live'.id
    <3>1. CASE resume = 0
      BY <1>4, <3>1 DEF Build, Fresh, NoOptimizer
    <3>2. CASE resume # 0
      <4>1. resume \in Whole
        BY <2>1, <3>2 DEF Base, Started
      <4> QED
        BY <1>4, <3>2, <4>1 DEF Build, Steady, Consistent
    <3> QED
      BY <3>1, <3>2
  <2> QED
    BY <2>1, <2>2 DEF Steady, Consistent, Newest, Together, Saving
<1>5. CASE Update
  <2>1. optimizer'.made = live'.id
    <3>1. optimizer' = [made |-> updates', horizon |-> Scheduler(config)]
      BY <1>5 DEF Update
    <3>2. live' = [id |-> updates', seen |-> live.seen \o batch]
      BY <1>5 DEF Update
    <3> QED
      BY <3>1, <3>2
  <2>2. /\ Whole' = Whole /\ UNCHANGED <<ckpts, made, resume>> /\ step' = step + 1
        /\ pc = "update" /\ pc' = "end"
    BY <1>5, WholeKept DEF Update, Go, disk
  <2>3. \A n \in Whole : n \in Nat /\ n <= step /\ n # step + 1
    BY <1>0, <2>2, StepsType DEF Steady, Newest, Training, Whole, Shape
  <2>4. Newest'
    BY <1>0, <2>2, <2>3 DEF Newest, Shape, Training, Saving
  <2> QED
    BY <2>1, <2>2, <2>4 DEF Steady, Consistent, Together
<1>6. CASE SaveAdapter \/ SaveOptimizer
  <2>1. step \notin Whole /\ Whole \subseteq Steps
    BY <1>0, <1>6, FileDoes DEF Steady, Newest, Saving, Whole, Steps
  <2> QED
    BY <1>0, <1>6, <2>1, FileDoes DEF Steady, Consistent, Newest, Together, Training, Saving
<1>7. CASE SaveState
  <2>1. Whole' \subseteq Steps /\ Whole \subseteq Steps
    BY DEF Whole, Steps
  <2>2. Consistent'
    <3> SUFFICES ASSUME NEW n \in Whole'
                 PROVE  ckpts'[n].adapter.id = ckpts'[n].optimizer.made
      BY DEF Consistent
    <3>1. ckpts'[n].adapter = ckpts[n].adapter /\ ckpts'[n].optimizer = ckpts[n].optimizer
      BY <1>0, <1>7, <2>1, StateDoes
    <3>2. CASE n \in Whole
      BY <3>1, <3>2 DEF Steady, Consistent
    <3>3. CASE n = step
      BY <1>0, <1>7, <2>1, <3>1, <3>3, StateDoes DEF Steady, Together, Training
    <3> QED
      BY <1>0, <1>7, <3>2, <3>3, StateDoes
  <2>3. Newest'
    BY <1>0, <1>7, StateDoes DEF Steady, Newest, Training, Saving, Shape
  <2>4. Together'
    BY <1>0, <1>7, StateDoes DEF Steady, Together, Training
  <2> QED
    BY <2>2, <2>3, <2>4
<1>8. CASE TearState
  <2>1. step \notin Whole
    BY <1>8 DEF TearState, Steady, Newest, Saving
  <2>2. ckpts' = ckpts /\ Whole' = Whole /\ pc' = "off"
    BY <1>0, <1>8, <2>1, TearDoes, WholeKept
  <2> QED
    BY <2>2 DEF Steady, Consistent, Newest, Together, Training, Saving
<1> QED
  BY <1>1, <1>2, <1>3, <1>4, <1>5, <1>6, <1>7, <1>8 DEF Next, Process

\* A run that strayed stays strayed.
LEMMA StrayedStays == [Next]_vars /\ ~strayed' => ~strayed
<1> SUFFICES ASSUME [Next]_vars, ~strayed' PROVE ~strayed
  OBVIOUS
<1>1. CASE Launch
  BY <1>1 DEF Launch
<1>2. CASE ~Launch
  BY <1>2 DEF Next, Process, WriteManifest, Build, StepBegin, Rollout, Update, StepEnd, Saved,
              SaveAdapter, SaveOptimizer, SaveState, SaveFinal, Raise, Crash, TearState, vars
<1> QED
  BY <1>1, <1>2

LEMMA NextStep == IInv /\ [Next]_vars => IInv'
  BY BaseStep, SteadyStep, StrayedStays DEF IInv

----------------------------------------------------------------------------

\* A run that is only resumed from its newest whole checkpoint saves beyond it: a
\* checkpoint that is whole is never written over, and its weights and its optimizer state
\* are of one update.
THEOREM CheckpointInvariant == Spec => []IInv
<1> QED
  BY InitInv, NextStep, PTL DEF Spec

\* A process of such a run trains with weights and optimizer state of the same update
\* (grpo.py's resume_from_checkpoint), whatever died and wherever.
THEOREM ResumesTogether == Spec => []ResumedTogether
<1>1. IInv => ResumedTogether
  BY DEF IInv, Steady, Together, ResumedTogether, Training
<1> QED
  BY <1>1, CheckpointInvariant, PTL

----------------------------------------------------------------------------
(* What the weights have seen.                                             *)

\* The types that the schedule needs.
Typed ==
  /\ live \in Weights /\ batch \in Seq(Row) /\ final \in Seq(Weights)
  /\ \A n \in Steps : ckpts[n].adapter \in Weights

\* A process past prepare_run trains the run of the manifest: the schedule it takes is
\* the recorded one, or has it as a prefix.
Identity ==
  /\ config \in Configs /\ (pc # "off" => validate(config))
  /\ manifest \subseteq Configs /\ \A c, d \in manifest : c = d
  /\ ~made => manifest = {}
  /\ pc \notin {"off", "manifest"} => \E c \in manifest : SameRun(c, config)

\* The rollout under way is the next one of the schedule.
InStep ==
  /\ pc \in {"begin", "rollout", "update"} => step < config.steps
  /\ pc \in Saving => step >= 1 /\ step <= config.steps
  /\ pc = "update" =>
       /\ Len(batch) = config.groups
       /\ \A g \in 1 .. config.groups :
            batch[g] = [task    |-> Order[config.seed][step * config.groups + g],
                        index   |-> step * config.groups + g,
                        horizon |-> Scheduler(config)]

\* The weights in memory and on disk have seen the schedule up to their step.
Learned ==
  /\ \A n \in Whole : OnSchedule(ckpts[n].adapter, n)
  /\ pc \in Training => OnSchedule(live, step)

\* Every admission run has the schedule of its learning rate from the start, so that an
\* extension follows the same one (grpo.py:368).
Scheduled == \A c \in Configs : c.admission => c.horizon # 0

\* The learning rate in force is of the schedule this process and the manifest follow.
Rated ==
  /\ \A n \in Whole : \A c \in manifest : ckpts[n].optimizer.horizon = Scheduler(c)
  /\ pc \in Training => optimizer.horizon = Scheduler(config)

\* The inductive invariant of the schedule, for any operator.
SInv == Base /\ Typed /\ Identity /\ InStep /\ Learned /\ Rated

\* A quotient, by its remainder.
LEMMA DivOf ==
  ASSUME NEW n \in Nat, NEW m \in Nat \ {0}, NEW k \in Nat, NEW r \in 0 .. m - 1, n = k * m + r
  PROVE  n \div m = k
  OBVIOUS

\* The last of the m rows of group n.
LEMMA DivLast ==
  ASSUME NEW n \in Nat \ {0}, NEW m \in Nat \ {0}
  PROVE  (n * m - 1) \div m = n - 1 /\ n * m - 1 \in Nat
<1>1. n * m - 1 = (n - 1) * m + (m - 1) /\ n * m - 1 \in Nat
  OBVIOUS
<1> QED
  BY <1>1, DivOf

\* As many groups as there were sets of m rows.
LEMMA DivExact ==
  ASSUME NEW n \in Nat, NEW m \in Nat \ {0}
  PROVE  (n * m) \div m = n
  OBVIOUS

\* The update that trains on the i-th row.
LEMMA DivAtMost ==
  ASSUME NEW m \in Nat \ {0}, NEW s \in Nat, NEW i \in Nat, i < (s + 1) * m
  PROVE  i \div m <= s
  OBVIOUS

\* The rows of s updates, and of one more, out of those of k.
LEMMA RowsOf ==
  ASSUME NEW m \in Nat \ {0}, NEW s \in Nat, NEW k \in Nat, s < k
  PROVE  /\ s * m \in Nat /\ (s + 1) * m = s * m + m /\ (s + 1) * m <= m * k /\ k <= m * k
  OBVIOUS

\* A configuration's fields, and the epochs it takes its schedule from.
LEMMA ConfigFields ==
  ASSUME NEW c \in Configs
  PROVE  /\ c \in Config /\ c.seed \in DOMAIN Order
         /\ c.groups \in Nat /\ c.steps \in Nat /\ c.horizon \in Nat
         /\ c.groups * c.steps \in Nat /\ c.groups * c.steps <= Len(Order[c.seed])
         /\ Order[c.seed] \in Seq({Order[c.seed][i] : i \in DOMAIN Order[c.seed]})
<1>1. c \in Config /\ c.groups * c.steps <= Len(Order[c.seed])
  BY GrpoRunAssumption
<1>2. c.seed \in DOMAIN Order /\ c.groups \in Nat /\ c.steps \in Nat /\ c.horizon \in Nat
  BY <1>1 DEF Config
<1>3. c.groups * c.steps \in Nat
  BY <1>2
<1> QED
  BY <1>1, <1>2, <1>3, OrderAssumption

\* task_schedule takes the epochs from their start.
LEMMA ScheduleRows ==
  ASSUME NEW c \in Configs
  PROVE  /\ Len(task_schedule(c)) = c.groups * c.steps
         /\ \A i \in 1 .. c.groups * c.steps : task_schedule(c)[i] = Order[c.seed][i]
<1> DEFINE n == c.groups * c.steps
           s == Order[c.seed]
           T == {Order[c.seed][i] : i \in DOMAIN Order[c.seed]}
<1>1. n \in Nat /\ n <= Len(s) /\ s \in Seq(T)
  BY ConfigFields
<1>2. task_schedule(c) = SubSeq(s, 1, n)
  BY DEF task_schedule
<1> HIDE DEF n, s, T
<1>3. Len(SubSeq(s, 1, n)) = n /\ \A i \in 1 .. n : SubSeq(s, 1, n)[i] = s[i]
  BY <1>1
<1> QED
  BY <1>2, <1>3 DEF n, s

\* A run that is resumed or extended keeps its tasks and its groups.
LEMMA SameSchedule ==
  ASSUME NEW c \in Configs, NEW d \in Configs, SameRun(c, d)
  PROVE  c.seed = d.seed /\ c.groups = d.groups
<1>1. c \in Config
  BY ConfigFields
<1>2. [c EXCEPT !.steps = d.steps].seed = c.seed /\ [c EXCEPT !.steps = d.steps].groups = c.groups
  BY <1>1 DEF Config
<1> QED
  BY <1>2 DEF SameRun, Extends

\* It keeps the schedule of the learning rate, where that was given.
LEMMA SameRate ==
  ASSUME Scheduled, NEW c \in Configs, NEW d \in Configs, SameRun(c, d)
  PROVE  Scheduler(c) = Scheduler(d)
<1>1. c \in Config
  BY ConfigFields
<1>2. [c EXCEPT !.steps = d.steps].horizon = c.horizon
  BY <1>1 DEF Config
<1> QED
  BY <1>2 DEF SameRun, Extends, Scheduler, Scheduled

\* A task of the epochs makes a row.
LEMMA RowTyped ==
  ASSUME NEW c \in Configs, NEW i \in 1 .. c.groups * c.steps, NEW j \in Nat
  PROVE  [task |-> Order[c.seed][i], index |-> j, horizon |-> Scheduler(c)] \in Row
<1>1. /\ c.seed \in DOMAIN Order /\ i \in Nat /\ i >= 1 /\ i <= Len(Order[c.seed])
      /\ Order[c.seed] \in Seq({Order[c.seed][k] : k \in DOMAIN Order[c.seed]})
  <2> DEFINE n == c.groups * c.steps
             l == Len(Order[c.seed])
  <2>1. /\ c.seed \in DOMAIN Order /\ n \in Nat /\ n <= l /\ l \in Nat /\ i \in 1 .. n
        /\ Order[c.seed] \in Seq({Order[c.seed][k] : k \in DOMAIN Order[c.seed]})
    BY ConfigFields, LenProperties
  <2> HIDE DEF n, l
  <2>2. i \in Nat /\ i >= 1 /\ i <= l
    BY <2>1
  <2> QED
    BY <2>1, <2>2 DEF l
<1>2. i \in DOMAIN Order[c.seed]
  BY <1>1
<1>3. Order[c.seed][i] \in UNION {{Order[s][k] : k \in DOMAIN Order[s]} : s \in DOMAIN Order}
  BY <1>1, <1>2
<1>4. Scheduler(c) \in Nat
  BY ConfigFields DEF Scheduler
<1> QED
  BY <1>3, <1>4 DEF Row

LEMMA ScheduleInit == Init => SInv
<1> SUFFICES ASSUME Init PROVE SInv
  OBVIOUS
<1>1. Whole = {} /\ pc = "off" /\ manifest = {} /\ made = FALSE /\ final = <<>> /\ batch = <<>>
      /\ config \in Configs /\ live = Fresh
  BY DEF Init, Whole, NoCheckpoint
<1>2. Fresh \in Weights
  BY DEF Fresh, Weights
<1>3. \A n \in Steps : ckpts[n].adapter = Fresh
  BY DEF Init, NoCheckpoint
<1>4. Typed
  BY <1>1, <1>2, <1>3 DEF Typed
<1>5. Identity /\ InStep /\ Learned
  BY <1>1 DEF Identity, InStep, Learned, Saving, Training
<1>6. Rated
  BY <1>1 DEF Rated, Training
<1> QED
  BY <1>4, <1>5, <1>6, InitInv DEF SInv, IInv

\* A step that leaves weights, checkpoints and configuration alone.
LEMMA QuietSchedule ==
  ASSUME SInv, UNCHANGED <<ckpts, live, batch, final, optimizer, manifest, made, config, step>>,
         \/ pc' = "off" \/ pc' = pc
         \/ pc = "begin" /\ pc' = "rollout"
         \/ pc = "end" /\ (pc' = "adapter" \/ (pc' = "begin" /\ step < config.steps))
  PROVE  Typed' /\ Identity' /\ InStep' /\ Learned' /\ Rated'
<1>1. Whole' = Whole
  BY WholeKept
<1>2. Typed'
  BY DEF SInv, Typed
<1>3. Identity'
  BY DEF SInv, Identity
<1>4. InStep'
  BY DEF SInv, InStep, Saving
<1>5. Learned'
  BY <1>1 DEF SInv, Learned, Training, OnSchedule
<1>6. Rated'
  BY <1>1 DEF SInv, Rated, Training
<1> QED
  BY <1>2, <1>3, <1>4, <1>5, <1>6

LEMMA LaunchSchedule ==
  ASSUME SInv, Launch
  PROVE  Typed' /\ Identity' /\ InStep' /\ Learned' /\ Rated'
<1>1. /\ UNCHANGED <<ckpts, live, batch, final, manifest, step>> /\ Whole' = Whole
      /\ config' \in Configs /\ validate(config') /\ pc' \in {"manifest", "build"}
      /\ made' = TRUE
      /\ pc' = "build" => \E old \in manifest : SameRun(old, config')
  <2>1. UNCHANGED ckpts
    BY DEF Launch
  <2>2. Whole' = Whole
    BY <2>1, WholeKept
  <2>3. manifest # {} => made
    BY DEF SInv, Identity
  <2>4. made \in BOOLEAN => made' = TRUE
    BY <2>3 DEF Launch
  <2> QED
    BY <2>1, <2>2, <2>3 DEF Launch, Go
<1>2. Typed'
  BY <1>1 DEF SInv, Typed
<1>3. Identity'
  BY <1>1 DEF SInv, Identity
<1>4. InStep' /\ Learned'
  BY <1>1 DEF SInv, InStep, Saving, Learned, Training, OnSchedule
<1>5. Rated'
  BY <1>1 DEF SInv, Rated, Training
<1> QED
  BY <1>2, <1>3, <1>4, <1>5

LEMMA ManifestSchedule ==
  ASSUME SInv, WriteManifest
  PROVE  Typed' /\ Identity' /\ InStep' /\ Learned' /\ Rated'
<1>1. /\ UNCHANGED <<ckpts, live, batch, final, config, step, made>> /\ Whole' = Whole
      /\ pc = "manifest" /\ pc' = "build" /\ manifest' = {config} /\ Whole = {} /\ made
  BY WholeKept DEF WriteManifest, Go, process, SInv, Base, Started
<1>2. Typed'
  BY <1>1 DEF SInv, Typed
<1>3. Identity'
  <2>1. SameRun(config, config)
    BY DEF SameRun
  <2> QED
    BY <1>1, <2>1 DEF SInv, Identity
<1>4. InStep' /\ Learned'
  BY <1>1 DEF SInv, InStep, Saving, Learned, Training
<1>5. Rated'
  BY <1>1 DEF SInv, Rated, Training
<1> QED
  BY <1>2, <1>3, <1>4, <1>5

LEMMA BuildSchedule ==
  ASSUME Scheduled, SInv, Build
  PROVE  Typed' /\ Identity' /\ InStep' /\ Learned' /\ Rated'
<1>1. /\ UNCHANGED <<ckpts, final, manifest, made, config>> /\ Whole' = Whole
      /\ pc = "build" /\ step' = resume /\ batch' = <<>>
      /\ live' = (IF resume = 0 THEN Fresh ELSE ckpts[resume].adapter)
      /\ optimizer' = (IF resume = 0 THEN [NoOptimizer EXCEPT !.horizon = Scheduler(config)]
                                     ELSE ckpts[resume].optimizer)
      /\ pc' = IF resume < config.steps THEN "begin" ELSE "final"
  BY WholeKept DEF Build, Go, disk
<1>2. resume \in {0} \cup Whole /\ Whole \subseteq Steps /\ resume \in Nat
  <2>1. resume \in {0} \cup Whole
    BY <1>1 DEF SInv, Base, Started
  <2>2. Whole \subseteq Steps
    BY DEF Whole, Steps
  <2> QED
    BY <2>1, <2>2, StepsType
<1>3. config \in Configs /\ config.steps \in Nat /\ config.steps >= 1 /\ config.groups \in Nat
  BY <1>1, ConfigFields DEF SInv, Identity, validate
<1>4. PICK c \in manifest : SameRun(c, config)
  BY <1>1 DEF SInv, Identity
<1>5. OnSchedule(live, step)'
  <2>1. CASE resume = 0
    <3>1. c.groups \in Nat
      BY ConfigFields DEF SInv, Identity
    <3>2. Len(Fresh.seen) = 0 * c.groups /\ DOMAIN Fresh.seen = {}
      BY <3>1 DEF Fresh
    <3> QED
      BY <1>1, <2>1, <3>2 DEF OnSchedule
  <2>2. CASE resume # 0
    BY <1>1, <1>2, <2>2 DEF SInv, Learned, OnSchedule
  <2> QED
    BY <2>1, <2>2
<1>6. Typed'
  <2>1. Fresh \in Weights
    BY DEF Fresh, Weights
  <2> QED
    BY <1>1, <1>2, <2>1 DEF SInv, Typed
<1>7. Identity'
  BY <1>1 DEF SInv, Identity
<1>8. InStep'
  BY <1>1, <1>2, <1>3 DEF InStep, Saving
<1>9. Learned'
  <2>1. \A n \in Whole' : OnSchedule(ckpts[n].adapter, n)'
    BY <1>1 DEF SInv, Learned, OnSchedule
  <2> QED
    BY <1>5, <2>1 DEF Learned
<1>10. Rated'
  <2>1. c \in Configs /\ config \in Configs
    BY <1>3 DEF SInv, Identity
  <2>2. Scheduler(c) = Scheduler(config)
    BY <1>4, <2>1, SameRate
  <2>3. optimizer'.horizon = Scheduler(config)
    <3>1. CASE resume = 0
      BY <1>1, <3>1 DEF NoOptimizer
    <3>2. CASE resume # 0
      BY <1>1, <1>2, <2>2, <3>2 DEF SInv, Rated
    <3> QED
      BY <3>1, <3>2
  <2> QED
    BY <1>1, <2>3 DEF SInv, Rated
<1> QED
  BY <1>6, <1>7, <1>8, <1>9, <1>10

\* The groups a rollout asks for, before it is the batch.
LEMMA NextRows ==
  ASSUME SInv, pc = "rollout"
  PROVE  /\ step \in Nat /\ config \in Configs /\ config.groups \in Nat \ {0}
         /\ step < config.steps /\ config.steps \in Nat
         /\ Len(RowsFrom(Position)) \div G = config.groups
         /\ \A g \in 1 .. config.groups :
              /\ step * config.groups + g \in 1 .. config.groups * config.steps
              /\ RowsFrom(Position)[g * G] =
                   [task  |-> Order[config.seed][step * config.groups + g],
                    index |-> step * config.groups + g]
<1> DEFINE m == config.groups
           k == config.steps
           rows == RowsFrom(Position)
<1>1. step \in Nat /\ config \in Configs /\ m \in Nat \ {0} /\ k \in Nat /\ step < k
      /\ G \in Nat \ {0}
  <2>1. step \in Nat /\ config \in Configs /\ validate(config) /\ step < k
    BY DEF SInv, Base, Shape, Identity, InStep
  <2>2. m \in Nat /\ k \in Nat /\ G \in Nat \ {0}
    BY <2>1, ConfigFields, GrpoRunAssumption
  <2>3. m >= 1
    BY <2>1 DEF validate
  <2> QED
    BY <2>1, <2>2, <2>3
<1>2. rows = [j \in 1 .. m * G |->
                LET i == step * m + (j - 1) \div G + 1
                IN [task |-> task_schedule(config)[i], index |-> i]]
  BY DEF RowsFrom, Position
<1>3. Len(rows) \div G = m
  <2>1. Len(rows) = m * G
    BY <1>1, <1>2
  <2> QED
    BY <1>1, <2>1, DivExact
<1>4. ASSUME NEW g \in 1 .. m
      PROVE  /\ step * m + g \in 1 .. m * k
             /\ rows[g * G] = [task |-> Order[config.seed][step * m + g], index |-> step * m + g]
  <2> HIDE DEF m, k, rows
  <2>1. /\ step * m \in Nat /\ (step + 1) * m = step * m + m /\ (step + 1) * m <= m * k
    BY <1>1, RowsOf
  <2>2. step * m + g \in 1 .. m * k
    BY <1>1, <2>1
  <2>3. g * G \in 1 .. m * G
    BY <1>1
  <2>4. (g * G - 1) \div G = g - 1
    <3>1. g \in Nat \ {0} /\ G \in Nat \ {0}
      BY <1>1
    <3> QED
      BY <3>1, DivLast
  <2>5. step * m + (g * G - 1) \div G + 1 = step * m + g
    BY <1>1, <2>1, <2>4
  <2>6. rows[g * G] = [task |-> task_schedule(config)[step * m + g], index |-> step * m + g]
    BY <1>2, <2>3, <2>5
  <2>7. task_schedule(config)[step * m + g] = Order[config.seed][step * m + g]
    BY <1>1, <2>2, ScheduleRows DEF m, k
  <2> QED
    BY <2>2, <2>6, <2>7
<1> QED
  BY <1>1, <1>3, <1>4

LEMMA RolloutSchedule ==
  ASSUME SInv, Rollout
  PROVE  Typed' /\ Identity' /\ InStep' /\ Learned' /\ Rated'
<1> DEFINE m == config.groups
           rows == RowsFrom(Position)
<1>1. /\ UNCHANGED <<ckpts, final, manifest, made, config, live, optimizer, step>> /\ Whole' = Whole
      /\ pc = "rollout" /\ pc' = "update"
      /\ batch' = [g \in 1 .. Len(rows) \div G |->
                     [task |-> rows[g * G].task, index |-> rows[g * G].index,
                      horizon |-> Scheduler(config)]]
  <2>1. pc = "rollout" /\ optimizer.horizon = Scheduler(config)
    BY DEF Rollout, SInv, Rated, Training
  <2> QED
    BY <2>1, WholeKept DEF Rollout, Go, disk
<1>2. /\ step \in Nat /\ config \in Configs /\ m \in Nat \ {0} /\ step < config.steps
      /\ Len(rows) \div G = m
      /\ \A g \in 1 .. m :
           /\ step * m + g \in 1 .. m * config.steps
           /\ rows[g * G] = [task  |-> Order[config.seed][step * m + g],
                             index |-> step * m + g]
  BY <1>1, NextRows
<1> HIDE DEF rows, m
<1>3. /\ batch' \in Seq(Row) /\ Len(batch') = m
      /\ \A g \in 1 .. m : batch'[g] = [task    |-> Order[config.seed][step * m + g],
                                        index   |-> step * m + g,
                                        horizon |-> Scheduler(config)]
  <2>1. \A g \in 1 .. m : batch'[g] = [task    |-> Order[config.seed][step * m + g],
                                       index   |-> step * m + g,
                                       horizon |-> Scheduler(config)]
    <3> SUFFICES ASSUME NEW g \in 1 .. m
                 PROVE  batch'[g] = [task    |-> Order[config.seed][step * m + g],
                                     index   |-> step * m + g,
                                     horizon |-> Scheduler(config)]
      OBVIOUS
    <3>1. batch'[g] = [task |-> rows[g * G].task, index |-> rows[g * G].index,
                       horizon |-> Scheduler(config)]
      BY <1>1, <1>2
    <3>2. /\ rows[g * G].task = Order[config.seed][step * m + g]
          /\ rows[g * G].index = step * m + g
      <4>1. rows[g * G] = [task  |-> Order[config.seed][step * m + g],
                           index |-> step * m + g]
        BY <1>2, Zenon
      <4> DEFINE i == step * m + g
                 o == Order[config.seed][i]
                 e == rows[g * G]
      <4>2. e = [task |-> o, index |-> i]
        BY <4>1
      <4> HIDE DEF i, o, e
      <4>3. e.task = o /\ e.index = i
        BY <4>2
      <4> QED
        BY <4>3 DEF i, o, e
    <3> QED
      BY <3>1, <3>2
  <2>2. \A g \in 1 .. m : batch'[g] \in Row
    <3> SUFFICES ASSUME NEW g \in 1 .. m PROVE batch'[g] \in Row
      OBVIOUS
    <3>1. step * m + g \in 1 .. config.groups * config.steps
      BY <1>2 DEF m
    <3>2. step * m + g \in Nat
      <4>1. step \in Nat /\ m \in Nat \ {0}
        BY <1>2, Zenon
      <4>2. step * m \in Nat /\ g \in Nat
        BY <4>1
      <4> QED
        BY <4>2
    <3> QED
      BY <1>2, <2>1, <3>1, <3>2, RowTyped
  <2>3. batch' \in [1 .. m -> Row]
    BY <1>1, <1>2, <2>2
  <2>4. batch' \in Seq(Row) /\ Len(batch') = m
    <3>1. PICK b : b = batch'
      OBVIOUS
    <3>2. b \in [1 .. m -> Row] /\ m \in Nat
      BY <1>2, <2>3, <3>1
    <3>3. b \in Seq(Row) /\ Len(b) = m
      BY <3>2
    <3> QED
      BY <3>1, <3>3
  <2> QED
    BY <2>1, <2>4, Zenon
<1>4. Typed'
  BY <1>1, <1>3 DEF SInv, Typed
<1>5. Identity'
  BY <1>1 DEF SInv, Identity
<1>6. InStep'
  BY <1>1, <1>2, <1>3 DEF InStep, Saving, m
<1>7. Learned'
  BY <1>1 DEF SInv, Learned, Training, OnSchedule
<1>8. Rated'
  BY <1>1 DEF SInv, Rated, Training
<1> QED
  BY <1>4, <1>5, <1>6, <1>7, <1>8

\* b is what the n-th update trains on.
IsBatch(b, c, n, h) ==
  /\ b \in Seq(Row) /\ Len(b) = c.groups
  /\ \A g \in 1 .. c.groups :
       b[g] = [task |-> Order[c.seed][n * c.groups + g],
               index |-> n * c.groups + g, horizon |-> h]

\* Where the elements of a concatenation come from.
LEMMA ConcatRows ==
  ASSUME NEW s \in Seq(Row), NEW b \in Seq(Row), NEW k, NEW m, Len(s) = k, Len(b) = m
  PROVE  /\ s \o b \in Seq(Row) /\ Len(s \o b) = k + m /\ DOMAIN (s \o b) = 1 .. k + m
         /\ \A i \in 1 .. k + m :
              \/ i \in 1 .. k /\ i \in DOMAIN s /\ (s \o b)[i] = s[i]
              \/ i - k \in 1 .. m /\ k + (i - k) = i /\ (s \o b)[i] = b[i - k]
<1>1. k \in Nat /\ m \in Nat
  OBVIOUS
<1>2. s \o b \in Seq(Row) /\ Len(s \o b) = k + m
  OBVIOUS
<1>3. ASSUME NEW i \in 1 .. k + m
      PROVE  \/ i \in 1 .. k /\ i \in DOMAIN s /\ (s \o b)[i] = s[i]
             \/ i - k \in 1 .. m /\ k + (i - k) = i /\ (s \o b)[i] = b[i - k]
  <2>1. CASE i <= k
    BY <1>1, <2>1
  <2>2. CASE ~(i <= k)
    <3>1. i - k \in 1 .. m /\ k + (i - k) = i
      BY <1>1, <2>2
    <3>2. (s \o b)[i] = b[i - k]
      BY <1>1, <2>2
    <3> QED
      BY <3>1, <3>2
  <2> QED
    BY <2>1, <2>2
<1> QED
  BY <1>2, <1>3

\* The row of a position, its update and the next one's.
LEMMA RowOfUpdate ==
  ASSUME NEW m \in Nat \ {0}, NEW n \in Nat
  PROVE  /\ n * m \in Nat /\ (n + 1) * m = n * m + m
         /\ \A i \in 1 .. n * m + m : (i - 1) \div m \in Nat /\ (i - 1) \div m <= n
<1>1. n * m \in Nat /\ (n + 1) * m = n * m + m
  OBVIOUS
<1>2. ASSUME NEW i \in 1 .. n * m + m
      PROVE  (i - 1) \div m \in Nat /\ (i - 1) \div m <= n
  <2>1. i - 1 \in Nat /\ i - 1 < (n + 1) * m
    BY <1>1
  <2>2. PICK j \in Nat : j = i - 1
    BY <2>1
  <2>3. j \div m \in Nat
    BY <2>2
  <2> QED
    BY <2>1, <2>2, <2>3, DivAtMost
<1> QED
  BY <1>1, <1>2

\* The rows of one more update, appended in order.
LEMMA OneMoreUpdate ==
  ASSUME NEW w \in Weights, NEW n \in Nat, OnSchedule(w, n), NEW c \in manifest,
         \A d \in manifest : d = c, c.groups \in Nat \ {0},
         NEW b, NEW h \in Nat, IsBatch(b, c, n, h), n < h,
         NEW v, v.seen = w.seen \o b
  PROVE  OnSchedule(v, n + 1)
<1> DEFINE s == w.seen
           m == c.groups
           k == n * m
<1>0. m \in Nat \ {0} /\ k \in Nat /\ (n + 1) * m = k + m
      /\ \A i \in 1 .. k + m : (i - 1) \div m \in Nat /\ (i - 1) \div m <= n
  BY RowOfUpdate
<1>1. s \in Seq(Row) /\ Len(s) = k
  BY DEF OnSchedule, Weights
<1>2. b \in Seq(Row) /\ Len(b) = m
  BY DEF IsBatch
<1>3. \A i \in DOMAIN s : s[i].index = i /\ s[i].task = Order[c.seed][i]
                          /\ (i - 1) \div m < s[i].horizon
  BY DEF OnSchedule
<1>4. \A g \in 1 .. m : b[g] = [task |-> Order[c.seed][k + g], index |-> k + g, horizon |-> h]
  BY DEF IsBatch
<1>5. v.seen = s \o b
  OBVIOUS
<1> HIDE DEF s, k, m
<1>6. /\ Len(v.seen) = k + m /\ DOMAIN v.seen = 1 .. k + m
      /\ \A i \in 1 .. k + m :
           \/ i \in 1 .. k /\ i \in DOMAIN s /\ v.seen[i] = s[i]
           \/ i - k \in 1 .. m /\ k + (i - k) = i /\ v.seen[i] = b[i - k]
  BY <1>1, <1>2, <1>5, ConcatRows
<1>7. ASSUME NEW i \in 1 .. k + m
      PROVE  /\ v.seen[i].index = i /\ v.seen[i].task = Order[c.seed][i]
             /\ (i - 1) \div m < v.seen[i].horizon
  <2>1. CASE i \in DOMAIN s /\ v.seen[i] = s[i]
    BY <1>3, <2>1
  <2>2. CASE i - k \in 1 .. m /\ k + (i - k) = i /\ v.seen[i] = b[i - k]
    <3>1. b[i - k] = [task |-> Order[c.seed][k + (i - k)], index |-> k + (i - k),
                      horizon |-> h]
      BY <1>4, <2>2, Zenon
    <3>2. v.seen[i] = [task |-> Order[c.seed][i], index |-> i, horizon |-> h]
      BY <2>2, <3>1, Zenon
    <3>3. (i - 1) \div m < h
      <4>1. PICK q : q = (i - 1) \div m
        OBVIOUS
      <4>2. q \in Nat /\ q <= n
        BY <1>0, <4>1, Zenon
      <4>3. q < h
        BY <4>2
      <4> QED
        BY <4>1, <4>3
    <3> QED
      BY <3>2, <3>3
  <2> QED
    BY <1>6, <2>1, <2>2
<1> QED
  <2>1. Len(v.seen) = (n + 1) * c.groups
    BY <1>0, <1>6 DEF m
  <2>2. \A i \in DOMAIN v.seen : /\ v.seen[i].index = i /\ v.seen[i].task = Order[c.seed][i]
                                 /\ (i - 1) \div c.groups < v.seen[i].horizon
    BY <1>6, <1>7, Zenon DEF m
  <2> QED
    BY <2>1, <2>2, ZenonT(60) DEF OnSchedule

LEMMA UpdateSchedule ==
  ASSUME SInv, Update
  PROVE  Typed' /\ Identity' /\ InStep' /\ Learned' /\ Rated'
<1>1. /\ UNCHANGED <<ckpts, final, manifest, made, config>> /\ Whole' = Whole
      /\ pc = "update" /\ pc' = "end" /\ step' = step + 1 /\ updates' = updates + 1
      /\ batch' = <<>> /\ live' = [id |-> updates', seen |-> live.seen \o batch]
      /\ optimizer' = [made |-> updates', horizon |-> Scheduler(config)]
  BY WholeKept DEF Update, Go, disk
<1>2. /\ step \in Nat /\ updates \in Nat /\ config \in Configs /\ validate(config)
      /\ step < config.steps
      /\ live \in Weights /\ batch \in Seq(Row) /\ OnSchedule(live, step)
      /\ Len(batch) = config.groups
  BY <1>1 DEF SInv, Base, Shape, Identity, InStep, Typed, Learned, Training
<1>3. /\ config.groups \in Nat \ {0} /\ config.steps \in Nat /\ Scheduler(config) \in Nat
      /\ step < Scheduler(config)
  <2>1. /\ config.groups \in Nat /\ config.steps \in Nat /\ config.horizon \in Nat
    BY <1>2, ConfigFields
  <2>2. config.groups >= 1 /\ (config.horizon # 0 => config.horizon >= config.steps)
    BY <1>2 DEF validate
  <2> QED
    BY <1>2, <2>1, <2>2 DEF Scheduler
<1>4. PICK c \in manifest : SameRun(c, config)
  BY <1>1 DEF SInv, Identity
<1>5. c.seed = config.seed /\ c.groups = config.groups /\ \A d \in manifest : d = c
  BY <1>2, <1>4, SameSchedule DEF SInv, Identity
<1>6. IsBatch(batch, c, step, Scheduler(config))
  BY <1>1, <1>2, <1>5 DEF SInv, InStep, IsBatch
<1>7. OnSchedule(live, step)'
  <2>1. PICK v, n : v = live' /\ n = step'
    OBVIOUS
  <2>2. v.seen = live.seen \o batch /\ n = step + 1
    BY <1>1, <2>1
  <2>3. OnSchedule(v, n)
    BY <1>2, <1>3, <1>4, <1>5, <1>6, <2>2, OneMoreUpdate
  <2> QED
    BY <1>1, <2>1, <2>3 DEF OnSchedule
<1>8. Typed'
  <2>1. live.seen \o batch \in Seq(Row)
    BY <1>2 DEF Weights
  <2>2. live' \in Weights
    BY <1>1, <1>2, <2>1 DEF Weights
  <2> QED
    BY <1>1, <2>2 DEF SInv, Typed
<1>9. Identity'
  BY <1>1 DEF SInv, Identity
<1>10. InStep'
  BY <1>1, <1>2, <1>3 DEF InStep, Saving
<1>11. Learned'
  <2>1. \A n \in Whole' : OnSchedule(ckpts[n].adapter, n)'
    BY <1>1 DEF SInv, Learned, OnSchedule
  <2> QED
    BY <1>7, <2>1 DEF Learned
<1>12. Rated'
  BY <1>1 DEF SInv, Rated
<1> QED
  BY <1>8, <1>9, <1>10, <1>11, <1>12

\* The step a save is made at has a directory of its own.
LEMMA SavesAtStep ==
  ASSUME SInv, pc \in Saving
  PROVE  step \in Steps /\ step \in Nat /\ config.steps \in Nat /\ step <= config.steps
<1>1. /\ step \in Nat /\ config \in Configs /\ validate(config) /\ step <= config.steps
      /\ step >= 1
  BY DEF SInv, Base, Shape, Identity, InStep, Saving
<1> DEFINE k == config.steps
           m == config.groups
           l == Len(Order[config.seed])
<1>2. m \in Nat /\ k \in Nat /\ m * k <= l /\ m >= 1 /\ l \in Nat
  BY <1>1, ConfigFields, LenProperties DEF validate
<1>3. k <= m * k
  BY <1>1, <1>2, RowsOf
<1>4. m * k \in Nat
  BY <1>2
<1> HIDE DEF m, k, l
<1>5. step <= l
  <2>1. PICK r : r = m * k
    OBVIOUS
  <2>2. k \in Nat /\ l \in Nat /\ k <= r /\ r <= l /\ step <= k /\ r \in Nat
    BY <1>1, <1>2, <1>3, <1>4, <2>1 DEF k
  <2> QED
    BY <1>1, <2>2
<1>6. step \in 1 .. Len(Order[config.seed])
  BY <1>1, <1>2, <1>5 DEF l
<1> QED
  BY <1>1, <1>2, <1>6, ConfigFields DEF Steps, k

\* The rates of a run that is extended.
LEMMA SavedRate ==
  ASSUME Scheduled, SInv, pc \in Saving, NEW c \in manifest
  PROVE  optimizer.horizon = Scheduler(c)
<1>1. PICK d \in manifest : SameRun(d, config)
  BY DEF SInv, Identity, Saving
<1>2. d = c /\ c \in Configs /\ config \in Configs
  BY DEF SInv, Identity
<1>3. optimizer.horizon = Scheduler(config)
  BY DEF SInv, Rated, Training, Saving
<1> QED
  BY <1>1, <1>2, <1>3, SameRate

\* A file that does not make the checkpoint whole; it may already be.
LEMMA FileSchedule ==
  ASSUME Scheduled, SInv, SaveAdapter \/ SaveOptimizer
  PROVE  Typed' /\ Identity' /\ InStep' /\ Learned' /\ Rated'
<1>1. UNCHANGED <<live, optimizer, batch, final, manifest, made, config, step>>
  BY DEF SaveAdapter, SaveOptimizer, Saved, process
<1>2. /\ Whole' = Whole /\ pc \in {"adapter", "optimizer"} /\ pc' \in {"optimizer", "state"}
      /\ \A n \in Steps \ {step} : ckpts'[n] = ckpts[n]
      /\ step \in Steps => /\ ckpts'[step].adapter \in {live, ckpts[step].adapter}
                           /\ ckpts'[step].optimizer \in {optimizer, ckpts[step].optimizer}
  BY FileDoes DEF SInv
<1>3. Whole \subseteq Steps
  BY DEF Whole, Steps
<1>4. pc \in Saving /\ pc \in Training /\ pc' \in Training
  BY <1>2 DEF Saving, Training
<1>5. Typed'
  <2>1. \A n \in Steps : ckpts'[n].adapter \in Weights
    BY <1>2 DEF SInv, Typed
  <2> QED
    BY <1>1, <2>1 DEF SInv, Typed, Steps
<1>6. Identity'
  BY <1>1, <1>2 DEF SInv, Identity
<1>7. InStep'
  BY <1>1, <1>2 DEF SInv, InStep, Saving
<1>8. Learned'
  <2>1. OnSchedule(live, step)
    BY <1>4 DEF SInv, Learned
  <2>2. ASSUME NEW n \in Whole' PROVE OnSchedule(ckpts[n].adapter, n)'
    <3>1. OnSchedule(ckpts[n].adapter, n) /\ n \in Steps
      BY <1>2, <1>3 DEF SInv, Learned
    <3>2. CASE n # step
      BY <1>1, <1>2, <3>1, <3>2 DEF OnSchedule
    <3>3. CASE n = step
      <4>1. PICK v : v = ckpts'[n].adapter
        OBVIOUS
      <4>2. v = live \/ v = ckpts[n].adapter
        BY <1>2, <3>1, <3>3, <4>1
      <4>3. OnSchedule(v, n)
        BY <2>1, <3>1, <3>3, <4>2
      <4> QED
        BY <1>1, <4>1, <4>3 DEF OnSchedule
    <3> QED
      BY <3>2, <3>3
  <2>3. OnSchedule(live, step)'
    BY <1>1, <2>1 DEF OnSchedule
  <2> QED
    BY <2>2, <2>3 DEF Learned
<1>9. Rated'
  <2>1. ASSUME NEW n \in Whole, NEW c \in manifest
        PROVE  ckpts'[n].optimizer.horizon = Scheduler(c)
    <3>1. ckpts[n].optimizer.horizon = Scheduler(c) /\ n \in Steps
      BY <1>3 DEF SInv, Rated
    <3>2. optimizer.horizon = Scheduler(c)
      BY <1>4, SavedRate
    <3> QED
      BY <1>2, <3>1, <3>2
  <2>2. optimizer.horizon = Scheduler(config)
    BY <1>4 DEF SInv, Rated
  <2> QED
    BY <1>1, <1>2, <2>1, <2>2 DEF Rated
<1> QED
  BY <1>5, <1>6, <1>7, <1>8, <1>9

\* trainer_state.json: the checkpoint of this step holds what the process has learned.
LEMMA StateSchedule ==
  ASSUME Scheduled, SInv, SaveState
  PROVE  Typed' /\ Identity' /\ InStep' /\ Learned' /\ Rated'
<1>1. UNCHANGED <<live, optimizer, batch, final, manifest, made, config, step>>
  BY DEF SaveState, Saved, process
<1>2. /\ pc = "state" /\ pc' = AfterSave /\ Whole' \subseteq Whole \cup {step}
      /\ step \in Steps => ckpts[step].adapter = live /\ ckpts[step].optimizer = optimizer
      /\ \A n \in Steps : /\ ckpts'[n].adapter = ckpts[n].adapter
                          /\ ckpts'[n].optimizer = ckpts[n].optimizer
  BY StateDoes DEF SInv
<1>3. pc \in Saving /\ pc \in Training
  BY <1>2 DEF Saving, Training
<1>4. /\ step \in Steps /\ ckpts[step].adapter = live /\ ckpts[step].optimizer = optimizer
      /\ step \in Nat /\ config.steps \in Nat /\ step <= config.steps
  BY <1>2, <1>3, SavesAtStep
<1>5. OnSchedule(live, step)
  BY <1>3 DEF SInv, Learned
<1>6. Whole' \subseteq Steps
  BY <1>2, <1>4 DEF Whole, Steps
<1>7. Typed'
  <2>1. \A n \in Steps : ckpts'[n].adapter \in Weights
    BY <1>2 DEF SInv, Typed
  <2> QED
    BY <1>1, <2>1 DEF SInv, Typed, Steps
<1>8. (pc' = "begin" /\ step < config.steps) \/ (pc' = "final" /\ step = config.steps)
  <2>1. step < config.steps \/ step = config.steps
    BY <1>4
  <2> QED
    BY <1>2, <2>1 DEF AfterSave
<1>9. Identity'
  BY <1>1, <1>2, <1>8 DEF SInv, Identity
<1>10. InStep'
  BY <1>1, <1>8 DEF SInv, InStep, Saving
<1>11. Learned'
  <2>1. \A n \in Whole : OnSchedule(ckpts[n].adapter, n)
    BY DEF SInv, Learned
  <2>2. ASSUME NEW n \in Whole' PROVE OnSchedule(ckpts[n].adapter, n)'
    <3>1. OnSchedule(ckpts[n].adapter, n)
      BY <1>2, <1>4, <1>5, <2>1
    <3>2. ckpts'[n].adapter = ckpts[n].adapter
      BY <1>2, <1>6
    <3> QED
      BY <1>1, <3>1, <3>2 DEF OnSchedule
  <2>3. OnSchedule(live, step)'
    BY <1>1, <1>5 DEF OnSchedule
  <2> QED
    BY <2>2, <2>3 DEF Learned
<1>12. Rated'
  <2>1. ASSUME NEW n \in Whole', NEW c \in manifest
        PROVE  ckpts'[n].optimizer.horizon = Scheduler(c)
    <3>1. ckpts'[n].optimizer = ckpts[n].optimizer
      BY <1>2, <1>6
    <3>2. CASE n \in Whole
      BY <3>1, <3>2 DEF SInv, Rated
    <3>3. CASE n = step
      BY <1>3, <1>4, <3>1, <3>3, SavedRate
    <3> QED
      BY <1>2, <3>2, <3>3
  <2>2. optimizer.horizon = Scheduler(config)
    BY <1>3 DEF SInv, Rated
  <2> QED
    BY <1>1, <2>1, <2>2 DEF Rated
<1> QED
  BY <1>7, <1>9, <1>10, <1>11, <1>12

\* trainer_state.json, cut short.
LEMMA TearSchedule ==
  ASSUME SInv, TearState
  PROVE  Typed' /\ Identity' /\ InStep' /\ Learned' /\ Rated'
<1>1. UNCHANGED <<live, optimizer, batch, final, manifest, made, config, step>> /\ pc' = "off"
  BY DEF TearState, process, Go
<1>2. /\ Whole' \subseteq Whole
      /\ \A n \in Steps : /\ ckpts'[n].adapter = ckpts[n].adapter
                          /\ ckpts'[n].optimizer = ckpts[n].optimizer
  BY TearDoes DEF SInv
<1>3. Whole \subseteq Steps
  BY DEF Whole, Steps
<1>4. Typed'
  BY <1>1, <1>2 DEF SInv, Typed, Steps
<1>5. Identity' /\ InStep'
  BY <1>1 DEF SInv, Identity, InStep, Saving
<1>6. Learned'
  <2>1. ASSUME NEW n \in Whole' PROVE OnSchedule(ckpts[n].adapter, n)'
    <3>1. OnSchedule(ckpts[n].adapter, n) /\ ckpts'[n].adapter = ckpts[n].adapter
      BY <1>2, <1>3 DEF SInv, Learned
    <3> QED
      BY <1>1, <3>1 DEF OnSchedule
  <2> QED
    BY <1>1, <2>1 DEF Learned, Training
<1>7. Rated'
  BY <1>1, <1>2, <1>3 DEF SInv, Rated, Training
<1> QED
  BY <1>4, <1>5, <1>6, <1>7

LEMMA FinalSchedule ==
  ASSUME SInv, SaveFinal
  PROVE  Typed' /\ Identity' /\ InStep' /\ Learned' /\ Rated'
<1>1. /\ UNCHANGED <<ckpts, live, batch, optimizer, manifest, made, config, step>> /\ Whole' = Whole
      /\ pc = "final" /\ pc' = "off" /\ final' = Append(final, live)
  BY WholeKept DEF SaveFinal, Go, process
<1>2. final \in Seq(Weights) /\ live \in Weights
  BY DEF SInv, Typed
<1>3. final' \in Seq(Weights)
  BY <1>1, <1>2
<1>4. Typed'
  BY <1>1, <1>3 DEF SInv, Typed
<1>5. Identity' /\ InStep' /\ Learned'
  BY <1>1 DEF SInv, Identity, InStep, Saving, Learned, Training, OnSchedule
<1>6. Rated'
  BY <1>1 DEF SInv, Rated, Training
<1> QED
  BY <1>4, <1>5, <1>6

LEMMA ScheduleStep == Scheduled /\ SInv /\ [Next]_vars => SInv'
<1> SUFFICES ASSUME Scheduled, SInv, [Next]_vars PROVE SInv'
  OBVIOUS
<1>1. Base'
  BY BaseStep DEF SInv
<1>2. Typed' /\ Identity' /\ InStep' /\ Learned' /\ Rated'
  <2>1. CASE UNCHANGED vars \/ Raise \/ Crash
    BY <2>1, QuietSchedule DEF vars, Raise, Crash, Go, disk, process
  <2>2. CASE Launch
    BY <2>2, LaunchSchedule
  <2>3. CASE WriteManifest
    BY <2>3, ManifestSchedule
  <2>4. CASE Build
    BY <2>4, BuildSchedule
  <2>5. CASE StepBegin
    BY <2>5, QuietSchedule DEF StepBegin, Go, disk, process
  <2>6. CASE Rollout
    BY <2>6, RolloutSchedule
  <2>7. CASE Update
    BY <2>7, UpdateSchedule
  <2>8. CASE StepEnd
    <3>1. step < config.steps \/ step = config.steps
      BY <2>8, SavesAtStep DEF StepEnd, Saving
    <3>2. /\ UNCHANGED <<ckpts, live, batch, final, optimizer, manifest, made, config, step>>
          /\ pc = "end" /\ pc' = IF Saves THEN "adapter" ELSE AfterSave
      BY <2>8 DEF StepEnd, Go, process
    <3>3. pc' = "adapter" \/ (pc' = "begin" /\ step < config.steps)
      BY <3>1, <3>2 DEF Saves, AfterSave
    <3> QED
      BY <3>2, <3>3, QuietSchedule
  <2>9. CASE SaveAdapter \/ SaveOptimizer
    BY <2>9, FileSchedule
  <2>10. CASE SaveState
    BY <2>10, StateSchedule
  <2>11. CASE SaveFinal
    BY <2>11, FinalSchedule
  <2>12. CASE TearState
    BY <2>12, TearSchedule
  <2> QED
    BY <2>1, <2>2, <2>3, <2>4, <2>5, <2>6, <2>7, <2>8, <2>9, <2>10, <2>11, <2>12
       DEF Next, Process
<1> QED
  BY <1>1, <1>2 DEF SInv

\* Whatever died, whichever whole checkpoint it was resumed from, also one that was then
\* written over, every checkpoint a run can go on from has seen the task schedule up to its
\* step, each row once and in order (task_schedule and the batches HF skips).
THEOREM WholeFollowTheSchedule == Scheduled => (Spec => []WholeOnSchedule)
<1> SUFFICES ASSUME Scheduled PROVE Spec => []WholeOnSchedule
  OBVIOUS
<1>1. SInv /\ [Next]_vars => SInv'
  BY ScheduleStep
<1>2. SInv => WholeOnSchedule
  BY DEF SInv, Learned, WholeOnSchedule
<1> QED
  BY <1>1, <1>2, ScheduleInit, PTL DEF Spec

----------------------------------------------------------------------------
(* What was exported, in a run that is only resumed from the newest one.   *)

\* What is exported is what the checkpoint of that step holds.
Exported ==
  /\ pc = "final" => step \in Whole /\ ckpts[step].adapter = live
  /\ \A i \in DOMAIN final : \E n \in Whole : ckpts[n].adapter = final[i]

\* A step that leaves every whole checkpoint's adapter where it is.
LEMMA ExportsKept ==
  ASSUME Exported, Whole \subseteq Whole', \A n \in Whole : ckpts'[n].adapter = ckpts[n].adapter,
         final' = final, pc' = "final" => step' \in Whole' /\ ckpts'[step'].adapter = live'
  PROVE  Exported'
  BY DEF Exported

LEMMA ExportStep ==
  Steady /\ SInv /\ Exported /\ [Next]_vars => Exported'
<1> SUFFICES ASSUME Steady, SInv, Exported, [Next]_vars PROVE Exported'
  OBVIOUS
<1>0. Whole \subseteq Steps /\ (pc \in Saving => step \notin Whole)
  BY DEF Whole, Steps, Steady, Newest
<1>1. CASE UNCHANGED vars
  BY <1>1, WholeKept, ExportsKept DEF vars, Exported
<1>2. CASE Launch \/ WriteManifest \/ StepBegin \/ Rollout \/ Update \/ Raise \/ Crash
  <2>1. UNCHANGED <<ckpts, final>> /\ pc' # "final"
    BY <1>2 DEF Launch, WriteManifest, StepBegin, Rollout, Update, Raise, Crash, Go, disk
  <2> QED
    BY <2>1, WholeKept, ExportsKept
<1>3. CASE Build
  <2>1. /\ UNCHANGED <<ckpts, final>> /\ pc = "build" /\ step' = resume
        /\ live' = (IF resume = 0 THEN Fresh ELSE ckpts[resume].adapter)
        /\ pc' = IF resume < config.steps THEN "begin" ELSE "final"
    BY <1>3 DEF Build, Go, disk
  <2>2. resume \in {0} \cup Whole /\ config.steps \in Nat /\ config.steps >= 1
    BY <2>1, ConfigFields DEF SInv, Base, Started, Identity, validate
  <2>3. pc' = "final" => resume \in Whole /\ resume # 0
    BY <1>0, <2>1, <2>2, StepsType DEF Steps
  <2> QED
    BY <2>1, <2>3, WholeKept, ExportsKept
<1>4. CASE StepEnd
  <2>1. UNCHANGED <<ckpts, final>> /\ pc = "end" /\ pc' = IF Saves THEN "adapter" ELSE AfterSave
    BY <1>4 DEF StepEnd, Go
  <2>2. pc' # "final"
    BY <2>1 DEF Saves, AfterSave
  <2> QED
    BY <2>1, <2>2, WholeKept, ExportsKept
<1>5. CASE SaveAdapter \/ SaveOptimizer
  <2>1. final' = final
    BY <1>5 DEF SaveAdapter, SaveOptimizer, Saved
  <2>2. /\ Whole' = Whole /\ pc \in {"adapter", "optimizer"} /\ pc' \in {"optimizer", "state"}
        /\ \A n \in Steps \ {step} : ckpts'[n] = ckpts[n]
    BY <1>5, FileDoes DEF SInv
  <2>3. \A n \in Whole : ckpts'[n] = ckpts[n]
    BY <1>0, <2>2 DEF Saving
  <2> QED
    BY <2>1, <2>2, <2>3, ExportsKept
<1>6. CASE SaveState
  <2>1. final' = final
    BY <1>6 DEF SaveState, Saved
  <2>2. /\ pc = "state" /\ Whole \subseteq Whole' /\ UNCHANGED <<step, live>>
        /\ \A n \in Steps : ckpts'[n].adapter = ckpts[n].adapter
        /\ step \in Steps => step \in Whole' /\ ckpts[step].adapter = live
    BY <1>6, StateDoes DEF SInv
  <2>3. step \in Steps
    BY <2>2, SavesAtStep DEF Saving
  <2> QED
    BY <1>0, <2>1, <2>2, <2>3, ExportsKept
<1>7. CASE SaveFinal
  <2>1. UNCHANGED <<ckpts, live, step>> /\ pc = "final" /\ pc' = "off" /\ final' = Append(final, live)
    BY <1>7 DEF SaveFinal, Go, process
  <2>2. final \in Seq(Weights) /\ live \in Weights
    BY DEF SInv, Typed
  <2>3. \A i \in DOMAIN final' : (i \in DOMAIN final /\ final'[i] = final[i]) \/ final'[i] = live
    BY <2>1, <2>2
  <2> QED
    BY <2>1, <2>3, WholeKept DEF Exported
<1>8. CASE TearState
  <2>1. pc = "state" /\ pc' = "off" /\ final' = final
    BY <1>8 DEF TearState, Go
  <2>2. ckpts' = ckpts
    BY <1>0, <1>8, <2>1, TearDoes DEF SInv, Saving
  <2> QED
    BY <2>1, <2>2, WholeKept, ExportsKept
<1> QED
  BY <1>1, <1>2, <1>3, <1>4, <1>5, <1>6, <1>7, <1>8 DEF Next, Process

\* In a run that is only resumed from its newest whole checkpoint no exported adapter is
\* lost either: a checkpoint that it can be extended from still holds it.
THEOREM CheckpointsFollowTheSchedule == Scheduled => (Spec => []TrainedOnSchedule)
<1> SUFFICES ASSUME Scheduled PROVE Spec => []TrainedOnSchedule
  OBVIOUS
<1> DEFINE Inv == IInv /\ SInv /\ (~strayed => Exported)
<1>1. Init => Inv
  <2>1. Init => Exported
    BY DEF Init, Exported
  <2> QED
    BY <2>1, InitInv, ScheduleInit
<1>2. Inv /\ [Next]_vars => Inv'
  <2> SUFFICES ASSUME Inv, [Next]_vars PROVE Inv'
    OBVIOUS
  <2>1. IInv' /\ SInv'
    BY NextStep, ScheduleStep
  <2>2. ~strayed' => Exported'
    BY StrayedStays, ExportStep DEF IInv
  <2> QED
    BY <2>1, <2>2
<1>3. Inv => TrainedOnSchedule
  BY DEF SInv, Learned, Exported, WholeOnSchedule, TrainedOnSchedule
<1> QED
  BY <1>1, <1>2, <1>3, PTL DEF Spec

=============================================================================
