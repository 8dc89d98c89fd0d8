--------------------------- MODULE ProfileRunProofs ---------------------------
(***************************************************************************)
(* The profiling run never makes an attempt its budgets do not allow, its  *)
(* ledger never says more than the files on disk, and it calls itself      *)
(* complete only once every task is settled: for any list of tasks, any    *)
(* budgets, and any number of interrupts, kills and resumes.               *)
(*                                                                         *)
(* The inductive invariant comes first.  Then what the files say of the    *)
(* rows, and each action's effect on the rows, the counts and the tasks    *)
(* already settled.                                                        *)
(***************************************************************************)
EXTENDS ProfileRun, FiniteSetTheorems, SequenceTheorems, WellFoundedInduction, TLAPS

----------------------------------------------------------------------------
(* The inductive invariant: the ledger.                                    *)

\* A row that says how an attempt ended points to a file that says it ended.  A
\* file knows its phase or none, and that of an attempt that ended knows it, so
\* that counting by the files finds every second demonstration that ended.
RowOK(r) ==
  /\ r.status \notin {"in_progress", "infrastructure_interrupted"} =>
       Artifact(r).status \notin {"in_progress", "absent"}
  /\ r.attempt.phase \in {"none", r.phase} /\ r.trajectory.phase \in {"none", r.phase}
  /\ r.status \in {"failure", "success", "provider_error"} => Artifact(r).phase = r.phase
  /\ r.status = "profile_unsolved" => r.phase = "first_success"

RowsOK == \A i \in DOMAIN rows : RowOK(rows[i])

\* The rows that run_profile counts for a phase.
Firsts(t)  == {i \in CountedOf(t) : Artifact(rows[i]).phase # "second_demo"}
Seconds(t) == {i \in CountedOf(t) : Artifact(rows[i]).phase = "second_demo"}

\* The attempts that a phase has used up: for a first success also those under way.
Made(t)  == {i \in CountedOf(t) : rows[i].phase = "first_success"}
Tried(t) == Ended(t, "second_demo")

WithinBudget(t) == Cardinality(Made(t)) <= FirstMax /\ Cardinality(Tried(t)) <= SecondMax

Budgets == \A t \in Tasks : WithinBudget(t)

Ledger == RowsOK /\ SecondDemoFollowsSuccess /\ Budgets

----------------------------------------------------------------------------
(* The process.                                                            *)

Saving      == {"read", "publish", "commit"}
Relabelling == pc \in Saving /\ run.save = "profile_unsolved"
Attempting  == \/ pc \in {"reset", "turn", "call", "play", "won", "lost", "trajectory",
                          "publish_trajectory", "commit_trajectory", "return", "raise",
                          "stop", "shutdown", "release"}
               \/ pc \in Saving /\ run.save # "profile_unsolved"
Present     == Attempting \/ pc = "decide"

\* What a save is followed by.
Continues ==
  pc \in Saving =>
    \/ run.save = "in_progress" /\ run.then \in {"turn", "won", "lost"}
    \/ run.save = "failure" /\ run.then = "return"
    \/ run.save = "success" /\ run.then = "trajectory"
    \/ run.save = "provider_error" /\ run.then = "raise"
    \/ run.save = "infrastructure_interrupted" /\ run.then \in {"stop", "shutdown"}
    \/ run.save = "profile_unsolved" /\ run.then = "task"

\* A step is only taken where one is left.
Pace ==
  pc \in {"reset", "turn", "call", "play"} \/ (pc \in Saving /\ run.then = "turn") =>
    run.steps < MaxSteps

\* The handler knows the attempt from the reset to the release.
Guarding ==
  /\ guard.attempt # 0 => Attempting /\ run.session /\ guard.attempt = run.row
  /\ run.session => Attempting \/ pc = "closing"
  /\ pc = "reset" => ~run.session

\* The list is not at its end.
OnTask ==
  Present \/ Relabelling \/ pc \in {"start", "unsolved"} => run.at \in DOMAIN TaskList

Control == Continues /\ Pace /\ Guarding /\ OnTask

\* The row of the attempt under way is the last one.
Current == rows[run.row]

OnRow ==
  Present => /\ run.row = Len(rows) /\ run.row \in DOMAIN rows
             /\ Current.task = Task /\ Current.phase = run.phase

\* How far the attempt under way is.
Working == pc \in {"reset", "turn", "call", "play", "won", "lost"} \/ (Attempting /\ pc \in Saving)

Progress ==
  /\ Working => /\ Current.status \in {"in_progress", "infrastructure_interrupted"}
                /\ Current.path = "attempt"
  /\ Attempting /\ pc = "commit" =>
       /\ Current.attempt.status \in {run.save, "infrastructure_interrupted"}
       /\ Current.attempt.phase = run.phase
  /\ pc \in {"trajectory", "publish_trajectory", "commit_trajectory"} =>
       Current.path = "attempt"
  /\ pc = "commit_trajectory" => Current.trajectory = File("success", run.phase)
  /\ open /\ (pc \in {"return", "decide"} \/ (pc = "release" /\ run.exit = "none")) =>
       /\ Current.status # "infrastructure_interrupted"
       /\ Artifact(Current).phase = run.phase

\* What was counted before this attempt, and that it left room for this one.
Room == /\ run.phase = "first_success" => run.firsts < FirstMax
        /\ run.phase = "second_demo" => run.seconds < SecondMax

Counts ==
  /\ Present => /\ run.firsts = Cardinality(Firsts(Task) \ {run.row})
                /\ run.seconds = Cardinality(Seconds(Task) \ {run.row})
                /\ Room
  /\ pc = "start" => /\ run.firsts = Cardinality(Firsts(Task))
                     /\ run.seconds = Cardinality(Seconds(Task))
                     /\ Room
                     /\ run.phase = "second_demo" => Demonstrations(Task) # {}

----------------------------------------------------------------------------
(* What a task comes to.                                                   *)

\* A task that is given up.
Hopeless(t) == Demonstrations(t) = {} /\ Cardinality(Firsts(t)) >= FirstMax

\* The row that mark_profile_unsolved takes.
Last(i, t) == i \in CountedOf(t) /\ \A j \in CountedOf(t) : j <= i

GivingUp ==
  /\ pc = "unsolved" \/ Relabelling => Hopeless(Task)
  /\ Relabelling => Last(run.row, Task)
  /\ Relabelling /\ pc = "commit" => Artifact(Current).status = "profile_unsolved"

Settled(t) ==
  \/ Demonstrations(t) # {} /\ Cardinality(Seconds(t)) >= SecondMax
  \/ /\ Hopeless(t)
     /\ \E i \in CountedOf(t) : Last(i, t) /\ rows[i].status = "profile_unsolved"

Settling ==
  /\ saved = "complete" => \A t \in Tasks : Settled(t)
  /\ pc # "down" => \A i \in DOMAIN TaskList : i < run.at => Settled(TaskList[i])
  /\ Present \/ pc = "start" => saved # "complete"

Process == Control /\ OnRow /\ Progress /\ Counts /\ GivingUp

IInv == TypeOK /\ Ledger /\ Process /\ Settling

----------------------------------------------------------------------------
(* The steps of the process, as far as they do not depend on the rows.     *)

RunType == [at : 1 .. Len(TaskList) + 1, firsts : Nat, seconds : Nat,
            phase : Phases, row : Nat, steps : 0 .. MaxSteps, session : BOOLEAN,
            save : Statuses, then : PcValues,
            exit : {"none", "stop", "error", "lost"}]

UsedType == [faults : 0 .. MaxFaults, crashes : 0 .. MaxCrashes,
             sigints : 0 .. MaxSigints, reruns : 0 .. MaxReruns]

PlainOK ==
  /\ saved \in {"none", "infrastructure_interrupted", "stopped", "complete"}
  /\ open \in BOOLEAN
  /\ pc \in PcValues
  /\ run \in RunType
  /\ guard \in [attempt : Nat, stop : BOOLEAN]
  /\ used \in UsedType

LEMMA TypeOKParts == TypeOK <=> rows \in Seq(RowType) /\ PlainOK
BY DEF TypeOK, PlainOK, RunType, UsedType

LEMMA Bounds ==
  /\ MaxFaults \in Nat /\ MaxCrashes \in Nat /\ MaxSigints \in Nat /\ MaxReruns \in Nat
  /\ FirstMax \in Nat \ {0} /\ SecondMax \in Nat /\ MaxSteps \in Nat \ {0}
BY ProfileAssumption

\* The list of tasks.
LEMMA TheList ==
  /\ Len(TaskList) \in Nat \ {0} /\ DOMAIN TaskList = 1 .. Len(TaskList)
  /\ \A i \in DOMAIN TaskList : TaskList[i] \in Tasks
  /\ \A i, j \in DOMAIN TaskList : TaskList[i] = TaskList[j] => i = j
<1>1. TaskList \in Seq({TaskList[i] : i \in DOMAIN TaskList}) /\ TaskList # <<>>
  BY ProfileAssumption
<1>2. Len(TaskList) \in Nat /\ DOMAIN TaskList = 1 .. Len(TaskList)
  BY <1>1
<1>3. Len(TaskList) # 0
  BY <1>1, EmptySeq
<1> QED
  BY <1>2, <1>3, ProfileAssumption DEF Tasks

\* The fields of run that an attempt is made of.
SameAttempt ==
  /\ run'.at = run.at /\ run'.firsts = run.firsts /\ run'.seconds = run.seconds
  /\ run'.phase = run.phase /\ run'.row = run.row

SameSave == run'.save = run.save /\ run'.then = run.then

LEMMA FaultUses ==
  ASSUME NEW kind, Fault(kind), PlainOK
  PROVE  used' \in UsedType
BY Bounds DEF Fault, PlainOK, UsedType

LEMMA Failing ==
  ASSUME NEW e \in {"none", "stop", "error", "lost"}, Fail(e), PlainOK
  PROVE  /\ run' \in RunType /\ SameAttempt /\ SameSave
         /\ run'.steps = run.steps /\ run'.session = run.session /\ run'.exit = e
         /\ run.session => pc' = "release"
         /\ ~run.session => pc' = "closing"
BY DEF Fail, PlainOK, RunType, SameAttempt, SameSave

LEMMA Leaving ==
  ASSUME NEW e \in {"none", "stop", "error", "lost"}, Leave(e), PlainOK
  PROVE  /\ run' \in RunType /\ SameAttempt /\ SameSave
         /\ run'.steps = run.steps /\ run'.session = run.session /\ run'.exit = e
         /\ pc' = "release"
BY DEF Leave, PlainOK, RunType, SameAttempt, SameSave

LEMMA Saves ==
  ASSUME NEW s \in Statuses, NEW p \in PcValues, Save(s, p), PlainOK
  PROVE  /\ run' \in RunType /\ SameAttempt
         /\ run'.steps = run.steps /\ run'.session = run.session /\ run'.exit = run.exit
         /\ run'.save = s /\ run'.then = p
         /\ pc' = "read"
BY DEF Save, PlainOK, RunType, SameAttempt

LEMMA Goes ==
  ASSUME NEW p, Go(p)
  PROVE  /\ pc' = p /\ run' = run /\ SameAttempt /\ SameSave
         /\ run'.steps = run.steps /\ run'.session = run.session /\ run'.exit = run.exit
BY DEF Go, SameAttempt, SameSave

\* A new run, and the local state at a task.
LEMMA Fresh ==
  /\ NewRun \in RunType /\ NewRun.at = 1 /\ NewRun.session = FALSE
  /\ \A n \in 1 .. Len(TaskList) + 1 :
       /\ [NewRun EXCEPT !.at = n] \in RunType
       /\ [NewRun EXCEPT !.at = n].at = n
       /\ [NewRun EXCEPT !.at = n].session = FALSE
<1>1. /\ 1 \in 1 .. Len(TaskList) + 1 /\ 0 \in 0 .. MaxSteps
      /\ "first_success" \in Phases /\ "in_progress" \in Statuses /\ "turn" \in PcValues
  BY TheList, Bounds DEF Phases, Statuses, Verdicts, PcValues
<1>2. NewRun \in RunType /\ NewRun.at = 1 /\ NewRun.session = FALSE
  BY <1>1 DEF NewRun, RunType
<1>3. ASSUME NEW n \in 1 .. Len(TaskList) + 1
      PROVE  /\ [NewRun EXCEPT !.at = n] \in RunType
             /\ [NewRun EXCEPT !.at = n].at = n
             /\ [NewRun EXCEPT !.at = n].session = FALSE
  BY <1>2 DEF RunType
<1> QED
  BY <1>2, <1>3

LEMMA QuietTyped == Quiet \in [attempt : Nat, stop : BOOLEAN] /\ Quiet.attempt = 0
BY DEF Quiet

\* What a step does to the plain variables when it stays in an attempt.
LEMMA ResetControl ==
  ASSUME PlainOK, Control, Reset
  PROVE  PlainOK' /\ Control' /\ SameAttempt
<1> USE DEF Control
<1>1. CASE /\ pc' = "turn" /\ run' = [run EXCEPT !.session = TRUE]
           /\ guard' = [guard EXCEPT !.attempt = run.row] /\ NoFault
  <2>1. SameAttempt /\ SameSave /\ run' \in RunType /\ run'.steps = run.steps /\ run'.session
    BY <1>1 DEF PlainOK, RunType, SameAttempt, SameSave
  <2>2. guard' \in [attempt : Nat, stop : BOOLEAN] /\ guard'.attempt = run'.row
    BY <1>1, <2>1 DEF PlainOK, RunType, SameAttempt
  <2>3. PlainOK'
    BY <1>1, <2>1, <2>2 DEF Reset, PlainOK, NoFault, PcValues
  <2> QED
    BY <1>1, <2>1, <2>2, <2>3
       DEF Reset, Continues, Pace, Guarding, OnTask, Present, Attempting, Relabelling, Saving,
           SameAttempt
<1>2. ASSUME NEW s \in {"failure", "infrastructure_interrupted"}, NEW p \in {"return", "stop"},
             Save(s, p), s = "failure" <=> p = "return", used' \in UsedType, UNCHANGED guard
      PROVE  PlainOK' /\ Control' /\ SameAttempt
  <2>1. s \in Statuses /\ p \in PcValues
    BY DEF Statuses, Verdicts, PcValues
  <2>2. PlainOK'
    BY <1>2, <2>1, Saves DEF Reset, PlainOK, PcValues
  <2> QED
    BY <1>2, <2>1, <2>2, Saves
       DEF Reset, Continues, Pace, Guarding, OnTask, Present, Attempting, Relabelling, Saving,
           SameAttempt
<1>3. CASE /\ Fault("contract")
           /\ pc' = "closing" /\ run' = [run EXCEPT !.session = TRUE, !.exit = "lost"]
           /\ UNCHANGED guard
  <2>1. SameAttempt /\ SameSave /\ run' \in RunType /\ run'.steps = run.steps
    BY <1>3 DEF PlainOK, RunType, SameAttempt, SameSave
  <2>2. used' \in UsedType
    BY <1>3, FaultUses
  <2>3. PlainOK'
    BY <1>3, <2>1, <2>2 DEF Reset, PlainOK, PcValues
  <2> QED
    BY <1>3, <2>1, <2>3
       DEF Reset, Continues, Pace, Guarding, OnTask, Present, Attempting, Relabelling, Saving,
           SameAttempt
<1>4. NoFault => used' \in UsedType
  BY DEF NoFault, PlainOK
<1> QED
  BY <1>1, <1>2, <1>3, <1>4, FaultUses, Zenon DEF Reset

LEMMA TurnControl ==
  ASSUME PlainOK, Control, Turn
  PROVE  PlainOK' /\ Control' /\ SameAttempt
<1> USE DEF Control
<1>1. CASE guard.stop /\ Leave("stop")
  <2>1. PlainOK'
    BY <1>1, Leaving DEF Turn, PlainOK, PcValues
  <2> QED
    BY <1>1, <2>1, Leaving
       DEF Turn, Continues, Pace, Guarding, OnTask, Present, Attempting, Relabelling, Saving,
           SameAttempt
<1>2. CASE Go("call")
  <2>1. PlainOK'
    BY <1>2, Goes DEF Turn, PlainOK, PcValues
  <2> QED
    BY <1>2, <2>1, Goes
       DEF Turn, Continues, Pace, Guarding, OnTask, Present, Attempting, Relabelling, Saving,
           SameAttempt
<1> QED
  BY <1>1, <1>2 DEF Turn

LEMMA CallControl ==
  ASSUME PlainOK, Control, CallTeacher
  PROVE  PlainOK' /\ Control' /\ SameAttempt
<1> USE DEF Control
<1>1. used' \in UsedType
  BY FaultUses DEF CallTeacher, NoFault, PlainOK
<1>2. CASE Go("play")
  <2>1. PlainOK'
    BY <1>1, <1>2, Goes DEF CallTeacher, PlainOK, PcValues
  <2> QED
    BY <1>2, <2>1, Goes
       DEF CallTeacher, Continues, Pace, Guarding, OnTask, Present, Attempting, Relabelling,
           Saving, SameAttempt
<1>3. ASSUME NEW s \in Statuses, NEW p \in PcValues, Save(s, p),
             <<s, p>> \in {<<"failure", "return">>, <<"infrastructure_interrupted", "shutdown">>,
                           <<"provider_error", "raise">>}
      PROVE  PlainOK' /\ Control' /\ SameAttempt
  <2>1. PlainOK'
    BY <1>1, <1>3, Saves DEF CallTeacher, PlainOK, PcValues
  <2> QED
    BY <1>3, <2>1, Saves
       DEF CallTeacher, Continues, Pace, Guarding, OnTask, Present, Attempting, Relabelling,
           Saving, SameAttempt
<1>4. CASE Leave("error")
  <2>1. PlainOK'
    BY <1>1, <1>4, Leaving DEF CallTeacher, PlainOK, PcValues
  <2> QED
    BY <1>4, <2>1, Leaving
       DEF CallTeacher, Continues, Pace, Guarding, OnTask, Present, Attempting, Relabelling,
           Saving, SameAttempt
<1>5. /\ {"failure", "infrastructure_interrupted", "provider_error"} \subseteq Statuses
      /\ {"return", "shutdown", "raise"} \subseteq PcValues
  BY DEF Statuses, Verdicts, PcValues
<1> QED
  BY <1>2, <1>3, <1>4, <1>5 DEF CallTeacher

LEMMA PlayControl ==
  ASSUME PlainOK, Control, Play
  PROVE  PlainOK' /\ Control' /\ SameAttempt
<1> USE DEF Control
<1>1. used' \in UsedType
  BY FaultUses DEF Play, NoFault, PlainOK
<1>2. ASSUME pc' = "read",
             NEW then \in {IF run.steps + 1 < MaxSteps THEN "turn" ELSE "lost", "won", "lost"},
             run' = [run EXCEPT !.steps = @ + 1, !.save = "in_progress", !.then = then]
      PROVE  PlainOK' /\ Control' /\ SameAttempt
  <2>1. /\ then \in {"turn", "won", "lost"} /\ "in_progress" \in Statuses
        /\ then = "turn" => run.steps + 1 < MaxSteps
    BY DEF Statuses
  <2>2. run.steps + 1 \in 0 .. MaxSteps /\ then \in PcValues
    <3>1. run.steps \in 0 .. MaxSteps /\ run.steps < MaxSteps
      BY DEF Play, Pace, PlainOK, RunType
    <3> QED
      BY <2>1, <3>1, Bounds DEF PcValues
  <2>3. /\ SameAttempt /\ run' \in RunType /\ run'.steps = run.steps + 1
        /\ run'.save = "in_progress" /\ run'.then = then /\ run'.session = run.session
    BY <1>2, <2>1, <2>2 DEF PlainOK, RunType, SameAttempt
  <2>4. PlainOK'
    BY <1>1, <1>2, <2>3 DEF Play, PlainOK, PcValues
  <2> QED
    BY <1>2, <2>1, <2>3, <2>4
       DEF Play, Continues, Pace, Guarding, OnTask, Present, Attempting, Relabelling,
           Saving, SameAttempt
<1>3. ASSUME NEW s \in Statuses, NEW p \in PcValues, Save(s, p),
             <<s, p>> \in {<<"failure", "return">>, <<"infrastructure_interrupted", "stop">>}
      PROVE  PlainOK' /\ Control' /\ SameAttempt
  <2>1. PlainOK'
    BY <1>1, <1>3, Saves DEF Play, PlainOK, PcValues
  <2> QED
    BY <1>3, <2>1, Saves
       DEF Play, Continues, Pace, Guarding, OnTask, Present, Attempting, Relabelling,
           Saving, SameAttempt
<1>4. CASE Leave("error")
  <2>1. PlainOK'
    BY <1>1, <1>4, Leaving DEF Play, PlainOK, PcValues
  <2> QED
    BY <1>4, <2>1, Leaving
       DEF Play, Continues, Pace, Guarding, OnTask, Present, Attempting, Relabelling,
           Saving, SameAttempt
<1>5. /\ {"failure", "infrastructure_interrupted"} \subseteq Statuses
      /\ {"return", "stop"} \subseteq PcValues
  BY DEF Statuses, Verdicts, PcValues
<1> QED
  BY <1>2, <1>3, <1>4, <1>5 DEF Play

LEMMA TerminalControl ==
  ASSUME PlainOK, Control, Terminal
  PROVE  PlainOK' /\ Control' /\ SameAttempt
<1> USE DEF Control
<1>1. ASSUME NEW s \in Statuses, NEW p \in PcValues, Save(s, p),
             <<s, p>> \in {<<"failure", "return">>, <<"success", "trajectory">>}
      PROVE  PlainOK' /\ Control' /\ SameAttempt
  <2>1. PlainOK'
    BY <1>1, Saves DEF Terminal, PlainOK, PcValues
  <2> QED
    BY <1>1, <2>1, Saves
       DEF Terminal, Continues, Pace, Guarding, OnTask, Present, Attempting, Relabelling,
           Saving, SameAttempt
<1>2. {"failure", "success"} \subseteq Statuses /\ {"return", "trajectory"} \subseteq PcValues
  BY DEF Statuses, Verdicts, PcValues
<1> QED
  BY <1>1, <1>2 DEF Terminal

\* A step that fails on the closed ledger.
LEMMA FailControl ==
  ASSUME PlainOK, Control, pc \in PcValues \ {"down", "closing"},
         NEW e \in {"none", "stop", "error", "lost"}, e # "none", Fail(e),
         saved' \in {saved, "infrastructure_interrupted"}, UNCHANGED open,
         guard'.attempt = guard.attempt, guard' \in [attempt : Nat, stop : BOOLEAN],
         used' \in UsedType
  PROVE  PlainOK' /\ Control' /\ SameAttempt
<1>1. PlainOK'
  BY Failing DEF PlainOK, PcValues
<1>2. CASE run.session
  <2>1. pc' = "release" /\ run'.session = run.session /\ run'.row = run.row /\ run'.at = run.at
    BY <1>2, Failing DEF SameAttempt
  <2>2. Attempting
    BY <1>2 DEF Control, Guarding
  <2> QED
    BY <1>1, <1>2, <2>1, <2>2, Failing
       DEF Control, Continues, Pace, Guarding, OnTask, Present, Attempting, Relabelling, Saving
<1>3. CASE ~run.session
  <2>1. pc' = "closing" /\ run'.session = run.session
    BY <1>3, Failing
  <2>2. guard'.attempt = 0
    BY <1>3 DEF Control, Guarding
  <2> QED
    BY <1>1, <1>3, <2>1, <2>2, Failing
       DEF Control, Continues, Pace, Guarding, OnTask, Present, Attempting, Relabelling, Saving
<1> QED
  BY <1>2, <1>3

LEMMA ReadRowControl ==
  ASSUME PlainOK, Control, ReadRow
  PROVE  PlainOK' /\ Control' /\ SameAttempt
<1>1. CASE Fail("error")
  BY <1>1, FailControl DEF ReadRow, PlainOK, PcValues
<1>2. CASE Go(IF pc = "read" THEN "publish" ELSE "publish_trajectory")
  <2>1. /\ pc = "read" => pc' = "publish"
        /\ pc = "trajectory" => pc' = "publish_trajectory"
        /\ run' = run /\ SameAttempt /\ guard' = guard
    BY <1>2, Goes DEF ReadRow
  <2>2. PlainOK'
    BY <2>1 DEF ReadRow, PlainOK, PcValues
  <2> QED
    BY <2>1, <2>2
       DEF ReadRow, Control, Continues, Pace, Guarding, OnTask, Present, Attempting, Relabelling,
           Saving
<1> QED
  BY <1>1, <1>2 DEF ReadRow

LEMMA PublishControl ==
  ASSUME PlainOK, Control, Publish \/ PublishTrajectory
  PROVE  PlainOK' /\ Control' /\ run' = run
<1>1. /\ pc = "publish" => pc' = "commit"
      /\ pc = "publish_trajectory" => pc' = "commit_trajectory"
      /\ pc \in {"publish", "publish_trajectory"}
      /\ run' = run /\ guard' = guard
  BY Goes DEF Publish, PublishTrajectory
<1>2. PlainOK'
  BY <1>1 DEF Publish, PublishTrajectory, PlainOK, PcValues
<1> QED
  BY <1>1, <1>2
     DEF Control, Continues, Pace, Guarding, OnTask, Present, Attempting, Relabelling, Saving

LEMMA CommitControl ==
  ASSUME PlainOK, Control, Commit
  PROVE  /\ PlainOK' /\ Control'
         /\ open /\ run.then # "task" => run' = run
         /\ open /\ run.then = "task" =>
              run'.at = run.at + 1 /\ Relabelling /\ pc' = "task"
<1>1. CASE ~open
  BY <1>1, FailControl DEF Commit, PlainOK, PcValues
<1>2. CASE open /\ run.then # "task"
  <2>1. /\ run' = run /\ pc' = run.then /\ guard' = guard
         /\ pc = "commit" /\ run.save # "profile_unsolved"
    BY <1>2 DEF Commit, Control, Continues, Saving
  <2>2. PlainOK'
    BY <2>1 DEF Commit, PlainOK, RunType
  <2>3. run.then \in {"turn", "won", "lost", "return", "trajectory", "raise", "stop", "shutdown"}
    BY <1>2, <2>1 DEF Control, Continues, Saving
  <2> QED
    BY <1>2, <2>1, <2>2, <2>3
       DEF Control, Continues, Pace, Guarding, OnTask, Present, Attempting, Relabelling, Saving
<1>3. CASE open /\ run.then = "task"
  <2>1. /\ Relabelling /\ ~Attempting /\ pc' = "task" /\ guard' = guard
        /\ run' = [NewRun EXCEPT !.at = run.at + 1]
    BY <1>3 DEF Commit, Control, Continues, Saving, Relabelling, Attempting
  <2>2. run.at + 1 \in 1 .. Len(TaskList) + 1
    BY <2>1, TheList DEF Control, OnTask
  <2>3. run' \in RunType /\ run'.at = run.at + 1 /\ run'.session = FALSE
    BY <2>1, <2>2, Fresh
  <2>4. guard.attempt = 0
    BY <2>1 DEF Control, Guarding
  <2>5. PlainOK'
    BY <2>1, <2>3 DEF Commit, PlainOK, PcValues
  <2> QED
    BY <1>3, <2>1, <2>3, <2>4, <2>5
       DEF Control, Continues, Pace, Guarding, OnTask, Present, Attempting, Relabelling, Saving
<1> QED
  BY <1>1, <1>2, <1>3 DEF PlainOK

LEMMA CommitTrajectoryControl ==
  ASSUME PlainOK, Control, CommitTrajectory
  PROVE  PlainOK' /\ Control' /\ SameAttempt
<1>1. CASE ~open
  BY <1>1, FailControl DEF CommitTrajectory, PlainOK, PcValues
<1>2. CASE Leave("none")
  <2>1. PlainOK'
    BY <1>2, Leaving DEF CommitTrajectory, PlainOK, PcValues
  <2> QED
    BY <1>2, <2>1, Leaving
       DEF CommitTrajectory, Control, Continues, Pace, Guarding, OnTask, Present, Attempting,
           Relabelling, Saving, SameAttempt
<1> QED
  BY <1>1, <1>2 DEF CommitTrajectory

LEMMA ConcludeControl ==
  ASSUME PlainOK, Control, Conclude
  PROVE  PlainOK' /\ Control' /\ SameAttempt
<1>1. CASE pc \in {"return", "raise"}
  <2>1. Leave(IF pc = "return" THEN "none" ELSE "stop") /\ UNCHANGED <<saved, open, guard, used>>
    BY <1>1 DEF Conclude
  <2>2. PlainOK'
    BY <2>1, Leaving DEF PlainOK, PcValues
  <2> QED
    BY <1>1, <2>1, <2>2, Leaving
       DEF Control, Continues, Pace, Guarding, OnTask, Present, Attempting, Relabelling, Saving,
           SameAttempt
<1>2. CASE pc \in {"stop", "shutdown"} /\ open
  <2>1. /\ Leave("stop") /\ saved' = "infrastructure_interrupted" /\ open' \in BOOLEAN
        /\ UNCHANGED <<guard, used>>
    BY <1>2 DEF Conclude
  <2>2. PlainOK'
    BY <2>1, Leaving DEF PlainOK, PcValues
  <2> QED
    BY <1>2, <2>1, <2>2, Leaving
       DEF Control, Continues, Pace, Guarding, OnTask, Present, Attempting, Relabelling, Saving,
           SameAttempt
<1>3. CASE pc \in {"stop", "shutdown"} /\ ~open
  <2>1. Fail("error") /\ UNCHANGED <<saved, open, guard, used>>
    BY <1>3 DEF Conclude
  <2> QED
    BY <1>3, <2>1, FailControl DEF PlainOK, PcValues
<1> QED
  BY <1>1, <1>2, <1>3 DEF Conclude

LEMMA ReleaseControl ==
  ASSUME PlainOK, Control, Release
  PROVE  /\ PlainOK' /\ Control' /\ SameAttempt
         /\ pc' \in {"decide", "stopping", "closing"}
         /\ pc' = "decide" => run.exit = "none"
<1>1. /\ run.exit = "none" => pc' = "decide"
      /\ run.exit = "stop" => pc' = "stopping"
      /\ run.exit \in {"error", "lost"} => pc' = "closing"
  BY Zenon DEF Release
<1>2. /\ SameAttempt /\ SameSave /\ run' \in RunType /\ run'.steps = run.steps
      /\ run'.session = FALSE
  BY DEF Release, PlainOK, RunType, SameAttempt, SameSave
<1>3. guard' \in [attempt : Nat, stop : BOOLEAN] /\ guard'.attempt = 0
  BY DEF Release, PlainOK
<1>4. run.exit \in {"none", "stop", "error", "lost"}
  BY DEF PlainOK, RunType
<1>5. PlainOK'
  BY <1>1, <1>2, <1>3, <1>4 DEF Release, PlainOK, PcValues
<1> QED
  BY <1>1, <1>2, <1>3, <1>4, <1>5
     DEF Release, Control, Continues, Pace, Guarding, OnTask, Present, Attempting, Relabelling,
         Saving, SameAttempt

LEMMA StoppingControl ==
  ASSUME PlainOK, Control, Stopping
  PROVE  PlainOK' /\ Control' /\ pc' = "closing" /\ run' = run /\ saved' \in {saved, "stopped"}
<1>1. pc = "stopping" /\ pc' = "closing" /\ run' = run /\ guard' = guard
  BY Goes DEF Stopping
<1>2. saved' \in {saved, "stopped"}
  BY DEF Stopping
<1>3. PlainOK'
  BY <1>1, <1>2 DEF Stopping, PlainOK, PcValues
<1> QED
  BY <1>1, <1>2, <1>3
     DEF Control, Continues, Pace, Guarding, OnTask, Present, Attempting, Relabelling, Saving

\* The process is over, or begins.
LEMMA EdgeControl ==
  ASSUME PlainOK, Control, Close \/ Crash \/ Start
  PROVE  /\ PlainOK' /\ Control' /\ rows' = rows /\ saved' = saved
         /\ pc' \in {"down", "task"} /\ (pc' = "task" => run'.at = 1)
<1>1. run' \in RunType /\ run'.session = FALSE /\ (Start => run'.at = 1)
  <2>1. CASE run' = NewRun
    BY <2>1, Fresh
  <2>2. CASE Close
    BY <2>2, Fresh DEF Close, Start, PlainOK, RunType
  <2> QED
    BY <2>1, <2>2 DEF Crash, Start
<1>2. guard' \in [attempt : Nat, stop : BOOLEAN] /\ guard'.attempt = 0
  BY QuietTyped DEF Close, Crash, Start
<1>3. used' \in UsedType
  <2>1. CASE Close
    BY <2>1 DEF Close, PlainOK
  <2>2. CASE Crash
    BY <2>2, Bounds DEF Crash, PlainOK, UsedType
  <2>3. CASE Start
    <3>1. NoFault \/ (used.reruns < MaxReruns /\ used' = [used EXCEPT !.reruns = @ + 1])
      BY <2>3 DEF Start
    <3> QED
      BY <3>1, Bounds DEF NoFault, PlainOK, UsedType
  <2> QED
    BY <2>1, <2>2, <2>3
<1>4. /\ pc' \in {"down", "task"} /\ open' \in BOOLEAN /\ rows' = rows /\ saved' = saved
      /\ pc' = "task" => Start
  BY DEF Close, Crash, Start
<1>5. PlainOK'
  BY <1>1, <1>2, <1>3, <1>4 DEF PlainOK, PcValues
<1> QED
  BY <1>1, <1>2, <1>4, <1>5
     DEF Control, Continues, Pace, Guarding, OnTask, Present, Attempting, Relabelling, Saving

LEMMA SigintControl ==
  ASSUME PlainOK, Control, Sigint
  PROVE  /\ PlainOK' /\ Control' /\ SameAttempt /\ pc # "down" /\ pc' # "down"
         /\ saved' \in {saved, "infrastructure_interrupted"}
         /\ \/ open /\ ~open' /\ pc' = pc /\ run' = run
            \/ ~open /\ rows' = rows /\ ~open' /\ pc' = pc /\ run' = run
            \/ /\ ~open /\ rows' = rows /\ ~open' /\ pc \notin {"release", "closing"}
               /\ Fail("error")
<1>1. used' \in UsedType /\ pc # "down"
  BY Bounds DEF Sigint, PlainOK, UsedType
<1>2. CASE open
  <2>1. /\ guard' = [attempt |-> 0, stop |-> TRUE] /\ pc' = pc /\ run' = run /\ open' = FALSE
        /\ saved' = "infrastructure_interrupted"
    BY <1>2 DEF Sigint
  <2>2. guard' \in [attempt : Nat, stop : BOOLEAN] /\ guard'.attempt = 0
    BY <2>1
  <2>3. PlainOK'
    BY <1>1, <2>1, <2>2 DEF PlainOK
  <2> QED
    BY <1>1, <1>2, <2>1, <2>2, <2>3
       DEF Control, Continues, Pace, Guarding, OnTask, Present, Attempting, Relabelling, Saving,
           SameAttempt
<1>3. CASE ~open
  <2>1. /\ guard' = [guard EXCEPT !.stop = TRUE] /\ UNCHANGED <<rows, saved, open>>
        /\ \/ pc \in {"release", "closing"} /\ UNCHANGED <<pc, run>>
           \/ pc \notin {"release", "closing"} /\ Fail("error")
    BY <1>3 DEF Sigint
  <2>2. guard' \in [attempt : Nat, stop : BOOLEAN] /\ guard'.attempt = guard.attempt
    BY <2>1 DEF PlainOK
  <2>3. CASE UNCHANGED <<pc, run>>
    <3>1. PlainOK'
      BY <1>1, <2>1, <2>2, <2>3 DEF PlainOK
    <3> QED
      BY <1>1, <1>3, <2>1, <2>2, <2>3, <3>1
         DEF Control, Continues, Pace, Guarding, OnTask, Present, Attempting, Relabelling, Saving,
             SameAttempt
  <2>4. CASE pc \notin {"release", "closing"} /\ Fail("error")
    <3>1. pc \in PcValues \ {"down", "closing"}
      BY <1>1, <2>4 DEF PlainOK
    <3>2. PlainOK' /\ Control' /\ SameAttempt
      BY <1>1, <2>1, <2>2, <2>4, <3>1, FailControl
    <3>3. pc' # "down"
      BY <2>4, Failing
    <3> QED
      BY <1>1, <1>3, <2>1, <2>4, <3>2, <3>3
  <2> QED
    BY <2>1, <2>3, <2>4
<1> QED
  BY <1>2, <1>3

\* What is decided of a task.
Outcome(t, f, s) ==
  \/ /\ pc' = "start" /\ run'.at = run.at /\ run'.firsts = f /\ run'.seconds = s
     /\ \/ run'.phase = "first_success" /\ f < FirstMax /\ Demonstrations(t) = {}
        \/ run'.phase = "second_demo" /\ s < SecondMax /\ Demonstrations(t) # {}
  \/ /\ pc' = "unsolved" /\ run'.at = run.at /\ f >= FirstMax /\ Demonstrations(t) = {}
  \/ /\ pc' = "task" /\ run'.at = run.at + 1 /\ s >= SecondMax /\ Demonstrations(t) # {}

LEMMA Deciding ==
  ASSUME PlainOK, Control, ~Attempting, NEW f \in Nat, NEW s \in Nat, Decide(f, s),
         run.at \in DOMAIN TaskList, pc \in {"task", "decide"},
         UNCHANGED <<saved, open, guard, used>>
  PROVE  PlainOK' /\ Control' /\ \E t : t = Task /\ Outcome(t, f, s)
<1>1. PICK t : t = Task
  OBVIOUS
<1>2. success_records(Task) = Demonstrations(t)
  BY <1>1 DEF success_records, Demonstrations
<1>3. PICK solved \in BOOLEAN : solved <=> Demonstrations(t) # {}
  BY Zenon
<1>4. (success_records(Task) # {}) = solved
  BY <1>2, <1>3
<1>5. \/ /\ ~solved /\ f < FirstMax /\ pc' = "start"
         /\ run' = [run EXCEPT !.firsts = f, !.seconds = s, !.phase = "first_success"]
      \/ /\ ~solved /\ f >= FirstMax /\ pc' = "unsolved"
         /\ run' = [run EXCEPT !.firsts = f, !.seconds = s, !.phase = "first_success"]
      \/ /\ solved /\ s < SecondMax /\ pc' = "start"
         /\ run' = [run EXCEPT !.firsts = f, !.seconds = s, !.phase = "second_demo"]
      \/ /\ solved /\ ~(s < SecondMax) /\ pc' = "task"
         /\ run' = [NewRun EXCEPT !.at = run.at + 1]
  <2>1. ~(f < FirstMax) => f >= FirstMax
    BY Bounds
  <2> QED
    BY <1>4, <2>1, Zenon DEF Decide
<1>6. guard.attempt = 0 /\ run.session = FALSE
  BY DEF Control, Guarding, PlainOK, RunType
<1>7. ASSUME NEW p \in Phases, NEW q \in {"start", "unsolved"}, pc' = q,
             run' = [run EXCEPT !.firsts = f, !.seconds = s, !.phase = p]
      PROVE  /\ PlainOK' /\ Control' /\ run'.at = run.at /\ run'.firsts = f /\ run'.seconds = s
             /\ run'.phase = p
  <2>1. /\ run' \in RunType /\ run'.at = run.at /\ run'.firsts = f /\ run'.seconds = s
        /\ run'.phase = p /\ run'.session = run.session
    BY <1>7 DEF PlainOK, RunType
  <2>2. PlainOK'
    BY <1>7, <2>1 DEF PlainOK, PcValues
  <2> QED
    BY <1>6, <1>7, <2>1, <2>2
       DEF Control, Continues, Pace, Guarding, OnTask, Present, Attempting, Relabelling, Saving
<1>8. ASSUME pc' = "task", run' = [NewRun EXCEPT !.at = run.at + 1]
      PROVE  PlainOK' /\ Control' /\ run'.at = run.at + 1
  <2>1. run.at + 1 \in 1 .. Len(TaskList) + 1
    BY TheList
  <2>2. run' \in RunType /\ run'.at = run.at + 1 /\ run'.session = FALSE
    BY <1>8, <2>1, Fresh
  <2>3. PlainOK'
    BY <1>8, <2>2 DEF PlainOK, PcValues
  <2> QED
    BY <1>6, <1>8, <2>2, <2>3
       DEF Control, Continues, Pace, Guarding, OnTask, Present, Attempting, Relabelling, Saving
<1>9. {"first_success", "second_demo"} \subseteq Phases
  BY DEF Phases
<1>10. ~(s < SecondMax) => s >= SecondMax
  BY Bounds
<1> QED
  BY <1>1, <1>3, <1>5, <1>7, <1>8, <1>9, <1>10 DEF Outcome

----------------------------------------------------------------------------
(* The rows as sets of numbers.                                            *)

LEMMA RowNumbers ==
  ASSUME rows \in Seq(RowType)
  PROVE  /\ Len(rows) \in Nat /\ DOMAIN rows = 1 .. Len(rows) /\ IsFiniteSet(DOMAIN rows)
         /\ \A i \in DOMAIN rows : rows[i] \in RowType /\ i \in Nat /\ i <= Len(rows)
<1>1. Len(rows) \in Nat /\ DOMAIN rows = 1 .. Len(rows)
  OBVIOUS
<1>2. IsFiniteSet(1 .. Len(rows))
  BY <1>1, FS_Interval
<1> QED
  BY <1>1, <1>2

\* The sets that are counted are parts of the table.
LEMMA Counted ==
  ASSUME NEW t
  PROVE  /\ RowsOf(t) \subseteq DOMAIN rows /\ CountedOf(t) \subseteq RowsOf(t)
         /\ Firsts(t) \subseteq CountedOf(t) /\ Seconds(t) \subseteq CountedOf(t)
         /\ Made(t) \subseteq CountedOf(t) /\ Tried(t) \subseteq CountedOf(t)
         /\ Demonstrations(t) \subseteq RowsOf(t)
BY DEF RowsOf, CountedOf, Firsts, Seconds, Made, Tried, Ended, Demonstrations

LEMMA PartsAreFinite ==
  ASSUME rows \in Seq(RowType), NEW S, S \subseteq DOMAIN rows
  PROVE  IsFiniteSet(S) /\ Cardinality(S) \in Nat
<1>1. IsFiniteSet(S)
  BY RowNumbers, FS_Subset
<1> QED
  BY <1>1, FS_CardinalityType

LEMMA PartIsSmaller ==
  ASSUME rows \in Seq(RowType), NEW S, S \subseteq DOMAIN rows, NEW T, T \subseteq S
  PROVE  Cardinality(T) <= Cardinality(S)
BY PartsAreFinite, FS_Subset

LEMMA CountsAreNumbers ==
  ASSUME rows \in Seq(RowType), NEW t
  PROVE  /\ Cardinality(Firsts(t)) \in Nat /\ Cardinality(Seconds(t)) \in Nat
         /\ FirstAttempts(t) = Cardinality(Firsts(t))
         /\ SecondAttempts(t) = Cardinality(Seconds(t))
<1>1. Firsts(t) \subseteq DOMAIN rows /\ Seconds(t) \subseteq DOMAIN rows
  BY Counted
<1> QED
  BY <1>1, PartsAreFinite DEF FirstAttempts, SecondAttempts, Firsts, Seconds

\* One more, or one less.
LEMMA WithOne ==
  ASSUME rows \in Seq(RowType), NEW S, S \subseteq DOMAIN rows, NEW k, k \in S
  PROVE  Cardinality(S) = Cardinality(S \ {k}) + 1
<1>1. IsFiniteSet(S)
  BY PartsAreFinite
<1>2. IsFiniteSet(S \ {k}) /\ Cardinality(S \ {k}) = Cardinality(S) - 1
  BY <1>1, FS_RemoveElement
<1>3. Cardinality(S) \in Nat
  BY <1>1, FS_CardinalityType
<1> QED
  BY <1>2, <1>3

LEMMA AtMostOneMore ==
  ASSUME NEW S, IsFiniteSet(S), NEW k, NEW T, T \subseteq S \cup {k}
  PROVE  /\ Cardinality(T) \in Nat /\ Cardinality(S) \in Nat
         /\ Cardinality(T) <= Cardinality(S) + 1
<1>1. IsFiniteSet(S \cup {k}) /\ Cardinality(S) \in Nat
  BY FS_AddElement, FS_CardinalityType
<1>2. Cardinality(S \cup {k}) <= Cardinality(S) + 1
  BY <1>1, FS_AddElement
<1>3. IsFiniteSet(T) /\ Cardinality(T) <= Cardinality(S \cup {k})
  BY <1>1, FS_Subset
<1>4. Cardinality(T) \in Nat /\ Cardinality(S \cup {k}) \in Nat
  BY <1>1, <1>3, FS_CardinalityType
<1> QED
  BY <1>1, <1>2, <1>3, <1>4

\* A non-empty set of rows has a last one.
LEMMA HasLast ==
  ASSUME rows \in Seq(RowType), NEW S, S \subseteq DOMAIN rows, S # {}
  PROVE  \E i \in S : \A j \in S : j <= i
<1> DEFINE n == Len(rows)
<1> DEFINE D == {n - i : i \in S}
<1>1. n \in Nat /\ \A i \in S : i \in Nat /\ i <= n
  BY RowNumbers
<1>2. D \subseteq Nat /\ D # {}
  BY <1>1
<1>3. PICK d \in D : \A u \in D : ~ (<<u, d>> \in OpToRel(<, Nat))
  <2> HIDE DEF D, n
  <2> QED
    BY <1>2, NatLessThanWellFounded, WFMin, Zenon
<1>4. PICK i \in S : d = n - i
  BY <1>3
<1>5. ASSUME NEW j \in S PROVE j <= i
  <2>1. PICK e \in D : e = n - j
    OBVIOUS
  <2>2. e \in Nat /\ d \in Nat
    BY <1>2, <1>3, <2>1
  <2>3. ~ (<<e, d>> \in OpToRel(<, Nat))
    BY <1>3, <2>1, Zenon
  <2>4. ~ (e < d)
    <3> HIDE DEF D, n
    <3> QED
      BY <2>2, <2>3 DEF OpToRel
  <2>5. n \in Nat /\ i \in Nat /\ j \in Nat
    BY <1>1
  <2> HIDE DEF D, n
  <2> QED
    BY <1>4, <2>1, <2>4, <2>5
<1> QED
  BY <1>5

LEMMA MarkUnsolvedControl ==
  ASSUME TypeOK, Control, GivingUp, MarkUnsolved, NEW t, t = Task
  PROVE  /\ PlainOK' /\ Control' /\ rows' = rows /\ saved' = saved /\ run'.at = run.at
         /\ \/ pc' = "closing"
            \/ /\ pc' = "read" /\ run'.save = "profile_unsolved"
               /\ Last(run'.row, t) /\ Hopeless(t)
<1>1. PlainOK /\ rows \in Seq(RowType) /\ pc = "unsolved"
  BY TypeOKParts DEF MarkUnsolved
<1>2. CASE ~open
  <2>1. Fail("error") /\ UNCHANGED <<rows, saved, open, guard, used>>
    BY <1>2 DEF MarkUnsolved
  <2>2. run.session = FALSE
    BY <1>1 DEF Control, Guarding, Attempting, Saving, PlainOK, RunType
  <2>3. pc' = "closing" /\ run'.at = run.at
    BY <1>1, <2>1, <2>2, Failing DEF SameAttempt
  <2> QED
    BY <1>1, <2>1, <2>3, FailControl DEF PlainOK, PcValues
<1>3. CASE open
  <2>1. Hopeless(t)
    BY <1>1 DEF GivingUp
  <2>2. CountedOf(t) \subseteq DOMAIN rows /\ CountedOf(t) # {}
    <3>1. CountedOf(t) \subseteq DOMAIN rows /\ Firsts(t) \subseteq CountedOf(t)
      BY Counted
    <3>2. Cardinality(Firsts(t)) # 0
      BY <1>1, <2>1, Bounds, CountsAreNumbers DEF Hopeless
    <3>3. Firsts(t) # {}
      BY <3>2, FS_EmptySet
    <3> QED
      BY <3>1, <3>3
  <2>3. PICK n : n = CHOOSE i \in CountedOf(t) : \A j \in CountedOf(t) : j <= i
    OBVIOUS
  <2>4. n \in CountedOf(t) /\ \A j \in CountedOf(t) : j <= n
    BY <1>1, <2>2, <2>3, HasLast, Zenon
  <2>5. n \in Nat
    BY <1>1, <2>2, <2>4, RowNumbers
  <2>6. /\ pc' = "read" /\ UNCHANGED <<rows, saved, open, guard, used>>
        /\ run' = [run EXCEPT !.row = n, !.save = "profile_unsolved", !.then = "task"]
    BY <1>3, <2>3, Zenon DEF MarkUnsolved
  <2>7. /\ run' \in RunType /\ run'.at = run.at /\ run'.row = n /\ run'.then = "task"
        /\ run'.save = "profile_unsolved" /\ run'.session = run.session
    <3>1. "profile_unsolved" \in Statuses /\ "task" \in PcValues
      BY DEF Statuses, PcValues
    <3> QED
      BY <1>1, <2>5, <2>6, <3>1 DEF PlainOK, RunType
  <2>8. PlainOK'
    BY <1>1, <2>6, <2>7 DEF PlainOK, PcValues
  <2>9. Control'
    BY <1>1, <2>6, <2>7
       DEF Control, Continues, Pace, Guarding, OnTask, Present, Attempting, Relabelling, Saving
  <2> QED
    BY <2>1, <2>4, <2>6, <2>7, <2>8, <2>9 DEF Last
<1> QED
  BY <1>1, <1>2, <1>3 DEF PlainOK

LEMMA StartAttemptControl ==
  ASSUME TypeOK, Control, StartAttempt
  PROVE  /\ PlainOK' /\ Control' /\ saved' = saved /\ run'.at = run.at
         /\ \/ pc' = "closing" /\ rows' = rows
            \/ /\ pc' = "reset" /\ rows' = Append(rows, NewRow(Task, run.phase))
               /\ run'.row = Len(rows) + 1 /\ run'.firsts = run.firsts
               /\ run'.seconds = run.seconds /\ run'.phase = run.phase
<1>1. PlainOK /\ rows \in Seq(RowType) /\ pc = "start"
  BY TypeOKParts DEF StartAttempt
<1>2. run.session = FALSE
  BY <1>1 DEF Control, Guarding, Attempting, Saving, PlainOK, RunType
<1>3. CASE ~open
  <2>1. Fail("error") /\ UNCHANGED <<rows, saved, open, guard, used>>
    BY <1>3 DEF StartAttempt
  <2>2. pc' = "closing" /\ run'.at = run.at
    BY <1>1, <1>2, <2>1, Failing DEF SameAttempt
  <2> QED
    BY <1>1, <2>1, <2>2, FailControl DEF PlainOK, PcValues
<1>4. CASE open
  <2>1. PICK n : n = Len(rows) + 1
    OBVIOUS
  <2>2. /\ pc' = "reset" /\ UNCHANGED <<saved, open, guard, used>>
        /\ run' = [run EXCEPT !.row = n, !.steps = 0]
        /\ rows' = Append(rows, NewRow(Task, run.phase))
    BY <1>4, <2>1 DEF StartAttempt
  <2>3. n \in Nat /\ 0 \in 0 .. MaxSteps
    BY <1>1, <2>1, RowNumbers, Bounds
  <2>4. /\ run' \in RunType /\ run'.at = run.at /\ run'.row = n /\ run'.steps = 0
        /\ run'.firsts = run.firsts /\ run'.seconds = run.seconds /\ run'.phase = run.phase
        /\ run'.session = run.session
    BY <1>1, <2>2, <2>3 DEF PlainOK, RunType
  <2>5. PlainOK'
    BY <1>1, <2>2, <2>4 DEF PlainOK, PcValues
  <2>6. Control'
    BY <1>1, <1>2, <2>2, <2>4, Bounds
       DEF Control, Continues, Pace, Guarding, OnTask, Present, Attempting, Relabelling, Saving
  <2> QED
    BY <2>1, <2>2, <2>4, <2>5, <2>6
<1> QED
  BY <1>1, <1>3, <1>4 DEF PlainOK

LEMMA NextTaskControl ==
  ASSUME TypeOK, Control, NextTask
  PROVE  /\ PlainOK' /\ Control' /\ rows' = rows
         /\ \/ pc' = "closing" /\ saved' = saved /\ run'.at = run.at
            \/ /\ pc' = "closing" /\ saved' = "complete" /\ run'.at = run.at
               /\ run.at > Len(TaskList)
            \/ /\ saved' = saved /\ open' = open /\ run.at \in DOMAIN TaskList
               /\ \E t : /\ t = Task
                         /\ Outcome(t, Cardinality(Firsts(t)), Cardinality(Seconds(t)))
<1>1. PlainOK /\ rows \in Seq(RowType) /\ pc = "task"
  BY TypeOKParts DEF NextTask
<1>2. run.session = FALSE /\ ~Attempting /\ guard.attempt = 0
  BY <1>1 DEF Control, Guarding, Attempting, Saving, PlainOK, RunType
<1>3. CASE ~open
  <2>1. Fail("error") /\ UNCHANGED <<rows, saved, open, guard, used>>
    BY <1>3 DEF NextTask
  <2>2. pc' = "closing" /\ run'.at = run.at
    BY <1>1, <1>2, <2>1, Failing DEF SameAttempt
  <2> QED
    BY <1>1, <2>1, <2>2, FailControl DEF PlainOK, PcValues
<1>4. CASE open /\ run.at > Len(TaskList)
  <2>1. /\ saved' = "complete" /\ pc' = "closing" /\ run' = run
        /\ UNCHANGED <<rows, open, guard, used>>
    BY <1>4 DEF NextTask, Go
  <2>2. PlainOK'
    BY <1>1, <2>1 DEF PlainOK, PcValues
  <2>3. Control'
    BY <1>1, <1>2, <2>1
       DEF Control, Continues, Pace, Guarding, OnTask, Present, Attempting, Relabelling, Saving
  <2> QED
    BY <1>4, <2>1, <2>2, <2>3
<1>5. CASE open /\ ~(run.at > Len(TaskList))
  <2>1. PICK f, s : f = FirstAttempts(Task) /\ s = SecondAttempts(Task)
    OBVIOUS
  <2>2. Decide(f, s) /\ UNCHANGED <<rows, saved, open, guard, used>>
    BY <1>5, <2>1 DEF NextTask
  <2>3. run.at \in DOMAIN TaskList
    BY <1>1, <1>5, TheList DEF PlainOK, RunType
  <2>4. PICK t : t = Task
    OBVIOUS
  <2>5. /\ f = Cardinality(Firsts(t)) /\ s = Cardinality(Seconds(t))
        /\ f \in Nat /\ s \in Nat
    BY <1>1, <2>1, <2>4, CountsAreNumbers
  <2>6. PlainOK' /\ Control' /\ \E u : u = Task /\ Outcome(u, f, s)
    BY <1>1, <1>2, <2>2, <2>3, <2>5, Deciding
  <2>7. Outcome(t, Cardinality(Firsts(t)), Cardinality(Seconds(t)))
    BY <2>4, <2>5, <2>6
  <2> QED
    BY <2>2, <2>3, <2>4, <2>6, <2>7
<1> QED
  BY <1>1, <1>3, <1>4, <1>5 DEF PlainOK

\* The attempt that is over is counted with those before it.
LEMMA CountsGoOn ==
  ASSUME TypeOK, OnRow, Progress, Counts, open, pc = "decide", NEW t, t = Task
  PROVE  /\ Cardinality(Firsts(t)) =
              run.firsts + (IF run.phase = "first_success" THEN 1 ELSE 0)
         /\ Cardinality(Seconds(t)) =
              run.seconds + (IF run.phase = "second_demo" THEN 1 ELSE 0)
<1>1. rows \in Seq(RowType) /\ run.phase \in Phases
  BY TypeOKParts DEF PlainOK, RunType
<1>2. PICK k : k = run.row
  OBVIOUS
<1>3. k \in DOMAIN rows /\ rows[k].task = t /\ rows[k].status # "infrastructure_interrupted"
  BY <1>2 DEF OnRow, Present, Current, Progress
<1>4. Artifact(rows[k]).phase = run.phase
  BY <1>2 DEF Progress, Current
<1>5. k \in CountedOf(t)
  BY <1>3 DEF CountedOf, RowsOf
<1>6. /\ run.firsts = Cardinality(Firsts(t) \ {k})
      /\ run.seconds = Cardinality(Seconds(t) \ {k})
  BY <1>2 DEF Counts, Present
<1>7. Firsts(t) \subseteq DOMAIN rows /\ Seconds(t) \subseteq DOMAIN rows
  BY Counted
<1>8. CASE run.phase = "first_success"
  <2>1. k \in Firsts(t) /\ k \notin Seconds(t)
    BY <1>4, <1>5, <1>8 DEF Firsts, Seconds
  <2>2. Seconds(t) \ {k} = Seconds(t)
    BY <2>1
  <2>3. Cardinality(Firsts(t)) = Cardinality(Firsts(t) \ {k}) + 1
    BY <1>1, <1>7, <2>1, WithOne
  <2>4. Cardinality(Seconds(t)) \in Nat
    BY <1>1, CountsAreNumbers
  <2>5. run.seconds = Cardinality(Seconds(t))
    BY <1>6, <2>2
  <2> QED
    BY <1>6, <1>8, <2>3, <2>4, <2>5
<1>9. CASE run.phase = "second_demo"
  <2>1. k \in Seconds(t) /\ k \notin Firsts(t)
    BY <1>4, <1>5, <1>9 DEF Firsts, Seconds
  <2>2. Firsts(t) \ {k} = Firsts(t)
    BY <2>1
  <2>3. Cardinality(Seconds(t)) = Cardinality(Seconds(t) \ {k}) + 1
    BY <1>1, <1>7, <2>1, WithOne
  <2>4. Cardinality(Firsts(t)) \in Nat
    BY <1>1, CountsAreNumbers
  <2>5. run.firsts = Cardinality(Firsts(t))
    BY <1>6, <2>2
  <2> QED
    BY <1>6, <1>9, <2>3, <2>4, <2>5
<1> QED
  BY <1>1, <1>8, <1>9 DEF Phases

LEMMA NextAttemptControl ==
  ASSUME TypeOK, Control, OnRow, Progress, Counts, NextAttempt
  PROVE  /\ PlainOK' /\ Control' /\ rows' = rows /\ saved' = saved
         /\ \/ pc' = "closing" /\ run'.at = run.at
            \/ /\ open' = open /\ run.at \in DOMAIN TaskList
               /\ \E t : /\ t = Task
                         /\ Outcome(t, Cardinality(Firsts(t)), Cardinality(Seconds(t)))
<1>1. PlainOK /\ rows \in Seq(RowType) /\ pc = "decide"
  BY TypeOKParts DEF NextAttempt
<1>2. run.session = FALSE /\ ~Attempting
  BY <1>1 DEF Control, Guarding, Attempting, Saving, PlainOK, RunType
<1>3. CASE ~open
  <2>1. Fail("error") /\ UNCHANGED <<rows, saved, open, guard, used>>
    BY <1>3 DEF NextAttempt
  <2>2. pc' = "closing" /\ run'.at = run.at
    BY <1>1, <1>2, <2>1, Failing DEF SameAttempt
  <2> QED
    BY <1>1, <2>1, <2>2, FailControl DEF PlainOK, PcValues
<1>4. CASE open
  <2>1. PICK f, s : /\ f = run.firsts + (IF run.phase = "first_success" THEN 1 ELSE 0)
                    /\ s = run.seconds + (IF run.phase = "second_demo" THEN 1 ELSE 0)
    OBVIOUS
  <2>2. Decide(f, s) /\ UNCHANGED <<rows, saved, open, guard, used>>
    BY <1>4, <2>1 DEF NextAttempt
  <2>3. run.at \in DOMAIN TaskList
    BY <1>1 DEF Control, OnTask, Present
  <2>4. PICK t : t = Task
    OBVIOUS
  <2>5. /\ f = Cardinality(Firsts(t)) /\ s = Cardinality(Seconds(t))
        /\ f \in Nat /\ s \in Nat
    BY <1>1, <1>4, <2>1, <2>4, CountsGoOn, CountsAreNumbers
  <2>6. PlainOK' /\ Control' /\ \E u : u = Task /\ Outcome(u, f, s)
    BY <1>1, <1>2, <2>2, <2>3, <2>5, Deciding
  <2>7. Outcome(t, Cardinality(Firsts(t)), Cardinality(Seconds(t)))
    BY <2>4, <2>5, <2>6
  <2> QED
    BY <2>2, <2>3, <2>4, <2>6, <2>7
<1> QED
  BY <1>1, <1>3, <1>4 DEF PlainOK

----------------------------------------------------------------------------
(* What a step that changes one row leaves alone.                          *)

\* Row k is new, or is changed but for its task and what it was made for.
Touched(k) ==
  /\ rows \in Seq(RowType) /\ rows' \in Seq(RowType)
  /\ DOMAIN rows' = DOMAIN rows \cup {k}
  /\ \A j \in DOMAIN rows \ {k} : rows'[j] = rows[j]
  /\ k \in DOMAIN rows => rows'[k].task = rows[k].task /\ rows'[k].phase = rows[k].phase

LEMMA OthersStay ==
  ASSUME NEW k, Touched(k), NEW t
  PROVE  /\ RowsOf(t)' \ {k} = RowsOf(t) \ {k}
         /\ CountedOf(t)' \ {k} = CountedOf(t) \ {k}
         /\ Firsts(t)' \ {k} = Firsts(t) \ {k}
         /\ Seconds(t)' \ {k} = Seconds(t) \ {k}
         /\ Made(t)' \ {k} = Made(t) \ {k}
         /\ Tried(t)' \ {k} = Tried(t) \ {k}
         /\ Demonstrations(t)' \ {k} = Demonstrations(t) \ {k}
<1>1. \A i : i # k => /\ i \in RowsOf(t)' <=> i \in RowsOf(t)
                      /\ i \in RowsOf(t) => rows'[i] = rows[i]
  BY DEF Touched, RowsOf
<1>2. RowsOf(t)' \ {k} = RowsOf(t) \ {k}
  BY <1>1
<1>3. \A i : i # k => (i \in CountedOf(t)' <=> i \in CountedOf(t))
  BY <1>1 DEF CountedOf
<1>4. CountedOf(t)' \ {k} = CountedOf(t) \ {k}
  BY <1>3
<1>5. \A i : i # k /\ i \in CountedOf(t) => rows'[i] = rows[i]
  BY <1>1 DEF CountedOf
<1>6. Firsts(t)' \ {k} = Firsts(t) \ {k} /\ Seconds(t)' \ {k} = Seconds(t) \ {k}
  BY <1>3, <1>5 DEF Firsts, Seconds, Artifact
<1>7. Made(t)' \ {k} = Made(t) \ {k} /\ Tried(t)' \ {k} = Tried(t) \ {k}
  BY <1>3, <1>5 DEF Made, Tried, Ended
<1>8. Demonstrations(t)' \ {k} = Demonstrations(t) \ {k}
  BY <1>1 DEF Demonstrations
<1> QED
  BY <1>2, <1>4, <1>6, <1>7, <1>8

\* The other tasks are as they were.
LEMMA OtherTasksStay ==
  ASSUME NEW k, Touched(k), NEW t, rows'[k].task # t
  PROVE  /\ RowsOf(t)' = RowsOf(t) /\ CountedOf(t)' = CountedOf(t)
         /\ Firsts(t)' = Firsts(t) /\ Seconds(t)' = Seconds(t)
         /\ Made(t)' = Made(t) /\ Tried(t)' = Tried(t)
         /\ Demonstrations(t)' = Demonstrations(t)
         /\ \A i \in RowsOf(t) : rows'[i] = rows[i]
<1>1. k \notin RowsOf(t) /\ k \notin RowsOf(t)'
  BY DEF Touched, RowsOf
<1>2. /\ CountedOf(t) \subseteq RowsOf(t) /\ Firsts(t) \subseteq RowsOf(t)
      /\ Seconds(t) \subseteq RowsOf(t) /\ Made(t) \subseteq RowsOf(t)
      /\ Tried(t) \subseteq RowsOf(t) /\ Demonstrations(t) \subseteq RowsOf(t)
  BY Counted
<1>3. /\ CountedOf(t)' \subseteq RowsOf(t)' /\ Firsts(t)' \subseteq RowsOf(t)'
      /\ Seconds(t)' \subseteq RowsOf(t)' /\ Made(t)' \subseteq RowsOf(t)'
      /\ Tried(t)' \subseteq RowsOf(t)' /\ Demonstrations(t)' \subseteq RowsOf(t)'
  BY DEF RowsOf, CountedOf, Firsts, Seconds, Made, Tried, Ended, Demonstrations
<1>4. RowsOf(t)' = RowsOf(t) /\ CountedOf(t)' = CountedOf(t)
  BY <1>1, <1>2, <1>3, OthersStay
<1>5. Firsts(t)' = Firsts(t) /\ Seconds(t)' = Seconds(t)
  BY <1>1, <1>2, <1>3, OthersStay
<1>6. Made(t)' = Made(t) /\ Tried(t)' = Tried(t)
  BY <1>1, <1>2, <1>3, OthersStay
<1>7. Demonstrations(t)' = Demonstrations(t)
  BY <1>1, <1>2, <1>3, OthersStay
<1>8. \A i \in RowsOf(t) : rows'[i] = rows[i]
  BY <1>1 DEF RowsOf, Touched
<1> QED
  BY <1>4, <1>5, <1>6, <1>7, <1>8

LEMMA SettledElsewhere ==
  ASSUME NEW k, Touched(k), NEW t, rows'[k].task # t, Settled(t)
  PROVE  Settled(t)'
<1>1. /\ CountedOf(t)' = CountedOf(t) /\ Firsts(t)' = Firsts(t) /\ Seconds(t)' = Seconds(t)
      /\ Demonstrations(t)' = Demonstrations(t)
  BY OtherTasksStay
<1>2. \A i \in CountedOf(t) : rows'[i] = rows[i]
  BY OtherTasksStay, Counted
<1>3. Hopeless(t) => Hopeless(t)'
  BY <1>1 DEF Hopeless
<1>4. \A i : Last(i, t) => Last(i, t)'
  BY <1>1 DEF Last
<1>5. CASE Demonstrations(t) # {} /\ Cardinality(Seconds(t)) >= SecondMax
  BY <1>1, <1>5 DEF Settled
<1>6. CASE /\ Hopeless(t)
           /\ \E i \in CountedOf(t) : Last(i, t) /\ rows[i].status = "profile_unsolved"
  <2>1. PICK i \in CountedOf(t) : Last(i, t) /\ rows[i].status = "profile_unsolved"
    BY <1>6
  <2>2. rows'[i].status = "profile_unsolved" /\ i \in CountedOf(t)' /\ Last(i, t)'
    BY <1>1, <1>2, <1>4, <2>1
  <2> QED
    BY <1>3, <1>6, <2>2 DEF Settled
<1> QED
  BY <1>5, <1>6 DEF Settled

\* Nothing counts anew in an untouched table.
LEMMA SameTable ==
  ASSUME rows' = rows, NEW t
  PROVE  /\ RowsOf(t)' = RowsOf(t) /\ CountedOf(t)' = CountedOf(t)
         /\ Firsts(t)' = Firsts(t) /\ Seconds(t)' = Seconds(t)
         /\ Made(t)' = Made(t) /\ Tried(t)' = Tried(t)
         /\ Demonstrations(t)' = Demonstrations(t)
         /\ Hopeless(t)' = Hopeless(t) /\ Settled(t)' = Settled(t)
         /\ \A i : Last(i, t)' = Last(i, t)
BY DEF RowsOf, CountedOf, Firsts, Seconds, Made, Tried, Ended, Demonstrations, Artifact,
       Hopeless, Settled, Last

LEMMA SameLedger ==
  ASSUME rows' = rows, Ledger
  PROVE  Ledger'
BY DEF Ledger, RowsOK, RowOK, SecondDemoFollowsSuccess, Budgets, WithinBudget, RowsOf, CountedOf,
       Made, Tried, Ended, Demonstrations, Artifact

\* The invariants of the ledger, where one row changes.
LEMMA RowsStayOK ==
  ASSUME NEW k, Touched(k), RowsOK, RowOK(rows'[k])
  PROVE  RowsOK'
<1>1. ASSUME NEW i \in DOMAIN rows' PROVE RowOK(rows'[i])
  <2>1. i = k \/ (i \in DOMAIN rows /\ rows'[i] = rows[i])
    BY DEF Touched
  <2> QED
    BY <2>1, Zenon DEF RowsOK
<1> QED
  BY <1>1 DEF RowsOK, RowOK, Artifact

\* The row that changes is the last one.
LEMMA DemosStayBefore ==
  ASSUME NEW k, Touched(k), SecondDemoFollowsSuccess,
         \A j \in DOMAIN rows : j <= k,
         k \notin DOMAIN rows /\ rows'[k].phase = "second_demo" =>
           Demonstrations(rows'[k].task) # {}
  PROVE  SecondDemoFollowsSuccess'
<1> SUFFICES ASSUME NEW i \in DOMAIN rows', rows'[i].phase = "second_demo",
                    NEW t, t = rows'[i].task
             PROVE  \E j \in Demonstrations(t)' : j < i
  BY DEF SecondDemoFollowsSuccess, Demonstrations, RowsOf
<1>1. t = rows'[i].task
  OBVIOUS
<1>2. \E j \in Demonstrations(t) : j < i /\ j # k
  <2>1. CASE i \in DOMAIN rows
    <3>1. rows[i].phase = "second_demo" /\ rows[i].task = t
      BY <1>1, <2>1 DEF Touched
    <3>2. PICK j \in Demonstrations(t) : j < i
      BY <2>1, <3>1 DEF SecondDemoFollowsSuccess
    <3>3. i <= k /\ j <= k /\ j \in DOMAIN rows /\ i \in Nat /\ j \in Nat
      BY <2>1, <3>2, Counted, RowNumbers DEF Touched
    <3>4. j # k \/ k \notin Nat
      BY <3>2, <3>3
    <3>5. k \in Nat
      <4>1. k \in DOMAIN rows' /\ rows' \in Seq(RowType)
        BY DEF Touched
      <4> QED
        BY <4>1
    <3> QED
      BY <3>2, <3>4, <3>5
  <2>2. CASE i \notin DOMAIN rows
    <3>1. i = k /\ Demonstrations(t) # {}
      BY <1>1, <2>2 DEF Touched
    <3>2. PICK j \in Demonstrations(t) : TRUE
      BY <3>1
    <3>3. j \in DOMAIN rows /\ j <= k /\ j # k
      BY <2>2, <3>1, <3>2, Counted
    <3>4. j \in Nat /\ k \in Nat
      <4>1. rows \in Seq(RowType) /\ k \in DOMAIN rows' /\ rows' \in Seq(RowType)
        BY DEF Touched
      <4> QED
        BY <3>3, <4>1
    <3> QED
      BY <3>1, <3>2, <3>3, <3>4
  <2> QED
    BY <2>1, <2>2
<1>3. PICK j \in Demonstrations(t) : j < i /\ j # k
  BY <1>2
<1>4. j \in Demonstrations(t)'
  <2>1. Demonstrations(t)' \ {k} = Demonstrations(t) \ {k}
    BY OthersStay
  <2> QED
    BY <1>3, <2>1
<1> QED
  BY <1>3, <1>4

\* Both phases keep to their limits where a row of one of them is touched.
LEMMA BudgetsElsewhere ==
  ASSUME NEW k, Touched(k), Budgets, NEW t, rows'[k].task = t, WithinBudget(t)'
  PROVE  Budgets'
<1>1. ASSUME NEW u \in Tasks PROVE WithinBudget(u)'
  <2>1. CASE u = t
    BY <2>1
  <2>2. CASE u # t
    <3>1. Made(u)' = Made(u) /\ Tried(u)' = Tried(u)
      BY <2>2, OtherTasksStay
    <3> QED
      BY <3>1 DEF Budgets, WithinBudget
  <2> QED
    BY <2>1, <2>2
<1> QED
  BY <1>1 DEF Budgets

LEMMA MadeAreFirsts ==
  ASSUME rows \in Seq(RowType), RowsOK, NEW t
  PROVE  Made(t) \subseteq Firsts(t) /\ Tried(t) \subseteq Seconds(t)
<1>1. ASSUME NEW i \in Made(t) PROVE i \in Firsts(t)
  <2>1. i \in DOMAIN rows /\ rows[i].phase = "first_success" /\ i \in CountedOf(t)
    BY Counted DEF Made
  <2>2. RowOK(rows[i])
    BY <2>1 DEF RowsOK
  <2>3. Artifact(rows[i]).phase \in {"none", "first_success"}
    BY <2>1, <2>2 DEF RowOK, Artifact
  <2> QED
    BY <2>1, <2>3 DEF Firsts
<1>2. ASSUME NEW i \in Tried(t) PROVE i \in Seconds(t)
  <2>1. /\ i \in DOMAIN rows /\ rows[i].phase = "second_demo" /\ i \in CountedOf(t)
        /\ rows[i].status \notin {"in_progress", "infrastructure_interrupted"}
    BY Counted DEF Tried, Ended, CountedOf
  <2>2. RowOK(rows[i]) /\ rows[i].status \in Statuses
    BY <2>1, RowNumbers DEF RowsOK, RowType
  <2>3. rows[i].status \in {"failure", "success", "provider_error"}
    BY <2>1, <2>2 DEF RowOK, Statuses, Verdicts
  <2>4. Artifact(rows[i]).phase = "second_demo"
    BY <2>1, <2>2, <2>3 DEF RowOK
  <2> QED
    BY <2>1, <2>4 DEF Seconds
<1> QED
  BY <1>1, <1>2

\* The attempt under way has room.
LEMMA BudgetHasRoom ==
  ASSUME NEW k, Touched(k), RowsOK, NEW t, rows'[k].task = t, t \in Tasks, Budgets,
         rows'[k].phase \in Phases,
         rows'[k].phase = "first_success" => Cardinality(Firsts(t) \ {k}) < FirstMax,
         rows'[k].phase = "second_demo" => Cardinality(Seconds(t) \ {k}) < SecondMax
  PROVE  Budgets'
<1>1. rows \in Seq(RowType)
  BY DEF Touched
<1>2. Made(t)' \ {k} = Made(t) \ {k} /\ Tried(t)' \ {k} = Tried(t) \ {k}
  BY OthersStay
<1>3. Made(t) \subseteq Firsts(t) /\ Tried(t) \subseteq Seconds(t)
  BY <1>1, MadeAreFirsts
<1>4. /\ Firsts(t) \subseteq DOMAIN rows /\ Seconds(t) \subseteq DOMAIN rows
      /\ Made(t) \subseteq DOMAIN rows /\ Tried(t) \subseteq DOMAIN rows
  BY Counted
<1>5. Cardinality(Made(t)) <= FirstMax /\ Cardinality(Tried(t)) <= SecondMax
  BY DEF Budgets, WithinBudget
<1>6. /\ IsFiniteSet(Firsts(t) \ {k}) /\ IsFiniteSet(Seconds(t) \ {k})
      /\ IsFiniteSet(Made(t)) /\ IsFiniteSet(Tried(t))
      /\ Cardinality(Made(t)) \in Nat /\ Cardinality(Tried(t)) \in Nat
  BY <1>1, <1>4, PartsAreFinite
<1>7. CASE rows'[k].phase = "first_success"
  <2>1. Made(t)' \subseteq (Firsts(t) \ {k}) \cup {k}
    BY <1>2, <1>3
  <2>2. k \notin Tried(t)'
    BY <1>7 DEF Tried, Ended
  <2>3. Tried(t)' \subseteq Tried(t)
    BY <1>2, <2>2
  <2>4. Cardinality(Made(t)') <= FirstMax
    <3>1. PICK S, T : S = Firsts(t) \ {k} /\ T = Made(t)'
      OBVIOUS
    <3>2. /\ Cardinality(T) \in Nat /\ Cardinality(S) \in Nat
          /\ Cardinality(T) <= Cardinality(S) + 1
      BY <1>6, <2>1, <3>1, AtMostOneMore
    <3>3. Cardinality(S) < FirstMax
      BY <1>7, <3>1
    <3> QED
      BY <3>1, <3>2, <3>3, Bounds
  <2>5. Cardinality(Tried(t)') \in Nat /\ Cardinality(Tried(t)') <= Cardinality(Tried(t))
    BY <1>6, <2>3, FS_Subset, FS_CardinalityType
  <2>6. WithinBudget(t)'
    BY <1>5, <1>6, <2>4, <2>5, Bounds DEF WithinBudget
  <2> QED
    BY <2>6, BudgetsElsewhere
<1>8. CASE rows'[k].phase = "second_demo"
  <2>1. Tried(t)' \subseteq (Seconds(t) \ {k}) \cup {k}
    BY <1>2, <1>3
  <2>2. k \notin Made(t)'
    BY <1>8 DEF Made
  <2>3. Made(t)' \subseteq Made(t)
    BY <1>2, <2>2
  <2>4. Cardinality(Tried(t)') <= SecondMax
    <3>1. PICK S, T : S = Seconds(t) \ {k} /\ T = Tried(t)'
      OBVIOUS
    <3>2. /\ Cardinality(T) \in Nat /\ Cardinality(S) \in Nat
          /\ Cardinality(T) <= Cardinality(S) + 1
      BY <1>6, <2>1, <3>1, AtMostOneMore
    <3>3. Cardinality(S) < SecondMax
      BY <1>8, <3>1
    <3> QED
      BY <3>1, <3>2, <3>3, Bounds
  <2>5. Cardinality(Made(t)') \in Nat /\ Cardinality(Made(t)') <= Cardinality(Made(t))
    BY <1>6, <2>3, FS_Subset, FS_CardinalityType
  <2>6. WithinBudget(t)'
    BY <1>5, <1>6, <2>4, <2>5, Bounds DEF WithinBudget
  <2> QED
    BY <2>6, BudgetsElsewhere
<1> QED
  BY <1>7, <1>8 DEF Phases

\* A row that is relabelled was counted before.
LEMMA BudgetUnused ==
  ASSUME NEW k, Touched(k), NEW t, rows'[k].task = t, t \in Tasks, Budgets,
         k \in CountedOf(t), rows'[k].phase = "first_success"
  PROVE  Budgets'
<1>1. Made(t)' \ {k} = Made(t) \ {k} /\ Tried(t)' \ {k} = Tried(t) \ {k}
  BY OthersStay
<1>2. k \in Made(t) /\ k \notin Tried(t)'
  BY Counted DEF Made, Tried, Ended, Touched
<1>3. Made(t)' \subseteq Made(t) /\ Tried(t)' \subseteq Tried(t)
  BY <1>1, <1>2
<1>4. Made(t) \subseteq DOMAIN rows /\ Tried(t) \subseteq DOMAIN rows /\ rows \in Seq(RowType)
  BY Counted DEF Touched
<1>5. /\ IsFiniteSet(Made(t)) /\ Cardinality(Made(t)) \in Nat
      /\ IsFiniteSet(Tried(t)) /\ Cardinality(Tried(t)) \in Nat
  BY <1>4, PartsAreFinite
<1>6. /\ Cardinality(Made(t)') \in Nat /\ Cardinality(Made(t)') <= Cardinality(Made(t))
      /\ Cardinality(Tried(t)') \in Nat /\ Cardinality(Tried(t)') <= Cardinality(Tried(t))
  BY <1>3, <1>5, FS_Subset, FS_CardinalityType
<1>7. Cardinality(Made(t)) <= FirstMax /\ Cardinality(Tried(t)) <= SecondMax
  BY DEF Budgets, WithinBudget
<1>8. WithinBudget(t)'
  BY <1>5, <1>6, <1>7, Bounds DEF WithinBudget
<1> QED
  BY <1>8, BudgetsElsewhere

----------------------------------------------------------------------------
(* What the steps make of a row.                                           *)

LEMMA ChangeRow ==
  ASSUME rows \in Seq(RowType), NEW k \in DOMAIN rows, NEW r \in RowType,
         rows' = [rows EXCEPT ![k] = r], r.task = rows[k].task, r.phase = rows[k].phase
  PROVE  /\ Touched(k) /\ rows'[k] = r /\ rows' \in Seq(RowType)
         /\ DOMAIN rows' = DOMAIN rows /\ Len(rows') = Len(rows)
<1>1. rows' \in Seq(RowType) /\ Len(rows') = Len(rows) /\ DOMAIN rows' = DOMAIN rows
  BY ExceptSeq
<1>2. rows'[k] = r /\ \A j \in DOMAIN rows \ {k} : rows'[j] = rows[j]
  BY <1>1
<1> QED
  BY <1>1, <1>2 DEF Touched

LEMMA AddRow ==
  ASSUME rows \in Seq(RowType), NEW r \in RowType, rows' = Append(rows, r),
         NEW k, k = Len(rows) + 1
  PROVE  /\ Touched(k) /\ rows'[k] = r /\ rows' \in Seq(RowType)
         /\ k \notin DOMAIN rows /\ k \in DOMAIN rows' /\ Len(rows') = k
         /\ \A j \in DOMAIN rows : j <= k
<1>1. /\ rows' \in Seq(RowType) /\ Len(rows') = k /\ rows'[k] = r
      /\ \A j \in 1 .. Len(rows) : rows'[j] = rows[j]
  BY AppendProperties
<1>2. k \in Nat \ {0} /\ DOMAIN rows = 1 .. Len(rows) /\ DOMAIN rows' = 1 .. k
  BY <1>1, RowNumbers
<1> QED
  BY <1>1, <1>2, RowNumbers DEF Touched

LEMMA FileTyped ==
  ASSUME NEW s \in Statuses, NEW p \in Phases \cup {"none"}
  PROVE  /\ File(s, p) \in Files({}) /\ File(s, p) \in Files({"absent"})
         /\ File(s, p).status = s /\ File(s, p).phase = p
BY DEF File, Files

\* The file a row points to, and the row after it is replaced.
LEMMA Replacing ==
  ASSUME NEW row \in RowType, NEW f \in Files({})
  PROVE  LET r == replaced(row, f)
         IN  /\ r \in RowType /\ Artifact(r) = f
             /\ r.task = row.task /\ r.status = row.status /\ r.path = row.path
             /\ r.phase = row.phase /\ r.genuine = row.genuine
             /\ row.path = "attempt" => r.attempt = f /\ r.trajectory = row.trajectory
             /\ row.path = "trajectory" => r.trajectory = f /\ r.attempt = row.attempt
<1>1. f \in Files({"absent"})
  BY DEF Files
<1>2. CASE row.path = "attempt"
  <2>1. replaced(row, f) = [row EXCEPT !.attempt = f]
    BY <1>2 DEF replaced
  <2> QED
    BY <1>2, <2>1 DEF RowType, Artifact
<1>3. CASE row.path = "trajectory"
  <2>1. replaced(row, f) = [row EXCEPT !.trajectory = f]
    BY <1>3 DEF replaced
  <2> QED
    BY <1>1, <1>3, <2>1 DEF RowType, Artifact
<1> QED
  BY <1>2, <1>3 DEF RowType

LEMMA ArtifactTyped ==
  ASSUME NEW row \in RowType
  PROVE  Artifact(row).phase \in Phases \cup {"none"} /\ row.path \in {"attempt", "trajectory"}
BY DEF RowType, Artifact, Files

LEMMA NewRowTyped ==
  ASSUME NEW t \in Tasks, NEW p \in Phases
  PROVE  /\ NewRow(t, p) \in RowType /\ RowOK(NewRow(t, p))
         /\ NewRow(t, p).task = t /\ NewRow(t, p).phase = p
         /\ NewRow(t, p).status = "in_progress" /\ NewRow(t, p).path = "attempt"
<1>1. /\ "in_progress" \in Statuses
      /\ File("in_progress", "none") \in Files({})
      /\ File("absent", "none") \in Files({"absent"})
  BY DEF Statuses, File, Files
<1>2. /\ NewRow(t, p).attempt = File("in_progress", "none")
      /\ NewRow(t, p).trajectory = File("absent", "none")
      /\ NewRow(t, p).task = t /\ NewRow(t, p).phase = p
      /\ NewRow(t, p).status = "in_progress" /\ NewRow(t, p).path = "attempt"
  BY DEF NewRow
<1>3. NewRow(t, p) \in RowType
  BY <1>1 DEF NewRow, RowType
<1>4. File("in_progress", "none").phase = "none" /\ File("absent", "none").phase = "none"
  BY DEF File
<1>5. RowOK(NewRow(t, p))
  BY <1>2, <1>4 DEF RowOK
<1> QED
  BY <1>2, <1>3, <1>5

LEMMA PublishRow ==
  ASSUME rows \in Seq(RowType), NEW k \in DOMAIN rows, NEW f \in Files({}),
         rows' = [rows EXCEPT ![k] = replaced(rows[k], f)]
  PROVE  /\ Touched(k) /\ rows' \in Seq(RowType)
         /\ DOMAIN rows' = DOMAIN rows /\ Len(rows') = Len(rows)
         /\ rows'[k].task = rows[k].task /\ rows'[k].phase = rows[k].phase
         /\ rows'[k].status = rows[k].status /\ rows'[k].path = rows[k].path
         /\ Artifact(rows'[k]) = f
         /\ rows[k].path = "attempt" =>
              rows'[k].attempt = f /\ rows'[k].trajectory = rows[k].trajectory
         /\ rows[k].path = "trajectory" =>
              rows'[k].trajectory = f /\ rows'[k].attempt = rows[k].attempt
<1>1. rows[k] \in RowType
  BY RowNumbers
<1>2. PICK r : r = replaced(rows[k], f)
  OBVIOUS
<1>3. /\ r \in RowType /\ Artifact(r) = f
      /\ r.task = rows[k].task /\ r.status = rows[k].status /\ r.path = rows[k].path
      /\ r.phase = rows[k].phase
      /\ rows[k].path = "attempt" => r.attempt = f /\ r.trajectory = rows[k].trajectory
      /\ rows[k].path = "trajectory" => r.trajectory = f /\ r.attempt = rows[k].attempt
  BY <1>1, <1>2, Replacing
<1>4. rows' = [rows EXCEPT ![k] = r]
  BY <1>2
<1>5. /\ Touched(k) /\ rows'[k] = r /\ rows' \in Seq(RowType)
      /\ DOMAIN rows' = DOMAIN rows /\ Len(rows') = Len(rows)
  BY <1>3, <1>4, ChangeRow
<1> QED
  BY <1>3, <1>5

----------------------------------------------------------------------------
(* The ledger is kept.                                                     *)

\* The row of the attempt under way.
LEMMA TheRow ==
  ASSUME TypeOK, OnRow, Control, Present, NEW k, k = run.row, NEW t, t = Task
  PROVE  /\ rows \in Seq(RowType) /\ k \in DOMAIN rows /\ k = Len(rows)
         /\ rows[k] \in RowType /\ rows[k].task = t /\ rows[k].phase = run.phase
         /\ t \in Tasks /\ run.phase \in Phases /\ \A j \in DOMAIN rows : j <= k
<1>1. rows \in Seq(RowType) /\ run.phase \in Phases
  BY TypeOKParts DEF PlainOK, RunType
<1>2. k \in DOMAIN rows /\ k = Len(rows) /\ rows[k].task = t /\ rows[k].phase = run.phase
  BY DEF OnRow, Current
<1>3. run.at \in DOMAIN TaskList
  BY DEF Control, OnTask
<1>4. t \in Tasks
  BY <1>3, TheList DEF Task
<1> QED
  BY <1>1, <1>2, <1>4, RowNumbers

LEMMA AttemptLedger ==
  ASSUME TypeOK, Ledger, OnRow, Control, Counts, Present, NEW k, k = run.row,
         Touched(k), RowOK(rows'[k])
  PROVE  Ledger'
<1>1. PICK t : t = Task
  OBVIOUS
<1>2. /\ rows \in Seq(RowType) /\ k \in DOMAIN rows
      /\ rows[k].task = t /\ rows[k].phase = run.phase
      /\ t \in Tasks /\ run.phase \in Phases /\ \A j \in DOMAIN rows : j <= k
  BY <1>1, TheRow
<1>3. rows'[k].task = t /\ rows'[k].phase = run.phase
  BY <1>2 DEF Touched
<1>4. RowsOK'
  BY RowsStayOK DEF Ledger
<1>5. SecondDemoFollowsSuccess'
  BY <1>2, DemosStayBefore DEF Ledger
<1>6. /\ run.firsts = Cardinality(Firsts(t) \ {k}) /\ run.seconds = Cardinality(Seconds(t) \ {k})
      /\ Room
  BY <1>1 DEF Counts
<1>7. Budgets'
  BY <1>2, <1>3, <1>6, BudgetHasRoom DEF Ledger, Room
<1> QED
  BY <1>4, <1>5, <1>7 DEF Ledger

\* The row of a task that is given up.
LEMMA TheLastRow ==
  ASSUME TypeOK, Ledger, GivingUp, Control, Relabelling, NEW k, k = run.row, NEW t, t = Task
  PROVE  /\ rows \in Seq(RowType) /\ k \in DOMAIN rows /\ rows[k] \in RowType
         /\ rows[k].task = t /\ t \in Tasks /\ k \in CountedOf(t) /\ Last(k, t) /\ Hopeless(t)
         /\ rows[k].phase = "first_success"
         /\ \A i \in DOMAIN rows : rows[i].phase = "second_demo" => rows[i].task # t
<1>1. rows \in Seq(RowType)
  BY TypeOKParts
<1>2. Hopeless(t) /\ Last(k, t)
  BY DEF GivingUp
<1>3. k \in CountedOf(t) /\ k \in DOMAIN rows /\ rows[k].task = t
  BY <1>2, Counted DEF Last, CountedOf, RowsOf
<1>4. run.at \in DOMAIN TaskList
  BY DEF Control, OnTask
<1>5. t \in Tasks
  BY <1>4, TheList DEF Task
<1>6. ASSUME NEW i \in DOMAIN rows, rows[i].phase = "second_demo", rows[i].task = t
      PROVE  FALSE
  <2>1. \E j \in Demonstrations(t) : j < i
    BY <1>6 DEF Ledger, SecondDemoFollowsSuccess
  <2> QED
    BY <1>2, <2>1 DEF Hopeless
<1>7. rows[k] \in RowType
  BY <1>1, <1>3, RowNumbers
<1>8. rows[k].phase = "first_success"
  BY <1>3, <1>6, <1>7 DEF RowType, Phases
<1> QED
  BY <1>1, <1>2, <1>3, <1>5, <1>6, <1>7, <1>8

LEMMA RelabelLedger ==
  ASSUME TypeOK, Ledger, GivingUp, Control, Relabelling, NEW k, k = run.row,
         Touched(k), RowOK(rows'[k])
  PROVE  Ledger'
<1>1. PICK t : t = Task
  OBVIOUS
<1>2. /\ rows \in Seq(RowType) /\ k \in DOMAIN rows
      /\ rows[k].task = t /\ t \in Tasks /\ k \in CountedOf(t)
      /\ rows[k].phase = "first_success"
      /\ \A i \in DOMAIN rows : rows[i].phase = "second_demo" => rows[i].task # t
  BY <1>1, TheLastRow
<1>3. rows'[k].task = t /\ rows'[k].phase = "first_success"
  BY <1>2 DEF Touched
<1>4. RowsOK'
  BY RowsStayOK DEF Ledger
<1>5. SecondDemoFollowsSuccess'
  <2> SUFFICES ASSUME NEW i \in DOMAIN rows', rows'[i].phase = "second_demo",
                      NEW u, u = rows'[i].task
               PROVE  \E j \in Demonstrations(u)' : j < i
    BY DEF SecondDemoFollowsSuccess, Demonstrations, RowsOf
  <2>1. i # k /\ i \in DOMAIN rows /\ rows'[i] = rows[i]
    BY <1>3 DEF Touched
  <2>2. u # t /\ rows[i].task = u /\ rows[i].phase = "second_demo"
    BY <1>2, <2>1
  <2>3. \E j \in Demonstrations(u) : j < i
    BY <2>1, <2>2 DEF Ledger, SecondDemoFollowsSuccess
  <2>4. Demonstrations(u)' = Demonstrations(u)
    BY <1>3, <2>2, OtherTasksStay
  <2> QED
    BY <2>3, <2>4
<1>6. Budgets'
  BY <1>2, <1>3, BudgetUnused DEF Ledger
<1> QED
  BY <1>4, <1>5, <1>6 DEF Ledger

LEMMA StartLedger ==
  ASSUME TypeOK, Ledger, Control, Counts, pc = "start",
         rows' = Append(rows, NewRow(Task, run.phase)), NEW k, k = Len(rows) + 1, NEW t, t = Task
  PROVE  /\ Ledger' /\ Touched(k) /\ rows' \in Seq(RowType) /\ t \in Tasks
         /\ k \notin DOMAIN rows /\ k \in DOMAIN rows' /\ Len(rows') = k
         /\ rows'[k].task = t /\ rows'[k].phase = run.phase
         /\ rows'[k].status = "in_progress" /\ rows'[k].path = "attempt"
<1>1. rows \in Seq(RowType) /\ run.phase \in Phases
  BY TypeOKParts DEF PlainOK, RunType
<1>2. run.at \in DOMAIN TaskList
  BY DEF Control, OnTask
<1>3. t \in Tasks
  BY <1>2, TheList DEF Task
<1>4. PICK r : r = NewRow(t, run.phase)
  OBVIOUS
<1>5. /\ r \in RowType /\ RowOK(r) /\ r.task = t /\ r.phase = run.phase
      /\ r.status = "in_progress" /\ r.path = "attempt"
  BY <1>1, <1>3, <1>4, NewRowTyped
<1>6. rows' = Append(rows, r)
  BY <1>4
<1>7. /\ Touched(k) /\ rows'[k] = r /\ rows' \in Seq(RowType)
      /\ k \notin DOMAIN rows /\ k \in DOMAIN rows' /\ Len(rows') = k
      /\ \A j \in DOMAIN rows : j <= k
  BY <1>1, <1>5, <1>6, AddRow
<1>8. RowsOK'
  BY <1>5, <1>7, RowsStayOK DEF Ledger
<1>9. /\ run.firsts = Cardinality(Firsts(t)) /\ run.seconds = Cardinality(Seconds(t)) /\ Room
      /\ run.phase = "second_demo" => Demonstrations(t) # {}
  BY DEF Counts
<1>10. SecondDemoFollowsSuccess'
  BY <1>5, <1>7, <1>9, DemosStayBefore DEF Ledger
<1>11. Firsts(t) \ {k} = Firsts(t) /\ Seconds(t) \ {k} = Seconds(t)
  BY <1>7, Counted
<1>12. Budgets'
  <2>1. run.phase = "first_success" => Cardinality(Firsts(t) \ {k}) < FirstMax
    BY <1>9, <1>11 DEF Room
  <2>2. run.phase = "second_demo" => Cardinality(Seconds(t) \ {k}) < SecondMax
    BY <1>9, <1>11 DEF Room
  <2> QED
    BY <1>1, <1>3, <1>5, <1>7, <2>1, <2>2, BudgetHasRoom DEF Ledger
<1> QED
  BY <1>3, <1>5, <1>7, <1>8, <1>10, <1>12 DEF Ledger

----------------------------------------------------------------------------
(* The steps that leave the rows alone.                                    *)

\* Where an attempt stands, seen from its row, stays or goes back.
Smooth ==
  /\ Working' => Working
  /\ ~(Attempting' /\ pc' = "commit")
  /\ pc' \in {"trajectory", "publish_trajectory"} => pc \in {"trajectory", "publish_trajectory"}
  /\ pc' # "commit_trajectory"
  /\ open' /\ (pc' \in {"return", "decide"} \/ (pc' = "release" /\ run'.exit = "none")) =>
       open /\ (pc \in {"return", "decide"} \/ (pc = "release" /\ run.exit = "none"))

\* An attempt goes on, or is left.
Onward ==
  /\ Present /\ SameAttempt /\ rows' = rows /\ Smooth
  /\ Present' \/ pc' \in {"closing", "stopping"}
  /\ saved' \in {saved, "infrastructure_interrupted"}

LEMMA FailOnward ==
  ASSUME PlainOK, Control, Fail("error"), Attempting, rows' = rows
  PROVE  Smooth /\ (Present' \/ pc' \in {"closing", "stopping"})
<1>1. run'.exit = "error" /\ pc' \in {"release", "closing"}
  BY Failing DEF PlainOK, RunType
<1> QED
  BY <1>1 DEF Smooth, Working, Present, Attempting, Saving

LEMMA LeaveOnward ==
  ASSUME PlainOK, Control, NEW e \in {"stop", "error"}, Leave(e), Attempting, rows' = rows
  PROVE  Smooth /\ (Present' \/ pc' \in {"closing", "stopping"})
<1>1. run'.exit = e /\ pc' = "release"
  BY Leaving
<1> QED
  BY <1>1 DEF Smooth, Working, Present, Attempting, Saving

LEMMA SaveOnward ==
  ASSUME PlainOK, Control, NEW s \in Statuses, NEW p \in PcValues, Save(s, p),
         s # "profile_unsolved", rows' = rows,
         pc \in {"reset", "turn", "call", "play", "won", "lost"}
  PROVE  Smooth /\ (Present' \/ pc' \in {"closing", "stopping"})
<1>1. run'.save = s /\ pc' = "read"
  BY Saves
<1> QED
  BY <1>1 DEF Smooth, Working, Present, Attempting, Saving

LEMMA ResetOnward ==
  ASSUME PlainOK, Control, Reset
  PROVE  Onward
<1>1. /\ pc = "reset" /\ rows' = rows /\ saved' = saved /\ open' = open /\ SameAttempt
      /\ Attempting /\ Present
  BY ResetControl DEF Reset, Attempting, Present
<1>2. CASE pc' \in {"turn", "closing"}
  BY <1>1, <1>2 DEF Onward, Smooth, Working, Present, Attempting, Saving
<1>3. ASSUME NEW s \in {"failure", "infrastructure_interrupted"}, NEW p \in {"return", "stop"},
             Save(s, p)
      PROVE  Onward
  <2>1. s \in Statuses /\ p \in PcValues
    BY DEF Statuses, Verdicts, PcValues
  <2> QED
    BY <1>1, <1>3, <2>1, SaveOnward DEF Onward
<1> QED
  BY <1>2, <1>3 DEF Reset

LEMMA TurnOnward ==
  ASSUME PlainOK, Control, Turn
  PROVE  Onward
<1>1. /\ pc = "turn" /\ rows' = rows /\ saved' = saved /\ open' = open /\ SameAttempt
      /\ Attempting /\ Present
  BY TurnControl DEF Turn, Attempting, Present
<1>2. CASE Go("call")
  BY <1>1, <1>2, Goes DEF Onward, Smooth, Working, Present, Attempting, Saving
<1>3. CASE Leave("stop")
  BY <1>1, <1>3, LeaveOnward DEF Onward
<1> QED
  BY <1>2, <1>3 DEF Turn

LEMMA CallOnward ==
  ASSUME PlainOK, Control, CallTeacher
  PROVE  Onward
<1>1. /\ pc = "call" /\ rows' = rows /\ saved' = saved /\ open' = open /\ SameAttempt
      /\ Attempting /\ Present
  BY CallControl DEF CallTeacher, Attempting, Present
<1>2. CASE Go("play")
  BY <1>1, <1>2, Goes DEF Onward, Smooth, Working, Present, Attempting, Saving
<1>3. CASE Leave("error")
  BY <1>1, <1>3, LeaveOnward DEF Onward
<1>4. ASSUME NEW s \in {"failure", "infrastructure_interrupted", "provider_error"},
             NEW p \in {"return", "shutdown", "raise"}, Save(s, p)
      PROVE  Onward
  <2>1. s \in Statuses /\ p \in PcValues
    BY DEF Statuses, Verdicts, PcValues
  <2> QED
    BY <1>1, <1>4, <2>1, SaveOnward DEF Onward
<1> QED
  BY <1>2, <1>3, <1>4 DEF CallTeacher

LEMMA PlayOnward ==
  ASSUME PlainOK, Control, Play
  PROVE  Onward
<1>1. /\ pc = "play" /\ rows' = rows /\ saved' = saved /\ open' = open /\ SameAttempt
      /\ Attempting /\ Present
  BY PlayControl DEF Play, Attempting, Present
<1>2. ASSUME pc' = "read", NEW then,
             run' = [run EXCEPT !.steps = @ + 1, !.save = "in_progress", !.then = then]
      PROVE  Onward
  <2>1. run'.save = "in_progress"
    BY <1>2 DEF PlainOK, RunType
  <2> QED
    BY <1>1, <1>2, <2>1 DEF Onward, Smooth, Working, Present, Attempting, Saving
<1>3. CASE Leave("error")
  BY <1>1, <1>3, LeaveOnward DEF Onward
<1>4. ASSUME NEW s \in {"failure", "infrastructure_interrupted"}, NEW p \in {"return", "stop"},
             Save(s, p)
      PROVE  Onward
  <2>1. s \in Statuses /\ p \in PcValues
    BY DEF Statuses, Verdicts, PcValues
  <2> QED
    BY <1>1, <1>4, <2>1, SaveOnward DEF Onward
<1> QED
  BY <1>2, <1>3, <1>4 DEF Play

LEMMA TerminalOnward ==
  ASSUME PlainOK, Control, Terminal
  PROVE  Onward
<1>1. /\ pc \in {"won", "lost"} /\ rows' = rows /\ saved' = saved /\ open' = open /\ SameAttempt
      /\ Attempting /\ Present
  BY TerminalControl DEF Terminal, Attempting, Present
<1>2. ASSUME NEW s \in {"failure", "success"}, NEW p \in {"return", "trajectory"}, Save(s, p)
      PROVE  Onward
  <2>1. s \in Statuses /\ p \in PcValues
    BY DEF Statuses, Verdicts, PcValues
  <2> QED
    BY <1>1, <1>2, <2>1, SaveOnward DEF Onward
<1> QED
  BY <1>2 DEF Terminal

LEMMA ReadOnward ==
  ASSUME PlainOK, Control, ReadRow, Attempting
  PROVE  Onward
<1>1. /\ rows' = rows /\ saved' = saved /\ open' = open /\ SameAttempt /\ Present
      /\ pc \in {"read", "trajectory"}
  BY ReadRowControl DEF ReadRow, Present
<1>2. CASE Fail("error")
  BY <1>1, <1>2, FailOnward DEF Onward
<1>3. CASE Go(IF pc = "read" THEN "publish" ELSE "publish_trajectory")
  <2>1. /\ pc = "read" => pc' = "publish"
        /\ pc = "trajectory" => pc' = "publish_trajectory"
        /\ run' = run
    BY <1>1, <1>3, Goes
  <2> QED
    BY <1>1, <2>1 DEF Onward, Smooth, Working, Present, Attempting, Saving
<1> QED
  BY <1>2, <1>3 DEF ReadRow

LEMMA ConcludeOnward ==
  ASSUME PlainOK, Control, Conclude
  PROVE  Onward
<1>1. /\ rows' = rows /\ saved' \in {saved, "infrastructure_interrupted"} /\ SameAttempt
      /\ Attempting /\ Present
  BY ConcludeControl DEF Conclude, Attempting, Present
<1>2. CASE Fail("error")
  BY <1>1, <1>2, FailOnward DEF Onward
<1>3. CASE Leave("stop")
  BY <1>1, <1>3, LeaveOnward DEF Onward
<1>4. CASE pc = "return" /\ Leave("none") /\ UNCHANGED <<saved, open>>
  <2>1. pc' = "release"
    BY <1>4, Leaving
  <2> QED
    BY <1>1, <1>4, <2>1 DEF Onward, Smooth, Working, Present, Attempting, Saving
<1> QED
  BY <1>2, <1>3, <1>4 DEF Conclude

LEMMA ReleaseOnward ==
  ASSUME PlainOK, Control, Release
  PROVE  Onward
<1>1. /\ rows' = rows /\ saved' = saved /\ open' = open /\ SameAttempt
      /\ pc = "release" /\ pc' \in {"decide", "stopping", "closing"}
      /\ pc' = "decide" => run.exit = "none"
  BY ReleaseControl DEF Release
<1> QED
  BY <1>1 DEF Onward, Smooth, Working, Present, Attempting, Saving

----------------------------------------------------------------------------
(* The rest of the invariant.                                              *)

\* An untouched table is one where any row may be said to be touched.
LEMMA UntouchedRow ==
  ASSUME rows \in Seq(RowType), rows' = rows, NEW k \in DOMAIN rows
  PROVE  Touched(k) /\ Len(rows') = Len(rows) /\ DOMAIN rows' = DOMAIN rows
BY DEF Touched

\* The tasks before the one under way stay settled.
LEMMA SettlingKept ==
  ASSUME TypeOK, Control, OnRow, Settling, Present, NEW k, k = run.row, Touched(k),
         run'.at = run.at, saved' \in {saved, "infrastructure_interrupted"}
  PROVE  Settling'
<1>1. PICK t : t = Task
  OBVIOUS
<1>2. k \in DOMAIN rows /\ rows[k].task = t
  BY <1>1, TheRow
<1>3. rows'[k].task = t
  BY <1>2 DEF Touched
<1>4. saved # "complete" /\ saved' # "complete"
  BY DEF Settling
<1>5. run.at \in DOMAIN TaskList /\ pc # "down"
  BY DEF Control, OnTask, Present, Attempting, Saving
<1>6. ASSUME NEW i \in DOMAIN TaskList, i < run.at
      PROVE  Settled(TaskList[i])'
  <2>1. PICK u : u = TaskList[i]
    OBVIOUS
  <2>2. u # t
    BY <1>1, <1>5, <1>6, <2>1, TheList DEF Task
  <2>3. Settled(u)
    BY <1>5, <1>6, <2>1 DEF Settling
  <2>4. Settled(u)'
    BY <1>3, <2>2, <2>3, SettledElsewhere
  <2> QED
    BY <2>1, <2>4
<1> QED
  BY <1>4, <1>6 DEF Settling

\* An attempt goes on.
LEMMA PresentKept ==
  ASSUME TypeOK, Control, OnRow, Counts, Present, NEW k, k = run.row, Touched(k),
         Len(rows') = Len(rows), SameAttempt, Present'
  PROVE  OnRow' /\ Counts' /\ GivingUp'
<1>1. PICK t : t = Task
  OBVIOUS
<1>2. /\ rows \in Seq(RowType) /\ k \in DOMAIN rows /\ k = Len(rows)
      /\ rows[k].task = t /\ rows[k].phase = run.phase
  BY <1>1, TheRow
<1>3. /\ rows'[k].task = t /\ rows'[k].phase = run.phase /\ k \in DOMAIN rows'
      /\ k = Len(rows')
  BY <1>2 DEF Touched
<1>4. run'.row = k /\ run'.phase = run.phase /\ Task' = t
  BY <1>1 DEF SameAttempt, Task
<1>5. OnRow'
  BY <1>3, <1>4 DEF OnRow, Current
<1>6. Firsts(t)' \ {k} = Firsts(t) \ {k} /\ Seconds(t)' \ {k} = Seconds(t) \ {k}
  BY OthersStay
<1>7. /\ run.firsts = Cardinality(Firsts(t) \ {k}) /\ run.seconds = Cardinality(Seconds(t) \ {k})
      /\ Room
  BY <1>1 DEF Counts
<1>8. /\ run'.firsts = Cardinality(Firsts(t)' \ {k})
      /\ run'.seconds = Cardinality(Seconds(t)' \ {k})
      /\ Room'
  BY <1>6, <1>7 DEF SameAttempt, Room
<1>9. pc' # "start" /\ pc' # "unsolved" /\ ~Relabelling'
  BY DEF Present, Attempting, Saving, Relabelling
<1>10. Firsts(Task)' = Firsts(t)' /\ Seconds(Task)' = Seconds(t)'
  BY <1>4 DEF Firsts, Seconds, CountedOf, RowsOf
<1>11. Counts'
  BY <1>4, <1>8, <1>9, <1>10 DEF Counts
<1>12. GivingUp'
  BY <1>9 DEF GivingUp
<1> QED
  BY <1>5, <1>11, <1>12

\* No attempt is under way, and no task is looked at.
LEMMA IdleKept ==
  ASSUME pc' \in {"closing", "stopping", "down", "task"}
  PROVE  OnRow' /\ Progress' /\ Counts' /\ GivingUp'
<1>1. /\ ~Present' /\ ~Relabelling' /\ ~Working' /\ ~Attempting'
      /\ pc' \notin {"start", "unsolved", "commit", "trajectory", "publish_trajectory",
                     "commit_trajectory", "return", "decide", "release"}
  BY DEF Present, Attempting, Saving, Relabelling, Working
<1> QED
  BY <1>1 DEF OnRow, Progress, Counts, GivingUp

\* A process that ends, or begins, forgets nothing that was settled.
LEMMA EndSettling ==
  ASSUME Settling, rows' = rows, pc' \in {"closing", "stopping", "down", "task"},
         \/ pc # "down" /\ run'.at = run.at
         \/ pc' = "down"
         \/ run'.at = 1,
         saved' \in {saved, "infrastructure_interrupted", "stopped"}
  PROVE  Settling'
<1>1. \A u : Settled(u) => Settled(u)'
  BY SameTable
<1>2. saved' = "complete" => \A u \in Tasks : Settled(u)'
  BY <1>1 DEF Settling
<1>3. pc' # "down" => \A i \in DOMAIN TaskList : i < run'.at => Settled(TaskList[i])'
  <2>1. CASE run'.at = 1
    BY <2>1, TheList
  <2>2. CASE pc # "down" /\ run'.at = run.at
    BY <1>1, <2>2 DEF Settling
  <2> QED
    BY <2>1, <2>2
<1>4. ~Present' /\ pc' # "start"
  BY DEF Present, Attempting, Saving
<1> QED
  BY <1>2, <1>3, <1>4 DEF Settling

LEMMA OnwardStep ==
  ASSUME IInv, Onward, PlainOK', Control'
  PROVE  IInv'
<1> USE DEF IInv, Process
<1>1. PICK k : k = run.row
  OBVIOUS
<1>2. PICK t : t = Task
  OBVIOUS
<1>3. rows \in Seq(RowType) /\ k \in DOMAIN rows /\ rows' = rows /\ Present
  BY <1>1, <1>2, TheRow DEF Onward
<1>4. Touched(k) /\ Len(rows') = Len(rows)
  BY <1>3, UntouchedRow
<1>5. TypeOK' /\ Ledger'
  BY <1>3, SameLedger, TypeOKParts DEF TypeOK, PlainOK, RunType, UsedType
<1>6. CASE Present'
  <2>1. OnRow' /\ Counts' /\ GivingUp' /\ Settling'
    BY <1>1, <1>3, <1>4, <1>6, PresentKept, SettlingKept DEF Onward, SameAttempt
  <2>2. Current' = Current /\ run'.phase = run.phase
    BY <1>3 DEF Onward, SameAttempt, Current
  <2>3. Progress'
    BY <2>2 DEF Onward, Smooth, Progress, Artifact
  <2> QED
    BY <1>5, <2>1, <2>3
<1>7. CASE pc' \in {"closing", "stopping"}
  <2>1. pc # "down"
    BY <1>3 DEF Present, Attempting, Saving
  <2>2. Settling'
    BY <1>3, <1>7, <2>1, EndSettling DEF Onward, SameAttempt
  <2> QED
    BY <1>5, <1>7, <2>2, IdleKept
<1> QED
  BY <1>6, <1>7 DEF Onward

\* A step to where no attempt is under way.
LEMMA IdleStep ==
  ASSUME IInv, rows' = rows, PlainOK', Control', pc' \in {"closing", "stopping", "down", "task"},
         \/ pc # "down" /\ run'.at = run.at
         \/ pc' = "down"
         \/ run'.at = 1,
         saved' \in {saved, "infrastructure_interrupted", "stopped"}
  PROVE  IInv'
<1>1. TypeOK' /\ Ledger'
  BY SameLedger, TypeOKParts DEF IInv, TypeOK, PlainOK, RunType, UsedType
<1>2. Settling'
  BY EndSettling DEF IInv
<1> QED
  BY <1>1, <1>2, IdleKept DEF IInv, Process

\* What is decided of a task is what its rows call for.
LEMMA OutcomeStep ==
  ASSUME IInv, rows' = rows, saved' = saved, PlainOK', Control', NEW t, t = Task,
         run.at \in DOMAIN TaskList, pc # "down",
         Outcome(t, Cardinality(Firsts(t)), Cardinality(Seconds(t)))
  PROVE  IInv'
<1> USE DEF IInv, Process
<1>1. TypeOK' /\ Ledger'
  BY SameLedger, TypeOKParts DEF TypeOK, PlainOK, RunType, UsedType
<1>2. /\ Firsts(t)' = Firsts(t) /\ Seconds(t)' = Seconds(t)
      /\ Demonstrations(t)' = Demonstrations(t) /\ Hopeless(t)' = Hopeless(t)
      /\ Settled(t)' = Settled(t)
  BY SameTable
<1>3. \A u : Settled(u)' = Settled(u)
  BY SameTable
<1>4. t \in Tasks
  BY TheList DEF Task
<1>5. saved' = "complete" => \A u \in Tasks : Settled(u)'
  BY <1>3 DEF Settling
<1>6. \A i \in DOMAIN TaskList : i < run.at => Settled(TaskList[i])'
  BY <1>3 DEF Settling
<1>7. CASE /\ pc' = "start" /\ run'.at = run.at /\ run'.firsts = Cardinality(Firsts(t))
           /\ run'.seconds = Cardinality(Seconds(t))
           /\ \/ /\ run'.phase = "first_success" /\ Cardinality(Firsts(t)) < FirstMax
                 /\ Demonstrations(t) = {}
              \/ /\ run'.phase = "second_demo" /\ Cardinality(Seconds(t)) < SecondMax
                 /\ Demonstrations(t) # {}
  <2>1. Task' = t /\ ~Present' /\ ~Relabelling' /\ ~Working' /\ ~Attempting'
    BY <1>7 DEF Task, Present, Attempting, Saving, Relabelling, Working
  <2>2. OnRow' /\ Progress' /\ GivingUp'
    BY <1>7, <2>1 DEF OnRow, Progress, GivingUp
  <2>3. Room'
    BY <1>7 DEF Room
  <2>4. /\ Firsts(Task)' = Firsts(t)' /\ Seconds(Task)' = Seconds(t)'
        /\ Demonstrations(Task)' = Demonstrations(t)'
    BY <2>1 DEF Firsts, Seconds, CountedOf, RowsOf, Demonstrations
  <2>5. Counts'
    BY <1>2, <1>7, <2>1, <2>3, <2>4 DEF Counts
  <2>6. ~Settled(t)
    <3>1. Cardinality(Firsts(t)) \in Nat /\ Cardinality(Seconds(t)) \in Nat
      BY CountsAreNumbers, TypeOKParts
    <3> QED
      BY <1>7, <3>1, Bounds DEF Settled, Hopeless
  <2>7. saved' # "complete"
    BY <1>2, <1>4, <1>5, <2>6
  <2>8. Settling'
    BY <1>6, <1>7, <2>7 DEF Settling
  <2> QED
    BY <1>1, <2>2, <2>5, <2>8
<1>8. CASE /\ pc' = "unsolved" /\ run'.at = run.at /\ Cardinality(Firsts(t)) >= FirstMax
           /\ Demonstrations(t) = {}
  <2>1. Task' = t /\ ~Present' /\ ~Relabelling' /\ ~Working' /\ ~Attempting'
    BY <1>8 DEF Task, Present, Attempting, Saving, Relabelling, Working
  <2>2. Hopeless(t)'
    BY <1>2, <1>8 DEF Hopeless
  <2>3. Hopeless(Task)' = Hopeless(t)'
    BY <2>1 DEF Hopeless, Firsts, CountedOf, RowsOf, Demonstrations
  <2>4. OnRow' /\ Progress' /\ GivingUp' /\ Counts'
    BY <1>8, <2>1, <2>2, <2>3 DEF OnRow, Progress, GivingUp, Counts
  <2>5. Settling'
    BY <1>5, <1>6, <1>8, <2>1 DEF Settling
  <2> QED
    BY <1>1, <2>4, <2>5
<1>9. CASE /\ pc' = "task" /\ run'.at = run.at + 1 /\ Cardinality(Seconds(t)) >= SecondMax
           /\ Demonstrations(t) # {}
  <2>1. Settled(t)'
    BY <1>2, <1>9 DEF Settled
  <2>2. \A i \in DOMAIN TaskList : i < run'.at => Settled(TaskList[i])'
    <3>1. ASSUME NEW i \in DOMAIN TaskList, i < run'.at PROVE i < run.at \/ i = run.at
      BY <1>9, <3>1, TheList
    <3>2. Settled(TaskList[run.at])
      BY <1>2, <2>1 DEF Task
    <3> QED
      BY <1>3, <1>6, <3>1, <3>2
  <2>3. ~Present' /\ pc' # "start"
    BY <1>9 DEF Present, Attempting, Saving
  <2>4. Settling'
    BY <1>5, <2>2, <2>3 DEF Settling
  <2> QED
    BY <1>1, <1>9, <2>4, IdleKept
<1> QED
  BY <1>7, <1>8, <1>9 DEF Outcome

----------------------------------------------------------------------------
(* The steps that change a row.                                            *)

LEMMA StartAttemptStep ==
  ASSUME IInv, StartAttempt
  PROVE  IInv'
<1> USE DEF IInv, Process
<1>1. /\ PlainOK' /\ Control' /\ saved' = saved /\ run'.at = run.at /\ pc = "start"
      /\ \/ pc' = "closing" /\ rows' = rows
         \/ /\ pc' = "reset" /\ rows' = Append(rows, NewRow(Task, run.phase))
            /\ run'.row = Len(rows) + 1 /\ run'.firsts = run.firsts
            /\ run'.seconds = run.seconds /\ run'.phase = run.phase
  BY StartAttemptControl DEF StartAttempt
<1>2. CASE pc' = "closing" /\ rows' = rows
  BY <1>1, <1>2, IdleStep
<1>3. CASE /\ pc' = "reset" /\ rows' = Append(rows, NewRow(Task, run.phase))
           /\ run'.row = Len(rows) + 1 /\ run'.firsts = run.firsts
           /\ run'.seconds = run.seconds /\ run'.phase = run.phase
  <2>1. PICK k, t : k = Len(rows) + 1 /\ t = Task
    OBVIOUS
  <2>2. /\ Ledger' /\ Touched(k) /\ rows' \in Seq(RowType) /\ t \in Tasks
        /\ k \notin DOMAIN rows /\ k \in DOMAIN rows' /\ Len(rows') = k
        /\ rows'[k].task = t /\ rows'[k].phase = run.phase
        /\ rows'[k].status = "in_progress" /\ rows'[k].path = "attempt"
    BY <1>1, <1>3, <2>1, StartLedger
  <2>3. TypeOK'
    BY <1>1, <2>2 DEF TypeOK, PlainOK, RunType, UsedType
  <2>4. run'.row = k /\ Task' = t
    BY <1>1, <1>3, <2>1 DEF Task
  <2>5. OnRow'
    BY <1>3, <2>2, <2>4 DEF OnRow, Current
  <2>6. Progress'
    BY <1>3, <2>2, <2>4 DEF Progress, Current, Attempting, Saving
  <2>7. Counts'
    <3>1. Firsts(t)' \ {k} = Firsts(t) \ {k} /\ Seconds(t)' \ {k} = Seconds(t) \ {k}
      BY <2>2, OthersStay
    <3>2. Firsts(t) \ {k} = Firsts(t) /\ Seconds(t) \ {k} = Seconds(t)
      BY <2>2, Counted
    <3>3. /\ run.firsts = Cardinality(Firsts(t)) /\ run.seconds = Cardinality(Seconds(t))
          /\ Room
      BY <1>1, <2>1 DEF Counts
    <3>4. /\ run'.firsts = Cardinality(Firsts(t)' \ {k})
          /\ run'.seconds = Cardinality(Seconds(t)' \ {k}) /\ Room'
      BY <1>3, <3>1, <3>2, <3>3 DEF Room
    <3>5. Firsts(Task)' = Firsts(t)' /\ Seconds(Task)' = Seconds(t)'
      BY <2>4 DEF Firsts, Seconds, CountedOf, RowsOf
    <3> QED
      BY <1>3, <2>4, <3>4, <3>5 DEF Counts
  <2>8. GivingUp'
    BY <1>3 DEF GivingUp, Relabelling, Saving
  <2>9. Settling'
    <3>1. saved' # "complete"
      BY <1>1 DEF Settling
    <3>2. run.at \in DOMAIN TaskList
      BY <1>1 DEF Control, OnTask
    <3>3. ASSUME NEW i \in DOMAIN TaskList, i < run'.at
          PROVE  Settled(TaskList[i])'
      <4>1. PICK u : u = TaskList[i]
        OBVIOUS
      <4>2. u # t
        BY <1>1, <2>1, <3>2, <3>3, <4>1, TheList DEF Task
      <4>3. Settled(u)
        BY <1>1, <3>3, <4>1 DEF Settling
      <4>4. Settled(u)'
        BY <2>2, <4>2, <4>3, SettledElsewhere
      <4> QED
        BY <4>1, <4>4
    <3> QED
      BY <3>1, <3>3 DEF Settling
  <2> QED
    BY <1>1, <2>2, <2>3, <2>5, <2>6, <2>7, <2>8, <2>9
<1> QED
  BY <1>1, <1>2, <1>3

\* A step of the attempt under way that changes its row.
LEMMA AttemptRowStep ==
  ASSUME IInv, Present, NEW k, k = run.row, Touched(k), Len(rows') = Len(rows),
         RowOK(rows'[k]), SameAttempt, Present', PlainOK', Control', Progress',
         saved' \in {saved, "infrastructure_interrupted"}
  PROVE  IInv'
<1> USE DEF IInv, Process
<1>1. Ledger'
  BY AttemptLedger
<1>2. OnRow' /\ Counts' /\ GivingUp'
  BY PresentKept
<1>3. Settling'
  BY SettlingKept DEF SameAttempt
<1>4. TypeOK'
  BY DEF TypeOK, PlainOK, RunType, UsedType, Touched
<1> QED
  BY <1>1, <1>2, <1>3, <1>4

LEMMA PublishAttempt ==
  ASSUME IInv, Publish, Attempting
  PROVE  IInv'
<1> USE DEF IInv, Process
<1>1. PICK k, t : k = run.row /\ t = Task
  OBVIOUS
<1>2. pc = "publish" /\ pc' = "commit" /\ saved' = saved /\ open' = open /\ run' = run
  BY DEF Publish, Go
<1>3. run.save # "profile_unsolved" /\ Present /\ Working
  BY <1>2 DEF Attempting, Present, Saving, Working
<1>4. /\ rows \in Seq(RowType) /\ k \in DOMAIN rows /\ rows[k] \in RowType
      /\ rows[k].phase = run.phase /\ run.phase \in Phases
  BY <1>1, <1>3, TheRow
<1>5. rows[k].path = "attempt" /\ rows[k].status \in {"in_progress", "infrastructure_interrupted"}
  BY <1>1, <1>3 DEF Progress, Current
<1>6. PICK f : f = Over(rows[k])
  OBVIOUS
<1>7. f = File(run.save, run.phase)
  BY <1>3, <1>6 DEF Over
<1>8. run.save \in Statuses
  BY TypeOKParts DEF PlainOK, RunType
<1>9. f \in Files({}) /\ f.status = run.save /\ f.phase = run.phase
  BY <1>4, <1>7, <1>8, FileTyped
<1>10. rows' = [rows EXCEPT ![k] = replaced(rows[k], f)]
  BY <1>1, <1>6 DEF Publish
<1>11. /\ Touched(k) /\ rows' \in Seq(RowType) /\ Len(rows') = Len(rows)
       /\ rows'[k].task = rows[k].task /\ rows'[k].phase = rows[k].phase
       /\ rows'[k].status = rows[k].status /\ rows'[k].path = rows[k].path
       /\ rows'[k].attempt = f /\ rows'[k].trajectory = rows[k].trajectory
  BY <1>4, <1>5, <1>9, <1>10, PublishRow
<1>12. RowOK(rows[k])
  BY <1>4 DEF Ledger, RowsOK
<1>13. RowOK(rows'[k])
  BY <1>4, <1>5, <1>9, <1>11, <1>12 DEF RowOK
<1>14. PlainOK' /\ Control'
  BY PublishControl, TypeOKParts
<1>15. Attempting' /\ Present' /\ Working'
  BY <1>2, <1>3 DEF Attempting, Present, Saving, Working
<1>16. Progress'
  BY <1>1, <1>2, <1>4, <1>5, <1>9, <1>11 DEF Progress, Current
<1>17. SameAttempt
  BY <1>2 DEF SameAttempt
<1> QED
  BY <1>1, <1>2, <1>3, <1>11, <1>13, <1>14, <1>15, <1>16, <1>17, AttemptRowStep

LEMMA CommitAttempt ==
  ASSUME IInv, Commit, Attempting, open
  PROVE  IInv'
<1> USE DEF IInv, Process
<1>1. PICK k, t : k = run.row /\ t = Task
  OBVIOUS
<1>2. /\ pc = "commit" /\ saved' = saved /\ open' = open
      /\ run.save # "profile_unsolved" /\ run.then # "task"
  BY DEF Commit, Attempting, Control, Continues, Saving
<1>3. run' = run /\ pc' = run.then /\ PlainOK' /\ Control' /\ Present /\ Working
  BY <1>2, CommitControl, TypeOKParts DEF Commit, Attempting, Present, Saving, Working
<1>4. /\ rows \in Seq(RowType) /\ k \in DOMAIN rows /\ rows[k] \in RowType
      /\ rows[k].phase = run.phase /\ run.phase \in Phases
  BY <1>1, <1>3, TheRow
<1>5. /\ rows[k].path = "attempt" /\ rows[k].attempt.phase = run.phase
      /\ rows[k].attempt.status \in {run.save, "infrastructure_interrupted"}
  BY <1>1, <1>2, <1>3 DEF Progress, Current
<1>6. run.save \in Statuses
  BY TypeOKParts DEF PlainOK, RunType
<1>7. PICK g \in BOOLEAN : g = (rows[k].genuine \/ run.save \in Verdicts)
  BY Zenon
<1>8. PICK r : r = [rows[k] EXCEPT !.status = run.save, !.genuine = g]
  OBVIOUS
<1>9. /\ r \in RowType /\ r.task = rows[k].task /\ r.phase = rows[k].phase
      /\ r.status = run.save /\ r.path = "attempt"
      /\ r.attempt = rows[k].attempt /\ r.trajectory = rows[k].trajectory
  BY <1>4, <1>5, <1>6, <1>7, <1>8 DEF RowType
<1>10. Touched(k) /\ rows'[k] = r /\ Len(rows') = Len(rows)
  <2>1. rows' = [rows EXCEPT ![k] = r]
    BY <1>1, <1>4, <1>7, <1>8 DEF Commit
  <2> QED
    BY <1>4, <1>9, <2>1, ChangeRow
<1>11. RowOK(rows[k])
  BY <1>4 DEF Ledger, RowsOK
<1>12. RowOK(rows'[k])
  <2>1. RowOK(r)
    BY <1>2, <1>4, <1>5, <1>6, <1>9, <1>11 DEF RowOK, Artifact, Statuses, Verdicts
  <2> QED
    BY <1>10, <2>1
<1>13. /\ run.then \in {"turn", "won", "lost", "return", "trajectory", "raise", "stop", "shutdown"}
       /\ run.then \in {"turn", "won", "lost"} => run.save = "in_progress"
       /\ run.then = "return" => run.save = "failure"
  BY <1>2 DEF Control, Continues, Saving
<1>14. Attempting' /\ Present' /\ (Working' => run.then \in {"turn", "won", "lost"})
  BY <1>3, <1>13 DEF Attempting, Present, Saving, Working
<1>15. Progress'
  BY <1>1, <1>3, <1>5, <1>9, <1>10, <1>13, <1>14 DEF Progress, Current, Artifact
<1>16. SameAttempt
  BY <1>3 DEF SameAttempt
<1> QED
  BY <1>1, <1>2, <1>3, <1>10, <1>12, <1>14, <1>15, <1>16, AttemptRowStep

LEMMA PublishTrajectoryStep ==
  ASSUME IInv, PublishTrajectory
  PROVE  IInv'
<1> USE DEF IInv, Process
<1>1. PICK k, t : k = run.row /\ t = Task
  OBVIOUS
<1>2. /\ pc = "publish_trajectory" /\ pc' = "commit_trajectory" /\ saved' = saved
      /\ open' = open /\ run' = run
  BY DEF PublishTrajectory, Go
<1>3. Present /\ Present' /\ Attempting' /\ ~Working'
  BY <1>2 DEF Attempting, Present, Saving, Working
<1>4. /\ rows \in Seq(RowType) /\ k \in DOMAIN rows /\ rows[k] \in RowType
      /\ rows[k].phase = run.phase /\ run.phase \in Phases
  BY <1>1, <1>3, TheRow
<1>5. rows[k].path = "attempt"
  BY <1>1, <1>2 DEF Progress, Current
<1>6. PICK f : f = File("success", run.phase)
  OBVIOUS
<1>7. f \in Files({"absent"}) /\ f.phase = run.phase
  <2>1. "success" \in Statuses
    BY DEF Statuses, Verdicts
  <2> QED
    BY <1>4, <1>6, <2>1, FileTyped
<1>8. PICK r : r = [rows[k] EXCEPT !.trajectory = f]
  OBVIOUS
<1>9. /\ r \in RowType /\ r.task = rows[k].task /\ r.phase = rows[k].phase
      /\ r.status = rows[k].status /\ r.path = rows[k].path
      /\ r.attempt = rows[k].attempt /\ r.trajectory = f
  BY <1>4, <1>7, <1>8 DEF RowType
<1>10. rows' = [rows EXCEPT ![k] = r]
  BY <1>1, <1>6, <1>8 DEF PublishTrajectory
<1>11. Touched(k) /\ rows'[k] = r /\ Len(rows') = Len(rows)
  BY <1>4, <1>9, <1>10, ChangeRow
<1>12. RowOK(rows[k])
  BY <1>4 DEF Ledger, RowsOK
<1>13. RowOK(r)
  BY <1>4, <1>5, <1>7, <1>9, <1>12 DEF RowOK, Artifact
<1>14. RowOK(rows'[k])
  BY <1>11, <1>13
<1>15. PlainOK' /\ Control'
  BY PublishControl, TypeOKParts
<1>16. Progress'
  BY <1>1, <1>2, <1>3, <1>5, <1>6, <1>9, <1>11 DEF Progress, Current
<1>17. SameAttempt
  BY <1>2 DEF SameAttempt
<1> QED
  BY <1>1, <1>2, <1>3, <1>11, <1>14, <1>15, <1>16, <1>17, AttemptRowStep

LEMMA CommitTrajectoryOpen ==
  ASSUME IInv, CommitTrajectory, open
  PROVE  IInv'
<1> USE DEF IInv, Process
<1>1. PICK k, t : k = run.row /\ t = Task
  OBVIOUS
<1>2. pc = "commit_trajectory" /\ saved' = saved /\ open' = open /\ Leave("none")
  BY DEF CommitTrajectory
<1>3. PlainOK' /\ Control' /\ SameAttempt /\ pc' = "release"
  BY <1>2, CommitTrajectoryControl, TypeOKParts, Leaving
<1>4. Present /\ Present' /\ Attempting' /\ ~Working'
  BY <1>2, <1>3 DEF Attempting, Present, Saving, Working
<1>5. /\ rows \in Seq(RowType) /\ k \in DOMAIN rows /\ rows[k] \in RowType
      /\ rows[k].phase = run.phase /\ run.phase \in Phases
  BY <1>1, <1>4, TheRow
<1>6. rows[k].trajectory = File("success", run.phase)
  BY <1>1, <1>2 DEF Progress, Current
<1>7. rows[k].trajectory.status = "success" /\ rows[k].trajectory.phase = run.phase
  BY <1>6 DEF File
<1>8. PICK r : r = [rows[k] EXCEPT !.status = "success", !.path = "trajectory"]
  OBVIOUS
<1>9. /\ r \in RowType /\ r.task = rows[k].task /\ r.phase = rows[k].phase
      /\ r.status = "success" /\ r.path = "trajectory"
      /\ r.attempt = rows[k].attempt /\ r.trajectory = rows[k].trajectory
  <2>1. "success" \in Statuses
    BY DEF Statuses, Verdicts
  <2> QED
    BY <1>5, <1>8, <2>1 DEF RowType
<1>10. rows' = [rows EXCEPT ![k] = r]
  BY <1>1, <1>2, <1>5, <1>8 DEF CommitTrajectory
<1>11. Touched(k) /\ rows'[k] = r /\ Len(rows') = Len(rows)
  BY <1>5, <1>9, <1>10, ChangeRow
<1>12. RowOK(rows[k])
  BY <1>5 DEF Ledger, RowsOK
<1>13. RowOK(rows'[k])
  <2>1. RowOK(r)
    BY <1>5, <1>7, <1>9, <1>12 DEF RowOK, Artifact
  <2> QED
    BY <1>11, <2>1
<1>14. Progress'
  BY <1>1, <1>3, <1>4, <1>7, <1>9, <1>11 DEF Progress, Current, Artifact, SameAttempt
<1> QED
  BY <1>1, <1>2, <1>3, <1>4, <1>11, <1>13, <1>14, AttemptRowStep

\* A commit that finds the ledger closed.
LEMMA ClosedCommitStep ==
  ASSUME IInv, Commit \/ CommitTrajectory, ~open
  PROVE  IInv'
<1> USE DEF IInv, Process
<1>1. /\ PlainOK' /\ Control' /\ rows' = rows /\ saved' = saved /\ open' = open /\ Fail("error")
      /\ pc \in {"commit", "commit_trajectory"}
  BY CommitControl, CommitTrajectoryControl, TypeOKParts DEF Commit, CommitTrajectory
<1>2. SameAttempt /\ run'.exit = "error"
      /\ (run.session => pc' = "release") /\ (~run.session => pc' = "closing")
  BY <1>1, Failing, TypeOKParts
<1>3. CASE Attempting
  <2>1. Onward
    BY <1>1, <1>2, <1>3, FailOnward, TypeOKParts DEF Onward, Present
  <2> QED
    BY <1>1, <2>1, OnwardStep
<1>4. CASE ~Attempting
  <2>1. pc' = "closing" /\ pc # "down"
    <3>1. ~run.session
      BY <1>1, <1>4 DEF Control, Guarding
    <3> QED
      BY <1>1, <1>2, <3>1
  <2> QED
    BY <1>1, <1>2, <2>1, IdleStep DEF SameAttempt
<1> QED
  BY <1>3, <1>4

LEMMA SigintStep ==
  ASSUME IInv, Sigint
  PROVE  IInv'
<1> USE DEF IInv, Process
<1>1. /\ PlainOK' /\ Control' /\ SameAttempt /\ pc # "down" /\ pc' # "down" /\ ~open'
      /\ saved' \in {saved, "infrastructure_interrupted"}
      /\ \/ open /\ pc' = pc /\ run' = run
         \/ ~open /\ rows' = rows /\ pc' = pc /\ run' = run
         \/ ~open /\ rows' = rows /\ pc # "closing" /\ Fail("error")
  BY SigintControl, TypeOKParts
<1>2. CASE rows' = rows /\ pc' = pc /\ run' = run
  <2>1. TypeOK' /\ Ledger'
    BY <1>1, <1>2, SameLedger, TypeOKParts DEF TypeOK, PlainOK, RunType, UsedType
  <2>2. OnRow'
    BY <1>2 DEF OnRow, Present, Attempting, Saving, Current, Task
  <2>3. Progress'
    BY <1>1, <1>2 DEF Progress, Working, Attempting, Saving, Current, Artifact
  <2>4. PICK t : t = Task
    OBVIOUS
  <2>5. Task' = t
    BY <1>2, <2>4 DEF Task
  <2>6. /\ Firsts(Task)' = Firsts(t)' /\ Seconds(Task)' = Seconds(t)'
        /\ Demonstrations(Task)' = Demonstrations(t)' /\ Hopeless(Task)' = Hopeless(t)'
        /\ \A i : Last(i, Task)' = Last(i, t)'
    BY <2>5 DEF Firsts, Seconds, CountedOf, RowsOf, Demonstrations, Hopeless, Last
  <2>7. /\ Firsts(t)' = Firsts(t) /\ Seconds(t)' = Seconds(t)
        /\ Demonstrations(t)' = Demonstrations(t) /\ Hopeless(t)' = Hopeless(t)
        /\ \A i : Last(i, t)' = Last(i, t)
    BY <1>2, SameTable
  <2>8. Counts'
    BY <1>2, <2>4, <2>6, <2>7 DEF Counts, Present, Attempting, Saving, Room
  <2>9. GivingUp'
    BY <1>2, <2>4, <2>6, <2>7 DEF GivingUp, Relabelling, Saving, Current, Artifact
  <2>10. Settling'
    <3>1. \A u : Settled(u)' = Settled(u)
      BY <1>2, SameTable
    <3> QED
      BY <1>1, <1>2, <3>1 DEF Settling, Present, Attempting, Saving
  <2> QED
    BY <1>1, <2>1, <2>2, <2>3, <2>8, <2>9, <2>10
<1>3. CASE rows' = rows /\ pc # "closing" /\ Fail("error")
  <2>1. /\ run'.exit = "error"
        /\ run.session => pc' = "release"
        /\ ~run.session => pc' = "closing"
    BY <1>3, Failing, TypeOKParts
  <2>2. CASE Attempting
    <3>1. Onward
      BY <1>1, <1>3, <2>2, FailOnward, TypeOKParts DEF Onward, Present
    <3> QED
      BY <1>1, <3>1, OnwardStep
  <2>3. CASE ~Attempting
    <3>1. pc' = "closing"
      BY <1>3, <2>1, <2>3 DEF Control, Guarding
    <3> QED
      BY <1>1, <1>3, <3>1, IdleStep DEF SameAttempt
  <2> QED
    BY <2>2, <2>3
<1>4. CASE open /\ guard.attempt # 0
  <2>1. PICK k, t : k = run.row /\ t = Task
    OBVIOUS
  <2>2. Attempting /\ Present /\ guard.attempt = k
    BY <1>4, <2>1 DEF Control, Guarding, Present
  <2>3. /\ rows \in Seq(RowType) /\ k \in DOMAIN rows /\ rows[k] \in RowType
        /\ rows[k].phase = run.phase /\ run.phase \in Phases
    BY <2>1, <2>2, TheRow
  <2>4. PICK f : f = File("infrastructure_interrupted", run.phase)
    OBVIOUS
  <2>5. /\ f \in Files({}) /\ f.phase = run.phase /\ f.status = "infrastructure_interrupted"
        /\ "infrastructure_interrupted" \in Statuses
    <3>1. "infrastructure_interrupted" \in Statuses
      BY DEF Statuses
    <3> QED
      BY <2>3, <2>4, <3>1, FileTyped
  <2>6. PICK q : q = replaced(rows[k], f)
    OBVIOUS
  <2>7. /\ q \in RowType /\ Artifact(q) = f
        /\ q.task = rows[k].task /\ q.path = rows[k].path /\ q.phase = rows[k].phase
        /\ rows[k].path = "attempt" => q.attempt = f /\ q.trajectory = rows[k].trajectory
        /\ rows[k].path = "trajectory" => q.trajectory = f /\ q.attempt = rows[k].attempt
    BY <2>3, <2>5, <2>6, Replacing
  <2>8. PICK r : r = [q EXCEPT !.status = "infrastructure_interrupted"]
    OBVIOUS
  <2>9. /\ r \in RowType /\ r.status = "infrastructure_interrupted"
        /\ r.task = q.task /\ r.path = q.path /\ r.phase = q.phase
        /\ r.attempt = q.attempt /\ r.trajectory = q.trajectory
    BY <2>5, <2>7, <2>8 DEF RowType
  <2>10. rows' = [rows EXCEPT ![k] = r]
    BY <1>4, <2>2, <2>4, <2>6, <2>8 DEF Sigint, Interrupted
  <2>11. Touched(k) /\ rows'[k] = r /\ Len(rows') = Len(rows)
    BY <2>3, <2>7, <2>9, <2>10, ChangeRow
  <2>12. RowOK(rows[k])
    BY <2>3 DEF Ledger, RowsOK
  <2>13. RowOK(rows'[k])
    <3>1. r.path \in {"attempt", "trajectory"}
      BY <2>9 DEF RowType
    <3>2. RowOK(r)
      BY <2>3, <2>5, <2>7, <2>9, <2>12, <3>1 DEF RowOK
    <3> QED
      BY <2>11, <3>2
  <2>14. pc' = pc /\ run' = run
    BY <1>1, <1>4
  <2>15. Present' /\ (Working' => Working) /\ (Attempting' <=> Attempting)
    BY <2>2, <2>14 DEF Present, Attempting, Saving, Working
  <2>16. Progress'
    <3>1. /\ Current'.status = "infrastructure_interrupted" /\ Current'.path = rows[k].path
          /\ rows[k].path = "attempt" =>
               /\ Current'.attempt = f /\ Current'.trajectory = rows[k].trajectory
      BY <2>1, <2>7, <2>9, <2>11, <2>14 DEF Current
    <3>2. Working => rows[k].path = "attempt"
      BY <2>1 DEF Progress, Current
    <3>3. pc \in {"trajectory", "publish_trajectory", "commit_trajectory"} =>
            rows[k].path = "attempt"
      BY <2>1 DEF Progress, Current
    <3>4. pc = "commit_trajectory" => rows[k].trajectory = File("success", run.phase)
      BY <2>1 DEF Progress, Current
    <3>5. Attempting /\ pc = "commit" => Working
      BY DEF Working, Saving
    <3> QED
      BY <1>1, <2>5, <2>14, <2>15, <3>1, <3>2, <3>3, <3>4, <3>5 DEF Progress
  <2> QED
    BY <1>1, <2>1, <2>2, <2>11, <2>13, <2>15, <2>16, AttemptRowStep
<1>5. open /\ guard.attempt = 0 => rows' = rows
  BY DEF Sigint
<1> QED
  BY <1>1, <1>2, <1>3, <1>4, <1>5

----------------------------------------------------------------------------
(* A task is given up: its last row is relabelled.                         *)

LEMMA RelabelKeeps ==
  ASSUME TypeOK, Ledger, GivingUp, Control, Relabelling, NEW k, k = run.row, NEW t, t = Task,
         Touched(k), rows'[k].status \in {rows[k].status, "profile_unsolved"},
         Artifact(rows'[k]).phase = Artifact(rows[k]).phase, k \notin Demonstrations(t)'
  PROVE  /\ rows'[k].task = t /\ Hopeless(t)' /\ Last(k, t)'
         /\ Settled(t) => Settled(t)'
         /\ rows'[k].status = "profile_unsolved" => Settled(t)'
<1>1. /\ rows \in Seq(RowType) /\ k \in DOMAIN rows /\ rows[k].task = t
      /\ k \in CountedOf(t) /\ Last(k, t) /\ Hopeless(t)
  BY TheLastRow
<1>2. rows'[k].task = t /\ k \in DOMAIN rows'
  BY <1>1 DEF Touched
<1>3. rows'[k].status # "infrastructure_interrupted"
  BY <1>1 DEF CountedOf
<1>4. k \in CountedOf(t)'
  BY <1>2, <1>3 DEF CountedOf, RowsOf
<1>5. CountedOf(t)' = CountedOf(t)
  <2>1. CountedOf(t)' \ {k} = CountedOf(t) \ {k}
    BY OthersStay
  <2>2. k \in CountedOf(t) /\ k \in CountedOf(t)'
    BY <1>1, <1>4
  <2>3. \A i : i \in CountedOf(t)' <=> i \in CountedOf(t)
    BY <2>1, <2>2
  <2> QED
    BY <2>3
<1>6. Firsts(t)' = Firsts(t)
  <2>1. Firsts(t)' \ {k} = Firsts(t) \ {k}
    BY OthersStay
  <2>2. k \in Firsts(t)' <=> k \in Firsts(t)
    <3>1. k \in Firsts(t)' <=> Artifact(rows'[k]).phase # "second_demo"
      BY <1>4 DEF Firsts, Artifact
    <3>2. k \in Firsts(t) <=> Artifact(rows[k]).phase # "second_demo"
      BY <1>1 DEF Firsts
    <3> QED
      BY <3>1, <3>2
  <2> QED
    BY <2>1, <2>2
<1>7. Demonstrations(t)' = {}
  <2>1. Demonstrations(t)' \ {k} = Demonstrations(t) \ {k}
    BY OthersStay
  <2>2. Demonstrations(t) = {}
    BY <1>1 DEF Hopeless
  <2> QED
    BY <2>1, <2>2
<1>8. Hopeless(t)' /\ Last(k, t)'
  BY <1>1, <1>5, <1>6, <1>7 DEF Hopeless, Last
<1>9. rows'[k].status = "profile_unsolved" => Settled(t)'
  BY <1>4, <1>8 DEF Settled
<1>10. ASSUME Settled(t) PROVE rows'[k].status = "profile_unsolved"
  <2>1. PICK i \in CountedOf(t) : Last(i, t) /\ rows[i].status = "profile_unsolved"
    BY <1>1, <1>10 DEF Settled, Hopeless
  <2>2. i <= k /\ k <= i
    BY <1>1, <2>1 DEF Last
  <2>3. i \in Nat /\ k \in Nat
    BY <1>1, <2>1, Counted, RowNumbers
  <2>4. i = k
    BY <2>2, <2>3
  <2> QED
    BY <2>1, <2>4
<1> QED
  BY <1>2, <1>8, <1>9, <1>10

\* All the others that were settled stay so, this one too.
LEMMA RelabelSettles ==
  ASSUME TypeOK, Control, Settling, Relabelling, NEW k, Touched(k), NEW t, t = Task,
         rows'[k].task = t, Settled(t) => Settled(t)'
  PROVE  \A u : Settled(u) => Settled(u)'
<1>1. ASSUME NEW u, Settled(u) PROVE Settled(u)'
  <2>1. CASE u = t
    BY <1>1, <2>1
  <2>2. CASE u # t
    BY <1>1, <2>2, SettledElsewhere
  <2> QED
    BY <2>1, <2>2
<1> QED
  BY <1>1

LEMMA RelabelStep ==
  ASSUME IInv, Relabelling, Relabelling', run' = run, saved' = saved, PlainOK', Control',
         NEW k, k = run.row, Touched(k), RowOK(rows'[k]),
         rows'[k].status = rows[k].status, Artifact(rows'[k]).phase = Artifact(rows[k]).phase,
         k \notin Demonstrations(Task)',
         pc' = "commit" => Artifact(rows'[k]).status = "profile_unsolved"
  PROVE  IInv'
<1> USE DEF IInv, Process
<1>1. PICK t : t = Task
  OBVIOUS
<1>2. Task' = t
  BY <1>1 DEF Task
<1>3. k \notin Demonstrations(t)'
  BY <1>1, <1>2 DEF Demonstrations, RowsOf
<1>4. /\ rows'[k].task = t /\ Hopeless(t)' /\ Last(k, t)'
      /\ Settled(t) => Settled(t)'
  BY <1>1, <1>3, RelabelKeeps
<1>5. Ledger'
  BY RelabelLedger
<1>6. TypeOK'
  BY DEF TypeOK, PlainOK, RunType, UsedType, Touched
<1>7. ~Present' /\ ~Attempting' /\ ~Working' /\ pc' \in Saving /\ pc' # "start" /\ pc # "down"
  BY DEF Present, Attempting, Saving, Relabelling, Working
<1>8. OnRow' /\ Progress' /\ Counts'
  BY <1>7 DEF OnRow, Progress, Counts, Saving
<1>9. Hopeless(Task)' = Hopeless(t)' /\ Last(k, Task)' = Last(k, t)'
  BY <1>2 DEF Hopeless, Last, Firsts, CountedOf, RowsOf, Demonstrations
<1>10. GivingUp'
  BY <1>4, <1>9 DEF GivingUp, Current, Artifact
<1>11. \A u : Settled(u) => Settled(u)'
  BY <1>1, <1>4, RelabelSettles
<1>12. Settling'
  BY <1>7, <1>11 DEF Settling
<1> QED
  BY <1>5, <1>6, <1>8, <1>10, <1>12

LEMMA MarkUnsolvedStep ==
  ASSUME IInv, MarkUnsolved
  PROVE  IInv'
<1> USE DEF IInv, Process
<1>1. PICK t : t = Task
  OBVIOUS
<1>2. /\ PlainOK' /\ Control' /\ rows' = rows /\ saved' = saved /\ run'.at = run.at
      /\ pc = "unsolved"
      /\ \/ pc' = "closing"
         \/ /\ pc' = "read" /\ run'.save = "profile_unsolved"
            /\ Last(run'.row, t) /\ Hopeless(t)
  BY <1>1, MarkUnsolvedControl DEF MarkUnsolved
<1>3. CASE pc' = "closing"
  BY <1>2, <1>3, IdleStep
<1>4. CASE /\ pc' = "read" /\ run'.save = "profile_unsolved"
           /\ Last(run'.row, t) /\ Hopeless(t)
  <2>1. TypeOK' /\ Ledger'
    BY <1>2, SameLedger, TypeOKParts DEF TypeOK, PlainOK, RunType, UsedType
  <2>2. ~Present' /\ ~Attempting' /\ ~Working' /\ Relabelling'
    BY <1>4 DEF Present, Attempting, Saving, Relabelling, Working
  <2>3. OnRow' /\ Progress' /\ Counts'
    BY <1>4, <2>2 DEF OnRow, Progress, Counts
  <2>4. PICK n : n = run'.row
    OBVIOUS
  <2>5. Hopeless(t)' = Hopeless(t) /\ Last(n, t)' = Last(n, t)
    BY <1>2, SameTable
  <2>6. Task' = t
    BY <1>1, <1>2 DEF Task
  <2>7. Hopeless(Task)' = Hopeless(t)' /\ Last(n, Task)' = Last(n, t)'
    BY <2>6 DEF Hopeless, Last, Firsts, CountedOf, RowsOf, Demonstrations
  <2>8. GivingUp'
    BY <1>4, <2>4, <2>5, <2>7 DEF GivingUp
  <2>9. Settling'
    <3>1. \A u : Settled(u)' = Settled(u)
      BY <1>2, SameTable
    <3> QED
      BY <1>2, <1>4, <2>2, <3>1 DEF Settling
  <2> QED
    BY <1>2, <2>1, <2>3, <2>8, <2>9
<1> QED
  BY <1>2, <1>3, <1>4

LEMMA ReadRelabel ==
  ASSUME IInv, ReadRow, ~Attempting
  PROVE  IInv'
<1> USE DEF IInv, Process
<1>1. /\ PlainOK' /\ Control' /\ SameAttempt /\ rows' = rows /\ saved' = saved
      /\ pc = "read" /\ Relabelling
  BY ReadRowControl, TypeOKParts DEF ReadRow, Attempting, Relabelling, Saving
<1>2. CASE Fail("error")
  <2>1. ~run.session
    BY <1>1 DEF Control, Guarding
  <2>2. pc' = "closing"
    BY <1>2, <2>1, Failing, TypeOKParts
  <2> QED
    BY <1>1, <2>2, IdleStep DEF SameAttempt
<1>3. CASE Go(IF pc = "read" THEN "publish" ELSE "publish_trajectory")
  <2>1. pc' = "publish" /\ run' = run
    BY <1>1, <1>3 DEF Go
  <2>2. Relabelling'
    BY <1>1, <2>1 DEF Relabelling, Saving
  <2>3. PICK k, t : k = run.row /\ t = Task
    OBVIOUS
  <2>4. /\ rows \in Seq(RowType) /\ k \in DOMAIN rows /\ Hopeless(t)
    BY <1>1, <2>3, TheLastRow
  <2>5. Touched(k)
    BY <1>1, <2>4, UntouchedRow
  <2>6. Demonstrations(t)' = {} /\ Task' = t
    BY <1>1, <2>1, <2>3, <2>4, SameTable DEF Hopeless, Task
  <2>7. k \notin Demonstrations(Task)'
    BY <2>6 DEF Demonstrations, RowsOf
  <2>8. RowOK(rows'[k])
    BY <1>1, <2>4 DEF Ledger, RowsOK
  <2> QED
    BY <1>1, <2>1, <2>2, <2>3, <2>5, <2>7, <2>8, RelabelStep
<1> QED
  BY <1>2, <1>3 DEF ReadRow

LEMMA PublishRelabel ==
  ASSUME IInv, Publish, ~Attempting
  PROVE  IInv'
<1> USE DEF IInv, Process
<1>1. /\ pc = "publish" /\ pc' = "commit" /\ run' = run /\ saved' = saved /\ Relabelling
      /\ PlainOK' /\ Control'
  BY PublishControl, TypeOKParts DEF Publish, Go, Attempting, Relabelling, Saving
<1>2. Relabelling'
  BY <1>1 DEF Relabelling, Saving
<1>3. PICK k, t : k = run.row /\ t = Task
  OBVIOUS
<1>4. /\ rows \in Seq(RowType) /\ k \in DOMAIN rows /\ rows[k] \in RowType /\ Hopeless(t)
      /\ rows[k].phase = "first_success"
  BY <1>1, <1>3, TheLastRow
<1>5. PICK f : f = Over(rows[k])
  OBVIOUS
<1>6. f = File("profile_unsolved", Artifact(rows[k]).phase)
  BY <1>1, <1>5 DEF Over, Relabelling
<1>7. f \in Files({}) /\ f.status = "profile_unsolved" /\ f.phase = Artifact(rows[k]).phase
  <2>1. "profile_unsolved" \in Statuses /\ Artifact(rows[k]).phase \in Phases \cup {"none"}
    BY <1>4, ArtifactTyped DEF Statuses
  <2> QED
    BY <1>6, <2>1, FileTyped
<1>8. rows' = [rows EXCEPT ![k] = replaced(rows[k], f)]
  BY <1>3, <1>5 DEF Publish
<1>9. /\ Touched(k) /\ rows' \in Seq(RowType)
      /\ rows'[k].task = rows[k].task /\ rows'[k].phase = rows[k].phase
      /\ rows'[k].status = rows[k].status /\ rows'[k].path = rows[k].path
      /\ Artifact(rows'[k]) = f
      /\ rows[k].path = "attempt" =>
           rows'[k].attempt = f /\ rows'[k].trajectory = rows[k].trajectory
      /\ rows[k].path = "trajectory" =>
           rows'[k].trajectory = f /\ rows'[k].attempt = rows[k].attempt
  BY <1>4, <1>7, <1>8, PublishRow
<1>10. RowOK(rows[k]) /\ rows[k].path \in {"attempt", "trajectory"}
  BY <1>4, ArtifactTyped DEF Ledger, RowsOK
<1>11. RowOK(rows'[k])
  BY <1>7, <1>9, <1>10 DEF RowOK, Artifact
<1>12. Task' = t
  BY <1>1, <1>3 DEF Task
<1>13. k \notin Demonstrations(Task)'
  BY <1>7, <1>9 DEF Demonstrations, RowsOf
<1> QED
  BY <1>1, <1>2, <1>3, <1>7, <1>9, <1>11, <1>13, RelabelStep

LEMMA CommitRelabel ==
  ASSUME IInv, Commit, ~Attempting, open
  PROVE  IInv'
<1> USE DEF IInv, Process
<1>1. pc = "commit" /\ Relabelling /\ saved' = saved
  BY DEF Commit, Attempting, Relabelling, Saving
<1>2. run.then = "task"
  BY <1>1 DEF Control, Continues, Relabelling
<1>3. PlainOK' /\ Control' /\ run'.at = run.at + 1 /\ pc' = "task"
  BY <1>2, CommitControl, TypeOKParts
<1>4. PICK k, t : k = run.row /\ t = Task
  OBVIOUS
<1>5. /\ rows \in Seq(RowType) /\ k \in DOMAIN rows /\ rows[k] \in RowType
      /\ rows[k].phase = "first_success"
  BY <1>1, <1>4, TheLastRow
<1>6. Artifact(rows[k]).status = "profile_unsolved"
  BY <1>1, <1>4 DEF GivingUp, Current
<1>7. PICK g \in BOOLEAN : g = (rows[k].genuine \/ run.save \in Verdicts)
  BY Zenon
<1>8. PICK r : r = [rows[k] EXCEPT !.status = "profile_unsolved", !.genuine = g]
  OBVIOUS
<1>9. /\ r \in RowType /\ r.task = rows[k].task /\ r.phase = rows[k].phase
      /\ r.status = "profile_unsolved" /\ r.path = rows[k].path
      /\ r.attempt = rows[k].attempt /\ r.trajectory = rows[k].trajectory
  <2>1. "profile_unsolved" \in Statuses
    BY DEF Statuses
  <2> QED
    BY <1>5, <1>7, <1>8, <2>1 DEF RowType
<1>10. Touched(k) /\ rows'[k] = r /\ rows' \in Seq(RowType)
  <2>1. rows' = [rows EXCEPT ![k] = r]
    BY <1>1, <1>4, <1>5, <1>7, <1>8 DEF Commit, Relabelling
  <2> QED
    BY <1>5, <1>9, <2>1, ChangeRow
<1>11. Artifact(r) = Artifact(rows[k])
  BY <1>9 DEF Artifact
<1>12. RowOK(rows[k])
  BY <1>5 DEF Ledger, RowsOK
<1>13. RowOK(rows'[k])
  <2>1. RowOK(r)
    BY <1>5, <1>6, <1>9, <1>11, <1>12 DEF RowOK
  <2> QED
    BY <1>10, <2>1
<1>14. k \notin Demonstrations(t)'
  BY <1>9, <1>10 DEF Demonstrations
<1>15. rows'[k].task = t /\ Settled(t)'
  BY <1>1, <1>4, <1>9, <1>10, <1>11, <1>14, RelabelKeeps
<1>16. Ledger'
  BY <1>1, <1>4, <1>10, <1>13, RelabelLedger
<1>17. TypeOK'
  BY <1>3, <1>10 DEF TypeOK, PlainOK, RunType, UsedType
<1>18. \A u : Settled(u) => Settled(u)'
  BY <1>1, <1>4, <1>10, <1>15, RelabelSettles
<1>19. Settling'
  <2>1. run.at \in DOMAIN TaskList /\ t = TaskList[run.at]
    BY <1>1, <1>4 DEF Control, OnTask, Task
  <2>2. pc # "down"
    BY <1>1
  <2>3. ASSUME NEW i \in DOMAIN TaskList, i < run'.at PROVE Settled(TaskList[i])'
    <3>1. i < run.at \/ i = run.at
      BY <1>3, <2>1, <2>3, TheList
    <3>2. CASE i = run.at
      BY <1>15, <2>1, <3>2
    <3>3. CASE i < run.at
      BY <1>18, <2>2, <3>3 DEF Settling
    <3> QED
      BY <3>1, <3>2, <3>3
  <2>4. saved' = "complete" => \A u \in Tasks : Settled(u)'
    BY <1>1, <1>18 DEF Settling
  <2>5. ~Present' /\ pc' # "start"
    BY <1>3 DEF Present, Attempting, Saving
  <2> QED
    BY <2>3, <2>4, <2>5 DEF Settling
<1> QED
  BY <1>3, <1>16, <1>17, <1>19, IdleKept

----------------------------------------------------------------------------
(* The invariant holds of every run.                                       *)

LEMMA InitInvariant == Init => IInv
<1> SUFFICES ASSUME Init PROVE IInv
  OBVIOUS
<1>1. /\ rows = <<>> /\ saved = "none" /\ open = FALSE /\ pc = "down" /\ run = NewRun
      /\ guard = Quiet
  BY DEF Init
<1>2. used \in UsedType
  BY Bounds DEF Init, UsedType
<1>3. TypeOK
  <2>1. rows \in Seq(RowType)
    BY <1>1
  <2> QED
    BY <1>1, <1>2, <2>1, Fresh, QuietTyped, TypeOKParts DEF PlainOK, PcValues
<1>4. DOMAIN rows = {}
  BY <1>1
<1>5. Ledger
  <2>1. \A t : Made(t) = {} /\ Tried(t) = {}
    BY <1>4 DEF Made, Tried, Ended, CountedOf, RowsOf
  <2>2. Budgets
    BY <2>1, FS_EmptySet, Bounds DEF Budgets, WithinBudget
  <2> QED
    BY <1>4, <2>2 DEF Ledger, RowsOK, SecondDemoFollowsSuccess
<1>6. ~Present /\ ~Relabelling /\ ~Working /\ ~Attempting
  BY <1>1 DEF Present, Attempting, Saving, Relabelling, Working
<1>7. Control
  BY <1>1, <1>6, Fresh, QuietTyped DEF Control, Continues, Pace, Guarding, OnTask, Saving
<1>8. OnRow /\ Progress /\ Counts /\ GivingUp
  BY <1>1, <1>6 DEF OnRow, Progress, Counts, GivingUp
<1>9. Settling
  BY <1>1, <1>6 DEF Settling
<1> QED
  BY <1>3, <1>5, <1>7, <1>8, <1>9 DEF IInv, Process

LEMMA StutterInvariant ==
  ASSUME IInv, UNCHANGED vars
  PROVE  IInv'
<1>1. /\ rows' = rows /\ saved' = saved /\ open' = open /\ pc' = pc /\ run' = run
      /\ guard' = guard /\ used' = used
  BY DEF vars
<1>2. TypeOK' /\ Ledger'
  BY <1>1, SameLedger DEF IInv, TypeOK
<1>3. Control' /\ OnRow'
  BY <1>1 DEF IInv, Process, Control, Continues, Pace, Guarding, OnTask, OnRow, Present, Attempting,
              Relabelling, Saving, Current, Task
<1>4. Progress'
  BY <1>1 DEF IInv, Process, Progress, Working, Attempting, Saving, Current, Artifact
<1>5. Counts'
  BY <1>1 DEF IInv, Process, Counts, Present, Attempting, Saving, Room, Task, Firsts, Seconds,
              CountedOf, RowsOf, Demonstrations, Artifact
<1>6. GivingUp'
  BY <1>1 DEF IInv, Process, GivingUp, Relabelling, Saving, Hopeless, Last, Task, Firsts,
              CountedOf, RowsOf, Demonstrations, Artifact, Current
<1>7. Settling'
  <2>1. \A u : Settled(u)' = Settled(u)
    BY <1>1, SameTable
  <2> QED
    BY <1>1, <2>1 DEF IInv, Settling, Present, Attempting, Saving
<1> QED
  BY <1>2, <1>3, <1>4, <1>5, <1>6, <1>7 DEF IInv, Process

LEMMA NextTaskStep ==
  ASSUME IInv, NextTask
  PROVE  IInv'
<1> USE DEF IInv, Process
<1>1. /\ PlainOK' /\ Control' /\ rows' = rows /\ pc = "task"
      /\ \/ pc' = "closing" /\ saved' = saved /\ run'.at = run.at
         \/ /\ pc' = "closing" /\ saved' = "complete" /\ run'.at = run.at
            /\ run.at > Len(TaskList)
         \/ /\ saved' = saved /\ open' = open /\ run.at \in DOMAIN TaskList
            /\ \E t : /\ t = Task
                      /\ Outcome(t, Cardinality(Firsts(t)), Cardinality(Seconds(t)))
  BY NextTaskControl DEF NextTask
<1>2. CASE pc' = "closing" /\ saved' = saved /\ run'.at = run.at
  BY <1>1, <1>2, IdleStep
<1>3. CASE /\ pc' = "closing" /\ saved' = "complete" /\ run'.at = run.at
           /\ run.at > Len(TaskList)
  <2>1. TypeOK' /\ Ledger'
    BY <1>1, SameLedger, TypeOKParts DEF TypeOK, PlainOK, RunType, UsedType
  <2>2. \A i \in DOMAIN TaskList : Settled(TaskList[i])
    <3>1. ASSUME NEW i \in DOMAIN TaskList PROVE i < run.at
      <4>1. i \in Nat /\ i <= Len(TaskList) /\ Len(TaskList) \in Nat
        BY TheList
      <4>2. run.at \in Nat
        BY TypeOKParts, TheList DEF PlainOK, RunType
      <4> QED
        BY <1>3, <4>1, <4>2
    <3> QED
      BY <1>1, <3>1 DEF Settling
  <2>3. \A u : Settled(u)' = Settled(u)
    BY <1>1, SameTable
  <2>4. \A u \in Tasks : Settled(u)'
    BY <2>2, <2>3 DEF Tasks
  <2>5. \A i \in DOMAIN TaskList : Settled(TaskList[i])'
    BY <2>2, <2>3
  <2>6. ~Present' /\ pc' # "start"
    BY <1>3 DEF Present, Attempting, Saving
  <2>7. Settling'
    BY <2>4, <2>5, <2>6 DEF Settling
  <2> QED
    BY <1>1, <1>3, <2>1, <2>7, IdleKept
<1>4. CASE /\ saved' = saved /\ open' = open /\ run.at \in DOMAIN TaskList
           /\ \E t : /\ t = Task
                     /\ Outcome(t, Cardinality(Firsts(t)), Cardinality(Seconds(t)))
  BY <1>1, <1>4, OutcomeStep
<1> QED
  BY <1>1, <1>2, <1>3, <1>4

LEMMA NextAttemptStep ==
  ASSUME IInv, NextAttempt
  PROVE  IInv'
<1>1. /\ PlainOK' /\ Control' /\ rows' = rows /\ saved' = saved /\ pc = "decide"
      /\ \/ pc' = "closing" /\ run'.at = run.at
         \/ /\ open' = open /\ run.at \in DOMAIN TaskList
            /\ \E t : /\ t = Task
                      /\ Outcome(t, Cardinality(Firsts(t)), Cardinality(Seconds(t)))
  BY NextAttemptControl DEF NextAttempt, IInv, Process
<1>2. CASE pc' = "closing" /\ run'.at = run.at
  BY <1>1, <1>2, IdleStep
<1>3. CASE /\ open' = open /\ run.at \in DOMAIN TaskList
           /\ \E t : /\ t = Task
                     /\ Outcome(t, Cardinality(Firsts(t)), Cardinality(Seconds(t)))
  BY <1>1, <1>3, OutcomeStep
<1> QED
  BY <1>1, <1>2, <1>3

LEMMA NextInvariant == IInv /\ [Next]_vars => IInv'
<1> SUFFICES ASSUME IInv, [Next]_vars PROVE IInv'
  OBVIOUS
<1>1. PlainOK /\ Control
  BY TypeOKParts DEF IInv, Process
<1>2. CASE NextTask
  BY <1>2, NextTaskStep
<1>3. CASE NextAttempt
  BY <1>3, NextAttemptStep
<1>4. CASE MarkUnsolved
  BY <1>4, MarkUnsolvedStep
<1>5. CASE StartAttempt
  BY <1>5, StartAttemptStep
<1>6. CASE Reset
  BY <1>1, <1>6, ResetControl, ResetOnward, OnwardStep
<1>7. CASE Turn
  BY <1>1, <1>7, TurnControl, TurnOnward, OnwardStep
<1>8. CASE CallTeacher
  BY <1>1, <1>8, CallControl, CallOnward, OnwardStep
<1>9. CASE Play
  BY <1>1, <1>9, PlayControl, PlayOnward, OnwardStep
<1>10. CASE Terminal
  BY <1>1, <1>10, TerminalControl, TerminalOnward, OnwardStep
<1>11. CASE ReadRow
  <2>1. CASE Attempting
    BY <1>1, <1>11, <2>1, ReadRowControl, ReadOnward, OnwardStep
  <2>2. CASE ~Attempting
    BY <1>11, <2>2, ReadRelabel
  <2> QED
    BY <2>1, <2>2
<1>12. CASE Publish
  BY <1>12, PublishAttempt, PublishRelabel
<1>13. CASE Commit
  BY <1>13, CommitAttempt, CommitRelabel, ClosedCommitStep
<1>14. CASE PublishTrajectory
  BY <1>14, PublishTrajectoryStep
<1>15. CASE CommitTrajectory
  BY <1>15, CommitTrajectoryOpen, ClosedCommitStep
<1>16. CASE Conclude
  BY <1>1, <1>16, ConcludeControl, ConcludeOnward, OnwardStep
<1>17. CASE Release
  BY <1>1, <1>17, ReleaseControl, ReleaseOnward, OnwardStep
<1>18. CASE Stopping
  <2>1. /\ PlainOK' /\ Control' /\ pc' = "closing" /\ run' = run /\ rows' = rows
        /\ pc = "stopping" /\ saved' \in {saved, "infrastructure_interrupted", "stopped"}
    BY <1>1, <1>18, StoppingControl DEF Stopping
  <2> QED
    BY <2>1, IdleStep
<1>19. CASE Close \/ Crash \/ Start
  <2>1. /\ PlainOK' /\ Control' /\ rows' = rows /\ saved' = saved
        /\ pc' \in {"down", "task"} /\ (pc' = "task" => run'.at = 1)
    BY <1>1, <1>19, EdgeControl
  <2> QED
    BY <2>1, IdleStep
<1>20. CASE Sigint
  BY <1>20, SigintStep
<1>21. CASE UNCHANGED vars
  BY <1>21, StutterInvariant
<1> QED
  BY <1>2, <1>3, <1>4, <1>5, <1>6, <1>7, <1>8, <1>9, <1>10, <1>11, <1>12, <1>13, <1>14, <1>15,
     <1>16, <1>17, <1>18, <1>19, <1>20, <1>21 DEF Next, Main

\* The invariant holds in every state of a run.
THEOREM Invariant == Spec => []IInv
<1>1. Spec => Init /\ [][Next]_vars
  BY PTL DEF Spec
<1> QED
  BY <1>1, InitInvariant, NextInvariant, PTL

\* Every variable keeps its type, through every fault, Ctrl+C, crash and rerun.
THEOREM TypeCorrect == Spec => []TypeOK
<1>1. IInv => TypeOK
  BY DEF IInv
<1> QED
  BY <1>1, Invariant, PTL

\* However often the run is stopped, no task gets more attempts than
\* PROFILE_LIMITS allows, nor a second demonstration without a first (run_profile).
THEOREM DueAttempts == Spec => []AttemptsAreDue
<1>1. IInv => AttemptsAreDue
  <2> SUFFICES ASSUME IInv PROVE AttemptsAreDue
    OBVIOUS
  <2>1. rows \in Seq(RowType)
    BY TypeOKParts DEF IInv
  <2>2. ASSUME NEW t \in Tasks
        PROVE  /\ Cardinality(Ended(t, "first_success")) <= FirstMax
               /\ Cardinality(Ended(t, "second_demo")) <= SecondMax
    <3>1. Cardinality(Made(t)) <= FirstMax /\ Cardinality(Tried(t)) <= SecondMax
      BY DEF IInv, Ledger, Budgets, WithinBudget
    <3>2. Made(t) \subseteq DOMAIN rows
      BY Counted
    <3>3. PICK E : E = Ended(t, "first_success")
      OBVIOUS
    <3>4. E \subseteq Made(t)
      BY <3>3 DEF Ended, Made
    <3>5. Cardinality(E) <= Cardinality(Made(t))
      BY <2>1, <3>2, <3>4, PartIsSmaller
    <3>6. Cardinality(Made(t)) \in Nat /\ Cardinality(E) \in Nat
      BY <2>1, <3>2, <3>4, PartsAreFinite
    <3>7. Cardinality(E) <= FirstMax
      BY <3>1, <3>5, <3>6, Bounds
    <3> QED
      BY <3>1, <3>3, <3>7 DEF Tried
  <2>3. AttemptsWithinLimits
    BY <2>2 DEF AttemptsWithinLimits
  <2> QED
    BY <2>3 DEF IInv, Ledger, AttemptsAreDue
<1> QED
  BY <1>1, Invariant, PTL

\* A row that says how an attempt ended never points to a file that still says it
\* is in progress (TeacherLedger.save_attempt, save_trajectory, handle_sigint).
THEOREM FilesFirst == Spec => []FilesAreAhead
<1>1. IInv => FilesAreAhead
  BY DEF IInv, Ledger, RowsOK, RowOK, FilesAreAhead
<1> QED
  BY <1>1, Invariant, PTL

\* A run that says it is complete has settled every task of the list (run_profile).
THEOREM CompleteSettles == Spec => []CompleteIsSettled
<1>1. IInv => CompleteIsSettled
  <2> SUFFICES ASSUME IInv, saved = "complete", NEW t \in Tasks
               PROVE  \/ Demonstrations(t) # {} /\ SecondAttempts(t) >= SecondMax
                      \/ /\ Demonstrations(t) = {} /\ FirstAttempts(t) >= FirstMax
                         /\ \E i \in CountedOf(t) : /\ \A j \in CountedOf(t) : j <= i
                                                    /\ rows[i].status = "profile_unsolved"
    BY DEF CompleteIsSettled
  <2>1. Settled(t)
    BY DEF IInv, Settling
  <2>2. /\ FirstAttempts(t) = Cardinality(Firsts(t))
        /\ SecondAttempts(t) = Cardinality(Seconds(t))
    BY CountsAreNumbers, TypeOKParts DEF IInv
  <2> QED
    BY <2>1, <2>2 DEF Settled, Hopeless, Last
<1> QED
  BY <1>1, Invariant, PTL
=============================================================================
