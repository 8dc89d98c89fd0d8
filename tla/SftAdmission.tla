---------------------------- MODULE SftAdmission ----------------------------
(***************************************************************************)
(* The SFT GPU admission (run_sft_gpu_admission.py and its .sh wrapper):   *)
(* one optimizer update over a frozen selection of examples, preceded by   *)
(* two probes of it, and a report in an output directory that is used only *)
(* once.                                                                   *)
(*                                                                         *)
(* Nothing locks the directory: launches started at the same time run side *)
(* by side, the script or its wrapper may be killed anywhere (an interrupt *)
(* is a kill, for main catches Exception only), and a write or a print may *)
(* fail.  A model is the set of its gradients and whether its LoRA         *)
(* parameters have been updated.  The report, every file of the checkpoint *)
(* and the log are kept with the launch that wrote them.                   *)
(***************************************************************************)
EXTENDS Naturals, Sequences, FiniteSets

LOCAL INSTANCE SequencesExt

CONSTANTS
  Launches,    \* the invocations of the script
  Nobody,      \* the author of what is not there
  Ordered,     \* accepted_id of the frozen dataset, by total_tokens, then by name
  Others,      \* selections a file may hold that were not made from it
  Count,       \* its length, 32 in the code
  Defects,     \* \subseteq DefectKinds
  Faults,      \* \subseteq {"kill", "write", "print", "nonfinite", "unchanged", "error"}
  MaxFaults    \* bound

\* What a preflight refuses.
DefectKinds == {"path", "artifact", "dataset", "source", "dependency", "model",
                "gpu", "bf16", "disk"}
Strata == {"p50", "p90", "p99"}
Roles  == Strata \cup {"longest", "stratified"}

Examples == ToSet(Ordered)

----------------------------------------------------------------------------
(* The selection                                                           *)

\* Python's round of a / b: the half goes to the even neighbour.  The code divides
\* in floating point, which can differ at a half only.
round(a, b) ==
  LET up == (2 * a + b) \div (2 * b)
  IN  IF (2 * a + b) % (2 * b) = 0 /\ up % 2 = 1 THEN up - 1 ELSE up

\* prepare_sft_gpu_admission.py: the longest example, the three quantiles, then
\* evenly spaced examples and at last any, as long as fewer than count are chosen.
\* An example that is met again gets the role too.
select(ordered, count) ==
  LET at(a, b) == ordered[round((Len(ordered) - 1) * a, b) + 1]
      add(sel, pair) ==
        [e \in DOMAIN sel \cup {pair[1]} |->
           (IF e \in DOMAIN sel THEN sel[e] ELSE {}) \cup (IF e = pair[1] THEN {pair[2]} ELSE {})]
      fill(sel, e) == IF Cardinality(DOMAIN sel) >= count THEN sel
                      ELSE add(sel, <<e, "stratified">>)
      named == <<<<Last(ordered), "longest">>, <<at(50, 100), "p50">>,
                 <<at(90, 100), "p90">>, <<at(99, 100), "p99">>>>
  IN  FoldLeft(fill, FoldLeft(add, << >>, named),
               [index \in 1..(count - 1) |-> at(index, count)] \o ordered)

\* The selection with SELECTION_SHA256.
Frozen == select(Ordered, Count)

Selections == {Frozen} \cup Others

ASSUME SftAdmissionAssumption ==
  /\ Nobody \notin Launches /\ IsFiniteSet(Launches)
  /\ Ordered # << >> /\ IsInjective(Ordered) /\ Count \in 1..Len(Ordered) /\ MaxFaults \in Nat
  /\ \A s \in Selections : DOMAIN s \subseteq Examples /\ \A e \in DOMAIN s : s[e] \subseteq Roles
  /\ Defects \subseteq DefectKinds

VARIABLES
  dir,      \* the output directory
  run,      \* the launches
  faults

vars == <<dir, run, faults>>

NoReport == [status |-> "none", failure |-> "none", phases |-> {}, by |-> Nobody]

Files == {"adapter", "tokenizer", "optimizer", "scheduler", "trainer_state", "lineage"}

NoFile == [f \in Files |-> Nobody]

\* Of a launch: its report in memory, current_phase, the examples whose gradients
\* have been accumulated (how often each), the examples a phase still has to play,
\* the updates made to the LoRA parameters, and as an auxiliary what the update was of.
Idle == [pc |-> "idle", shell |-> FALSE, defect |-> "none", selection |-> Frozen,
         report |-> NoReport, phase |-> "model_load", grads |-> [e \in Examples |-> 0],
         todo |-> {}, lora |-> FALSE, saved |-> {}, updated |-> [e \in Examples |-> 0],
         exit |-> "none"]

Init ==
  /\ dir \in {[made |-> m, by |-> Nobody, report |-> NoReport, log |-> Nobody,
               checkpoint |-> NoFile] : m \in BOOLEAN}
  /\ run = [l \in Launches |-> Idle]
  /\ faults = 0

----------------------------------------------------------------------------
(* What is checked                                                         *)

having(sel, role) == {e \in DOMAIN sel : role \in sel[e]}

plan_ok(sel) ==
  /\ Cardinality(DOMAIN sel) = Count
  /\ \A role \in Strata \cup {"longest"} : Cardinality(having(sel, role)) = 1

phase_plan(sel) ==
  [A |-> having(sel, "longest"),
   B |-> UNION {having(sel, role) : role \in Strata},
   C |-> DOMAIN sel]

validate_selection_payload(sel) == sel = Frozen /\ plan_ok(sel)

\* The path is a run directory of this repository.
validate_output_path(r) == r.defect # "path"

validate_dataset_identity(r) == r.defect # "dataset"

validate_dependency_version(r) == r.defect # "dependency"

\* Exactly one GPU, available, with bf16.
validate_cuda(r) == r.defect \notin {"gpu", "bf16"}

\* The parameters are told apart by whether they were updated.
_hash_lora(r) == r.lora

validate_success_report(report) == report.status = "PASS" /\ report.phases = {"A", "B", "C"}

----------------------------------------------------------------------------
(* Steps                                                                   *)

Set(l, r) == run' = [run EXCEPT ![l] = r]

At(l, p) == run[l].pc = p

Fault(kind) == kind \in Faults /\ faults < MaxFaults /\ faults' = faults + 1

\* The process ends with this code; under the wrapper a copy of the log follows.
Exits(r, code) == [r EXCEPT !.pc = IF r.shell THEN "log" ELSE "ended", !.exit = code]

\* An exception in the guarded part of main, reported in current_phase.
Raises(r) == [r EXCEPT !.pc = "fail",
                       !.report = [@ EXCEPT !.status = "FAIL", !.failure = r.phase]]

\* The wrapper looks for the directory, then starts the script; or the script is
\* started without it.
Start(l, shell, sel, defect) ==
  /\ At(l, "idle")
  /\ Set(l, IF shell /\ dir.made
            THEN [Idle EXCEPT !.pc = "ended", !.exit = "2"]
            ELSE [Idle EXCEPT !.pc = "preflight", !.shell = shell, !.selection = sel,
                              !.defect = defect])
  /\ UNCHANGED <<dir, faults>>

Empty == dir.report.status = "none" /\ dir.log = Nobody /\ dir.checkpoint = NoFile

\* _preflight
Preflight(l) ==
  /\ At(l, "preflight")
  /\ LET r == run[l]
         passes == /\ validate_output_path(r)
                   /\ dir.made => Empty
                   /\ validate_dataset_identity(r) /\ validate_selection_payload(r.selection)
                   /\ validate_dependency_version(r) /\ validate_cuda(r)
                   /\ r.defect \notin {"artifact", "source", "model", "disk"}
     IN  Set(l, [run[l] EXCEPT !.pc = IF passes THEN "mkdir" ELSE "refuse"])
  /\ UNCHANGED <<dir, faults>>

Made(l) == dir' = [dir EXCEPT !.made = TRUE, !.by = l]

\* A refused launch reports only in a directory it makes itself, and prints.
Refuse(l) ==
  /\ At(l, "refuse")
  /\ LET reports == validate_output_path(run[l]) /\ ~dir.made
     IN  \/ /\ reports /\ Made(l) /\ UNCHANGED faults
           /\ Set(l, [run[l] EXCEPT !.pc = "refused",
                        !.report = [NoReport EXCEPT !.status = "FAIL", !.failure = "preflight",
                                                    !.by = l]])
         \/ ~reports /\ Set(l, Exits(run[l], "2")) /\ UNCHANGED <<dir, faults>>
         \/ ~reports /\ Fault("print") /\ Set(l, Exits(run[l], "1")) /\ UNCHANGED dir

\* write_text: complete, or cut short by an error (a full disk) that is raised.
Written(l)   == dir' = [dir EXCEPT !.report = run[l].report]
CutShort(l)  == dir' = [dir EXCEPT !.report = [NoReport EXCEPT !.status = "torn", !.by = l]]

\* An error of this write is caught and dropped, one of the print is not.
WriteRefusal(l) ==
  /\ At(l, "refused")
  /\ \/ Written(l) /\ Set(l, Exits(run[l], "2")) /\ UNCHANGED faults
     \/ Fault("write") /\ CutShort(l) /\ Set(l, Exits(run[l], "2"))
     \/ Fault("print") /\ Written(l) /\ Set(l, Exits(run[l], "1"))

\* Mutant: exist_ok=True.
mkdir_exist_ok(l) == TRUE

\* output.mkdir raises when the directory is there, outside any handler.
mkdir_ok(l) == ~dir.made

\* So is the print that follows.
MakeDirectory(l) ==
  /\ At(l, "mkdir")
  /\ \/ /\ mkdir_ok(l) /\ Made(l) /\ UNCHANGED faults
        /\ Set(l, [run[l] EXCEPT !.pc = "running",
                     !.report = [NoReport EXCEPT !.status = "running", !.by = l]])
     \/ mkdir_ok(l) /\ Fault("print") /\ Made(l) /\ Set(l, Exits(run[l], "1"))
     \/ ~mkdir_ok(l) /\ Set(l, Exits(run[l], "1")) /\ UNCHANGED <<dir, faults>>

\* The first write is outside the guarded part.
WriteRunning(l) ==
  /\ At(l, "running")
  /\ \/ Written(l) /\ Set(l, [run[l] EXCEPT !.pc = "load"]) /\ UNCHANGED faults
     \/ Fault("write") /\ CutShort(l) /\ Set(l, Exits(run[l], "1"))

----------------------------------------------------------------------------
(* The phases                                                              *)

\* Mutant: the gradients of a probe stay in the model.
keep_grad(r) == r

zero_grad(r) == [r EXCEPT !.grads = [e \in Examples |-> 0]]

backward(r, e) == [r EXCEPT !.grads[e] = @ + 1]

\* Tokenizer, rows and model are loaded, then phase A begins and is announced.
LoadModel(l) ==
  /\ At(l, "load")
  /\ \/ Set(l, [run[l] EXCEPT !.pc = "A", !.phase = "A",
                              !.todo = phase_plan(run[l].selection).A]) /\ UNCHANGED faults
     \/ Fault("error") /\ Set(l, Raises(run[l]))
     \/ Fault("print") /\ Set(l, Raises([run[l] EXCEPT !.phase = "A"]))
  /\ UNCHANGED dir

\* run_one of one example of phases A and B: gradients cleared before and after.
Probe(l, p) ==
  /\ p \in {"A", "B"} /\ At(l, p)
  /\ \E e \in run[l].todo :
       \/ /\ Set(l, zero_grad([backward(zero_grad(run[l]), e) EXCEPT !.todo = @ \ {e}]))
          /\ UNCHANGED faults
       \/ Fault("nonfinite") /\ Set(l, Raises(run[l]))
  /\ UNCHANGED dir

\* What follows a phase, once its result is on disk.
Next_of(r) ==
  CASE r.phase = "A" -> [r EXCEPT !.pc = "B", !.phase = "B", !.todo = phase_plan(r.selection).B]
    [] r.phase = "B" -> [r EXCEPT !.pc = "optimizer"]

\* The result of phase A or B is added to the report and written; then the phase is
\* announced as passed, and after A the next one.
WritePhase(l, p) ==
  /\ p \in {"A", "B"} /\ At(l, p) /\ run[l].todo = {}
  /\ LET r == [run[l] EXCEPT !.report.phases = @ \cup {p}]
     IN  \/ /\ dir' = [dir EXCEPT !.report = r.report] /\ Set(l, Next_of(r))
            /\ UNCHANGED faults
         \/ Fault("write") /\ CutShort(l) /\ Set(l, Raises(r))
         \/ /\ Fault("print") /\ dir' = [dir EXCEPT !.report = r.report]
            /\ \E q \in {r, Next_of(r)} : Set(l, Raises(q))

\* AdamW, LambdaLR (still phase B), then in phase C the hash of the parameters and
\* zero_grad.
Optimizer(l) ==
  /\ At(l, "optimizer")
  /\ \/ /\ Set(l, zero_grad([run[l] EXCEPT !.pc = "C", !.phase = "C",
                                           !.todo = phase_plan(run[l].selection).C]))
        /\ UNCHANGED faults
     \/ Fault("error") /\ \E p \in {"B", "C"} : Set(l, Raises([run[l] EXCEPT !.phase = p]))
  /\ UNCHANGED dir

\* One micro batch of phase C.
Accumulate(l) ==
  /\ At(l, "C")
  /\ \E e \in run[l].todo :
       \/ Set(l, [backward(run[l], e) EXCEPT !.todo = @ \ {e}]) /\ UNCHANGED faults
       \/ Fault("nonfinite") /\ Set(l, Raises(run[l]))
  /\ UNCHANGED dir

\* Finite gradients and norm, the step of the optimizer, zero_grad, and the two hashes,
\* which have to differ.
Update(l) ==
  /\ At(l, "C") /\ run[l].todo = {}
  /\ \E changed \in BOOLEAN :
       LET r == zero_grad([run[l] EXCEPT !.lora = changed, !.updated = run[l].grads])
       IN  /\ IF changed THEN UNCHANGED faults ELSE Fault("unchanged")
           /\ Set(l, IF _hash_lora(r) # _hash_lora(run[l]) THEN [r EXCEPT !.pc = "save"]
                     ELSE Raises(r))
  /\ UNCHANGED dir

\* The files of checkpoint-1, each after the other, in the order of the code.
SaveOrder == <<"adapter", "tokenizer", "optimizer", "scheduler", "trainer_state", "lineage">>

Save(l) ==
  /\ At(l, "save") /\ run[l].saved # Files
  /\ LET file == SaveOrder[Cardinality(run[l].saved) + 1]
     IN  \/ /\ dir' = [dir EXCEPT !.checkpoint[file] = l]
            /\ Set(l, [run[l] EXCEPT !.saved = @ \cup {file}]) /\ UNCHANGED faults
         \/ Fault("write") /\ Set(l, Raises(run[l])) /\ UNCHANGED dir

Saved(r) == r.saved = Files

\* phase_c, status PASS, validate_success_report, and the report's last write; what is
\* printed then is printed in the guarded part too.
Pass(l) ==
  /\ At(l, "save") /\ Saved(run[l])
  /\ LET r == [run[l] EXCEPT !.report.phases = @ \cup {"C"}, !.report.status = "PASS"]
     IN  \/ /\ IF validate_success_report(r.report)
               THEN dir' = [dir EXCEPT !.report = r.report] /\ Set(l, Exits(r, "0"))
               ELSE UNCHANGED dir /\ Set(l, Raises(r))
            /\ UNCHANGED faults
         \/ Fault("write") /\ CutShort(l) /\ Set(l, Raises(r))
         \/ /\ Fault("print") /\ validate_success_report(r.report)
            /\ dir' = [dir EXCEPT !.report = r.report] /\ Set(l, Raises(r))

\* The handler writes the report again and prints; an error there is nobody's.
Fail(l) ==
  /\ At(l, "fail")
  /\ \/ /\ dir' = [dir EXCEPT !.report = run[l].report]
        /\ Set(l, Exits(run[l], "3")) /\ UNCHANGED faults
     \/ Fault("write") /\ CutShort(l) /\ Set(l, Exits(run[l], "1"))
     \/ /\ Fault("print") /\ dir' = [dir EXCEPT !.report = run[l].report]
        /\ Set(l, Exits(run[l], "1"))

Copied(l) == dir' = [dir EXCEPT !.log = l]

\* The wrapper copies the log into the directory, whoever made it; errexit is set
\* again, so a failing cp is the end of it.
CopyLog(l) ==
  /\ At(l, "log")
  /\ \/ /\ IF dir.made THEN Copied(l) ELSE UNCHANGED dir
        /\ Set(l, [run[l] EXCEPT !.pc = "ended"]) /\ UNCHANGED faults
     \/ /\ dir.made /\ Fault("write")
        /\ Copied(l) \/ UNCHANGED dir
        /\ Set(l, [run[l] EXCEPT !.pc = "ended", !.exit = "1"])

\* Killed, alone or with its wrapper: between steps, or in the middle of a write of the
\* report.  A wrapper that is left goes on as after any other exit.
Writing(r) ==
  \/ r.pc \in {"refused", "running", "fail"}
  \/ r.pc \in {"A", "B"} /\ r.todo = {}
  \/ r.pc = "save" /\ Saved(r)

Kill(l) ==
  /\ ~ At(l, "idle") /\ ~ At(l, "log") /\ ~ At(l, "ended") /\ Fault("kill")
  /\ \E end \in {"ended"} \cup (IF run[l].shell THEN {"log"} ELSE {}) :
       Set(l, [run[l] EXCEPT !.pc = end, !.exit = "killed"])
  /\ \/ UNCHANGED dir
     \/ Writing(run[l]) /\ CutShort(l)

\* The wrapper is killed: the script it started goes on without it; when the script
\* has ended, the log may be copied or not.
KillWrapper(l) ==
  /\ run[l].shell /\ ~ At(l, "ended") /\ Fault("kill")
  /\ IF At(l, "log")
     THEN /\ \/ dir.made /\ Copied(l)
             \/ UNCHANGED dir
          /\ Set(l, [run[l] EXCEPT !.pc = "ended", !.exit = "killed"])
     ELSE Set(l, [run[l] EXCEPT !.shell = FALSE]) /\ UNCHANGED dir

Launch(l) == \E shell \in BOOLEAN, sel \in Selections, d \in Defects \cup {"none"} :
               Start(l, shell, sel, d)

Step(l) ==
  \/ Preflight(l) \/ Refuse(l) \/ WriteRefusal(l) \/ MakeDirectory(l) \/ WriteRunning(l)
  \/ LoadModel(l) \/ (\E p \in {"A", "B"} : Probe(l, p) \/ WritePhase(l, p))
  \/ Optimizer(l) \/ Accumulate(l) \/ Update(l) \/ Save(l) \/ Pass(l) \/ Fail(l) \/ CopyLog(l)

\* The admission is over once every launch has ended.
Done == (\A l \in Launches : run[l].pc = "ended") /\ UNCHANGED vars

Next == (\E l \in Launches : Launch(l) \/ Step(l) \/ Kill(l) \/ KillWrapper(l)) \/ Done

Spec == Init /\ [][Next]_vars
----------------------------------------------------------------------------
(* Properties                                                              *)

Report == [status : {"none", "running", "torn", "PASS", "FAIL"},
           failure : {"none", "preflight", "model_load", "A", "B", "C"},
           phases : SUBSET {"A", "B", "C"}, by : Launches \cup {Nobody}]

Directory == [made : BOOLEAN, by : Launches \cup {Nobody}, report : Report,
              log : Launches \cup {Nobody}, checkpoint : [Files -> Launches \cup {Nobody}]]

\* The types of the variables, and that a directory somebody made is there.
TypeOK ==
  /\ dir \in Directory
  /\ dir.by # Nobody => dir.made
  /\ \A l \in Launches : run[l].report \in Report
  /\ faults \in 0..MaxFaults

\* A PASS in the report is backed: the launch that made the directory saved every
\* file of the checkpoint there, after one update that changed the LoRA parameters
\* and was made of the gradients of the frozen examples, each once.
PassIsBacked ==
  dir.report.status = "PASS" =>
    /\ dir.by # Nobody /\ dir.report.phases = {"A", "B", "C"}
    /\ \A f \in Files : dir.checkpoint[f] = dir.by
    /\ run[dir.by].lora
    /\ \A e \in Examples : run[dir.by].updated[e] = IF e \in DOMAIN Frozen THEN 1 ELSE 0

\* The report and the checkpoint are one launch's: whichever launches lost the race for
\* mkdir, the report and every file of checkpoint-1 that is there were written by the
\* launch that made the directory, and no other script is at work in it.  The log is
\* not: the wrapper of a launch that lost copies its log there too.
OneLaunchPerDirectory ==
  /\ dir.report.by \in {Nobody, dir.by}
  /\ \A f \in Files : dir.checkpoint[f] \in {Nobody, dir.by}
  /\ \A l \in Launches : run[l].pc \in {"refused", "running", "load", "A", "B", "optimizer",
                                        "C", "save", "fail"} => dir.by = l

\* A FAIL report names a phase the launch had reached, with every phase before it
\* completed and none after it.
FailureIsLocated ==
  dir.report.status = "FAIL" =>
    LET done == dir.report.phases
    IN  CASE dir.report.failure \in {"preflight", "model_load"} -> done = {}
          [] dir.report.failure = "A" -> done \subseteq {"A"}
          [] dir.report.failure = "B" -> "A" \in done /\ "C" \notin done
          [] dir.report.failure = "C" -> {"A", "B"} \subseteq done

\* The exit code agrees with the report, also when other launches follow: 0 with
\* PASS, 3 with FAIL, and it stays so.
ExitAgreesWithReport ==
  \A l \in Launches :
    /\ run[l].exit = "0" => dir.report.status = "PASS" /\ dir.report.by = l
    /\ run[l].exit = "3" => dir.report.status = "FAIL" /\ dir.report.by = l

\* What the admission says is so, whichever launches ran beside it, were killed or
\* could not write: a PASS is backed, a FAIL tells where, the exit code says the same.
ReportIsTrue == PassIsBacked /\ FailureIsLocated /\ ExitAgreesWithReport

=============================================================================
