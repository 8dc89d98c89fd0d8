------------------------- MODULE SftAdmissionProofs -------------------------
(***************************************************************************)
(* What SftAdmission's run checks for two launches and three examples,     *)
(* proved for any finite set of launches, any dataset, any number of       *)
(* examples and any faults.  Nothing of `select` is used but that it names *)
(* examples of the dataset.                                                *)
(***************************************************************************)
EXTENDS SftAdmission, FiniteSetTheorems, TLAPS

\* A launch that works in the directory, and one that has not begun to save.
Working == {"refused", "running", "load", "A", "B", "optimizer", "C", "save", "fail"}
Unsaved == {"running", "load", "A", "B", "optimizer", "C"}

\* One that has nothing to change in its update any more.
Over == {"fail", "log", "ended"}

Pcs == {"idle", "preflight", "refuse", "mkdir", "log", "ended"} \cup Working

RunType ==
  [pc : Pcs, shell : BOOLEAN, defect : Defects \cup {"none"}, selection : Selections,
   report : Report, phase : {"model_load", "A", "B", "C"}, grads : [Examples -> Nat],
   todo : SUBSET Examples, lora : BOOLEAN, saved : SUBSET Files,
   updated : [Examples -> Nat], exit : {"none", "0", "1", "2", "3", "killed"}]

\* What FailureIsLocated says of a report.
Located(report) ==
  CASE report.failure \in {"preflight", "model_load"} -> report.phases = {}
    [] report.failure = "A" -> report.phases \subseteq {"A"}
    [] report.failure = "B" -> "A" \in report.phases /\ "C" \notin report.phases
    [] report.failure = "C" -> {"A", "B"} \subseteq report.phases
    [] OTHER -> FALSE

\* The gradients of the frozen examples, each once, those of `left` excepted.
EachOnce(counts, left) ==
  \A e \in Examples : counts[e] = IF e \in DOMAIN Frozen /\ e \notin left THEN 1 ELSE 0

\* A checkpoint of which this launch has written these files, and nobody another one.
SavedBy(l, saved) == [f \in Files |-> IF f \in saved THEN l ELSE Nobody]

\* The launch has reached this phase and completed these.
Reached(r, phase, phases) == r.phase = phase /\ r.report.phases = phases

\* What holds of a launch l that is at r, with the directory as it is.
Good(l, r, d) ==
  /\ r.pc \in Working => d.made /\ d.by = l /\ r.report.by = l
  /\ r.pc \in Unsaved \cup {"preflight", "mkdir"} => r.saved = {} /\ ~r.lora
  /\ r.pc \in {"preflight", "mkdir"} => r.phase = "model_load"
  /\ r.pc \in Unsaved \cup {"mkdir", "save"} => r.selection = Frozen
  /\ r.pc \in Unsaved \cup {"save"} => /\ r.report.status = "running"
                                    /\ d.checkpoint = SavedBy(l, r.saved)
  /\ r.pc \in {"running", "load"} => Reached(r, "model_load", {})
  /\ r.pc = "A" => Reached(r, "A", {})
  /\ r.pc = "B" => Reached(r, "B", {"A"})
  /\ r.pc = "optimizer" => Reached(r, "B", {"A", "B"})
  /\ r.pc \in {"C", "save"} => Reached(r, "C", {"A", "B"})
  /\ r.pc = "C" => EachOnce(r.grads, r.todo) /\ r.todo \subseteq DOMAIN Frozen
  /\ r.pc = "save" => r.lora /\ EachOnce(r.updated, {})
  /\ r.pc \in {"refused", "fail"} => r.report.status = "FAIL" /\ Located(r.report)
  /\ r.exit # "none" => r.pc \in {"log", "ended"}
  /\ r.exit = "0" => d.by = l /\ d.report.by = l /\ d.report.status = "PASS"
  /\ r.exit = "3" => d.by = l /\ d.report.by = l /\ d.report.status = "FAIL"

\* What a PASS in the directory rests on: its launch, which is at r, has saved every
\* file and changes nothing of its update any more.
Proven(d, r) ==
  /\ \A f \in Files : d.checkpoint[f] = d.by
  /\ d.report.phases = {"A", "B", "C"}
  /\ r.pc \in Over /\ r.lora /\ EachOnce(r.updated, {})

\* What holds of the directory.
DirInv ==
  /\ dir.by = Nobody => dir.checkpoint = NoFile /\ dir.report = NoReport
  /\ \A f \in Files : dir.checkpoint[f] \in {Nobody, dir.by}
  /\ dir.report.by \in {Nobody, dir.by}
  /\ dir.report.status = "PASS" => dir.by \in Launches /\ Proven(dir, run[dir.by])
  /\ dir.report.status = "FAIL" => Located(dir.report)

LaunchInv(l) == Good(l, run[l], dir)

\* The inductive invariant.
IInv ==
  /\ TypeOK /\ run \in [Launches -> RunType]
  /\ \A l \in Launches : LaunchInv(l)
  /\ DirInv

----------------------------------------------------------------------------
(* Frames                                                                  *)

\* What a launch may do to the directory: log in it, make it, or work in its own.
OwnDir(l) ==
  \/ /\ dir'.made = dir.made /\ dir'.by = dir.by
     /\ dir'.checkpoint = dir.checkpoint /\ dir'.report = dir.report
  \/ dir.by = l
  \/ ~dir.made

\* A launch leaves what holds of the others alone.
LEMMA OthersKeep ==
  ASSUME IInv, NEW l \in Launches, NEW r \in RunType, Set(l, r), OwnDir(l)
  PROVE  \A k \in Launches \ {l} : LaunchInv(k)'
<1> SUFFICES ASSUME NEW k \in Launches, k # l
             PROVE  LaunchInv(k)'
  OBVIOUS
<1>1. run'[k] = run[k] /\ run[k] \in RunType
  BY DEF IInv, Set
<1>2. Good(k, run[k], dir)
  BY DEF IInv, LaunchInv
<1>3. Nobody \notin Launches
  BY SftAdmissionAssumption
<1>4. dir.by # Nobody => dir.made
  BY DEF IInv, TypeOK
<1>5. CASE dir.by = l \/ ~dir.made
  BY <1>1, <1>2, <1>3, <1>4, <1>5 DEF LaunchInv, Good, Unsaved, Working
<1>6. CASE /\ dir'.made = dir.made /\ dir'.by = dir.by
           /\ dir'.checkpoint = dir.checkpoint /\ dir'.report = dir.report
  BY <1>1, <1>2, <1>6 DEF LaunchInv, Good
<1> QED
  BY <1>5, <1>6 DEF OwnDir

\* A step of a launch keeps the invariant if it does so where the launch is.
LEMMA LaunchStep ==
  ASSUME IInv, NEW l \in Launches, NEW r \in RunType, Set(l, r), OwnDir(l),
         Good(l, r, dir'), DirInv', TypeOK'
  PROVE  IInv'
<1>1. run' \in [Launches -> RunType] /\ run'[l] = r
  BY DEF IInv, Set
<1>2. LaunchInv(l)'
  BY <1>1 DEF LaunchInv
<1> QED
  BY <1>1, <1>2, OthersKeep DEF IInv

\* A step that leaves the directory alone, by a launch that leaves its update alone once
\* it is over.
LEMMA QuietStep ==
  ASSUME IInv, NEW l \in Launches, NEW r \in RunType, Set(l, r), UNCHANGED dir,
         faults' \in 0..MaxFaults, Good(l, r, dir),
         run[l].pc \in Over =>
           r.pc \in Over /\ r.lora = run[l].lora /\ r.updated = run[l].updated
  PROVE  IInv'
<1>1. run' \in [Launches -> RunType] /\ run'[l] = r
  BY DEF IInv, Set
<1>2. \A k \in Launches : k # l => run'[k] = run[k]
  BY DEF IInv, Set
<1>3. TypeOK'
  BY <1>1 DEF IInv, TypeOK, RunType
<1>4. dir.report.status = "PASS" => Proven(dir, run'[dir.by])
  BY <1>1, <1>2 DEF IInv, DirInv, Proven
<1>5. DirInv'
  BY <1>4 DEF IInv, DirInv
<1> QED
  BY <1>3, <1>5, LaunchStep DEF OwnDir

\* A step that writes a report of the launch that works in the directory.
LEMMA ReportStep ==
  ASSUME IInv, NEW l \in Launches, NEW r \in RunType, Set(l, r), dir.by = l, dir.made,
         NEW report \in Report, report.by = l, dir' = [dir EXCEPT !.report = report],
         faults' \in 0..MaxFaults, Good(l, r, dir'),
         report.status = "FAIL" => Located(report),
         report.status = "PASS" => Proven(dir', r)
  PROVE  IInv'
<1>1. run' \in [Launches -> RunType] /\ run'[l] = r
  BY DEF IInv, Set
<1>2. /\ dir'.report = report /\ dir'.made = dir.made /\ dir'.by = dir.by
      /\ dir'.checkpoint = dir.checkpoint /\ dir'.log = dir.log
      /\ dir' \in Directory
  BY DEF IInv, TypeOK, Directory
<1>3. TypeOK'
  BY <1>1, <1>2 DEF IInv, TypeOK, RunType
<1>4. l # Nobody
  BY SftAdmissionAssumption
<1>5. DirInv'
  BY <1>1, <1>2, <1>4 DEF IInv, DirInv
<1> QED
  BY <1>3, <1>5, LaunchStep DEF OwnDir

\* What the invariant says of one launch, for the leaves of the steps.
LEMMA Here ==
  ASSUME IInv, NEW l \in Launches
  PROVE  /\ run[l] \in RunType /\ Good(l, run[l], dir)
         /\ dir \in Directory
         /\ dir.by # Nobody => dir.made
         /\ faults \in 0..MaxFaults /\ MaxFaults \in Nat /\ l # Nobody
  BY SftAdmissionAssumption DEF IInv, TypeOK, LaunchInv

LEMMA NoneSaved == \A l : SavedBy(l, {}) = NoFile
  BY DEF SavedBy, NoFile

LEMMA FaultInBounds ==
  ASSUME NEW kind, faults \in 0..MaxFaults, MaxFaults \in Nat, Fault(kind) \/ UNCHANGED faults
  PROVE  faults' \in 0..MaxFaults
  BY DEF Fault

LEMMA NoReportType == NoReport \in Report /\ NoReport.phases = {}
  BY DEF NoReport, Report

\* A fresh launch.
LEMMA IdleType == Idle \in RunType
<1>1. Frozen \in Selections
  BY DEF Selections
<1>2. [e \in Examples |-> 0] \in [Examples -> Nat]
  OBVIOUS
<1> QED
  BY <1>1, <1>2, NoReportType DEF Idle, RunType, Pcs, Working, NoReport

LEMMA InitInv == Init => IInv
<1> SUFFICES ASSUME Init PROVE IInv
  OBVIOUS
<1>1. TypeOK
  <2>1. run \in [Launches -> RunType]
    BY IdleType DEF Init
  <2>2. dir \in Directory /\ dir.by = Nobody
    <3>1. PICK m \in BOOLEAN : dir = [made |-> m, by |-> Nobody, report |-> NoReport,
                                     log |-> Nobody, checkpoint |-> NoFile]
      BY DEF Init
    <3> QED
      BY <3>1, NoReportType DEF Directory, NoFile
  <2> QED
    BY <2>1, <2>2, IdleType, SftAdmissionAssumption DEF Init, TypeOK, RunType
<1>2. \A l \in Launches : LaunchInv(l)
  BY DEF Init, LaunchInv, Good, Idle, Working, Unsaved
<1>3. DirInv
  BY DEF Init, DirInv, NoReport, NoFile
<1> QED
  BY <1>1, <1>2, <1>3, IdleType DEF Init, IInv

----------------------------------------------------------------------------
(* The steps                                                               *)

\* An exception in a phase that was reached and not completed.
LEMMA RaisesGood ==
  ASSUME NEW l \in Launches, NEW r \in RunType, NEW d, r.report.by = l, d.by = l, d.made,
         r.exit = "none", Located([r.report EXCEPT !.failure = r.phase])
  PROVE  Raises(r) \in RunType /\ Good(l, Raises(r), d)
<1> DEFINE rep == [r.report EXCEPT !.status = "FAIL", !.failure = r.phase]
<1>1. rep \in Report /\ rep.by = l /\ rep.status = "FAIL" /\ rep.failure = r.phase
      /\ rep.phases = r.report.phases
  BY DEF RunType, Report
<1>2. Raises(r) = [r EXCEPT !.pc = "fail", !.report = rep]
  BY DEF Raises, RunType
<1>4. Located(rep)
  BY <1>1 DEF Located, RunType, Report
<1> HIDE DEF rep
<1>3. /\ Raises(r) \in RunType /\ Raises(r).pc = "fail" /\ Raises(r).report = rep
      /\ Raises(r).exit = "none"
  <2>1. "fail" \in Pcs
    BY DEF Pcs, Working
  <2> QED
    BY <1>1, <1>2, <2>1 DEF RunType
<1> QED
  BY <1>1, <1>3, <1>4 DEF Good, Unsaved

LEMMA RaisesStep ==
  ASSUME IInv, NEW l \in Launches, NEW r \in RunType,
         r.report.by = l, r.exit = "none", run[l].pc \in Working \ {"fail"},
         Located([r.report EXCEPT !.failure = r.phase]),
         Set(l, Raises(r)), UNCHANGED dir, faults' \in 0..MaxFaults
  PROVE  IInv'
<1>1. dir.by = l /\ dir.made
  BY Here DEF Good
<1>2. Raises(r) \in RunType /\ Good(l, Raises(r), dir)
  BY <1>1, RaisesGood
<1> QED
  BY <1>2, QuietStep DEF Working, Over

LEMMA StartStep ==
  ASSUME IInv, NEW l \in Launches, Launch(l)
  PROVE  IInv'
<1>1. PICK shell \in BOOLEAN, sel \in Selections, d \in Defects \cup {"none"} :
        Start(l, shell, sel, d)
  BY DEF Launch
<1> DEFINE r == IF shell /\ dir.made
                THEN [Idle EXCEPT !.pc = "ended", !.exit = "2"]
                ELSE [Idle EXCEPT !.pc = "preflight", !.shell = shell, !.selection = sel,
                                  !.defect = d]
<1>2. r \in RunType
  BY IdleType DEF RunType, Pcs
<1>3. Good(l, r, dir)
  BY IdleType DEF Good, Working, Unsaved, Idle, RunType
<1> HIDE DEF r
<1>4. Set(l, r) /\ UNCHANGED dir /\ faults' \in 0..MaxFaults /\ run[l].pc \notin Over
  BY <1>1, Here DEF Start, r, At, Over
<1> QED
  BY <1>2, <1>3, <1>4, QuietStep

LEMMA PreflightStep ==
  ASSUME IInv, NEW l \in Launches, Preflight(l)
  PROVE  IInv'
<1>1. PICK next \in {"mkdir", "refuse"} :
        /\ Set(l, [run[l] EXCEPT !.pc = next])
        /\ next = "mkdir" => run[l].selection = Frozen
  BY DEF Preflight, validate_selection_payload
<1> DEFINE r == [run[l] EXCEPT !.pc = next]
<1>2. r \in RunType
  BY Here DEF RunType, Pcs
<1>3. Good(l, r, dir)
  BY <1>1, Here DEF Good, Working, Unsaved, RunType, Preflight, At
<1> HIDE DEF r
<1>4. Set(l, r) /\ UNCHANGED dir /\ faults' \in 0..MaxFaults /\ run[l].pc \notin Over
  BY <1>1, Here DEF Preflight, r, At, Over
<1> QED
  BY <1>2, <1>3, <1>4, QuietStep

LEMMA ExitsType ==
  ASSUME NEW r \in RunType, NEW code \in {"0", "1", "2", "3"}
  PROVE  /\ Exits(r, code) \in RunType
         /\ Exits(r, code).pc \in {"log", "ended"} /\ Exits(r, code).exit = code
         /\ Exits(r, code).lora = r.lora /\ Exits(r, code).updated = r.updated
<1>1. PICK end \in {"log", "ended"} : Exits(r, code) = [r EXCEPT !.pc = end, !.exit = code]
  <2>1. (IF r.shell THEN "log" ELSE "ended") \in {"log", "ended"}
    OBVIOUS
  <2> QED
    BY <2>1 DEF Exits
<1> QED
  BY <1>1 DEF RunType, Pcs

\* A launch that ends, with no exit code that claims anything.
LEMMA EndsQuietly ==
  ASSUME IInv, NEW l \in Launches, NEW code \in {"1", "2"},
         Set(l, Exits(run[l], code)), UNCHANGED dir, faults' \in 0..MaxFaults,
         run[l].pc \notin Over
  PROVE  IInv'
<1> DEFINE r == Exits(run[l], code)
<1>1. r \in RunType /\ r.pc \in {"log", "ended"} /\ r.exit = code
  BY Here, ExitsType
<1> HIDE DEF r
<1>2. Good(l, r, dir)
  BY <1>1, Here DEF Good, Working, Unsaved
<1> QED
  BY <1>1, <1>2, QuietStep DEF r

\* A launch that makes the directory.
LEMMA MadeStep ==
  ASSUME IInv, NEW l \in Launches, NEW r \in RunType, ~dir.made, Made(l), Set(l, r),
         faults' \in 0..MaxFaults, Good(l, r, dir')
  PROVE  IInv'
<1>1. dir.by = Nobody /\ dir.checkpoint = NoFile /\ dir.report = NoReport
  BY Here DEF IInv, DirInv
<1>2. /\ dir'.made /\ dir'.by = l /\ dir'.checkpoint = NoFile /\ dir'.report = NoReport
      /\ dir' \in Directory
  BY <1>1, Here DEF Made, Directory
<1>3. run' \in [Launches -> RunType]
  BY DEF IInv, Set
<1>4. TypeOK'
  BY <1>2, <1>3, Here DEF TypeOK, RunType
<1>5. DirInv'
  BY <1>2, Here DEF DirInv, NoReport, NoFile
<1> QED
  BY <1>4, <1>5, LaunchStep DEF OwnDir

\* A launch that goes on elsewhere, with this report in memory.
Reporting(r, pc, report) == [r EXCEPT !.pc = pc, !.report = report]

LEMMA ReportedType ==
  ASSUME NEW r \in RunType, NEW pc \in Pcs, NEW report \in Report
  PROVE  LET s == Reporting(r, pc, report)
         IN  /\ s \in RunType /\ s.pc = pc /\ s.report = report /\ s.phase = r.phase
             /\ s.todo = r.todo /\ s.grads = r.grads /\ s.lora = r.lora
             /\ s.updated = r.updated /\ s.saved = r.saved /\ s.exit = r.exit
             /\ s.selection = r.selection
  BY DEF Reporting, RunType

LEMMA RefuseStep ==
  ASSUME IInv, NEW l \in Launches, Refuse(l)
  PROVE  IInv'
<1>1. CASE validate_output_path(run[l]) /\ ~dir.made
  <2> DEFINE rep == [NoReport EXCEPT !.status = "FAIL", !.failure = "preflight", !.by = l]
             r   == Reporting(run[l], "refused", rep)
  <2>1. /\ rep \in Report /\ rep.by = l /\ rep.status = "FAIL"
        /\ rep.failure = "preflight" /\ rep.phases = {}
    BY NoReportType DEF Report
  <2>6. Located(rep)
    BY <2>1 DEF Located
  <2> HIDE DEF rep
  <2>2. r \in RunType /\ r.pc = "refused" /\ r.report = rep /\ r.exit = run[l].exit
    <3>1. run[l] \in RunType
      BY Here
    <3>2. "refused" \in Pcs
      BY DEF Pcs, Working
    <3> QED
      BY <2>1, <3>1, <3>2, ReportedType
  <2>3. Made(l) /\ Set(l, r) /\ UNCHANGED faults
    BY <1>1 DEF Refuse, rep, Reporting
  <2>4. dir'.made /\ dir'.by = l /\ run[l].exit = "none"
    BY <2>3, Here DEF Made, Good, Refuse, At
  <2>5. Good(l, r, dir')
    BY <2>1, <2>2, <2>4, <2>6 DEF Good, Unsaved
  <2> HIDE DEF r
  <2> QED
    BY <1>1, <2>2, <2>3, <2>5, Here, MadeStep
<1>2. CASE ~(validate_output_path(run[l]) /\ ~dir.made)
  <2>1. PICK code \in {"1", "2"} : Set(l, Exits(run[l], code))
    BY <1>2 DEF Refuse
  <2>2. UNCHANGED dir /\ (Fault("print") \/ UNCHANGED faults) /\ run[l].pc = "refuse"
    BY <1>2 DEF Refuse, At
  <2> QED
    BY <2>1, <2>2, Here, FaultInBounds, EndsQuietly DEF Over
<1> QED
  BY <1>1, <1>2

\* write_text cut short in a report of this launch.
LEMMA TornType ==
  ASSUME NEW l \in Launches
  PROVE  LET torn == [NoReport EXCEPT !.status = "torn", !.by = l]
         IN  torn \in Report /\ torn.by = l /\ torn.status = "torn"
  BY DEF NoReport, Report

\* A write that is cut short, by a launch that stops or goes on in r.
LEMMA CutShortStep ==
  ASSUME IInv, NEW l \in Launches, NEW r \in RunType, Set(l, r), run[l].pc \in Working,
         CutShort(l), faults' \in 0..MaxFaults, Good(l, r, dir')
  PROVE  IInv'
<1> DEFINE torn == [NoReport EXCEPT !.status = "torn", !.by = l]
<1>1. torn \in Report /\ torn.by = l /\ torn.status = "torn"
  BY TornType
<1>2. dir.by = l /\ dir.made
  BY Here DEF Good
<1>3. dir' = [dir EXCEPT !.report = torn]
  BY DEF CutShort
<1> HIDE DEF torn
<1> QED
  BY <1>1, <1>2, <1>3, ReportStep

\* A launch that ends in the middle of a write.
LEMMA EndsTorn ==
  ASSUME IInv, NEW l \in Launches, NEW code \in {"1", "2"}, run[l].pc \in Working,
         Set(l, Exits(run[l], code)), CutShort(l), faults' \in 0..MaxFaults
  PROVE  IInv'
<1>1. Good(l, Exits(run[l], code), dir')
  BY Here, ExitsType DEF Good, Working, Unsaved
<1> QED
  BY <1>1, Here, ExitsType, CutShortStep

\* A launch that ends with a report of its own written.
LEMMA EndsReported ==
  ASSUME IInv, NEW l \in Launches, NEW r \in RunType, NEW code \in {"0", "1", "2", "3"},
         run[l].pc \in Working, r.report.by = l, Set(l, Exits(r, code)),
         dir' = [dir EXCEPT !.report = r.report], faults' \in 0..MaxFaults,
         r.report.status = "FAIL" => Located(r.report) /\ code # "0",
         r.report.status = "PASS" => code = "0" /\ Proven(dir', Exits(r, code)),
         r.report.status \in {"PASS", "FAIL"}
  PROVE  IInv'
<1>1. dir.by = l /\ dir.made /\ r.report \in Report
  BY Here DEF Good, RunType
<1>2. dir'.by = l /\ dir'.report = r.report
  BY <1>1, Here
<1>3. Good(l, Exits(r, code), dir')
  BY <1>1, <1>2, ExitsType DEF Good, Working, Unsaved
<1> QED
  BY <1>1, <1>3, ExitsType, ReportStep

LEMMA WriteRefusalStep ==
  ASSUME IInv, NEW l \in Launches, WriteRefusal(l)
  PROVE  IInv'
<1>1. run[l].pc = "refused"
  BY DEF WriteRefusal, At
<1>2. ASSUME NEW code \in {"1", "2"}, Written(l), Set(l, Exits(run[l], code)),
             Fault("print") \/ UNCHANGED faults
      PROVE  IInv'
  BY <1>1, <1>2, Here, FaultInBounds, EndsReported DEF Written, Good, Working
<1>3. CASE Fault("write") /\ CutShort(l) /\ Set(l, Exits(run[l], "2"))
  BY <1>1, <1>3, Here, FaultInBounds, EndsTorn DEF Working
<1> QED
  BY <1>2, <1>3 DEF WriteRefusal

LEMMA MakeDirectoryStep ==
  ASSUME IInv, NEW l \in Launches, MakeDirectory(l)
  PROVE  IInv'
<1> DEFINE rep == [NoReport EXCEPT !.status = "running", !.by = l]
           r   == Reporting(run[l], "running", rep)
<1>4. run[l].pc = "mkdir" /\ (mkdir_ok(l) <=> ~dir.made)
  BY DEF MakeDirectory, At, mkdir_ok
<1>1. CASE mkdir_ok(l) /\ Made(l) /\ UNCHANGED faults /\ Set(l, r)
  <2>1. /\ rep \in Report /\ rep.by = l /\ rep.status = "running" /\ rep.phases = {}
    BY NoReportType DEF Report
  <2> HIDE DEF rep
  <2>2. /\ r \in RunType /\ r.pc = "running" /\ r.report = rep /\ r.exit = run[l].exit
        /\ r.saved = run[l].saved /\ r.phase = run[l].phase /\ r.selection = run[l].selection
        /\ r.lora = run[l].lora
    <3>1. run[l] \in RunType
      BY Here
    <3>2. "running" \in Pcs
      BY DEF Pcs, Working
    <3> QED
      BY <2>1, <3>1, <3>2, ReportedType
  <2> HIDE DEF r
  <2>4. dir'.made /\ dir'.by = l /\ dir'.checkpoint = SavedBy(l, {})
    BY <1>1, <1>4, NoneSaved, Here DEF Made, IInv, DirInv, Directory
  <2>6. /\ run[l].saved = {} /\ ~run[l].lora /\ run[l].phase = "model_load"
        /\ run[l].selection = Frozen /\ run[l].exit = "none"
    BY <1>4, Here DEF Good
  <2>5. Good(l, r, dir')
    BY <2>1, <2>2, <2>4, <2>6 DEF Good, Unsaved, Reached
  <2> QED
    BY <1>1, <1>4, <2>2, <2>5, Here, MadeStep
<1>2. CASE mkdir_ok(l) /\ Fault("print") /\ Made(l) /\ Set(l, Exits(run[l], "1"))
  <2>1. /\ Exits(run[l], "1") \in RunType /\ Exits(run[l], "1").pc \in {"log", "ended"}
        /\ Exits(run[l], "1").exit = "1"
    BY Here, ExitsType
  <2>2. Good(l, Exits(run[l], "1"), dir')
    BY <2>1 DEF Good, Working, Unsaved
  <2> QED
    BY <1>2, <1>4, <2>1, <2>2, Here, FaultInBounds, MadeStep
<1>3. CASE ~mkdir_ok(l) /\ Set(l, Exits(run[l], "1")) /\ UNCHANGED <<dir, faults>>
  BY <1>3, <1>4, Here, EndsQuietly DEF Over
<1> QED
  BY <1>1, <1>2, <1>3 DEF MakeDirectory, Reporting

LEMMA WriteRunningStep ==
  ASSUME IInv, NEW l \in Launches, WriteRunning(l)
  PROVE  IInv'
<1>1. run[l].pc = "running"
  BY DEF WriteRunning, At
<1>2. CASE Written(l) /\ Set(l, [run[l] EXCEPT !.pc = "load"]) /\ UNCHANGED faults
  <2> DEFINE r == [run[l] EXCEPT !.pc = "load"]
  <2>1. r \in RunType
    BY Here DEF RunType, Pcs, Working
  <2>2. /\ dir.by = l /\ dir.made /\ run[l].report.by = l /\ run[l].report.status = "running"
        /\ run[l].report \in Report
    BY <1>1, Here DEF Good, Working, Unsaved, RunType
  <2>3. dir' = [dir EXCEPT !.report = run[l].report]
    BY <1>2 DEF Written
  <2>4. Good(l, r, dir')
    BY <1>1, <2>2, <2>3, Here DEF Good, Working, Unsaved, RunType, Reached
  <2> HIDE DEF r
  <2> QED
    BY <1>2, <2>1, <2>2, <2>3, <2>4, Here, ReportStep DEF r
<1>3. CASE Fault("write") /\ CutShort(l) /\ Set(l, Exits(run[l], "1"))
  BY <1>1, <1>3, Here, FaultInBounds, EndsTorn DEF Working
<1> QED
  BY <1>2, <1>3 DEF WriteRunning

\* A launch that is in this phase, or enters it.
InPhase(r, phase) == [r EXCEPT !.phase = phase]

\* A failure of a phase that a launch is in or enters, with nothing written.
LEMMA RaisesIn ==
  ASSUME IInv, NEW l \in Launches, NEW phase \in {"model_load", "A", "B", "C"},
         run[l].pc \in (Unsaved \cup {"save"}) \ {"running"},
         Located([run[l].report EXCEPT !.failure = phase]),
         NEW kind, Fault(kind), Set(l, Raises(InPhase(run[l], phase))), UNCHANGED dir
  PROVE  IInv'
<1> DEFINE r == InPhase(run[l], phase)
<1>1. /\ r \in RunType /\ r.report = run[l].report /\ r.phase = phase
      /\ r.exit = run[l].exit
  BY Here DEF InPhase, RunType
<1> HIDE DEF r
<1>2. /\ run[l].pc \in Working \ {"fail"} /\ run[l].report.by = l /\ run[l].exit = "none"
  BY Here DEF Good, Working, Unsaved
<1> QED
  BY <1>1, <1>2, Here, FaultInBounds, RaisesStep DEF r

\* A failure of the phase a launch is in.
LEMMA RaisesHere ==
  ASSUME IInv, NEW l \in Launches, run[l].pc \in (Unsaved \cup {"save"}) \ {"running"},
         NEW kind, Fault(kind), Set(l, Raises(run[l])), UNCHANGED dir
  PROVE  IInv'
<1>1. Located([run[l].report EXCEPT !.failure = run[l].phase])
  BY Here DEF Good, Unsaved, Reached, Located, RunType, Report
<1>2. run[l] = InPhase(run[l], run[l].phase)
  BY Here DEF InPhase, RunType
<1>3. run[l].phase \in {"model_load", "A", "B", "C"}
  BY Here DEF RunType
<1> QED
  BY <1>1, <1>2, <1>3, RaisesIn

LEMMA PhasePlanType ==
  ASSUME NEW sel \in Selections
  PROVE  /\ phase_plan(sel).A \in SUBSET Examples /\ phase_plan(sel).B \in SUBSET Examples
         /\ phase_plan(sel).C = DOMAIN sel /\ DOMAIN sel \in SUBSET Examples
  BY SftAdmissionAssumption DEF phase_plan, having

\* A launch that goes on, in another phase or in the same, with these examples to play.
Moved(r, pc, phase, todo) == [r EXCEPT !.pc = pc, !.phase = phase, !.todo = todo]

LEMMA MoveType ==
  ASSUME NEW r \in RunType, NEW pc \in Pcs, NEW phase \in {"model_load", "A", "B", "C"},
         NEW todo \in SUBSET Examples
  PROVE  LET s == Moved(r, pc, phase, todo)
         IN  /\ s \in RunType /\ s.pc = pc /\ s.phase = phase /\ s.todo = todo
             /\ s.report = r.report /\ s.grads = r.grads /\ s.lora = r.lora
             /\ s.updated = r.updated /\ s.saved = r.saved /\ s.exit = r.exit
             /\ s.selection = r.selection
  BY DEF Moved, RunType

LEMMA LoadModelStep ==
  ASSUME IInv, NEW l \in Launches, LoadModel(l)
  PROVE  IInv'
<1>1. run[l].pc = "load" /\ UNCHANGED dir
  BY DEF LoadModel, At
<1> DEFINE todo == phase_plan(run[l].selection).A
           r    == Moved(run[l], "A", "A", todo)
<1>2. CASE Set(l, r) /\ UNCHANGED faults
  <2>1. todo \in SUBSET Examples
    BY Here, PhasePlanType DEF RunType
  <2> HIDE DEF todo
  <2>2. "A" \in Pcs /\ "A" \in {"model_load", "A", "B", "C"}
    BY DEF Pcs, Working
  <2>3. /\ r \in RunType /\ r.pc = "A" /\ r.phase = "A" /\ r.report = run[l].report
        /\ r.saved = run[l].saved /\ r.exit = run[l].exit /\ r.selection = run[l].selection
        /\ r.lora = run[l].lora
    <3>1. run[l] \in RunType
      BY Here
    <3> QED
      BY <2>1, <2>2, <3>1, MoveType
  <2> HIDE DEF r
  <2>4. Good(l, r, dir)
    BY <1>1, <2>3, Here DEF Good, Working, Unsaved, Reached
  <2> QED
    BY <1>1, <1>2, <2>3, <2>4, Here, QuietStep DEF Over
<1>3. CASE Fault("error") /\ Set(l, Raises(run[l]))
  BY <1>1, <1>3, RaisesHere DEF Unsaved
<1>4. CASE Fault("print") /\ Set(l, Raises(InPhase(run[l], "A")))
  <2>1. Located([run[l].report EXCEPT !.failure = "A"])
    BY <1>1, Here DEF Good, Reached, Located, RunType, Report
  <2> QED
    BY <1>1, <1>4, <2>1, RaisesIn DEF Unsaved
<1> QED
  BY <1>2, <1>3, <1>4 DEF LoadModel, Moved, InPhase

----------------------------------------------------------------------------
(* The phases                                                              *)

\* An example of a phase has been played.
Played(r, e) == [r EXCEPT !.todo = @ \ {e}]

\* The records differ in their gradients and in what they have to play.
Alike(r, s) ==
  /\ s.pc = r.pc /\ s.report = r.report /\ s.phase = r.phase /\ s.saved = r.saved
  /\ s.lora = r.lora /\ s.updated = r.updated /\ s.exit = r.exit
  /\ s.selection = r.selection

LEMMA ZeroType ==
  ASSUME NEW r \in RunType
  PROVE  /\ zero_grad(r) \in RunType /\ Alike(r, zero_grad(r))
         /\ zero_grad(r).todo = r.todo /\ \A x \in Examples : zero_grad(r).grads[x] = 0
<1>1. [x \in Examples |-> 0] \in [Examples -> Nat]
  OBVIOUS
<1> QED
  BY <1>1 DEF zero_grad, RunType, Alike

LEMMA BackwardType ==
  ASSUME NEW r \in RunType, NEW e \in Examples
  PROVE  /\ backward(r, e) \in RunType /\ Alike(r, backward(r, e))
         /\ backward(r, e).todo = r.todo
         /\ backward(r, e).grads = [r.grads EXCEPT ![e] = r.grads[e] + 1]
<1>1. backward(r, e) = [r EXCEPT !.grads = [r.grads EXCEPT ![e] = r.grads[e] + 1]]
  BY DEF backward
<1>2. [r.grads EXCEPT ![e] = r.grads[e] + 1] \in [Examples -> Nat]
  BY DEF RunType
<1> QED
  BY <1>1, <1>2 DEF RunType, Alike

LEMMA PlayedType ==
  ASSUME NEW r \in RunType, NEW e
  PROVE  /\ Played(r, e) \in RunType /\ Alike(r, Played(r, e))
         /\ Played(r, e).todo = r.todo \ {e} /\ Played(r, e).grads = r.grads
  BY DEF Played, RunType, Alike

\* A step that plays an example of the phases A and B, and one that accumulates it.
LEMMA AlikeStep ==
  ASSUME IInv, NEW l \in Launches, NEW r \in RunType, Set(l, r), UNCHANGED <<dir, faults>>,
         Alike(run[l], r), run[l].pc \in {"A", "B", "C"},
         r.pc = "C" => EachOnce(r.grads, r.todo) /\ r.todo \subseteq DOMAIN Frozen
  PROVE  IInv'
<1>1. Good(l, r, dir)
  BY Here DEF Good, Alike, Working, Unsaved, Reached
<1> QED
  BY <1>1, Here, QuietStep DEF Over

LEMMA ProbeStep ==
  ASSUME IInv, NEW l \in Launches, NEW p \in {"A", "B"}, Probe(l, p)
  PROVE  IInv'
<1>1. run[l].pc = p /\ UNCHANGED dir
  BY DEF Probe, At
<1>2. PICK e \in run[l].todo :
        \/ /\ Set(l, zero_grad(Played(backward(zero_grad(run[l]), e), e)))
           /\ UNCHANGED faults
        \/ Fault("nonfinite") /\ Set(l, Raises(run[l]))
  BY DEF Probe, Played
<1>3. CASE Set(l, zero_grad(Played(backward(zero_grad(run[l]), e), e))) /\ UNCHANGED faults
  <2> DEFINE z == zero_grad(run[l])
             b == backward(z, e)
             d == Played(b, e)
             r == zero_grad(d)
  <2>1. run[l] \in RunType /\ e \in Examples
    BY Here DEF RunType
  <2>2. z \in RunType /\ Alike(run[l], z)
    BY <2>1, ZeroType
  <2> HIDE DEF z
  <2>3. b \in RunType /\ Alike(z, b)
    BY <2>1, <2>2, BackwardType
  <2> HIDE DEF b
  <2>4. d \in RunType /\ Alike(b, d)
    BY <2>3, PlayedType
  <2> HIDE DEF d
  <2>5. r \in RunType /\ Alike(d, r)
    BY <2>4, ZeroType
  <2>6. Alike(run[l], r) /\ r.pc = p
    BY <1>1, <2>2, <2>3, <2>4, <2>5 DEF Alike
  <2>7. Set(l, r)
    BY <1>3 DEF r, d, b, z
  <2> HIDE DEF r
  <2> QED
    BY <1>1, <1>3, <2>5, <2>6, <2>7, AlikeStep
<1>4. CASE Fault("nonfinite") /\ Set(l, Raises(run[l]))
  BY <1>1, <1>4, RaisesHere DEF Unsaved
<1> QED
  BY <1>2, <1>3, <1>4

LEMMA AccumulateStep ==
  ASSUME IInv, NEW l \in Launches, Accumulate(l)
  PROVE  IInv'
<1>1. run[l].pc = "C" /\ UNCHANGED dir
  BY DEF Accumulate, At
<1>2. PICK e \in run[l].todo :
        \/ Set(l, Played(backward(run[l], e), e)) /\ UNCHANGED faults
        \/ Fault("nonfinite") /\ Set(l, Raises(run[l]))
  BY DEF Accumulate, Played
<1>3. CASE Set(l, Played(backward(run[l], e), e)) /\ UNCHANGED faults
  <2> DEFINE b == backward(run[l], e)
             r == Played(b, e)
  <2>1. run[l] \in RunType /\ e \in Examples
    BY Here DEF RunType
  <2>2. /\ b \in RunType /\ Alike(run[l], b) /\ b.todo = run[l].todo
        /\ b.grads = [run[l].grads EXCEPT ![e] = run[l].grads[e] + 1]
    BY <2>1, BackwardType
  <2> HIDE DEF b
  <2>3. r \in RunType /\ Alike(b, r) /\ r.todo = run[l].todo \ {e} /\ r.grads = b.grads
    BY <2>2, PlayedType
  <2> HIDE DEF r
  <2>4. EachOnce(run[l].grads, run[l].todo) /\ run[l].todo \subseteq DOMAIN Frozen
        /\ run[l].grads \in [Examples -> Nat]
    BY <1>1, Here DEF Good, RunType
  <2>5. EachOnce(r.grads, r.todo)
    <3> SUFFICES ASSUME NEW x \in Examples
                 PROVE  r.grads[x] = IF x \in DOMAIN Frozen /\ x \notin r.todo THEN 1 ELSE 0
      BY DEF EachOnce
    <3>1. CASE x = e
      BY <2>1, <2>2, <2>3, <2>4, <3>1 DEF EachOnce
    <3>2. CASE x # e
      BY <2>1, <2>2, <2>3, <2>4, <3>2 DEF EachOnce
    <3> QED
      BY <3>1, <3>2
  <2>6. Alike(run[l], r)
    BY <2>2, <2>3 DEF Alike
  <2>7. Set(l, r)
    BY <1>3 DEF r, b
  <2> QED
    BY <1>1, <1>3, <2>3, <2>4, <2>5, <2>6, <2>7, AlikeStep
<1>4. CASE Fault("nonfinite") /\ Set(l, Raises(run[l]))
  BY <1>1, <1>4, RaisesHere DEF Unsaved
<1> QED
  BY <1>2, <1>3, <1>4

LEMMA OptimizerStep ==
  ASSUME IInv, NEW l \in Launches, Optimizer(l)
  PROVE  IInv'
<1>1. run[l].pc = "optimizer" /\ UNCHANGED dir /\ "C" \in Pcs
  BY DEF Optimizer, At, Pcs, Working
<1> DEFINE todo == phase_plan(run[l].selection).C
           m    == Moved(run[l], "C", "C", todo)
           r    == zero_grad(m)
<1>2. CASE Set(l, r) /\ UNCHANGED faults
  <2>1. run[l] \in RunType /\ run[l].selection = Frozen /\ Good(l, run[l], dir)
    BY <1>1, Here DEF Good, Unsaved
  <2>2. todo \in SUBSET Examples /\ todo = DOMAIN Frozen
    BY <2>1, PhasePlanType DEF RunType
  <2> HIDE DEF todo
  <2>3. /\ m \in RunType /\ m.pc = "C" /\ m.phase = "C" /\ m.report = run[l].report
        /\ m.saved = run[l].saved /\ m.exit = run[l].exit /\ m.lora = run[l].lora
        /\ m.selection = run[l].selection /\ m.todo = todo
    BY <1>1, <2>1, <2>2, MoveType
  <2> HIDE DEF m
  <2>4. /\ r \in RunType /\ Alike(m, r) /\ r.todo = m.todo
        /\ \A x \in Examples : r.grads[x] = 0
    BY <2>3, ZeroType
  <2> HIDE DEF r
  <2>5. EachOnce(r.grads, r.todo)
    BY <2>2, <2>3, <2>4 DEF EachOnce
  <2>6. Good(l, r, dir)
    BY <1>1, <2>1, <2>2, <2>3, <2>4, <2>5 DEF Good, Alike, Working, Unsaved, Reached
  <2> QED
    BY <1>1, <1>2, <2>4, <2>6, Here, QuietStep DEF Over
<1>3. ASSUME NEW p \in {"B", "C"}, Fault("error"), Set(l, Raises(InPhase(run[l], p)))
      PROVE  IInv'
  <2>1. Located([run[l].report EXCEPT !.failure = p])
    BY <1>1, Here DEF Good, Reached, Located, RunType, Report
  <2> QED
    BY <1>1, <1>3, <2>1, RaisesIn DEF Unsaved
<1> QED
  BY <1>2, <1>3 DEF Optimizer, Moved, InPhase

\* A phase's result in the report of a launch.
Resulting(r, p) == [r EXCEPT !.report.phases = @ \cup {p}]

LEMMA ResultType ==
  ASSUME NEW r \in RunType, NEW p \in {"A", "B", "C"}
  PROVE  LET s == Resulting(r, p)
         IN  /\ s \in RunType /\ s.report.phases = r.report.phases \cup {p}
             /\ s.report.by = r.report.by /\ s.report.status = r.report.status
             /\ s.pc = r.pc /\ s.phase = r.phase /\ s.saved = r.saved /\ s.lora = r.lora
             /\ s.updated = r.updated /\ s.exit = r.exit /\ s.selection = r.selection
<1> DEFINE rep == [r.report EXCEPT !.phases = @ \cup {p}]
<1>1. /\ rep \in Report /\ rep.phases = r.report.phases \cup {p}
      /\ rep.by = r.report.by /\ rep.status = r.report.status
  BY DEF RunType, Report
<1>2. Resulting(r, p) = [r EXCEPT !.report = rep]
  BY DEF Resulting, RunType
<1> HIDE DEF rep
<1> QED
  BY <1>1, <1>2 DEF RunType

\* After phase A comes phase B, and after it the optimizer.
LEMMA NextType ==
  ASSUME NEW r \in RunType, r.phase \in {"A", "B"}
  PROVE  LET s == Next_of(r)
         IN  /\ s \in RunType
             /\ r.phase = "A" => s.pc = "B" /\ s.phase = "B"
             /\ r.phase = "B" => s.pc = "optimizer" /\ s.phase = "B"
             /\ s.report = r.report /\ s.saved = r.saved /\ s.lora = r.lora
             /\ s.exit = r.exit /\ s.selection = r.selection
<1>1. CASE r.phase = "A"
  <2> DEFINE todo == phase_plan(r.selection).B
  <2>1. todo \in SUBSET Examples /\ "B" \in Pcs
    BY PhasePlanType DEF RunType, Pcs, Working
  <2>2. Next_of(r) = Moved(r, "B", "B", todo)
    BY <1>1 DEF Next_of, Moved
  <2> HIDE DEF todo
  <2> QED
    BY <1>1, <2>1, <2>2, MoveType
<1>2. CASE r.phase = "B"
  <2>1. Next_of(r) = [r EXCEPT !.pc = "optimizer"]
    BY <1>2 DEF Next_of
  <2> QED
    BY <1>2, <2>1 DEF RunType, Pcs, Working
<1> QED
  BY <1>1, <1>2

LEMMA WritePhaseStep ==
  ASSUME IInv, NEW l \in Launches, NEW p \in {"A", "B"}, WritePhase(l, p)
  PROVE  IInv'
<1> DEFINE r == Resulting(run[l], p)
<1>1. /\ run[l].pc = p /\ run[l].pc \in Working /\ run[l] \in RunType
      /\ Good(l, run[l], dir) /\ run[l].phase = p
  BY Here DEF WritePhase, At, Working, Good, Reached
<1>2. /\ r \in RunType /\ r.report.phases = run[l].report.phases \cup {p}
      /\ r.report.by = run[l].report.by /\ r.report.status = run[l].report.status
      /\ r.pc = p /\ r.phase = p /\ r.saved = run[l].saved /\ r.lora = run[l].lora
      /\ r.exit = run[l].exit /\ r.selection = run[l].selection
  BY <1>1, ResultType
<1>3. \/ /\ dir' = [dir EXCEPT !.report = r.report] /\ Set(l, Next_of(r))
         /\ UNCHANGED faults
      \/ Fault("write") /\ CutShort(l) /\ Set(l, Raises(r))
      \/ /\ Fault("print") /\ dir' = [dir EXCEPT !.report = r.report]
         /\ \E q \in {r, Next_of(r)} : Set(l, Raises(q))
  BY DEF WritePhase, Resulting
<1> HIDE DEF r
<1>4. /\ dir.by = l /\ dir.made /\ r.report.by = l /\ r.report.status = "running"
      /\ r.report \in Report /\ dir.checkpoint = SavedBy(l, r.saved) /\ r.exit = "none"
      /\ r.selection = Frozen /\ r.saved = {} /\ ~r.lora
      /\ p = "A" => r.report.phases = {"A"}
      /\ p = "B" => r.report.phases = {"A", "B"}
  BY <1>1, <1>2 DEF Good, Working, Unsaved, Reached, RunType
<1>5. CASE dir' = [dir EXCEPT !.report = r.report] /\ Set(l, Next_of(r)) /\ UNCHANGED faults
  <2>1. /\ Next_of(r) \in RunType
        /\ p = "A" => Next_of(r).pc = "B" /\ Next_of(r).phase = "B"
        /\ p = "B" => Next_of(r).pc = "optimizer" /\ Next_of(r).phase = "B"
        /\ Next_of(r).report = r.report /\ Next_of(r).saved = r.saved
        /\ Next_of(r).lora = r.lora /\ Next_of(r).exit = r.exit
        /\ Next_of(r).selection = r.selection
    BY <1>2, NextType
  <2>2. dir'.made /\ dir'.by = l /\ dir'.checkpoint = SavedBy(l, r.saved)
    BY <1>4, <1>5, Here DEF Directory
  <2>3. Good(l, Next_of(r), dir')
    BY <1>4, <2>1, <2>2 DEF Good, Working, Unsaved, Reached
  <2> QED
    BY <1>4, <1>5, <2>1, <2>3, Here, ReportStep
<1>6. CASE Fault("write") /\ CutShort(l) /\ Set(l, Raises(r))
  <2>1. Located([r.report EXCEPT !.failure = r.phase])
    BY <1>2, <1>4 DEF Located, Report
  <2>2. dir'.made /\ dir'.by = l
    BY <1>4, <1>6, Here DEF CutShort
  <2>3. Raises(r) \in RunType /\ Good(l, Raises(r), dir')
    BY <1>2, <1>4, <2>1, <2>2, RaisesGood
  <2> QED
    BY <1>1, <1>6, <2>3, Here, FaultInBounds, CutShortStep
<1>7. ASSUME NEW q \in {r, Next_of(r)}, Fault("print"), Set(l, Raises(q)),
             dir' = [dir EXCEPT !.report = r.report]
      PROVE  IInv'
  <2>1. /\ q \in RunType /\ q.report = r.report /\ q.exit = "none"
        /\ p = "A" => q.phase \in {"A", "B"}
        /\ p = "B" => q.phase = "B"
    BY <1>2, <1>4, NextType
  <2>2. Located([q.report EXCEPT !.failure = q.phase])
    BY <1>4, <2>1 DEF Located, Report
  <2>3. dir'.made /\ dir'.by = l
    BY <1>4, <1>7, Here DEF Directory
  <2>4. Raises(q) \in RunType /\ Good(l, Raises(q), dir')
    BY <1>4, <2>1, <2>2, <2>3, RaisesGood
  <2> QED
    BY <1>4, <1>7, <2>4, Here, FaultInBounds, ReportStep
<1> QED
  BY <1>3, <1>5, <1>6, <1>7

LEMMA UpdateStep ==
  ASSUME IInv, NEW l \in Launches, Update(l)
  PROVE  IInv'
<1>1. /\ run[l].pc = "C" /\ run[l].todo = {} /\ UNCHANGED dir
      /\ run[l] \in RunType /\ Good(l, run[l], dir)
  BY Here DEF Update, At
<1>2. /\ ~run[l].lora /\ EachOnce(run[l].grads, {}) /\ dir.by = l /\ dir.made
      /\ run[l].report.by = l /\ run[l].exit = "none" /\ dir.checkpoint = SavedBy(l, run[l].saved)
      /\ Reached(run[l], "C", {"A", "B"}) /\ run[l].report.status = "running"
      /\ run[l].selection = Frozen
  BY <1>1 DEF Good, Working, Unsaved
<1> DEFINE m(changed) == [run[l] EXCEPT !.lora = changed, !.updated = run[l].grads]
<1>3. PICK changed \in BOOLEAN :
        /\ IF changed THEN UNCHANGED faults ELSE Fault("unchanged")
        /\ Set(l, IF _hash_lora(zero_grad(m(changed))) # _hash_lora(run[l])
                  THEN [zero_grad(m(changed)) EXCEPT !.pc = "save"]
                  ELSE Raises(zero_grad(m(changed))))
  BY DEF Update
<1> DEFINE r == zero_grad(m(changed))
<1>4. /\ m(changed) \in RunType /\ m(changed).lora = changed
      /\ m(changed).updated = run[l].grads /\ m(changed).report = run[l].report
      /\ m(changed).phase = run[l].phase /\ m(changed).saved = run[l].saved
      /\ m(changed).exit = run[l].exit /\ m(changed).selection = run[l].selection
  BY <1>1 DEF RunType
<1> HIDE DEF m
<1>5. r \in RunType /\ Alike(m(changed), r)
  BY <1>4, ZeroType
<1>6. faults' \in 0..MaxFaults
  BY <1>3, Here, FaultInBounds
<1>7. run[l].lora = FALSE
  BY <1>1, <1>2 DEF RunType
<1>8. r.lora = changed
  BY <1>4, <1>5 DEF Alike
<1>9. CASE changed = TRUE
  <2> DEFINE s == [r EXCEPT !.pc = "save"]
  <2>1. s \in RunType /\ s.pc = "save"
    BY <1>5 DEF RunType, Pcs, Working
  <2>2. /\ s.lora = r.lora /\ s.updated = r.updated /\ s.report = r.report
        /\ s.phase = r.phase /\ s.saved = r.saved /\ s.exit = r.exit
        /\ s.selection = r.selection
    BY <1>5 DEF RunType
  <2>3. Set(l, s)
    BY <1>3, <1>9, <1>7, <1>8 DEF _hash_lora, r
  <2> HIDE DEF s, r
  <2>4. /\ s.lora /\ s.updated = run[l].grads /\ s.report = run[l].report
        /\ s.phase = run[l].phase /\ s.saved = run[l].saved
        /\ s.exit = run[l].exit /\ s.selection = run[l].selection
    BY <1>4, <1>5, <1>9, <2>2 DEF Alike
  <2>5. Good(l, s, dir)
    BY <1>2, <2>1, <2>4 DEF Good, Unsaved, Reached
  <2> QED
    BY <1>1, <1>6, <2>1, <2>3, <2>5, QuietStep DEF Over
<1>10. CASE changed = FALSE
  <2>1. Set(l, Raises(r))
    BY <1>3, <1>10, <1>7, <1>8 DEF _hash_lora, r
  <2> HIDE DEF r
  <2>2. Located([r.report EXCEPT !.failure = r.phase])
    BY <1>2, <1>4, <1>5 DEF Located, Reached, Alike, RunType, Report
  <2>3. r.report.by = l /\ r.exit = "none" /\ run[l].pc \in Working \ {"fail"}
    BY <1>1, <1>2, <1>4, <1>5 DEF Alike, Working
  <2> QED
    BY <1>1, <1>5, <1>6, <2>2, <2>3, <2>1, RaisesStep
<1> QED
  BY <1>9, <1>10

\* As long as a file is missing, the order names another one.
LEMMA SaveOrderNames ==
  ASSUME NEW saved \in SUBSET Files, saved # Files
  PROVE  SaveOrder[Cardinality(saved) + 1] \in Files
<1>1. IsFiniteSet(Files) /\ Cardinality(Files) = 6
  <2>1. /\ IsFiniteSet({"adapter"}) /\ Cardinality({"adapter"}) = 1
    BY FS_Singleton
  <2>2. /\ IsFiniteSet({"adapter", "tokenizer"}) /\ Cardinality({"adapter", "tokenizer"}) = 2
    <3>1. {"adapter", "tokenizer"} = {"adapter"} \cup {"tokenizer"}
      OBVIOUS
    <3> QED
      BY <2>1, <3>1, FS_AddElement
  <2>3. /\ IsFiniteSet({"adapter", "tokenizer", "optimizer"})
        /\ Cardinality({"adapter", "tokenizer", "optimizer"}) = 3
    <3>1. {"adapter", "tokenizer", "optimizer"} = {"adapter", "tokenizer"} \cup {"optimizer"}
      OBVIOUS
    <3> QED
      BY <2>2, <3>1, FS_AddElement
  <2>4. /\ IsFiniteSet({"adapter", "tokenizer", "optimizer", "scheduler"})
        /\ Cardinality({"adapter", "tokenizer", "optimizer", "scheduler"}) = 4
    <3>1. {"adapter", "tokenizer", "optimizer", "scheduler"}
            = {"adapter", "tokenizer", "optimizer"} \cup {"scheduler"}
      OBVIOUS
    <3> QED
      BY <2>3, <3>1, FS_AddElement
  <2>5. /\ IsFiniteSet({"adapter", "tokenizer", "optimizer", "scheduler", "trainer_state"})
        /\ Cardinality({"adapter", "tokenizer", "optimizer", "scheduler",
                        "trainer_state"}) = 5
    <3>1. {"adapter", "tokenizer", "optimizer", "scheduler", "trainer_state"}
            = {"adapter", "tokenizer", "optimizer", "scheduler"} \cup {"trainer_state"}
      OBVIOUS
    <3> QED
      BY <2>4, <3>1, FS_AddElement
  <2>6. Files = {"adapter", "tokenizer", "optimizer", "scheduler", "trainer_state"}
                  \cup {"lineage"}
    BY DEF Files
  <2> QED
    BY <2>5, <2>6, FS_AddElement
<1>2. Cardinality(saved) \in 0..5
  BY <1>1, FS_Subset, FS_CardinalityType
<1>3. \A n \in 0..5 : SaveOrder[n + 1] \in Files
  BY DEF SaveOrder, Files
<1> QED
  BY <1>2, <1>3

LEMMA SaveStep ==
  ASSUME IInv, NEW l \in Launches, Save(l)
  PROVE  IInv'
<1> DEFINE file == SaveOrder[Cardinality(run[l].saved) + 1]
           r    == [run[l] EXCEPT !.saved = @ \cup {file}]
<1>1. /\ run[l].pc = "save" /\ run[l] \in RunType /\ Good(l, run[l], dir)
      /\ file \in Files
  BY Here, SaveOrderNames DEF Save, At, RunType
<1>2. CASE /\ dir' = [dir EXCEPT !.checkpoint = [dir.checkpoint EXCEPT ![file] = l]]
           /\ Set(l, r) /\ UNCHANGED faults
  <2>1. /\ r \in RunType /\ r.pc = "save" /\ r.saved = run[l].saved \cup {file}
        /\ r.report = run[l].report /\ r.phase = run[l].phase /\ r.lora = run[l].lora
        /\ r.updated = run[l].updated /\ r.exit = run[l].exit
        /\ r.selection = run[l].selection
    BY <1>1 DEF RunType
  <2>2. /\ dir'.made = dir.made /\ dir'.by = dir.by /\ dir'.report = dir.report
        /\ dir'.checkpoint = [dir.checkpoint EXCEPT ![file] = l]
        /\ dir' \in Directory
    <3>1. [dir.checkpoint EXCEPT ![file] = l] \in [Files -> Launches \cup {Nobody}]
      BY <1>1, Here DEF Directory
    <3> QED
      BY <1>2, <3>1, Here DEF Directory
  <2> HIDE DEF file
  <2> HIDE DEF r
  <2>3. /\ dir.by = l /\ l # Nobody
        /\ dir.report.status # "PASS"
    <3>1. dir.by = l /\ l # Nobody
      BY <1>1, Here DEF Good, Working
    <3> QED
      BY <1>1, <3>1 DEF IInv, DirInv, Proven, Over
  <2>8. dir'.checkpoint = SavedBy(l, r.saved)
    <3>1. dir.checkpoint = SavedBy(l, run[l].saved)
      BY <1>1 DEF Good
    <3> QED
      BY <1>1, <2>1, <2>2, <3>1 DEF SavedBy
  <2>4. Good(l, r, dir')
    BY <1>1, <2>1, <2>2, <2>8 DEF Good, Working, Unsaved, Reached
  <2>5. DirInv'
    <3>1. \A f \in Files : dir'.checkpoint[f] \in {Nobody, dir'.by}
      BY <2>2, <2>3, <2>8 DEF SavedBy
    <3> QED
      BY <2>2, <2>3, <3>1 DEF IInv, DirInv
  <2>6. run' \in [Launches -> RunType]
    BY <1>2, <2>1 DEF IInv, Set
  <2>7. TypeOK'
    BY <1>2, <2>2, <2>6, Here DEF TypeOK, RunType
  <2> QED
    BY <1>2, <2>1, <2>3, <2>4, <2>5, <2>7, LaunchStep DEF OwnDir
<1>3. CASE Fault("write") /\ Set(l, Raises(run[l])) /\ UNCHANGED dir
  BY <1>1, <1>3, RaisesHere DEF Unsaved
<1> QED
  BY <1>2, <1>3 DEF Save

\* The result of phase C and the status.
Passed(r) == [r EXCEPT !.report.phases = @ \cup {"C"}, !.report.status = "PASS"]

LEMMA PassedType ==
  ASSUME NEW r \in RunType
  PROVE  LET s == Passed(r)
         IN  /\ s \in RunType /\ s.report.phases = r.report.phases \cup {"C"}
             /\ s.report.status = "PASS" /\ s.report.by = r.report.by
             /\ s.pc = r.pc /\ s.phase = r.phase /\ s.lora = r.lora
             /\ s.updated = r.updated /\ s.exit = r.exit
<1> DEFINE rep == [r.report EXCEPT !.phases = @ \cup {"C"}, !.status = "PASS"]
<1>1. /\ rep \in Report /\ rep.phases = r.report.phases \cup {"C"}
      /\ rep.by = r.report.by /\ rep.status = "PASS"
  BY DEF RunType, Report
<1>2. Passed(r) = [r EXCEPT !.report = rep]
  BY DEF Passed, RunType
<1> HIDE DEF rep
<1> QED
  BY <1>1, <1>2 DEF RunType

LEMMA PassStep ==
  ASSUME IInv, NEW l \in Launches, Pass(l)
  PROVE  IInv'
<1> DEFINE r == Passed(run[l])
<1>1. /\ run[l].pc = "save" /\ run[l].pc \in Working /\ run[l] \in RunType
      /\ Good(l, run[l], dir) /\ run[l].saved = Files
  BY Here DEF Pass, At, Working, Saved
<1>2. /\ dir.by = l /\ dir.made /\ run[l].report.by = l
      /\ \A f \in Files : dir.checkpoint[f] = l
      /\ run[l].lora /\ EachOnce(run[l].updated, {}) /\ run[l].exit = "none"
      /\ run[l].phase = "C" /\ run[l].report.phases = {"A", "B"}
  <2>1. \A f \in Files : dir.checkpoint[f] = l
    BY <1>1 DEF Good, SavedBy
  <2> QED
    BY <1>1, <2>1 DEF Good, Working, Reached
<1>3. /\ r \in RunType /\ r.report.phases = {"A", "B", "C"}
      /\ r.report.status = "PASS" /\ r.report.by = l /\ r.phase = "C"
      /\ r.lora /\ r.updated = run[l].updated /\ r.exit = "none" /\ r.report \in Report
  <2>1. {"A", "B"} \cup {"C"} = {"A", "B", "C"}
    OBVIOUS
  <2> QED
    BY <1>1, <1>2, <2>1, PassedType DEF RunType
<1>4. \/ /\ dir' = [dir EXCEPT !.report = r.report] /\ Set(l, Exits(r, "0"))
         /\ UNCHANGED faults
      \/ Fault("write") /\ CutShort(l) /\ Set(l, Raises(r))
      \/ /\ Fault("print") /\ dir' = [dir EXCEPT !.report = r.report]
         /\ Set(l, Raises(r))
  <2>1. validate_success_report(r.report)
    BY <1>3 DEF validate_success_report
  <2> QED
    BY <2>1 DEF Pass, Passed
<1> HIDE DEF r
<1>5. CASE /\ dir' = [dir EXCEPT !.report = r.report] /\ Set(l, Exits(r, "0"))
           /\ UNCHANGED faults
  <2>1. /\ dir'.report = r.report /\ dir'.by = l
        /\ \A f \in Files : dir'.checkpoint[f] = l
    BY <1>2, <1>5, Here DEF Directory
  <2>2. Proven(dir', Exits(r, "0"))
    BY <1>2, <1>3, <2>1, ExitsType DEF Proven, Over
  <2> QED
    BY <1>1, <1>3, <1>5, <2>2, Here, EndsReported
<1>7. Located([r.report EXCEPT !.failure = r.phase])
  BY <1>3 DEF Located, Report
<1>6. CASE Fault("write") /\ CutShort(l) /\ Set(l, Raises(r))
  <2>2. dir'.made /\ dir'.by = l
    BY <1>2, <1>6, Here DEF CutShort
  <2>3. Raises(r) \in RunType /\ Good(l, Raises(r), dir')
    BY <1>3, <1>7, <2>2, RaisesGood
  <2> QED
    BY <1>1, <1>6, <2>3, Here, FaultInBounds, CutShortStep
<1>8. CASE Fault("print") /\ dir' = [dir EXCEPT !.report = r.report] /\ Set(l, Raises(r))
  <2>1. /\ dir'.report = r.report /\ dir'.by = l /\ dir'.made
        /\ \A f \in Files : dir'.checkpoint[f] = l
    BY <1>2, <1>8, Here DEF Directory
  <2>2. Raises(r) \in RunType /\ Good(l, Raises(r), dir')
    BY <1>3, <1>7, <2>1, RaisesGood
  <2>3. Raises(r).pc = "fail" /\ Raises(r).lora = r.lora /\ Raises(r).updated = r.updated
    BY <1>3 DEF Raises, RunType
  <2>4. Proven(dir', Raises(r))
    BY <1>2, <1>3, <2>1, <2>3 DEF Proven, Over
  <2> QED
    BY <1>2, <1>3, <1>8, <2>2, <2>4, Here, FaultInBounds, ReportStep
<1> QED
  BY <1>4, <1>5, <1>6, <1>8

LEMMA FailStep ==
  ASSUME IInv, NEW l \in Launches, Fail(l)
  PROVE  IInv'
<1>1. run[l].pc = "fail"
  BY DEF Fail, At
<1>2. ASSUME NEW code \in {"1", "3"}, dir' = [dir EXCEPT !.report = run[l].report],
             Set(l, Exits(run[l], code)), Fault("print") \/ UNCHANGED faults
      PROVE  IInv'
  BY <1>1, <1>2, Here, FaultInBounds, EndsReported DEF Good, Working
<1>3. CASE Fault("write") /\ CutShort(l) /\ Set(l, Exits(run[l], "1"))
  BY <1>1, <1>3, Here, FaultInBounds, EndsTorn DEF Working
<1> QED
  BY <1>2, <1>3 DEF Fail

\* The end of a wrapper, which may log in the directory: nothing else of it is touched.
LEMMA LogStep ==
  ASSUME IInv, NEW l \in Launches, run[l].pc = "log", NEW exit \in {run[l].exit, "1", "killed"},
         Set(l, [run[l] EXCEPT !.pc = "ended", !.exit = exit]),
         Copied(l) \/ UNCHANGED dir, faults' \in 0..MaxFaults
  PROVE  IInv'
<1> DEFINE r == [run[l] EXCEPT !.pc = "ended", !.exit = exit]
<1>1. run[l] \in RunType /\ Good(l, run[l], dir) /\ Set(l, r)
  BY Here
<1>2. /\ dir'.made = dir.made /\ dir'.by = dir.by /\ dir'.report = dir.report
      /\ dir'.checkpoint = dir.checkpoint /\ dir' \in Directory
  BY Here DEF Copied, Directory
<1>3. /\ r \in RunType /\ r.pc = "ended" /\ r.lora = run[l].lora
      /\ r.updated = run[l].updated /\ r.exit = exit
  BY <1>1 DEF RunType, Pcs
<1> HIDE DEF r
<1>4. Good(l, r, dir')
  BY <1>1, <1>2, <1>3 DEF Good, Working, Unsaved
<1>5. run' \in [Launches -> RunType] /\ run'[l] = r /\ \A k \in Launches \ {l} : run'[k] = run[k]
  BY <1>1, <1>3 DEF IInv, Set
<1>6. TypeOK'
  BY <1>2, <1>5, Here DEF TypeOK, RunType
<1>7. dir'.report.status = "PASS" => dir'.by \in Launches /\ Proven(dir', run'[dir'.by])
  <2> SUFFICES ASSUME dir.report.status = "PASS"
               PROVE  dir.by \in Launches /\ Proven(dir', run'[dir.by])
    BY <1>2
  <2>1. dir.by \in Launches /\ Proven(dir, run[dir.by])
    BY DEF IInv, DirInv
  <2>2. CASE dir.by = l
    BY <1>2, <1>3, <1>5, <2>1, <2>2 DEF Proven, Over
  <2>3. CASE dir.by # l
    BY <1>2, <1>5, <2>1, <2>3 DEF Proven
  <2> QED
    BY <2>1, <2>2, <2>3
<1>8. DirInv'
  BY <1>2, <1>7 DEF IInv, DirInv
<1> QED
  BY <1>1, <1>2, <1>3, <1>4, <1>6, <1>8, LaunchStep DEF OwnDir

LEMMA CopyLogStep ==
  ASSUME IInv, NEW l \in Launches, CopyLog(l)
  PROVE  IInv'
<1>1. run[l].pc = "log" /\ (Copied(l) \/ UNCHANGED dir)
  BY DEF CopyLog, At
<1>2. CASE Set(l, [run[l] EXCEPT !.pc = "ended"]) /\ UNCHANGED faults
  <2>1. [run[l] EXCEPT !.pc = "ended"] = [run[l] EXCEPT !.pc = "ended", !.exit = run[l].exit]
    BY Here DEF RunType
  <2> QED
    BY <1>1, <1>2, <2>1, Here, LogStep
<1>3. CASE Set(l, [run[l] EXCEPT !.pc = "ended", !.exit = "1"]) /\ Fault("write")
  BY <1>1, <1>3, Here, FaultInBounds, LogStep
<1> QED
  BY <1>2, <1>3 DEF CopyLog

LEMMA KillStep ==
  ASSUME IInv, NEW l \in Launches, Kill(l)
  PROVE  IInv'
<1>0. PICK end \in {"log", "ended"} :
        Set(l, [run[l] EXCEPT !.pc = end, !.exit = "killed"])
  BY DEF Kill
<1> DEFINE r == [run[l] EXCEPT !.pc = end, !.exit = "killed"]
<1>1. run[l] \in RunType /\ Good(l, run[l], dir) /\ Set(l, r)
  BY <1>0, Here
<1>2. faults' \in 0..MaxFaults
  BY Here, FaultInBounds DEF Kill
<1>4. /\ r \in RunType /\ r.pc = end /\ r.exit = "killed" /\ r.lora = run[l].lora
      /\ r.updated = run[l].updated
  BY <1>1 DEF RunType, Pcs
<1> HIDE DEF r
<1>3. Good(l, r, dir) /\ Good(l, r, dir')
  BY <1>4 DEF Good, Working, Unsaved
<1>5. CASE UNCHANGED dir
  BY <1>1, <1>2, <1>3, <1>4, <1>5, QuietStep DEF Over
<1>6. CASE Writing(run[l]) /\ CutShort(l)
  <2>1. run[l].pc \in Working
    BY <1>6 DEF Writing, Working
  <2> QED
    BY <1>1, <1>2, <1>3, <1>4, <1>6, <2>1, CutShortStep
<1> QED
  BY <1>5, <1>6 DEF Kill

LEMMA KillWrapperStep ==
  ASSUME IInv, NEW l \in Launches, KillWrapper(l)
  PROVE  IInv'
<1>1. faults' \in 0..MaxFaults
  BY Here, FaultInBounds DEF KillWrapper
<1>2. CASE run[l].pc = "log"
  BY <1>1, <1>2, LogStep DEF KillWrapper, At
<1>3. CASE run[l].pc # "log"
  <2> DEFINE r == [run[l] EXCEPT !.shell = FALSE]
  <2>1. Set(l, r) /\ UNCHANGED dir
    BY <1>3 DEF KillWrapper, At
  <2>2. /\ r \in RunType /\ Alike(run[l], r) /\ r.todo = run[l].todo
        /\ r.grads = run[l].grads
    BY Here DEF RunType, Alike
  <2> HIDE DEF r
  <2>3. Good(l, r, dir)
    BY <2>2, Here DEF Good, Alike, Reached
  <2> QED
    BY <1>1, <2>1, <2>2, <2>3, QuietStep DEF Alike
<1> QED
  BY <1>2, <1>3

LEMMA NextStep == IInv /\ [Next]_vars => IInv'
<1> SUFFICES ASSUME IInv, [Next]_vars PROVE IInv'
  OBVIOUS
<1>1. CASE UNCHANGED vars
  BY <1>1 DEF vars, IInv, TypeOK, LaunchInv, DirInv
<1>2. CASE Done
  BY <1>1, <1>2 DEF Done
<1>3. ASSUME NEW l \in Launches, Launch(l) PROVE IInv'
  BY <1>3, StartStep
<1>4. ASSUME NEW l \in Launches, Step(l) PROVE IInv'
  <2>1. CASE Preflight(l)
    BY <2>1, PreflightStep
  <2>2. CASE Refuse(l)
    BY <2>2, RefuseStep
  <2>3. CASE WriteRefusal(l)
    BY <2>3, WriteRefusalStep
  <2>4. CASE MakeDirectory(l)
    BY <2>4, MakeDirectoryStep
  <2>5. CASE WriteRunning(l)
    BY <2>5, WriteRunningStep
  <2>6. CASE LoadModel(l)
    BY <2>6, LoadModelStep
  <2>7. CASE \E p \in {"A", "B"} : Probe(l, p) \/ WritePhase(l, p)
    BY <2>7, ProbeStep, WritePhaseStep
  <2>8. CASE Optimizer(l)
    BY <2>8, OptimizerStep
  <2>9. CASE Accumulate(l)
    BY <2>9, AccumulateStep
  <2>10. CASE Update(l)
    BY <2>10, UpdateStep
  <2>11. CASE Save(l)
    BY <2>11, SaveStep
  <2>12. CASE Pass(l)
    BY <2>12, PassStep
  <2>13. CASE Fail(l)
    BY <2>13, FailStep
  <2>14. CASE CopyLog(l)
    BY <2>14, CopyLogStep
  <2> QED
    BY <1>4, <2>1, <2>2, <2>3, <2>4, <2>5, <2>6, <2>7, <2>8, <2>9, <2>10, <2>11, <2>12,
       <2>13, <2>14 DEF Step
<1>5. ASSUME NEW l \in Launches, Kill(l) PROVE IInv'
  BY <1>5, KillStep
<1>6. ASSUME NEW l \in Launches, KillWrapper(l) PROVE IInv'
  BY <1>6, KillWrapperStep
<1> QED
  BY <1>1, <1>2, <1>3, <1>4, <1>5, <1>6 DEF Next

----------------------------------------------------------------------------
(* The theorems                                                            *)

\* The inductive invariant holds: a launch that works has the directory to itself, its
\* report in memory and the checkpoint agree with the phase it is in, and a PASS in the
\* directory is its maker's, who is over with it.
THEOREM AdmissionInvariant == Spec => []IInv
  BY InitInv, NextStep, PTL DEF Spec

\* The variables of the admission keep their types (run_sft_gpu_admission.py, main).
THEOREM AdmissionTypes == Spec => []TypeOK
<1>1. IInv => TypeOK
  BY DEF IInv
<1> QED
  BY <1>1, AdmissionInvariant, PTL

\* However many launches are started at once, the report and the checkpoint are one
\* launch's: mkdir without exist_ok lets one of them through, and no other script writes
\* there.  Of the log, which a wrapper copies whoever made the directory, it says nothing.
THEOREM DirectoryIsOneLaunchs == Spec => []OneLaunchPerDirectory
<1>1. IInv => OneLaunchPerDirectory
  BY DEF IInv, DirInv, LaunchInv, Good, OneLaunchPerDirectory, Working
<1> QED
  BY <1>1, AdmissionInvariant, PTL

\* A PASS is backed by the checkpoint and by one update of the frozen examples, a FAIL
\* names a phase the launch reached, and the exit code says the same as the report,
\* whatever is killed and whichever write fails.
THEOREM ReportCanBeBelieved == Spec => []ReportIsTrue
<1> SUFFICES ASSUME IInv PROVE ReportIsTrue
  BY AdmissionInvariant, PTL
<1>1. PassIsBacked
  <2> SUFFICES ASSUME dir.report.status = "PASS"
               PROVE  /\ dir.by # Nobody /\ \A f \in Files : dir.checkpoint[f] = dir.by
                      /\ dir.report.phases = {"A", "B", "C"} /\ run[dir.by].lora
                      /\ \A e \in Examples :
                           run[dir.by].updated[e] = IF e \in DOMAIN Frozen THEN 1 ELSE 0
    BY DEF PassIsBacked
  <2>1. dir.by \in Launches /\ Proven(dir, run[dir.by])
    BY DEF IInv, DirInv
  <2> QED
    BY <2>1, SftAdmissionAssumption DEF Proven, EachOnce
<1>2. FailureIsLocated
  <2> SUFFICES ASSUME dir.report.status = "FAIL" PROVE FailureIsLocated
    BY DEF FailureIsLocated
  <2>1. Located(dir.report)
    BY DEF IInv, DirInv
  <2> QED
    BY <2>1 DEF Located, FailureIsLocated
<1>3. ExitAgreesWithReport
  BY DEF IInv, LaunchInv, Good, ExitAgreesWithReport
<1> QED
  BY <1>1, <1>2, <1>3 DEF ReportIsTrue
=============================================================================
