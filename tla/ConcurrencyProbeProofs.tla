------------------------ MODULE ConcurrencyProbeProofs ------------------------
(***************************************************************************)
(* Proofs about the teacher client's calls under a global stop and about   *)
(* the concurrency probe made of them: for every list of tasks, number of  *)
(* threads, retry limit and step limit.                                    *)
(***************************************************************************)
EXTENDS ConcurrencyProbe, FiniteSetTheorems, TLAPS

\* Posts after the stop, call by call: none before the stop is set, and in a call
\* one for each attempt made.
Bounded ==
  \A c \in Callers :
    /\ ~stop => late[c] = 0
    /\ call[c].pc = "posting" => late[c] <= call[c].attempt
    /\ call[c].pc = "waiting" => /\ late[c] <= call[c].attempt + 1
                                 /\ call[c].attempt < MaxRetries
    /\ late[c] <= MaxRetries + 1

ClientInv == ClientTypeOK /\ GivenUpOnlyWhenExhausted /\ Bounded

\* A task's artifact and result follow its thread.
Recorded(t) ==
  CASE job[t].pc \in {"queued", "taken"} ->
         artifact[t] = "absent" /\ result[t] = "none" /\ job[t].steps = 0
    [] job[t].pc = "returned" ->
         \/ artifact[t] = "absent" /\ result[t] = "cancelled" /\ job[t] = Job("returned")
         \/ /\ artifact[t] = IF job[t].outcome = "none" THEN "in_progress" ELSE job[t].outcome
            /\ result[t] = WorkerResult(job[t])
            /\ (job[t].outcome = "none" <=> job[t].raised # "none")
    [] OTHER -> artifact[t] = "in_progress" /\ result[t] = "none"

\* A record has an outcome, or an exception left the task, at its end and not before.
Ended(t) ==
  IF job[t].pc = "finally" THEN (job[t].outcome = "none" <=> job[t].raised # "none")
  ELSE job[t].pc # "returned" => job[t].outcome = "none" /\ job[t].raised = "none"

\* Why the stop is set: an interrupted task, or an exception nobody knows.
Culprit(t) ==
  \/ /\ job[t].outcome = "infrastructure_interrupted" /\ job[t].raised = "none"
     /\ job[t].pc \in {"finally", "returned"}
  \/ job[t].raised \in Uncaught /\ job[t].pc = "returned"

StopIsCaused ==
  /\ stop => \E t \in Callers : Culprit(t)
  /\ ~stop => \A t \in Callers :
       /\ job[t].outcome # "infrastructure_interrupted"
       /\ job[t].raised # "WorkerCancelled"
       /\ job[t].pc = "returned" => job[t].raised = "none" /\ job[t].outcome # "none"

Reported ==
  /\ report # "in_progress" => Over
  /\ report = "complete" => ~stop
  /\ report = "stopped" => stop

\* The inductive invariant.
IInv == /\ TypeOK /\ ClientInv
        /\ (\A t \in Callers : Recorded(t) /\ Ended(t))
        /\ StopIsCaused /\ Reported

----------------------------------------------------------------------------
(* The client.                                                             *)

LEMMA VerdictType ==
  ASSUME NEW reply \in Replies
  PROVE  /\ Verdict(reply) \in Outcomes
         /\ Verdict(reply) \in {"infrastructure", "provider_protocol_error"}
              => reply \in Transient \cup Protocol
  BY DEF Verdict, Replies, Transient, BadDelay, Protocol, Untyped, Outcomes, ErrorKinds, Escapes

\* What a response makes of a call.
LEMMA ReceivedCall ==
  ASSUME NEW k \in CallType, NEW reply \in Replies
  PROVE  /\ Received(k, reply) \in CallType
         /\ Received(k, reply).attempt = k.attempt
         /\ Received(k, reply).pc \in {"waiting", "over"}
         /\ Received(k, reply).pc = "waiting" => k.attempt < MaxRetries
         /\ Received(k, reply).outcome \in {"infrastructure", "provider_protocol_error"}
              => k.attempt = MaxRetries
PROOF
  <1>1. CASE Retried(k, reply)
    BY <1>1 DEF Received, Retried, Call, CallType
  <1>2. CASE ~Retried(k, reply)
    <2>1. Received(k, reply) = Call("over", k.attempt, reply, Verdict(reply))
      BY <1>2 DEF Received
    <2>2. Received(k, reply) \in CallType
      BY <2>1, VerdictType DEF Call, CallType
    <2>3. Verdict(reply) \in {"infrastructure", "provider_protocol_error"}
            => k.attempt = MaxRetries
      BY <1>2, VerdictType, TeacherClientAssumption DEF Retried, CallType
    <2> QED
      BY <2>1, <2>2, <2>3 DEF Call
  <1> QED
    BY <1>1, <1>2

LEMMA SleptCall ==
  ASSUME NEW k \in CallType, k.attempt < MaxRetries
  PROVE  /\ Slept(k) \in CallType
         /\ Slept(k).pc = "posting" => Slept(k).attempt = k.attempt + 1
         /\ Slept(k).pc \in {"posting", "over"}
         /\ Slept(k).outcome \in {"none", "ValueError", "OverflowError"}
  BY TeacherClientAssumption DEF Slept, BadDelay, Call, CallType, Outcomes, Escapes

LEMMA NoCallType == NoCall \in CallType /\ Call("posting", 0, "none", "none") \in CallType
  BY TeacherClientAssumption DEF NoCall, Call, CallType

\* One step of one thread's call, or none, while the stop may be set but not cleared.
LEMMA ClientStep ==
  ASSUME ClientInv, NEW c \in Callers, stop' \in BOOLEAN, stop => stop',
         \/ Generate(c) \/ Post(c) \/ Sleep(c) \/ Return(c)
         \/ UNCHANGED <<call, late>>
  PROVE  ClientInv'
PROOF
  <1> USE DEF ClientInv
  <1>0. /\ call \in [Callers -> CallType] /\ late \in [Callers -> Nat] /\ MaxRetries \in Nat
        /\ call[c].attempt \in 0 .. MaxRetries
    BY TeacherClientAssumption DEF ClientTypeOK, CallType
  <1>1. CASE Generate(c)
    <2>1. ~stop /\ late' = late
          /\ call' = [call EXCEPT ![c] = Call("posting", 0, "none", "none")]
      BY <1>1 DEF Generate
    <2>2. ClientTypeOK'
      BY <1>0, <2>1, NoCallType DEF ClientTypeOK
    <2>3. GivenUpOnlyWhenExhausted'
      BY <1>0, <2>1 DEF GivenUpOnlyWhenExhausted, Call
    <2>4. Bounded'
      BY <1>0, <2>1 DEF Bounded, Call
    <2> QED
      BY <2>2, <2>3, <2>4
  <1>2. CASE Post(c)
    <2>1. PICK reply \in Replies : call' = [call EXCEPT ![c] = Received(@, reply)]
      BY <1>2 DEF Post
    <2>2. /\ call[c].pc = "posting"
          /\ late' = [late EXCEPT ![c] = IF stop THEN @ + 1 ELSE @]
      BY <1>2 DEF Post
    <2>3. call'[c] = Received(call[c], reply) /\ \A d \in Callers \ {c} : call'[d] = call[d]
      BY <1>0, <2>1
    <2>4. ClientTypeOK'
      BY <1>0, <2>1, <2>2, ReceivedCall DEF ClientTypeOK
    <2>5. GivenUpOnlyWhenExhausted'
      BY <1>0, <2>3, ReceivedCall DEF GivenUpOnlyWhenExhausted
    <2>6. Bounded'
      <3> SUFFICES ASSUME NEW d \in Callers
                   PROVE  /\ ~stop' => late'[d] = 0
                          /\ call'[d].pc = "posting" => late'[d] <= call'[d].attempt
                          /\ call'[d].pc = "waiting" => /\ late'[d] <= call'[d].attempt + 1
                                                        /\ call'[d].attempt < MaxRetries
                          /\ late'[d] <= MaxRetries + 1
        BY DEF Bounded
      <3>1. CASE d = c
        <4>1. /\ late[c] <= call[c].attempt /\ late[c] \in Nat
              /\ ~stop => late[c] = 0
          BY <1>0, <2>2 DEF Bounded
        <4>2. late'[c] = IF stop THEN late[c] + 1 ELSE late[c]
          BY <1>0, <2>2
        <4>3. /\ call'[c].attempt = call[c].attempt
              /\ call'[c].pc \in {"waiting", "over"}
              /\ call'[c].pc = "waiting" => call[c].attempt < MaxRetries
          BY <1>0, <2>3, ReceivedCall
        <4> QED
          BY <1>0, <3>1, <4>1, <4>2, <4>3
      <3>2. CASE d # c
        BY <1>0, <2>2, <2>3, <3>2 DEF Bounded
      <3> QED
        BY <3>1, <3>2
    <2> QED
      BY <2>4, <2>5, <2>6
  <1>3. CASE Sleep(c)
    <2>1. /\ call[c].pc = "waiting" /\ late' = late
          /\ call' = [call EXCEPT ![c] = Slept(@)]
      BY <1>3 DEF Sleep
    <2>2. call[c].attempt < MaxRetries /\ late[c] <= call[c].attempt + 1
      BY <2>1 DEF Bounded
    <2>3. call'[c] = Slept(call[c]) /\ \A d \in Callers \ {c} : call'[d] = call[d]
      BY <1>0, <2>1
    <2>4. ClientTypeOK'
      BY <1>0, <2>1, <2>2, SleptCall DEF ClientTypeOK
    <2>5. GivenUpOnlyWhenExhausted'
      BY <1>0, <2>2, <2>3, SleptCall DEF GivenUpOnlyWhenExhausted
    <2>6. Bounded'
      BY <1>0, <2>1, <2>2, <2>3, SleptCall DEF Bounded
    <2> QED
      BY <2>4, <2>5, <2>6
  <1>4. CASE Return(c)
    <2>1. late' = late /\ call' = [call EXCEPT ![c] = NoCall]
      BY <1>4 DEF Return
    <2>2. ClientTypeOK'
      BY <1>0, <2>1, NoCallType DEF ClientTypeOK
    <2>3. GivenUpOnlyWhenExhausted'
      BY <1>0, <2>1 DEF GivenUpOnlyWhenExhausted, NoCall, Call
    <2>4. Bounded'
      BY <1>0, <2>1 DEF Bounded, NoCall, Call
    <2> QED
      BY <2>2, <2>3, <2>4
  <1>5. CASE UNCHANGED <<call, late>>
    BY <1>5 DEF ClientTypeOK, GivenUpOnlyWhenExhausted, Bounded
  <1> QED
    BY <1>1, <1>2, <1>3, <1>4, <1>5

----------------------------------------------------------------------------
(* The probe.                                                              *)

JobType ==
  [pc : {"queued", "taken", "reset", "check", "generate", "step", "finally", "returned"},
   steps : 0 .. MaxSteps - 1, outcome : TaskOutcomes \cup {"none"},
   raised : Uncaught \cup {"none", "WorkerCancelled"}]

Artifacts == TaskOutcomes \cup {"absent", "in_progress"}
Results   == TaskOutcomes \cup {"none", "cancelled", "worker_error"}

\* No more threads are busy than there are.
LEMMA BusyStep ==
  ASSUME TypeOK, NEW t \in Callers, \A d \in Callers \ {t} : job'[d] = job[d],
         job[t].pc # "returned",
         job[t].pc = "queued" => Cardinality(Busy) < Threads
  PROVE  Cardinality(Busy') <= Threads
PROOF
  <1>1. IsFiniteSet(Busy)
    BY TeacherClientAssumption, FS_Subset DEF Busy
  <1>2. Cardinality(Busy) \in Nat /\ Cardinality(Busy) <= Threads /\ Threads \in Nat
    BY <1>1, FS_CardinalityType, ProbeAssumption DEF TypeOK
  <1>3. Busy' \subseteq Busy \cup {t}
    BY DEF Busy
  <1>4. /\ IsFiniteSet(Busy \cup {t})
        /\ Cardinality(Busy \cup {t}) = IF t \in Busy THEN Cardinality(Busy)
                                                      ELSE Cardinality(Busy) + 1
    BY <1>1, FS_AddElement
  <1>5. Cardinality(Busy \cup {t}) <= Threads
    <2>1. t \notin Busy => job[t].pc = "queued"
      BY DEF Busy
    <2> QED
      BY <1>2, <1>4, <2>1
  <1>6. /\ IsFiniteSet(Busy')
        /\ Cardinality(Busy') <= Cardinality(Busy \cup {t})
    BY <1>3, <1>4, FS_Subset
  <1>7. Cardinality(Busy') \in Nat /\ Cardinality(Busy \cup {t}) \in Nat
    BY <1>4, <1>6, FS_CardinalityType
  <1> QED
    BY <1>2, <1>5, <1>6, <1>7

\* What a step of one task has to show: the other tasks are as they were.
LEMMA TaskStep ==
  ASSUME IInv, NEW t \in Callers, job[t].pc # "returned",
         job' \in [Callers -> JobType],
         artifact' \in [Callers -> Artifacts], result' \in [Callers -> Results],
         \A d \in Callers \ {t} : /\ job'[d] = job[d] /\ artifact'[d] = artifact[d]
                                  /\ result'[d] = result[d],
         job[t].pc = "queued" => Cardinality(Busy) < Threads,
         report' = report, ClientInv', stop' \in BOOLEAN, stop => stop',
         Recorded(t)', Ended(t)',
         stop' /\ ~stop => Culprit(t)',
         Culprit(t) => Culprit(t)',
         ~stop' => /\ job'[t].outcome # "infrastructure_interrupted"
                   /\ job'[t].raised # "WorkerCancelled"
                   /\ job'[t].pc = "returned" =>
                        job'[t].raised = "none" /\ job'[t].outcome # "none"
  PROVE  IInv'
PROOF
  <1>1. \A d \in Callers : Recorded(d)' /\ Ended(d)'
    <2> SUFFICES ASSUME NEW d \in Callers, d # t
                 PROVE  Recorded(d)' /\ Ended(d)'
      OBVIOUS
    <2>1. Recorded(d) /\ Ended(d)
      BY DEF IInv
    <2>2. job'[d] = job[d] /\ artifact'[d] = artifact[d] /\ result'[d] = result[d]
      OBVIOUS
    <2> QED
      BY <2>1, <2>2 DEF Recorded, Ended, WorkerResult
  <1>2. \A d \in Callers : Culprit(d) => Culprit(d)'
    BY DEF Culprit
  <1>3. StopIsCaused'
    <2>1. stop' => \E d \in Callers : Culprit(d)'
      <3>1. CASE stop
        BY <3>1, <1>2 DEF IInv, StopIsCaused
      <3>2. CASE ~stop
        BY <3>2
      <3> QED
        BY <3>1, <3>2
    <2>2. ASSUME ~stop', NEW d \in Callers
          PROVE  /\ job'[d].outcome # "infrastructure_interrupted"
                 /\ job'[d].raised # "WorkerCancelled"
                 /\ job'[d].pc = "returned" =>
                      job'[d].raised = "none" /\ job'[d].outcome # "none"
      BY <2>2 DEF IInv, StopIsCaused
    <2> QED
      BY <2>1, <2>2 DEF StopIsCaused, Culprit
  <1>4. report = "in_progress"
    BY DEF IInv, TypeOK, Reported, Over
  <1>5. Reported'
    BY <1>4 DEF Reported
  <1>6. TypeOK'
    <2>1. Cardinality(Busy') <= Threads
      BY BusyStep DEF IInv
    <2>2. report' \in {"in_progress", "complete", "stopped"}
      BY <1>4
    <2>3. ClientTypeOK'
      BY DEF ClientInv
    <2> QED
      BY <2>1, <2>2, <2>3 DEF TypeOK, JobType, Artifacts, Results
  <1> QED
    BY <1>1, <1>3, <1>5, <1>6 DEF IInv

LEMMA InitIInv == Init => IInv
PROOF
  <1> SUFFICES ASSUME Init PROVE IInv
    OBVIOUS
  <1>1. ClientInv
    <2>1. /\ call = [c \in Callers |-> NoCall] /\ stop = FALSE
          /\ late = [c \in Callers |-> 0]
          /\ NoCall.pc = "idle" /\ NoCall.outcome = "none"
      BY DEF Init, ClientInit, NoCall, Call
    <2>2. ClientTypeOK
      BY <2>1, NoCallType DEF ClientTypeOK
    <2>3. GivenUpOnlyWhenExhausted /\ Bounded
      BY <2>1, TeacherClientAssumption DEF GivenUpOnlyWhenExhausted, Bounded
    <2> QED
      BY <2>2, <2>3 DEF ClientInv
  <1>2. Busy = {}
    BY DEF Init, Busy, Job
  <1>3. Cardinality(Busy) <= Threads
    BY <1>2, FS_EmptySet, ProbeAssumption
  <1>4. TypeOK
    BY <1>1, <1>3, ProbeAssumption DEF Init, TypeOK, ClientInv, Job
  <1>5. \A t \in Callers : Recorded(t) /\ Ended(t)
    BY DEF Init, Recorded, Ended, Job
  <1>6. StopIsCaused /\ Reported
    BY DEF Init, ClientInit, StopIsCaused, Reported, Job
  <1> QED
    BY <1>1, <1>4, <1>5, <1>6 DEF IInv

\* What is known of a task before a step of its own.
LEMMA Before ==
  ASSUME IInv, NEW t \in Callers
  PROVE  /\ job \in [Callers -> JobType] /\ job[t] \in JobType
         /\ artifact \in [Callers -> Artifacts] /\ result \in [Callers -> Results]
         /\ stop \in BOOLEAN /\ ClientInv
         /\ Recorded(t) /\ Ended(t)
         /\ MaxSteps \in Nat \ {0}
  BY ProbeAssumption DEF IInv, TypeOK, JobType, Artifacts, Results, ClientInv, ClientTypeOK

LEMMA TakeIInv ==
  ASSUME IInv, NEW t \in Callers, Take(t), UNCHANGED report
  PROVE  IInv'
PROOF
  <1>1. job[t].pc = "queued" /\ job' = [job EXCEPT ![t] = [job[t] EXCEPT !.pc = "taken"]]
    BY DEF Take, To
  <1>2. ClientInv'
    BY Before, ClientStep DEF Take
  <1>3. /\ job' \in [Callers -> JobType]
        /\ job'[t] = [job[t] EXCEPT !.pc = "taken"]
    BY <1>1, Before DEF JobType
  <1>4. Recorded(t)' /\ Ended(t)'
    BY <1>1, <1>3, Before DEF Take, Recorded, Ended, JobType
  <1>5. Culprit(t) => Culprit(t)'
    BY <1>1 DEF Culprit
  <1>6. job[t].outcome = "none" /\ job[t].raised = "none"
    BY <1>1, Before DEF Ended
  <1> QED
    BY <1>1, <1>2, <1>3, <1>4, <1>5, <1>6, Before, TaskStep DEF Take, JobType

LEMMA BeginIInv ==
  ASSUME IInv, NEW t \in Callers, Begin(t), UNCHANGED report
  PROVE  IInv'
PROOF
  <1>1. /\ job[t].pc = "taken" /\ stop' = stop
        /\ job[t].outcome = "none" /\ job[t].raised = "none"
        /\ artifact[t] = "absent" /\ result[t] = "none"
    BY Before DEF Begin, write, Ended, Recorded
  <1>2. ClientInv'
    BY Before, ClientStep DEF Begin, write
  <1>3. ~Culprit(t)
    BY <1>1 DEF Culprit
  <1>4. CASE stop
    <2>1. /\ job' = [job EXCEPT ![t] = [job[t] EXCEPT !.pc = "returned"]]
          /\ result' = [result EXCEPT ![t] = "cancelled"] /\ artifact' = artifact
      BY <1>4 DEF Begin, write, To
    <2>2. job' \in [Callers -> JobType] /\ job'[t] = [job[t] EXCEPT !.pc = "returned"]
      BY <2>1, Before DEF JobType
    <2>3. result' \in [Callers -> Results] /\ result'[t] = "cancelled"
      BY <2>1, Before DEF Results
    <2>4. job[t].steps = 0
      BY <1>1, Before DEF Recorded
    <2>5. Recorded(t)' /\ Ended(t)'
      BY <1>1, <2>1, <2>2, <2>3, <2>4, Before DEF Recorded, Ended, JobType, Job
    <2> QED
      BY <1>1, <1>2, <1>3, <1>4, <2>1, <2>2, <2>3, <2>5, Before, TaskStep
  <1>5. CASE ~stop
    <2>1. /\ job' = [job EXCEPT ![t] = [job[t] EXCEPT !.pc = "reset"]]
          /\ artifact' = [artifact EXCEPT ![t] = "in_progress"] /\ result' = result
      BY <1>5 DEF Begin, write, To
    <2>2. job' \in [Callers -> JobType] /\ job'[t] = [job[t] EXCEPT !.pc = "reset"]
      BY <2>1, Before DEF JobType
    <2>3. artifact' \in [Callers -> Artifacts] /\ artifact'[t] = "in_progress"
      BY <2>1, Before DEF Artifacts
    <2>4. Recorded(t)' /\ Ended(t)'
      BY <1>1, <2>1, <2>2, <2>3, Before DEF Recorded, Ended, JobType
    <2> QED
      BY <1>1, <1>2, <1>3, <1>5, <2>1, <2>2, <2>3, <2>4, Before, TaskStep DEF JobType
  <1> QED
    BY <1>4, <1>5

\* A step of a running task: it runs on, or goes to its finally block with an outcome
\* or an exception, and a stop it sets is its own.
LEMMA RunningStep ==
  ASSUME IInv, NEW t \in Callers, job[t].pc \in {"reset", "check", "generate", "step"},
         NEW j \in JobType, job' = [job EXCEPT ![t] = j],
         \/ /\ j.pc \in {"reset", "check", "generate", "step"}
            /\ j.outcome = "none" /\ j.raised = "none"
         \/ j.pc = "finally" /\ (j.outcome = "none" <=> j.raised # "none"),
         artifact' = artifact, result' = result, report' = report,
         ClientInv', stop' \in BOOLEAN, stop => stop',
         stop' /\ ~stop => j.outcome = "infrastructure_interrupted" /\ j.pc = "finally",
         ~stop' => j.outcome # "infrastructure_interrupted" /\ j.raised # "WorkerCancelled"
  PROVE  IInv'
PROOF
  <1>1. job' \in [Callers -> JobType] /\ job'[t] = j
    BY Before
  <1>2. artifact[t] = "in_progress" /\ result[t] = "none"
    BY Before DEF Recorded
  <1>3. Recorded(t)' /\ Ended(t)'
    BY <1>1, <1>2 DEF Recorded, Ended
  <1>4. ~Culprit(t)
    BY DEF Culprit
  <1>5. stop' /\ ~stop => Culprit(t)'
    BY <1>1 DEF Culprit
  <1> QED
    BY <1>1, <1>3, <1>4, <1>5, Before, TaskStep

LEMMA ResetIInv ==
  ASSUME IInv, NEW t \in Callers, Reset(t), UNCHANGED report
  PROVE  IInv'
PROOF
  <1>0. /\ stop' = stop \/ stop' = TRUE
        /\ call' = call /\ late' = late /\ artifact' = artifact /\ result' = result
        /\ report' = report /\ job[t].pc = "reset"
    BY DEF Reset
  <1>1. /\ job[t].pc = "reset" /\ job[t].outcome = "none" /\ job[t].raised = "none"
        /\ stop' \in BOOLEAN /\ (stop => stop')
        /\ (~stop' => stop' = stop)
    <2>1. job[t].outcome = "none" /\ job[t].raised = "none"
      BY <1>0, Before DEF Ended
    <2>2. stop \in BOOLEAN
      BY Before
    <2>3. stop' \in BOOLEAN /\ (stop => stop') /\ (~stop' => stop' = stop)
      <3>1. CASE stop' = stop
        BY <2>2, <3>1
      <3>2. CASE stop' = TRUE
        BY <3>2
      <3> QED
        BY <1>0, <3>1, <3>2
    <2> QED
      BY <1>0, <2>1, <2>3
  <1>2. ClientInv'
    BY <1>0, <1>1, Before, ClientStep
  <1>3. CASE To(t, "check") /\ UNCHANGED stop
    <2> DEFINE j == [job[t] EXCEPT !.pc = "check"]
    <2>1. j \in JobType /\ job' = [job EXCEPT ![t] = j]
      BY <1>3, Before DEF To, JobType
    <2>2. j.pc = "check" /\ j.outcome = "none" /\ j.raised = "none"
      BY <1>1, Before DEF JobType
    <2> HIDE DEF j
    <2> QED
      BY <1>0, <1>1, <1>2, <1>3, <2>1, <2>2, RunningStep
  <1>4. ASSUME NEW outcome \in {"environment_error", "infrastructure_interrupted"},
               Ends(t, outcome), outcome = "environment_error" => stop' = stop,
               outcome # "environment_error" => stop'
        PROVE  IInv'
    <2> DEFINE j == [job[t] EXCEPT !.pc = "finally", !.outcome = outcome]
    <2>1. j \in JobType /\ job' = [job EXCEPT ![t] = j]
      BY <1>4, Before DEF Ends, JobType, TaskOutcomes
    <2>2. j.pc = "finally" /\ j.outcome = outcome /\ j.raised = "none"
      BY <1>1, Before DEF JobType
    <2>3. /\ stop' /\ ~stop => outcome = "infrastructure_interrupted"
          /\ ~stop' => outcome # "infrastructure_interrupted"
      BY <1>4
    <2>4. outcome # "none"
      BY DEF TaskOutcomes
    <2> HIDE DEF j
    <2>5. j.outcome # "none" /\ j.raised = "none" /\ j.raised # "WorkerCancelled"
      BY <2>2, <2>4
    <2> QED
      BY <1>0, <1>1, <1>2, <2>1, <2>2, <2>3, <2>5, RunningStep
  <1>5. CASE Leaves(t, "AssertionError") /\ UNCHANGED stop
    <2> DEFINE j == [job[t] EXCEPT !.pc = "finally", !.raised = "AssertionError"]
    <2>1. j \in JobType /\ job' = [job EXCEPT ![t] = j]
      BY <1>5, Before DEF Leaves, JobType, Uncaught
    <2>2. j.pc = "finally" /\ j.outcome = "none" /\ j.raised = "AssertionError"
      BY <1>1, Before DEF JobType
    <2> HIDE DEF j
    <2> QED
      BY <1>0, <1>1, <1>2, <1>5, <2>1, <2>2, RunningStep
  <1> QED
    BY <1>3, <1>4, <1>5 DEF Reset

LEMMA CheckIInv ==
  ASSUME IInv, NEW t \in Callers, Check(t), UNCHANGED report
  PROVE  IInv'
PROOF
  <1>0. artifact' = artifact /\ result' = result /\ report' = report
    BY DEF Check
  <1>1. /\ job[t].pc = "check" /\ job[t].outcome = "none" /\ job[t].raised = "none"
        /\ stop' = stop /\ stop \in BOOLEAN
    BY Before DEF Check, Ended
  <1>2. ClientInv'
    BY <1>1, Before, ClientStep DEF Check
  <1>3. CASE To(t, "generate")
    <2> DEFINE j == [job[t] EXCEPT !.pc = "generate"]
    <2>1. j \in JobType /\ job' = [job EXCEPT ![t] = j]
      BY <1>3, Before DEF To, JobType
    <2>2. j.pc = "generate" /\ j.outcome = "none" /\ j.raised = "none"
      BY <1>1, Before DEF JobType
    <2> HIDE DEF j
    <2> QED
      BY <1>0, <1>1, <1>2, <2>1, <2>2, RunningStep
  <1>4. CASE stop /\ Leaves(t, "WorkerCancelled")
    <2> DEFINE j == [job[t] EXCEPT !.pc = "finally", !.raised = "WorkerCancelled"]
    <2>1. j \in JobType /\ job' = [job EXCEPT ![t] = j]
      BY <1>4, Before DEF Leaves, JobType
    <2>2. j.pc = "finally" /\ j.outcome = "none" /\ j.raised = "WorkerCancelled"
      BY <1>1, Before DEF JobType
    <2> HIDE DEF j
    <2> QED
      BY <1>0, <1>1, <1>2, <1>4, <2>1, <2>2, RunningStep
  <1> QED
    BY <1>3, <1>4 DEF Check

LEMMA CallingIInv ==
  ASSUME IInv, NEW t \in Callers, Calling(t), UNCHANGED report
  PROVE  IInv'
PROOF
  <1>0. artifact' = artifact /\ result' = result /\ report' = report
    BY DEF Calling
  <1>1. /\ job[t].pc = "generate" /\ job[t].outcome = "none" /\ job[t].raised = "none"
        /\ stop' = stop /\ stop \in BOOLEAN
    BY Before DEF Calling, Ended
  <1>2. ClientInv'
    BY <1>1, Before, ClientStep DEF Calling
  <1>3. job[t] \in JobType /\ job' = [job EXCEPT ![t] = job[t]]
    BY Before DEF Calling
  <1> QED
    BY <1>0, <1>1, <1>2, <1>3, RunningStep

LEMMA AnsweredIInv ==
  ASSUME IInv, NEW t \in Callers, Answered(t), UNCHANGED report
  PROVE  IInv'
PROOF
  <1>0. artifact' = artifact /\ result' = result /\ report' = report
    BY DEF Answered
  <1>1. /\ job[t].pc = "generate" /\ job[t].outcome = "none" /\ job[t].raised = "none"
        /\ stop \in BOOLEAN
    BY Before DEF Answered, Ended
  <1>2. CASE call[t].outcome = "ok"
    <2>1. stop' = stop
      BY <1>2 DEF Answered
    <2>2. ClientInv'
      BY <1>1, <2>1, Before, ClientStep DEF Answered
    <2>3. PICK p \in {"step", "finally"}, o \in {"none", "provider_protocol_error", "malformed_action"} :
            /\ (p = "step") = (o = "none")
            /\ job' = [job EXCEPT ![t].pc = p, ![t].outcome = o]
      BY <1>2 DEF Answered
    <2> DEFINE j == [job[t] EXCEPT !.pc = p, !.outcome = o]
    <2>4. j \in JobType /\ job' = [job EXCEPT ![t] = j]
      BY <2>3, Before DEF JobType, TaskOutcomes
    <2>5. j.pc = p /\ j.outcome = o /\ j.raised = "none"
      BY <1>1, Before DEF JobType
    <2> HIDE DEF j
    <2> QED
      BY <1>0, <1>1, <2>1, <2>2, <2>3, <2>4, <2>5, RunningStep
  <1>3. CASE call[t].outcome # "ok"
    <2>1. Raised(t, call[t].outcome) /\ stop' = (stop \/ SetsStop(call[t].outcome))
      BY <1>3 DEF Answered
    <2>2. stop' \in BOOLEAN /\ (stop => stop')
      BY <1>1, <2>1 DEF SetsStop
    <2>3. ClientInv'
      BY <2>2, Before, ClientStep DEF Answered
    <2>4. ASSUME NEW e \in Uncaught, call[t].outcome = e PROVE IInv'
      <3> DEFINE j == [job[t] EXCEPT !.pc = "finally", !.raised = e]
      <3>1. j \in JobType /\ job' = [job EXCEPT ![t] = j]
        BY <2>1, <2>4, Before DEF Raised, Leaves, JobType
      <3>2. j.pc = "finally" /\ j.outcome = "none" /\ j.raised = e /\ e # "none"
        BY <1>1, Before DEF JobType, Uncaught
      <3>3. stop' = stop /\ e # "WorkerCancelled"
        BY <1>1, <2>1, <2>4 DEF SetsStop, Uncaught
      <3> HIDE DEF j
      <3> QED
        BY <1>0, <1>1, <2>2, <2>3, <3>1, <3>2, <3>3, RunningStep
    <2>5. CASE call[t].outcome \notin Uncaught
      <3>1. PICK o : o = IF SetsStop(call[t].outcome) THEN "infrastructure_interrupted"
                                                     ELSE "environment_error"
        OBVIOUS
      <3> DEFINE j == [job[t] EXCEPT !.pc = "finally", !.outcome = o]
      <3>2. j \in JobType /\ job' = [job EXCEPT ![t] = j]
        BY <2>1, <2>5, <3>1, Before DEF Raised, Ends, JobType, TaskOutcomes
      <3>3. j.pc = "finally" /\ j.outcome = o /\ j.raised = "none"
        BY <1>1, Before DEF JobType
      <3> HIDE DEF j
      <3>4. CASE SetsStop(call[t].outcome)
        BY <1>0, <1>1, <2>1, <2>2, <2>3, <3>1, <3>2, <3>3, <3>4, RunningStep
      <3>5. CASE ~SetsStop(call[t].outcome)
        BY <1>0, <1>1, <2>1, <2>2, <2>3, <3>1, <3>2, <3>3, <3>5, RunningStep
      <3> QED
        BY <3>4, <3>5
    <2> QED
      BY <2>4, <2>5
  <1> QED
    BY <1>2, <1>3

LEMMA StepIInv ==
  ASSUME IInv, NEW t \in Callers, Step(t), UNCHANGED report
  PROVE  IInv'
PROOF
  <1>0. /\ stop' = stop \/ stop' = TRUE
        /\ call' = call /\ late' = late /\ artifact' = artifact /\ result' = result
        /\ report' = report /\ job[t].pc = "step"
    BY DEF Step
  <1>1. /\ job[t].pc = "step" /\ job[t].outcome = "none" /\ job[t].raised = "none"
        /\ stop' \in BOOLEAN /\ (stop => stop')
        /\ (~stop' => stop' = stop)
    <2>1. job[t].outcome = "none" /\ job[t].raised = "none"
      BY <1>0, Before DEF Ended
    <2>2. stop \in BOOLEAN
      BY Before
    <2>3. stop' \in BOOLEAN /\ (stop => stop') /\ (~stop' => stop' = stop)
      <3>1. CASE stop' = stop
        BY <2>2, <3>1
      <3>2. CASE stop' = TRUE
        BY <3>2
      <3> QED
        BY <1>0, <3>1, <3>2
    <2> QED
      BY <1>0, <2>1, <2>3
  <1>2. ClientInv'
    BY <1>0, <1>1, Before, ClientStep
  <1>3. CASE /\ job[t].steps + 1 < MaxSteps
             /\ job' = [job EXCEPT ![t].pc = "check", ![t].steps = @ + 1]
             /\ UNCHANGED stop
    <2> DEFINE j == [job[t] EXCEPT !.pc = "check", !.steps = @ + 1]
    <2>1. job[t].steps + 1 \in 0 .. MaxSteps - 1
      BY <1>3, Before DEF JobType
    <2>2. j \in JobType /\ job' = [job EXCEPT ![t] = j]
      BY <1>3, <2>1, Before DEF JobType
    <2>3. j.pc = "check" /\ j.outcome = "none" /\ j.raised = "none"
      BY <1>1, Before DEF JobType
    <2> HIDE DEF j
    <2> QED
      BY <1>0, <1>1, <1>2, <1>3, <2>2, <2>3, RunningStep
  <1>4. ASSUME NEW outcome \in TaskOutcomes, Ends(t, outcome),
               outcome # "infrastructure_interrupted" => stop' = stop,
               outcome = "infrastructure_interrupted" => stop'
        PROVE  IInv'
    <2> DEFINE j == [job[t] EXCEPT !.pc = "finally", !.outcome = outcome]
    <2>1. j \in JobType /\ job' = [job EXCEPT ![t] = j]
      BY <1>4, Before DEF Ends, JobType
    <2>2. j.pc = "finally" /\ j.outcome = outcome /\ j.raised = "none" /\ outcome # "none"
      BY <1>1, Before DEF JobType, TaskOutcomes
    <2>3. /\ stop' /\ ~stop => outcome = "infrastructure_interrupted"
          /\ ~stop' => outcome # "infrastructure_interrupted"
      BY <1>4
    <2>4. outcome # "none"
      BY DEF TaskOutcomes
    <2> HIDE DEF j
    <2>5. j.outcome # "none" /\ j.raised = "none" /\ j.raised # "WorkerCancelled"
      BY <2>2, <2>4
    <2> QED
      BY <1>0, <1>1, <1>2, <2>1, <2>2, <2>3, <2>5, RunningStep
  <1> QED
    BY <1>3, <1>4 DEF Step, TaskOutcomes


LEMMA FinallyIInv ==
  ASSUME IInv, NEW t \in Callers, Finally(t), UNCHANGED report
  PROVE  IInv'
PROOF
  <1>1. /\ job[t].pc = "finally" /\ artifact[t] = "in_progress" /\ result[t] = "none"
        /\ (job[t].outcome = "none" <=> job[t].raised # "none")
        /\ job[t] \in JobType
    BY Before DEF Finally, update, Ended, Recorded
  <1> DEFINE j == [job[t] EXCEPT !.pc = "returned"]
  <1>2. /\ job' = [job EXCEPT ![t] = j] /\ j \in JobType
        /\ job' \in [Callers -> JobType] /\ job'[t] = j
    BY Before DEF Finally, update, To, JobType
  <1>3. j.pc = "returned" /\ j.outcome = job[t].outcome /\ j.raised = job[t].raised
    BY <1>1 DEF JobType
  <1> HIDE DEF j
  <1>4. WorkerResult(job[t]) \in Results /\ WorkerResult(job'[t]) = WorkerResult(job[t])
    BY <1>1, <1>2, <1>3 DEF WorkerResult, Results, JobType
  <1>5. /\ result' = [result EXCEPT ![t] = WorkerResult(job[t])]
        /\ artifact' = [artifact EXCEPT ![t] = IF job[t].outcome = "none" THEN "in_progress"
                                               ELSE job[t].outcome]
    BY DEF Finally, update
  <1>6. /\ result' \in [Callers -> Results] /\ result'[t] = WorkerResult(job[t])
        /\ artifact' \in [Callers -> Artifacts]
        /\ artifact'[t] = IF job[t].outcome = "none" THEN "in_progress" ELSE job[t].outcome
    BY <1>1, <1>4, <1>5, Before DEF Artifacts, JobType
  <1>7. Recorded(t)'
    BY <1>1, <1>2, <1>3, <1>4, <1>6 DEF Recorded
  <1>8. Ended(t)'
    BY <1>2, <1>3 DEF Ended
  <1>9. stop' \in BOOLEAN /\ (stop => stop')
    BY Before DEF Finally, update
  <1>10. ClientInv'
    BY <1>9, Before, ClientStep DEF Finally, update
  <1>11. Culprit(t) => Culprit(t)'
    BY <1>1, <1>2, <1>3 DEF Culprit
  <1>12. ASSUME stop', ~stop PROVE Culprit(t)'
    BY <1>12, <1>2, <1>3 DEF Finally, update, Culprit
  <1>13. ASSUME ~stop'
         PROVE  /\ job'[t].outcome # "infrastructure_interrupted"
                /\ job'[t].raised # "WorkerCancelled"
                /\ job'[t].raised = "none" /\ job'[t].outcome # "none"
    <2>1. ~stop /\ job[t].raised \notin Uncaught
      BY <1>13 DEF Finally, update
    <2>2. job[t].outcome # "infrastructure_interrupted" /\ job[t].raised # "WorkerCancelled"
      BY <2>1 DEF IInv, StopIsCaused
    <2> QED
      BY <1>1, <1>2, <1>3, <2>1, <2>2 DEF JobType
  <1>14. \A d \in Callers \ {t} : /\ job'[d] = job[d] /\ artifact'[d] = artifact[d]
                                  /\ result'[d] = result[d]
    BY <1>2, <1>5, Before
  <1> QED
    BY <1>1, <1>2, <1>6, <1>7, <1>8, <1>9, <1>10, <1>11, <1>12, <1>13, <1>14, TaskStep

LEMMA AggregateIInv ==
  ASSUME IInv, Aggregate
  PROVE  IInv'
PROOF
  <1>1. /\ call' = call /\ stop' = stop /\ late' = late /\ job' = job
        /\ artifact' = artifact /\ result' = result
        /\ report' = IF stop THEN "stopped" ELSE "complete"
    BY DEF Aggregate
  <1>2. TypeOK'
    <2>1. ClientTypeOK'
      BY <1>1 DEF IInv, TypeOK, ClientTypeOK
    <2>2. Cardinality(Busy') <= Threads
      <3>1. Busy' = Busy
        BY <1>1 DEF Busy
      <3> QED
        BY <3>1 DEF IInv, TypeOK
    <2>3. report' \in {"in_progress", "complete", "stopped"}
      BY <1>1
    <2> QED
      BY <1>1, <2>1, <2>2, <2>3 DEF IInv, TypeOK
  <1>3. ClientInv'
    BY <1>1 DEF IInv, ClientInv, ClientTypeOK, GivenUpOnlyWhenExhausted, Bounded
  <1>4. \A t \in Callers : Recorded(t)' /\ Ended(t)'
    BY <1>1 DEF IInv, Recorded, Ended, WorkerResult
  <1>5. StopIsCaused'
    BY <1>1 DEF IInv, StopIsCaused, Culprit
  <1>6. Reported'
    BY <1>1 DEF Aggregate, Reported, Over
  <1> QED
    BY <1>2, <1>3, <1>4, <1>5, <1>6 DEF IInv

LEMMA StutterIInv ==
  ASSUME IInv, UNCHANGED probeVars
  PROVE  IInv'
  BY DEF probeVars, IInv, TypeOK, ClientInv, ClientTypeOK, GivenUpOnlyWhenExhausted, Bounded,
     Recorded, Ended, WorkerResult, StopIsCaused, Culprit, Reported, Over, Busy

LEMMA NextIInv == IInv /\ [Next]_probeVars => IInv'
PROOF
  <1> SUFFICES ASSUME IInv, [Next]_probeVars PROVE IInv'
    OBVIOUS
  <1>1. CASE Aggregate
    BY <1>1, AggregateIInv
  <1>2. ASSUME NEW t \in Callers, Work(t), UNCHANGED report PROVE IInv'
    <2>1. CASE Take(t)
      BY <1>2, <2>1, TakeIInv
    <2>2. CASE Begin(t)
      BY <1>2, <2>2, BeginIInv
    <2>3. CASE Reset(t)
      BY <1>2, <2>3, ResetIInv
    <2>4. CASE Check(t)
      BY <1>2, <2>4, CheckIInv
    <2>5. CASE Calling(t)
      BY <1>2, <2>5, CallingIInv
    <2>6. CASE Answered(t)
      BY <1>2, <2>6, AnsweredIInv
    <2>7. CASE Step(t)
      BY <1>2, <2>7, StepIInv
    <2>8. CASE Finally(t)
      BY <1>2, <2>8, FinallyIInv
    <2> QED
      BY <1>2, <2>1, <2>2, <2>3, <2>4, <2>5, <2>6, <2>7, <2>8 DEF Work
  <1>3. CASE UNCHANGED probeVars
    BY <1>3, StutterIInv
  <1> QED
    BY <1>1, <1>2, <1>3 DEF Next

\* The inductive invariant holds in every reachable state.
THEOREM ProbeInvariant == Spec => []IInv
PROOF
  <1> QED
    BY InitIInv, NextIInv, PTL DEF Spec

\* The probe's state has its types and no more threads are busy than there are
\* (run_bounded's executor has max_workers threads).
THEOREM ProbeTypes == Spec => []TypeOK
PROOF
  <1>1. IInv => TypeOK
    BY DEF IInv
  <1> QED
    BY <1>1, ProbeInvariant, PTL

\* generate reports infrastructure or a protocol error only after max_retries
\* retries (TeacherClient.generate).
THEOREM GivenUpAfterEveryRetry == Spec => []GivenUpOnlyWhenExhausted
PROOF
  <1>1. IInv => GivenUpOnlyWhenExhausted
    BY DEF IInv, ClientInv
  <1> QED
    BY <1>1, ProbeInvariant, PTL

\* A thread sends at most max_retries + 1 posts once the stop is set: those of the
\* call it is in (check_before_external_call is looked at before a call only).
THEOREM StopDrainsTheCalls == Spec => []DrainIsBounded
PROOF
  <1>1. IInv => DrainIsBounded
    BY DEF IInv, ClientInv, Bounded, DrainIsBounded
  <1> QED
    BY <1>1, ProbeInvariant, PTL

\* A report of "complete" has an outcome of its own for every task, one of
\* "stopped" a task that stopped the pool.
THEOREM ReportsAreEarned == Spec => []StatusIsEarned
PROOF
  <1>1. ASSUME IInv PROVE StatusIsEarned
    <2> SUFFICES ASSUME report # "in_progress" PROVE StatusIsEarned
      BY DEF StatusIsEarned
    <2>1. \A t \in Callers : job[t].pc = "returned" /\ Recorded(t) /\ job[t] \in JobType
      BY <1>1, Before DEF IInv, Reported, Over
    <2>2. ASSUME report = "complete", NEW t \in Callers
          PROVE  result[t] \in TaskOutcomes \ {"infrastructure_interrupted"}
      <3>1. /\ job[t].outcome # "infrastructure_interrupted"
            /\ job[t].raised = "none" /\ job[t].outcome # "none"
        BY <1>1, <2>1, <2>2 DEF IInv, Reported, StopIsCaused
      <3>2. result[t] = job[t].outcome
        BY <2>1, <3>1 DEF Recorded, WorkerResult, Job, Uncaught
      <3> QED
        BY <2>1, <3>1, <3>2 DEF JobType
    <2>3. ASSUME report = "stopped"
          PROVE  \E t \in Callers : result[t] \in {"infrastructure_interrupted", "worker_error"}
      <3>1. PICK t \in Callers : Culprit(t)
        BY <1>1, <2>3 DEF IInv, Reported, StopIsCaused
      <3>2. result[t] = WorkerResult(job[t])
        BY <2>1, <3>1 DEF Recorded, Culprit, Job, Uncaught
      <3> QED
        BY <3>1, <3>2 DEF Culprit, WorkerResult, Uncaught
    <2> QED
      BY <2>2, <2>3 DEF StatusIsEarned
  <1> QED
    BY <1>1, ProbeInvariant, PTL

\* What the store holds at the end agrees with what run_bounded returned.
THEOREM StoreAgreesWithResults == Spec => []ArtifactsAgree
PROOF
  <1>1. ASSUME IInv PROVE ArtifactsAgree
    <2> SUFFICES ASSUME report # "in_progress", NEW t \in Callers
                 PROVE  IF result[t] \in TaskOutcomes THEN artifact[t] = result[t]
                        ELSE artifact[t] \in {"absent", "in_progress"}
      BY DEF ArtifactsAgree
    <2>1. job[t].pc = "returned" /\ Recorded(t) /\ job[t] \in JobType
      BY <1>1, Before DEF IInv, Reported, Over
    <2>2. CASE result[t] = "cancelled" /\ artifact[t] = "absent"
      BY <2>2 DEF TaskOutcomes
    <2>3. CASE /\ artifact[t] = IF job[t].outcome = "none" THEN "in_progress" ELSE job[t].outcome
               /\ result[t] = WorkerResult(job[t])
               /\ (job[t].outcome = "none" <=> job[t].raised # "none")
      BY <2>1, <2>3 DEF WorkerResult, JobType, TaskOutcomes, Uncaught
    <2> QED
      BY <2>1, <2>2, <2>3 DEF Recorded
  <1> QED
    BY <1>1, ProbeInvariant, PTL

============================================================================
