------------------------------- MODULE EvalRun -------------------------------
(***************************************************************************)
(* A policy evaluation (eval_policy.py): one process at a time plays the   *)
(* tasks of a manifest in order and keeps its results in a run directory;  *)
(* it is interrupted, killed, and started again with --resume.  The        *)
(* environment service behind the endpoint may be redeployed meanwhile.    *)
(*                                                                         *)
(* An episode is what PolicyEpisode describes; here it is a number of      *)
(* turns, each drawing from the random stream the evaluator seeds, and a   *)
(* row that says where its draws came from.  All invocations are those of  *)
(* one command, so that config, manifest, model and commit agree.          *)
(***************************************************************************)
EXTENDS Naturals, Sequences, FiniteSets

CONSTANTS
  Tasks,       \* length of the manifest
  MaxTurns,    \* turns of an episode
  BaseSeed,    \* config["base_seed"]
  Seeds,       \* formal_eval_seed of the services that may be deployed
  Formal,      \* config["formal_evaluation"]
  EnvironmentDraws,  \* whether the upstream constructor of an environment draws
  Faults,      \* \subseteq {"early", "interrupt", "infrastructure", "crash", "torn",
               \*            "marker", "redeploy"}
  MaxFaults, MaxLaunches   \* bounds: faults, and invocations nothing calls for

ASSUME EvalRunAssumption ==
  /\ Tasks \in Nat \ {0} /\ MaxTurns \in Nat \ {0}
  /\ BaseSeed \in Nat /\ Seeds \subseteq Nat /\ BaseSeed \in Seeds
  /\ Formal \in BOOLEAN /\ EnvironmentDraws \in BOOLEAN
  /\ MaxFaults \in Nat /\ MaxLaunches \in Nat

VARIABLES
  dir,       \* the run directory
  endpoint,  \* the deployed service: its split and seed, whether it has built its
             \* server object yet, and where the prices of it were drawn
  pc, resume,
  rows,      \* evaluate_policy's rows in memory
  play,      \* the episode being played
  rng,       \* the evaluator's random state: seeded with, drawn since
  refused,   \* why the last invocation ended before it evaluated anything
  faults, launches

vars == <<dir, endpoint, pc, resume, rows, play, rng, refused, faults, launches>>

\* episode_seed, of a 0-based manifest_index.
episode_seed(index) == BaseSeed + index

\* Where a number was drawn: the stream (local_rng's identity) and its position.
Runtime == 0
Stream  == [scope : {"runtime", "goal", "session"}, seed : Seeds, task : 0 .. Tasks]
Drawn   == [stream : Stream, position : Nat]
Undrawn == [stream |-> [scope |-> "runtime", seed |-> BaseSeed, task |-> Runtime],
            position |-> 0]

\* A row of episodes.jsonl: its index and seed as recorded, and as auxiliaries the
\* stream of the policy, how much of that was used before, and where the service drew
\* the prices, the goal and the page after the first action.
Row == [index : Nat, seed : Nat, stream : Nat, drawn : Nat,
        prices : Drawn, goal : Drawn, page : Drawn]

NoPlay == [turns |-> 0, drawn |-> 0, alive |-> FALSE,
           prices |-> Undrawn, goal |-> Undrawn, page |-> Undrawn]

Init ==
  /\ dir = [made |-> FALSE, manifest |-> FALSE, episodes |-> <<>>, torn |-> FALSE,
            errors |-> 0, tornErrors |-> FALSE, marker |-> FALSE,
            summary |-> 0, complete |-> FALSE]
  /\ endpoint \in [split : {"test"}, seed : Seeds, server : {FALSE}, prices : {Undrawn}]
  /\ pc = "down" /\ resume = FALSE
  /\ rows = <<>> /\ play = NoPlay
  /\ rng = [seed |-> 0, drawn |-> 0]
  /\ refused = "none" /\ faults = 0 /\ launches = 0

Fault(kind) == kind \in Faults /\ faults < MaxFaults /\ faults' = faults + 1

Go(p) == pc' = p

\* The invocation ends here, the directory as it is.
Refuse(why) == pc' = "down" /\ refused' = why

----------------------------------------------------------------------------
(* main and prepare_eval_run                                               *)

\* The command, with or without --resume; only an invocation nothing calls
\* for is counted.
Launch ==
  /\ pc = "down"
  /\ resume' \in BOOLEAN
  /\ IF resume' = dir.made /\ ~dir.complete
     THEN UNCHANGED launches
     ELSE launches < MaxLaunches /\ launches' = launches + 1
  /\ Go("validate") /\ refused' = "none"
  /\ rows' = <<>> /\ play' = NoPlay
  /\ UNCHANGED <<dir, endpoint, rng, faults>>

\* Mutant: a run with an error is not read.
ErrorFree == dir.errors = 0

\* completed_rows and the reading of errors.jsonl: a line that is not JSON raises.
Parses == ~dir.torn

\* Markers, and the rows of a run that is resumed, before anything is loaded.
Validate ==
  /\ pc = "validate"
  /\ CASE dir.marker            -> Refuse("marker")
       [] resume /\ ~Parses     -> Refuse("torn")
       [] OTHER                 -> Go("health") /\ UNCHANGED refused
  /\ UNCHANGED <<dir, endpoint, resume, rows, play, rng, faults, launches>>

\* What the service says of its random streams, if it has any.
rng_contract == IF endpoint.split = "test" THEN {endpoint.seed} ELSE {}

health == [task_split |-> endpoint.split, evaluation_rng |-> rng_contract]

validate_eval_health(answer) ==
  answer.task_split = "test" /\ (Formal => answer.evaluation_rng = {BaseSeed})

Health ==
  /\ pc = "health"
  /\ IF validate_eval_health(health)
     THEN Go("prepare") /\ UNCHANGED refused
     ELSE Refuse("health")
  /\ UNCHANGED <<dir, endpoint, resume, rows, play, rng, faults, launches>>

\* prepare_eval_run up to the first write: an empty directory, or the manifest of
\* the run that is resumed (which is never rewritten).
Prepare ==
  /\ pc = "prepare"
  /\ CASE dir.marker                -> Refuse("marker") /\ UNCHANGED dir
       [] ~resume /\ dir.made       -> Refuse("not_empty") /\ UNCHANGED dir
       [] ~resume /\ ~dir.made      -> /\ Go("manifest") /\ UNCHANGED refused
                                       /\ dir' = [dir EXCEPT !.made = TRUE]
       [] resume /\ ~dir.manifest   -> Refuse("no_manifest") /\ UNCHANGED dir
       [] resume /\ dir.manifest    -> Go("load") /\ UNCHANGED <<refused, dir>>
  /\ UNCHANGED <<endpoint, resume, rows, play, rng, faults, launches>>

\* After two calls of git, the run_manifest.json.
WriteManifest ==
  /\ pc = "manifest" /\ Go("load")
  /\ dir' = [dir EXCEPT !.manifest = TRUE]
  /\ UNCHANGED <<endpoint, resume, rows, play, rng, refused, faults, launches>>

\* The rows of completed_rows.
Loaded == dir.episodes

\* The policy is loaded, the rows and errors are read.
Load ==
  /\ pc = "load"
  /\ IF dir.tornErrors \/ (resume /\ ~Parses)
     THEN Refuse("torn") /\ UNCHANGED rows
     ELSE Go("next") /\ rows' = (IF resume THEN Loaded ELSE <<>>) /\ UNCHANGED refused
  /\ UNCHANGED <<dir, endpoint, resume, play, rng, faults, launches>>

----------------------------------------------------------------------------
(* evaluate_policy                                                         *)

\* set_seed once per episode.
seed_episode == [seed |-> episode_seed(Len(rows)), drawn |-> 0]

Exhausted == Len(rows) = Tasks

\* The next task of the manifest, or the final summary.
NextTask ==
  /\ pc = "next"
  /\ IF Exhausted THEN Go("finish") /\ UNCHANGED rng
                          ELSE Go("reset") /\ rng' = seed_episode
  /\ UNCHANGED <<dir, endpoint, resume, rows, play, refused, faults, launches>>

(* The random scopes of the service, within one reset and one step: a       *)
(* request is a list of scopes entered and left, and of draws, each from    *)
(* the innermost scope.  A session keeps its stream from request to request.*)

local_rng(scope, task) == [scope |-> scope, seed |-> endpoint.seed, task |-> task]

\* Only a TEST service has streams of its own.
_test_rng(scope, task) ==
  IF endpoint.split = "test" THEN <<local_rng(scope, task)>> ELSE << >>

Enter(stream) == [do |-> "enter", what |-> "none", rng |-> stream]
Exit       == [do |-> "exit", what |-> "none", rng |-> Undrawn.stream]
Draw(what) == <<[do |-> "draw", what |-> what, rng |-> Undrawn.stream]>>

\* What is drawn inside the scope; without a stream there is no scope.
_rng_scope(stream, calls) ==
  IF stream = << >> THEN calls ELSE <<Enter(stream[1])>> \o calls \o <<Exit>>

\* Mutant: goals are drawn in whatever scope is current.
UnscopedGoal(task) == Draw("goal")

task_goals(task) == _rng_scope(_test_rng("goal", task), Draw("goal"))

Constructor == IF EnvironmentDraws THEN Draw("environment") ELSE << >>

\* The first reset builds the server in the runtime scope, and with it the goal and
\* the environment; later ones draw the goal and build an environment of their own.
\* Then, in both, the environment is reset and the first action played.
Requests(task) ==
  LET session(calls) == _rng_scope(_test_rng("session", task), calls)
  IN  (IF endpoint.server
       THEN task_goals(task) \o session(Constructor)
       ELSE _rng_scope(_test_rng("runtime", Runtime),
                       Draw("prices") \o task_goals(task) \o Constructor))
      \o session(Draw("page"))

\* upstream_rng_scope and _ScopedRandom: where the n-th entry, a draw, is drawn.
scopes(requests) ==
  LET stack[n \in 0 .. Len(requests)] ==
        IF n = 0 THEN <<>>
        ELSE CASE requests[n].do = "enter" -> <<requests[n].rng>> \o stack[n - 1]
               [] requests[n].do = "exit"  -> Tail(stack[n - 1])
               [] requests[n].do = "draw"  -> stack[n - 1]
  IN  stack

drawn_at(requests, what) ==
  LET current == scopes(requests)
      Draws   == {n \in DOMAIN requests : requests[n].do = "draw"}
      at      == CHOOSE n \in Draws : requests[n].what = what
  IN  [stream   |-> Head(current[at]),
       position |-> Cardinality({n \in Draws : n < at /\ Head(current[n]) = Head(current[at])})]

\* TeacherEnvClient.reset: every answer has to name the streams that were expected.
RightSeed == Formal => rng_contract = {BaseSeed}

Reset ==
  /\ pc = "reset"
  /\ IF endpoint.split = "test" /\ RightSeed
     THEN LET requests == Requests(Len(rows) + 1)
              prices   == IF endpoint.server THEN endpoint.prices ELSE drawn_at(requests, "prices")
          IN  /\ Go("turn")
              /\ endpoint' = [endpoint EXCEPT !.server = TRUE, !.prices = prices]
              /\ play' = [turns |-> 0, drawn |-> rng.drawn, alive |-> TRUE, prices |-> prices,
                          goal |-> drawn_at(requests, "goal"), page |-> drawn_at(requests, "page")]
     ELSE Go("handler") /\ UNCHANGED <<endpoint, play>>
  /\ UNCHANGED <<dir, resume, rows, rng, refused, faults, launches>>

\* One turn: the policy draws, its response goes to responses.jsonl and to the
\* environment, which ends the episode or plays on.
Turn ==
  /\ pc = "turn"
  /\ rng' = [rng EXCEPT !.drawn = @ + 1]
  /\ play' = [play EXCEPT !.turns = @ + 1]
  /\ \/ ~play.alive /\ Go("handler") /\ UNCHANGED faults
     \/ /\ play.alive /\ UNCHANGED faults
        /\ pc' \in IF play.turns + 1 < MaxTurns THEN {"turn", "append"} ELSE {"append"}
     \/ Fault("infrastructure") /\ Go("handler")
  /\ UNCHANGED <<dir, endpoint, resume, rows, refused, launches>>

ThisRow ==
  [index |-> Len(rows), seed |-> episode_seed(Len(rows)),
   stream |-> rng.seed, drawn |-> play.drawn,
   prices |-> play.prices, goal |-> play.goal, page |-> play.page]

\* Mutant: the row is kept in memory only.
AppendNothing == dir

\* append_metrics(path / "episodes.jsonl", row).
Appended == [dir EXCEPT !.episodes = Append(@, ThisRow)]

AppendRow ==
  /\ pc = "append" /\ Go("keep")
  /\ dir' = Appended
  /\ UNCHANGED <<endpoint, resume, rows, play, rng, refused, faults, launches>>

KeepRow ==
  /\ pc = "keep" /\ Go("summary")
  /\ rows' = Append(rows, ThisRow)
  /\ UNCHANGED <<dir, endpoint, resume, play, rng, refused, faults, launches>>

\* evaluation_summary over the rows in memory.
Summarised(d) == [d EXCEPT !.summary = Len(rows), !.complete = (Len(rows) = Tasks)]

\* save_summary replaces summary.json as a whole: after an episode, in the handler
\* after the error was recorded, and at the end.
SaveSummary ==
  /\ pc \in {"summary", "finish", "handled"}
  /\ Go(IF pc = "summary" THEN "next" ELSE "down")
  /\ dir' = Summarised(dir)
  /\ UNCHANGED <<endpoint, resume, rows, play, rng, refused, faults, launches>>

\* except (Exception, KeyboardInterrupt).
Handler ==
  /\ pc = "handler" /\ Go("handled")
  /\ dir' = [dir EXCEPT !.errors = @ + 1]
  /\ UNCHANGED <<endpoint, resume, rows, play, rng, refused, faults, launches>>

----------------------------------------------------------------------------
(* What happens to the process and around it.                              *)

Guarded == {"next", "reset", "turn", "append", "keep", "summary"}
Early   == {"prepare", "manifest"}

\* KeyboardInterrupt: within evaluate_policy's try it is handled, elsewhere the
\* process ends.
Interrupt ==
  /\ pc # "down"
  /\ Fault(IF pc \in Early THEN "early" ELSE "interrupt")
  /\ Go(IF pc \in Guarded THEN "handler" ELSE "down")
  /\ UNCHANGED <<dir, endpoint, resume, rows, play, rng, refused, launches>>

\* The process is killed.
Crash ==
  /\ pc \notin Early \cup {"down"}
  /\ Fault("crash") /\ Go("down")
  /\ UNCHANGED <<dir, endpoint, resume, rows, play, rng, refused, launches>>

\* Power fails while a line is appended.
PowerLoss ==
  /\ pc \in {"append", "handler"}
  /\ Fault("torn") /\ Go("down")
  /\ dir' = IF pc = "append" THEN [dir EXCEPT !.torn = TRUE]
                             ELSE [dir EXCEPT !.tornErrors = TRUE]
  /\ UNCHANGED <<endpoint, resume, rows, play, rng, refused, launches>>

\* An operator marks the run: abort_status, invalidation or audit_status.json.
Invalidate ==
  /\ dir.made /\ ~dir.marker /\ Fault("marker")
  /\ dir' = [dir EXCEPT !.marker = TRUE]
  /\ UNCHANGED <<endpoint, pc, resume, rows, play, rng, refused, launches>>

\* The service is restarted, perhaps with another split or seed; its sessions are
\* gone.
Redeploy ==
  /\ Fault("redeploy")
  /\ endpoint' \in [split : {"test", "train"}, seed : Seeds, server : {FALSE}, prices : {Undrawn}]
  /\ play' = [play EXCEPT !.alive = FALSE]
  /\ UNCHANGED <<dir, pc, resume, rows, rng, refused, launches>>

Main ==
  \/ Validate \/ Health \/ Prepare \/ WriteManifest \/ Load
  \/ NextTask \/ Reset \/ Turn \/ AppendRow \/ KeepRow \/ SaveSummary \/ Handler

Next == Launch \/ Main \/ Interrupt \/ Crash \/ PowerLoss \/ Invalidate \/ Redeploy

\* The process runs: its calls have timeouts, an episode has a last turn.
Spec == Init /\ [][Next]_vars /\ WF_vars(Main)

\* The user starts the run, and again with --resume until it is complete.
Retry == Launch /\ ~dir.complete /\ resume' = dir.made
Retried == Spec /\ WF_vars(Retry)

----------------------------------------------------------------------------

TypeOK ==
  /\ dir \in [made : BOOLEAN, manifest : BOOLEAN, episodes : Seq(Row), torn : BOOLEAN,
              errors : Nat, tornErrors : BOOLEAN, marker : BOOLEAN,
              summary : 0 .. Tasks, complete : BOOLEAN]
  /\ endpoint \in [split : {"test", "train"}, seed : Seeds, server : BOOLEAN, prices : Drawn]
  /\ pc \in Guarded \cup Early \cup {"down", "validate", "health", "load", "finish",
                                     "handler", "handled"}
  /\ resume \in BOOLEAN
  /\ rows \in Seq(Row) /\ Len(rows) <= Tasks
  /\ play \in [turns : 0 .. MaxTurns, drawn : Nat, alive : BOOLEAN,
               prices : Drawn, goal : Drawn, page : Drawn]
  /\ rng \in [seed : Nat, drawn : Nat]
  /\ refused \in {"none", "marker", "torn", "health", "not_empty", "no_manifest"}
  /\ faults \in 0 .. MaxFaults /\ launches \in 0 .. MaxLaunches

\* However often the evaluation was interrupted, killed and resumed, and whatever was
\* deployed at the endpoint meanwhile, its saved episodes are the manifest's first
\* tasks in order, each once, and each was drawn from the beginning of the streams its
\* index stands for: a resumed evaluation samples what an uninterrupted one would
\* have, in the policy and (formal) in the environment, where prices, goals and pages
\* do not depend on what was reset before in that process.
EpisodesAreReplayable ==
  \A i \in DOMAIN dir.episodes :
    LET row  == dir.episodes[i]
        First(scope, task) ==
          [stream |-> [scope |-> scope, seed |-> BaseSeed, task |-> task], position |-> 0]
    IN /\ row.index = i - 1
       /\ row.stream = episode_seed(i - 1) /\ row.drawn = 0
       /\ row.seed = row.stream
       /\ Formal => /\ row.prices = First("runtime", Runtime)
                    /\ row.goal = First("goal", i) /\ row.page = First("session", i)

\* The summary counts no row that is not saved, and says complete only of a run
\* whose rows are all there: a torn line never shrinks the denominator.
SummaryIsBacked ==
  /\ dir.summary <= Len(dir.episodes)
  /\ dir.complete => Len(dir.episodes) = Tasks

\* What a resume cannot go on from: a marker, a line the power cut short, a directory
\* without its manifest, a service of another split or seed.
Unresumable ==
  \/ dir.marker \/ dir.torn \/ dir.tornErrors
  \/ dir.made /\ ~dir.manifest
  \/ endpoint.split # "test"
  \/ Formal /\ endpoint.seed # BaseSeed

\* A run that is resumed until it is complete becomes complete, through Ctrl+C,
\* infrastructure errors and kills, unless it cannot be resumed for good.
EvaluationCompletes == <>dir.complete \/ <>[]Unresumable

\* "--resume ... also works if interrupted before the first episode was saved."
InterruptedRunResumes == refused # "no_manifest"

=============================================================================
