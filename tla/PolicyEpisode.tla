---------------------------- MODULE PolicyEpisode ----------------------------
(***************************************************************************)
(* AgentRollout.run: one episode of the local policy, for evaluation       *)
(* (QwenPolicy.generate renders the whole conversation again each turn) or *)
(* for GRPO (TokenTrace keeps one token stream, and QwenPolicy.sample      *)
(* continues it).                                                          *)
(*                                                                         *)
(* Tokens are counted, not kept: a prompt, an observation and a response   *)
(* are lengths, and the trace is its length and the owners of its runs of  *)
(* tokens.  Of a text only its kind is kept: "action" is one that          *)
(* trace_visible_action finds canonical, "prose" one it does not.  Rewards *)
(* are in units of 1/One.                                                  *)
(***************************************************************************)
EXTENDS Naturals, Sequences, FiniteSets

CONSTANTS
  MaxContext,     \* GenerationConfig.max_context_tokens: 32768
  MaxNew,         \* GenerationConfig.max_new_tokens: 512
  MaxSteps,       \* max_action_steps: 30
  Prompts,        \* lengths of the rendered initial messages
  Observations,   \* lengths of an inserted observation, its boundary included
  Alpha,          \* reward_alpha, in units of 1/One
  Modes           \* the modes of a run: \subseteq {"evaluation", "grpo"}

One == 2

ASSUME PolicyEpisodeAssumption ==
  /\ MaxNew \in Nat \ {0} /\ MaxContext \in Nat /\ MaxContext > MaxNew
  /\ MaxSteps \in Nat \ {0}
  /\ Prompts \subseteq Nat \ {0} /\ Observations \subseteq Nat \ {0}
  /\ Alpha \in 0 .. One
  /\ Modes \subseteq {"evaluation", "grpo"}

VARIABLES
  mode,      \* whether run was given a sampling configuration
  pc,        \* where run is
  ep,        \* the RolloutResult: status, steps, context_limit_at_step, reward
  prompt,    \* tokens of the rendered messages; in GRPO those of the first turn
  inserted,  \* tokens of the observation not yet in the trace (GRPO)
  trace,     \* TokenTrace: its length and, run by run, env_mask
  sample,    \* the last response of the policy
  session,   \* the environment session: none, open, released
  sent,      \* auxiliary: the responses the environment was given
  paid       \* auxiliary: the terminal payload of the environment, if any

vars == <<mode, pc, ep, prompt, inserted, trace, sample, session, sent, paid>>

Texts == {"action", "prose"}

Response == [input : Nat, len : Nat, eos : BOOLEAN, cut : BOOLEAN, text : Texts]

NoSample == [input |-> 0, len |-> 0, eos |-> FALSE, cut |-> FALSE, text |-> "prose"]

\* What a step of the environment tells: strict is the product of the four
\* components, loose the score ShopSimulator returned.
Payload == [valid : BOOLEAN, done : BOOLEAN, strict : 0 .. One, loose : 0 .. One]

Unpaid == [valid |-> FALSE, done |-> FALSE, strict |-> 0, loose |-> 0]

Init ==
  /\ mode \in Modes
  /\ pc = "reset"
  /\ ep = [status |-> "max_steps", steps |-> 0, at |-> 0, reward |-> 0]
  /\ prompt = 0 /\ inserted = 0
  /\ trace = [len |-> 0, own |-> <<>>]
  /\ sample = NoSample
  /\ session = "none" /\ sent = <<>> /\ paid = Unpaid

----------------------------------------------------------------------------

\* The number of tokens a call may add.
Budget(input) ==
  IF input >= MaxContext THEN 0
  ELSE IF MaxContext - input < MaxNew THEN MaxContext - input ELSE MaxNew

\* Mutant: a response that fills the window is taken for a whole one.
NeverCut(input, len, eos) == FALSE

\* context_window_cap: a reduced budget was used up without an end of sequence.
Cut(input, len, eos) == Budget(input) < MaxNew /\ len >= Budget(input) /\ ~eos

\* What the model can return within its budget: a response that stops short of it
\* ends with an end-of-sequence token.
Sampled(input) ==
  {s \in [input : {input}, len : 1 .. Budget(input), eos : BOOLEAN,
          cut : BOOLEAN, text : Texts] :
     /\ s.len < Budget(input) => s.eos
     /\ s.cut = Cut(input, s.len, s.eos)}

\* Leave run through its finally clause, with this status or an exception.
Ends(status) == pc' = "leaving" /\ ep' = [ep EXCEPT !.status = status]
Raises       == pc' = "leaving" /\ ep' = [ep EXCEPT !.status = "raised"]

\* The attempted turn, 1-based.
ContextLimit == /\ pc' = "leaving"
                /\ ep' = [ep EXCEPT !.status = "context_limit", !.at = ep.steps + 1]

\* env.reset and the first messages.  An answer without a session id raises before
\* there is a session to release, a bad policy context or observation after.
Reset ==
  /\ pc = "reset"
  /\ \/ /\ \E n \in Prompts : prompt' = n
        /\ pc' = "turn" /\ session' = "open" /\ UNCHANGED ep
     \/ Raises /\ session' \in {"none", "open"} /\ UNCHANGED prompt
  /\ UNCHANGED <<mode, inserted, trace, sample, sent, paid>>

\* for _ in range(max_action_steps): a turn that comes back has played an action.
TurnsLeft == ep.steps < MaxSteps

\* What run does with a response.
Receive(s) ==
  IF s.cut THEN ContextLimit
  ELSE IF s.text = "action" THEN pc' = "play" /\ UNCHANGED ep
  ELSE Ends("malformed_action")

\* The loop is over.
OutOfSteps ==
  /\ pc = "turn" /\ ~TurnsLeft
  /\ pc' = "leaving"
  /\ UNCHANGED <<mode, ep, prompt, inserted, trace, sample, session, sent, paid>>

\* QwenPolicy.generate: a conversation that fills the window is not sent to the
\* model.
Generate ==
  /\ mode = "evaluation" /\ pc = "turn" /\ TurnsLeft
  /\ IF Budget(prompt) = 0
     THEN ContextLimit /\ UNCHANGED sample
     ELSE \E s \in Sampled(prompt) : sample' = s /\ Receive(s)
  /\ UNCHANGED <<mode, prompt, inserted, trace, session, sent, paid>>

\* TokenTrace.add: the inserted tokens belong to the environment, the sampled ones
\* to the policy.
Added(s) ==
  [len |-> trace.len + inserted + s.len,
   own |-> trace.own \o (IF inserted = 0 THEN <<1>> ELSE <<0, 1>>)]

Full == prompt + trace.len + inserted >= MaxContext

\* Mutant: the observation no sample follows is kept.
KeepObservation == trace' = [len |-> trace.len + inserted, own |-> Append(trace.own, 0)]

\* A full window ends the episode and leaves the observation out.
DropObservation == UNCHANGED trace

\* TokenTrace.sample_turn and QwenPolicy.sample: an initial prompt that fills the
\* window raises, a later one ends the episode (without context_limit_at_step), and
\* probabilities that are not finite raise before anything is added.
SampleTurn ==
  /\ mode = "grpo" /\ pc = "turn" /\ TurnsLeft
  /\ \/ /\ Full /\ trace.own = <<>> /\ Raises
        /\ UNCHANGED <<trace, sample>>
     \/ /\ Full /\ trace.own # <<>> /\ Ends("context_limit")
        /\ DropObservation /\ UNCHANGED sample
     \/ /\ ~Full
        /\ \E s \in Sampled(prompt + trace.len + inserted) :
             sample' = s /\ trace' = Added(s) /\ Receive(s)
     \/ /\ ~Full /\ Raises
        /\ UNCHANGED <<trace, sample>>
  /\ UNCHANGED <<mode, prompt, inserted, session, sent, paid>>

\* metrics_from_environment and combine_reward.
r_alpha(p) == Alpha * p.strict + (One - Alpha) * p.loose

\* A payload: an action that was not valid ends the episode before its reward is
\* looked at.
Stepped(p) ==
  IF ~p.valid
  THEN /\ pc' = "leaving"
       /\ ep' = [ep EXCEPT !.steps = @ + 1, !.status = "invalid_action"]
  ELSE IF p.done
  THEN /\ pc' = "leaving"
       /\ ep' = [ep EXCEPT !.steps = @ + 1, !.reward = r_alpha(p),
                           !.status = IF p.strict = One THEN "success"
                                                        ELSE "terminal_unsuccessful"]
  ELSE pc' = "turn" /\ ep' = [ep EXCEPT !.steps = @ + 1]

\* env.step.  In evaluation the next call renders the response and the observation
\* again: a response may tokenise to another length than was sampled.
Play ==
  /\ pc = "play"
  /\ sent' = Append(sent, sample)
  /\ \/ \E p \in Payload, n \in Observations :
          /\ Stepped(p) /\ paid' = p
          /\ IF mode = "grpo"
             THEN inserted' = n /\ UNCHANGED prompt
             ELSE /\ \E r \in 1 .. MaxNew + 1 : prompt' = prompt + r + n
                  /\ UNCHANGED inserted
     \/ /\ Ends("invalid_action") \/ Raises
        /\ UNCHANGED <<prompt, inserted, paid>>
  /\ UNCHANGED <<mode, trace, sample, session>>

\* Mutant: only an episode that returns releases its session.
LeaveReturned ==
  /\ pc = "leaving" /\ pc' = "over"
  /\ session' = IF session = "open" /\ ep.status # "raised" THEN "released" ELSE session
  /\ UNCHANGED <<mode, ep, prompt, inserted, trace, sample, sent, paid>>

\* finally: release, whose failure is a warning, and close.
Leave ==
  /\ pc = "leaving" /\ pc' = "over"
  /\ session' = IF session = "open" THEN "released" ELSE session
  /\ UNCHANGED <<mode, ep, prompt, inserted, trace, sample, sent, paid>>

Next == Reset \/ OutOfSteps \/ Generate \/ SampleTurn \/ Play \/ Leave

\* Every call of the environment has a timeout, every call of the model a budget.
Spec == Init /\ [][Next]_vars /\ WF_vars(Next)

----------------------------------------------------------------------------

Endings == {"max_steps", "context_limit", "malformed_action", "invalid_action",
            "success", "terminal_unsuccessful", "raised"}

TypeOK ==
  /\ mode \in Modes
  /\ pc \in {"reset", "turn", "play", "leaving", "over"}
  /\ ep \in [status : Endings, steps : 0 .. MaxSteps, at : 0 .. MaxSteps,
             reward : 0 .. One * One]
  /\ prompt \in Nat /\ inserted \in Nat
  /\ trace \in [len : Nat, own : Seq({0, 1})]
  /\ sample \in Response
  /\ session \in {"none", "open", "released"}
  /\ sent \in Seq(Response) /\ paid \in Payload

\* No call of the model goes beyond the context window, and the token stream GRPO
\* trains on never does: over all the turns of an episode, whatever they insert.
WithinContext ==
  /\ sample.input + sample.len <= MaxContext
  /\ trace.own # <<>> => prompt + trace.len <= MaxContext

\* A response the context window cut off is never sent to the environment: what is
\* played ended by itself or used the whole of max_new_tokens.
OnlyWholeActionsArePlayed ==
  \A i \in DOMAIN sent : sent[i].eos \/ sent[i].len = MaxNew

\* The stream GRPO trains on begins and ends with tokens of the policy, those of
\* the environment stand between two responses, and there is one response for
\* every action played and at most one more: the one that ended the episode.
TraceIsOwned ==
  LET runs      == trace.own
      responses == {i \in DOMAIN runs : runs[i] = 1}
  IN mode = "grpo" =>
       /\ \A i \in DOMAIN runs : runs[i] = i % 2
       /\ runs # <<>> => runs[Len(runs)] = 1
       /\ Cardinality(responses) \in {Len(sent), Len(sent) + 1}

\* A reward is what the environment paid for an episode it ended on a valid action,
\* and success is a strict score of one.
RewardIsEarned ==
  /\ ep.reward # 0 => paid.done /\ paid.valid /\ ep.reward = r_alpha(paid)
  /\ ep.status = "success" <=> paid.done /\ paid.valid /\ paid.strict = One

\* However an episode ends, it ends, and no session it was given stays open.
SessionIsReleased == <>[](pc = "over" /\ session # "open")

=============================================================================
