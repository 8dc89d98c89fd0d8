-------------------------- MODULE PolicyEpisodeProofs --------------------------
(***************************************************************************)
(* Proofs about an episode of the local policy: for every window, budget,  *)
(* number of steps and lengths of prompts and observations.                *)
(***************************************************************************)
EXTENDS PolicyEpisode, FiniteSetTheorems, SequenceTheorems, TLAPS

Responses(runs) == {i \in DOMAIN runs : runs[i] = 1}

\* Where run may still ask for a response it has one action left, and nothing has
\* been decided or paid.
Ongoing ==
  pc \in {"reset", "turn", "play"} =>
    /\ ep.status = "max_steps" /\ ep.reward = 0
    /\ ~(paid.done /\ paid.valid)
    /\ pc = "play" => ep.steps < MaxSteps

\* A response about to be played is whole, and so was every one played before.
Whole(s) == s.eos \/ s.len = MaxNew

PlayedWhole ==
  /\ pc = "play" => Whole(sample)
  /\ OnlyWholeActionsArePlayed

\* The stream of GRPO: who owns its runs, and how its responses are counted while
\* one of them waits to be played.
Owned ==
  /\ mode = "evaluation" => trace.own = <<>>
  /\ mode = "grpo" =>
       /\ \A i \in DOMAIN trace.own : trace.own[i] = i % 2
       /\ trace.own # <<>> => trace.own[Len(trace.own)] = 1
       /\ IsFiniteSet(Responses(trace.own))
       /\ Cardinality(Responses(trace.own)) \in {Len(sent), Len(sent) + 1}
       /\ pc \in {"reset", "turn"} => Cardinality(Responses(trace.own)) = Len(sent)
       /\ pc = "play" => Cardinality(Responses(trace.own)) = Len(sent) + 1
       /\ pc = "reset" => trace.own = <<>>
       /\ pc \in {"reset", "turn"} => (inserted = 0 <=> trace.own = <<>>)

\* The inductive invariant.
IInv == TypeOK /\ WithinContext /\ Ongoing /\ PlayedWhole /\ RewardIsEarned /\ Owned

----------------------------------------------------------------------------

\* A response fits into the window, and one that the window did not cut is whole.
LEMMA SampledFits ==
  ASSUME NEW input \in Nat, NEW s \in Sampled(input)
  PROVE  /\ s \in Response
         /\ s.input + s.len <= MaxContext
         /\ s.input = input /\ s.len >= 1
         /\ ~s.cut => Whole(s)
  BY PolicyEpisodeAssumption, SMT DEF Sampled, Budget, Cut, Response, Whole, Texts

LEMMA NextIsOdd ==
  ASSUME NEW n \in Nat, n % 2 = 1
  PROVE  (n + 1) % 2 = 0 /\ (n + 2) % 2 = 1
  OBVIOUS

\* The first response is a run of the policy.
LEMMA FirstResponse ==
  /\ <<1>> \in Seq({0, 1}) /\ <<1>> # <<>> /\ <<1>>[Len(<<1>>)] = 1
  /\ \A i \in DOMAIN <<1>> : <<1>>[i] = i % 2
  /\ IsFiniteSet(Responses(<<1>>)) /\ Cardinality(Responses(<<1>>)) = 1
  /\ IsFiniteSet(Responses(<<>>)) /\ Cardinality(Responses(<<>>)) = 0
PROOF
  <1>1. Responses(<<1>>) = {1} /\ Responses(<<>>) = {}
    BY DEF Responses
  <1>2. IsFiniteSet(Responses(<<1>>)) /\ Cardinality(Responses(<<1>>)) = 1
    BY <1>1, FS_Singleton
  <1>3. IsFiniteSet(Responses(<<>>)) /\ Cardinality(Responses(<<>>)) = 0
    BY <1>1, FS_EmptySet
  <1>4. /\ <<1>> \in Seq({0, 1}) /\ <<1>> # <<>> /\ <<1>>[Len(<<1>>)] = 1
        /\ \A i \in DOMAIN <<1>> : <<1>>[i] = i % 2
    OBVIOUS
  <1> QED
    BY <1>2, <1>3, <1>4

\* A later one follows a run of the environment, at the end of the stream.
LEMMA LaterResponse ==
  ASSUME NEW own \in Seq({0, 1}), own # <<>>,
         \A i \in DOMAIN own : own[i] = i % 2,
         own[Len(own)] = 1,
         IsFiniteSet(Responses(own)),
         NEW new, new = own \o <<0, 1>>
  PROVE  /\ new \in Seq({0, 1}) /\ new # <<>> /\ new[Len(new)] = 1
         /\ \A i \in DOMAIN new : new[i] = i % 2
         /\ IsFiniteSet(Responses(new))
         /\ Cardinality(Responses(new)) = Cardinality(Responses(own)) + 1
PROOF
  <1>1. PICK n : n = Len(own)
    OBVIOUS
  <1>2. n \in Nat /\ DOMAIN own = 1 .. n /\ n % 2 = 1
    BY <1>1
  <1>3. (n + 1) % 2 = 0 /\ (n + 2) % 2 = 1
    BY <1>2, NextIsOdd
  <1>4. new \in Seq({0, 1}) /\ Len(new) = n + 2
    BY <1>1
  <1>5. /\ DOMAIN new = 1 .. n + 2
        /\ \A i \in 1 .. n : new[i] = own[i]
        /\ new[n + 1] = 0 /\ new[n + 2] = 1
    BY <1>1, <1>2, <1>4
  <1>6. ASSUME NEW i \in DOMAIN new
        PROVE  new[i] = i % 2
    <2>1. CASE i \in 1 .. n
      BY <2>1, <1>2, <1>5
    <2>2. CASE i = n + 1
      BY <2>2, <1>3, <1>5
    <2>3. CASE i = n + 2
      BY <2>3, <1>3, <1>5
    <2>4. i \in 1 .. n \/ i = n + 1 \/ i = n + 2
      BY <1>2, <1>5
    <2> QED
      BY <2>1, <2>2, <2>3, <2>4
  <1>7. Responses(new) = Responses(own) \cup {n + 2} /\ n + 2 \notin Responses(own)
    <2>1. n + 2 \notin Responses(own)
      BY <1>2 DEF Responses
    <2>2. ASSUME NEW i \in Responses(new)
          PROVE  i \in Responses(own) \cup {n + 2}
      <3>1. i \in 1 .. n \/ i = n + 1 \/ i = n + 2
        BY <1>2, <1>5 DEF Responses
      <3> QED
        BY <3>1, <1>2, <1>5 DEF Responses
    <2>3. ASSUME NEW i \in Responses(own) \cup {n + 2}
          PROVE  i \in Responses(new)
      BY <1>2, <1>5 DEF Responses
    <2> QED
      BY <2>1, <2>2, <2>3
  <1>8. /\ IsFiniteSet(Responses(new))
        /\ Cardinality(Responses(new)) = Cardinality(Responses(own)) + 1
    BY <1>7, FS_AddElement
  <1> QED
    BY <1>2, <1>4, <1>5, <1>6, <1>8

\* The record of an episode, and what run does with it.
EpType == [status : Endings, steps : 0 .. MaxSteps, at : 0 .. MaxSteps, reward : 0 .. One * One]

LEMMA EpKeepsType ==
  ASSUME NEW e \in EpType, NEW st \in Endings, NEW k \in 0 .. MaxSteps
  PROVE  /\ [e EXCEPT !.status = st] \in EpType
         /\ [e EXCEPT !.status = st, !.at = k] \in EpType
         /\ [e EXCEPT !.steps = k] \in EpType
         /\ [e EXCEPT !.steps = k, !.status = st] \in EpType
         /\ \A r \in 0 .. One * One :
              [e EXCEPT !.steps = k, !.reward = r, !.status = st] \in EpType
  BY DEF EpType

LEMMA StepsLeft ==
  ASSUME ep \in EpType, ep.steps < MaxSteps
  PROVE  ep.steps + 1 \in 0 .. MaxSteps
  BY PolicyEpisodeAssumption DEF EpType

LEMMA RewardType ==
  ASSUME NEW p \in Payload
  PROVE  r_alpha(p) \in 0 .. One * One
PROOF
  <1>1. p.strict \in 0 .. 2 /\ p.loose \in 0 .. 2
    BY DEF Payload, One
  <1>2. CASE Alpha = 0
    BY <1>1, <1>2 DEF r_alpha, One
  <1>3. CASE Alpha = 1
    BY <1>1, <1>3 DEF r_alpha, One
  <1>4. CASE Alpha = 2
    BY <1>1, <1>4 DEF r_alpha, One
  <1> QED
    BY <1>2, <1>3, <1>4, PolicyEpisodeAssumption DEF One

----------------------------------------------------------------------------

LEMMA InitIInv == Init => IInv
PROOF
  <1> SUFFICES ASSUME Init PROVE IInv
    OBVIOUS
  <1>1. TypeOK
    BY PolicyEpisodeAssumption
       DEF Init, TypeOK, Endings, One, NoSample, Unpaid, Response, Payload, Texts
  <1>2. WithinContext
    BY PolicyEpisodeAssumption DEF Init, WithinContext, NoSample
  <1>3. Ongoing /\ PlayedWhole /\ RewardIsEarned
    BY DEF Init, Ongoing, PlayedWhole, OnlyWholeActionsArePlayed, RewardIsEarned, Unpaid
  <1>4. Owned
    BY FirstResponse DEF Init, Owned
  <1> QED
    BY <1>1, <1>2, <1>3, <1>4 DEF IInv

\* Steps that end or leave the episode disturb only how it ended.
LEMMA ResetIInv == ASSUME IInv, Reset PROVE IInv'
PROOF
  <1> USE DEF IInv, Reset, Raises
  <1>1. TypeOK'
    BY PolicyEpisodeAssumption DEF TypeOK, Endings
  <1>2. WithinContext'
    <2>1. trace.own = <<>>
      BY PolicyEpisodeAssumption DEF Owned, TypeOK
    <2> QED
      BY <2>1 DEF WithinContext
  <1>3. Ongoing' /\ PlayedWhole' /\ RewardIsEarned'
    BY DEF Ongoing, PlayedWhole, OnlyWholeActionsArePlayed, RewardIsEarned, TypeOK, r_alpha
  <1>4. Owned'
    BY DEF Owned
  <1> QED
    BY <1>1, <1>2, <1>3, <1>4

LEMMA OutOfStepsIInv == ASSUME IInv, OutOfSteps PROVE IInv'
PROOF
  <1> USE DEF IInv, OutOfSteps
  <1>1. TypeOK' /\ WithinContext' /\ Ongoing'
    BY DEF TypeOK, WithinContext, Ongoing
  <1>2. PlayedWhole' /\ RewardIsEarned'
    BY DEF PlayedWhole, OnlyWholeActionsArePlayed, RewardIsEarned, r_alpha
  <1>3. Owned'
    BY DEF Owned
  <1> QED
    BY <1>1, <1>2, <1>3

LEMMA LeaveIInv == ASSUME IInv, Leave PROVE IInv'
PROOF
  <1> USE DEF IInv, Leave
  <1>1. TypeOK' /\ WithinContext' /\ Ongoing'
    BY DEF TypeOK, WithinContext, Ongoing
  <1>2. PlayedWhole' /\ RewardIsEarned'
    BY DEF PlayedWhole, OnlyWholeActionsArePlayed, RewardIsEarned, r_alpha
  <1>3. Owned'
    BY DEF Owned
  <1> QED
    BY <1>1, <1>2, <1>3

\* What run makes of a response, whichever way it was sampled.
LEMMA ReceiveKeeps ==
  ASSUME IInv, pc = "turn", TurnsLeft,
         NEW input \in Nat, NEW s \in Sampled(input), Receive(s), sample' = s,
         UNCHANGED <<mode, session, sent, paid>>
  PROVE  /\ pc' \in {"play", "leaving"} /\ sample' \in Response
         /\ ep' \in EpType
         /\ Ongoing' /\ PlayedWhole' /\ RewardIsEarned'
PROOF
  <1>1. pc' \in {"play", "leaving"} /\ sample' \in Response
    BY SampledFits DEF Receive, ContextLimit, Ends
  <1>2. ep' \in EpType
    <2>1. ep \in EpType
      BY DEF IInv, TypeOK, EpType
    <2>2. ep.steps + 1 \in 0 .. MaxSteps
      BY <2>1, StepsLeft DEF TurnsLeft
    <2>3. "context_limit" \in Endings /\ "malformed_action" \in Endings
      BY DEF Endings
    <2>4. /\ [ep EXCEPT !.status = "context_limit", !.at = ep.steps + 1] \in EpType
          /\ [ep EXCEPT !.status = "malformed_action"] \in EpType
      BY <2>1, <2>2, <2>3, EpKeepsType, Zenon
    <2> QED
      BY <2>1, <2>4 DEF Receive, ContextLimit, Ends
  <1>3. Ongoing'
    BY DEF Receive, ContextLimit, Ends, IInv, Ongoing, TurnsLeft
  <1>4. PlayedWhole'
    BY SampledFits
       DEF Receive, ContextLimit, Ends, IInv, PlayedWhole, OnlyWholeActionsArePlayed, Whole
  <1>5. RewardIsEarned'
    BY DEF Receive, ContextLimit, Ends, IInv, Ongoing, RewardIsEarned, TypeOK
  <1> QED
    BY <1>1, <1>2, <1>3, <1>4, <1>5

LEMMA GenerateIInv == ASSUME IInv, Generate PROVE IInv'
PROOF
  <1> USE DEF IInv
  <1>1. CASE Budget(prompt) = 0
    <2>1. TypeOK'
      <3>1. ep \in EpType /\ "context_limit" \in Endings
        BY DEF TypeOK, EpType, Endings
      <3>2. ep.steps + 1 \in 0 .. MaxSteps
        BY <3>1, StepsLeft DEF Generate, TurnsLeft
      <3>3. [ep EXCEPT !.status = "context_limit", !.at = ep.steps + 1] \in EpType
        BY <3>1, <3>2, EpKeepsType, Zenon
      <3>4. ep' \in EpType
        BY <1>1, <3>3 DEF Generate, ContextLimit
      <3> QED
        BY <1>1, <3>4 DEF Generate, ContextLimit, TypeOK, EpType
    <2>2. WithinContext' /\ Ongoing'
      BY <1>1 DEF Generate, ContextLimit, WithinContext, Ongoing
    <2>3. PlayedWhole'
      BY <1>1 DEF Generate, ContextLimit, PlayedWhole, OnlyWholeActionsArePlayed
    <2>4. RewardIsEarned'
      BY <1>1 DEF Generate, ContextLimit, RewardIsEarned, Ongoing, TypeOK
    <2>5. Owned'
      BY <1>1 DEF Generate, ContextLimit, Owned
    <2> QED
      BY <2>1, <2>2, <2>3, <2>4, <2>5
  <1>2. CASE Budget(prompt) # 0
    <2>1. PICK s \in Sampled(prompt) : sample' = s /\ Receive(s)
      BY <1>2 DEF Generate
    <2>2. /\ pc' \in {"play", "leaving"} /\ sample' \in Response
          /\ ep' \in EpType
          /\ Ongoing' /\ PlayedWhole' /\ RewardIsEarned'
      BY <2>1, ReceiveKeeps DEF Generate, TypeOK
    <2>3. TypeOK'
      BY <2>2 DEF Generate, TypeOK, EpType
    <2>4. WithinContext'
      BY <2>1, SampledFits DEF Generate, WithinContext, TypeOK
    <2>5. Owned'
      BY <2>2 DEF Generate, Owned
    <2> QED
      BY <2>2, <2>3, <2>4, <2>5
  <1> QED
    BY <1>1, <1>2

LEMMA SampleTurnIInv == ASSUME IInv, SampleTurn PROVE IInv'
PROOF
  <1> USE DEF IInv
  <1>1. CASE (Raises \/ Ends("context_limit")) /\ UNCHANGED <<trace, sample>>
    <2>1. TypeOK'
      BY <1>1 DEF SampleTurn, Raises, Ends, TypeOK, Endings
    <2>2. WithinContext' /\ Ongoing'
      BY <1>1 DEF SampleTurn, Raises, Ends, WithinContext, Ongoing
    <2>3. PlayedWhole'
      BY <1>1 DEF SampleTurn, Raises, Ends, PlayedWhole, OnlyWholeActionsArePlayed
    <2>4. RewardIsEarned'
      BY <1>1 DEF SampleTurn, Raises, Ends, RewardIsEarned, Ongoing, TypeOK
    <2>5. Owned'
      BY <1>1 DEF SampleTurn, Raises, Ends, Owned
    <2> QED
      BY <2>1, <2>2, <2>3, <2>4, <2>5
  <1>2. ASSUME ~Full, NEW s \in Sampled(prompt + trace.len + inserted),
               sample' = s, trace' = Added(s), Receive(s)
        PROVE  IInv'
    <2> DEFINE input == prompt + trace.len + inserted
    <2>1. input \in Nat /\ input < MaxContext
      BY <1>2, PolicyEpisodeAssumption DEF TypeOK, Full
    <2>2. /\ pc' \in {"play", "leaving"} /\ sample' \in Response
          /\ ep' \in EpType
          /\ Ongoing' /\ PlayedWhole' /\ RewardIsEarned'
      BY <1>2, <2>1, ReceiveKeeps DEF SampleTurn
    <2>3. s.len \in Nat /\ s.input = input /\ s.input + s.len <= MaxContext
      BY <1>2, <2>1, SampledFits DEF Response
    <2>4. trace.own # <<>> =>
            /\ trace.own[Len(trace.own)] = 1
            /\ inserted # 0
      BY DEF SampleTurn, Owned
    <2>5. /\ trace'.own \in Seq({0, 1})
          /\ \A i \in DOMAIN trace'.own : trace'.own[i] = i % 2
          /\ trace'.own # <<>> /\ trace'.own[Len(trace'.own)] = 1
          /\ IsFiniteSet(Responses(trace'.own))
          /\ Cardinality(Responses(trace'.own)) = Len(sent) + 1
      <3>1. CASE trace.own = <<>>
        <4>1. trace'.own = <<1>>
          BY <1>2, <3>1 DEF Added, SampleTurn, Owned
        <4>2. Len(sent) = 0
          BY <3>1, FirstResponse DEF Owned, SampleTurn, TypeOK
        <4> QED
          BY <4>1, <4>2, FirstResponse
      <3>2. CASE trace.own # <<>>
        <4>1. trace'.own = trace.own \o <<0, 1>>
          BY <1>2, <2>4, <3>2 DEF Added
        <4>2. Cardinality(Responses(trace.own)) = Len(sent)
          BY DEF Owned, SampleTurn
        <4> QED
          BY <4>1, <4>2, <2>4, <3>2, LaterResponse DEF Owned, SampleTurn, TypeOK
      <3> QED
        BY <3>1, <3>2
    <2>6. TypeOK'
      <3>1. trace' \in [len : Nat, own : Seq({0, 1})]
        <4>1. trace'.len = trace.len + inserted + s.len
          BY <1>2 DEF Added
        <4>2. trace' = [len |-> trace'.len, own |-> trace'.own]
          BY <1>2 DEF Added
        <4>3. trace'.len \in Nat
          BY <4>1, <2>3 DEF TypeOK
        <4> QED
          BY <4>2, <4>3, <2>5
      <3> QED
        BY <2>2, <3>1 DEF SampleTurn, TypeOK, EpType
    <2>7. WithinContext'
      BY <1>2, <2>1, <2>3 DEF SampleTurn, TypeOK, Added, WithinContext
    <2>8. Owned'
      BY <2>2, <2>5 DEF SampleTurn, Owned
    <2> QED
      BY <2>2, <2>6, <2>7, <2>8
  <1> QED
    BY <1>1, <1>2 DEF SampleTurn, DropObservation

LEMMA PlayIInv == ASSUME IInv, Play PROVE IInv'
PROOF
  <1> USE DEF IInv
  <1>1. /\ sent' \in Seq(Response) /\ Len(sent') = Len(sent) + 1
        /\ \A i \in DOMAIN sent' : (i \in DOMAIN sent /\ sent'[i] = sent[i]) \/ sent'[i] = sample
    BY DEF Play, TypeOK
  <1>2. OnlyWholeActionsArePlayed'
    BY <1>1, PolicyEpisodeAssumption
       DEF Play, PlayedWhole, OnlyWholeActionsArePlayed, Whole
  <1>3. mode' = mode /\ trace' = trace /\ sample' = sample /\ pc' \in {"turn", "leaving"}
    BY DEF Play, Stepped, Ends, Raises
  <1>4. PlayedWhole'
    BY <1>2, <1>3 DEF PlayedWhole
  <1>5. CASE (Ends("invalid_action") \/ Raises) /\ UNCHANGED <<prompt, inserted, paid>>
    <2>1. TypeOK'
      BY <1>1, <1>5 DEF Play, TypeOK, Ends, Raises, Endings
    <2>2. WithinContext' /\ Ongoing'
      BY <1>5 DEF Play, Ends, Raises, WithinContext, Ongoing
    <2>3. RewardIsEarned'
      BY <1>5 DEF Play, Ends, Raises, RewardIsEarned, Ongoing, TypeOK
    <2>4. Owned'
      BY <1>1, <1>5 DEF Play, Ends, Raises, Owned
    <2> QED
      BY <1>4, <2>1, <2>2, <2>3, <2>4
  <1>6. ASSUME NEW p \in Payload, NEW n \in Observations, Stepped(p), paid' = p,
               IF mode = "grpo"
               THEN inserted' = n /\ UNCHANGED prompt
               ELSE /\ \E r \in 1 .. MaxNew + 1 : prompt' = prompt + r + n
                    /\ UNCHANGED inserted
        PROVE  IInv'
    <2>1. n \in Nat \ {0} /\ prompt' \in Nat /\ inserted' \in Nat
      BY <1>6, PolicyEpisodeAssumption DEF TypeOK
    <2>2. ep' \in EpType
      <3>1. /\ ep \in EpType /\ r_alpha(p) \in 0 .. One * One
            /\ {"invalid_action", "success", "terminal_unsuccessful"} \subseteq Endings
        BY RewardType DEF TypeOK, EpType, Endings
      <3>2. ep.steps + 1 \in 0 .. MaxSteps
        BY <3>1, StepsLeft DEF Play, Ongoing
      <3>3. /\ \A st \in {"success", "terminal_unsuccessful"} :
                 [ep EXCEPT !.steps = ep.steps + 1, !.reward = r_alpha(p), !.status = st]
                   \in EpType
            /\ [ep EXCEPT !.steps = ep.steps + 1, !.status = "invalid_action"] \in EpType
            /\ [ep EXCEPT !.steps = ep.steps + 1] \in EpType
        BY <3>1, <3>2, EpKeepsType, Zenon
      <3> QED
        BY <1>6, <3>3 DEF Stepped
    <2>3. TypeOK'
      BY <1>1, <1>3, <1>6, <2>1, <2>2 DEF Play, TypeOK, EpType
    <2>4. WithinContext'
      <3>1. CASE mode = "grpo"
        BY <1>3, <1>6, <3>1 DEF WithinContext
      <3>2. CASE mode = "evaluation"
        BY <1>3, <3>2 DEF WithinContext, Owned
      <3> QED
        BY <3>1, <3>2, PolicyEpisodeAssumption DEF TypeOK
    <2>5. Ongoing'
      BY <1>6 DEF Play, Stepped, TypeOK, Ongoing
    <2>6. RewardIsEarned'
      BY <1>6 DEF Play, Stepped, TypeOK, Ongoing, RewardIsEarned, Payload
    <2>7. Owned'
      <3>1. Responses(trace.own)' = Responses(trace.own)
        BY <1>3
      <3>2. CASE mode = "grpo"
        <4>1. /\ Cardinality(Responses(trace.own)) = Len(sent')
              /\ inserted' # 0
          BY <1>1, <1>6, <2>1, <3>2 DEF Play, Owned
        <4>2. trace.own # <<>>
          BY <1>1, <3>2, FirstResponse DEF Play, Owned, TypeOK
        <4>3. Len(sent') \in Nat
          BY <1>1
        <4> QED
          BY <1>1, <1>3, <3>1, <3>2, <4>1, <4>2, <4>3 DEF Owned
      <3>3. CASE mode = "evaluation"
        BY <1>3, <3>3 DEF Owned
      <3> QED
        BY <3>2, <3>3, PolicyEpisodeAssumption DEF TypeOK
    <2> QED
      BY <1>4, <2>3, <2>4, <2>5, <2>6, <2>7
  <1> QED
    BY <1>5, <1>6 DEF Play

LEMMA StutterIInv == ASSUME IInv, UNCHANGED vars PROVE IInv'
PROOF
  <1> USE DEF IInv, vars
  <1>1. TypeOK' /\ WithinContext' /\ Ongoing' /\ RewardIsEarned'
    BY DEF TypeOK, WithinContext, Ongoing, RewardIsEarned, r_alpha
  <1>2. PlayedWhole' /\ Owned'
    BY DEF PlayedWhole, OnlyWholeActionsArePlayed, Owned
  <1> QED
    BY <1>1, <1>2

\* Everything proved of an episode follows from this one invariant: it adds to the
\* properties what is still open before the episode ends (Ongoing), that the response
\* in hand is whole (PlayedWhole) and how many responses the stream holds (Owned).
THEOREM EpisodeInvariant == Spec => []IInv
PROOF
  <1>1. Init => IInv
    BY InitIInv
  <1>2. IInv /\ [Next]_vars => IInv'
    <2> SUFFICES ASSUME IInv, [Next]_vars PROVE IInv'
      OBVIOUS
    <2> QED
      BY ResetIInv, OutOfStepsIInv, GenerateIInv, SampleTurnIInv, PlayIInv, LeaveIInv,
         StutterIInv DEF Next
  <1> QED
    BY <1>1, <1>2, PTL DEF Spec

\* The variables of an episode have their types (AgentRollout.run, RolloutResult).
THEOREM EpisodeTypes == Spec => []TypeOK
  BY EpisodeInvariant, PTL DEF IInv

\* Neither a call of the model nor the stream GRPO trains on goes beyond the context
\* window, whatever its size and whatever is inserted (QwenPolicy.generate and sample).
THEOREM EpisodeFitsTheWindow == Spec => []WithinContext
  BY EpisodeInvariant, PTL DEF IInv

\* A response the window cut off is never played (AgentRollout.run, before env.step).
THEOREM CutResponsesAreNotPlayed == Spec => []OnlyWholeActionsArePlayed
PROOF
  <1>1. IInv => OnlyWholeActionsArePlayed
    BY DEF IInv, PlayedWhole
  <1> QED
    BY <1>1, EpisodeInvariant, PTL

\* The owners of the stream's tokens alternate and count the actions (TokenTrace).
THEOREM StreamIsOwned == Spec => []TraceIsOwned
PROOF
  <1>1. IInv => TraceIsOwned
    BY DEF IInv, Owned, TraceIsOwned, Responses
  <1> QED
    BY <1>1, EpisodeInvariant, PTL

\* A reward is what the environment paid for a valid action that ended the episode
\* (combine_reward, metrics_from_environment).
THEOREM RewardsAreEarned == Spec => []RewardIsEarned
  BY EpisodeInvariant, PTL DEF IInv

============================================================================
