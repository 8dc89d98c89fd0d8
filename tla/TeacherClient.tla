---------------------------- MODULE TeacherClient ----------------------------
(***************************************************************************)
(* TeacherClient.generate: one request to the relay, posted again after a  *)
(* transient failure, and the threads that make such requests under one    *)
(* GlobalStop.  A thread looks at the stop before it calls generate        *)
(* (check_before_external_call); generate itself never does.               *)
(*                                                                         *)
(* A reply stands for everything one post can bring: an exception of the   *)
(* HTTP library, a status, or a body.  Texts, delays and usage are left    *)
(* out; a delay is told apart only by what time.sleep makes of it.         *)
(***************************************************************************)
EXTENDS Naturals, FiniteSets

CONSTANTS
  Callers,     \* threads that call generate
  MaxRetries   \* max_retries: 3 in the code

ASSUME TeacherClientAssumption ==
  /\ IsFiniteSet(Callers)
  /\ MaxRetries \in Nat

VARIABLES
  call,   \* the call of each thread
  stop,   \* GlobalStop
  late    \* auxiliary: posts a thread has sent with the stop set

\* The exception time.sleep raises for the Retry-After of a transient status that
\* is no duration (negative or nan, and inf).
BadDelay == [retry_after_nan |-> "ValueError", retry_after_inf |-> "OverflowError"]

\* A timeout, a connection error, one of TRANSIENT_STATUS, and one of these with
\* a bad Retry-After.
Transient == {"timeout", "unreachable", "transient_status"} \cup DOMAIN BadDelay

\* Not JSON, or JSON in which no visible text is found.
Protocol == {"not_json", "no_text"}

\* JSON the extraction itself trips over: choices[0] or output is no mapping.
Untyped == {"untyped"}

Replies == Transient \cup Protocol \cup Untyped \cup {"config_status", "blank", "text"}

\* The four kinds of TeacherClientError.
ErrorKinds == {"infrastructure", "provider_protocol_error", "config",
               "teacher_empty_response"}

\* Exceptions that are not TeacherClientError: the extraction's (or a TypeError),
\* and time.sleep's.
Escapes == {"AttributeError", "ValueError", "OverflowError"}

Outcomes == ErrorKinds \cup Escapes \cup {"ok"}

\* How generate ends on a reply it does not retry.
Verdict(reply) ==
  CASE reply \in Transient       -> "infrastructure"
    [] reply \in Protocol        -> "provider_protocol_error"
    [] reply \in Untyped         -> "AttributeError"
    [] reply = "config_status"   -> "config"
    [] reply = "blank"           -> "teacher_empty_response"
    [] reply = "text"            -> "ok"

Call(pc, attempt, reply, outcome) ==
  [pc |-> pc, attempt |-> attempt, reply |-> reply, outcome |-> outcome]

NoCall == Call("idle", 0, "none", "none")

ClientInit ==
  /\ call = [c \in Callers |-> NoCall]
  /\ stop = FALSE
  /\ late = [c \in Callers |-> 0]

----------------------------------------------------------------------------

\* Mutant: a protocol error is not retried.
RetriedUnlessProtocol(k, reply) ==
  /\ reply \in Transient
  /\ k.attempt < MaxRetries

Retried(k, reply) ==
  /\ reply \in Transient \cup Protocol
  /\ k.attempt < MaxRetries

\* One response: a retry is recorded and waits, anything else ends the call.
Received(k, reply) ==
  IF Retried(k, reply)
  THEN Call("waiting", k.attempt, reply, "none")
  ELSE Call("over", k.attempt, reply, Verdict(reply))

\* Mutant: the attempt is not advanced.
SleptInPlace(k) == Call("posting", k.attempt, k.reply, "none")

\* The end of the sleep, or time.sleep's refusal of the delay.
Slept(k) ==
  IF k.reply \in DOMAIN BadDelay
  THEN Call("over", k.attempt, k.reply, BadDelay[k.reply])
  ELSE Call("posting", k.attempt + 1, k.reply, "none")

\* Mutant: a thread calls without looking at the stop.
GenerateUnchecked(c) ==
  /\ call[c].pc = "idle"
  /\ call' = [call EXCEPT ![c] = Call("posting", 0, "none", "none")]
  /\ UNCHANGED late

\* The stop is looked at once, before the first post.
Generate(c) ==
  /\ call[c].pc = "idle"
  /\ ~stop
  /\ call' = [call EXCEPT ![c] = Call("posting", 0, "none", "none")]
  /\ UNCHANGED late

Post(c) ==
  /\ call[c].pc = "posting"
  /\ \E reply \in Replies : call' = [call EXCEPT ![c] = Received(@, reply)]
  /\ late' = [late EXCEPT ![c] = IF stop THEN @ + 1 ELSE @]

Sleep(c) ==
  /\ call[c].pc = "waiting"
  /\ call' = [call EXCEPT ![c] = Slept(@)]
  /\ UNCHANGED late

\* The caller has used the outcome; it may call again.
Return(c) ==
  /\ call[c].pc = "over"
  /\ call' = [call EXCEPT ![c] = NoCall]
  /\ UNCHANGED late

----------------------------------------------------------------------------

CallType ==
  [pc : {"idle", "posting", "waiting", "over"}, attempt : 0 .. MaxRetries,
   reply : Replies \cup {"none"}, outcome : Outcomes \cup {"none"}]

\* Types; an attempt never passes max_retries, so a call posts at most
\* max_retries + 1 times (range(self.max_retries + 1)).
ClientTypeOK ==
  /\ call \in [Callers -> CallType]
  /\ stop \in BOOLEAN
  /\ late \in [Callers -> Nat]

\* generate reports infrastructure or provider_protocol_error only when every
\* retry is used up: what consumes no teacher attempt stopped the collection
\* only after the whole transient policy.
GivenUpOnlyWhenExhausted ==
  \A c \in Callers :
    call[c].outcome \in {"infrastructure", "provider_protocol_error"}
      => call[c].attempt = MaxRetries

\* After the stop is set a thread sends at most what is left of the call it is
\* in: one post per attempt not yet made (the drain of a global stop).
DrainIsBounded ==
  \A c \in Callers :
    /\ call[c].pc = "posting" => late[c] <= call[c].attempt
    /\ late[c] <= MaxRetries + 1

\* Once the stop is set other workers send no new API request; the one a thread
\* was about to send when it was set is the request in flight.
NoRequestAfterStop == \A c \in Callers : late[c] <= 1

\* Every HTTP 200 whose body lacks the protocol's structure is classified as
\* provider_protocol_error and retried as one.
EveryBodyIsClassified ==
  \A c \in Callers : call[c].outcome # "AttributeError"

=============================================================================
