---------------------------- MODULE ShopEnvService ----------------------------
(***************************************************************************)
(* The shopping environment service and the rollouts that use it.          *)
(*                                                                         *)
(* One process loads the catalog once, into one `server` object, and gives *)
(* every session a slot of it.  server.goals and server.user_sessions are  *)
(* indexed by the slot, and server.goals is replaced by every request: it  *)
(* holds the goal of the session being served and nothing else.  Handlers  *)
(* run under one lock, so each is one action.                              *)
(*                                                                         *)
(* A client is a worker thread of the collector (or an evaluation): reset, *)
(* some steps, release.  A call can time out at the client while its       *)
(* request is still on its way, or has been served already.  The service   *)
(* can be restarted, possibly as another version.                          *)
(***************************************************************************)
EXTENDS NatSets

CONSTANTS
  Clients,      \* concurrent rollouts
  Tasks,        \* task ids with their scenario
  Manifest,     \* those of the service's split
  MaxSessions,  \* settings["max_sessions"]
  MaxSteps,     \* max_action_steps
  Versions,     \* what a restart may bring up, a subset of VersionKinds
  NoTask,       \* no goal, no task
  MaxRollouts,  \* bound: rollouts of one client
  MaxLosses,    \* bound: events after which a session can stay behind
  MaxFaults,    \* bound: exceptions in the environment
  MaxRestarts   \* bound: restarts of the service

\* "version" and "rng" are deployments whose environment version or evaluation
\* RNG contract is not the one the client expects.
VersionKinds == {"expected", "version", "rng"}

ASSUME ServiceAssumption ==
  /\ IsFiniteSet(Clients) /\ IsFiniteSet(Tasks)
  /\ Manifest \subseteq Tasks /\ NoTask \notin Tasks
  /\ MaxSessions \in Nat \ {0} /\ MaxSteps \in Nat
  /\ Versions \subseteq VersionKinds
  /\ MaxRollouts \in Nat /\ MaxLosses \in Nat /\ MaxFaults \in Nat /\ MaxRestarts \in Nat

VARIABLES
  \* the service
  version,    \* of the running process
  loaded,     \* settings["server"] is there
  goals,      \* server.goals, per slot
  pages,      \* server.user_sessions, per slot
  sessions,   \* the table of sessions
  nextId,     \* uuid4: an id no session had before
  \* HTTP
  inbox,      \* requests not served yet
  outbox,     \* responses not received yet
  \* the clients
  pc,         \* the call a client waits for, or where it is between calls
  task,       \* the task of its rollout
  session,    \* its session id
  obs,        \* what it observed last
  rollouts,   \* how many it has started
  \* counters of the bounds
  losses, faults, restarts

service == <<version, loaded, goals, pages, sessions, nextId>>
clients == <<pc, task, session, obs, rollouts>>
bounds  == <<losses, faults, restarts>>
vars    == <<version, loaded, goals, pages, sessions, nextId, inbox, outbox,
             pc, task, session, obs, rollouts, losses, faults, restarts>>

Slots  == 0..(MaxSessions - 1)
NoId   == 0
NoPage == [goal |-> NoTask, turn |-> 0]
NoObs  == [goal |-> NoTask, page |-> NoTask, turn |-> 0]

Session     == [id : Nat \ {NoId}, slot : Slots, task : Tasks]
Page        == [goal : Tasks \cup {NoTask}, turn : Nat]
Observation == [goal : Tasks \cup {NoTask}, page : Tasks \cup {NoTask}, turn : Nat]
Calls       == {"reset", "step", "release"}
Request     == [op : Calls, from : Clients, rollout : Nat, task : Tasks,
                session : Nat]
Statuses    == {200, 400, 409, 422, 500, 503}
Response    == [to : Clients, status : Statuses, session : Nat, task : Tasks \cup {NoTask},
                obs : Observation, version : VersionKinds]

----------------------------------------------------------------------------
\* The service

\* The client still waits for the answer to request m.
Awaited(m) == pc[m.from] = m.op /\ rollouts[m.from] = m.rollout

\* An answer nobody waits for is written to a closed connection.
reply(m, status, id, t, o) ==
  /\ inbox' = inbox \ {m}
  /\ outbox' = IF Awaited(m)
               THEN outbox \cup {[to |-> m.from, status |-> status, session |-> id,
                                  task |-> t, obs |-> o, version |-> version]}
               ELSE outbox

refuse(m, status) == reply(m, status, NoId, NoTask, NoObs)

used_slots == {s.slot : s \in sessions}

\* Mutant: the number of sessions taken for a free slot.
next_slot == Cardinality(sessions)

\* The first slot no session has.
free_slot == First(Slots \ used_slots)

\* Mutant: one slot too many.
_long_goal_slots(t, slot) == [i \in 0..MaxSessions |-> IF i = slot THEN t ELSE NoTask]

_goal_slots(t, slot) == [i \in Slots |-> IF i = slot THEN t ELSE NoTask]

\* _bind_server_slot
bound_goals(s) == _goal_slots(s.task, s.slot)

without_page(slot) == [pages EXCEPT ![slot] = NoPage]

\* env.reset(idx=slot) of the environment: an entry of user_sessions that is
\* already there is continued, which is why the service pops it before.
env_reset(gs, ps, slot) ==
  IF ps[slot].goal = NoTask THEN [ps EXCEPT ![slot] = [goal |-> gs[slot], turn |-> 0]] ELSE ps

\* env.step(action): one turn of the slot's page.
env_step(ps, slot) == [ps EXCEPT ![slot].turn = @ + 1]

\* What the environment shows of a slot.
shown(gs, ps, slot) == [goal |-> gs[slot], page |-> ps[slot].goal, turn |-> ps[slot].turn]

\* Mutant: the last slot is never used.
at_capacity_early == Cardinality(sessions) >= MaxSessions - 1

at_capacity == Cardinality(sessions) >= MaxSessions \/ Slots \subseteq used_slots

\* reset() refuses: not in the frozen manifest of its split, or no capacity.
ResetRefused(m) ==
  /\ m \in inbox /\ m.op = "reset"
  /\ \/ m.task \notin Manifest /\ refuse(m, 400)
     \/ m.task \in Manifest /\ at_capacity /\ refuse(m, 503)
  /\ UNCHANGED <<service, clients, bounds>>

\* Mutant: the slot serves as the session's id.
slot_id == free_slot + 1

\* uuid.uuid4().hex
fresh_id == nextId

\* reset() opens a session.  With the runtime already loaded the slot's old page
\* is dropped before the environment is built; a runtime just loaded has none.
ResetServed(m) ==
  LET s  == [id |-> fresh_id, slot |-> free_slot, task |-> m.task]
      gs == bound_goals(s)
      ps == env_reset(gs, IF loaded THEN without_page(s.slot) ELSE pages, s.slot)
  IN /\ m \in inbox /\ m.op = "reset" /\ m.task \in Manifest /\ ~at_capacity
     /\ loaded' = TRUE
     /\ sessions' = sessions \cup {s}
     /\ nextId' = nextId + 1
     /\ goals' = gs
     /\ pages' = ps
     /\ reply(m, 200, s.id, s.task, shown(gs, ps, s.slot))
     /\ UNCHANGED <<version, clients, bounds>>

\* Mutant: reset() fails after it registered the session and does not close it.
reset_failed_open(m) ==
  /\ loaded' = TRUE
  /\ sessions' = sessions \cup {[id |-> fresh_id, slot |-> free_slot, task |-> m.task]}
  /\ goals' = _goal_slots(m.task, free_slot)
  /\ pages' = without_page(free_slot)

\* reset() fails after it registered the session: env.reset or building the
\* answer raised, and _close_session took the session away again.
reset_failed_late(m) ==
  /\ loaded' = TRUE
  /\ sessions' = sessions
  /\ goals' = _goal_slots(m.task, free_slot)
  /\ pages' = without_page(free_slot)

\* reset() fails before: the runtime does not load, the product is absent, or
\* the environment is not built.
reset_failed_early(m) ==
  /\ UNCHANGED <<loaded, sessions>>
  /\ \/ UNCHANGED <<goals, pages>>
     \/ /\ loaded
        /\ goals' = _goal_slots(m.task, free_slot)
        /\ pages' = without_page(free_slot)

ResetFailed(m) ==
  /\ m \in inbox /\ m.op = "reset" /\ m.task \in Manifest /\ ~at_capacity
  /\ faults < MaxFaults
  /\ faults' = faults + 1
  /\ \/ reset_failed_early(m) /\ UNCHANGED nextId
     \/ reset_failed_late(m) /\ nextId' = nextId + 1
  /\ refuse(m, 500)
  /\ UNCHANGED <<version, clients, losses, restarts>>

lookup(id) == {s \in sessions : s.id = id}

\* step() of a session that is not (or no longer) there.
StepUnknown(m) ==
  /\ m \in inbox /\ m.op = "step"
  /\ lookup(m.session) = {}
  /\ refuse(m, 409)
  /\ UNCHANGED <<service, clients, bounds>>

\* step() binds the session's slot and acts.
StepServed(m) ==
  \E s \in lookup(m.session) :
     /\ m \in inbox /\ m.op = "step"
     /\ pages[s.slot] # NoPage
     /\ goals' = bound_goals(s)
     /\ pages' = env_step(pages, s.slot)
     /\ reply(m, 200, s.id, s.task, shown(goals', pages', s.slot))
     /\ UNCHANGED <<version, loaded, sessions, nextId, clients, bounds>>

\* step() binds and then rejects the action, or the environment raises: there is
\* no page (a release failed half-way), or before or after it took the turn.
StepFailed(m) ==
  \E s \in lookup(m.session) :
     /\ m \in inbox /\ m.op = "step"
     /\ goals' = bound_goals(s)
     /\ \/ /\ refuse(m, 422)
           /\ UNCHANGED <<pages, faults>>
        \/ /\ refuse(m, 500)
           /\ pages[s.slot] = NoPage
           /\ UNCHANGED <<pages, faults>>
        \/ /\ refuse(m, 500)
           /\ pages[s.slot] # NoPage
           /\ faults < MaxFaults
           /\ faults' = faults + 1
           /\ pages' \in {pages, env_step(pages, s.slot)}
     /\ UNCHANGED <<version, loaded, sessions, nextId, clients, losses, restarts>>

\* release(): _close_session, or nothing if the session is not there.
ReleaseServed(m) ==
  /\ m \in inbox /\ m.op = "release"
  /\ sessions' = sessions \ lookup(m.session)
  /\ pages' = [i \in Slots |-> IF \E s \in lookup(m.session) : s.slot = i
                               THEN NoPage ELSE pages[i]]
  /\ reply(m, 200, m.session, NoTask, NoObs)
  /\ UNCHANGED <<version, loaded, goals, nextId, clients, bounds>>

\* env.close() raises in _close_session, which then does not reach the removal.
ReleaseFailed(m) ==
  \E s \in lookup(m.session) :
     /\ m \in inbox /\ m.op = "release"
     /\ losses < MaxLosses
     /\ losses' = losses + 1
     /\ pages' = without_page(s.slot)
     /\ refuse(m, 500)
     /\ UNCHANGED <<version, loaded, goals, sessions, nextId, clients, faults, restarts>>

\* The process is started again: nothing of it was durable.
Restart(v) ==
  /\ restarts < MaxRestarts
  /\ restarts' = restarts + 1
  /\ version' = v
  /\ loaded' = FALSE
  /\ goals' = [i \in Slots |-> NoTask]
  /\ pages' = [i \in Slots |-> NoPage]
  /\ sessions' = {}
  /\ inbox' = {}
  /\ outbox' = {}
  /\ UNCHANGED <<nextId, clients, losses, faults>>

----------------------------------------------------------------------------
\* The clients

send(c, op, id) ==
  inbox' = inbox \cup {[op |-> op, from |-> c, rollout |-> rollouts'[c], task |-> task'[c],
                        session |-> id]}

\* The finally of execute_rollout: release what was opened.
release(c) ==
  /\ pc' = [pc EXCEPT ![c] = "release"]
  /\ send(c, "release", session'[c])

ended(c) ==
  /\ pc' = [pc EXCEPT ![c] = "idle"]
  /\ session' = [session EXCEPT ![c] = NoId]
  /\ obs' = [obs EXCEPT ![c] = NoObs]

received(r) == outbox' = outbox \ {r}

Begin(c, t) ==
  /\ pc[c] = "idle"
  /\ rollouts[c] < MaxRollouts
  /\ rollouts' = [rollouts EXCEPT ![c] = @ + 1]
  /\ task' = [task EXCEPT ![c] = t]
  /\ pc' = [pc EXCEPT ![c] = "reset"]
  /\ send(c, "reset", NoId)
  /\ UNCHANGED <<service, outbox, session, obs, bounds>>

\* client.reset returns: the session is the one asked for, of the right version.
Opened(r) ==
  LET c == r.to
  IN /\ r \in outbox /\ pc[c] = "reset" /\ r.status = 200
     /\ r.version = "expected" /\ r.task = task[c]
     /\ pc' = [pc EXCEPT ![c] = "think"]
     /\ session' = [session EXCEPT ![c] = r.session]
     /\ obs' = [obs EXCEPT ![c] = r.obs]
     /\ received(r)
     /\ UNCHANGED <<service, inbox, task, rollouts, bounds>>

\* client.reset raises on the answer: refused, or another version, whose session
\* nobody releases because execute_rollout never learns its id.
NotOpened(r) ==
  /\ r \in outbox /\ pc[r.to] = "reset"
  /\ \/ r.status # 200 /\ UNCHANGED losses
     \/ /\ r.status = 200
        /\ r.version # "rng"
        /\ r.version = "version" \/ r.task # task[r.to]
        /\ losses' = losses + 1
  /\ ended(r.to)
  /\ received(r)
  /\ UNCHANGED <<service, inbox, task, rollouts, faults, restarts>>

\* client.reset releases a session of another RNG contract before it raises.
WrongContract(r) ==
  /\ r \in outbox /\ pc[r.to] = "reset" /\ r.status = 200 /\ r.version = "rng"
  /\ session' = [session EXCEPT ![r.to] = r.session]
  /\ UNCHANGED <<service, task, obs, rollouts, bounds>>
  /\ release(r.to)
  /\ received(r)

\* The next action of the teacher goes to the environment.
Step(c) ==
  /\ pc[c] = "think"
  /\ obs[c].turn < MaxSteps
  /\ pc' = [pc EXCEPT ![c] = "step"]
  /\ UNCHANGED <<service, outbox, task, session, obs, rollouts, bounds>>
  /\ send(c, "step", session[c])

\* Done, out of steps, a malformed action, a failed teacher call or the stop.
Leave(c) ==
  /\ pc[c] = "think"
  /\ UNCHANGED <<service, outbox, task, session, obs, rollouts, bounds>>
  /\ release(c)

Stepped(r) ==
  LET c == r.to
  IN /\ r \in outbox /\ pc[c] = "step"
     /\ r.status = 200 /\ r.session = session[c] /\ r.task = task[c]
     /\ pc' = [pc EXCEPT ![c] = "think"]
     /\ obs' = [obs EXCEPT ![c] = r.obs]
     /\ received(r)
     /\ UNCHANGED <<service, inbox, task, session, rollouts, bounds>>

\* client.step raises on the answer: an error, or another session's identity.
NotStepped(r) ==
  /\ r \in outbox /\ pc[r.to] = "step"
  /\ r.status # 200 \/ r.session # session[r.to] \/ r.task # task[r.to]
  /\ UNCHANGED <<service, task, session, obs, rollouts, bounds>>
  /\ release(r.to)
  /\ received(r)

\* Whatever the answer to a release is, the rollout has ended.
Released(r) ==
  /\ r \in outbox /\ pc[r.to] = "release"
  /\ ended(r.to)
  /\ received(r)
  /\ UNCHANGED <<service, inbox, task, rollouts, bounds>>

RequestsOf(c)  == {m \in inbox : m.from = c /\ Awaited(m)}
ResponsesTo(c) == {r \in outbox : r.to = c}

\* Mutant: a client that waits without a timeout.
never_broken(c) == FALSE

\* Nothing will answer the call c waits for.
broken(c) == pc[c] \in Calls /\ RequestsOf(c) \cup ResponsesTo(c) = {}

\* httpx raises while c waits: the connection broke with the service, or a
\* timeout, after which the request may be served all the same, or be lost.
CallFails(c) ==
  /\ pc[c] \in Calls
  /\ IF broken(c)
     THEN UNCHANGED losses
     ELSE losses < MaxLosses /\ losses' = losses + 1
  /\ outbox' = outbox \ ResponsesTo(c)
  /\ UNCHANGED <<service, task, rollouts, faults, restarts>>
  /\ \E lost \in SUBSET RequestsOf(c) :
        \/ /\ pc[c] = "step"
           /\ UNCHANGED <<session, obs>>
           /\ pc' = [pc EXCEPT ![c] = "release"]
           /\ inbox' = (inbox \ lost) \cup
                {[op |-> "release", from |-> c, rollout |-> rollouts[c], task |-> task[c],
                  session |-> session[c]]}
        \/ /\ pc[c] # "step"
           /\ inbox' = inbox \ lost
           /\ ended(c)

\* The client's process is killed; nobody releases its session.
Killed(c) ==
  /\ pc[c] # "idle"
  /\ losses < MaxLosses
  /\ losses' = losses + 1
  /\ outbox' = outbox \ ResponsesTo(c)
  /\ ended(c)
  /\ UNCHANGED <<service, inbox, task, rollouts, faults, restarts>>

----------------------------------------------------------------------------

Init ==
  /\ version \in Versions
  /\ loaded = FALSE
  /\ goals = [i \in Slots |-> NoTask]
  /\ pages = [i \in Slots |-> NoPage]
  /\ sessions = {}
  /\ nextId = 1
  /\ inbox = {}
  /\ outbox = {}
  /\ pc = [c \in Clients |-> "idle"]
  /\ task = [c \in Clients |-> NoTask]
  /\ session = [c \in Clients |-> NoId]
  /\ obs = [c \in Clients |-> NoObs]
  /\ rollouts = [c \in Clients |-> 0]
  /\ losses = 0 /\ faults = 0 /\ restarts = 0

Serve(m) ==
  \/ ResetRefused(m) \/ ResetServed(m) \/ ResetFailed(m)
  \/ StepUnknown(m) \/ StepServed(m) \/ StepFailed(m)
  \/ ReleaseServed(m) \/ ReleaseFailed(m)

Receive(r) ==
  \/ Opened(r) \/ NotOpened(r) \/ WrongContract(r)
  \/ Stepped(r) \/ NotStepped(r) \/ Released(r)

Client(c) ==
  \/ \E t \in Tasks : Begin(c, t)
  \/ Step(c) \/ Leave(c) \/ CallFails(c) \/ Killed(c)

Next ==
  \/ \E m \in inbox : Serve(m)
  \/ \E r \in outbox : Receive(r)
  \/ \E c \in Clients : Client(c)
  \/ \E v \in Versions : Restart(v)

Spec == Init /\ [][Next]_vars

\* The service serves a request somebody waits for (a handler holds the lock for
\* a bounded time), a client goes on (a teacher call and every httpx call have
\* timeouts).
FairSpec ==
  /\ Spec
  /\ \A c \in Clients :
       /\ WF_vars(\E m \in RequestsOf(c) : Serve(m))
       /\ WF_vars(\E r \in ResponsesTo(c) : Receive(r))
       /\ WF_vars(Step(c) \/ Leave(c))
       /\ WF_vars(broken(c) /\ CallFails(c))

----------------------------------------------------------------------------
\* Properties

\* Every variable has its type: ids are not reused, goals and pages have one
\* entry per slot.
TypeOK ==
  /\ version \in VersionKinds /\ loaded \in BOOLEAN
  /\ goals \in [Slots -> Tasks \cup {NoTask}] /\ pages \in [Slots -> Page]
  /\ sessions \subseteq Session /\ nextId \in Nat \ {NoId}
  /\ inbox \subseteq Request /\ outbox \subseteq Response
  /\ pc \in [Clients -> Calls \cup {"idle", "think"}] /\ task \in [Clients -> Tasks \cup {NoTask}]
  /\ session \in [Clients -> Nat] /\ obs \in [Clients -> Observation]
  /\ rollouts \in [Clients -> Nat]
  /\ losses \in Nat /\ faults \in Nat /\ restarts \in Nat

\* Two sessions never share a slot of the server object, whatever sessions were
\* closed, failed to open or were left behind before (the search for a free slot
\* in reset).
SlotsArePrivate ==
  \A s1, s2 \in sessions : s1.slot = s2.slot \/ s1.id = s2.id => s1 = s2

\* Sessions of the service a running rollout knows, or is about to be told.
Held == {session[c] : c \in Clients} \cup {r.session : r \in outbox}
Orphans == {s \in sessions : s.id \notin Held}

\* Capacity is given back on every other path than a call that failed at the
\* client, a killed client, a release that env.close() made fail, or a service of
\* another version: a reset that fails half-way, a rejected or failed step, a
\* refused RNG contract leave no session behind.
OrphansAreAccounted == Cardinality(Orphans) <= losses

\* With at least as many slots as clients, a rollout is refused for capacity only
\* after a session was left behind: a client's own last session and those that
\* others are just giving back are never in its way.
RefusedOnlyWhenOrphaned ==
  [][\A r \in outbox' \ outbox : r.status = 503 => Orphans # {}]_vars

\* What a rollout observes is an environment of its own, although all sessions
\* share one server object that every request rebinds: no other session, no late
\* request of an abandoned call, no failed or repeated reset or restart gets into it.
Private ==
  INSTANCE PrivateEnvironments WITH
    NoEpisode <- NoObs,
    episode <- [c \in Clients |->
                  IF obs[c] = NoObs THEN NoObs
                  ELSE [asked |-> task[c], goal |-> obs[c].goal, page |-> obs[c].page,
                        turn |-> obs[c].turn]]
EpisodesArePrivate == Private!Spec

\* A rollout that has called reset ends, whatever happens to its calls.
RolloutsEnd == \A c \in Clients : pc[c] # "idle" ~> pc[c] = "idle"

=============================================================================
