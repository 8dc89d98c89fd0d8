------------------------- MODULE ShopEnvServiceProofs -------------------------
(***************************************************************************)
(* Proofs about the environment service, for any number of clients, tasks, *)
(* slots and bounds: slots are private, what the rollouts observe          *)
(* implements PrivateEnvironments, every session left behind is paid for   *)
(* by a loss, and nobody is refused for capacity without one.              *)
(***************************************************************************)
EXTENDS ShopEnvService, FiniteSetTheorems, WellFoundedInduction, TLAPS

\* A non-empty set of natural numbers has a least element.
LEMMA FirstIsLeast ==
  ASSUME NEW S, S \subseteq Nat, S # {}
  PROVE  First(S) \in S /\ \A u \in S : First(S) <= u
<1>1. PICK s \in S : \A u \in S : ~ (<<u, s>> \in OpToRel(<, Nat))
  BY NatLessThanWellFounded, WFMin, Zenon
<1>2. ASSUME NEW u \in S PROVE s <= u
  <2>1. u \in Nat /\ s \in Nat
    OBVIOUS
  <2>2. <<u, s>> \in OpToRel(<, Nat) <=> u < s
    BY <2>1 DEF OpToRel
  <2>3. ~ (u < s)
    BY <1>1, <2>2
  <2> QED
    BY <2>1, <2>3
<1> QED
  BY <1>2, Zenon DEF First

\* Between the answer to its reset and the end of its steps.
Holding == {"think", "step"}

\* Answers that give a client its session.
Opening == {r \in outbox : pc[r.to] = "reset" /\ r.status = 200}

\* Only ids that were given out are around.
IdsKnown ==
  /\ \A s \in sessions : s.id < nextId
  /\ \A m \in inbox : m.session < nextId
  /\ \A r \in outbox : r.session < nextId
  /\ \A c \in Clients : session[c] < nextId

\* An id belongs to one client; requests that carry it are that client's, of the
\* rollout it is for.
OwnIds ==
  /\ \A c, d \in Clients : session[c] = session[d] /\ session[c] # NoId => c = d
  /\ \A m \in inbox, c \in Clients :
       m.session = session[c] /\ session[c] # NoId => m.from = c /\ m.rollout = rollouts[c]
  /\ \A r \in Opening :
       /\ r.session # NoId
       /\ \A c \in Clients : session[c] # r.session
       /\ \A m \in inbox : m.session # r.session
       /\ \A q \in Opening : q.session = r.session => q.to = r.to

\* A request of the current rollout is the call its client waits for, unless the
\* client gave that call up.
RequestsInOrder ==
  \A m \in inbox :
    /\ m.rollout <= rollouts[m.from]
    /\ m.rollout = rollouts[m.from] => pc[m.from] \in {m.op, "idle", "release"}
    /\ Awaited(m) => m.task = task[m.from] /\ m.session = session[m.from]

\* A client is sent one answer, and no request it waits for is left then.
ResponsesInOrder ==
  \A r \in outbox :
    /\ pc[r.to] \in Calls
    /\ \A m \in inbox : ~(m.from = r.to /\ Awaited(m))
    /\ \A q \in outbox : q.to = r.to => q = r

\* What a client knows in each phase.
EpisodesOK ==
  \A c \in Clients :
    /\ pc[c] \in Holding => task[c] \in Tasks /\ obs[c].goal = task[c] /\ obs[c].page = task[c]
    /\ pc[c] \in {"idle", "reset"} => obs[c] = NoObs /\ session[c] = NoId
    /\ pc[c] = "reset" => task[c] \in Tasks

Own(c, n)     == [goal |-> task[c], page |-> task[c], turn |-> n]
OwnPage(c, n) == [goal |-> task[c], turn |-> n]

\* Session s, if it is c's, is for c's task and shows its n-th page.
Shows(s, c, n) == s.task = task[c] /\ pages[s.slot] = OwnPage(c, n)

\* The page of a session is where its client believes it is, or one turn further
\* when the answer is on its way.
PagesBetweenCalls ==
  \A c \in Clients : pc[c] \in Holding /\ ResponsesTo(c) = {} =>
    \A s \in sessions : s.id = session[c] => Shows(s, c, obs[c].turn)

PagesOpening ==
  \A r \in outbox : r.status = 200 /\ pc[r.to] = "reset" =>
    /\ r.obs = Own(r.to, 0)
    /\ \A s \in sessions : s.id = r.session => Shows(s, r.to, 0)

PagesStepping ==
  \A r \in outbox : r.status = 200 /\ pc[r.to] = "step" =>
    /\ r.obs = Own(r.to, obs[r.to].turn + 1)
    /\ \A s \in sessions : s.id = session[r.to] => Shows(s, r.to, obs[r.to].turn + 1)

PagesOK == PagesBetweenCalls /\ PagesOpening /\ PagesStepping

\* Before the runtime is loaded there is nothing in it.
ColdIsEmpty == ~loaded => sessions = {} /\ \A i \in Slots : pages[i] = NoPage

IInv ==
  /\ TypeOK
  /\ ColdIsEmpty
  /\ IdsKnown
  /\ SlotsArePrivate
  /\ OwnIds
  /\ RequestsInOrder
  /\ ResponsesInOrder
  /\ EpisodesOK
  /\ PagesOK

----------------------------------------------------------------------------
(* The service's slots.                                                    *)

LEMMA FreeSlot ==
  ASSUME TypeOK, ~at_capacity
  PROVE  free_slot \in Slots /\ \A s \in sessions : s.slot # free_slot
<1> DEFINE F == Slots \ used_slots
<1>1. F # {}
  BY DEF at_capacity
<1>2. F \subseteq Nat
  BY ServiceAssumption DEF Slots
<1>3. First(F) \in F
  <2> HIDE DEF F
  <2> QED
    BY <1>1, <1>2, FirstIsLeast
<1>4. free_slot \in Slots /\ free_slot \notin used_slots
  BY <1>3 DEF free_slot
<1> QED
  BY <1>4 DEF used_slots

----------------------------------------------------------------------------
(* Frames for the service: what a handler does to each part of IInv.       *)

\* Awaited requests of one client are the same request.
LEMMA OneAwaited ==
  ASSUME TypeOK, RequestsInOrder, NEW m \in inbox, NEW q \in inbox,
         Awaited(m), Awaited(q), m.from = q.from
  PROVE  m = q
<1>1. m \in Request /\ q \in Request
  BY DEF TypeOK
<1>2. m.op = q.op /\ m.rollout = q.rollout /\ m.task = q.task /\ m.session = q.session
  BY DEF RequestsInOrder, Awaited
<1> QED
  BY <1>1, <1>2 DEF Request

\* What is sent is the answer, and to a client that waits for it.
LEMMA NewAnswer ==
  ASSUME NEW m, NEW st, NEW id, NEW t, NEW o, reply(m, st, id, t, o),
         NEW r \in outbox', r \notin outbox
  PROVE  r.to = m.from /\ r.status = st /\ r.session = id /\ r.obs = o /\ Awaited(m)
  BY DEF reply

\* An awaited request is answered.
LEMMA AnswerSent ==
  ASSUME NEW m \in inbox, NEW st, NEW id, NEW t, NEW o, reply(m, st, id, t, o), Awaited(m)
  PROVE  \E r \in outbox' : r.to = m.from /\ r.status = st
<1> DEFINE a == [to |-> m.from, status |-> st, session |-> id, task |-> t, obs |-> o,
                 version |-> version]
<1>1. a \in outbox'
  BY DEF reply
<1>2. a.to = m.from /\ a.status = st
  OBVIOUS
<1> HIDE DEF a
<1> QED
  BY <1>1, <1>2

LEMMA ServeRequests ==
  ASSUME TypeOK, RequestsInOrder, UNCHANGED clients, inbox' \subseteq inbox
  PROVE  RequestsInOrder'
<1>1. \A q : Awaited(q)' <=> Awaited(q)
  BY DEF Awaited, clients
<1> QED
  BY <1>1 DEF RequestsInOrder, clients

LEMMA ServeResponses ==
  ASSUME TypeOK, RequestsInOrder, ResponsesInOrder, UNCHANGED clients,
         NEW m \in inbox, NEW st, NEW id, NEW t, NEW o, reply(m, st, id, t, o)
  PROVE  ResponsesInOrder'
<1>1. inbox' = inbox \ {m}
  BY DEF reply
<1>2. \A q : Awaited(q)' <=> Awaited(q)
  BY DEF Awaited, clients
<1>3. \A r \in outbox' \ outbox : r.to = m.from /\ Awaited(m)
  BY DEF reply
<1>4. \A r, q \in outbox' \ outbox : r = q
  BY DEF reply
<1>5. m.from \in Clients /\ m.op \in Calls
  BY DEF TypeOK, Request
<1>6. \A r \in outbox : ~ (m.from = r.to /\ Awaited(m))
  BY DEF ResponsesInOrder
<1> SUFFICES ASSUME NEW r \in outbox'
             PROVE  /\ pc[r.to] \in Calls
                    /\ \A q \in inbox' : ~(q.from = r.to /\ Awaited(q))
                    /\ \A q \in outbox' : q.to = r.to => q = r
  BY <1>2 DEF ResponsesInOrder, clients
<1>7. CASE r \in outbox
  <2>1. pc[r.to] \in Calls /\ \A q \in inbox' : ~(q.from = r.to /\ Awaited(q))
    BY <1>1, <1>7 DEF ResponsesInOrder
  <2>2. \A q \in outbox' : q.to = r.to => q = r
    BY <1>3, <1>6, <1>7 DEF ResponsesInOrder
  <2> QED
    BY <2>1, <2>2
<1>8. CASE r \notin outbox
  <2>1. r.to = m.from /\ Awaited(m)
    BY <1>3, <1>8
  <2>2. pc[r.to] \in Calls
    BY <1>5, <2>1 DEF Awaited
  <2>3. \A q \in inbox' : ~(q.from = r.to /\ Awaited(q))
    BY <1>1, <2>1, OneAwaited
  <2>4. \A q \in outbox' : q.to = r.to => q = r
    BY <1>4, <1>6, <1>8, <2>1
  <2> QED
    BY <2>2, <2>3, <2>4
<1> QED
  BY <1>7, <1>8

\* An answer that opens no session.
LEMMA ServeOwnIds ==
  ASSUME TypeOK, OwnIds, UNCHANGED clients,
         NEW m \in inbox, NEW st, NEW id, NEW t, NEW o, reply(m, st, id, t, o),
         st # 200 \/ m.op # "reset"
  PROVE  OwnIds'
<1>1. inbox' \subseteq inbox
  BY DEF reply
<1>2. Opening' \subseteq Opening
  BY DEF reply, Opening, Awaited, clients
<1>3. \A c \in Clients : session'[c] = session[c] /\ rollouts'[c] = rollouts[c]
  BY DEF clients
<1> QED
  BY <1>1, <1>2, <1>3 DEF OwnIds

LEMMA ServeEpisodes ==
  ASSUME EpisodesOK, UNCHANGED clients
  PROVE  EpisodesOK'
  BY DEF EpisodesOK, clients

LEMMA ServeIds ==
  ASSUME TypeOK, IdsKnown, UNCHANGED clients,
         NEW m \in inbox, NEW st, NEW id \in Nat, NEW t, NEW o, reply(m, st, id, t, o),
         nextId' \in Nat, nextId <= nextId', id < nextId',
         \A s \in sessions' \ sessions : s.id \in Nat /\ s.id < nextId'
  PROVE  IdsKnown'
<1>1. \A s \in sessions : s.id \in Nat
  BY DEF TypeOK, Session
<1>2. \A q \in inbox : q.session \in Nat
  BY DEF TypeOK, Request
<1>3. \A r \in outbox : r.session \in Nat
  BY DEF TypeOK, Response
<1>4. \A c \in Clients : session[c] \in Nat /\ session'[c] = session[c]
  BY DEF TypeOK, clients
<1>5. nextId \in Nat
  BY DEF TypeOK
<1>6. inbox' \subseteq inbox /\ \A r \in outbox' \ outbox : r.session = id
  BY DEF reply
<1> QED
  BY <1>1, <1>2, <1>3, <1>4, <1>5, <1>6 DEF IdsKnown

\* An answer that opens no session and is no step's: every session that stays
\* keeps its page, but for the one the request names.
LEMMA ServePages ==
  ASSUME TypeOK, OwnIds, RequestsInOrder, ResponsesInOrder, PagesOK, UNCHANGED clients,
         NEW m \in inbox, NEW st, NEW id, NEW t, NEW o, reply(m, st, id, t, o),
         st # 200 \/ m.op = "release",
         sessions' \subseteq sessions,
         \A s \in sessions' : s.id = m.session \/ pages'[s.slot] = pages[s.slot]
  PROVE  PagesOK'
<1>1. \A r \in outbox' : r \in outbox \/ (r.to = m.from /\ Awaited(m) /\ r.status = st)
  BY DEF reply
<1>2. outbox \subseteq outbox'
  BY DEF reply
<1>3. \A s \in sessions' : s \in sessions /\ s.id # NoId
  BY DEF TypeOK, Session
<1>4. /\ \A c : pc'[c] = pc[c] /\ session'[c] = session[c] /\ obs'[c] = obs[c] /\ task'[c] = task[c]
      /\ \A s, c, n : s.id # m.session /\ s \in sessions' => (Shows(s, c, n)' <=> Shows(s, c, n))
  BY DEF clients, Shows, OwnPage
<1>5. ASSUME NEW c \in Clients, NEW s \in sessions', s.id = session[c], s.id = m.session,
             pc[c] \in {"think", "step"}
      PROVE  m.from = c /\ Awaited(m) /\ m.op = pc[c]
  <2>1. m.from = c /\ m.rollout = rollouts[c]
    <3>1. m.session = session[c] /\ session[c] # NoId
      BY <1>3, <1>5
    <3>2. \A q \in inbox, d \in Clients :
            q.session = session[d] /\ session[d] # NoId => q.from = d /\ q.rollout = rollouts[d]
      BY DEF OwnIds
    <3> QED
      BY <3>1, <3>2
  <2>2. pc[c] \in {m.op, "idle", "release"}
    BY <2>1 DEF RequestsInOrder
  <2> QED
    BY <1>5, <2>1, <2>2 DEF Awaited
<1>6. PagesBetweenCalls'
  <2> SUFFICES ASSUME NEW c \in Clients, pc[c] \in Holding, ResponsesTo(c)' = {},
                      NEW s \in sessions', s.id = session[c]
               PROVE  Shows(s, c, obs[c].turn)'
    BY <1>4 DEF PagesBetweenCalls, Holding
  <2>1. ResponsesTo(c) = {}
    BY <1>2 DEF ResponsesTo
  <2>2. s.id # m.session
    <3> SUFFICES ASSUME s.id = m.session PROVE FALSE
      OBVIOUS
    <3>1. m.from = c /\ Awaited(m)
      BY <1>5 DEF Holding
    <3>2. \E r \in outbox' : r.to = c
      BY <3>1, AnswerSent
    <3> QED
      BY <3>2 DEF ResponsesTo
  <2>3. Shows(s, c, obs[c].turn)
    BY <1>3, <2>1 DEF PagesOK, PagesBetweenCalls
  <2> QED
    BY <1>4, <2>2, <2>3
<1>7. PagesOpening'
  <2> SUFFICES ASSUME NEW r \in outbox', r.status = 200, pc[r.to] = "reset"
               PROVE  /\ r.obs = Own(r.to, 0)'
                      /\ \A s \in sessions' : s.id = r.session => Shows(s, r.to, 0)'
    BY <1>4 DEF PagesOpening
  <2>1. r \in outbox
    BY <1>1 DEF Awaited
  <2>2. r.obs = Own(r.to, 0)' /\ \A s \in sessions : s.id = r.session => Shows(s, r.to, 0)
    BY <1>4, <2>1 DEF PagesOK, PagesOpening, Own
  <2>3. m.session # r.session
    BY <2>1 DEF OwnIds, Opening
  <2> QED
    BY <1>3, <1>4, <2>2, <2>3
<1>8. PagesStepping'
  <2> SUFFICES ASSUME NEW r \in outbox', r.status = 200, pc[r.to] = "step"
               PROVE  /\ r.obs = Own(r.to, obs[r.to].turn + 1)'
                      /\ \A s \in sessions' : s.id = session[r.to] =>
                                               Shows(s, r.to, obs[r.to].turn + 1)'
    BY <1>4 DEF PagesStepping
  <2>1. r \in outbox /\ r.to \in Clients
    BY <1>1 DEF Awaited, TypeOK, Response, Request
  <2>2. r.obs = Own(r.to, obs[r.to].turn + 1)'
    BY <1>4, <2>1 DEF PagesOK, PagesStepping, Own
  <2>3. ASSUME NEW s \in sessions', s.id = session[r.to]
        PROVE  Shows(s, r.to, obs[r.to].turn + 1)'
    <3>1. Shows(s, r.to, obs[r.to].turn + 1)
      BY <1>3, <2>1, <2>3 DEF PagesOK, PagesStepping
    <3>2. s.id # m.session
      BY <1>5, <2>1, <2>3 DEF ResponsesInOrder
    <3> QED
      BY <1>4, <3>1, <3>2
  <2> QED
    BY <2>2, <2>3
<1> QED
  BY <1>6, <1>7, <1>8 DEF PagesOK

\* What a handler leaves of the types to show.
LEMMA ServeTypes ==
  ASSUME TypeOK, UNCHANGED clients, NEW m \in inbox, NEW st \in Statuses, NEW id \in Nat,
         NEW t \in Tasks \cup {NoTask}, NEW o \in Observation, reply(m, st, id, t, o),
         UNCHANGED version, loaded' \in BOOLEAN,
         goals' \in [Slots -> Tasks \cup {NoTask}], pages' \in [Slots -> Page],
         sessions' \subseteq Session, nextId' \in Nat \ {NoId},
         losses' \in Nat, faults' \in Nat, restarts' \in Nat
  PROVE  TypeOK'
<1>1. m.from \in Clients /\ version \in VersionKinds
  BY DEF TypeOK, Request
<1>2. outbox' \subseteq Response
  BY <1>1 DEF reply, Response, TypeOK
<1>3. inbox' \subseteq Request
  BY DEF reply, TypeOK
<1>4. /\ pc' \in [Clients -> Calls \cup {"idle", "think"}]
      /\ task' \in [Clients -> Tasks \cup {NoTask}]
      /\ session' \in [Clients -> Nat] /\ obs' \in [Clients -> Observation]
      /\ rollouts' \in [Clients -> Nat]
  BY DEF TypeOK, clients
<1> QED
  BY <1>1, <1>2, <1>3, <1>4 DEF TypeOK

LEMMA Nothing == NoObs \in Observation /\ NoPage \in Page /\ NoId \in Nat
                 /\ NoTask \in Tasks \cup {NoTask}
  BY DEF NoObs, Observation, NoPage, Page, NoId

LEMMA GoalSlots ==
  ASSUME NEW t \in Tasks \cup {NoTask}, NEW slot \in Slots
  PROVE  /\ _goal_slots(t, slot) \in [Slots -> Tasks \cup {NoTask}]
         /\ _goal_slots(t, slot)[slot] = t
  BY DEF _goal_slots

LEMMA WithoutPage ==
  ASSUME pages \in [Slots -> Page], NEW slot \in Slots
  PROVE  /\ without_page(slot) \in [Slots -> Page]
         /\ without_page(slot)[slot] = NoPage
         /\ \A i \in Slots \ {slot} : without_page(slot)[i] = pages[i]
  BY Nothing DEF without_page

LEMMA EnvStep ==
  ASSUME pages \in [Slots -> Page], NEW slot \in Slots
  PROVE  /\ env_step(pages, slot) \in [Slots -> Page]
         /\ env_step(pages, slot)[slot] = [goal |-> pages[slot].goal, turn |-> pages[slot].turn + 1]
         /\ \A i \in Slots \ {slot} : env_step(pages, slot)[i] = pages[i]
<1>1. pages[slot] \in Page
  OBVIOUS
<1>2. [pages[slot] EXCEPT !.turn = @ + 1] =
        [goal |-> pages[slot].goal, turn |-> pages[slot].turn + 1]
  BY <1>1 DEF Page
<1>3. env_step(pages, slot) = [pages EXCEPT ![slot] = [pages[slot] EXCEPT !.turn = @ + 1]]
  BY DEF env_step
<1>4. [goal |-> pages[slot].goal, turn |-> pages[slot].turn + 1] \in Page
  BY <1>1 DEF Page
<1> DEFINE n == [goal |-> pages[slot].goal, turn |-> pages[slot].turn + 1]
<1>5. n \in Page /\ env_step(pages, slot) = [pages EXCEPT ![slot] = n]
  BY <1>2, <1>3, <1>4
<1>6. n = [goal |-> pages[slot].goal, turn |-> pages[slot].turn + 1]
  OBVIOUS
<1> HIDE DEF n
<1> QED
  BY <1>5, <1>6

\* A step of the service that answers without opening a session or moving a page
\* but the one of the session the request names.
LEMMA Answered ==
  ASSUME IInv, UNCHANGED clients, UNCHANGED version, NEW m \in inbox, NEW st \in Statuses,
         NEW id \in Nat, id < nextId, NEW t \in Tasks \cup {NoTask}, reply(m, st, id, t, NoObs),
         st # 200 \/ m.op = "release",
         loaded' \in BOOLEAN,
         goals' \in [Slots -> Tasks \cup {NoTask}], pages' \in [Slots -> Page],
         sessions' \subseteq sessions, nextId' \in Nat, nextId <= nextId',
         losses' \in Nat, faults' \in Nat, restarts' \in Nat, ColdIsEmpty',
         \A s \in sessions' : s.id = m.session \/ pages'[s.slot] = pages[s.slot]
  PROVE  IInv'
<1> USE DEF IInv
<1>1. nextId \in Nat \ {NoId} /\ nextId' \in Nat \ {NoId} /\ id < nextId'
  BY DEF TypeOK, NoId
<1>2. TypeOK'
  <2>1. sessions' \subseteq Session
    BY DEF TypeOK
  <2> QED
    BY <1>1, <2>1, Nothing, ServeTypes
<1>3. IdsKnown'
  BY <1>1, ServeIds
<1>4. SlotsArePrivate'
  BY DEF SlotsArePrivate
<1>5. OwnIds'
  BY ServeOwnIds
<1>6. RequestsInOrder' /\ ResponsesInOrder'
  BY ServeRequests, ServeResponses DEF reply
<1>7. EpisodesOK' /\ PagesOK'
  BY ServeEpisodes, ServePages
<1> QED
  BY <1>2, <1>3, <1>4, <1>5, <1>6, <1>7

----------------------------------------------------------------------------
(* The handlers preserve IInv.                                             *)

\* What the types say about a request and the sessions.
LEMMA ServiceTypes ==
  ASSUME IInv
  PROVE  /\ \A m \in inbox : m.from \in Clients /\ m.session \in Nat /\ m.task \in Tasks
         /\ \A s \in sessions : s.slot \in Slots /\ s.task \in Tasks /\ s.id \in Nat
         /\ goals \in [Slots -> Tasks \cup {NoTask}] /\ pages \in [Slots -> Page]
         /\ nextId \in Nat \ {NoId} /\ NoId < nextId /\ loaded \in BOOLEAN
         /\ losses \in Nat /\ faults \in Nat /\ restarts \in Nat
<1>1. TypeOK
  BY DEF IInv
<1> QED
  BY <1>1 DEF TypeOK, Request, Session, NoId

LEMMA Refused ==
  ASSUME IInv, UNCHANGED clients, UNCHANGED version, NEW m \in inbox, NEW st \in Statuses,
         refuse(m, st), st # 200,
         loaded' \in BOOLEAN,
         goals' \in [Slots -> Tasks \cup {NoTask}], pages' \in [Slots -> Page],
         sessions' \subseteq sessions, nextId' \in {nextId, nextId + 1},
         losses' \in Nat, faults' \in Nat, restarts' \in Nat, ColdIsEmpty',
         \A s \in sessions' : s.id = m.session \/ pages'[s.slot] = pages[s.slot]
  PROVE  IInv'
<1>1. nextId' \in Nat /\ nextId <= nextId' /\ NoId < nextId
  BY ServiceTypes
<1>2. reply(m, st, NoId, NoTask, NoObs)
  BY DEF refuse
<1> QED
  BY <1>1, <1>2, Nothing, Answered

LEMMA ResetRefusedStep ==
  ASSUME IInv, NEW m, ResetRefused(m)
  PROVE  IInv'
<1>1. m \in inbox /\ UNCHANGED <<service, clients, bounds>>
      /\ (refuse(m, 400) \/ refuse(m, 503))
  BY DEF ResetRefused
<1>2. /\ UNCHANGED clients /\ UNCHANGED version
      /\ loaded' = loaded /\ goals' = goals /\ pages' = pages /\ sessions' = sessions
      /\ nextId' = nextId /\ losses' = losses /\ faults' = faults /\ restarts' = restarts
  BY <1>1 DEF service, bounds
<1>3. ColdIsEmpty'
  BY <1>2 DEF IInv, ColdIsEmpty
<1> QED
  BY <1>1, <1>2, <1>3, ServiceTypes, Refused DEF Statuses

LEMMA ResetFailedStep ==
  ASSUME IInv, NEW m, ResetFailed(m)
  PROVE  IInv'
<1>1. m \in inbox /\ refuse(m, 500) /\ UNCHANGED clients /\ UNCHANGED version
      /\ losses' = losses /\ restarts' = restarts /\ faults' = faults + 1 /\ ~at_capacity
  BY DEF ResetFailed
<1>2. TypeOK
  BY DEF IInv
<1>3. free_slot \in Slots /\ \A s \in sessions : s.slot # free_slot
  BY <1>1, <1>2, FreeSlot
<1>4. m.task \in Tasks \cup {NoTask}
  BY <1>1, ServiceTypes
<1>5. /\ loaded' \in BOOLEAN /\ sessions' = sessions /\ nextId' \in {nextId, nextId + 1}
      /\ goals' \in {goals, _goal_slots(m.task, free_slot)}
      /\ pages' \in {pages, without_page(free_slot)}
  BY ServiceTypes DEF ResetFailed, reset_failed_early, reset_failed_late
<1>6. goals' \in [Slots -> Tasks \cup {NoTask}] /\ pages' \in [Slots -> Page]
  <2>1. goals \in [Slots -> Tasks \cup {NoTask}] /\ pages \in [Slots -> Page]
    BY ServiceTypes
  <2>2. _goal_slots(m.task, free_slot) \in [Slots -> Tasks \cup {NoTask}]
    BY <1>3, <1>4, GoalSlots
  <2>3. without_page(free_slot) \in [Slots -> Page]
    BY <1>3, <2>1, WithoutPage
  <2> QED
    BY <1>5, <2>1, <2>2, <2>3
<1>7. \A s \in sessions' : pages'[s.slot] = pages[s.slot]
  BY <1>3, <1>5, ServiceTypes, WithoutPage
<1>8. losses' \in Nat /\ restarts' \in Nat /\ faults' \in Nat
  BY <1>1, ServiceTypes
<1>9. ColdIsEmpty'
  BY DEF IInv, ColdIsEmpty, ResetFailed, reset_failed_early, reset_failed_late
<1> QED
  BY <1>1, <1>5, <1>6, <1>7, <1>8, <1>9, Refused DEF Statuses

LEMMA StepUnknownStep ==
  ASSUME IInv, NEW m, StepUnknown(m)
  PROVE  IInv'
<1>1. m \in inbox /\ UNCHANGED <<service, clients, bounds>> /\ refuse(m, 409)
  BY DEF StepUnknown
<1>2. /\ UNCHANGED clients /\ UNCHANGED version
      /\ loaded' = loaded /\ goals' = goals /\ pages' = pages /\ sessions' = sessions
      /\ nextId' = nextId /\ losses' = losses /\ faults' = faults /\ restarts' = restarts
  BY <1>1 DEF service, bounds
<1>3. ColdIsEmpty'
  BY <1>2 DEF IInv, ColdIsEmpty
<1> QED
  BY <1>1, <1>2, <1>3, ServiceTypes, Refused DEF Statuses

\* A session other than the one that is served has another slot.
LEMMA OtherSlot ==
  ASSUME IInv, NEW s \in sessions, NEW q \in sessions, q.id # s.id
  PROVE  q.slot \in Slots /\ q.slot # s.slot
  BY ServiceTypes DEF IInv, SlotsArePrivate

LEMMA StepFailedStep ==
  ASSUME IInv, NEW m, StepFailed(m)
  PROVE  IInv'
<1>1. PICK s \in lookup(m.session) :
        /\ m \in inbox /\ goals' = bound_goals(s)
        /\ refuse(m, 422) \/ refuse(m, 500)
        /\ pages' \in {pages, env_step(pages, s.slot)}
        /\ faults' \in {faults, faults + 1}
        /\ UNCHANGED <<version, loaded, sessions, nextId, clients, losses, restarts>>
  BY DEF StepFailed
<1>2. s \in sessions /\ s.id = m.session /\ s.slot \in Slots /\ s.task \in Tasks
  BY <1>1, ServiceTypes DEF lookup
<1>3. goals' \in [Slots -> Tasks \cup {NoTask}]
  BY <1>1, <1>2, GoalSlots DEF bound_goals
<1>4. pages' \in [Slots -> Page]
  BY <1>1, <1>2, ServiceTypes, EnvStep
<1>5. \A q \in sessions' : q.id = m.session \/ pages'[q.slot] = pages[q.slot]
  <2> SUFFICES ASSUME NEW q \in sessions, q.id # m.session PROVE pages'[q.slot] = pages[q.slot]
    BY <1>1
  <2>1. q.slot \in Slots \ {s.slot}
    BY <1>2, OtherSlot
  <2>2. env_step(pages, s.slot)[q.slot] = pages[q.slot]
    BY <1>2, <2>1, ServiceTypes, EnvStep
  <2> QED
    BY <1>1, <2>2
<1>6. faults' \in Nat /\ losses' \in Nat /\ restarts' \in Nat /\ loaded' \in BOOLEAN
  BY <1>1, ServiceTypes
<1>7. ColdIsEmpty'
  BY <1>1, <1>2 DEF IInv, ColdIsEmpty
<1> QED
  BY <1>1, <1>3, <1>4, <1>5, <1>6, <1>7, Refused DEF Statuses

LEMMA ReleaseServedStep ==
  ASSUME IInv, NEW m, ReleaseServed(m)
  PROVE  IInv'
<1>1. /\ m \in inbox /\ m.op = "release" /\ reply(m, 200, m.session, NoTask, NoObs)
      /\ sessions' = sessions \ lookup(m.session)
      /\ pages' = [i \in Slots |-> IF \E s \in lookup(m.session) : s.slot = i
                                   THEN NoPage ELSE pages[i]]
      /\ version' = version /\ loaded' = loaded /\ goals' = goals /\ nextId' = nextId
      /\ UNCHANGED clients /\ losses' = losses /\ faults' = faults /\ restarts' = restarts
  BY DEF ReleaseServed, bounds
<1>2. m.session \in Nat /\ m.session < nextId /\ nextId <= nextId
  BY <1>1, ServiceTypes DEF IInv, IdsKnown
<1>3. pages' \in [Slots -> Page]
  BY <1>1, ServiceTypes, Nothing
<1>4. \A q \in sessions' : pages'[q.slot] = pages[q.slot]
  <2> SUFFICES ASSUME NEW q \in sessions' PROVE pages'[q.slot] = pages[q.slot]
    OBVIOUS
  <2>1. q \in sessions /\ q.id # m.session
    BY <1>1 DEF lookup
  <2>2. ~ \E s \in lookup(m.session) : s.slot = q.slot
    BY <2>1, OtherSlot DEF lookup
  <2> QED
    BY <1>1, <2>1, <2>2, ServiceTypes
<1>5. 200 \in Statuses
  BY DEF Statuses
<1>6. ColdIsEmpty'
  <2> SUFFICES ASSUME ~loaded PROVE sessions' = {} /\ \A i \in Slots : pages'[i] = NoPage
    BY <1>1 DEF ColdIsEmpty
  <2>1. sessions = {} /\ \A i \in Slots : pages[i] = NoPage
    BY DEF IInv, ColdIsEmpty
  <2> QED
    BY <1>1, <2>1
<1> QED
  BY <1>1, <1>2, <1>3, <1>4, <1>5, <1>6, ServiceTypes, Nothing, Answered

LEMMA ReleaseFailedStep ==
  ASSUME IInv, NEW m, ReleaseFailed(m)
  PROVE  IInv'
<1>1. PICK s \in lookup(m.session) :
        /\ m \in inbox /\ refuse(m, 500) /\ pages' = without_page(s.slot)
        /\ losses' = losses + 1
        /\ UNCHANGED <<version, loaded, goals, sessions, nextId, clients, faults, restarts>>
  BY DEF ReleaseFailed
<1>2. s \in sessions /\ s.id = m.session /\ s.slot \in Slots
  BY <1>1, ServiceTypes DEF lookup
<1>3. pages' \in [Slots -> Page]
  BY <1>1, <1>2, ServiceTypes, WithoutPage
<1>4. \A q \in sessions' : q.id = m.session \/ pages'[q.slot] = pages[q.slot]
  BY <1>1, <1>2, OtherSlot, ServiceTypes, WithoutPage
<1>5. faults' \in Nat /\ losses' \in Nat /\ restarts' \in Nat
  BY <1>1, ServiceTypes
<1>6. ColdIsEmpty'
  BY <1>1, <1>2 DEF IInv, ColdIsEmpty
<1> QED
  BY <1>1, <1>3, <1>4, <1>5, <1>6, ServiceTypes, Refused DEF Statuses

\* A freshly reset slot shows the first page of the task it is bound to.
LEMMA FreshPage ==
  ASSUME pages \in [Slots -> Page], NEW slot \in Slots, NEW t \in Tasks,
         ~loaded => pages[slot] = NoPage
  PROVE  LET gs == _goal_slots(t, slot)
             ps == env_reset(gs, IF loaded THEN without_page(slot) ELSE pages, slot)
         IN  /\ ps \in [Slots -> Page]
             /\ ps[slot] = [goal |-> t, turn |-> 0]
             /\ \A i \in Slots \ {slot} : ps[i] = pages[i]
             /\ shown(gs, ps, slot) = [goal |-> t, page |-> t, turn |-> 0]
<1> DEFINE gs   == _goal_slots(t, slot)
           old  == IF loaded THEN without_page(slot) ELSE pages
           page == [goal |-> t, turn |-> 0]
           ps   == env_reset(gs, old, slot)
<1>1. gs[slot] = t
  BY GoalSlots
<1>2. /\ old \in [Slots -> Page] /\ old[slot] = NoPage
      /\ \A i \in Slots \ {slot} : old[i] = pages[i]
  BY WithoutPage
<1>3. page \in Page /\ page.goal = t /\ page.turn = 0
  BY DEF Page
<1>4. ps = [old EXCEPT ![slot] = page]
  BY <1>1, <1>2 DEF env_reset, NoPage
<1>5. /\ ps \in [Slots -> Page] /\ ps[slot] = page
      /\ \A i \in Slots \ {slot} : ps[i] = pages[i]
  <2> HIDE DEF ps, old, page
  <2> QED
    BY <1>2, <1>3, <1>4
<1>6. shown(gs, ps, slot) = [goal |-> t, page |-> t, turn |-> 0]
  <2> HIDE DEF ps, gs, page
  <2> QED
    BY <1>1, <1>3, <1>5 DEF shown
<1> QED
  BY <1>5, <1>6

LEMMA ResetServedStep ==
  ASSUME IInv, NEW m, ResetServed(m)
  PROVE  IInv'
<1> DEFINE s == [id |-> nextId, slot |-> free_slot, task |-> m.task]
           o == [goal |-> m.task, page |-> m.task, turn |-> 0]
<1>1. m \in inbox /\ m.op = "reset" /\ UNCHANGED clients /\ version' = version /\ ~at_capacity
      /\ loaded' = TRUE /\ nextId' = nextId + 1
      /\ losses' = losses /\ faults' = faults /\ restarts' = restarts
  BY DEF ResetServed, bounds
<1>2. TypeOK /\ m.task \in Tasks /\ m.from \in Clients /\ nextId \in Nat \ {NoId}
  BY <1>1, ServiceTypes DEF IInv
<1>3. free_slot \in Slots /\ \A q \in sessions : q.slot # free_slot
  BY <1>1, <1>2, FreeSlot
<1>4. s.id = nextId /\ s.slot = free_slot /\ s.task = m.task
  OBVIOUS
<1>5. ~loaded => pages[free_slot] = NoPage
  BY <1>3 DEF IInv, ColdIsEmpty
<1>6. pages \in [Slots -> Page]
  BY ServiceTypes
<1>7. /\ sessions' = sessions \cup {s}
      /\ goals' = _goal_slots(m.task, free_slot)
      /\ pages' \in [Slots -> Page]
      /\ pages'[free_slot] = [goal |-> m.task, turn |-> 0]
      /\ \A i \in Slots \ {free_slot} : pages'[i] = pages[i]
      /\ reply(m, 200, nextId, m.task, o)
  BY <1>2, <1>3, <1>5, <1>6, FreshPage DEF ResetServed, fresh_id, bound_goals
<1>8. goals' \in [Slots -> Tasks \cup {NoTask}]
  BY <1>2, <1>3, <1>7, GoalSlots
<1>9. s \in Session /\ o \in Observation
  BY <1>2, <1>3 DEF Session, Observation
<1> HIDE DEF s, o
<1>10. TypeOK'
  <2>1. sessions' \subseteq Session
    BY <1>2, <1>7, <1>9 DEF TypeOK
  <2>2. 200 \in Statuses /\ nextId \in Nat /\ m.task \in Tasks \cup {NoTask}
    BY <1>2 DEF Statuses
  <2>3. nextId' \in Nat \ {NoId} /\ loaded' \in BOOLEAN
    BY <1>1, <1>2 DEF NoId
  <2> QED
    BY <1>1, <1>2, <1>7, <1>8, <1>9, <2>1, <2>2, <2>3, ServiceTypes, ServeTypes
<1>11. ColdIsEmpty'
  BY <1>1 DEF ColdIsEmpty
<1>12. IdsKnown'
  <2>1. \A q \in sessions' \ sessions : q.id \in Nat /\ q.id < nextId'
    BY <1>1, <1>2, <1>4, <1>7
  <2> QED
    BY <1>1, <1>2, <1>7, <2>1, ServeIds DEF IInv
\* Nothing carried the new id before.
<1>13. /\ \A q \in sessions : q.id # nextId
       /\ \A q \in inbox : q.session # nextId
       /\ \A r \in outbox : r.session # nextId
       /\ \A c \in Clients : session[c] # nextId
  BY <1>2 DEF IInv, IdsKnown
<1>14. SlotsArePrivate'
  BY <1>3, <1>4, <1>7, <1>13 DEF IInv, SlotsArePrivate
<1>15. \A r \in outbox' : \/ r \in outbox
                          \/ /\ r.to = m.from /\ r.status = 200 /\ r.session = nextId
                             /\ r.obs = o /\ Awaited(m)
  BY <1>7, NewAnswer
<1>16. /\ \A c : pc'[c] = pc[c] /\ session'[c] = session[c] /\ obs'[c] = obs[c]
                 /\ task'[c] = task[c] /\ rollouts'[c] = rollouts[c]
       /\ inbox' \subseteq inbox
  BY <1>1, <1>7 DEF clients, reply
<1>17. OwnIds'
  <2>1. \A r \in Opening' : r \in Opening \/ (r.to = m.from /\ r.session = nextId)
    BY <1>15, <1>16 DEF Opening
  <2>2. OwnIds
    BY DEF IInv
  <2>3. \A r \in Opening : r.session # nextId
    BY <1>13 DEF Opening
  <2>4. ASSUME NEW r \in Opening'
        PROVE  /\ r.session # NoId
               /\ \A c \in Clients : session[c] # r.session
               /\ \A q \in inbox : q.session # r.session
               /\ \A q \in Opening' : q.session = r.session => q.to = r.to
    <3>1. CASE r \in Opening
      BY <2>1, <2>2, <2>3, <3>1 DEF OwnIds
    <3>2. CASE r.to = m.from /\ r.session = nextId
      BY <1>2, <1>13, <2>1, <2>3, <3>2
    <3> QED
      BY <2>1, <3>1, <3>2
  <2> QED
    BY <1>16, <2>2, <2>4 DEF OwnIds
<1>18. RequestsInOrder' /\ ResponsesInOrder' /\ EpisodesOK'
  BY <1>1, <1>2, <1>7, <1>16, ServeRequests, ServeResponses, ServeEpisodes DEF IInv
<1>19. /\ \A q \in sessions : \A c, n : Shows(q, c, n)' <=> Shows(q, c, n)
       /\ \A q \in sessions' : q.id # nextId => q \in sessions
       /\ \A q \in sessions' : q.id = nextId => q.slot = free_slot /\ q.task = m.task
  BY <1>3, <1>4, <1>7, <1>13, <1>16, ServiceTypes DEF Shows, OwnPage
<1>20. PagesBetweenCalls'
  <2>1. \A c : ResponsesTo(c)' = {} => ResponsesTo(c) = {}
    BY <1>7 DEF ResponsesTo, reply
  <2> QED
    BY <1>13, <1>16, <1>19, <2>1 DEF IInv, PagesOK, PagesBetweenCalls
<1>21. PagesOpening'
  <2> SUFFICES ASSUME NEW r \in outbox', r.status = 200, pc[r.to] = "reset"
               PROVE  /\ r.obs = Own(r.to, 0)'
                      /\ \A q \in sessions' : q.id = r.session => Shows(q, r.to, 0)'
    BY <1>16 DEF PagesOpening
  <2>1. CASE r \in outbox
    <3>1. r.obs = Own(r.to, 0)' /\ \A q \in sessions : q.id = r.session => Shows(q, r.to, 0)
      BY <1>16, <2>1 DEF IInv, PagesOK, PagesOpening, Own
    <3> QED
      BY <1>13, <1>19, <2>1, <3>1
  <2>2. CASE r \notin outbox
    <3>1. r.to = m.from /\ r.session = nextId /\ r.obs = o /\ Awaited(m)
      BY <1>15, <2>2
    <3>2. m.task = task[m.from]
      BY <1>1, <3>1 DEF IInv, RequestsInOrder
    <3>3. ASSUME NEW q \in sessions', q.id = r.session PROVE Shows(q, r.to, 0)'
      <4>1. q.slot = free_slot /\ q.task = m.task
        BY <1>19, <3>1, <3>3
      <4>2. task'[r.to] = m.task
        BY <1>16, <3>1, <3>2
      <4>3. pages'[q.slot] = [goal |-> m.task, turn |-> 0]
        BY <1>7, <4>1
      <4> QED
        BY <4>1, <4>2, <4>3 DEF Shows, OwnPage
    <3>4. r.obs = Own(r.to, 0)'
      BY <1>16, <3>1, <3>2 DEF o, Own
    <3> QED
      BY <3>3, <3>4
  <2> QED
    BY <2>1, <2>2
<1>22. PagesStepping'
  <2> SUFFICES ASSUME NEW r \in outbox', r.status = 200, pc[r.to] = "step"
               PROVE  /\ r.obs = Own(r.to, obs[r.to].turn + 1)'
                      /\ \A q \in sessions' : q.id = session[r.to] =>
                                               Shows(q, r.to, obs[r.to].turn + 1)'
    BY <1>16 DEF PagesStepping
  <2>1. r \in outbox /\ r.to \in Clients
    BY <1>1, <1>2, <1>15 DEF Awaited, TypeOK, Response
  <2>2. /\ r.obs = Own(r.to, obs[r.to].turn + 1)'
        /\ \A q \in sessions : q.id = session[r.to] => Shows(q, r.to, obs[r.to].turn + 1)
    BY <1>16, <2>1 DEF IInv, PagesOK, PagesStepping, Own
  <2>3. ASSUME NEW q \in sessions', q.id = session[r.to]
        PROVE  Shows(q, r.to, obs[r.to].turn + 1)'
    <3>1. q \in sessions
      BY <1>13, <1>19, <2>1, <2>3
    <3>2. Shows(q, r.to, obs[r.to].turn + 1)
      BY <2>2, <2>3, <3>1
    <3>3. pages'[q.slot] = pages[q.slot] /\ task'[r.to] = task[r.to] /\ obs'[r.to] = obs[r.to]
      BY <1>3, <1>7, <1>16, <3>1, ServiceTypes
    <3> QED
      BY <3>2, <3>3 DEF Shows, OwnPage
  <2> QED
    BY <2>2, <2>3
<1> QED
  BY <1>10, <1>11, <1>12, <1>14, <1>17, <1>18, <1>20, <1>21, <1>22 DEF IInv, PagesOK

LEMMA StepServedStep ==
  ASSUME IInv, NEW m, StepServed(m)
  PROVE  IInv'
<1>1. PICK s \in lookup(m.session) :
        /\ m \in inbox /\ m.op = "step"
        /\ goals' = bound_goals(s) /\ pages' = env_step(pages, s.slot)
        /\ reply(m, 200, s.id, s.task, shown(goals', pages', s.slot))
        /\ UNCHANGED <<version, loaded, sessions, nextId, clients, bounds>>
  BY DEF StepServed
<1>2. /\ s \in sessions /\ s.id = m.session /\ s.slot \in Slots /\ s.task \in Tasks
      /\ s.id \in Nat /\ TypeOK /\ pages \in [Slots -> Page]
  BY <1>1, ServiceTypes DEF IInv, lookup
<1> DEFINE o == [goal |-> s.task, page |-> pages[s.slot].goal, turn |-> pages[s.slot].turn + 1]
           p == [goal |-> pages[s.slot].goal, turn |-> pages[s.slot].turn + 1]
<1>3. /\ goals' \in [Slots -> Tasks \cup {NoTask}] /\ goals'[s.slot] = s.task
      /\ pages' \in [Slots -> Page] /\ pages'[s.slot] = p
  <2>1. s.task \in Tasks \cup {NoTask}
    BY <1>2
  <2> QED
    BY <1>1, <1>2, <2>1, GoalSlots, EnvStep DEF bound_goals
<1>4. \A q \in sessions : q.id # s.id => pages'[q.slot] = pages[q.slot]
  <2> SUFFICES ASSUME NEW q \in sessions, q.id # s.id PROVE pages'[q.slot] = pages[q.slot]
    OBVIOUS
  <2>1. q.slot \in Slots \ {s.slot}
    BY <1>2, OtherSlot
  <2> QED
    BY <1>1, <1>2, <2>1, EnvStep
<1>5. pages[s.slot].goal \in Tasks \cup {NoTask} /\ pages[s.slot].turn \in Nat
  BY <1>2 DEF Page
<1>6. o \in Observation
  BY <1>2, <1>5 DEF Observation
<1>7. shown(goals', pages', s.slot) = o
  BY <1>3 DEF shown
<1>8. reply(m, 200, s.id, s.task, o)
  BY <1>1, <1>7
<1>9. /\ UNCHANGED clients /\ version' = version /\ loaded' = loaded /\ sessions' = sessions
      /\ nextId' = nextId /\ losses' = losses /\ faults' = faults /\ restarts' = restarts
  BY <1>1 DEF bounds
<1> HIDE DEF o, p
<1>10. TypeOK'
  <2>1. s.task \in Tasks \cup {NoTask} /\ 200 \in Statuses /\ sessions' \subseteq Session
    BY <1>2, <1>9 DEF Statuses, TypeOK
  <2>2. nextId' \in Nat \ {NoId} /\ loaded' \in BOOLEAN
    BY <1>9, ServiceTypes
  <2> QED
    BY <1>1, <1>2, <1>3, <1>6, <1>8, <1>9, <2>1, <2>2, ServiceTypes, ServeTypes
<1>11. ColdIsEmpty' /\ SlotsArePrivate'
  BY <1>2, <1>9 DEF IInv, ColdIsEmpty, SlotsArePrivate
<1>12. IdsKnown'
  <2>1. s.id < nextId /\ nextId \in Nat /\ nextId <= nextId'
    BY <1>2, <1>9, ServiceTypes DEF IInv, IdsKnown
  <2> QED
    BY <1>1, <1>2, <1>8, <1>9, <2>1, ServeIds DEF IInv
<1>13. inbox' \subseteq inbox
  BY <1>8 DEF reply
<1>14. OwnIds' /\ RequestsInOrder' /\ ResponsesInOrder' /\ EpisodesOK'
  BY <1>1, <1>2, <1>8, <1>9, <1>13, ServeOwnIds, ServeRequests, ServeResponses, ServeEpisodes
  DEF IInv
<1>15. /\ \A c : pc'[c] = pc[c] /\ session'[c] = session[c] /\ obs'[c] = obs[c]
                 /\ task'[c] = task[c] /\ rollouts'[c] = rollouts[c]
       /\ \A q \in sessions : \A c, n : q.id # s.id => (Shows(q, c, n)' <=> Shows(q, c, n))
  BY <1>4, <1>9 DEF clients, Shows, OwnPage
<1>16. \A r \in outbox' : \/ r \in outbox
                          \/ r.to = m.from /\ r.status = 200 /\ r.obs = o /\ Awaited(m)
  BY <1>8, NewAnswer
<1>17. ASSUME NEW c \in Clients, session[c] = s.id, pc[c] \in Holding
       PROVE  m.from = c /\ Awaited(m)
  <2>1. s.id # NoId
    BY <1>2 DEF TypeOK, Session
  <2>2. m.from = c /\ m.rollout = rollouts[c]
    BY <1>1, <1>2, <1>17, <2>1 DEF IInv, OwnIds
  <2>3. pc[c] \in {m.op, "idle", "release"}
    BY <1>1, <2>2 DEF IInv, RequestsInOrder
  <2> QED
    BY <1>17, <2>2, <2>3 DEF Awaited, Holding
<1>18. PagesBetweenCalls'
  <2> SUFFICES ASSUME NEW c \in Clients, pc[c] \in Holding, ResponsesTo(c)' = {},
                      NEW q \in sessions, q.id = session[c]
               PROVE  Shows(q, c, obs[c].turn)'
    BY <1>9, <1>15 DEF PagesBetweenCalls
  <2>1. ResponsesTo(c) = {}
    BY <1>8 DEF ResponsesTo, reply
  <2>2. q.id # s.id
    <3> SUFFICES ASSUME q.id = s.id PROVE FALSE
      OBVIOUS
    <3>1. m.from = c /\ Awaited(m)
      BY <1>17
    <3>2. \E r \in outbox' : r.to = m.from /\ r.status = 200
      BY <1>1, <1>8, <3>1, AnswerSent
    <3> QED
      BY <3>1, <3>2 DEF ResponsesTo
  <2>3. Shows(q, c, obs[c].turn)
    BY <2>1 DEF IInv, PagesOK, PagesBetweenCalls
  <2>4. obs'[c] = obs[c]
    BY <1>15
  <2> QED
    BY <1>15, <2>2, <2>3, <2>4
<1>19. PagesOpening'
  <2> SUFFICES ASSUME NEW r \in outbox', r.status = 200, pc[r.to] = "reset"
               PROVE  /\ r.obs = Own(r.to, 0)'
                      /\ \A q \in sessions : q.id = r.session => Shows(q, r.to, 0)'
    BY <1>9, <1>15 DEF PagesOpening
  <2>1. r \in outbox
    BY <1>1, <1>16 DEF Awaited
  <2>2. r.obs = Own(r.to, 0)' /\ \A q \in sessions : q.id = r.session => Shows(q, r.to, 0)
    BY <1>15, <2>1 DEF IInv, PagesOK, PagesOpening, Own
  <2>3. r.session # s.id
    BY <1>1, <1>2, <2>1 DEF IInv, OwnIds, Opening
  <2> QED
    BY <1>15, <2>2, <2>3
<1>20. PagesStepping'
  <2> SUFFICES ASSUME NEW r \in outbox', r.status = 200, pc[r.to] = "step"
               PROVE  /\ r.obs = Own(r.to, obs[r.to].turn + 1)'
                      /\ \A q \in sessions : q.id = session[r.to] =>
                                              Shows(q, r.to, obs[r.to].turn + 1)'
    BY <1>9, <1>15 DEF PagesStepping
  <2>1. CASE r \in outbox
    <3>1. r.to \in Clients
      BY <1>2, <2>1 DEF TypeOK, Response
    <3>2. session[r.to] # s.id
      BY <1>1, <1>17, <2>1, <3>1 DEF IInv, ResponsesInOrder, Holding
    <3>3. /\ r.obs = Own(r.to, obs[r.to].turn + 1)
          /\ \A q \in sessions : q.id = session[r.to] => Shows(q, r.to, obs[r.to].turn + 1)
      BY <2>1 DEF IInv, PagesOK, PagesStepping
    <3>4. obs'[r.to] = obs[r.to] /\ task'[r.to] = task[r.to]
      BY <1>15
    <3> QED
      BY <1>15, <3>2, <3>3, <3>4 DEF Own
  <2>2. CASE r \notin outbox
    <3> DEFINE c == m.from
    <3>1. r.to = c /\ r.obs = o /\ Awaited(m) /\ c \in Clients
      BY <1>1, <1>16, <2>2, ServiceTypes
    <3>2. m.session = session[c]
      BY <1>1, <3>1 DEF IInv, RequestsInOrder
    <3>3. ResponsesTo(c) = {}
      BY <1>1, <3>1 DEF IInv, ResponsesInOrder, ResponsesTo
    <3>4. pc[c] \in Holding
      BY <1>1, <3>1 DEF Awaited, Holding
    <3>5. Shows(s, c, obs[c].turn)
      BY <1>2, <3>1, <3>2, <3>3, <3>4 DEF IInv, PagesOK, PagesBetweenCalls
    <3>6. s.task = task[c] /\ pages[s.slot].goal = task[c] /\ pages[s.slot].turn = obs[c].turn
      BY <3>5 DEF Shows, OwnPage
    <3>7. o = Own(c, obs[c].turn + 1) /\ p = OwnPage(c, obs[c].turn + 1)
      BY <3>6 DEF o, p, Own, OwnPage
    <3>8. task'[c] = task[c] /\ obs'[c] = obs[c] /\ session'[c] = session[c]
      BY <1>15
    <3>9. ASSUME NEW q \in sessions, q.id = session[r.to]
          PROVE  Shows(q, r.to, obs[r.to].turn + 1)'
      <4>1. q = s
        BY <1>2, <3>1, <3>2, <3>9 DEF IInv, SlotsArePrivate
      <4> QED
        BY <1>3, <3>1, <3>6, <3>7, <3>8, <4>1 DEF Shows, OwnPage
    <3> QED
      BY <3>1, <3>7, <3>8, <3>9 DEF Own
  <2> QED
    BY <2>1, <2>2
<1> QED
  BY <1>10, <1>11, <1>12, <1>14, <1>18, <1>19, <1>20 DEF IInv, PagesOK

LEMMA RestartStep ==
  ASSUME IInv, NEW v \in Versions, Restart(v)
  PROVE  IInv'
<1>1. /\ version' = v /\ loaded' = FALSE
      /\ goals' = [i \in Slots |-> NoTask] /\ pages' = [i \in Slots |-> NoPage]
      /\ sessions' = {} /\ inbox' = {} /\ outbox' = {} /\ nextId' = nextId
      /\ UNCHANGED clients /\ losses' = losses /\ faults' = faults /\ restarts' = restarts + 1
  BY DEF Restart
<1>2. TypeOK'
  <2>1. /\ goals' \in [Slots -> Tasks \cup {NoTask}] /\ pages' \in [Slots -> Page]
        /\ version' \in VersionKinds /\ loaded' \in BOOLEAN
    BY <1>1, ServiceAssumption, Nothing
  <2>2. sessions' \subseteq Session /\ inbox' \subseteq Request /\ outbox' \subseteq Response
    BY <1>1
  <2>3. nextId' \in Nat \ {NoId} /\ losses' \in Nat /\ faults' \in Nat /\ restarts' \in Nat
    BY <1>1, ServiceTypes
  <2>4. /\ pc' \in [Clients -> Calls \cup {"idle", "think"}]
        /\ task' \in [Clients -> Tasks \cup {NoTask}]
        /\ session' \in [Clients -> Nat] /\ obs' \in [Clients -> Observation]
        /\ rollouts' \in [Clients -> Nat]
    BY <1>1 DEF IInv, TypeOK, clients
  <2> QED
    BY <2>1, <2>2, <2>3, <2>4 DEF TypeOK
<1>3. ColdIsEmpty' /\ SlotsArePrivate' /\ RequestsInOrder' /\ ResponsesInOrder' /\ EpisodesOK'
  BY <1>1, ServeEpisodes DEF IInv, ColdIsEmpty, SlotsArePrivate, RequestsInOrder, ResponsesInOrder
<1>4. IdsKnown' /\ OwnIds'
  BY <1>1 DEF IInv, IdsKnown, OwnIds, Opening, clients
<1>5. PagesOK'
  BY <1>1 DEF PagesOK, PagesBetweenCalls, PagesOpening, PagesStepping
<1> QED
  BY <1>2, <1>3, <1>4, <1>5 DEF IInv

----------------------------------------------------------------------------
(* The clients' actions preserve IInv.                                     *)

\* The request of the call c enters.
Sent(c) == [op |-> pc'[c], from |-> c, rollout |-> rollouts'[c], task |-> task'[c],
            session |-> session'[c]]

\* Where a client may get its session id from.
Learns(c) ==
  \/ session'[c] = NoId
  \/ session'[c] = session[c] /\ rollouts'[c] = rollouts[c]
  \/ \E r \in Opening : r.to = c /\ r.session = session'[c]

\* Requests of c that are still on their way do not get in the way of its next call.
Overtakes(c) ==
  \A m \in inbox : m.from = c /\ m.rollout = rollouts'[c] =>
    pc'[c] = "idle" \/ (pc'[c] = "release" /\ m.op = "step")

EpisodeOf(c) ==
  /\ pc[c] \in Holding => task[c] \in Tasks /\ obs[c].goal = task[c] /\ obs[c].page = task[c]
  /\ pc[c] \in {"idle", "reset"} => obs[c] = NoObs /\ session[c] = NoId
  /\ pc[c] = "reset" => task[c] \in Tasks

\* Of the clients only c moves.
OnlyMoves(c) ==
  \A d \in Clients \ {c} :
    /\ pc'[d] = pc[d] /\ task'[d] = task[d] /\ session'[d] = session[d]
    /\ obs'[d] = obs[d] /\ rollouts'[d] = rollouts[d]

ClientTypes ==
  /\ pc \in [Clients -> Calls \cup {"idle", "think"}] /\ task \in [Clients -> Tasks \cup {NoTask}]
  /\ session \in [Clients -> Nat] /\ obs \in [Clients -> Observation]
  /\ rollouts \in [Clients -> Nat]
  /\ losses \in Nat /\ faults \in Nat /\ restarts \in Nat

\* A step of client c: it takes what was sent to it, and may send a request.
LEMMA Moved ==
  ASSUME IInv, NEW c \in Clients, UNCHANGED service, OnlyMoves(c), ClientTypes',
         outbox' = outbox \ ResponsesTo(c),
         \/ inbox' \subseteq inbox
         \/ inbox' \subseteq inbox \cup {Sent(c)} /\ pc'[c] \in Calls /\ task'[c] \in Tasks,
         rollouts[c] <= rollouts'[c], Learns(c), Overtakes(c), EpisodeOf(c)',
         pc'[c] \in Holding =>
           \A s \in sessions : s.id = session'[c] => Shows(s, c, obs[c].turn)'
  PROVE  IInv'
<1> DEFINE new == Sent(c)
<1>1. /\ new.op = pc'[c] /\ new.from = c /\ new.rollout = rollouts'[c]
      /\ new.task = task'[c] /\ new.session = session'[c]
  BY DEF Sent
<1>2. pc'[c] \in Calls /\ task'[c] \in Tasks => new \in Request
  BY DEF Sent, Request, ClientTypes
<1>3. \A m \in inbox' : m \in inbox \/ (m = new /\ pc'[c] \in Calls /\ task'[c] \in Tasks)
  OBVIOUS
<1> HIDE DEF new
<1>4. /\ version' = version /\ loaded' = loaded /\ goals' = goals /\ pages' = pages
      /\ sessions' = sessions /\ nextId' = nextId
  BY DEF service
<1>5. TypeOK /\ IdsKnown /\ OwnIds /\ RequestsInOrder /\ ResponsesInOrder
      /\ EpisodesOK /\ PagesOK
  BY DEF IInv
<1>6. \A r \in outbox' : r \in outbox /\ r.to # c /\ r.to \in Clients
  BY <1>5 DEF ResponsesTo, TypeOK, Response
<1>7. TypeOK'
  <2>1. inbox' \subseteq Request
    BY <1>2, <1>3, <1>5 DEF TypeOK
  <2>2. outbox' \subseteq Response
    BY <1>5 DEF TypeOK
  <2>3. /\ version' \in VersionKinds /\ loaded' \in BOOLEAN
        /\ goals' \in [Slots -> Tasks \cup {NoTask}] /\ pages' \in [Slots -> Page]
        /\ sessions' \subseteq Session /\ nextId' \in Nat \ {NoId}
    BY <1>4, <1>5 DEF TypeOK
  <2> QED
    BY <2>1, <2>2, <2>3 DEF TypeOK, ClientTypes
<1>8. ColdIsEmpty' /\ SlotsArePrivate'
  BY <1>4 DEF IInv, ColdIsEmpty, SlotsArePrivate
<1>9. session'[c] < nextId
  BY <1>5, ServiceTypes DEF Learns, IdsKnown, Opening
<1>10. IdsKnown'
  BY <1>1, <1>3, <1>4, <1>5, <1>6, <1>9 DEF IdsKnown, OnlyMoves
\* Where c's id comes from decides who else can have it.
<1>11. \A d \in Clients : d # c /\ session'[c] = session[d] => session'[c] = NoId
  BY <1>5 DEF Learns, OwnIds, Opening
<1>12. \A m \in inbox : m.session = session'[c] /\ session'[c] # NoId =>
                          m.from = c /\ m.rollout = rollouts'[c]
  BY <1>5 DEF Learns, OwnIds
<1>13. \A r \in Opening : r.to # c => session'[c] # r.session
  BY <1>5 DEF Learns, OwnIds
<1>14. Opening' \subseteq Opening
  BY <1>6 DEF Opening, OnlyMoves
<1>15. OwnIds'
  <2>1. \A a, b \in Clients : session'[a] = session'[b] /\ session'[a] # NoId => a = b
    BY <1>5, <1>11 DEF OwnIds, OnlyMoves
  <2>2. \A m \in inbox', d \in Clients :
          m.session = session'[d] /\ session'[d] # NoId =>
            m.from = d /\ m.rollout = rollouts'[d]
    <3> SUFFICES ASSUME NEW m \in inbox', NEW d \in Clients,
                        m.session = session'[d], session'[d] # NoId
                 PROVE  m.from = d /\ m.rollout = rollouts'[d]
      OBVIOUS
    <3>1. CASE m \in inbox /\ d = c
      BY <1>12, <3>1
    <3>2. CASE m \in inbox /\ d # c
      BY <1>5, <3>2 DEF OwnIds, OnlyMoves
    <3>3. CASE m = new
      BY <1>1, <2>1, <3>3
    <3> QED
      BY <1>3, <3>1, <3>2, <3>3
  <2>3. ASSUME NEW r \in Opening'
        PROVE  /\ r.session # NoId
               /\ \A d \in Clients : session'[d] # r.session
               /\ \A m \in inbox' : m.session # r.session
               /\ \A q \in Opening' : q.session = r.session => q.to = r.to
    <3>1. r \in Opening /\ r.to # c
      BY <1>6, <1>14 DEF Opening
    <3>2. session'[c] # r.session
      BY <1>13, <3>1
    <3>3. r.session # NoId /\ \A q \in Opening' : q.session = r.session => q.to = r.to
      BY <1>5, <1>14, <3>1 DEF OwnIds
    <3>4. \A d \in Clients : session'[d] # r.session
      BY <1>5, <3>1, <3>2 DEF OwnIds, OnlyMoves
    <3>5. \A m \in inbox' : m.session # r.session
      BY <1>1, <1>3, <1>5, <3>1, <3>2 DEF OwnIds
    <3> QED
      BY <3>3, <3>4, <3>5
  <2> QED
    BY <2>1, <2>2, <2>3 DEF OwnIds
<1>16. RequestsInOrder'
  <2> SUFFICES ASSUME NEW m \in inbox'
               PROVE  /\ m.rollout <= rollouts'[m.from]
                      /\ m.rollout = rollouts'[m.from] => pc'[m.from] \in {m.op, "idle", "release"}
                      /\ Awaited(m)' => m.task = task'[m.from] /\ m.session = session'[m.from]
    BY DEF RequestsInOrder
  <2>1. CASE m = new
    BY <1>1, <2>1 DEF ClientTypes
  <2>2. CASE m \in inbox
    <3>1. m.from \in Clients /\ m.op \in Calls /\ m.rollout \in Nat
      BY <1>5, <2>2 DEF TypeOK, Request
    <3>2. m.rollout <= rollouts[m.from]
      BY <1>5, <2>2 DEF RequestsInOrder
    <3>3. CASE m.from = c
      <4>1. m.rollout <= rollouts'[c]
        BY <1>5, <3>1, <3>2, <3>3 DEF TypeOK, ClientTypes
      <4>2. m.rollout = rollouts'[c] => pc'[c] = "idle" \/ (pc'[c] = "release" /\ m.op = "step")
        BY <2>2, <3>3 DEF Overtakes
      <4>3. ~Awaited(m)'
        BY <3>1, <3>3, <4>2 DEF Awaited, Calls
      <4> QED
        BY <3>3, <4>1, <4>2, <4>3
    <3>4. CASE m.from # c
      BY <1>5, <2>2, <3>1, <3>4 DEF RequestsInOrder, OnlyMoves, Awaited
    <3> QED
      BY <3>3, <3>4
  <2> QED
    BY <1>3, <2>1, <2>2
<1>17. ResponsesInOrder'
  <2> SUFFICES ASSUME NEW r \in outbox'
               PROVE  /\ pc'[r.to] \in Calls
                      /\ \A m \in inbox' : ~(m.from = r.to /\ Awaited(m)')
                      /\ \A q \in outbox' : q.to = r.to => q = r
    BY DEF ResponsesInOrder
  <2>1. \A m \in inbox' : m.from = r.to => m \in inbox /\ (Awaited(m)' <=> Awaited(m))
    BY <1>1, <1>3, <1>6 DEF Awaited, OnlyMoves
  <2> QED
    BY <1>5, <1>6, <2>1 DEF ResponsesInOrder, OnlyMoves
<1>18. EpisodesOK'
  BY <1>5 DEF EpisodesOK, EpisodeOf, OnlyMoves
<1>19. \A s, d, n : d \in Clients \ {c} => (Shows(s, d, n)' <=> Shows(s, d, n))
  BY <1>4 DEF Shows, OwnPage, OnlyMoves
<1>20. PagesBetweenCalls'
  <2> SUFFICES ASSUME NEW d \in Clients, pc'[d] \in Holding, ResponsesTo(d)' = {},
                      NEW s \in sessions, s.id = session'[d]
               PROVE  Shows(s, d, obs[d].turn)'
    BY <1>4 DEF PagesBetweenCalls
  <2>1. CASE d = c
    BY <2>1
  <2>2. CASE d # c
    <3>1. ResponsesTo(d) = {}
      BY <2>2 DEF ResponsesTo
    <3>2. Shows(s, d, obs[d].turn)
      BY <1>5, <2>2, <3>1 DEF PagesOK, PagesBetweenCalls, OnlyMoves
    <3>3. obs'[d] = obs[d]
      BY <2>2 DEF OnlyMoves
    <3> QED
      BY <1>19, <2>2, <3>2, <3>3
  <2> QED
    BY <2>1, <2>2
<1>21. PagesOpening' /\ PagesStepping'
  <2> SUFFICES ASSUME NEW r \in outbox'
               PROVE  /\ r.status = 200 /\ pc'[r.to] = "reset" =>
                           /\ r.obs = Own(r.to, 0)'
                           /\ \A s \in sessions : s.id = r.session => Shows(s, r.to, 0)'
                      /\ r.status = 200 /\ pc'[r.to] = "step" =>
                           /\ r.obs = Own(r.to, obs[r.to].turn + 1)'
                           /\ \A s \in sessions : s.id = session'[r.to] =>
                                                   Shows(s, r.to, obs[r.to].turn + 1)'
    BY <1>4 DEF PagesOpening, PagesStepping
  <2>1. r \in outbox /\ r.to \in Clients \ {c}
    BY <1>6
  <2>2. /\ pc'[r.to] = pc[r.to] /\ task'[r.to] = task[r.to]
        /\ session'[r.to] = session[r.to] /\ obs'[r.to] = obs[r.to]
    BY <2>1 DEF OnlyMoves
  <2>3. /\ r.status = 200 /\ pc[r.to] = "reset" =>
             r.obs = Own(r.to, 0) /\ \A s \in sessions : s.id = r.session => Shows(s, r.to, 0)
        /\ r.status = 200 /\ pc[r.to] = "step" =>
             /\ r.obs = Own(r.to, obs[r.to].turn + 1)
             /\ \A s \in sessions : s.id = session[r.to] => Shows(s, r.to, obs[r.to].turn + 1)
    BY <1>5, <2>1 DEF PagesOK, PagesOpening, PagesStepping
  <2> QED
    BY <1>19, <2>1, <2>2, <2>3 DEF Own
<1> QED
  BY <1>7, <1>8, <1>10, <1>15, <1>16, <1>17, <1>18, <1>20, <1>21 DEF IInv, PagesOK

LEMMA IsClientTypes ==
  ASSUME IInv
  PROVE  ClientTypes
  BY DEF IInv, TypeOK, ClientTypes

LEMMA NoAnswers ==
  ASSUME IInv, NEW c, pc[c] \notin Calls
  PROVE  outbox = outbox \ ResponsesTo(c)
  BY DEF IInv, ResponsesInOrder, ResponsesTo

\* Requests of its current rollout that a thinking client can have on their way.
LEMMA Resting ==
  ASSUME IInv, NEW c \in Clients, pc[c] = "think"
  PROVE  \A m \in inbox : ~(m.from = c /\ m.rollout = rollouts[c])
  BY DEF IInv, RequestsInOrder, TypeOK, Request, Calls

LEMMA OneAnswer ==
  ASSUME IInv, NEW r \in outbox
  PROVE  /\ r.to \in Clients /\ r.obs \in Observation /\ r.session \in Nat
         /\ pc[r.to] \in Calls
         /\ outbox \ {r} = outbox \ ResponsesTo(r.to)
         /\ pc[r.to] # "release" =>
              \A m \in inbox : ~(m.from = r.to /\ m.rollout = rollouts[r.to])
<1>1. r.to \in Clients /\ r.obs \in Observation /\ r.session \in Nat
  BY DEF IInv, TypeOK, Response
<1>2. pc[r.to] \in Calls
  BY DEF IInv, ResponsesInOrder
<1>3. outbox \ {r} = outbox \ ResponsesTo(r.to)
  BY DEF IInv, ResponsesInOrder, ResponsesTo
<1>4. ASSUME NEW m \in inbox, m.from = r.to, m.rollout = rollouts[r.to], pc[r.to] # "release"
      PROVE  FALSE
  <2>1. pc[r.to] \in {m.op, "idle", "release"}
    BY <1>4 DEF IInv, RequestsInOrder
  <2>2. Awaited(m)
    BY <1>2, <1>4, <2>1 DEF Awaited, Calls
  <2> QED
    BY <1>4, <2>2 DEF IInv, ResponsesInOrder
<1> QED
  BY <1>1, <1>2, <1>3, <1>4

LEMMA Sending ==
  ASSUME NEW c, NEW op, NEW id, send(c, op, id), pc'[c] = op, session'[c] = id
  PROVE  inbox' \subseteq inbox \cup {Sent(c)}
  BY DEF send, Sent

LEMMA BeginStep ==
  ASSUME IInv, NEW c \in Clients, NEW t \in Tasks, Begin(c, t)
  PROVE  IInv'
<1>1. ClientTypes
  BY IsClientTypes
<1>2. /\ pc[c] = "idle" /\ rollouts' = [rollouts EXCEPT ![c] = @ + 1]
      /\ task' = [task EXCEPT ![c] = t] /\ pc' = [pc EXCEPT ![c] = "reset"]
      /\ send(c, "reset", NoId) /\ UNCHANGED service /\ outbox' = outbox
      /\ session' = session /\ obs' = obs
      /\ losses' = losses /\ faults' = faults /\ restarts' = restarts
  BY DEF Begin, bounds
<1>3. obs[c] = NoObs /\ session[c] = NoId
  BY <1>2 DEF IInv, EpisodesOK
<1>4. /\ pc'[c] = "reset" /\ task'[c] = t /\ rollouts'[c] = rollouts[c] + 1
      /\ session'[c] = NoId /\ obs'[c] = NoObs /\ OnlyMoves(c) /\ ClientTypes'
  BY <1>1, <1>2, <1>3 DEF ClientTypes, OnlyMoves, Calls
<1>5. outbox' = outbox \ ResponsesTo(c)
  BY <1>2, NoAnswers DEF Calls
<1>6. inbox' \subseteq inbox \cup {Sent(c)} /\ pc'[c] \in Calls /\ task'[c] \in Tasks
  BY <1>2, <1>4, Sending DEF Calls
<1>7. rollouts[c] <= rollouts'[c]
  BY <1>1, <1>4 DEF ClientTypes
<1>8. Overtakes(c)
  <2> SUFFICES ASSUME NEW m \in inbox, m.from = c PROVE m.rollout # rollouts[c] + 1
    BY <1>4 DEF Overtakes
  <2>1. m.rollout <= rollouts[c] /\ m.rollout \in Nat /\ rollouts[c] \in Nat
    BY <1>1 DEF IInv, RequestsInOrder, TypeOK, Request, ClientTypes
  <2> QED
    BY <2>1
<1>9. Learns(c) /\ EpisodeOf(c)'
  BY <1>4 DEF Learns, EpisodeOf, Holding
<1> QED
  BY <1>2, <1>4, <1>5, <1>6, <1>7, <1>8, <1>9, Moved DEF Holding

LEMMA OpenedStep ==
  ASSUME IInv, NEW r, Opened(r)
  PROVE  IInv'
<1> DEFINE c == r.to
<1>1. ClientTypes
  BY IsClientTypes
<1>2. /\ r \in outbox /\ pc[c] = "reset" /\ r.status = 200
      /\ pc' = [pc EXCEPT ![c] = "think"] /\ session' = [session EXCEPT ![c] = r.session]
      /\ obs' = [obs EXCEPT ![c] = r.obs] /\ outbox' = outbox \ {r}
      /\ UNCHANGED service /\ inbox' = inbox /\ task' = task /\ rollouts' = rollouts
      /\ losses' = losses /\ faults' = faults /\ restarts' = restarts
  BY DEF Opened, received, bounds
<1>3. /\ c \in Clients /\ r.obs \in Observation /\ r.session \in Nat
      /\ outbox' = outbox \ ResponsesTo(c)
      /\ \A m \in inbox : ~(m.from = c /\ m.rollout = rollouts[c])
  BY <1>2, OneAnswer
<1>4. task[c] \in Tasks
  BY <1>2, <1>3 DEF IInv, EpisodesOK
<1>5. r.obs = Own(c, 0) /\ \A s \in sessions : s.id = r.session => Shows(s, c, 0)
  BY <1>2 DEF IInv, PagesOK, PagesOpening
<1> HIDE DEF c
<1>6. /\ pc'[c] = "think" /\ session'[c] = r.session /\ obs'[c] = r.obs /\ task'[c] = task[c]
      /\ rollouts'[c] = rollouts[c] /\ OnlyMoves(c) /\ ClientTypes'
  BY <1>1, <1>2, <1>3 DEF ClientTypes, OnlyMoves
<1>7. obs'[c].goal = task[c] /\ obs'[c].page = task[c] /\ obs'[c].turn = 0
  BY <1>5, <1>6 DEF Own
<1>8. Learns(c)
  BY <1>2, <1>6 DEF Learns, Opening, c
<1>9. EpisodeOf(c)' /\ Overtakes(c) /\ rollouts[c] <= rollouts'[c]
  BY <1>1, <1>3, <1>4, <1>6, <1>7 DEF EpisodeOf, Overtakes, ClientTypes
<1>10. \A s \in sessions : s.id = session'[c] => Shows(s, c, obs[c].turn)'
  <2>1. \A s : Shows(s, c, 0) => Shows(s, c, obs[c].turn)'
    BY <1>2, <1>6, <1>7 DEF Shows, OwnPage, service
  <2> QED
    BY <1>5, <1>6, <2>1
<1> QED
  BY <1>2, <1>3, <1>6, <1>8, <1>9, <1>10, Moved

\* A client that has ended its rollout.
LEMMA Ended ==
  ASSUME IInv, NEW c \in Clients, ended(c), UNCHANGED <<service, task, rollouts>>,
         outbox' = outbox \ ResponsesTo(c), inbox' \subseteq inbox,
         losses' \in Nat, faults' \in Nat, restarts' \in Nat
  PROVE  IInv'
<1>1. ClientTypes
  BY IsClientTypes
<1>2. /\ pc'[c] = "idle" /\ session'[c] = NoId /\ obs'[c] = NoObs
      /\ rollouts'[c] = rollouts[c] /\ OnlyMoves(c) /\ ClientTypes'
  BY <1>1, Nothing DEF ended, ClientTypes, OnlyMoves
<1>3. EpisodeOf(c)' /\ Overtakes(c) /\ Learns(c) /\ rollouts[c] <= rollouts'[c]
  BY <1>1, <1>2 DEF EpisodeOf, Overtakes, Learns, Holding, ClientTypes
<1> QED
  BY <1>2, <1>3, Moved DEF Holding

LEMMA NotOpenedStep ==
  ASSUME IInv, NEW r, NotOpened(r)
  PROVE  IInv'
<1>1. /\ r \in outbox /\ ended(r.to) /\ outbox' = outbox \ {r} /\ inbox' = inbox
      /\ UNCHANGED <<service, task, rollouts>> /\ losses' \in {losses, losses + 1}
      /\ faults' = faults /\ restarts' = restarts
  BY DEF NotOpened, received
<1>2. losses' \in Nat /\ faults' \in Nat /\ restarts' \in Nat
  BY <1>1, ServiceTypes
<1> QED
  BY <1>1, <1>2, OneAnswer, Ended

LEMMA ReleasedStep ==
  ASSUME IInv, NEW r, Released(r)
  PROVE  IInv'
<1>1. /\ r \in outbox /\ ended(r.to) /\ outbox' = outbox \ {r} /\ inbox' = inbox
      /\ UNCHANGED <<service, task, rollouts>> /\ losses' = losses
      /\ faults' = faults /\ restarts' = restarts
  BY DEF Released, received, bounds
<1>2. losses' \in Nat /\ faults' \in Nat /\ restarts' \in Nat
  BY <1>1, ServiceTypes
<1> QED
  BY <1>1, <1>2, OneAnswer, Ended

LEMMA KilledStep ==
  ASSUME IInv, NEW c \in Clients, Killed(c)
  PROVE  IInv'
<1>1. /\ ended(c) /\ outbox' = outbox \ ResponsesTo(c) /\ inbox' = inbox
      /\ UNCHANGED <<service, task, rollouts>> /\ losses' = losses + 1
      /\ faults' = faults /\ restarts' = restarts
  BY DEF Killed
<1>2. losses' \in Nat /\ faults' \in Nat /\ restarts' \in Nat
  BY <1>1, ServiceTypes
<1> QED
  BY <1>1, <1>2, Ended

\* A client that releases its session, having given up what it waited for.
LEMMA Releases ==
  ASSUME IInv, NEW c \in Clients, pc[c] \in Holding \cup {"reset"},
         pc' = [pc EXCEPT ![c] = "release"], OnlyMoves(c), ClientTypes',
         inbox' \subseteq inbox \cup {Sent(c)}, UNCHANGED <<service, task, rollouts>>,
         Learns(c), outbox' = outbox \ ResponsesTo(c),
         \A m \in inbox : m.from = c /\ m.rollout = rollouts[c] => m.op = "step"
  PROVE  IInv'
<1>1. ClientTypes
  BY IsClientTypes
<1>2. pc'[c] = "release"
  BY <1>1 DEF ClientTypes
<1>3. task'[c] \in Tasks
  BY DEF IInv, EpisodesOK
<1>4. EpisodeOf(c)' /\ Overtakes(c) /\ rollouts[c] <= rollouts'[c]
  BY <1>1, <1>2 DEF EpisodeOf, Overtakes, Holding, ClientTypes
<1> QED
  BY <1>2, <1>3, <1>4, Moved DEF Holding, Calls

LEMMA WrongContractStep ==
  ASSUME IInv, NEW r, WrongContract(r)
  PROVE  IInv'
<1> DEFINE c == r.to
<1>1. ClientTypes
  BY IsClientTypes
<1>2. /\ r \in outbox /\ pc[c] = "reset" /\ r.status = 200
      /\ pc' = [pc EXCEPT ![c] = "release"] /\ session' = [session EXCEPT ![c] = r.session]
      /\ send(c, "release", session'[c]) /\ outbox' = outbox \ {r}
      /\ UNCHANGED service /\ task' = task /\ obs' = obs /\ rollouts' = rollouts
      /\ losses' = losses /\ faults' = faults /\ restarts' = restarts
  BY DEF WrongContract, release, received, bounds
<1>3. /\ c \in Clients /\ r.session \in Nat /\ outbox' = outbox \ ResponsesTo(c)
      /\ \A m \in inbox : ~(m.from = c /\ m.rollout = rollouts[c])
  BY <1>2, OneAnswer
<1> HIDE DEF c
<1>4. Learns(c)
  <2>1. session'[c] = r.session
    BY <1>1, <1>2, <1>3 DEF ClientTypes
  <2> QED
    BY <1>2, <2>1 DEF Learns, Opening, c
<1>5. pc'[c] = "release" /\ OnlyMoves(c) /\ ClientTypes'
  BY <1>1, <1>2, <1>3 DEF ClientTypes, OnlyMoves, Calls
<1>6. inbox' \subseteq inbox \cup {Sent(c)}
  BY <1>2, <1>5, Sending
<1>7. pc[c] \in Holding \cup {"reset"} /\ pc' = [pc EXCEPT ![c] = "release"]
      /\ UNCHANGED <<service, task, rollouts>>
  BY <1>2
<1>8. \A m \in inbox : m.from = c /\ m.rollout = rollouts[c] => m.op = "step"
  BY <1>3
<1>9. c \in Clients /\ outbox' = outbox \ ResponsesTo(c)
  BY <1>3
<1> QED
  BY <1>4, <1>5, <1>6, <1>7, <1>8, <1>9, Releases

LEMMA LeaveStep ==
  ASSUME IInv, NEW c \in Clients, Leave(c)
  PROVE  IInv'
<1>1. ClientTypes
  BY IsClientTypes
<1>2. /\ pc[c] = "think" /\ pc' = [pc EXCEPT ![c] = "release"]
      /\ send(c, "release", session'[c]) /\ outbox' = outbox
      /\ UNCHANGED service /\ task' = task /\ session' = session /\ obs' = obs
      /\ rollouts' = rollouts /\ losses' = losses /\ faults' = faults /\ restarts' = restarts
  BY DEF Leave, release, bounds
<1>3. pc'[c] = "release" /\ OnlyMoves(c) /\ ClientTypes' /\ Learns(c)
  BY <1>1, <1>2 DEF ClientTypes, OnlyMoves, Calls, Learns
<1>4. inbox' \subseteq inbox \cup {Sent(c)}
  BY <1>2, <1>3, Sending
<1>5. outbox' = outbox \ ResponsesTo(c)
  BY <1>2, NoAnswers DEF Calls
<1> QED
  BY <1>2, <1>3, <1>4, <1>5, Resting, Releases DEF Holding

LEMMA NotSteppedStep ==
  ASSUME IInv, NEW r, NotStepped(r)
  PROVE  IInv'
<1> DEFINE c == r.to
<1>1. ClientTypes
  BY IsClientTypes
<1>2. /\ r \in outbox /\ pc[c] = "step" /\ pc' = [pc EXCEPT ![c] = "release"]
      /\ send(c, "release", session'[c]) /\ outbox' = outbox \ {r}
      /\ UNCHANGED service /\ task' = task /\ session' = session /\ obs' = obs
      /\ rollouts' = rollouts /\ losses' = losses /\ faults' = faults /\ restarts' = restarts
  BY DEF NotStepped, release, received, bounds
<1>3. /\ c \in Clients /\ outbox' = outbox \ ResponsesTo(c)
      /\ \A m \in inbox : ~(m.from = c /\ m.rollout = rollouts[c])
  BY <1>2, OneAnswer
<1> HIDE DEF c
<1>4. pc'[c] = "release" /\ OnlyMoves(c) /\ ClientTypes' /\ Learns(c)
  BY <1>1, <1>2, <1>3 DEF ClientTypes, OnlyMoves, Calls, Learns
<1>5. inbox' \subseteq inbox \cup {Sent(c)}
  BY <1>2, <1>4, Sending
<1> QED
  BY <1>2, <1>3, <1>4, <1>5, Releases DEF Holding

LEMMA StepStep ==
  ASSUME IInv, NEW c \in Clients, Step(c)
  PROVE  IInv'
<1>1. ClientTypes
  BY IsClientTypes
<1>2. /\ pc[c] = "think" /\ pc' = [pc EXCEPT ![c] = "step"]
      /\ send(c, "step", session[c]) /\ outbox' = outbox
      /\ UNCHANGED service /\ task' = task /\ session' = session /\ obs' = obs
      /\ rollouts' = rollouts /\ losses' = losses /\ faults' = faults /\ restarts' = restarts
  BY DEF Step, bounds
<1>3. pc'[c] = "step" /\ OnlyMoves(c) /\ ClientTypes' /\ Learns(c)
  BY <1>1, <1>2 DEF ClientTypes, OnlyMoves, Calls, Learns
<1>4. inbox' \subseteq inbox \cup {Sent(c)}
  BY <1>2, <1>3, Sending
<1>5. outbox' = outbox \ ResponsesTo(c) /\ ResponsesTo(c) = {}
  BY <1>2, NoAnswers DEF Calls, ResponsesTo
<1>6. task[c] \in Tasks /\ obs[c].goal = task[c] /\ obs[c].page = task[c]
  BY <1>2 DEF IInv, EpisodesOK, Holding
<1>7. EpisodeOf(c)' /\ rollouts[c] <= rollouts'[c] /\ Overtakes(c)
  BY <1>1, <1>2, <1>3, <1>6, Resting DEF EpisodeOf, ClientTypes, Overtakes
<1>8. \A s \in sessions : s.id = session'[c] => Shows(s, c, obs[c].turn)'
  <2>1. \A s \in sessions : s.id = session[c] => Shows(s, c, obs[c].turn)
    BY <1>2, <1>5 DEF IInv, PagesOK, PagesBetweenCalls, Holding
  <2> QED
    BY <1>2, <2>1 DEF Shows, OwnPage, service
<1> QED
  BY <1>2, <1>3, <1>4, <1>5, <1>6, <1>7, <1>8, Moved DEF Calls

LEMMA SteppedStep ==
  ASSUME IInv, NEW r, Stepped(r)
  PROVE  IInv'
<1> DEFINE c == r.to
<1>1. ClientTypes
  BY IsClientTypes
<1>2. /\ r \in outbox /\ pc[c] = "step" /\ r.status = 200
      /\ pc' = [pc EXCEPT ![c] = "think"] /\ obs' = [obs EXCEPT ![c] = r.obs]
      /\ outbox' = outbox \ {r} /\ inbox' = inbox
      /\ UNCHANGED service /\ task' = task /\ session' = session /\ rollouts' = rollouts
      /\ losses' = losses /\ faults' = faults /\ restarts' = restarts
  BY DEF Stepped, received, bounds
<1>3. /\ c \in Clients /\ r.obs \in Observation /\ outbox' = outbox \ ResponsesTo(c)
      /\ \A m \in inbox : ~(m.from = c /\ m.rollout = rollouts[c])
  BY <1>2, OneAnswer
<1>4. task[c] \in Tasks
  BY <1>2, <1>3 DEF IInv, EpisodesOK, Holding
<1>5. /\ r.obs = Own(c, obs[c].turn + 1)
      /\ \A s \in sessions : s.id = session[c] => Shows(s, c, obs[c].turn + 1)
  BY <1>2 DEF IInv, PagesOK, PagesStepping
<1> HIDE DEF c
<1>6. /\ pc'[c] = "think" /\ obs'[c] = r.obs /\ OnlyMoves(c) /\ ClientTypes' /\ Learns(c)
  BY <1>1, <1>2, <1>3 DEF ClientTypes, OnlyMoves, Learns
<1>7. obs'[c].goal = task[c] /\ obs'[c].page = task[c] /\ obs'[c].turn = obs[c].turn + 1
  BY <1>5, <1>6 DEF Own
<1>8. EpisodeOf(c)' /\ Overtakes(c) /\ rollouts[c] <= rollouts'[c]
  BY <1>1, <1>2, <1>3, <1>4, <1>6, <1>7 DEF EpisodeOf, Overtakes, ClientTypes
<1>9. \A s \in sessions : s.id = session'[c] => Shows(s, c, obs[c].turn)'
  <2>1. \A s : Shows(s, c, obs[c].turn + 1) => Shows(s, c, obs[c].turn)'
    BY <1>2, <1>7 DEF Shows, OwnPage, service
  <2> QED
    BY <1>2, <1>5, <2>1
<1> QED
  BY <1>2, <1>3, <1>6, <1>8, <1>9, Moved

LEMMA CallFailsStep ==
  ASSUME IInv, NEW c \in Clients, CallFails(c)
  PROVE  IInv'
<1>1. ClientTypes
  BY IsClientTypes
<1>2. /\ pc[c] \in Calls /\ outbox' = outbox \ ResponsesTo(c) /\ losses' \in {losses, losses + 1}
      /\ UNCHANGED <<service, task, rollouts>> /\ faults' = faults /\ restarts' = restarts
  BY DEF CallFails
<1>3. losses' \in Nat /\ faults' \in Nat /\ restarts' \in Nat
  BY <1>2, ServiceTypes
<1>4. CASE pc[c] # "step"
  <2>1. ended(c) /\ inbox' \subseteq inbox
    BY <1>4 DEF CallFails
  <2> QED
    BY <1>2, <1>3, <2>1, Ended
<1>5. CASE pc[c] = "step"
  <2>1. /\ session' = session /\ obs' = obs /\ pc' = [pc EXCEPT ![c] = "release"]
        /\ inbox' \subseteq inbox \cup
             {[op |-> "release", from |-> c, rollout |-> rollouts[c], task |-> task[c],
               session |-> session[c]]}
    BY <1>5 DEF CallFails
  <2>2. pc'[c] = "release" /\ OnlyMoves(c) /\ ClientTypes' /\ Learns(c)
    BY <1>1, <1>2, <1>3, <2>1 DEF ClientTypes, OnlyMoves, Calls, Learns
  <2>3. inbox' \subseteq inbox \cup {Sent(c)}
    BY <1>2, <2>1, <2>2 DEF Sent
  <2>4. \A m \in inbox : m.from = c /\ m.rollout = rollouts[c] => m.op = "step"
    BY <1>5 DEF IInv, RequestsInOrder
  <2> QED
    BY <1>2, <1>5, <2>1, <2>2, <2>3, <2>4, Releases DEF Holding
<1> QED
  BY <1>4, <1>5

----------------------------------------------------------------------------
(* IInv is inductive.                                                      *)

LEMMA InitIInv == Init => IInv
<1> SUFFICES ASSUME Init PROVE IInv
  OBVIOUS
<1> USE DEF Init
<1>1. TypeOK
  <2>1. version \in VersionKinds
    BY ServiceAssumption
  <2>2. /\ goals \in [Slots -> Tasks \cup {NoTask}] /\ pages \in [Slots -> Page]
        /\ obs \in [Clients -> Observation]
    BY Nothing
  <2>3. nextId \in Nat \ {NoId} /\ session \in [Clients -> Nat]
    BY DEF NoId
  <2> QED
    BY <2>1, <2>2, <2>3 DEF TypeOK
<1>2. ColdIsEmpty /\ SlotsArePrivate /\ RequestsInOrder /\ ResponsesInOrder
  BY DEF ColdIsEmpty, SlotsArePrivate, RequestsInOrder, ResponsesInOrder
<1>3. IdsKnown /\ OwnIds
  BY DEF IdsKnown, OwnIds, Opening, NoId
<1>4. EpisodesOK /\ PagesOK
  BY DEF EpisodesOK, PagesOK, PagesBetweenCalls, PagesOpening, PagesStepping, Holding
<1> QED
  BY <1>1, <1>2, <1>3, <1>4 DEF IInv

LEMMA StutterStep ==
  ASSUME IInv, UNCHANGED vars
  PROVE  IInv'
<1>1. UNCHANGED service /\ UNCHANGED clients /\ UNCHANGED bounds
      /\ inbox' = inbox /\ outbox' = outbox
  BY DEF vars, service, clients, bounds
<1> USE <1>1 DEF IInv, service, clients, bounds
<1>2. TypeOK' /\ ColdIsEmpty' /\ SlotsArePrivate'
  BY DEF TypeOK, ColdIsEmpty, SlotsArePrivate
<1>3. IdsKnown' /\ OwnIds'
  BY DEF IdsKnown, OwnIds, Opening
<1>4. RequestsInOrder' /\ ResponsesInOrder' /\ EpisodesOK'
  BY DEF RequestsInOrder, ResponsesInOrder, EpisodesOK, Awaited
<1>5. PagesOK'
  BY DEF PagesOK, PagesBetweenCalls, PagesOpening, PagesStepping, ResponsesTo, Shows, Own, OwnPage
<1> QED
  BY <1>2, <1>3, <1>4, <1>5

LEMMA NextIInv == IInv /\ [Next]_vars => IInv'
<1> SUFFICES ASSUME IInv, [Next]_vars PROVE IInv'
  OBVIOUS
<1>1. CASE UNCHANGED vars
  BY <1>1, StutterStep
<1>2. ASSUME NEW m \in inbox, Serve(m) PROVE IInv'
  BY <1>2, ResetRefusedStep, ResetServedStep, ResetFailedStep, StepUnknownStep, StepServedStep,
     StepFailedStep, ReleaseServedStep, ReleaseFailedStep
  DEF Serve
<1>3. ASSUME NEW r \in outbox, Receive(r) PROVE IInv'
  BY <1>3, OpenedStep, NotOpenedStep, WrongContractStep, SteppedStep, NotSteppedStep, ReleasedStep
  DEF Receive
<1>4. ASSUME NEW c \in Clients, Client(c) PROVE IInv'
  BY <1>4, BeginStep, StepStep, LeaveStep, CallFailsStep, KilledStep DEF Client
<1>5. ASSUME NEW v \in Versions, Restart(v) PROVE IInv'
  BY <1>5, RestartStep
<1> QED
  BY <1>1, <1>2, <1>3, <1>4, <1>5 DEF Next

----------------------------------------------------------------------------
(* Theorems.                                                               *)

\* Every reachable state satisfies the inductive invariant.
THEOREM Inductive == Spec => []IInv
  BY InitIInv, NextIInv, PTL DEF Spec

\* Whatever the numbers of clients, slots, losses, faults and restarts are, every
\* variable of the service, of HTTP and of the rollouts keeps its type
\* (environment_service.py's create_app and the collector's use of it).
THEOREM ServiceTypeCorrect == Spec => []TypeOK
<1>1. IInv => TypeOK
  BY DEF IInv
<1> QED
  BY <1>1, Inductive, PTL

\* For any number of slots, no two sessions of the table ever share one: reset()
\* picks the first slot no session has, and only _close_session gives one back.
THEOREM PrivateSlots == Spec => []SlotsArePrivate
<1>1. IInv => SlotsArePrivate
  BY DEF IInv
<1> QED
  BY <1>1, Inductive, PTL

----------------------------------------------------------------------------
(* The refinement.                                                         *)

\* The abstract episode of c, as EpisodesArePrivate maps it.
EpisodeAt(c) ==
  IF obs[c] = NoObs THEN NoObs
  ELSE [asked |-> task[c], goal |-> obs[c].goal, page |-> obs[c].page, turn |-> obs[c].turn]

episodes == [c \in Clients |-> EpisodeAt(c)]

\* An episode shows a task, which NoObs does not.
LEMMA OpenIsOpen ==
  ASSUME NEW c, NEW n, task[c] \in Tasks
  PROVE  Own(c, n) # NoObs
  BY ServiceAssumption DEF Own, NoObs

\* An open episode is not the abstract NoEpisode.
LEMMA OpenEpisode ==
  ASSUME NEW t \in Tasks, NEW p, NEW n
  PROVE  [asked |-> t, goal |-> t, page |-> p, turn |-> n] # NoObs
  BY ServiceAssumption DEF NoObs

LEMMA EpisodeMoves ==
  ASSUME NEW c \in Clients, \A d \in Clients \ {c} : obs'[d] = obs[d] /\ task'[d] = task[d]
  PROVE  episodes' = [episodes EXCEPT ![c] = EpisodeAt(c)']
<1>1. \A d \in Clients \ {c} : EpisodeAt(d)' = EpisodeAt(d)
  BY DEF EpisodeAt
<1> QED
  BY <1>1 DEF episodes

\* Between reset and the end, what c observes is its own.
LEMMA OwnObservation ==
  ASSUME IInv, NEW c \in Clients, pc[c] \in Holding
  PROVE  /\ task[c] \in Tasks /\ obs[c] = Own(c, obs[c].turn)
         /\ EpisodeAt(c) = [asked |-> task[c], goal |-> task[c], page |-> task[c],
                            turn |-> obs[c].turn]
<1>1. task[c] \in Tasks /\ obs[c].goal = task[c] /\ obs[c].page = task[c]
  BY DEF IInv, EpisodesOK
<1>2. obs[c] \in Observation
  BY DEF IInv, TypeOK
<1>3. obs[c] = Own(c, obs[c].turn)
  BY <1>1, <1>2 DEF Observation, Own
<1>4. obs[c] # NoObs
  BY <1>1, <1>3, OpenIsOpen
<1> QED
  BY <1>1, <1>3, <1>4 DEF EpisodeAt

\* The end of an episode, or of a rollout that had none.
LEMMA CloseRefines ==
  ASSUME NEW c \in Clients, obs' = [obs EXCEPT ![c] = NoObs], task' = task,
         obs \in [Clients -> Observation]
  PROVE  \/ episodes' = episodes
         \/ episodes[c] # NoObs /\ episodes' = [episodes EXCEPT ![c] = NoObs]
<1>1. EpisodeAt(c)' = NoObs
  BY DEF EpisodeAt
<1>2. episodes' = [episodes EXCEPT ![c] = NoObs]
  BY <1>1, EpisodeMoves
<1>3. episodes[c] = NoObs => [episodes EXCEPT ![c] = NoObs] = episodes
  BY DEF episodes
<1> QED
  BY <1>2, <1>3

LEMMA OpenRefines ==
  ASSUME IInv, NEW r, Opened(r)
  PROVE  \E c \in Clients, t \in Tasks :
           /\ episodes[c] = NoObs
           /\ episodes' = [episodes EXCEPT ![c] = [asked |-> t, goal |-> t, page |-> t, turn |-> 0]]
<1> DEFINE c == r.to
           t == task[c]
<1>1. /\ r \in outbox /\ pc[c] = "reset" /\ r.status = 200
      /\ obs' = [obs EXCEPT ![c] = r.obs] /\ task' = task
  BY DEF Opened
<1>2. c \in Clients /\ obs \in [Clients -> Observation]
  BY <1>1, OneAnswer DEF IInv, TypeOK
<1>3. t \in Tasks /\ obs[c] = NoObs
  BY <1>1, <1>2 DEF IInv, EpisodesOK
<1>4. r.obs = Own(c, 0)
  BY <1>1 DEF IInv, PagesOK, PagesOpening
<1>5. obs'[c] = Own(c, 0) /\ task'[c] = t /\ Own(c, 0) # NoObs
  BY <1>1, <1>2, <1>3, <1>4, OpenIsOpen
<1> HIDE DEF c, t
<1>6. EpisodeAt(c)' = [asked |-> t, goal |-> t, page |-> t, turn |-> 0]
  <2>1. obs'[c].goal = t /\ obs'[c].page = t /\ obs'[c].turn = 0 /\ obs'[c] # NoObs
    BY <1>5 DEF Own, t
  <2> QED
    BY <1>5, <2>1 DEF EpisodeAt
<1>7. episodes' = [episodes EXCEPT ![c] = EpisodeAt(c)']
  BY <1>1, <1>2, EpisodeMoves
<1>8. episodes[c] = NoObs
  BY <1>2, <1>3 DEF episodes, EpisodeAt
<1> QED
  BY <1>2, <1>3, <1>6, <1>7, <1>8

LEMMA ActRefines ==
  ASSUME IInv, NEW r, Stepped(r)
  PROVE  \E c \in Clients :
           /\ episodes[c] # NoObs
           /\ episodes' = [episodes EXCEPT ![c].turn = @ + 1]
<1> DEFINE c == r.to
           n == obs[c].turn
           e == [asked |-> task[c], goal |-> task[c], page |-> task[c], turn |-> n]
           f == [asked |-> task[c], goal |-> task[c], page |-> task[c], turn |-> n + 1]
<1>1. /\ r \in outbox /\ pc[c] = "step" /\ r.status = 200
      /\ obs' = [obs EXCEPT ![c] = r.obs] /\ task' = task
  BY DEF Stepped
<1>2. c \in Clients /\ obs \in [Clients -> Observation]
  BY <1>1, OneAnswer DEF IInv, TypeOK
<1>3. task[c] \in Tasks /\ EpisodeAt(c) = e
  BY <1>1, <1>2, OwnObservation DEF Holding
<1>4. r.obs = Own(c, n + 1)
  BY <1>1 DEF IInv, PagesOK, PagesStepping
<1>5. obs'[c] = Own(c, n + 1) /\ task'[c] = task[c] /\ Own(c, n + 1) # NoObs
  BY <1>1, <1>2, <1>3, <1>4, OpenIsOpen
<1>6. e # NoObs
  BY <1>3, OpenEpisode
<1>7. [e EXCEPT !.turn = @ + 1] = f
  OBVIOUS
<1> HIDE DEF c, n
<1>8. EpisodeAt(c)' = f
  <2>1. obs'[c].goal = task[c] /\ obs'[c].page = task[c] /\ obs'[c].turn = n + 1
        /\ obs'[c] # NoObs
    BY <1>5 DEF Own
  <2> QED
    BY <1>5, <2>1 DEF EpisodeAt
<1> HIDE DEF e, f
<1>9. episodes' = [episodes EXCEPT ![c] = f]
  BY <1>1, <1>2, <1>8, EpisodeMoves
<1>10. episodes[c] = e
  BY <1>2, <1>3 DEF episodes
<1> QED
  BY <1>2, <1>6, <1>7, <1>9, <1>10

\* Steps after which everybody observes what it did before.
LEMMA SameEpisodes ==
  ASSUME \A c \in Clients : obs'[c] = obs[c] /\ (task'[c] = task[c] \/ obs[c] = NoObs)
  PROVE  episodes' = episodes
<1>1. \A c \in Clients : EpisodeAt(c)' = EpisodeAt(c)
  BY DEF EpisodeAt
<1> QED
  BY <1>1 DEF episodes

LEMMA StepRefines ==
  ASSUME IInv, [Next]_vars
  PROVE  \/ episodes' = episodes
         \/ \E c \in Clients :
              \/ episodes[c] # NoObs /\ episodes' = [episodes EXCEPT ![c].turn = @ + 1]
              \/ episodes[c] # NoObs /\ episodes' = [episodes EXCEPT ![c] = NoObs]
              \/ \E t \in Tasks :
                   /\ episodes[c] = NoObs
                   /\ episodes' = [episodes EXCEPT ![c] = [asked |-> t, goal |-> t, page |-> t,
                                                           turn |-> 0]]
<1>1. obs \in [Clients -> Observation] /\ task \in [Clients -> Tasks \cup {NoTask}]
  BY DEF IInv, TypeOK
<1>2. CASE UNCHANGED <<obs, task>>
  BY <1>2, SameEpisodes
<1>3. ASSUME NEW c \in Clients, NEW t \in Tasks, Begin(c, t) PROVE episodes' = episodes
  <2>1. obs' = obs /\ task' = [task EXCEPT ![c] = t] /\ obs[c] = NoObs
    BY <1>3 DEF Begin, IInv, EpisodesOK
  <2> QED
    BY <1>1, <2>1, SameEpisodes
<1>4. ASSUME NEW c \in Clients, ended(c), task' = task
      PROVE  \/ episodes' = episodes
             \/ episodes[c] # NoObs /\ episodes' = [episodes EXCEPT ![c] = NoObs]
  BY <1>1, <1>4, CloseRefines DEF ended
<1>5. CASE \E m \in inbox : Serve(m)
  BY <1>2, <1>5 DEF Serve, clients, ResetRefused, ResetServed, ResetFailed, StepUnknown, StepServed,
     StepFailed, ReleaseServed, ReleaseFailed
<1>6. CASE \E r \in outbox : Receive(r)
  <2> PICK r \in outbox : Receive(r)
    BY <1>6
  <2>1. CASE Opened(r)
    BY <2>1, OpenRefines
  <2>2. CASE NotOpened(r) \/ Released(r)
    BY <1>4, <2>2, OneAnswer DEF NotOpened, Released
  <2>3. CASE WrongContract(r) \/ NotStepped(r)
    BY <1>2, <2>3 DEF WrongContract, NotStepped
  <2>4. CASE Stepped(r)
    BY <2>4, ActRefines
  <2> QED
    BY <2>1, <2>2, <2>3, <2>4 DEF Receive
<1>7. CASE \E c \in Clients : Client(c)
  <2> PICK c \in Clients : Client(c)
    BY <1>7
  <2>1. CASE \E t \in Tasks : Begin(c, t)
    BY <1>3, <2>1
  <2>2. CASE Step(c) \/ Leave(c)
    BY <1>2, <2>2 DEF Step, Leave
  <2>3. CASE CallFails(c)
    <3>1. task' = task /\ (obs' = obs \/ ended(c))
      BY <2>3 DEF CallFails
    <3> QED
      BY <1>2, <1>4, <3>1
  <2>4. CASE Killed(c)
    BY <1>4, <2>4 DEF Killed
  <2> QED
    BY <2>1, <2>2, <2>3, <2>4 DEF Client
<1>8. CASE \E v \in Versions : Restart(v)
  BY <1>2, <1>8 DEF Restart, clients
<1>9. CASE UNCHANGED vars
  BY <1>2, <1>9 DEF vars
<1> QED
  BY <1>5, <1>6, <1>7, <1>8, <1>9 DEF Next

\* Sessions of one server object are environments of their own: the service, its
\* clients and the network, with any number of them, implement
\* PrivateEnvironments, although requests of abandoned calls arrive late, the goals
\* of the server are rebound by every request, and slots are used again.
THEOREM PrivateEpisodes == Spec => EpisodesArePrivate
<1>1. Init => Private!Init
  <2> SUFFICES ASSUME Init PROVE Private!Init
    OBVIOUS
  <2>1. \A c \in Clients : obs[c] = NoObs
    BY DEF Init
  <2> QED
    BY <2>1 DEF Private!Init
<1>2. IInv /\ [Next]_vars => [Private!Next]_episodes
  <2> SUFFICES ASSUME IInv, [Next]_vars PROVE [Private!Next]_episodes
    OBVIOUS
  <2> QED
    BY StepRefines DEF Private!Next, Private!Act, Private!Close, Private!Open, episodes, EpisodeAt
<1> QED
  BY <1>1, <1>2, Inductive, PTL DEF Spec, EpisodesArePrivate, Private!Spec, episodes, EpisodeAt

----------------------------------------------------------------------------
(* Sessions that are left behind.                                          *)

\* An answer tells a client no other id than its own, unless it opens a session.
OwnAnswers ==
  \A r \in outbox :
    /\ pc[r.to] = "reset" /\ r.status # 200 => r.session = NoId
    /\ pc[r.to] # "reset" => r.session \in {NoId, session[r.to]}

\* Requests that will open a session for nobody.
Late == {m \in inbox : m.op = "reset" /\ ~Awaited(m)}

\* Sessions whose client gives them back in vain: env.close() failed, or nothing will
\* serve the request.
Stuck ==
  {s \in sessions :
     \E c \in Clients : pc[c] = "release" /\ session[c] = s.id /\ RequestsOf(c) = {}}

\* Sessions that are orphans or become ones.
Lost == Orphans \cup Stuck

\* Every loss leaves at most one session behind, now or later.
Accounted ==
  /\ OwnAnswers
  /\ IsFiniteSet(Lost) /\ IsFiniteSet(Late)
  /\ Cardinality(Lost) + Cardinality(Late) <= losses

\* What one step may do to two sets whose sizes a counter bounds: leave them, add one
\* element to one of them and count it, or move one from the second to the first.
LEMMA Balance ==
  ASSUME NEW A, NEW B, NEW C, NEW D, IsFiniteSet(A), IsFiniteSet(B),
         NEW n \in Nat, NEW k \in Nat, Cardinality(A) + Cardinality(B) <= n,
         \/ C \subseteq A /\ D \subseteq B /\ n <= k
         \/ D \subseteq B /\ n + 1 <= k /\ \E x : C \subseteq A \cup {x}
         \/ C \subseteq A /\ n + 1 <= k /\ \E x : D \subseteq B \cup {x}
         \/ n <= k /\ (\E x : C \subseteq A \cup {x}) /\ \E y \in B : D \subseteq B \ {y}
  PROVE  IsFiniteSet(C) /\ IsFiniteSet(D) /\ Cardinality(C) + Cardinality(D) <= k
<1>1. Cardinality(A) \in Nat /\ Cardinality(B) \in Nat
  BY FS_CardinalityType
\* A subset, perhaps with one more element.
<1>2. ASSUME NEW S, IsFiniteSet(S), NEW T, T \subseteq S
      PROVE  IsFiniteSet(T) /\ Cardinality(T) \in Nat /\ Cardinality(T) <= Cardinality(S)
  BY <1>2, FS_Subset, FS_CardinalityType
<1>3. ASSUME NEW S, IsFiniteSet(S), NEW T, NEW x, T \subseteq S \cup {x}
      PROVE  IsFiniteSet(T) /\ Cardinality(T) \in Nat /\ Cardinality(T) <= Cardinality(S) + 1
  <2>1. IsFiniteSet(S \cup {x}) /\ Cardinality(S \cup {x}) \in {Cardinality(S), Cardinality(S) + 1}
    BY <1>3, FS_AddElement
  <2>2. IsFiniteSet(T) /\ Cardinality(T) \in Nat /\ Cardinality(T) <= Cardinality(S \cup {x})
    BY <1>2, <1>3, <2>1
  <2>3. Cardinality(S) \in Nat
    BY <1>3, FS_CardinalityType
  <2> QED
    BY <2>1, <2>2, <2>3
<1>4. CASE C \subseteq A /\ D \subseteq B /\ n <= k
  <2>1. IsFiniteSet(C) /\ Cardinality(C) \in Nat /\ Cardinality(C) <= Cardinality(A)
    BY <1>2, <1>4
  <2>2. IsFiniteSet(D) /\ Cardinality(D) \in Nat /\ Cardinality(D) <= Cardinality(B)
    BY <1>2, <1>4
  <2> QED
    BY <1>1, <1>4, <2>1, <2>2
<1>5. CASE D \subseteq B /\ n + 1 <= k /\ \E x : C \subseteq A \cup {x}
  <2>1. IsFiniteSet(C) /\ Cardinality(C) \in Nat /\ Cardinality(C) <= Cardinality(A) + 1
    BY <1>3, <1>5
  <2>2. IsFiniteSet(D) /\ Cardinality(D) \in Nat /\ Cardinality(D) <= Cardinality(B)
    BY <1>2, <1>5
  <2> QED
    BY <1>1, <1>5, <2>1, <2>2
<1>6. CASE C \subseteq A /\ n + 1 <= k /\ \E x : D \subseteq B \cup {x}
  <2>1. IsFiniteSet(C) /\ Cardinality(C) \in Nat /\ Cardinality(C) <= Cardinality(A)
    BY <1>2, <1>6
  <2>2. IsFiniteSet(D) /\ Cardinality(D) \in Nat /\ Cardinality(D) <= Cardinality(B) + 1
    BY <1>3, <1>6
  <2> QED
    BY <1>1, <1>6, <2>1, <2>2
<1>7. CASE n <= k /\ (\E x : C \subseteq A \cup {x}) /\ \E y \in B : D \subseteq B \ {y}
  <2>1. IsFiniteSet(C) /\ Cardinality(C) \in Nat /\ Cardinality(C) <= Cardinality(A) + 1
    BY <1>3, <1>7
  <2>2. PICK y \in B : D \subseteq B \ {y}
    BY <1>7
  <2>3. IsFiniteSet(B \ {y}) /\ Cardinality(B \ {y}) = Cardinality(B) - 1
    BY FS_RemoveElement
  <2>4. IsFiniteSet(D) /\ Cardinality(D) \in Nat /\ Cardinality(D) <= Cardinality(B \ {y})
    BY <1>2, <2>2, <2>3
  <2> QED
    BY <1>1, <1>7, <2>1, <2>3, <2>4
<1> QED
  BY <1>4, <1>5, <1>6, <1>7

\* The session an id names.
Named(id) == CHOOSE s \in sessions : s.id = id

LEMMA OneSession ==
  ASSUME IInv, NEW s \in sessions
  PROVE  s = Named(s.id) /\ s.id # NoId
<1>1. \A q \in sessions : q.id = s.id => q = s
  BY DEF IInv, SlotsArePrivate
<1>2. s.id # NoId
  BY DEF IInv, TypeOK, Session
<1> QED
  BY <1>1, <1>2 DEF Named

\* A step that loses nothing, or one session, or answers a late reset.
LEMMA AccountKept ==
  ASSUME IInv, Accounted, OwnAnswers', Lost' \subseteq Lost, Late' \subseteq Late,
         losses' \in {losses, losses + 1}
  PROVE  Accounted'
<1>1. losses \in Nat /\ losses' \in Nat /\ losses <= losses'
  BY ServiceTypes
<1>2. /\ IsFiniteSet(Lost) /\ IsFiniteSet(Late)
      /\ Cardinality(Lost) + Cardinality(Late) <= losses
  BY DEF Accounted
<1>3. /\ IsFiniteSet(Lost') /\ IsFiniteSet(Late')
      /\ Cardinality(Lost') + Cardinality(Late') <= losses'
  BY <1>1, <1>2, Balance
<1> QED
  BY <1>3 DEF Accounted

LEMMA AccountSession ==
  ASSUME IInv, Accounted, OwnAnswers', NEW id, \A s \in Lost' : s \in Lost \/ s = Named(id),
         Late' \subseteq Late, losses' = losses + 1
  PROVE  Accounted'
<1>1. losses \in Nat /\ losses' \in Nat /\ losses + 1 <= losses'
  BY ServiceTypes
<1>2. PICK x : x = Named(id)
  OBVIOUS
<1>3. Lost' \subseteq Lost \cup {x}
  BY <1>2
<1>4. /\ IsFiniteSet(Lost) /\ IsFiniteSet(Late)
      /\ Cardinality(Lost) + Cardinality(Late) <= losses
  BY DEF Accounted
<1>5. \E y : Lost' \subseteq Lost \cup {y}
  BY <1>3
<1>6. /\ IsFiniteSet(Lost') /\ IsFiniteSet(Late')
      /\ Cardinality(Lost') + Cardinality(Late') <= losses'
  BY <1>1, <1>4, <1>5, Balance
<1> QED
  BY <1>6 DEF Accounted

LEMMA AccountRequest ==
  ASSUME IInv, Accounted, OwnAnswers', Lost' \subseteq Lost,
         NEW x, Late' \subseteq Late \cup {x}, losses' = losses + 1
  PROVE  Accounted'
<1>1. losses \in Nat /\ losses' \in Nat /\ losses + 1 <= losses'
  BY ServiceTypes
<1>2. /\ IsFiniteSet(Lost) /\ IsFiniteSet(Late)
      /\ Cardinality(Lost) + Cardinality(Late) <= losses
  BY DEF Accounted
<1>3. \E y : Late' \subseteq Late \cup {y}
  OBVIOUS
<1>4. /\ IsFiniteSet(Lost') /\ IsFiniteSet(Late')
      /\ Cardinality(Lost') + Cardinality(Late') <= losses'
  BY <1>1, <1>2, <1>3, Balance
<1> QED
  BY <1>4 DEF Accounted

----------------------------------------------------------------------------
(* The service keeps the account.                                          *)

\* What an answer does to what is lost.
LEMMA ServeBooks ==
  ASSUME IInv, OwnAnswers, UNCHANGED clients, NEW m \in inbox, NEW st, NEW id, NEW t, NEW o,
         reply(m, st, id, t, o),
         \/ id = NoId
         \/ m.op = "reset" /\ st = 200
         \/ m.op # "reset" /\ id = m.session
  PROVE  /\ OwnAnswers'
         /\ Late' \subseteq Late \ {m}
         /\ \A s \in Lost' : s \in sessions =>
              s \in Lost \/ (m.op = "release" /\ s.id = m.session)
         /\ outbox \subseteq outbox' /\ inbox' = inbox \ {m}
<1>1. /\ inbox' = inbox \ {m} /\ outbox \subseteq outbox'
      /\ pc' = pc /\ session' = session /\ rollouts' = rollouts
  BY DEF reply, clients
<1>2. \A q : Awaited(q)' <=> Awaited(q)
  BY <1>1 DEF Awaited
<1>3. OwnAnswers'
  <2> SUFFICES ASSUME NEW r \in outbox', r \notin outbox
               PROVE  /\ pc[r.to] = "reset" /\ r.status # 200 => r.session = NoId
                      /\ pc[r.to] # "reset" => r.session \in {NoId, session[r.to]}
    BY <1>1 DEF OwnAnswers
  <2>1. r.to = m.from /\ r.status = st /\ r.session = id /\ Awaited(m)
    BY NewAnswer
  <2>2. pc[m.from] = m.op /\ m.session = session[m.from]
    BY <2>1 DEF Awaited, IInv, RequestsInOrder
  <2> QED
    BY <2>1, <2>2
<1>4. Late' \subseteq Late \ {m}
  BY <1>1, <1>2 DEF Late
<1>5. ASSUME NEW s \in Lost', s \in sessions, s \notin Lost
      PROVE  m.op = "release" /\ s.id = m.session
  <2>1. Held \subseteq Held'
    BY <1>1 DEF Held
  <2>2. s \notin Orphans'
    BY <1>5, <2>1 DEF Lost, Orphans
  <2>3. PICK c \in Clients : pc[c] = "release" /\ session[c] = s.id /\ RequestsOf(c)' = {}
    BY <1>1, <2>2 DEF Lost, Stuck
  <2>4. RequestsOf(c) # {}
    BY <1>5, <2>3 DEF Lost, Stuck
  <2>5. PICK q \in inbox : q.from = c /\ Awaited(q)
    BY <2>4 DEF RequestsOf
  <2>6. q = m
    BY <1>1, <1>2, <2>3, <2>5 DEF RequestsOf
  <2>7. m.op = "release" /\ m.session = session[c]
    BY <2>3, <2>5, <2>6 DEF Awaited, IInv, RequestsInOrder
  <2> QED
    BY <2>3, <2>7
<1> QED
  BY <1>1, <1>3, <1>4, <1>5

\* A handler that opens no session and gives none back.
LEMMA QuietAnswer ==
  ASSUME IInv, Accounted, UNCHANGED clients, NEW m \in inbox, NEW st, NEW id, NEW t, NEW o,
         reply(m, st, id, t, o), m.op # "release", id = NoId \/ (m.op = "step" /\ id = m.session),
         sessions' = sessions, losses' = losses
  PROVE  Accounted'
<1>1. /\ OwnAnswers' /\ Late' \subseteq Late
      /\ \A s \in Lost' : s \in sessions => s \in Lost
  BY ServeBooks DEF Accounted
<1>2. Lost' \subseteq sessions
  BY DEF Lost, Orphans, Stuck
<1> QED
  BY <1>1, <1>2, AccountKept

LEMMA ResetRefusedBooks ==
  ASSUME IInv, Accounted, NEW m, ResetRefused(m)
  PROVE  Accounted'
<1>1. /\ refuse(m, 400) \/ refuse(m, 503)
      /\ UNCHANGED clients /\ sessions' = sessions /\ losses' = losses
  BY DEF ResetRefused, service, bounds
<1>2. m \in inbox /\ m.op # "release"
  BY DEF ResetRefused
<1> QED
  BY <1>1, <1>2, QuietAnswer DEF refuse

LEMMA ResetFailedBooks ==
  ASSUME IInv, Accounted, NEW m, ResetFailed(m)
  PROVE  Accounted'
<1>1. /\ m \in inbox /\ m.op # "release" /\ refuse(m, 500)
      /\ UNCHANGED clients /\ sessions' = sessions /\ losses' = losses
  BY DEF ResetFailed, reset_failed_early, reset_failed_late
<1> QED
  BY <1>1, QuietAnswer DEF refuse

LEMMA StepUnknownBooks ==
  ASSUME IInv, Accounted, NEW m, StepUnknown(m)
  PROVE  Accounted'
<1>1. /\ m \in inbox /\ m.op # "release" /\ refuse(m, 409)
      /\ UNCHANGED clients /\ sessions' = sessions /\ losses' = losses
  BY DEF StepUnknown, service, bounds
<1> QED
  BY <1>1, QuietAnswer DEF refuse

LEMMA StepServedBooks ==
  ASSUME IInv, Accounted, NEW m, StepServed(m)
  PROVE  Accounted'
<1>1. PICK s \in lookup(m.session) :
        /\ m \in inbox /\ m.op = "step" /\ UNCHANGED clients
        /\ reply(m, 200, s.id, s.task, shown(goals', pages', s.slot))
        /\ sessions' = sessions /\ losses' = losses
  BY DEF StepServed, bounds
<1>2. s.id = m.session /\ m.op # "release"
  BY <1>1 DEF lookup
<1>3. PICK o : reply(m, 200, s.id, s.task, o)
  BY <1>1
<1> QED
  BY <1>1, <1>2, <1>3, QuietAnswer

LEMMA StepFailedBooks ==
  ASSUME IInv, Accounted, NEW m, StepFailed(m)
  PROVE  Accounted'
<1>1. /\ m \in inbox /\ m.op # "release" /\ UNCHANGED clients
      /\ sessions' = sessions /\ losses' = losses
  BY DEF StepFailed
<1>2. refuse(m, 422) \/ refuse(m, 500)
  BY DEF StepFailed
<1> QED
  BY <1>1, <1>2, QuietAnswer DEF refuse

\* A late reset becomes the session it opens; an awaited one is told.
LEMMA ResetServedBooks ==
  ASSUME IInv, Accounted, NEW m, ResetServed(m)
  PROVE  Accounted'
<1> DEFINE s == [id |-> nextId, slot |-> free_slot, task |-> m.task]
<1>1. /\ m \in inbox /\ m.op = "reset" /\ UNCHANGED clients /\ sessions' = sessions \cup {s}
      /\ losses' = losses
      /\ \E o : reply(m, 200, nextId, m.task, o)
  BY DEF ResetServed, fresh_id, bounds
<1>2. s.id = nextId
  OBVIOUS
<1> HIDE DEF s
<1>3. PICK o : reply(m, 200, nextId, m.task, o)
  BY <1>1
<1>4. /\ OwnAnswers' /\ Late' \subseteq Late \ {m}
      /\ \A q \in Lost' : q \in sessions => q \in Lost
  BY <1>1, <1>3, ServeBooks DEF Accounted
<1>5. Lost' \subseteq sessions'
  BY DEF Lost, Orphans, Stuck
<1>6. losses \in Nat /\ losses' \in Nat /\ losses <= losses'
  BY <1>1, ServiceTypes
<1>7. CASE Awaited(m)
  <2>1. PICK r \in outbox' : r.session = nextId
    <3> DEFINE a == [to |-> m.from, status |-> 200, session |-> nextId, task |-> m.task,
                     obs |-> o, version |-> version]
    <3>1. a \in outbox' /\ a.session = nextId
      BY <1>3, <1>7 DEF reply
    <3> HIDE DEF a
    <3> QED
      BY <3>1
  <2>2. s \notin Orphans'
    BY <1>2, <2>1 DEF Orphans, Held
  <2>3. s \notin Stuck'
    <3>1. \A c \in Clients : session'[c] # nextId
      BY <1>1, ServiceTypes DEF IInv, IdsKnown, clients, TypeOK
    <3> QED
      BY <1>2, <3>1 DEF Stuck
  <2>4. Lost' \subseteq Lost
    BY <1>1, <1>4, <1>5, <2>2, <2>3 DEF Lost
  <2> QED
    BY <1>1, <1>4, <2>4, AccountKept
<1>8. CASE ~Awaited(m)
  <2>1. m \in Late
    BY <1>1, <1>8 DEF Late
  <2>2. PICK x : x = s
    OBVIOUS
  <2>3. Lost' \subseteq Lost \cup {x}
    BY <1>1, <1>4, <1>5, <2>2
  <2>4. /\ \E y : Lost' \subseteq Lost \cup {y}
        /\ \E y \in Late : Late' \subseteq Late \ {y}
    BY <1>4, <2>1, <2>3
  <2>5. /\ IsFiniteSet(Lost) /\ IsFiniteSet(Late)
        /\ Cardinality(Lost) + Cardinality(Late) <= losses
    BY DEF Accounted
  <2>6. /\ IsFiniteSet(Lost') /\ IsFiniteSet(Late')
        /\ Cardinality(Lost') + Cardinality(Late') <= losses'
    BY <1>6, <2>4, <2>5, Balance
  <2> QED
    BY <1>4, <2>6 DEF Accounted
<1> QED
  BY <1>7, <1>8

LEMMA ReleaseServedBooks ==
  ASSUME IInv, Accounted, NEW m, ReleaseServed(m)
  PROVE  Accounted'
<1>1. /\ m \in inbox /\ m.op = "release" /\ reply(m, 200, m.session, NoTask, NoObs)
      /\ sessions' = sessions \ lookup(m.session) /\ UNCHANGED clients /\ losses' = losses
  BY DEF ReleaseServed, bounds
<1>2. /\ OwnAnswers' /\ Late' \subseteq Late
      /\ \A s \in Lost' : s \in sessions => s \in Lost \/ s.id = m.session
  BY <1>1, ServeBooks DEF Accounted
<1>3. \A s \in Lost' : s \in sessions /\ s.id # m.session
  BY <1>1 DEF Lost, Orphans, Stuck, lookup
<1> QED
  BY <1>1, <1>2, <1>3, AccountKept

LEMMA ReleaseFailedBooks ==
  ASSUME IInv, Accounted, NEW m, ReleaseFailed(m)
  PROVE  Accounted'
<1>1. /\ m \in inbox /\ m.op = "release" /\ refuse(m, 500)
      /\ sessions' = sessions /\ UNCHANGED clients /\ losses' = losses + 1
  BY DEF ReleaseFailed
<1>2. /\ OwnAnswers' /\ Late' \subseteq Late
      /\ \A s \in Lost' : s \in sessions => s \in Lost \/ s.id = m.session
  BY <1>1, ServeBooks DEF Accounted, refuse
<1>3. \A s \in Lost' : s \in sessions
  BY <1>1 DEF Lost, Orphans, Stuck
<1>4. \A s \in Lost' : s \in Lost \/ s = Named(m.session)
  BY <1>2, <1>3, OneSession
<1> QED
  BY <1>1, <1>2, <1>4, AccountSession

LEMMA RestartBooks ==
  ASSUME IInv, Accounted, NEW v \in Versions, Restart(v)
  PROVE  Accounted'
<1>1. sessions' = {} /\ inbox' = {} /\ outbox' = {} /\ losses' = losses
  BY DEF Restart
<1>2. OwnAnswers' /\ Lost' \subseteq Lost /\ Late' \subseteq Late
  BY <1>1 DEF OwnAnswers, Lost, Orphans, Stuck, Late
<1> QED
  BY <1>1, <1>2, AccountKept

----------------------------------------------------------------------------
(* The clients keep the account.                                           *)

\* Sessions a step of client c may lose: it forgets one, or gives one back in vain.
NewlyLost(c) ==
  {s \in sessions :
     \/ /\ s.id # session'[c]
        /\ s.id = session[c] \/ \E r \in ResponsesTo(c) : r.session = s.id
     \/ pc'[c] = "release" /\ s.id = session'[c] /\ RequestsOf(c)' = {}}

LEMMA ClientBooks ==
  ASSUME IInv, OwnAnswers, NEW c \in Clients, UNCHANGED service, OnlyMoves(c),
         outbox' = outbox \ ResponsesTo(c), inbox' \subseteq inbox \cup {Sent(c)},
         \A q \in inbox : q.from # c => q \in inbox'
  PROVE  /\ OwnAnswers'
         /\ Lost' \subseteq Lost \cup NewlyLost(c)
         /\ \A q \in Late' : q \in Late \/ (q \in RequestsOf(c) /\ q.op = "reset")
<1>1. /\ \A q \in inbox : q.from \in Clients
      /\ \A r \in outbox : r.to \in Clients
  BY DEF IInv, TypeOK, Request, Response
<1>2. \A q \in inbox : q.from # c => (Awaited(q)' <=> Awaited(q))
  BY <1>1 DEF OnlyMoves, Awaited
<1>3. ASSUME NEW q, q = Sent(c) PROVE Awaited(q)'
  BY <1>3 DEF Sent, Awaited
<1>4. OwnAnswers'
  <2>1. \A r \in outbox' : r \in outbox /\ pc'[r.to] = pc[r.to] /\ session'[r.to] = session[r.to]
    BY <1>1 DEF OnlyMoves, ResponsesTo
  <2> QED
    BY <2>1 DEF OwnAnswers
<1>5. ASSUME NEW q \in Late' PROVE q \in Late \/ (q \in RequestsOf(c) /\ q.op = "reset")
  <2>1. q \in inbox' /\ q.op = "reset" /\ ~Awaited(q)'
    BY <1>5 DEF Late
  <2>2. q # Sent(c)
    BY <1>3, <2>1
  <2>3. q \in inbox
    BY <2>1, <2>2
  <2> QED
    BY <1>2, <2>1, <2>3 DEF Late, RequestsOf
<1>6. sessions' = sessions
  BY DEF service
<1>7. ASSUME NEW s \in Orphans', s \notin Lost PROVE s \in NewlyLost(c)
  <2>1. s \in sessions /\ s.id \notin Held' /\ s.id \in Held
    BY <1>6, <1>7 DEF Orphans, Lost
  <2>2. s.id # session'[c]
    BY <2>1 DEF Held
  <2>3. CASE \E d \in Clients : s.id = session[d]
    <3>1. PICK d \in Clients : s.id = session[d]
      BY <2>3
    <3>2. session'[d] # s.id
      BY <2>1 DEF Held
    <3>3. d = c
      BY <3>1, <3>2 DEF OnlyMoves
    <3> QED
      BY <2>1, <2>2, <3>1, <3>3 DEF NewlyLost
  <2>4. CASE \E r \in outbox : s.id = r.session
    <3>1. PICK r \in outbox : s.id = r.session
      BY <2>4
    <3>2. r \notin outbox'
      BY <2>1, <3>1 DEF Held
    <3>3. r \in ResponsesTo(c)
      BY <3>2
    <3> QED
      BY <2>1, <2>2, <3>1, <3>3 DEF NewlyLost
  <2> QED
    BY <2>1, <2>3, <2>4 DEF Held
<1>8. ASSUME NEW s \in Stuck', s \notin Lost PROVE s \in NewlyLost(c)
  <2>1. PICK d \in Clients : pc'[d] = "release" /\ session'[d] = s.id /\ RequestsOf(d)' = {}
    BY <1>8 DEF Stuck
  <2>2. s \in sessions
    BY <1>6, <1>8 DEF Stuck
  <2>3. d = c
    <3> SUFFICES ASSUME d # c PROVE FALSE
      OBVIOUS
    <3>1. pc[d] = "release" /\ session[d] = s.id
      BY <2>1 DEF OnlyMoves
    <3>2. RequestsOf(d) = {}
      BY <1>2, <2>1 DEF RequestsOf
    <3> QED
      BY <1>8, <2>2, <3>1, <3>2 DEF Lost, Stuck
  <2> QED
    BY <2>1, <2>2, <2>3 DEF NewlyLost
<1> QED
  BY <1>4, <1>5, <1>7, <1>8 DEF Lost

\* A step of a client that forgets no session and no reset, unless it is lost already.
LEMMA QuietMove ==
  ASSUME IInv, Accounted, NEW c \in Clients, UNCHANGED service, OnlyMoves(c),
         outbox' = outbox \ ResponsesTo(c), inbox' \subseteq inbox \cup {Sent(c)},
         \A q \in inbox : q.from # c => q \in inbox',
         NewlyLost(c) \subseteq Lost, \A q \in RequestsOf(c) : q.op # "reset",
         losses' \in {losses, losses + 1}
  PROVE  Accounted'
<1>1. /\ OwnAnswers' /\ Lost' \subseteq Lost \cup NewlyLost(c)
      /\ \A q \in Late' : q \in Late \/ (q \in RequestsOf(c) /\ q.op = "reset")
  BY ClientBooks DEF Accounted
<1> QED
  BY <1>1, AccountKept

\* What is asked is awaited.
LEMMA Asked ==
  ASSUME NEW c, Sent(c) \in inbox'
  PROVE  RequestsOf(c)' # {}
<1>1. PICK q \in inbox' : q = Sent(c)
  OBVIOUS
<1>2. Awaited(q)' /\ q.from = c
  BY <1>1 DEF Sent, Awaited
<1> QED
  BY <1>2 DEF RequestsOf

LEMMA SendingOne ==
  ASSUME NEW c, NEW op, NEW id, send(c, op, id), pc'[c] = op, session'[c] = id
  PROVE  inbox' = inbox \cup {Sent(c)}
  BY DEF send, Sent

\* Of what a waiting client asked nothing is left when its answer is there.
LEMMA Answers ==
  ASSUME IInv, NEW r \in outbox
  PROVE  RequestsOf(r.to) = {} /\ ResponsesTo(r.to) = {r}
  BY DEF IInv, ResponsesInOrder, RequestsOf, ResponsesTo

LEMMA RequestsAre ==
  ASSUME NEW c, NEW q \in RequestsOf(c)
  PROVE  q.op = pc[c]
  BY DEF RequestsOf, Awaited

LEMMA Silent ==
  ASSUME IInv, NEW c, pc[c] \notin Calls
  PROVE  ResponsesTo(c) = {}
  BY DEF IInv, ResponsesInOrder, ResponsesTo

LEMMA BeginBooks ==
  ASSUME IInv, Accounted, NEW c \in Clients, NEW t \in Tasks, Begin(c, t)
  PROVE  Accounted'
<1>1. ClientTypes
  BY IsClientTypes
<1>2. /\ pc[c] = "idle" /\ rollouts' = [rollouts EXCEPT ![c] = @ + 1]
      /\ task' = [task EXCEPT ![c] = t] /\ pc' = [pc EXCEPT ![c] = "reset"]
      /\ send(c, "reset", NoId) /\ UNCHANGED service /\ outbox' = outbox
      /\ session' = session /\ obs' = obs /\ losses' = losses
  BY DEF Begin, bounds
<1>3. session[c] = NoId
  BY <1>2 DEF IInv, EpisodesOK
<1>4. pc'[c] = "reset" /\ session'[c] = NoId /\ OnlyMoves(c)
  BY <1>1, <1>2, <1>3 DEF ClientTypes, OnlyMoves
<1>5. outbox' = outbox \ ResponsesTo(c) /\ ResponsesTo(c) = {}
  BY <1>2, NoAnswers, Silent DEF Calls
<1>6. inbox' = inbox \cup {Sent(c)}
  BY <1>2, <1>4, SendingOne
<1>7. NewlyLost(c) = {}
  BY <1>3, <1>4, <1>5 DEF NewlyLost
<1>8. \A q \in RequestsOf(c) : q.op # "reset"
  BY <1>2, RequestsAre
<1> QED
  BY <1>2, <1>4, <1>5, <1>6, <1>7, <1>8, QuietMove

LEMMA OpenedBooks ==
  ASSUME IInv, Accounted, NEW r, Opened(r)
  PROVE  Accounted'
<1> DEFINE c == r.to
<1>1. ClientTypes
  BY IsClientTypes
<1>2. /\ r \in outbox /\ pc[c] = "reset" /\ pc' = [pc EXCEPT ![c] = "think"]
      /\ session' = [session EXCEPT ![c] = r.session]
      /\ obs' = [obs EXCEPT ![c] = r.obs] /\ outbox' = outbox \ {r}
      /\ UNCHANGED service /\ inbox' = inbox /\ task' = task /\ rollouts' = rollouts
      /\ losses' = losses
  BY DEF Opened, received, bounds
<1>3. c \in Clients /\ RequestsOf(c) = {} /\ ResponsesTo(c) = {r}
  BY <1>2, OneAnswer, Answers
<1> HIDE DEF c
<1>4. pc'[c] = "think" /\ session'[c] = r.session /\ OnlyMoves(c)
  BY <1>1, <1>2, <1>3 DEF ClientTypes, OnlyMoves
<1>5. session[c] = NoId
  BY <1>2, <1>3 DEF IInv, EpisodesOK
<1>6. NewlyLost(c) = {}
  BY <1>3, <1>4, <1>5, OneSession DEF NewlyLost
<1> QED
  BY <1>2, <1>3, <1>4, <1>6, QuietMove

LEMMA WrongContractBooks ==
  ASSUME IInv, Accounted, NEW r, WrongContract(r)
  PROVE  Accounted'
<1> DEFINE c == r.to
<1>1. ClientTypes
  BY IsClientTypes
<1>2. /\ r \in outbox /\ pc[c] = "reset" /\ pc' = [pc EXCEPT ![c] = "release"]
      /\ session' = [session EXCEPT ![c] = r.session]
      /\ send(c, "release", session'[c]) /\ outbox' = outbox \ {r}
      /\ UNCHANGED service /\ task' = task /\ obs' = obs /\ rollouts' = rollouts
      /\ losses' = losses
  BY DEF WrongContract, release, received, bounds
<1>3. c \in Clients /\ RequestsOf(c) = {} /\ ResponsesTo(c) = {r}
  BY <1>2, OneAnswer, Answers
<1> HIDE DEF c
<1>4. pc'[c] = "release" /\ session'[c] = r.session /\ OnlyMoves(c)
  BY <1>1, <1>2, <1>3 DEF ClientTypes, OnlyMoves
<1>5. inbox' = inbox \cup {Sent(c)}
  BY <1>2, <1>4, SendingOne
<1>6. session[c] = NoId /\ RequestsOf(c)' # {}
  BY <1>2, <1>3, <1>5, Asked DEF IInv, EpisodesOK
<1>7. NewlyLost(c) = {}
  BY <1>3, <1>4, <1>6, OneSession DEF NewlyLost
<1> QED
  BY <1>2, <1>3, <1>4, <1>5, <1>7, QuietMove

\* A client goes on with its session, or asks to give it back.
LEMMA KeepsSession ==
  ASSUME IInv, Accounted, NEW c \in Clients, UNCHANGED service, OnlyMoves(c),
         outbox' = outbox \ ResponsesTo(c), inbox' \subseteq inbox \cup {Sent(c)},
         \A q \in inbox : q.from # c => q \in inbox',
         pc[c] \in Holding, session'[c] = session[c],
         pc'[c] # "release" \/ Sent(c) \in inbox',
         losses' \in {losses, losses + 1}
  PROVE  Accounted'
<1>1. \A r \in ResponsesTo(c) : r.session \in {NoId, session[c]}
  BY DEF Accounted, OwnAnswers, Holding, ResponsesTo
<1>2. pc'[c] # "release" \/ RequestsOf(c)' # {}
  BY Asked
<1>3. NewlyLost(c) = {}
  BY <1>1, <1>2, OneSession DEF NewlyLost
<1>4. \A q \in RequestsOf(c) : q.op # "reset"
  BY RequestsAre DEF Holding
<1> QED
  BY <1>3, <1>4, QuietMove

LEMMA StepBooks ==
  ASSUME IInv, Accounted, NEW c \in Clients, Step(c)
  PROVE  Accounted'
<1>1. ClientTypes
  BY IsClientTypes
<1>2. /\ pc[c] = "think" /\ pc' = [pc EXCEPT ![c] = "step"]
      /\ send(c, "step", session[c]) /\ outbox' = outbox
      /\ UNCHANGED service /\ task' = task /\ session' = session /\ obs' = obs
      /\ rollouts' = rollouts /\ losses' = losses
  BY DEF Step, bounds
<1>3. pc'[c] = "step" /\ OnlyMoves(c)
  BY <1>1, <1>2 DEF ClientTypes, OnlyMoves
<1>4. inbox' = inbox \cup {Sent(c)}
  BY <1>2, <1>3, SendingOne
<1>5. outbox' = outbox \ ResponsesTo(c)
  BY <1>2, NoAnswers DEF Calls
<1> QED
  BY <1>2, <1>3, <1>4, <1>5, KeepsSession DEF Holding

LEMMA LeaveBooks ==
  ASSUME IInv, Accounted, NEW c \in Clients, Leave(c)
  PROVE  Accounted'
<1>1. ClientTypes
  BY IsClientTypes
<1>2. /\ pc[c] = "think" /\ pc' = [pc EXCEPT ![c] = "release"]
      /\ send(c, "release", session'[c]) /\ outbox' = outbox
      /\ UNCHANGED service /\ task' = task /\ session' = session /\ obs' = obs
      /\ rollouts' = rollouts /\ losses' = losses
  BY DEF Leave, release, bounds
<1>3. pc'[c] = "release" /\ OnlyMoves(c)
  BY <1>1, <1>2 DEF ClientTypes, OnlyMoves
<1>4. inbox' = inbox \cup {Sent(c)}
  BY <1>2, <1>3, SendingOne
<1>5. outbox' = outbox \ ResponsesTo(c)
  BY <1>2, NoAnswers DEF Calls
<1> QED
  BY <1>2, <1>3, <1>4, <1>5, KeepsSession DEF Holding

LEMMA SteppedBooks ==
  ASSUME IInv, Accounted, NEW r, Stepped(r)
  PROVE  Accounted'
<1> DEFINE c == r.to
<1>1. ClientTypes
  BY IsClientTypes
<1>2. /\ r \in outbox /\ pc[c] = "step" /\ pc' = [pc EXCEPT ![c] = "think"]
      /\ obs' = [obs EXCEPT ![c] = r.obs] /\ outbox' = outbox \ {r} /\ inbox' = inbox
      /\ UNCHANGED service /\ task' = task /\ session' = session /\ rollouts' = rollouts
      /\ losses' = losses
  BY DEF Stepped, received, bounds
<1>3. c \in Clients /\ outbox' = outbox \ ResponsesTo(c)
  BY <1>2, OneAnswer
<1> HIDE DEF c
<1>4. pc'[c] = "think" /\ OnlyMoves(c)
  BY <1>1, <1>2, <1>3 DEF ClientTypes, OnlyMoves
<1> QED
  BY <1>2, <1>3, <1>4, KeepsSession DEF Holding

LEMMA NotSteppedBooks ==
  ASSUME IInv, Accounted, NEW r, NotStepped(r)
  PROVE  Accounted'
<1> DEFINE c == r.to
<1>1. ClientTypes
  BY IsClientTypes
<1>2. /\ r \in outbox /\ pc[c] = "step" /\ pc' = [pc EXCEPT ![c] = "release"]
      /\ send(c, "release", session'[c]) /\ outbox' = outbox \ {r}
      /\ UNCHANGED service /\ task' = task /\ session' = session /\ obs' = obs
      /\ rollouts' = rollouts /\ losses' = losses
  BY DEF NotStepped, release, received, bounds
<1>3. c \in Clients /\ outbox' = outbox \ ResponsesTo(c)
  BY <1>2, OneAnswer
<1> HIDE DEF c
<1>4. pc'[c] = "release" /\ OnlyMoves(c)
  BY <1>1, <1>2, <1>3 DEF ClientTypes, OnlyMoves
<1>5. inbox' = inbox \cup {Sent(c)}
  BY <1>2, <1>4, SendingOne
<1> QED
  BY <1>2, <1>3, <1>4, <1>5, KeepsSession DEF Holding

----------------------------------------------------------------------------
(* Rollouts that end.                                                      *)

LEMMA EndedFrame ==
  ASSUME IInv, NEW c \in Clients, ended(c), UNCHANGED <<service, task, rollouts>>,
         inbox' \subseteq inbox
  PROVE  /\ pc'[c] = "idle" /\ session'[c] = NoId /\ OnlyMoves(c) /\ UNCHANGED service
         /\ inbox' \subseteq inbox \cup {Sent(c)}
<1>1. ClientTypes
  BY IsClientTypes
<1> QED
  BY <1>1 DEF ended, ClientTypes, OnlyMoves

\* A client that gives a session back and does not wait any longer, or has it no more.
LEMMA EndsReleased ==
  ASSUME IInv, Accounted, NEW c \in Clients, ended(c), UNCHANGED <<service, task, rollouts>>,
         outbox' = outbox \ ResponsesTo(c), inbox' \subseteq inbox,
         \A q \in inbox : q.from # c => q \in inbox',
         pc[c] = "release", RequestsOf(c) = {}, losses' \in {losses, losses + 1}
  PROVE  Accounted'
<1>1. /\ pc'[c] = "idle" /\ session'[c] = NoId /\ OnlyMoves(c) /\ UNCHANGED service
      /\ inbox' \subseteq inbox \cup {Sent(c)}
  BY EndedFrame
<1>2. \A r \in ResponsesTo(c) : r.session \in {NoId, session[c]}
  BY DEF Accounted, OwnAnswers, ResponsesTo
<1>3. ASSUME NEW s \in NewlyLost(c) PROVE s \in Lost
  <2>1. s \in sessions /\ s.id = session[c]
    BY <1>1, <1>2, <1>3, OneSession DEF NewlyLost
  <2> QED
    BY <2>1 DEF Lost, Stuck
<1> QED
  BY <1>1, <1>3, QuietMove

\* A client that ends without giving anything back.
LEMMA EndsWithout ==
  ASSUME IInv, Accounted, NEW c \in Clients, ended(c), UNCHANGED <<service, task, rollouts>>,
         outbox' = outbox \ ResponsesTo(c), inbox' \subseteq inbox,
         \A q \in inbox : q.from # c => q \in inbox',
         losses' = losses + 1
  PROVE  Accounted'
<1>1. /\ pc'[c] = "idle" /\ session'[c] = NoId /\ OnlyMoves(c) /\ UNCHANGED service
      /\ inbox' \subseteq inbox \cup {Sent(c)}
  BY EndedFrame
<1>2. /\ OwnAnswers' /\ Lost' \subseteq Lost \cup NewlyLost(c)
      /\ \A q \in Late' : q \in Late \/ (q \in RequestsOf(c) /\ q.op = "reset")
  BY <1>1, ClientBooks DEF Accounted
\* It knew its session, and had no more than that to expect.
<1>3. CASE pc[c] # "reset"
  <2>1. \A r \in ResponsesTo(c) : r.session \in {NoId, session[c]}
    BY <1>3 DEF Accounted, OwnAnswers, ResponsesTo
  <2>2. \A s \in NewlyLost(c) : s \in sessions /\ s.id = session[c]
    BY <1>1, <2>1, OneSession DEF NewlyLost
  <2>3. \A s \in Lost' : s \in Lost \/ s = Named(session[c])
    BY <1>2, <2>2, OneSession
  <2>4. Late' \subseteq Late
    BY <1>2, <1>3, RequestsAre
  <2> QED
    BY <1>2, <2>3, <2>4, AccountSession
\* The answer to its reset is lost, with the session it opened.
<1>4. CASE pc[c] = "reset" /\ ResponsesTo(c) # {}
  <2>1. PICK r \in outbox : r.to = c
    BY <1>4 DEF ResponsesTo
  <2>2. RequestsOf(c) = {} /\ ResponsesTo(c) = {r}
    BY <2>1, Answers
  <2>3. session[c] = NoId
    BY <1>4 DEF IInv, EpisodesOK
  <2>4. \A s \in NewlyLost(c) : s \in sessions /\ s.id = r.session
    BY <1>1, <2>2, <2>3, OneSession DEF NewlyLost
  <2>5. \A s \in Lost' : s \in Lost \/ s = Named(r.session)
    BY <1>2, <2>4, OneSession
  <2>6. Late' \subseteq Late
    BY <1>2, <2>2
  <2> QED
    BY <1>2, <2>5, <2>6, AccountSession
\* Its reset is still on its way.
<1>5. CASE pc[c] = "reset" /\ ResponsesTo(c) = {}
  <2>1. session[c] = NoId
    BY <1>5 DEF IInv, EpisodesOK
  <2>2. NewlyLost(c) = {}
    BY <1>1, <1>5, <2>1, OneSession DEF NewlyLost
  <2>3. Lost' \subseteq Lost
    BY <1>2, <2>2
  <2>4. \A p, q \in RequestsOf(c) : p = q
    BY OneAwaited DEF IInv, RequestsOf
  <2>5. PICK x : RequestsOf(c) \subseteq {x}
    BY <2>4
  <2>6. Late' \subseteq Late \cup {x}
    BY <1>2, <2>5
  <2> QED
    BY <1>2, <2>3, <2>6, AccountRequest
<1> QED
  BY <1>3, <1>4, <1>5

LEMMA ReleasedBooks ==
  ASSUME IInv, Accounted, NEW r, Released(r)
  PROVE  Accounted'
<1>1. /\ r \in outbox /\ pc[r.to] = "release" /\ ended(r.to) /\ outbox' = outbox \ {r}
      /\ inbox' = inbox /\ UNCHANGED <<service, task, rollouts>> /\ losses' = losses
  BY DEF Released, received, bounds
<1>2. r.to \in Clients /\ RequestsOf(r.to) = {} /\ ResponsesTo(r.to) = {r}
  BY <1>1, OneAnswer, Answers
<1> QED
  BY <1>1, <1>2, EndsReleased

LEMMA NotOpenedBooks ==
  ASSUME IInv, Accounted, NEW r, NotOpened(r)
  PROVE  Accounted'
<1> DEFINE c == r.to
<1>1. /\ r \in outbox /\ pc[c] = "reset" /\ ended(c) /\ outbox' = outbox \ {r}
      /\ inbox' = inbox /\ UNCHANGED <<service, task, rollouts>>
      /\ (r.status # 200 /\ losses' = losses) \/ losses' = losses + 1
  BY DEF NotOpened, received
<1>2. c \in Clients /\ RequestsOf(c) = {} /\ ResponsesTo(c) = {r}
  BY <1>1, OneAnswer, Answers
<1> HIDE DEF c
<1>3. CASE losses' = losses + 1
  BY <1>1, <1>2, <1>3, EndsWithout
<1>4. CASE r.status # 200 /\ losses' = losses
  <2>1. /\ pc'[c] = "idle" /\ session'[c] = NoId /\ OnlyMoves(c) /\ UNCHANGED service
        /\ inbox' \subseteq inbox \cup {Sent(c)}
    BY <1>1, <1>2, EndedFrame
  <2>2. r.session = NoId /\ session[c] = NoId
    BY <1>1, <1>2, <1>4 DEF Accounted, OwnAnswers, IInv, EpisodesOK, c
  <2>3. NewlyLost(c) = {}
    BY <1>2, <2>1, <2>2 DEF NewlyLost
  <2> QED
    BY <1>1, <1>2, <1>4, <2>1, <2>3, QuietMove
<1> QED
  BY <1>1, <1>3, <1>4

LEMMA KilledBooks ==
  ASSUME IInv, Accounted, NEW c \in Clients, Killed(c)
  PROVE  Accounted'
<1>1. /\ ended(c) /\ outbox' = outbox \ ResponsesTo(c) /\ inbox' = inbox
      /\ UNCHANGED <<service, task, rollouts>> /\ losses' = losses + 1
  BY DEF Killed
<1> QED
  BY <1>1, EndsWithout

LEMMA CallFailsBooks ==
  ASSUME IInv, Accounted, NEW c \in Clients, CallFails(c)
  PROVE  Accounted'
<1>1. ClientTypes
  BY IsClientTypes
<1>2. /\ pc[c] \in Calls /\ outbox' = outbox \ ResponsesTo(c)
      /\ UNCHANGED <<service, task, rollouts>>
      /\ (broken(c) /\ losses' = losses) \/ losses' = losses + 1
  BY DEF CallFails
<1>3. \A q \in inbox : q.from # c => q \in inbox'
  BY DEF CallFails, RequestsOf
<1>4. CASE pc[c] = "step"
  <2>1. /\ session' = session /\ obs' = obs /\ pc' = [pc EXCEPT ![c] = "release"]
        /\ \E lost \in SUBSET RequestsOf(c) :
             inbox' = (inbox \ lost) \cup
               {[op |-> "release", from |-> c, rollout |-> rollouts[c], task |-> task[c],
                 session |-> session[c]]}
    BY <1>4 DEF CallFails
  <2>2. pc'[c] = "release" /\ OnlyMoves(c)
    BY <1>1, <1>2, <2>1 DEF ClientTypes, OnlyMoves
  <2>3. inbox' \subseteq inbox \cup {Sent(c)} /\ Sent(c) \in inbox'
    BY <1>2, <2>1, <2>2 DEF Sent
  <2> QED
    BY <1>2, <1>3, <1>4, <2>1, <2>2, <2>3, KeepsSession DEF Holding
<1>5. CASE pc[c] # "step"
  <2>1. ended(c) /\ inbox' \subseteq inbox
    BY <1>5 DEF CallFails
  <2>2. CASE losses' = losses + 1
    BY <1>2, <1>3, <2>1, <2>2, EndsWithout
  <2>3. CASE broken(c) /\ losses' = losses
    <3>1. RequestsOf(c) = {} /\ ResponsesTo(c) = {}
      BY <2>3 DEF broken
    <3>2. CASE pc[c] = "release"
      BY <1>2, <1>3, <2>1, <2>3, <3>1, <3>2, EndsReleased
    <3>3. CASE pc[c] = "reset"
      <4>1. /\ pc'[c] = "idle" /\ session'[c] = NoId /\ OnlyMoves(c) /\ UNCHANGED service
            /\ inbox' \subseteq inbox \cup {Sent(c)}
        BY <1>2, <2>1, EndedFrame
      <4>2. session[c] = NoId
        BY <3>3 DEF IInv, EpisodesOK
      <4>3. NewlyLost(c) = {}
        BY <3>1, <4>1, <4>2 DEF NewlyLost
      <4> QED
        BY <1>2, <1>3, <2>3, <3>1, <4>1, <4>3, QuietMove
    <3> QED
      BY <1>2, <1>5, <3>2, <3>3 DEF Calls
  <2> QED
    BY <1>2, <2>2, <2>3
<1> QED
  BY <1>4, <1>5

----------------------------------------------------------------------------

LEMMA NextAccounted == IInv /\ Accounted /\ [Next]_vars => Accounted'
<1> SUFFICES ASSUME IInv, Accounted, [Next]_vars PROVE Accounted'
  OBVIOUS
<1>1. CASE UNCHANGED vars
  <2>1. /\ OwnAnswers' = OwnAnswers /\ Lost' = Lost /\ Late' = Late /\ losses' = losses
    BY <1>1 DEF vars, OwnAnswers, Lost, Orphans, Held, Stuck, RequestsOf, Late, Awaited
  <2> QED
    BY <2>1 DEF Accounted
<1>2. ASSUME NEW m \in inbox, Serve(m) PROVE Accounted'
  BY <1>2, ResetRefusedBooks, ResetServedBooks, ResetFailedBooks, StepUnknownBooks,
     StepServedBooks, StepFailedBooks, ReleaseServedBooks, ReleaseFailedBooks
  DEF Serve
<1>3. ASSUME NEW r \in outbox, Receive(r) PROVE Accounted'
  BY <1>3, OpenedBooks, NotOpenedBooks, WrongContractBooks, SteppedBooks, NotSteppedBooks,
     ReleasedBooks
  DEF Receive
<1>4. ASSUME NEW c \in Clients, Client(c) PROVE Accounted'
  BY <1>4, BeginBooks, StepBooks, LeaveBooks, CallFailsBooks, KilledBooks DEF Client
<1>5. ASSUME NEW v \in Versions, Restart(v) PROVE Accounted'
  BY <1>5, RestartBooks
<1> QED
  BY <1>1, <1>2, <1>3, <1>4, <1>5 DEF Next

LEMMA InitAccounted == Init => Accounted
<1> SUFFICES ASSUME Init PROVE Accounted
  OBVIOUS
<1>1. Lost = {} /\ Late = {} /\ OwnAnswers /\ losses = 0
  BY DEF Init, Lost, Orphans, Stuck, Late, OwnAnswers
<1> QED
  BY <1>1, FS_EmptySet DEF Accounted

\* For any number of clients, slots, timeouts, kills and failed releases, each of these
\* leaves at most one session behind, and nothing else does: not a reset that fails
\* half-way, not a rejected step, not a refused RNG contract (the service's reset and
\* release, and the client's checks of their answers).
THEOREM LossesCoverOrphans == Spec => []OrphansAreAccounted
<1>1. Spec => [](IInv /\ Accounted)
  BY InitIInv, InitAccounted, NextIInv, NextAccounted, PTL DEF Spec
<1>2. IInv /\ Accounted => OrphansAreAccounted
  <2> SUFFICES ASSUME IInv, Accounted PROVE Cardinality(Orphans) <= losses
    BY DEF OrphansAreAccounted
  <2>1. IsFiniteSet(Lost) /\ Cardinality(Lost) \in Nat /\ Cardinality(Late) \in Nat
    BY FS_CardinalityType DEF Accounted
  <2>2. IsFiniteSet(Orphans) /\ Cardinality(Orphans) <= Cardinality(Lost)
    BY <2>1, FS_Subset DEF Lost
  <2>3. Cardinality(Orphans) \in Nat /\ losses \in Nat
    BY <2>2, FS_CardinalityType, ServiceTypes
  <2>4. Cardinality(Lost) + Cardinality(Late) <= losses
    BY DEF Accounted
  <2> QED
    BY <2>1, <2>2, <2>3, <2>4
<1> QED
  BY <1>1, <1>2, PTL

----------------------------------------------------------------------------
(* Who is refused for capacity.                                            *)

\* The client that has a session, or is about to be told of it.
Holds(c, s) == s.id = session[c] \/ \E r \in outbox : r.to = c /\ r.session = s.id

\* No client holds two sessions.
LEMMA OneEach ==
  ASSUME IInv, OwnAnswers, NEW c \in Clients, NEW s \in sessions, NEW q \in sessions,
         Holds(c, s), Holds(c, q)
  PROVE  s = q
<1>1. s = Named(s.id) /\ q = Named(q.id) /\ s.id # NoId /\ q.id # NoId
  BY OneSession
<1>2. \A r, p \in outbox : r.to = c /\ p.to = c => r = p
  BY DEF IInv, ResponsesInOrder
<1>3. \A r \in outbox : r.to = c =>
        session[c] = NoId \/ r.session \in {NoId, session[c]}
  BY DEF OwnAnswers, IInv, EpisodesOK
<1>4. s.id = q.id
  BY <1>1, <1>2, <1>3 DEF Holds
<1> QED
  BY <1>1, <1>4

\* A client that waits for its reset holds none.
LEMMA WaitsForOne ==
  ASSUME IInv, NEW m \in inbox, m.op = "reset", Awaited(m), NEW s \in sessions
  PROVE  m.from \in Clients /\ ~Holds(m.from, s)
<1>1. m.from \in Clients /\ session[m.from] = NoId /\ s.id # NoId
  BY ServiceTypes, OneSession DEF Awaited, IInv, EpisodesOK
<1>2. \A r \in outbox : r.to # m.from
  BY DEF IInv, ResponsesInOrder
<1> QED
  BY <1>1, <1>2 DEF Holds

\* A full table has as many sessions as there are slots, or more.
LEMMA FullTable ==
  ASSUME IInv, at_capacity, IsFiniteSet(sessions)
  PROVE  Cardinality(sessions) >= MaxSessions
<1>1. CASE Slots \subseteq used_slots
  <2> DEFINE f == [i \in Slots |-> CHOOSE s \in sessions : s.slot = i]
  <2>1. \A i \in Slots : f[i] \in sessions /\ f[i].slot = i
    BY <1>1 DEF used_slots
  <2>2. f \in Injection(Slots, sessions)
    <3>1. f \in [Slots -> sessions]
      BY <2>1
    <3> HIDE DEF f
    <3>2. \A i, j \in Slots : f[i] = f[j] => i = j
      BY <2>1
    <3> QED
      BY <3>1, <3>2 DEF Injection, IsInjective
  <2>3. Cardinality(Slots) <= Cardinality(sessions)
    BY <2>2, FS_Injection
  <2>4. Cardinality(Slots) = MaxSessions
    <3>1. 0 \in Int /\ MaxSessions - 1 \in Int /\ MaxSessions \in Nat \ {0}
      BY ServiceAssumption
    <3>2. Cardinality(0..(MaxSessions - 1)) =
            IF 0 > MaxSessions - 1 THEN 0 ELSE (MaxSessions - 1) - 0 + 1
      BY <3>1, FS_Interval
    <3> QED
      BY <3>1, <3>2 DEF Slots
  <2>5. Cardinality(sessions) \in Nat /\ MaxSessions \in Nat
    BY FS_CardinalityType, ServiceAssumption
  <2> QED
    BY <2>3, <2>4, <2>5
<1> QED
  BY <1>1 DEF at_capacity

\* Without orphans the sessions belong to clients other than the one that waits.
LEMMA RoomForOne ==
  ASSUME IInv, OwnAnswers, Cardinality(Clients) <= MaxSessions,
         NEW m \in inbox, m.op = "reset", Awaited(m), Orphans = {}
  PROVE  ~at_capacity
<1> DEFINE Others == Clients \ {m.from}
           holder == [s \in sessions |-> CHOOSE c \in Others : Holds(c, s)]
<1>1. ASSUME NEW s \in sessions PROVE \E c \in Others : Holds(c, s)
  <2>1. s.id \in Held
    BY <1>1 DEF Orphans
  <2>2. \A r \in outbox : r.to \in Clients
    BY DEF IInv, TypeOK, Response
  <2>3. \E c \in Clients : Holds(c, s)
    BY <2>1, <2>2 DEF Held, Holds
  <2> QED
    BY <2>3, WaitsForOne
<1>2. \A s \in sessions : holder[s] \in Others /\ Holds(holder[s], s)
  BY <1>1
<1>3. holder \in [sessions -> Others]
  BY <1>2
<1> HIDE DEF holder
<1>4. \A s, q \in sessions : holder[s] = holder[q] => s = q
  BY <1>2, OneEach
<1>5. holder \in Injection(sessions, Others)
  BY <1>3, <1>4 DEF Injection, IsInjective
<1>6. m.from \in Clients /\ IsFiniteSet(Clients)
  BY ServiceTypes, ServiceAssumption
<1>7. IsFiniteSet(Others) /\ Cardinality(Others) = Cardinality(Clients) - 1
  BY <1>6, FS_RemoveElement
<1>8. IsFiniteSet(sessions) /\ Cardinality(sessions) <= Cardinality(Others)
  BY <1>5, <1>7, FS_Injection
<1>9. Cardinality(sessions) \in Nat /\ Cardinality(Clients) \in Nat /\ MaxSessions \in Nat
  BY <1>6, <1>8, FS_CardinalityType, ServiceAssumption
<1>10. Cardinality(sessions) < MaxSessions
  BY <1>7, <1>8, <1>9
<1> QED
  BY <1>8, <1>9, <1>10, FullTable

\* The only step that sends a 503 is a refused reset somebody waits for.
LEMMA OnlyRefused ==
  ASSUME IInv, Next, NEW r \in outbox', r \notin outbox, r.status = 503
  PROVE  \E m \in inbox : m.op = "reset" /\ Awaited(m) /\ at_capacity
<1>1. ASSUME NEW m \in inbox, Serve(m)
      PROVE  m.op = "reset" /\ Awaited(m) /\ at_capacity
  <2>1. ASSUME NEW st, NEW id, NEW t, NEW o, reply(m, st, id, t, o)
        PROVE  st = 503 /\ Awaited(m)
    BY <2>1, NewAnswer
  <2>2. \A st : refuse(m, st) => st = 503 /\ Awaited(m)
    BY <2>1 DEF refuse
  <2>3. ~ ResetServed(m) /\ ~ StepServed(m) /\ ~ ReleaseServed(m)
    BY <2>1 DEF ResetServed, StepServed, ReleaseServed
  <2>4. ~ ResetFailed(m) /\ ~ StepUnknown(m) /\ ~ StepFailed(m) /\ ~ ReleaseFailed(m)
    BY <2>2 DEF ResetFailed, StepUnknown, StepFailed, ReleaseFailed
  <2>5. ResetRefused(m)
    BY <1>1, <2>3, <2>4 DEF Serve
  <2> QED
    BY <2>2, <2>5 DEF ResetRefused
<1>2. ASSUME NEW q \in outbox, Receive(q) PROVE FALSE
  BY <1>2 DEF Receive, Opened, NotOpened, WrongContract, Stepped, NotStepped, Released, received
<1>3. ASSUME NEW c \in Clients, Client(c) PROVE FALSE
  BY <1>3 DEF Client, Begin, Step, Leave, CallFails, Killed
<1>4. ASSUME NEW v \in Versions, Restart(v) PROVE FALSE
  BY <1>4 DEF Restart
<1> QED
  BY <1>1, <1>2, <1>3, <1>4 DEF Next

\* For any number of clients, with at least as many slots: a rollout is refused for
\* capacity only when a session was left behind. A client that asks for a session has
\* none, and every other client holds one at most (reset's capacity check, and the
\* late removal of sessions that are just being released).
THEOREM RefusedForOrphans ==
  Cardinality(Clients) <= MaxSessions => (Spec => RefusedOnlyWhenOrphaned)
<1> SUFFICES ASSUME Cardinality(Clients) <= MaxSessions
             PROVE  Spec => RefusedOnlyWhenOrphaned
  OBVIOUS
<1>1. Spec => [](IInv /\ Accounted)
  BY InitIInv, InitAccounted, NextIInv, NextAccounted, PTL DEF Spec
<1>2. IInv /\ Accounted /\ [Next]_vars =>
        [\A r \in outbox' \ outbox : r.status = 503 => Orphans # {}]_vars
  BY OnlyRefused, RoomForOne DEF Accounted
<1> QED
  BY <1>1, <1>2, PTL DEF Spec, RefusedOnlyWhenOrphaned

=============================================================================
