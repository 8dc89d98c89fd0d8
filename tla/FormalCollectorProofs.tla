------------------------ MODULE FormalCollectorProofs ------------------------
(***************************************************************************)
(* Machine-checked proofs about FormalCollector, for any slots, tasks,     *)
(* strata, budgets, number of workers and bounds.                          *)
(*                                                                         *)
(* The first invariant is of types, of one flight per task and of the      *)
(* durability of every reservation before dispatch.  Each later section    *)
(* adds a conjunct to it and proves what it was needed for: attempts are   *)
(* counted once, passes do not overlap, demonstrations are distinct and    *)
(* published before they are accepted, budgets hold of the rows, a process *)
(* ends clean, a resumable one drained, coverage moves only when it was    *)
(* earned, nothing that succeeds is discarded for want of quota.  With all *)
(* of it, the collector implements CollectionContract.                     *)
(***************************************************************************)
EXTENDS FormalCollector, FiniteSetTheorems, SequenceTheorems, WellFoundedInduction, TLAPS

\* A non-empty set of natural numbers has a least element.
LEMMA FirstIsLeast ==
  ASSUME NEW S, S \subseteq Nat, S # {}
  PROVE  First(S) \in S /\ \A u \in S : First(S) <= u
<1>1. PICK s \in S : \A u \in S : ~ (<<u, s>> \in OpToRel(<, Nat))
  BY NatLessThanWellFounded, WFMin, Zenon
<1>2. ASSUME NEW u \in S PROVE s <= u
  <2>1. u \in Nat /\ s \in Nat
    OBVIOUS
  <2>2. <<u, s>> \in OpToRel(<, Nat) <=> u < s
    BY <2>1 DEF OpToRel
  <2>3. ~ (u < s)
    BY <1>1, <2>2
  <2> QED
    BY <2>1, <2>3
<1> QED
  BY <1>2, Zenon DEF First

----------------------------------------------------------------------------
(* The inductive invariant.                                                *)

\* The ledger and the memory agree on which task serves which slot, and a
\* task with a first success serves one.
PlacesAgree ==
  /\ saved.slotOf = mem.slotOf /\ saved.current = mem.current
  /\ \A s \in Slots : mem.slotOf[mem.current[s]] = s
  /\ \A t \in mem.success \cup saved.success : mem.slotOf[t] \in Slots

\* A row was made at the slot its task serves.
RowsPlaced == \A i \in DOMAIN rows : mem.slotOf[rows[i].task] = rows[i].slot

\* A thread works on a task that is reserved, in memory and in the ledger.
ThreadsReserved ==
  \A w \in InFlight : /\ mem.slotOf[pool[w].item.task] = pool[w].item.slot
                      /\ pool[w].item.task \in mem.active
                      /\ pool[w].item.task \in saved.active

\* So is the item about to be submitted.
PickedReserved ==
  pc = "submit" => /\ mem.slotOf[picked.task] = picked.slot
                   /\ picked.task \in mem.active
                   /\ picked.task \in saved.active

\* No thread outlives its process, and a publication is followed by a commit.
PhaseOK ==
  /\ pc = "down" => InFlight = {}
  /\ pc = "commit" => Pending # {}

IInv ==
  /\ TypeOK
  /\ PlacesAgree
  /\ RowsPlaced
  /\ ThreadsReserved
  /\ PickedReserved
  /\ OneFlightPerTask
  /\ PhaseOK

----------------------------------------------------------------------------
(* Lemmas about the operators of CollectionPolicy.                         *)

\* The initial state is a state, in which the primary tasks serve their slots.
LEMMA InitialState ==
  /\ initial_state \in States
  /\ \A s \in Slots : initial_state.slotOf[initial_state.current[s]] = s
  /\ initial_state.success = {} /\ initial_state.active = {}
  /\ NoItem \in Items
<1> DEFINE place == [t \in Tasks |-> IF \E s \in Slots : PrimaryTask[s] = t
                                     THEN CHOOSE s \in Slots : PrimaryTask[s] = t
                                     ELSE NoSlot]
<1>1. PrimaryTask \in [Slots -> Tasks]
  BY ShapeAssumption
<1>2. \A s \in Slots : place[PrimaryTask[s]] = s
  BY <1>1, ManifestAssumption
<1>3. place \in [Tasks -> Slots \cup {NoSlot}]
  OBVIOUS
<1>4. initial_state.slotOf = place /\ initial_state.current = PrimaryTask
  BY DEF initial_state
<1>5. initial_state \in States
  <2> HIDE DEF place
  <2>1. initial_state = [initial_state EXCEPT !.slotOf = place]
    BY <1>4 DEF initial_state
  <2> QED
    BY <1>1, <1>3, <2>1 DEF initial_state, States, RunStatuses, Passes
<1>6. First(Slots) \in Slots
  BY ShapeAssumption, FirstIsLeast
<1>7. NoItem \in Items
  <2>1. initial_state.slotOf[PrimaryTask[First(Slots)]] = First(Slots)
    BY <1>2, <1>4, <1>6
  <2>2. initial_state.pass = "A"
    BY DEF initial_state
  <2> QED
    BY <1>1, <1>6, <2>1, <2>2 DEF NoItem, Item, Items, Passes
<1> QED
  BY <1>2, <1>4, <1>5, <1>7 DEF initial_state

\* What assigning one field of a state gives.
LEMMA SetActive ==
  ASSUME NEW m \in States, NEW A \in SUBSET Tasks
  PROVE  LET n == [m EXCEPT !.active = A]
         IN  /\ n \in States /\ n.active = A
             /\ n.slotOf = m.slotOf /\ n.current = m.current /\ n.success = m.success
  BY DEF States

LEMMA SetStatus ==
  ASSUME NEW m \in States, NEW st \in RunStatuses
  PROVE  LET n == [m EXCEPT !.status = st]
         IN  /\ n \in States /\ n.active = m.active
             /\ n.slotOf = m.slotOf /\ n.current = m.current /\ n.success = m.success
  BY DEF States

LEMMA SetPass ==
  ASSUME NEW m \in States, NEW p \in Passes
  PROVE  LET n == [m EXCEPT !.pass = p]
         IN  /\ n \in States /\ n.active = m.active
             /\ n.slotOf = m.slotOf /\ n.current = m.current /\ n.success = m.success
  BY DEF States

LEMMA ScanKeepsPlaces ==
  ASSUME NEW m \in States
  PROVE  LET n == pass_a_scan(m)
         IN  /\ n \in States /\ n.active = m.active /\ n.pass = m.pass
             /\ n.slotOf = m.slotOf /\ n.current = m.current /\ n.success = m.success
             /\ n.first = m.first
<1>1. GivenUp(m) \subseteq Slots
  BY DEF GivenUp, OpenSlots
<1> QED
  BY <1>1 DEF pass_a_scan, States

\* Counting a row changes neither the places nor the reservations.
LEMMA ApplyKeepsPlaces ==
  ASSUME NEW m \in States, NEW i \in Nat, NEW row \in Rows, NEW st \in RowStatuses
  PROVE  LET n == apply_attempt(m, i, row, st)
         IN  /\ n \in States /\ n.active = m.active
             /\ n.slotOf = m.slotOf /\ n.current = m.current
             /\ n.success \subseteq m.success \cup {row.task}
<1> DEFINE n == apply_attempt(m, i, row, st)
           t == row.task
<1>1. t \in Tasks /\ row.slot \in Slots
  BY DEF Rows
<1>2. /\ m.first \in [Tasks -> Nat] /\ m.post \in [Tasks -> Nat]
      /\ m.bTries \in [Tasks -> Nat] /\ m.demos \in [Tasks -> Nat]
      /\ m.success \subseteq Tasks /\ m.bDone \subseteq Tasks
      /\ m.fulfilled \subseteq Slots /\ m.processed \subseteq Nat
  BY DEF States
<1>3. \A P \in BOOLEAN, k \in Nat : BumpIf(P, k) \in Nat
  BY DEF BumpIf
<1>4. n \in [status : {m.status}, pass : {m.pass}, current : {m.current},
             fulfilled : SUBSET Slots, exhausted : {m.exhausted},
             slotOf : {m.slotOf}, first : [Tasks -> Nat], post : [Tasks -> Nat],
             bTries : [Tasks -> Nat], demos : [Tasks -> Nat],
             success : SUBSET (m.success \cup {t}), bDone : SUBSET Tasks,
             processed : SUBSET Nat, active : {m.active}]
  <2>1. n.first \in [Tasks -> Nat] /\ n.post \in [Tasks -> Nat]
    BY <1>1, <1>2 DEF apply_attempt, States, BumpIf
  <2>2. n.bTries \in [Tasks -> Nat] /\ n.demos \in [Tasks -> Nat]
    BY <1>1, <1>2 DEF apply_attempt, States, BumpIf
  <2>3. n.success \in SUBSET (m.success \cup {t}) /\ n.bDone \in SUBSET Tasks
    BY <1>1, <1>2 DEF apply_attempt, States
  <2>4. n.fulfilled \in SUBSET Slots /\ n.processed \in SUBSET Nat
    BY <1>1, <1>2 DEF apply_attempt, States
  <2>5. n = [x \in DOMAIN m |-> n[x]]
    BY ZenonT(40) DEF apply_attempt
  <2>6. DOMAIN m = {"status", "pass", "current", "fulfilled", "exhausted", "slotOf",
                    "first", "post", "bTries", "demos", "success", "bDone",
                    "processed", "active"}
    BY DEF States
  <2>7. /\ n.status = m.status /\ n.pass = m.pass /\ n.current = m.current
        /\ n.exhausted = m.exhausted /\ n.slotOf = m.slotOf /\ n.active = m.active
    BY DEF apply_attempt, States
  <2> HIDE DEF n
  <2> QED
    BY <2>1, <2>2, <2>3, <2>4, <2>5, <2>6, <2>7
<1> HIDE DEF n
<1>5. m.success \cup {t} \subseteq Tasks
  BY <1>1, <1>2
<1>6. n \in States
  BY <1>4, <1>5 DEF States
<1>7. /\ n.active = m.active /\ n.slotOf = m.slotOf /\ n.current = m.current
      /\ n.success \subseteq m.success \cup {t}
  BY <1>4
<1> QED
  BY <1>6, <1>7 DEF n

----------------------------------------------------------------------------
(* Lemmas about the attempts table and the executor.                       *)

\* Changing fields of one row leaves a table with the same tasks and slots.
SameShape(r, s) ==
  /\ r \in Seq(Rows) /\ DOMAIN r = DOMAIN s
  /\ \A j \in DOMAIN s : r[j].task = s[j].task /\ r[j].slot = s[j].slot

LEMMA TableByRows ==
  ASSUME NEW s \in Seq(Rows), NEW r, r = [j \in DOMAIN s |-> r[j]],
         \A j \in DOMAIN s : /\ r[j] \in Rows
                             /\ r[j].task = s[j].task /\ r[j].slot = s[j].slot
  PROVE  SameShape(r, s)
<1>1. Len(s) \in Nat /\ DOMAIN s = 1..Len(s)
  OBVIOUS
<1>2. r \in [1..Len(s) -> Rows]
  BY <1>1
<1>3. r \in Seq(Rows)
  BY <1>1, <1>2, SeqDef
<1> QED
  BY <1>3 DEF SameShape

LEMMA SetRowStatus ==
  ASSUME NEW s \in Seq(Rows), NEW i, NEW st \in RowStatuses
  PROVE  SameShape([s EXCEPT ![i].status = st], s)
<1> DEFINE r == [s EXCEPT ![i].status = st]
<1>1. \A j \in DOMAIN s : s[j] \in Rows
  OBVIOUS
<1>2. \A j \in DOMAIN s : r[j] = IF j = i THEN [s[j] EXCEPT !.status = st] ELSE s[j]
  OBVIOUS
<1>3. \A j \in DOMAIN s : /\ r[j] \in Rows
                          /\ r[j].task = s[j].task /\ r[j].slot = s[j].slot
  BY <1>1, <1>2 DEF Rows
<1>4. r = [j \in DOMAIN s |-> r[j]]
  OBVIOUS
<1> QED
  BY <1>3, <1>4, TableByRows

LEMMA SetRowFiles ==
  ASSUME NEW s \in Seq(Rows), NEW i
  PROVE  SameShape([s EXCEPT ![i].files = @ + 1], s)
<1> DEFINE r == [s EXCEPT ![i].files = @ + 1]
<1>1. \A j \in DOMAIN s : s[j] \in Rows
  OBVIOUS
<1>2. \A j \in DOMAIN s : r[j] = IF j = i THEN [s[j] EXCEPT !.files = @ + 1] ELSE s[j]
  OBVIOUS
<1>3. \A j \in DOMAIN s : /\ r[j] \in Rows
                          /\ r[j].task = s[j].task /\ r[j].slot = s[j].slot
  <2> SUFFICES ASSUME NEW j \in DOMAIN s
               PROVE  /\ r[j] \in Rows
                      /\ r[j].task = s[j].task /\ r[j].slot = s[j].slot
    OBVIOUS
  <2> HIDE DEF r
  <2>1. s[j] \in Rows /\ s[j].files + 1 \in Nat
    BY <1>1 DEF Rows
  <2> QED
    BY <1>2, <2>1 DEF Rows
<1>4. r = [j \in DOMAIN s |-> r[j]]
  OBVIOUS
<1> QED
  BY <1>3, <1>4, TableByRows

LEMMA SetRowWork ==
  ASSUME NEW s \in Seq(Rows), NEW i
  PROVE  SameShape([s EXCEPT ![i].work = TRUE], s)
<1> DEFINE r == [s EXCEPT ![i].work = TRUE]
<1>1. \A j \in DOMAIN s : s[j] \in Rows
  OBVIOUS
<1>2. \A j \in DOMAIN s : r[j] = IF j = i THEN [s[j] EXCEPT !.work = TRUE] ELSE s[j]
  OBVIOUS
<1>3. \A j \in DOMAIN s : /\ r[j] \in Rows
                          /\ r[j].task = s[j].task /\ r[j].slot = s[j].slot
  BY <1>1, <1>2 DEF Rows
<1>4. r = [j \in DOMAIN s |-> r[j]]
  OBVIOUS
<1> QED
  BY <1>3, <1>4, TableByRows

LEMMA SetRowOutcome ==
  ASSUME TypeOK, NEW i, NEW st \in RowStatuses, NEW b \in Results \cup {NoPurchase}
  PROVE  LET r == save_attempt(i, st, b)
         IN  /\ SameShape(r, rows)
             /\ \A j \in DOMAIN rows : r[j].work = rows[j].work
             /\ \A j \in DOMAIN rows : r[j].status \in {rows[j].status, st}
<1> DEFINE r == save_attempt(i, st, b)
<1>1. rows \in Seq(Rows) /\ \A j \in DOMAIN rows : rows[j] \in Rows
  BY DEF TypeOK
<1>2. \A j \in DOMAIN rows :
        r[j] = IF j = i THEN [rows[j] EXCEPT !.status = st, !.result = b] ELSE rows[j]
  BY DEF save_attempt
<1>3. \A j \in DOMAIN rows :
        /\ r[j] \in Rows
        /\ r[j].task = rows[j].task /\ r[j].slot = rows[j].slot
        /\ r[j].work = rows[j].work /\ r[j].status \in {rows[j].status, st}
  <2> SUFFICES ASSUME NEW j \in DOMAIN rows
               PROVE  /\ r[j] \in Rows
                      /\ r[j].task = rows[j].task /\ r[j].slot = rows[j].slot
                      /\ r[j].work = rows[j].work
                      /\ r[j].status \in {rows[j].status, st}
    OBVIOUS
  <2> HIDE DEF r
  <2>1. rows[j] \in Rows
    BY <1>1
  <2> QED
    BY <1>2, <2>1 DEF Rows
<1>4. r = [j \in DOMAIN rows |-> r[j]]
  BY DEF save_attempt
<1>5. SameShape(r, rows)
  BY <1>1, <1>3, <1>4, TableByRows
<1> QED
  BY <1>3, <1>5

LEMMA MarkStale ==
  ASSUME TypeOK
  PROVE  SameShape(mark_stale_in_progress, rows)
<1> DEFINE r == mark_stale_in_progress
<1>1. \A j \in DOMAIN rows : rows[j] \in Rows
  BY DEF TypeOK
<1>2. \A j \in DOMAIN rows : /\ r[j] \in Rows
                             /\ r[j].task = rows[j].task /\ r[j].slot = rows[j].slot
  BY <1>1 DEF mark_stale_in_progress, Rows, RowStatuses, InfraStatuses
<1>3. r = [j \in DOMAIN rows |-> r[j]]
  BY DEF mark_stale_in_progress
<1> QED
  BY <1>2, <1>3, TableByRows DEF TypeOK

\* The next row to reconcile is a row.
LEMMA NextRowIsPending ==
  ASSUME TypeOK, Pending # {}
  PROVE  NextRow \in Pending /\ NextRow \in DOMAIN rows /\ NextRow \in Nat
<1>1. DOMAIN rows = 1..Len(rows) /\ Len(rows) \in Nat
  BY DEF TypeOK
<1>2. Pending \subseteq DOMAIN rows
  BY DEF Pending
<1>3. Pending \subseteq Nat
  BY <1>1, <1>2
<1> QED
  BY <1>2, <1>3, FirstIsLeast DEF NextRow

LEMMA VerdictIsStatus ==
  ASSUME TypeOK, NEW i \in DOMAIN rows
  PROVE  Verdict(i) \in RowStatuses
<1>1. rows[i].status \in RowStatuses
  <2>1. rows[i] \in Rows
    BY DEF TypeOK
  <2> QED
    BY <2>1 DEF Rows
<1>2. \A b, prior : verdict(b, prior) \in RowStatuses
  BY DEF verdict, RowStatuses, GenuineStatuses, RejectStatuses
<1> QED
  BY <1>1, <1>2 DEF Verdict

LEMMA IdleIsThread == Idle \in Threads /\ Idle.pc = "free"
  BY InitialState DEF Idle, Thread, Threads

----------------------------------------------------------------------------
(* Frames: what a group of actions has to show.                            *)

\* A step of a thread that stays busy on the same item and touches the table.
LEMMA ThreadFrame ==
  ASSUME IInv, NEW w \in Workers, NEW step \in Threads, WorkerStep(w, step),
         pool[w].pc # "free", step.pc # "free", step.item = pool[w].item,
         rows' \in Seq(Rows), RowsPlaced', Pending \subseteq Pending',
         stop' \in BOOLEAN, faults' \in Nat
  PROVE  IInv'
<1>1. pool' \in [Workers -> Threads]
  BY DEF IInv, TypeOK, WorkerStep
<1>2. /\ \A v \in Workers : pool'[v].item = pool[v].item
      /\ InFlight' = InFlight
  BY DEF IInv, TypeOK, WorkerStep, InFlight
<1>3. UNCHANGED <<saved, pc, stage, mem, picked, userStop, seen, report, crashes,
                  sigints, reruns>>
  BY DEF WorkerStep
<1>4. TypeOK'
  BY <1>1, <1>3 DEF IInv, TypeOK
<1>5. PlacesAgree' /\ PickedReserved'
  BY <1>3 DEF IInv, PlacesAgree, PickedReserved
<1>6. InFlight \subseteq Workers
  BY DEF InFlight
<1>7. ThreadsReserved'
  BY <1>2, <1>3, <1>6 DEF IInv, ThreadsReserved
<1>8. OneFlightPerTask'
  BY <1>2, <1>3, <1>6 DEF IInv, OneFlightPerTask, TasksOf
<1>9. PhaseOK'
  BY <1>2, <1>3 DEF IInv, PhaseOK
<1> QED
  BY <1>4, <1>5, <1>7, <1>8, <1>9 DEF IInv

\* A step of the main thread, or from outside, that leaves the threads alone
\* and takes no item out of the reservations.
LEMMA MainFrame ==
  ASSUME IInv, TypeOK', UNCHANGED <<pool>>,
         SameShape(rows', rows),
         mem'.slotOf = mem.slotOf, mem'.current = mem.current, mem'.active = mem.active,
         saved'.slotOf = mem.slotOf, saved'.current = mem.current,
         saved'.active \in {saved.active, mem.active},
         \A t \in mem'.success \cup saved'.success : mem.slotOf[t] \in Slots,
         pc' = "submit" => pc = "submit" /\ picked' = picked,
         pc' = "commit" => Pending' # {},
         pc' = "down" => pc = "down"
  PROVE  IInv'
<1>1. PlacesAgree'
  BY DEF IInv, PlacesAgree
<1>2. RowsPlaced'
  BY DEF IInv, RowsPlaced, SameShape
<1>3. InFlight' = InFlight /\ InFlight \subseteq Workers
  BY DEF InFlight
<1>4. ThreadsReserved'
  BY <1>3 DEF IInv, ThreadsReserved
<1>5. PickedReserved'
  BY DEF IInv, PickedReserved
<1>6. OneFlightPerTask'
  BY <1>3 DEF IInv, OneFlightPerTask, TasksOf
<1>7. PhaseOK'
  BY <1>3 DEF IInv, PhaseOK
<1> QED
  BY <1>1, <1>2, <1>4, <1>5, <1>6, <1>7 DEF IInv

\* A step after which no thread works.
LEMMA QuietFrame ==
  ASSUME IInv, TypeOK', InFlight' = {},
         SameShape(rows', rows),
         mem'.slotOf = mem.slotOf, mem'.current = mem.current,
         saved'.slotOf = mem.slotOf, saved'.current = mem.current,
         mem'.success \subseteq mem.success \cup saved.success,
         saved'.success \subseteq mem.success \cup saved.success,
         pc' \notin {"submit", "commit"}
  PROVE  IInv'
<1>1. PlacesAgree'
  BY DEF IInv, PlacesAgree
<1>2. RowsPlaced'
  BY DEF IInv, RowsPlaced, SameShape
<1>3. ThreadsReserved' /\ PickedReserved' /\ PhaseOK'
  BY DEF ThreadsReserved, PickedReserved, PhaseOK
<1>4. OneFlightPerTask'
  BY DEF OneFlightPerTask
<1> QED
  BY <1>1, <1>2, <1>3, <1>4 DEF IInv

----------------------------------------------------------------------------
(* The actions of the main thread preserve the invariant.                  *)

LEMMA SameShapeRefl == TypeOK => SameShape(rows, rows)
  BY DEF SameShape, TypeOK

LEMMA BootStep ==
  ASSUME IInv, Boot
  PROVE  IInv'
<1>1. saved \in States /\ TypeOK
  BY DEF IInv, TypeOK
<1>2. /\ saved' \in States /\ saved'.slotOf = saved.slotOf
      /\ saved'.current = saved.current /\ saved'.success = saved.success
  BY <1>1, SetStatus DEF Boot, Resumed, RunStatuses
<1>3. /\ mem' \in States /\ mem'.slotOf = saved.slotOf
      /\ mem'.current = saved.current /\ mem'.success = saved.success
  BY <1>2, SetActive DEF Boot
<1>4. SameShape(rows', rows)
  BY <1>1, MarkStale DEF Boot
<1>5. InFlight' = {}
  BY DEF IInv, PhaseOK, Boot, InFlight
<1>6. TypeOK'
  <2>1. reruns' \in Nat
    BY <1>1 DEF TypeOK, Boot, BumpIf
  <2>2. report' \in [status : RunStatuses \cup {"none", "crashed", "error"},
                    eligible : BOOLEAN]
    BY DEF Boot
  <2>3. rows' \in Seq(Rows)
    BY <1>4 DEF SameShape
  <2> QED
    BY <1>1, <1>2, <1>3, <2>1, <2>2, <2>3 DEF TypeOK, Boot
<1> QED
  BY <1>2, <1>3, <1>4, <1>5, <1>6, QuietFrame DEF IInv, PlacesAgree, Boot

LEMMA ReconcileRowStep ==
  ASSUME IInv, ReconcileRow
  PROVE  IInv'
<1> DEFINE i == NextRow
           n == apply_attempt(mem, i, rows[i], Verdict(i))
<1>1. TypeOK /\ rows \in Seq(Rows) /\ mem \in States
  BY DEF IInv, TypeOK
<1>2. i \in DOMAIN rows /\ i \in Nat
  BY <1>1, NextRowIsPending DEF ReconcileRow
<1>3. rows[i] \in Rows /\ Verdict(i) \in RowStatuses
  BY <1>1, <1>2, VerdictIsStatus
<1>4. /\ n \in States /\ n.active = mem.active
      /\ n.slotOf = mem.slotOf /\ n.current = mem.current
      /\ n.success \subseteq mem.success \cup {rows[i].task}
  BY <1>1, <1>2, <1>3, ApplyKeepsPlaces
<1>5. SameShape(rows', rows)
  BY <1>1, <1>3, SetRowStatus DEF ReconcileRow
<1>6. mem' = n /\ UNCHANGED <<saved, pc, pool, picked>>
  BY DEF ReconcileRow
<1> HIDE DEF n
<1>7. TypeOK'
  BY <1>1, <1>4, <1>5, <1>6 DEF TypeOK, ReconcileRow, SameShape, bounds
<1>8. rows[i].slot \in Slots /\ mem.slotOf[rows[i].task] = rows[i].slot
  BY <1>2, <1>3 DEF IInv, RowsPlaced, Rows
<1>9. pc' # "commit" /\ pc' # "submit" /\ pc' # "down"
  BY DEF ReconcileRow
<1> QED
  BY <1>4, <1>5, <1>6, <1>7, <1>8, <1>9, MainFrame DEF IInv, PlacesAgree

LEMMA PublishAcceptedStep ==
  ASSUME IInv, PublishAccepted
  PROVE  IInv'
<1>1. TypeOK /\ rows \in Seq(Rows)
  BY DEF IInv, TypeOK
<1>2. SameShape(rows', rows)
  BY <1>1, SetRowFiles DEF PublishAccepted
<1>3. TypeOK'
  BY <1>1, <1>2 DEF TypeOK, PublishAccepted, SameShape, bounds
<1>4. Pending' = Pending
  <2>1. \A j \in DOMAIN rows : /\ rows'[j].status = rows[j].status
                               /\ rows'[j].work = rows[j].work
                               /\ rows'[j].task = rows[j].task
    <3> SUFFICES ASSUME NEW j \in DOMAIN rows
                 PROVE  /\ rows'[j].status = rows[j].status
                        /\ rows'[j].work = rows[j].work
                        /\ rows'[j].task = rows[j].task
      OBVIOUS
    <3>1. rows[j] \in Rows
      BY <1>1
    <3>2. rows'[j] = rows[j] \/ rows'[j] = [rows[j] EXCEPT !.files = @ + 1]
      BY <1>1 DEF PublishAccepted
    <3> QED
      BY <3>1, <3>2 DEF Rows
  <2>2. DOMAIN rows' = DOMAIN rows /\ mem' = mem
    BY <1>2 DEF SameShape, PublishAccepted
  <2> QED
    BY <2>1, <2>2 DEF Pending
<1> QED
  BY <1>2, <1>3, <1>4, MainFrame DEF IInv, PlacesAgree, PublishAccepted

LEMMA CommitAcceptedStep ==
  ASSUME IInv, CommitAccepted
  PROVE  IInv'
<1> DEFINE i == NextRow
           n == apply_attempt(mem, i, rows[i], "accepted")
<1>1. TypeOK /\ rows \in Seq(Rows) /\ mem \in States
  BY DEF IInv, TypeOK
<1>2. i \in DOMAIN rows /\ i \in Nat
  BY <1>1, NextRowIsPending DEF CommitAccepted, IInv, PhaseOK
<1>3. rows[i] \in Rows /\ "accepted" \in RowStatuses
  BY <1>1, <1>2 DEF RowStatuses, GenuineStatuses
<1>4. /\ n \in States /\ n.active = mem.active
      /\ n.slotOf = mem.slotOf /\ n.current = mem.current
      /\ n.success \subseteq mem.success \cup {rows[i].task}
  BY <1>1, <1>2, <1>3, ApplyKeepsPlaces
<1>5. SameShape(rows', rows)
  BY <1>1, <1>3, SetRowStatus DEF CommitAccepted
<1>6. mem' = n /\ UNCHANGED <<saved, pool, picked>> /\ pc' = "reconcile"
  BY DEF CommitAccepted
<1> HIDE DEF n
<1>7. TypeOK'
  BY <1>1, <1>4, <1>5, <1>6 DEF TypeOK, CommitAccepted, SameShape, bounds
<1>8. rows[i].slot \in Slots /\ mem.slotOf[rows[i].task] = rows[i].slot
  BY <1>2, <1>3 DEF IInv, RowsPlaced, Rows
<1> QED
  BY <1>4, <1>5, <1>6, <1>7, <1>8, MainFrame DEF IInv, PlacesAgree

LEMMA ReconcileDoneStep ==
  ASSUME IInv, ReconcileDone
  PROVE  IInv'
<1>1. TypeOK'
  BY DEF IInv, TypeOK, ReconcileDone, bounds
<1>2. SameShape(rows', rows)
  BY SameShapeRefl DEF IInv, ReconcileDone
<1> QED
  BY <1>1, <1>2, MainFrame DEF IInv, PlacesAgree, ReconcileDone

\* What is common to the steps of next_work that find no item.
LEMMA NoReservationStep ==
  ASSUME IInv, NEW m \in States, NEW n \in States,
         m.active = mem.active, m.slotOf = mem.slotOf, m.current = mem.current,
         m.success = mem.success,
         n.active = m.active, n.slotOf = m.slotOf, n.current = m.current,
         n.success = m.success,
         mem' = n, pc' \in {"wait", "next_work", "dispatch"},
         UNCHANGED <<rows, saved, stage, picked, pool, stop, userStop, seen, report,
                     bounds>>
  PROVE  IInv'
<1>1. TypeOK'
  BY DEF IInv, TypeOK, bounds
<1>2. SameShape(rows', rows)
  BY SameShapeRefl DEF IInv
<1> QED
  BY <1>1, <1>2, MainFrame DEF IInv, PlacesAgree

LEMMA NoItemYetStep ==
  ASSUME IInv, NEW m \in States, NEW p, Selecting(p), NoItemYet(m),
         m.active = mem.active, m.slotOf = mem.slotOf, m.current = mem.current,
         m.success = mem.success
  PROVE  IInv'
  BY NoReservationStep DEF Selecting, NoItemYet

LEMMA NextPassStep ==
  ASSUME IInv, NEW m \in States, NEW p, NEW q \in Passes, Selecting(p), NextPass(m, q),
         m.active = mem.active, m.slotOf = mem.slotOf, m.current = mem.current,
         m.success = mem.success
  PROVE  IInv'
<1> DEFINE n == [m EXCEPT !.pass = q]
<1>1. /\ n \in States /\ n.active = m.active
      /\ n.slotOf = m.slotOf /\ n.current = m.current /\ n.success = m.success
  BY SetPass
<1>2. mem' = n
  BY DEF NextPass
<1> HIDE DEF n
<1> QED
  BY <1>1, <1>2, NoReservationStep DEF Selecting, NextPass

LEMMA SetTerminalStep ==
  ASSUME IInv, NEW m \in States, NEW st \in RunStatuses, SetTerminal(m, st),
         m.active = mem.active, m.slotOf = mem.slotOf, m.current = mem.current,
         m.success = mem.success,
         UNCHANGED <<rows, stage, pool, stop, userStop, seen, report, bounds>>
  PROVE  IInv'
<1> DEFINE n == [m EXCEPT !.status = st]
<1>1. /\ n \in States /\ n.active = m.active
      /\ n.slotOf = m.slotOf /\ n.current = m.current /\ n.success = m.success
  BY SetStatus
<1>2. mem' = n
  BY DEF SetTerminal
<1> HIDE DEF n
<1> QED
  BY <1>1, <1>2, NoReservationStep DEF SetTerminal

\* A reservation: the task has its slot, is new among the reserved ones, and is
\* in the ledger before anything else happens.
LEMMA ReserveStep ==
  ASSUME IInv, NEW m \in States, NEW t \in Tasks, NEW p, Selecting(p), Reserve(m, t),
         m.active = mem.active, m.success = mem.success,
         m.slotOf[t] \in Slots,
         \A s \in Slots : m.slotOf[m.current[s]] = s,
         \A u \in Tasks : mem.slotOf[u] \in Slots => m.slotOf[u] = mem.slotOf[u],
         t \notin TasksOf(InFlight)
  PROVE  IInv'
<1> DEFINE n == [m EXCEPT !.active = @ \cup {t}]
<1>1. m.active \cup {t} \in SUBSET Tasks
  BY DEF States
<1>2. /\ n \in States /\ n.active = m.active \cup {t}
      /\ n.slotOf = m.slotOf /\ n.current = m.current /\ n.success = m.success
  BY <1>1, SetActive
<1>3. mem' = n /\ saved' = n /\ picked' = Item(m, t) /\ pc' = "submit"
  BY DEF Reserve
<1>4. UNCHANGED <<rows, stage, pool, stop, userStop, seen, report, bounds>>
  BY DEF Selecting
<1> HIDE DEF n
<1>5. picked' \in Items /\ picked'.task = t /\ picked'.slot = m.slotOf[t]
  BY <1>3 DEF Item, Items, States
<1>6. TypeOK'
  BY <1>2, <1>3, <1>4, <1>5 DEF IInv, TypeOK, bounds
<1>7. InFlight' = InFlight /\ InFlight \subseteq Workers /\ TasksOf(InFlight)' = TasksOf(InFlight)
  BY <1>4 DEF InFlight, TasksOf
<1>8. PlacesAgree'
  <2>1. mem.success \subseteq Tasks
    BY DEF IInv, TypeOK, States
  <2> QED
    BY <1>2, <1>3, <2>1 DEF IInv, PlacesAgree
<1>9. RowsPlaced'
  <2> SUFFICES ASSUME NEW i \in DOMAIN rows PROVE m.slotOf[rows[i].task] = rows[i].slot
    BY <1>2, <1>3, <1>4 DEF RowsPlaced
  <2>1. rows[i] \in Rows
    BY DEF IInv, TypeOK
  <2>2. rows[i].task \in Tasks /\ rows[i].slot \in Slots
    BY <2>1 DEF Rows
  <2> QED
    BY <2>2 DEF IInv, RowsPlaced
<1>10. ThreadsReserved'
  <2> SUFFICES ASSUME NEW w \in InFlight
               PROVE  /\ m.slotOf[pool[w].item.task] = pool[w].item.slot
                      /\ pool[w].item.task \in m.active
    BY <1>2, <1>3, <1>4, <1>7 DEF ThreadsReserved
  <2>1. pool[w].item \in Items
    BY <1>7 DEF IInv, TypeOK, Threads
  <2>2. pool[w].item.task \in Tasks /\ pool[w].item.slot \in Slots
    BY <2>1 DEF Items
  <2> QED
    BY <2>2 DEF IInv, ThreadsReserved
<1>11. PickedReserved'
  BY <1>2, <1>3, <1>5 DEF PickedReserved
<1>12. OneFlightPerTask'
  BY <1>4, <1>5, <1>7 DEF IInv, OneFlightPerTask
<1>13. PhaseOK'
  BY <1>3 DEF PhaseOK
<1> QED
  BY <1>6, <1>8, <1>9, <1>10, <1>11, <1>12, <1>13 DEF IInv

\* What is in flight is reserved.
LEMMA FlightsAreReserved == IInv => TasksOf(InFlight) \subseteq mem.active
  BY DEF IInv, ThreadsReserved, TasksOf

LEMMA TargetReachedStep ==
  ASSUME IInv, TargetReached
  PROVE  IInv'
<1>1. mem \in States /\ "complete" \in RunStatuses
  BY DEF IInv, TypeOK, RunStatuses
<1> QED
  BY <1>1, SetTerminalStep DEF TargetReached

LEMMA SmokeEndStep ==
  ASSUME IInv, SmokeEnd
  PROVE  IInv'
<1>1. mem \in States /\ "quota_unmet" \in RunStatuses
  BY DEF IInv, TypeOK, RunStatuses
<1>2. UNCHANGED <<rows, stage, pool, stop, userStop, seen, report, bounds>>
  BY DEF SmokeEnd, Selecting
<1> DEFINE m == pass_a_scan(mem)
<1>3. /\ m \in States /\ m.active = mem.active /\ m.slotOf = mem.slotOf
      /\ m.current = mem.current /\ m.success = mem.success
  BY <1>1, ScanKeepsPlaces
<1>4. SetTerminal(m, "quota_unmet")
  BY DEF SmokeEnd
<1> HIDE DEF m
<1> QED
  BY <1>1, <1>2, <1>3, <1>4, SetTerminalStep

\* The task Pass A serves a slot with, the reserve task included.
LEMMA ServeKeepsPlaces ==
  ASSUME IInv, NEW s \in Servable(mem)
  PROVE  LET m == pass_a_serve(pass_a_scan(mem), s)
         IN  /\ m \in States /\ m.active = mem.active /\ m.success = mem.success
             /\ m.current[s] \in Tasks /\ m.slotOf[m.current[s]] = s
             /\ \A u \in Slots : m.slotOf[m.current[u]] = u
             /\ \A u \in Tasks : mem.slotOf[u] \in Slots => m.slotOf[u] = mem.slotOf[u]
             /\ m.current[s] \notin TasksOf(InFlight)
<1> DEFINE a == pass_a_scan(mem)
           m == pass_a_serve(a, s)
<1>1. /\ mem \in States /\ s \in Slots /\ mem.current[s] \notin mem.active
      /\ \A u \in Slots : mem.slotOf[mem.current[u]] = u
  BY DEF IInv, TypeOK, PlacesAgree, Servable, OpenSlots
<1>2. /\ a \in States /\ a.active = mem.active /\ a.slotOf = mem.slotOf
      /\ a.current = mem.current /\ a.success = mem.success /\ a.first = mem.first
  BY <1>1, ScanKeepsPlaces
<1> HIDE DEF a
<1>3. CASE HasRetry(a, s)
  <2>1. m = a
    BY <1>3 DEF pass_a_serve
  <2>2. a.current[s] \in Tasks
    BY <1>1, <1>2 DEF States
  <2>3. a.current[s] \notin TasksOf(InFlight)
    BY <1>1, <1>2, FlightsAreReserved
  <2> HIDE DEF m
  <2> QED
    BY <1>1, <1>2, <2>1, <2>2, <2>3 DEF a, m
<1>4. CASE ~HasRetry(a, s)
  <2> DEFINE queue == ReserveQueue[Stratum[s]]
             free == UnusedReserve(a, s)
             t == queue[First(free)]
  <2>1. queue \in Seq(Tasks) /\ Len(queue) \in Nat
    <3>1. Stratum[s] \in Strata
      BY <1>1, ShapeAssumption
    <3>2. queue \in Seq(Tasks)
      BY <3>1, ShapeAssumption
    <3> QED
      BY <3>2, LenProperties
  <2>2. free = UnusedReserve(mem, s) /\ free # {}
    <3>1. free = UnusedReserve(mem, s)
      BY <1>2 DEF UnusedReserve, Known
    <3>2. ~HasRetry(mem, s)
      BY <1>2, <1>4 DEF HasRetry
    <3> QED
      BY <3>1, <3>2 DEF Servable
  <2>3. First(free) \in free
    <3>1. free \subseteq 1..Len(queue) /\ free \subseteq Nat
      BY <2>1 DEF UnusedReserve
    <3> HIDE DEF free
    <3> QED
      BY <2>2, <3>1, FirstIsLeast
  <2>4. t \in Tasks /\ a.slotOf[t] = NoSlot
    <3>1. First(free) \in 1..Len(queue) /\ t \notin Known(a)
      BY <2>3 DEF UnusedReserve
    <3>2. t \in Tasks
      BY <2>1, <3>1
    <3> QED
      BY <3>1, <3>2 DEF Known
  <2> HIDE DEF t
  <2>5. m = [a EXCEPT !.slotOf[t] = s, !.current[s] = t]
    BY <1>4 DEF pass_a_serve, allocate_reserve, t
  <2> HIDE DEF m
  <2>6. /\ m \in States /\ m.active = a.active /\ m.success = a.success
        /\ m.slotOf = [a.slotOf EXCEPT ![t] = s]
        /\ m.current = [a.current EXCEPT ![s] = t]
    <3>1. [a.slotOf EXCEPT ![t] = s] \in [Tasks -> Slots \cup {NoSlot}]
      BY <1>1, <1>2 DEF States
    <3>2. [a.current EXCEPT ![s] = t] \in [Slots -> Tasks]
      BY <1>2, <2>4 DEF States
    <3>3. m = [a EXCEPT !.slotOf = [a.slotOf EXCEPT ![t] = s],
                        !.current = [a.current EXCEPT ![s] = t]]
      BY <1>2, <2>5 DEF States
    <3> QED
      BY <1>2, <3>1, <3>2, <3>3 DEF States
  <2>7. \A u \in Slots : u # NoSlot
    BY ShapeAssumption DEF NoSlot
  <2>8. \A u \in Tasks : mem.slotOf[u] \in Slots => u # t /\ m.slotOf[u] = mem.slotOf[u]
    BY <1>2, <2>4, <2>6, <2>7 DEF States
  <2>9. m.current[s] = t /\ m.slotOf[t] = s
    BY <1>1, <1>2, <2>4, <2>6 DEF States
  <2>10. \A u \in Slots : m.slotOf[m.current[u]] = u
    <3> SUFFICES ASSUME NEW u \in Slots, u # s PROVE m.slotOf[m.current[u]] = u
      BY <2>9
    <3>1. m.current[u] = mem.current[u] /\ mem.current[u] \in Tasks
      BY <1>2, <2>6 DEF States
    <3> QED
      BY <1>1, <2>8, <3>1
  <2>11. t \notin TasksOf(InFlight)
    <3> SUFFICES ASSUME NEW w \in InFlight PROVE pool[w].item.task # t
      BY DEF TasksOf
    <3>1. pool[w].item \in Items
      BY DEF IInv, TypeOK, Threads, InFlight
    <3>2. pool[w].item.slot \in Slots
      BY <3>1 DEF Items
    <3> QED
      BY <1>2, <2>4, <2>7, <3>2 DEF IInv, ThreadsReserved
  <2> QED
    BY <1>2, <2>4, <2>6, <2>8, <2>9, <2>10, <2>11 DEF a, m
<1> QED
  BY <1>3, <1>4

LEMMA PassAStep ==
  ASSUME IInv, PassA
  PROVE  IInv'
<1> DEFINE a == pass_a_scan(mem)
<1>1. mem \in States /\ Selecting("A") /\ "B" \in Passes
  BY DEF IInv, TypeOK, PassA, Passes
<1>2. /\ a \in States /\ a.active = mem.active /\ a.slotOf = mem.slotOf
      /\ a.current = mem.current /\ a.success = mem.success
  BY <1>1, ScanKeepsPlaces
<1>3. \/ \E s \in pass_a_work(mem) :
           LET m == pass_a_serve(a, s) IN Reserve(m, m.current[s])
      \/ NoItemYet(a)
      \/ NextPass(a, "B")
  BY DEF PassA
<1>4. CASE \E s \in pass_a_work(mem) :
             LET m == pass_a_serve(a, s) IN Reserve(m, m.current[s])
  <2>1. PICK s \in Servable(mem) :
          LET m == pass_a_serve(a, s) IN Reserve(m, m.current[s])
    BY <1>4 DEF pass_a_work
  <2> DEFINE m == pass_a_serve(a, s)
  <2>2. s \in Slots
    BY DEF Servable, OpenSlots
  <2>3. /\ m \in States /\ m.active = mem.active /\ m.success = mem.success
        /\ m.current[s] \in Tasks /\ m.slotOf[m.current[s]] = s
        /\ \A u \in Slots : m.slotOf[m.current[u]] = u
        /\ \A u \in Tasks : mem.slotOf[u] \in Slots => m.slotOf[u] = mem.slotOf[u]
        /\ m.current[s] \notin TasksOf(InFlight)
    BY ServeKeepsPlaces
  <2>4. Reserve(m, m.current[s])
    BY <2>1
  <2> HIDE DEF m
  <2> QED
    BY <1>1, <2>2, <2>3, <2>4, ReserveStep
<1> HIDE DEF a
<1>5. CASE NoItemYet(a)
  BY <1>1, <1>2, <1>5, NoItemYetStep
<1>6. CASE NextPass(a, "B")
  BY <1>1, <1>2, <1>6, NextPassStep
<1> QED
  BY <1>3, <1>4, <1>5, <1>6

\* A success task that is not reserved can be reserved where it is.
LEMMA ReserveSuccessStep ==
  ASSUME IInv, NEW t \in mem.success \ mem.active, NEW p, Selecting(p), Reserve(mem, t)
  PROVE  IInv'
<1>1. mem \in States /\ t \in Tasks
  BY DEF IInv, TypeOK, States
<1>2. /\ mem.slotOf[t] \in Slots
      /\ \A s \in Slots : mem.slotOf[mem.current[s]] = s
  BY DEF IInv, PlacesAgree
<1>3. t \notin TasksOf(InFlight)
  BY FlightsAreReserved
<1> QED
  BY <1>1, <1>2, <1>3, ReserveStep

LEMMA PassBStep ==
  ASSUME IInv, PassB
  PROVE  IInv'
<1>1. mem \in States /\ Selecting("B") /\ "C" \in Passes
  BY DEF IInv, TypeOK, PassB, Passes
<1>2. CASE \E t \in pass_b_work(mem) : Reserve(mem, t)
  <2>1. pass_b_work(mem) \subseteq mem.success \ mem.active
    BY DEF pass_b_work, PassBEligible
  <2> QED
    BY <1>1, <1>2, <2>1, ReserveSuccessStep
<1>3. CASE NoItemYet(mem)
  BY <1>1, <1>3, NoItemYetStep
<1>4. CASE NextPass(mem, "C")
  BY <1>1, <1>4, NextPassStep
<1> QED
  BY <1>2, <1>3, <1>4 DEF PassB

LEMMA PassCStep ==
  ASSUME IInv, PassC
  PROVE  IInv'
<1>1. mem \in States /\ Selecting("C") /\ "quota_unmet" \in RunStatuses
  BY DEF IInv, TypeOK, PassC, RunStatuses
<1>2. CASE \E t \in pass_c_work(mem) : Reserve(mem, t)
  <2>1. pass_c_work(mem) \subseteq mem.success \ mem.active
    BY DEF pass_c_work, PassCEligible
  <2> QED
    BY <1>1, <1>2, <2>1, ReserveSuccessStep
<1>3. CASE NoItemYet(mem)
  BY <1>1, <1>3, NoItemYetStep
<1>4. CASE SetTerminal(mem, "quota_unmet")
  <2>1. UNCHANGED <<rows, stage, pool, stop, userStop, seen, report, bounds>>
    BY <1>1 DEF Selecting
  <2> QED
    BY <1>1, <1>4, <2>1, SetTerminalStep
<1> QED
  BY <1>2, <1>3, <1>4 DEF PassC

LEMMA SubmitStep ==
  ASSUME IInv, Submit
  PROVE  IInv'
<1>1. PICK w \in Workers \ InFlight : pool' = [pool EXCEPT ![w] = Thread("queued", picked)]
  BY DEF Submit
<1>2. /\ UNCHANGED <<rows, saved, stage, mem, stop, userStop, seen, report, bounds>>
      /\ pc = "submit" /\ pc' = "dispatch" /\ picked' = NoItem
  BY DEF Submit, ledger
<1>3. /\ Thread("queued", picked) \in Threads
      /\ Thread("queued", picked).pc # "free" /\ Thread("queued", picked).item = picked
  BY DEF IInv, TypeOK, Thread, Threads
<1>4. pool' \in [Workers -> Threads]
  BY <1>1, <1>3 DEF IInv, TypeOK
<1>5. /\ InFlight' = InFlight \cup {w} /\ pool'[w].item = picked
      /\ \A v \in InFlight : pool'[v] = pool[v]
  BY <1>1, <1>3 DEF InFlight, IInv, TypeOK
<1>6. NoItem \in Items
  BY InitialState
<1>7. TypeOK'
  BY <1>2, <1>4, <1>6 DEF IInv, TypeOK, bounds
<1>8. PlacesAgree' /\ RowsPlaced'
  BY <1>2 DEF IInv, PlacesAgree, RowsPlaced
<1>9. ThreadsReserved'
  <2> SUFFICES ASSUME NEW v \in InFlight'
               PROVE  /\ mem.slotOf[pool'[v].item.task] = pool'[v].item.slot
                      /\ pool'[v].item.task \in mem.active
                      /\ pool'[v].item.task \in saved.active
    BY <1>2 DEF ThreadsReserved
  <2>1. CASE v \in InFlight
    BY <1>5, <2>1 DEF IInv, ThreadsReserved
  <2>2. CASE v = w
    BY <1>2, <1>5, <2>2 DEF IInv, PickedReserved
  <2> QED
    BY <1>5, <2>1, <2>2
<1>10. OneFlightPerTask'
  BY <1>2, <1>5 DEF IInv, OneFlightPerTask, TasksOf
<1>11. PickedReserved' /\ PhaseOK'
  BY <1>2 DEF PickedReserved, PhaseOK
<1> QED
  BY <1>7, <1>8, <1>9, <1>10, <1>11 DEF IInv

LEMMA TasksOfTyped ==
  ASSUME IInv, NEW W \in SUBSET Workers
  PROVE  TasksOf(W) \in SUBSET Tasks
<1>1. \A w \in W : pool[w].item \in Items
  BY DEF IInv, TypeOK, Threads
<1> QED
  BY <1>1 DEF TasksOf, Items

\* Setting the reservations to the tasks still in flight.
LEMMA KeepFlightsStep ==
  ASSUME IInv, NEW W \in SUBSET InFlight,
         mem' = [mem EXCEPT !.active = TasksOf(W)], saved' = mem',
         InFlight' = W, \A w \in W : pool'[w] = pool[w],
         pool' \in [Workers -> Threads],
         pc' \in {"dispatch", "reconcile"}, stage' \in {"boot", "loop", "repair"},
         picked' \in Items, stop' \in BOOLEAN, seen' \subseteq {"recoverable", "permanent"},
         UNCHANGED <<rows, userStop, report, bounds>>
  PROVE  IInv'
<1>1. TasksOf(W) \in SUBSET Tasks
  BY TasksOfTyped DEF InFlight
<1>2. mem \in States
  BY DEF IInv, TypeOK
<1>3. /\ mem' \in States /\ mem'.active = TasksOf(W) /\ mem'.slotOf = mem.slotOf
      /\ mem'.current = mem.current /\ mem'.success = mem.success
  BY <1>1, <1>2, SetActive
<1>4. TypeOK'
  BY <1>3 DEF IInv, TypeOK, bounds
<1>5. PlacesAgree' /\ RowsPlaced'
  BY <1>3 DEF IInv, PlacesAgree, RowsPlaced
<1>6. ThreadsReserved'
  BY <1>3 DEF IInv, ThreadsReserved, TasksOf
<1>7. OneFlightPerTask'
  BY DEF IInv, OneFlightPerTask
<1>8. PickedReserved' /\ PhaseOK'
  BY DEF PickedReserved, PhaseOK
<1> QED
  BY <1>4, <1>5, <1>6, <1>7, <1>8 DEF IInv

LEMMA WithdrawReservationStep ==
  ASSUME IInv, WithdrawReservation
  PROVE  IInv'
<1>1. InFlight' = InFlight /\ pool' \in [Workers -> Threads] /\ NoItem \in Items
  BY InitialState DEF IInv, TypeOK, WithdrawReservation, InFlight
<1>2. stage' \in {"boot", "loop", "repair"} /\ stop' \in BOOLEAN
      /\ seen' \subseteq {"recoverable", "permanent"}
  BY DEF IInv, TypeOK, WithdrawReservation
<1> QED
  BY <1>1, <1>2, KeepFlightsStep DEF WithdrawReservation

LEMMA CollectStep ==
  ASSUME IInv, Collect
  PROVE  IInv'
<1> DEFINE W == InFlight \ Finished
<1>1. pool' = [w \in Workers |-> IF w \in Finished THEN Idle ELSE pool[w]]
  BY DEF Collect
<1>2. pool' \in [Workers -> Threads]
  BY <1>1, IdleIsThread DEF IInv, TypeOK
<1>3. InFlight' = W /\ \A w \in W : pool'[w] = pool[w]
  BY <1>1, IdleIsThread DEF InFlight
<1>4. stop' \in BOOLEAN /\ seen' \subseteq {"recoverable", "permanent"}
  BY DEF IInv, TypeOK, Collect
<1>5. picked' \in Items
  BY DEF IInv, TypeOK, Collect
<1>6. /\ mem' = [mem EXCEPT !.active = TasksOf(W)] /\ saved' = mem'
      /\ pc' = "reconcile" /\ stage' = "loop"
      /\ UNCHANGED <<rows, userStop, report, bounds>>
  BY DEF Collect
<1> HIDE DEF W
<1> QED
  <2>1. W \in SUBSET InFlight
    BY DEF W
  <2> QED
    BY <1>2, <1>3, <1>4, <1>5, <1>6, <2>1, KeepFlightsStep

\* A process that ends takes its threads with it and leaves saved'.
LEMMA ExitStep ==
  ASSUME IInv, NEW st \in RunStatuses \cup {"none", "crashed", "error"},
         NEW e \in BOOLEAN, Exit(st, e),
         saved' \in States, saved'.slotOf = mem.slotOf, saved'.current = mem.current,
         saved'.success \subseteq mem.success \cup saved.success,
         UNCHANGED rows,
         faults' \in Nat, crashes' \in Nat, sigints' \in Nat, reruns' \in Nat
  PROVE  IInv'
<1>1. /\ mem' = saved' /\ pc' = "down" /\ stage' = "boot" /\ picked' = NoItem
      /\ pool' = [w \in Workers |-> Idle] /\ stop' = FALSE /\ userStop' = FALSE
      /\ seen' = {} /\ report' = [status |-> st, eligible |-> e]
  BY DEF Exit
<1>2. InFlight' = {} /\ pool' \in [Workers -> Threads]
  BY <1>1, IdleIsThread DEF InFlight
<1>3. report' \in [status : RunStatuses \cup {"none", "crashed", "error"},
                  eligible : BOOLEAN]
  BY <1>1
<1>4. rows' \in Seq(Rows) /\ SameShape(rows', rows)
  BY SameShapeRefl DEF IInv, TypeOK
<1>5. TypeOK'
  BY <1>1, <1>2, <1>3, <1>4, InitialState DEF TypeOK
<1> QED
  BY <1>1, <1>2, <1>4, <1>5, QuietFrame

LEMMA FinishStep ==
  ASSUME IInv, Finish
  PROVE  IInv'
<1> DEFINE stopped == stop /\ mem.status = "in_progress"
           st == IF stopped THEN "stopped" ELSE mem.status
           e == stopped /\ auto_resume_eligible
<1>1. mem \in States /\ saved \in States /\ stop \in BOOLEAN
  BY DEF IInv, TypeOK
<1>2. Exit(st, e) /\ UNCHANGED <<rows, bounds>>
  BY DEF Finish
<1>3. st \in RunStatuses /\ e \in BOOLEAN
  BY <1>1 DEF States, RunStatuses
<1>4. /\ saved' \in States /\ saved'.slotOf = mem.slotOf /\ saved'.current = mem.current
      /\ saved'.success \subseteq mem.success \cup saved.success
  <2>1. CASE stopped
    <3> DEFINE n == [mem EXCEPT !.status = "stopped"]
    <3>1. /\ n \in States /\ n.slotOf = mem.slotOf /\ n.current = mem.current
          /\ n.success = mem.success
      BY <1>1, SetStatus DEF RunStatuses
    <3>2. saved' = n
      BY <2>1 DEF Finish
    <3> HIDE DEF n
    <3> QED
      BY <3>1, <3>2
  <2>2. CASE ~stopped
    BY <1>1, <2>2 DEF Finish, IInv, PlacesAgree
  <2> QED
    BY <2>1, <2>2
<1>5. faults' \in Nat /\ crashes' \in Nat /\ sigints' \in Nat /\ reruns' \in Nat
  BY <1>2 DEF IInv, TypeOK, bounds
<1> HIDE DEF st, e
<1> QED
  BY <1>2, <1>3, <1>4, <1>5, ExitStep

LEMMA RepairDoneStep ==
  ASSUME IInv, RepairDone
  PROVE  IInv'
<1> DEFINE n == [mem EXCEPT !.status = "stopped"]
<1>1. mem \in States
  BY DEF IInv, TypeOK
<1>2. /\ n \in States /\ n.slotOf = mem.slotOf /\ n.current = mem.current
      /\ n.success = mem.success
  BY <1>1, SetStatus DEF RunStatuses
<1>3. saved' = n /\ Exit("error", FALSE) /\ UNCHANGED <<rows, bounds>>
  BY DEF RepairDone
<1>4. faults' \in Nat /\ crashes' \in Nat /\ sigints' \in Nat /\ reruns' \in Nat
  BY <1>3 DEF IInv, TypeOK, bounds
<1> HIDE DEF n
<1> QED
  BY <1>2, <1>3, <1>4, ExitStep

LEMMA CrashStep ==
  ASSUME IInv, Crash
  PROVE  IInv'
<1>1. saved' = saved /\ UNCHANGED rows /\ Exit("crashed", FALSE)
  BY DEF Crash, ledger
<1>2. faults' \in Nat /\ crashes' \in Nat /\ sigints' \in Nat /\ reruns' \in Nat
  BY DEF IInv, TypeOK, Crash
<1>3. saved \in States /\ saved.slotOf = mem.slotOf /\ saved.current = mem.current
  BY DEF IInv, TypeOK, PlacesAgree
<1> QED
  BY <1>1, <1>2, <1>3, ExitStep

LEMMA MainFaultStep ==
  ASSUME IInv, MainFault
  PROVE  IInv'
<1>1. NoItem \in Items
  BY InitialState
<1>2. TypeOK'
  BY <1>1 DEF IInv, TypeOK, MainFault, ledger
<1>3. SameShape(rows', rows)
  BY SameShapeRefl DEF IInv, MainFault, ledger
<1> QED
  BY <1>2, <1>3, MainFrame DEF IInv, PlacesAgree, MainFault, ledger

LEMMA SigintStep ==
  ASSUME IInv, Sigint
  PROVE  IInv'
<1>1. TypeOK'
  BY DEF IInv, TypeOK, Sigint, ledger
<1>2. SameShape(rows', rows)
  BY SameShapeRefl DEF IInv, Sigint, ledger
<1>3. Pending' = Pending
  BY DEF Sigint, ledger, Pending
<1> QED
  BY <1>1, <1>2, <1>3, MainFrame DEF IInv, PlacesAgree, PhaseOK, Sigint, ledger

LEMMA JoinedStep ==
  ASSUME IInv, Joined
  PROVE  IInv'
<1> DEFINE n == [mem EXCEPT !.active = {}]
<1>1. mem \in States
  BY DEF IInv, TypeOK
<1>2. /\ n \in States /\ n.slotOf = mem.slotOf /\ n.current = mem.current
      /\ n.success = mem.success
  BY <1>1, SetActive
<1>3. /\ mem' = n /\ pool' = [w \in Workers |-> Idle]
      /\ pc' = "reconcile" /\ stage' = "repair"
      /\ UNCHANGED <<ledger, picked, stop, userStop, seen, report, bounds>>
  BY DEF Joined
<1> HIDE DEF n
<1>4. InFlight' = {} /\ pool' \in [Workers -> Threads]
  BY <1>3, IdleIsThread DEF InFlight
<1>5. TypeOK'
  BY <1>2, <1>3, <1>4 DEF IInv, TypeOK, ledger, bounds
<1>6. SameShape(rows', rows)
  BY <1>3, SameShapeRefl DEF IInv, ledger
<1> QED
  BY <1>2, <1>3, <1>4, <1>5, <1>6, QuietFrame DEF IInv, PlacesAgree, ledger

----------------------------------------------------------------------------
(* The actions of the worker threads preserve the invariant.               *)

\* A busy thread moved to another point stays a busy thread.
LEMMA MoveThread ==
  ASSUME IInv, NEW w \in Workers, pool[w].pc # "free",
         NEW p \in {"queued", "started", "rolling", "done"}
  PROVE  LET step == [pool[w] EXCEPT !.pc = p]
         IN  step \in Threads /\ step.pc # "free" /\ step.item = pool[w].item
<1>1. pool[w] \in Threads
  BY DEF IInv, TypeOK
<1> QED
  BY <1>1 DEF Threads

LEMMA EndThread ==
  ASSUME IInv, NEW w \in Workers, pool[w].pc # "free",
         NEW r \in {"ok", "cancelled", "recoverable", "permanent"}
  PROVE  LET step == [pool[w] EXCEPT !.pc = "done", !.result = r]
         IN  step \in Threads /\ step.pc # "free" /\ step.item = pool[w].item
<1>1. pool[w] \in Threads
  BY DEF IInv, TypeOK
<1> QED
  BY <1>1 DEF Threads

\* Leaving the table alone.
LEMMA SameTable ==
  ASSUME IInv, UNCHANGED rows, UNCHANGED mem
  PROVE  rows' \in Seq(Rows) /\ RowsPlaced' /\ Pending \subseteq Pending'
  BY DEF IInv, TypeOK, RowsPlaced, Pending

LEMMA CancelledStep ==
  ASSUME IInv, NEW w \in Workers, Cancelled(w)
  PROVE  IInv'
<1> DEFINE step == [pool[w] EXCEPT !.pc = "done", !.result = "cancelled"]
<1>1. /\ WorkerStep(w, step) /\ pool[w].pc = "queued" /\ UNCHANGED <<rows, stop, faults>>
  BY DEF Cancelled
<1>2. step \in Threads /\ step.pc # "free" /\ step.item = pool[w].item
  BY <1>1, EndThread
<1>3. rows' \in Seq(Rows) /\ RowsPlaced' /\ Pending \subseteq Pending'
  BY <1>1, SameTable DEF WorkerStep
<1>4. stop' \in BOOLEAN /\ faults' \in Nat
  BY <1>1 DEF IInv, TypeOK
<1> HIDE DEF step
<1> QED
  BY <1>1, <1>2, <1>3, <1>4, ThreadFrame

LEMMA LoseRowStep ==
  ASSUME IInv, NEW w \in Workers, LoseRow(w)
  PROVE  IInv'
<1> DEFINE step == [pool[w] EXCEPT !.pc = "done", !.result = "permanent"]
<1>1. /\ WorkerStep(w, step) /\ pool[w].pc # "free" /\ UNCHANGED rows
      /\ stop' = TRUE /\ faults' = faults + 1
  BY DEF LoseRow
<1>2. step \in Threads /\ step.pc # "free" /\ step.item = pool[w].item
  BY <1>1, EndThread
<1>3. rows' \in Seq(Rows) /\ RowsPlaced' /\ Pending \subseteq Pending'
  BY <1>1, SameTable DEF WorkerStep
<1>4. stop' \in BOOLEAN /\ faults' \in Nat
  BY <1>1 DEF IInv, TypeOK
<1> HIDE DEF step
<1> QED
  BY <1>1, <1>2, <1>3, <1>4, ThreadFrame

LEMMA StartAttemptStep ==
  ASSUME IInv, NEW w \in Workers, StartAttempt(w)
  PROVE  IInv'
<1> DEFINE step == [pool[w] EXCEPT !.pc = "started", !.row = Len(rows) + 1]
           row == [task |-> pool[w].item.task, pass |-> pool[w].item.pass,
                   slot |-> pool[w].item.slot, status |-> "in_progress",
                   work |-> FALSE, result |-> NoPurchase, files |-> 0]
<1>1. /\ WorkerStep(w, step) /\ pool[w].pc = "queued" /\ UNCHANGED <<stop, faults>>
      /\ rows' = Append(rows, row)
  BY DEF StartAttempt
<1>2. rows \in Seq(Rows) /\ Len(rows) \in Nat /\ pool[w] \in Threads
  BY LenProperties DEF IInv, TypeOK
<1>3. step \in Threads /\ step.pc # "free" /\ step.item = pool[w].item
  <2>1. \A k \in Nat : LET st == [pool[w] EXCEPT !.pc = "started", !.row = k]
                       IN  st \in Threads /\ st.pc # "free" /\ st.item = pool[w].item
    BY <1>2 DEF Threads
  <2>2. Len(rows) + 1 \in Nat
    BY <1>2
  <2> QED
    BY <2>1, <2>2
<1>4. pool[w].item \in Items
  BY <1>2 DEF Threads
<1>5. row \in Rows
  BY <1>4 DEF Items, Rows, RowStatuses
<1>6. row.task = pool[w].item.task /\ row.slot = pool[w].item.slot
  OBVIOUS
<1> HIDE DEF step, row
<1>7. /\ rows' \in Seq(Rows) /\ DOMAIN rows' = DOMAIN rows \cup {Len(rows) + 1}
      /\ rows'[Len(rows) + 1] = row /\ \A i \in DOMAIN rows : rows'[i] = rows[i]
  BY <1>1, <1>2, <1>5, AppendProperties
<1>8. mem' = mem
  BY <1>1 DEF WorkerStep
<1>9. RowsPlaced'
  <2>1. mem.slotOf[row.task] = row.slot
    BY <1>1, <1>6 DEF IInv, ThreadsReserved, InFlight
  <2> QED
    BY <1>7, <1>8, <2>1 DEF IInv, RowsPlaced
<1>10. Pending \subseteq Pending'
  BY <1>7, <1>8 DEF Pending
<1>11. stop' \in BOOLEAN /\ faults' \in Nat
  BY <1>1 DEF IInv, TypeOK
<1> QED
  BY <1>1, <1>3, <1>7, <1>9, <1>10, <1>11, ThreadFrame

LEMMA SaveWorkStep ==
  ASSUME IInv, NEW w \in Workers, SaveWork(w)
  PROVE  IInv'
<1> DEFINE step == [pool[w] EXCEPT !.pc = "rolling"]
<1>1. /\ WorkerStep(w, step) /\ pool[w].pc = "started" /\ UNCHANGED <<stop, faults>>
      /\ rows' = [rows EXCEPT ![pool[w].row].work = TRUE]
  BY DEF SaveWork
<1>2. step \in Threads /\ step.pc # "free" /\ step.item = pool[w].item
  BY <1>1, MoveThread
<1>3. rows \in Seq(Rows)
  BY DEF IInv, TypeOK
<1>4. SameShape(rows', rows)
  BY <1>1, <1>3, SetRowWork
<1>5. mem' = mem
  BY <1>1 DEF WorkerStep
<1>6. \A i \in DOMAIN rows : /\ rows'[i].status = rows[i].status
                             /\ rows[i].work => rows'[i].work
  <2> SUFFICES ASSUME NEW i \in DOMAIN rows
               PROVE  /\ rows'[i].status = rows[i].status
                      /\ rows[i].work => rows'[i].work
    OBVIOUS
  <2>1. rows[i] \in Rows
    BY <1>3
  <2>2. rows'[i] = rows[i] \/ rows'[i] = [rows[i] EXCEPT !.work = TRUE]
    BY <1>1, <1>3
  <2> QED
    BY <2>1, <2>2 DEF Rows
<1>7. Pending \subseteq Pending'
  BY <1>4, <1>5, <1>6 DEF Pending, SameShape
<1>8. rows' \in Seq(Rows) /\ RowsPlaced'
  BY <1>4, <1>5 DEF IInv, RowsPlaced, SameShape
<1>9. stop' \in BOOLEAN /\ faults' \in Nat
  BY <1>1 DEF IInv, TypeOK
<1> HIDE DEF step
<1> QED
  BY <1>1, <1>2, <1>7, <1>8, <1>9, ThreadFrame

LEMMA PersistStep ==
  ASSUME IInv, NEW w \in Workers, NEW st \in RowStatuses, st # "in_progress",
         NEW b \in Results \cup {NoPurchase},
         NEW r \in {"ok", "cancelled", "recoverable", "permanent"},
         Persist(w, st, b, r), faults' \in Nat
  PROVE  IInv'
<1> DEFINE step == [pool[w] EXCEPT !.pc = "done", !.result = r]
<1>1. /\ WorkerStep(w, step) /\ pool[w].pc = "rolling"
      /\ rows' = save_attempt(pool[w].row, st, b)
      /\ stop' = (stop \/ r # "ok")
  BY DEF Persist
<1>2. step \in Threads /\ step.pc # "free" /\ step.item = pool[w].item
  BY <1>1, EndThread
<1>3. TypeOK
  BY DEF IInv
<1>4. /\ SameShape(rows', rows)
      /\ \A j \in DOMAIN rows : rows'[j].work = rows[j].work
      /\ \A j \in DOMAIN rows : rows'[j].status \in {rows[j].status, st}
  BY <1>1, <1>3, SetRowOutcome
<1>5. mem' = mem
  BY <1>1 DEF WorkerStep
<1>6. Pending \subseteq Pending'
  BY <1>4, <1>5 DEF Pending, SameShape
<1>7. rows' \in Seq(Rows) /\ RowsPlaced'
  BY <1>4, <1>5 DEF IInv, RowsPlaced, SameShape
<1>8. stop' \in BOOLEAN
  BY <1>1 DEF IInv, TypeOK
<1> HIDE DEF step
<1> QED
  BY <1>1, <1>2, <1>6, <1>7, <1>8, ThreadFrame

LEMMA WorkerPreserves ==
  ASSUME IInv, NEW w \in Workers, Worker(w)
  PROVE  IInv'
<1> USE DEF RowStatuses, GenuineStatuses, InfraStatuses
<1>1. faults \in Nat /\ faults + 1 \in Nat
  BY DEF IInv, TypeOK
<1>2. CASE Cancelled(w)
  BY <1>2, CancelledStep
<1>3. CASE StartAttempt(w)
  BY <1>3, StartAttemptStep
<1>4. CASE SaveWork(w)
  BY <1>4, SaveWorkStep
<1>5. CASE Succeed(w)
  BY <1>1, <1>5, PersistStep DEF Succeed
<1>6. CASE Fail(w)
  BY <1>1, <1>6, PersistStep DEF Fail
<1>7. CASE GiveUp(w)
  BY <1>1, <1>7, PersistStep DEF GiveUp
<1>8. CASE Break(w)
  BY <1>1, <1>8, PersistStep DEF Break
<1>9. CASE LoseRow(w)
  BY <1>9, LoseRowStep
<1> QED
  BY <1>2, <1>3, <1>4, <1>5, <1>6, <1>7, <1>8, <1>9 DEF Worker

----------------------------------------------------------------------------
(* The theorems.                                                           *)

LEMMA InitInvariant == Init => IInv
<1> SUFFICES ASSUME Init PROVE IInv
  OBVIOUS
<1>1. /\ InFlight = {} /\ pool \in [Workers -> Threads]
  BY IdleIsThread DEF Init, InFlight
<1>2. report \in [status : RunStatuses \cup {"none", "crashed", "error"},
                  eligible : BOOLEAN]
  BY DEF Init
<1>3. rows \in Seq(Rows) /\ DOMAIN rows = {}
  BY DEF Init
<1>4. TypeOK
  BY <1>1, <1>2, <1>3, InitialState DEF TypeOK, Init
<1>5. PlacesAgree
  BY InitialState DEF PlacesAgree, Init
<1>6. RowsPlaced
  BY <1>3 DEF RowsPlaced
<1>7. ThreadsReserved /\ PickedReserved /\ OneFlightPerTask /\ PhaseOK
  BY <1>1 DEF ThreadsReserved, PickedReserved, OneFlightPerTask, PhaseOK, Init
<1> QED
  BY <1>4, <1>5, <1>6, <1>7 DEF IInv

LEMMA StutterInvariant ==
  ASSUME IInv, UNCHANGED vars
  PROVE  IInv'
<1>1. TypeOK'
  BY DEF IInv, TypeOK, vars
<1>2. SameShape(rows', rows)
  BY SameShapeRefl DEF IInv, vars
<1>3. Pending' = Pending
  BY DEF Pending, vars
<1> QED
  BY <1>1, <1>2, <1>3, MainFrame DEF IInv, PlacesAgree, PhaseOK, vars

LEMMA NextInvariant == IInv /\ [Next]_vars => IInv'
<1> SUFFICES ASSUME IInv, [Next]_vars PROVE IInv'
  OBVIOUS
<1>1. CASE Boot
  BY <1>1, BootStep
<1>2. CASE Main
  BY <1>2, ReconcileRowStep, PublishAcceptedStep, CommitAcceptedStep, ReconcileDoneStep,
     TargetReachedStep, PassAStep, SmokeEndStep, PassBStep, PassCStep, SubmitStep,
     WithdrawReservationStep, CollectStep, FinishStep, JoinedStep, RepairDoneStep
  DEF Main
<1>3. CASE MainFault
  BY <1>3, MainFaultStep
<1>4. CASE Sigint
  BY <1>4, SigintStep
<1>5. CASE Crash
  BY <1>5, CrashStep
<1>6. CASE \E w \in Workers : Worker(w)
  BY <1>6, WorkerPreserves
<1>7. CASE UNCHANGED vars
  BY <1>7, StutterInvariant
<1> QED
  BY <1>1, <1>2, <1>3, <1>4, <1>5, <1>6, <1>7 DEF Next

\* The invariant holds of every reachable state.
THEOREM Invariant == Spec => []IInv
  BY InitInvariant, NextInvariant, PTL DEF Spec

\* Every variable keeps its type: whatever is dispatched or recorded names a
\* coverage slot.
THEOREM TypeCorrect == Spec => []TypeOK
<1>1. IInv => TypeOK
  BY DEF IInv
<1> QED
  BY <1>1, Invariant, PTL

\* The main thread never puts a task in flight twice, over any number of
\* workers, failures, crashes and restarts.
THEOREM OneFlight == Spec => []OneFlightPerTask
<1>1. IInv => OneFlightPerTask
  BY DEF IInv
<1> QED
  BY <1>1, Invariant, PTL

\* allocate_and_persist_before_dispatch: a restart always finds the task, the
\* slot and the reservation of anything that was dispatched.
THEOREM DurableDispatch == Spec => []DispatchIsDurable
<1>1. IInv => DispatchIsDurable
  BY DEF IInv, PlacesAgree, RowsPlaced, ThreadsReserved, DispatchIsDurable
<1> QED
  BY <1>1, Invariant, PTL


----------------------------------------------------------------------------
(* What a step does to the attempts table and to the counts.               *)

\* Row i is replaced by r and no other row is touched.
Changed(i, r) ==
  /\ i \in DOMAIN rows /\ DOMAIN rows' = DOMAIN rows
  /\ rows'[i] = r /\ \A j \in DOMAIN rows \ {i} : rows'[j] = rows[j]

\* Two states of the scheduler that agree on everything apply_attempt counts.
SameCounts(m, n) ==
  /\ n.processed = m.processed /\ n.first = m.first /\ n.post = m.post
  /\ n.bTries = m.bTries /\ n.demos = m.demos /\ n.success = m.success
  /\ n.bDone = m.bDone /\ n.fulfilled = m.fulfilled

FinalStatuses == GenuineStatuses \cup InfraStatuses
\* The statuses that count as an attempt, decided or not.
CountedStatuses == GenuineStatuses \cup {"candidate_success"}

\* The row of a thread, once it has one, is of the thread's item; it is in progress
\* until the thread decides it.
ThreadsOwnRows ==
  \A w \in InFlight :
    /\ pool[w].pc = "queued" => pool[w].row = 0
    /\ pool[w].pc \in {"started", "rolling"} =>
         pool[w].row # 0 /\ rows[pool[w].row].status = "in_progress"
    /\ pool[w].pc = "rolling" => rows[pool[w].row].work
    /\ pool[w].row # 0 =>
         /\ pool[w].row \in DOMAIN rows
         /\ rows[pool[w].row].task = pool[w].item.task
         /\ rows[pool[w].row].pass = pool[w].item.pass

\* Only decided rows are counted, and the ledger counts none the memory does not.
CountedAreFinal ==
  /\ mem.processed \subseteq DOMAIN rows /\ saved.processed \subseteq mem.processed
  /\ \A i \in mem.processed : rows[i].status \in FinalStatuses
  /\ \A i \in DOMAIN rows : rows[i].status \in CountedStatuses => rows[i].work

\* Between publication and commit the candidate is still the next row, and accepted.
CommitIsDue ==
  pc = "commit" => /\ rows[NextRow].status = "candidate_success"
                   /\ Verdict(NextRow) = "accepted"
                   /\ rows[NextRow].files > 0

Own == ThreadsOwnRows /\ CountedAreFinal /\ CommitIsDue

\* What a thread may do to its row.
Loses(w) == rows' = rows /\ pool'[w].pc = "done" /\ pool'[w].row = pool[w].row

Opens(w) ==
  LET n == Len(rows) + 1
  IN  /\ pool[w].pc = "queued" /\ pool'[w].pc = "started" /\ pool'[w].row = n
      /\ n \in Nat \ {0} /\ n \notin DOMAIN rows /\ DOMAIN rows' = DOMAIN rows \cup {n}
      /\ \A i \in DOMAIN rows : rows'[i] = rows[i] /\ i < n
      /\ rows'[n].task = pool[w].item.task /\ rows'[n].pass = pool[w].item.pass
      /\ rows'[n].status = "in_progress" /\ rows'[n].work = FALSE /\ rows'[n].files = 0

Works(w) ==
  /\ pool[w].pc = "started" /\ pool'[w].pc = "rolling" /\ pool'[w].row = pool[w].row
  /\ Changed(pool[w].row, [rows[pool[w].row] EXCEPT !.work = TRUE])

Decides(w) ==
  /\ pool[w].pc = "rolling" /\ pool'[w].pc = "done" /\ pool'[w].row = pool[w].row
  /\ \E st \in {"candidate_success", "failed", "interrupted"}, b \in Results \cup {NoPurchase} :
       Changed(pool[w].row, [rows[pool[w].row] EXCEPT !.status = st, !.result = b])

LEMMA RowsTyped ==
  ASSUME TypeOK
  PROVE  /\ rows \in Seq(Rows) /\ Len(rows) \in Nat /\ DOMAIN rows = 1..Len(rows)
         /\ DOMAIN rows \subseteq Nat \ {0} /\ IsFiniteSet(DOMAIN rows)
         /\ \A i \in DOMAIN rows : rows[i] \in Rows
<1>1. rows \in Seq(Rows)
  BY DEF TypeOK
<1>2. Len(rows) \in Nat /\ DOMAIN rows = 1..Len(rows)
  BY <1>1, LenProperties
<1>3. IsFiniteSet(1..Len(rows))
  BY <1>2, FS_Interval
<1> QED
  BY <1>1, <1>2, <1>3

LEMMA RowStatus ==
  ASSUME NEW r \in Rows, NEW st
  PROVE  LET n == [r EXCEPT !.status = st]
         IN  /\ n.status = st /\ n.task = r.task /\ n.pass = r.pass /\ n.slot = r.slot
             /\ n.work = r.work /\ n.result = r.result /\ n.files = r.files
  BY DEF Rows

LEMMA RowWork ==
  ASSUME NEW r \in Rows
  PROVE  LET n == [r EXCEPT !.work = TRUE]
         IN  /\ n.status = r.status /\ n.task = r.task /\ n.pass = r.pass /\ n.slot = r.slot
             /\ n.work = TRUE /\ n.result = r.result /\ n.files = r.files
  BY DEF Rows

LEMMA RowFiles ==
  ASSUME NEW r \in Rows
  PROVE  LET n == [r EXCEPT !.files = @ + 1]
         IN  /\ n.status = r.status /\ n.task = r.task /\ n.pass = r.pass /\ n.slot = r.slot
             /\ n.work = r.work /\ n.result = r.result /\ n.files = r.files + 1
  BY DEF Rows

LEMMA RowOutcome ==
  ASSUME NEW r \in Rows, NEW st, NEW b
  PROVE  LET n == [r EXCEPT !.status = st, !.result = b]
         IN  /\ n.status = st /\ n.task = r.task /\ n.pass = r.pass /\ n.slot = r.slot
             /\ n.work = r.work /\ n.result = b /\ n.files = r.files
  BY DEF Rows

\* A step of a thread, as the rest of the proof sees it.
LEMMA WorkerRows ==
  ASSUME IInv, Own, NEW w \in Workers, Worker(w)
  PROVE  /\ w \in InFlight /\ pool[w].pc \in {"queued", "started", "rolling"}
         /\ UNCHANGED <<saved, mem, pc, stage, picked, userStop, seen, report>>
         /\ InFlight' = InFlight /\ pool'[w].item = pool[w].item
         /\ \A v \in Workers \ {w} : pool'[v] = pool[v]
         /\ Loses(w) \/ Opens(w) \/ Works(w) \/ Decides(w)
<1>1. TypeOK /\ pool \in [Workers -> Threads] /\ pool[w] \in Threads
  BY DEF IInv, TypeOK
<1>2. rows \in Seq(Rows) /\ Len(rows) \in Nat /\ DOMAIN rows = 1..Len(rows)
  BY <1>1, RowsTyped
<1>3. CASE Cancelled(w)
  <2> DEFINE step == [pool[w] EXCEPT !.pc = "done", !.result = "cancelled"]
  <2>1. step.pc = "done" /\ step.row = pool[w].row /\ step.item = pool[w].item
    BY <1>1 DEF Threads
  <2>2. pool' = [pool EXCEPT ![w] = step] /\ rows' = rows /\ pool[w].pc = "queued"
        /\ UNCHANGED <<saved, mem, pc, stage, picked, userStop, seen, report>>
    BY <1>3 DEF Cancelled, WorkerStep
  <2> HIDE DEF step
  <2>3. pool'[w] = step /\ \A v \in Workers \ {w} : pool'[v] = pool[v]
    BY <1>1, <2>2
  <2>4. Loses(w)
    BY <2>1, <2>2, <2>3 DEF Loses
  <2> QED
    BY <2>1, <2>2, <2>3, <2>4 DEF InFlight
<1>4. CASE LoseRow(w)
  <2> DEFINE step == [pool[w] EXCEPT !.pc = "done", !.result = "permanent"]
  <2>1. step.pc = "done" /\ step.row = pool[w].row /\ step.item = pool[w].item
    BY <1>1 DEF Threads
  <2>2. pool' = [pool EXCEPT ![w] = step] /\ rows' = rows
        /\ pool[w].pc \in {"queued", "started", "rolling"}
        /\ UNCHANGED <<saved, mem, pc, stage, picked, userStop, seen, report>>
    BY <1>4 DEF LoseRow, WorkerStep
  <2> HIDE DEF step
  <2>3. pool'[w] = step /\ \A v \in Workers \ {w} : pool'[v] = pool[v]
    BY <1>1, <2>2
  <2>4. Loses(w)
    BY <2>1, <2>2, <2>3 DEF Loses
  <2> QED
    BY <2>1, <2>2, <2>3, <2>4 DEF InFlight
<1>5. CASE StartAttempt(w)
  <2> DEFINE n == Len(rows) + 1
             step == [pool[w] EXCEPT !.pc = "started", !.row = n]
             row == [task |-> pool[w].item.task, pass |-> pool[w].item.pass,
                     slot |-> pool[w].item.slot, status |-> "in_progress",
                     work |-> FALSE, result |-> NoPurchase, files |-> 0]
  <2>1. step.pc = "started" /\ step.row = n /\ step.item = pool[w].item
    BY <1>1 DEF Threads
  <2>2. pool' = [pool EXCEPT ![w] = step] /\ rows' = Append(rows, row)
        /\ pool[w].pc = "queued"
        /\ UNCHANGED <<saved, mem, pc, stage, picked, userStop, seen, report>>
    BY <1>5 DEF StartAttempt, WorkerStep
  <2>3. row.task = pool[w].item.task /\ row.pass = pool[w].item.pass
        /\ row.status = "in_progress" /\ row.work = FALSE /\ row.files = 0
    OBVIOUS
  <2>4. pool[w].item \in Items
    BY <1>1 DEF Threads
  <2>5. row \in Rows
    BY <2>4 DEF Items, Rows, RowStatuses
  <2> HIDE DEF step, row
  <2>6. pool'[w] = step /\ \A v \in Workers \ {w} : pool'[v] = pool[v]
    BY <1>1, <2>2
  <2>7. /\ DOMAIN rows' = DOMAIN rows \cup {n} /\ rows'[n] = row
        /\ \A i \in DOMAIN rows : rows'[i] = rows[i]
    BY <1>2, <2>2, <2>5, AppendProperties
  <2>8. n \in Nat \ {0} /\ n \notin DOMAIN rows /\ \A i \in DOMAIN rows : i < n
    BY <1>2
  <2>9. Opens(w)
    BY <2>1, <2>2, <2>3, <2>6, <2>7, <2>8 DEF Opens
  <2> QED
    BY <2>1, <2>2, <2>6, <2>9 DEF InFlight
<1>6. CASE SaveWork(w)
  <2> DEFINE step == [pool[w] EXCEPT !.pc = "rolling"]
             r == pool[w].row
  <2>1. step.pc = "rolling" /\ step.row = r /\ step.item = pool[w].item
    BY <1>1 DEF Threads
  <2>2. pool' = [pool EXCEPT ![w] = step] /\ rows' = [rows EXCEPT ![r].work = TRUE]
        /\ pool[w].pc = "started"
        /\ UNCHANGED <<saved, mem, pc, stage, picked, userStop, seen, report>>
    BY <1>6 DEF SaveWork, WorkerStep
  <2> HIDE DEF step
  <2>3. pool'[w] = step /\ \A v \in Workers \ {w} : pool'[v] = pool[v]
    BY <1>1, <2>2
  <2>4. w \in InFlight
    BY <2>2 DEF InFlight
  <2>5. r \in DOMAIN rows
    BY <2>2, <2>4 DEF Own, ThreadsOwnRows
  <2>6. Changed(r, [rows[r] EXCEPT !.work = TRUE])
    BY <2>2, <2>5 DEF Changed
  <2>7. Works(w)
    BY <2>1, <2>2, <2>3, <2>6 DEF Works
  <2> QED
    BY <2>1, <2>2, <2>3, <2>7 DEF InFlight
<1>7. ASSUME NEW st \in {"candidate_success", "failed", "interrupted"},
             NEW b \in Results \cup {NoPurchase}, NEW o, Persist(w, st, b, o)
      PROVE  /\ w \in InFlight /\ pool[w].pc \in {"queued", "started", "rolling"}
             /\ UNCHANGED <<saved, mem, pc, stage, picked, userStop, seen, report>>
             /\ InFlight' = InFlight /\ pool'[w].item = pool[w].item
             /\ \A v \in Workers \ {w} : pool'[v] = pool[v]
             /\ Decides(w)
  <2> DEFINE step == [pool[w] EXCEPT !.pc = "done", !.result = o]
             r == pool[w].row
  <2>1. step.pc = "done" /\ step.row = r /\ step.item = pool[w].item
    BY <1>1 DEF Threads
  <2>2. pool' = [pool EXCEPT ![w] = step] /\ rows' = save_attempt(r, st, b)
        /\ pool[w].pc = "rolling"
        /\ UNCHANGED <<saved, mem, pc, stage, picked, userStop, seen, report>>
    BY <1>7 DEF Persist, WorkerStep
  <2> HIDE DEF step
  <2>3. pool'[w] = step /\ \A v \in Workers \ {w} : pool'[v] = pool[v]
    BY <1>1, <2>2
  <2>4. w \in InFlight
    BY <2>2 DEF InFlight
  <2>5. r \in DOMAIN rows
    BY <2>2, <2>4 DEF Own, ThreadsOwnRows
  <2>6. Changed(r, [rows[r] EXCEPT !.status = st, !.result = b])
    BY <2>2, <2>5 DEF Changed, save_attempt
  <2>7. Decides(w)
    BY <2>1, <2>2, <2>3, <2>6 DEF Decides
  <2> QED
    BY <2>1, <2>2, <2>3, <2>7 DEF InFlight
<1>8. CASE Succeed(w)
  <2>1. PICK b \in Results : Persist(w, "candidate_success", b, "ok")
    BY <1>8 DEF Succeed
  <2> QED
    BY <1>7, <2>1
<1>9. CASE Fail(w)
  BY <1>7, <1>9 DEF Fail
<1>10. CASE GiveUp(w)
  BY <1>7, <1>10 DEF GiveUp
<1>11. CASE Break(w)
  <2>1. PICK f \in Faults : Persist(w, "interrupted", NoPurchase, f)
    BY <1>11 DEF Break
  <2> QED
    BY <1>7, <2>1
<1> QED
  BY <1>3, <1>4, <1>5, <1>6, <1>8, <1>9, <1>10, <1>11 DEF Worker

\* A decided row has a final status.
LEMMA VerdictIsFinal ==
  ASSUME TypeOK, NEW i \in DOMAIN rows, rows[i].status # "in_progress"
  PROVE  /\ Verdict(i) \in FinalStatuses
         /\ rows[i].status # "candidate_success" => Verdict(i) = rows[i].status
         /\ rows[i].status = "candidate_success" => Verdict(i) \in RejectStatuses \cup {"accepted"}
<1>1. rows[i].status \in RowStatuses
  BY RowsTyped DEF Rows
<1> QED
  BY <1>1 DEF Verdict, verdict, FinalStatuses, RowStatuses, GenuineStatuses, RejectStatuses

\* What counting a row does to the scheduler's state.
LEMMA ApplyCounts ==
  ASSUME NEW m \in States, NEW i \in Nat, NEW row \in Rows, NEW st \in RowStatuses
  PROVE  LET n == apply_attempt(m, i, row, st)
             t == row.task
             genuine == st \notin InfraStatuses
         IN  /\ n.processed = m.processed \cup {i}
             /\ \A u \in Tasks \ {t} : /\ n.first[u] = m.first[u] /\ n.post[u] = m.post[u]
                                       /\ n.bTries[u] = m.bTries[u]
                                       /\ n.demos[u] = m.demos[u]
             /\ n.first[t] = IF genuine /\ row.pass = "A" THEN m.first[t] + 1 ELSE m.first[t]
             /\ n.post[t] = IF genuine /\ row.pass # "A" THEN m.post[t] + 1 ELSE m.post[t]
             /\ n.bTries[t] = IF genuine /\ row.pass = "B" THEN m.bTries[t] + 1
                                                           ELSE m.bTries[t]
             /\ n.demos[t] = IF st = "accepted" THEN m.demos[t] + 1 ELSE m.demos[t]
             /\ st = "accepted" /\ row.pass = "A" =>
                  /\ n.success = m.success \cup {t}
                  /\ n.fulfilled = m.fulfilled \cup {row.slot}
             /\ ~(st = "accepted" /\ row.pass = "A") =>
                  n.success = m.success /\ n.fulfilled = m.fulfilled
             /\ m.bDone \subseteq n.bDone
             /\ st = "accepted" /\ row.pass = "B" => t \in n.bDone
             /\ n.status = m.status /\ n.pass = m.pass /\ n.exhausted = m.exhausted
             /\ n.slotOf = m.slotOf /\ n.current = m.current /\ n.active = m.active
<1> DEFINE n == apply_attempt(m, i, row, st)
           t == row.task
<1>1. t \in Tasks
  BY DEF Rows
<1>2. /\ m.first \in [Tasks -> Nat] /\ m.post \in [Tasks -> Nat]
      /\ m.bTries \in [Tasks -> Nat] /\ m.demos \in [Tasks -> Nat]
  BY DEF States
<1>3. /\ n.first = [m.first EXCEPT ![t] = BumpIf(st \notin InfraStatuses /\ row.pass = "A", @)]
      /\ n.post = [m.post EXCEPT ![t] = BumpIf(st \notin InfraStatuses /\ row.pass # "A", @)]
  BY DEF apply_attempt, States
<1>4. /\ n.bTries = [m.bTries EXCEPT ![t] =
                       BumpIf(st \notin InfraStatuses /\ row.pass = "B", m.bTries[t])]
      /\ n.demos = [m.demos EXCEPT ![t] = BumpIf(st = "accepted", @)]
  BY DEF apply_attempt, States
<1>5. /\ n.processed = m.processed \cup {i}
      /\ n.success = IF st = "accepted" /\ row.pass = "A" THEN m.success \cup {t}
                                                          ELSE m.success
      /\ n.fulfilled = IF st = "accepted" /\ row.pass = "A"
                       THEN m.fulfilled \cup {row.slot} ELSE m.fulfilled
  BY DEF apply_attempt, States
<1>6. m.bDone \subseteq n.bDone /\ (st = "accepted" /\ row.pass = "B" => t \in n.bDone)
  BY DEF apply_attempt, States
<1>7. /\ n.status = m.status /\ n.pass = m.pass /\ n.exhausted = m.exhausted
      /\ n.slotOf = m.slotOf /\ n.current = m.current /\ n.active = m.active
  BY DEF apply_attempt, States
<1> HIDE DEF n
<1> QED
  BY <1>1, <1>2, <1>3, <1>4, <1>5, <1>6, <1>7 DEF n, BumpIf

LEMMA ApplyProcesses ==
  ASSUME NEW m \in States, NEW i, NEW row, NEW st
  PROVE  apply_attempt(m, i, row, st).processed = m.processed \cup {i}
  BY DEF apply_attempt, States

\* ReconcileRow and CommitAccepted, as one: the next row takes its verdict and is counted.
Applies ==
  /\ Pending # {} /\ NextRow \in Pending /\ NextRow \in DOMAIN rows /\ NextRow \in Nat
  /\ Changed(NextRow, [rows[NextRow] EXCEPT !.status = Verdict(NextRow)])
  /\ mem' = apply_attempt(mem, NextRow, rows[NextRow], Verdict(NextRow))
  /\ rows[NextRow].status # "in_progress"
  /\ rows[NextRow].status = "candidate_success" /\ Verdict(NextRow) = "accepted" =>
       rows[NextRow].files > 0
  /\ pc \in {"reconcile", "commit"} /\ pc' = "reconcile"
  /\ UNCHANGED <<saved, stage, picked, pool, stop, userStop, seen, report, bounds>>

Publishes ==
  /\ Pending # {} /\ NextRow \in Pending /\ NextRow \in DOMAIN rows /\ NextRow \in Nat
  /\ rows[NextRow].status = "candidate_success" /\ Verdict(NextRow) = "accepted"
  /\ Changed(NextRow, [rows[NextRow] EXCEPT !.files = @ + 1])
  /\ pc = "reconcile" /\ pc' = "commit"
  /\ UNCHANGED <<saved, stage, mem, picked, pool, stop, userStop, seen, report, bounds>>

LEMMA ReconcileRowApplies ==
  ASSUME IInv, ReconcileRow
  PROVE  Applies /\ pc = "reconcile"
<1>1. TypeOK
  BY DEF IInv
<1>2. NextRow \in Pending /\ NextRow \in DOMAIN rows /\ NextRow \in Nat
  BY <1>1, NextRowIsPending DEF ReconcileRow
<1>3. rows[NextRow].status # "in_progress"
  BY <1>2 DEF Pending
<1>4. Changed(NextRow, [rows[NextRow] EXCEPT !.status = Verdict(NextRow)])
  BY <1>1, <1>2, RowsTyped DEF ReconcileRow, Changed
<1> QED
  BY <1>2, <1>3, <1>4 DEF ReconcileRow, Applies

LEMMA CommitAcceptedApplies ==
  ASSUME IInv, Own, CommitAccepted
  PROVE  Applies /\ Verdict(NextRow) = "accepted" /\ rows[NextRow].status = "candidate_success"
<1>1. TypeOK /\ pc = "commit" /\ Pending # {}
  BY DEF IInv, PhaseOK, CommitAccepted
<1>2. NextRow \in Pending /\ NextRow \in DOMAIN rows /\ NextRow \in Nat
  BY <1>1, NextRowIsPending
<1>3. /\ rows[NextRow].status = "candidate_success" /\ Verdict(NextRow) = "accepted"
      /\ rows[NextRow].files > 0
  BY <1>1 DEF Own, CommitIsDue
<1>4. Changed(NextRow, [rows[NextRow] EXCEPT !.status = Verdict(NextRow)])
  BY <1>1, <1>2, <1>3, RowsTyped DEF CommitAccepted, Changed
<1> QED
  BY <1>1, <1>2, <1>3, <1>4 DEF CommitAccepted, Applies

LEMMA PublishAcceptedPublishes ==
  ASSUME IInv, PublishAccepted
  PROVE  Publishes
<1>1. TypeOK
  BY DEF IInv
<1>2. NextRow \in Pending /\ NextRow \in DOMAIN rows /\ NextRow \in Nat
  BY <1>1, NextRowIsPending DEF PublishAccepted
<1>3. Changed(NextRow, [rows[NextRow] EXCEPT !.files = @ + 1])
  BY <1>1, <1>2, RowsTyped DEF PublishAccepted, Changed
<1> QED
  BY <1>2, <1>3 DEF PublishAccepted, Publishes

\* No thread has a row the main thread decides.
LEMMA PendingIsNobodys ==
  ASSUME IInv, Own, NEW i \in Pending, NEW w \in InFlight
  PROVE  /\ pool[w].row # i /\ pool[w].item.task # rows[i].task
         /\ rows[i].task \notin TasksOf(InFlight)
<1>1. rows[i].task \notin mem.active
  BY DEF Pending
<1>2. \A v \in InFlight : pool[v].item.task \in mem.active
  BY DEF IInv, ThreadsReserved
<1>3. i \in DOMAIN rows /\ i # 0
  BY RowsTyped DEF Pending, IInv
<1> QED
  BY <1>1, <1>2, <1>3 DEF Own, ThreadsOwnRows, TasksOf

\* Threads do not touch what the main thread has to decide.
LEMMA WorkerKeepsPending ==
  ASSUME IInv, Own, NEW w \in Workers, Worker(w)
  PROVE  /\ Pending' = Pending
         /\ \A i \in DOMAIN rows :
              rows[i].task \notin mem.active => i \in DOMAIN rows' /\ rows'[i] = rows[i]
         /\ NextRow' = NextRow
<1> USE DEF TypeOK
<1>1. /\ w \in InFlight /\ mem' = mem
      /\ Loses(w) \/ Opens(w) \/ Works(w) \/ Decides(w)
  BY WorkerRows
<1>2. pool[w].item.task \in mem.active
  BY <1>1 DEF IInv, ThreadsReserved
<1>3. TypeOK /\ \A i \in DOMAIN rows : rows[i] \in Rows
  BY RowsTyped DEF IInv
<1>4. CASE Loses(w)
  BY <1>1, <1>4 DEF Loses, Pending, NextRow
<1>5. CASE Opens(w)
  <2>1. Pending' = Pending
    BY <1>1, <1>5 DEF Opens, Pending
  <2> QED
    BY <1>5, <2>1 DEF Opens, NextRow
<1>6. ASSUME NEW r, NEW n, Changed(r, n), r = pool[w].row, r # 0, n.task = rows[r].task
      PROVE  /\ Pending' = Pending
             /\ \A i \in DOMAIN rows :
                  rows[i].task \notin mem.active => i \in DOMAIN rows' /\ rows'[i] = rows[i]
  <2>1. rows[r].task = pool[w].item.task
    BY <1>1, <1>6 DEF Own, ThreadsOwnRows
  <2>2. r \notin Pending /\ rows'[r].task \in mem.active
    BY <1>2, <1>6, <2>1 DEF Pending, Changed
  <2> QED
    BY <1>1, <1>2, <1>6, <2>1, <2>2 DEF Pending, Changed
<1>7. CASE Works(w)
  <2> DEFINE r == pool[w].row
  <2>1. r # 0 /\ r \in DOMAIN rows
    BY <1>1, <1>7 DEF Works, Own, ThreadsOwnRows, Changed
  <2>2. [rows[r] EXCEPT !.work = TRUE].task = rows[r].task
    BY <1>3, <2>1, RowWork
  <2>3. Pending' = Pending
    BY <1>6, <1>7, <2>1, <2>2 DEF Works
  <2> QED
    BY <1>6, <1>7, <2>1, <2>2, <2>3 DEF Works, NextRow
<1>8. CASE Decides(w)
  <2> DEFINE r == pool[w].row
  <2>1. r # 0 /\ r \in DOMAIN rows
    BY <1>1, <1>8 DEF Decides, Own, ThreadsOwnRows, Changed
  <2>2. PICK st \in {"candidate_success", "failed", "interrupted"},
             b \in Results \cup {NoPurchase} :
               Changed(r, [rows[r] EXCEPT !.status = st, !.result = b])
    BY <1>8 DEF Decides
  <2>3. [rows[r] EXCEPT !.status = st, !.result = b].task = rows[r].task
    BY <1>3, <2>1, RowOutcome
  <2>4. Pending' = Pending
    BY <1>6, <2>1, <2>2, <2>3
  <2> QED
    BY <1>6, <2>1, <2>2, <2>3, <2>4 DEF NextRow
<1> QED
  BY <1>1, <1>4, <1>5, <1>7, <1>8

----------------------------------------------------------------------------
(* The other steps, field by field.                                        *)

\* Two states that differ at most in their status and their reservations.
Agree(m, n) ==
  /\ SameCounts(m, n) /\ n.pass = m.pass /\ n.exhausted = m.exhausted
  /\ n.slotOf = m.slotOf /\ n.current = m.current

LEMMA Fields ==
  ASSUME NEW m \in States
  PROVE  /\ m.processed \in SUBSET Nat /\ m.success \in SUBSET Tasks
         /\ m.active \in SUBSET Tasks /\ m.bDone \in SUBSET Tasks
         /\ m.fulfilled \in SUBSET Slots /\ m.exhausted \in SUBSET Slots
         /\ m.first \in [Tasks -> Nat] /\ m.post \in [Tasks -> Nat]
         /\ m.bTries \in [Tasks -> Nat] /\ m.demos \in [Tasks -> Nat]
         /\ m.slotOf \in [Tasks -> Slots \cup {NoSlot}] /\ m.current \in [Slots -> Tasks]
         /\ m.pass \in Passes /\ m.status \in RunStatuses
  BY DEF States

LEMMA ActiveFields ==
  ASSUME NEW m \in States, NEW A
  PROVE  LET n == [m EXCEPT !.active = A]
         IN  Agree(m, n) /\ n.active = A /\ n.status = m.status
  BY DEF States, Agree, SameCounts

LEMMA StatusFields ==
  ASSUME NEW m \in States, NEW st
  PROVE  LET n == [m EXCEPT !.status = st]
         IN  Agree(m, n) /\ n.active = m.active /\ n.status = st
  BY DEF States, Agree, SameCounts

LEMMA PassFields ==
  ASSUME NEW m \in States, NEW p
  PROVE  LET n == [m EXCEPT !.pass = p]
         IN  /\ SameCounts(m, n) /\ n.pass = p /\ n.exhausted = m.exhausted
             /\ n.slotOf = m.slotOf /\ n.current = m.current
             /\ n.active = m.active /\ n.status = m.status
  BY DEF States, SameCounts

LEMMA ScanFields ==
  ASSUME NEW m \in States
  PROVE  LET n == pass_a_scan(m)
         IN  /\ n \in States /\ SameCounts(m, n) /\ n.pass = m.pass
             /\ n.exhausted = m.exhausted \cup GivenUp(m)
             /\ n.slotOf = m.slotOf /\ n.current = m.current
             /\ n.active = m.active /\ n.status = m.status
<1>1. pass_a_scan(m) \in States
  BY ScanKeepsPlaces
<1> QED
  BY <1>1 DEF States, SameCounts, pass_a_scan

LEMMA AgreeTrans ==
  ASSUME NEW k, NEW m, NEW n
  PROVE  /\ SameCounts(k, m) /\ SameCounts(m, n) => SameCounts(k, n)
         /\ Agree(k, m) /\ Agree(m, n) => Agree(k, n)
         /\ Agree(k, k) /\ SameCounts(k, k)
         /\ Agree(k, m) => SameCounts(k, m)
  BY DEF Agree, SameCounts

\* Boot.
Boots ==
  /\ pc = "down" /\ pc' = "reconcile" /\ stage' = "boot"
  /\ DOMAIN rows' = DOMAIN rows
  /\ \A i \in DOMAIN rows :
       IF rows[i].status = "in_progress"
       THEN rows'[i] = [rows[i] EXCEPT !.status = "interrupted"] ELSE rows'[i] = rows[i]
  /\ Agree(saved, mem') /\ Agree(saved, saved') /\ mem'.active = {}
  /\ saved'.active = saved.active /\ mem'.status = "in_progress"
  /\ saved'.status = "in_progress"
  /\ InFlight = {} /\ InFlight' = {} /\ seen' = {} /\ stop' = FALSE
  /\ report'.status = "none" /\ ~report'.eligible

LEMMA BootBoots ==
  ASSUME IInv, Boot
  PROVE  Boots
<1>1. saved \in States /\ TypeOK
  BY DEF IInv, TypeOK
<1>2. saved' \in States /\ Agree(saved, saved') /\ saved'.active = saved.active
      /\ saved'.status = "in_progress"
  <2>1. saved' = [saved EXCEPT !.status = "in_progress"] /\ "in_progress" \in RunStatuses
    BY DEF Boot, Resumed, RunStatuses
  <2>2. PICK n : n = [saved EXCEPT !.status = "in_progress"]
    BY Zenon
  <2>3. n \in States
    BY <1>1, <2>1, <2>2, SetStatus, Zenon
  <2>4. Agree(saved, n) /\ n.active = saved.active /\ n.status = "in_progress"
    BY <1>1, <2>2, StatusFields, Zenon
  <2>5. saved' = n
    BY <2>1, <2>2, Zenon
  <2> QED
    BY <2>3, <2>4, <2>5, Zenon
<1>3. Agree(saved', mem') /\ mem'.active = {} /\ mem'.status = "in_progress"
  BY <1>2, ActiveFields DEF Boot
<1>4. InFlight = {} /\ InFlight' = {}
  BY DEF IInv, PhaseOK, Boot, InFlight
<1> QED
  BY <1>2, <1>3, <1>4, AgreeTrans DEF Boot, Boots, mark_stale_in_progress

\* next_work finds an item for task t.
Reserves(t) ==
  /\ CallsNextWork /\ t \in Tasks
  /\ SameCounts(mem, mem') /\ mem'.pass = mem.pass
  /\ mem'.active = mem.active \cup {t} /\ saved' = mem'
  /\ t \notin TasksOf(InFlight) /\ mem'.slotOf[t] \in Slots
  /\ \A u \in Tasks : mem.slotOf[u] \in Slots => mem'.slotOf[u] = mem.slotOf[u]
  /\ picked'.task = t /\ picked'.pass = mem.pass /\ picked'.slot = mem'.slotOf[t]
  /\ AcceptedTotal(mem) < Target
  /\ pc' = "submit"
  /\ UNCHANGED <<rows, stage, pool, stop, userStop, seen, report, bounds>>

\* Where the item comes from.
FromA(t) ==
  /\ mem.pass = "A" /\ mem'.exhausted = mem.exhausted \cup GivenUp(mem)
  /\ \E s \in Servable(mem) :
       /\ s \notin mem.fulfilled \cup mem.exhausted \cup GivenUp(mem)
       /\ t = mem'.current[s]
       /\ \/ /\ HasRetry(mem, s) /\ t = mem.current[s]
             /\ mem'.slotOf = mem.slotOf /\ mem'.current = mem.current
          \/ /\ ~HasRetry(mem, s) /\ t \in ReserveTasks(Stratum[s]) \ Known(mem)
             /\ mem'.slotOf = [mem.slotOf EXCEPT ![t] = s]
             /\ mem'.current = [mem.current EXCEPT ![s] = t]
FromB(t) ==
  /\ mem.pass = "B" /\ t \in PassBEligible(mem)
  /\ mem'.exhausted = mem.exhausted /\ mem'.slotOf = mem.slotOf /\ mem'.current = mem.current
FromC(t) ==
  /\ mem.pass = "C" /\ t \in PassCEligible(mem) /\ RemainingQuota(mem) > 0
  /\ mem'.exhausted = mem.exhausted /\ mem'.slotOf = mem.slotOf /\ mem'.current = mem.current

\* next_work finds none.
Idles ==
  /\ CallsNextWork
  /\ SameCounts(mem, mem') /\ mem'.active = mem.active
  /\ mem'.slotOf = mem.slotOf /\ mem'.current = mem.current
  /\ mem'.exhausted \in {mem.exhausted, mem.exhausted \cup GivenUp(mem)}
  /\ mem'.exhausted # mem.exhausted => mem.pass = "A"
  /\ pc' \in {"wait", "next_work", "dispatch"}
  /\ pc' = "wait" => mem.active # {}
  /\ mem'.pass # mem.pass =>
       /\ mem.active = {} /\ <<mem.pass, mem'.pass>> \in {<<"A", "B">>, <<"B", "C">>}
       /\ AcceptedTotal(mem) < Target
       /\ mem.pass = "A" => /\ Servable(mem) = {} /\ ~StopAfterA
                            /\ mem'.exhausted = mem.exhausted \cup GivenUp(mem)
  /\ UNCHANGED <<saved, rows, stage, picked, pool, stop, userStop, seen, report, bounds>>

LEMMA FirstUnused ==
  ASSUME NEW m \in States, NEW s \in Slots, UnusedReserve(m, s) # {}
  PROVE  LET t == ReserveQueue[Stratum[s]][First(UnusedReserve(m, s))]
         IN  t \in ReserveTasks(Stratum[s]) \ Known(m) /\ t \in Tasks
<1> DEFINE queue == ReserveQueue[Stratum[s]]
           free == UnusedReserve(m, s)
<1>1. queue \in Seq(Tasks) /\ Len(queue) \in Nat
  <2>1. Stratum[s] \in Strata
    BY ShapeAssumption
  <2>2. queue \in Seq(Tasks)
    BY <2>1, ShapeAssumption
  <2> QED
    BY <2>2, LenProperties
<1>2. free \subseteq 1..Len(queue) /\ free \subseteq Nat
  BY <1>1 DEF UnusedReserve
<1>3. IsFiniteSet(free)
  <2>1. IsFiniteSet(1..Len(queue))
    BY <1>1, FS_Interval
  <2> HIDE DEF free, queue
  <2> QED
    BY <1>2, <2>1, FS_Subset
<1>4. First(free) \in free
  <2> HIDE DEF free
  <2> QED
    BY <1>2, <1>3, FirstIsLeast DEF free
<1>5. First(free) \in 1..Len(queue) /\ queue[First(free)] \notin Known(m)
  BY <1>4 DEF UnusedReserve
<1>6. queue[First(free)] \in Tasks
  BY <1>1, <1>5
<1>7. queue[First(free)] \in ReserveTasks(Stratum[s])
  BY <1>5 DEF ReserveTasks
<1> QED
  BY <1>5, <1>6, <1>7

LEMMA PassAView ==
  ASSUME IInv, PassA
  PROVE  Idles \/ \E t \in Tasks : Reserves(t) /\ FromA(t)
<1> DEFINE a == pass_a_scan(mem)
<1>1. mem \in States /\ Selecting("A") /\ mem.pass = "A" /\ CallsNextWork
      /\ AcceptedTotal(mem) < Target
      /\ UNCHANGED <<rows, stage, pool, stop, userStop, seen, report, bounds>>
  BY DEF IInv, TypeOK, PassA, Selecting
<1>2. /\ a \in States /\ SameCounts(mem, a) /\ a.pass = "A"
      /\ a.exhausted = mem.exhausted \cup GivenUp(mem)
      /\ a.slotOf = mem.slotOf /\ a.current = mem.current
      /\ a.active = mem.active /\ a.status = mem.status
  BY <1>1, ScanFields
<1>3. \/ \E s \in pass_a_work(mem) :
           LET m == pass_a_serve(a, s) IN Reserve(m, m.current[s])
      \/ NoItemYet(a)
      \/ Servable(mem) = {} /\ ~StopAfterA /\ NextPass(a, "B")
  BY DEF PassA
<1> HIDE DEF a
<1>4. CASE NoItemYet(a)
  BY <1>1, <1>2, <1>4 DEF NoItemYet, Idles
<1>5. CASE Servable(mem) = {} /\ ~StopAfterA /\ NextPass(a, "B")
  <2>1. /\ SameCounts(a, mem') /\ mem'.pass = "B" /\ mem'.exhausted = a.exhausted
        /\ mem'.slotOf = a.slotOf /\ mem'.current = a.current /\ mem'.active = a.active
    BY <1>2, <1>5, PassFields DEF NextPass
  <2>2. SameCounts(mem, mem')
    BY <1>2, <2>1, AgreeTrans
  <2> QED
    BY <1>1, <1>2, <1>5, <2>1, <2>2 DEF NextPass, Idles
<1>6. CASE \E s \in pass_a_work(mem) :
             LET m == pass_a_serve(a, s) IN Reserve(m, m.current[s])
  <2>1. PICK s \in pass_a_work(mem) :
          LET m == pass_a_serve(a, s) IN Reserve(m, m.current[s])
    BY <1>6
  <2> DEFINE m == pass_a_serve(a, s)
             t == m.current[s]
  <2>2. /\ s \in Servable(mem) /\ s \in Slots
        /\ s \notin mem.fulfilled \cup mem.exhausted /\ mem.current[s] \notin mem.active
        /\ s \notin GivenUp(mem)
    <3>1. s \in Servable(mem) /\ s \notin GivenUp(mem)
      BY <2>1 DEF pass_a_work, GivenUp
    <3> QED
      BY <3>1 DEF Servable, OpenSlots
  <2>3. HasRetry(a, s) <=> HasRetry(mem, s)
    BY <1>2 DEF HasRetry, SameCounts
  <2>4. /\ SameCounts(a, m) /\ m \in States /\ m.pass = a.pass /\ m.exhausted = a.exhausted
        /\ m.active = a.active /\ t \in Tasks
        /\ \/ /\ HasRetry(mem, s) /\ t = mem.current[s]
              /\ m.slotOf = mem.slotOf /\ m.current = mem.current
           \/ /\ ~HasRetry(mem, s) /\ t \in ReserveTasks(Stratum[s]) \ Known(mem)
              /\ m.slotOf = [mem.slotOf EXCEPT ![t] = s]
              /\ m.current = [mem.current EXCEPT ![s] = t]
    <3>1. CASE HasRetry(a, s)
      <4>1. m = a
        BY <3>1 DEF pass_a_serve
      <4>2. t = mem.current[s] /\ t \in Tasks
        BY <1>1, <1>2, <2>2, <4>1, Fields
      <4> HIDE DEF m
      <4> QED
        BY <1>2, <2>3, <3>1, <4>1, <4>2, AgreeTrans
    <3>2. CASE ~HasRetry(a, s)
      <4> DEFINE u == ReserveQueue[Stratum[s]][First(UnusedReserve(a, s))]
      <4>1. UnusedReserve(a, s) = UnusedReserve(mem, s) /\ Known(a) = Known(mem)
        BY <1>2 DEF UnusedReserve, Known
      <4>2. UnusedReserve(a, s) # {}
        BY <2>2, <2>3, <3>2, <4>1 DEF Servable
      <4>3. u \in ReserveTasks(Stratum[s]) \ Known(mem) /\ u \in Tasks
        BY <1>2, <2>2, <4>1, <4>2, FirstUnused
      <4>4. m = [a EXCEPT !.slotOf[u] = s, !.current[s] = u]
        BY <3>2 DEF pass_a_serve, allocate_reserve
      <4> HIDE DEF u, m
      <4>5. /\ m.slotOf = [mem.slotOf EXCEPT ![u] = s]
            /\ m.current = [mem.current EXCEPT ![s] = u]
            /\ SameCounts(a, m) /\ m.pass = a.pass /\ m.exhausted = a.exhausted
            /\ m.active = a.active
        BY <1>2, <4>4 DEF States, SameCounts
      <4>6. t = u
        BY <1>1, <2>2, <4>5, Fields
      <4>7. m \in States
        <5>1. [mem.slotOf EXCEPT ![u] = s] \in [Tasks -> Slots \cup {NoSlot}]
          BY <1>1, <2>2, Fields
        <5>2. [mem.current EXCEPT ![s] = u] \in [Slots -> Tasks]
          BY <1>1, <4>3, Fields
        <5>3. m = [a EXCEPT !.slotOf = [mem.slotOf EXCEPT ![u] = s],
                            !.current = [mem.current EXCEPT ![s] = u]]
          BY <1>2, <4>4 DEF States
        <5> QED
          BY <1>2, <5>1, <5>2, <5>3 DEF States
      <4> HIDE DEF t
      <4> QED
        BY <2>3, <3>2, <4>3, <4>5, <4>6, <4>7
    <3> QED
      BY <3>1, <3>2
  <2>5. Reserve(m, t)
    BY <2>1
  <2>6. /\ t \notin TasksOf(InFlight) /\ m.slotOf[t] \in Slots
        /\ \A u \in Tasks : mem.slotOf[u] \in Slots => m.slotOf[u] = mem.slotOf[u]
    <3>1. m = pass_a_serve(pass_a_scan(mem), s)
      BY DEF a
    <3> HIDE DEF m
    <3> QED
      BY <2>2, <3>1, ServeKeepsPlaces
  <2> HIDE DEF t, m
  <2> DEFINE n == [m EXCEPT !.active = @ \cup {t}]
  <2>7. Agree(m, n) /\ n.active = mem.active \cup {t}
    BY <1>2, <2>4, ActiveFields
  <2>8. mem' = n /\ saved' = n /\ picked' = Item(m, t) /\ pc' = "submit"
    BY <2>5 DEF Reserve
  <2> HIDE DEF n
  <2>9. SameCounts(mem, n) /\ n.pass = "A" /\ n.exhausted = a.exhausted
        /\ n.slotOf = m.slotOf /\ n.current = m.current
    BY <1>2, <2>4, <2>7, AgreeTrans DEF Agree
  <2>10. Reserves(t)
    <3>1. picked'.task = t /\ picked'.pass = m.pass /\ picked'.slot = m.slotOf[t]
      BY <2>8 DEF Item
    <3>2. SameCounts(mem, mem')
      BY <2>8, <2>9
    <3> QED
      BY <1>1, <1>2, <2>4, <2>6, <2>7, <2>8, <2>9, <3>1, <3>2 DEF Reserves
  <2>11. t = mem'.current[s]
    BY <2>8, <2>9 DEF t
  <2>12. FromA(t)
    BY <1>1, <1>2, <2>2, <2>4, <2>8, <2>9, <2>11 DEF FromA
  <2> QED
    BY <2>4, <2>10, <2>12
<1> QED
  BY <1>3, <1>4, <1>5, <1>6

LEMMA ReserveHereView ==
  ASSUME IInv, NEW p, Selecting(p), NEW t \in mem.success \ mem.active, Reserve(mem, t)
  PROVE  /\ Reserves(t) /\ mem.pass = p
         /\ mem'.exhausted = mem.exhausted /\ mem'.slotOf = mem.slotOf
         /\ mem'.current = mem.current
<1> DEFINE n == [mem EXCEPT !.active = @ \cup {t}]
<1>1. mem \in States /\ t \in Tasks
  BY DEF IInv, TypeOK, States
<1>2. Agree(mem, n) /\ n.active = mem.active \cup {t}
  BY <1>1, ActiveFields
<1>3. mem' = n /\ saved' = n /\ picked' = Item(mem, t) /\ pc' = "submit"
  BY DEF Reserve
<1> HIDE DEF n
<1>4. t \notin TasksOf(InFlight) /\ mem.slotOf[t] \in Slots
  BY FlightsAreReserved DEF IInv, PlacesAgree
<1> QED
  BY <1>1, <1>2, <1>3, <1>4 DEF Reserves, Item, Agree, Selecting

LEMMA PassBView ==
  ASSUME IInv, PassB
  PROVE  Idles \/ \E t \in Tasks : Reserves(t) /\ FromB(t)
<1>1. mem \in States /\ Selecting("B")
  BY DEF IInv, TypeOK, PassB
<1>2. CASE \E t \in pass_b_work(mem) : Reserve(mem, t)
  <2>1. PICK t \in PassBEligible(mem) : Reserve(mem, t)
    BY <1>2 DEF pass_b_work
  <2>2. t \in mem.success \ mem.active /\ t \in Tasks
    BY <1>1, Fields DEF PassBEligible
  <2> QED
    BY <1>1, <2>1, <2>2, ReserveHereView DEF FromB
<1>3. CASE NoItemYet(mem)
  BY <1>1, <1>3, AgreeTrans DEF NoItemYet, Idles, Selecting
<1>4. CASE NextPass(mem, "C")
  <2>1. /\ SameCounts(mem, mem') /\ mem'.pass = "C" /\ mem'.exhausted = mem.exhausted
        /\ mem'.slotOf = mem.slotOf /\ mem'.current = mem.current
        /\ mem'.active = mem.active
    BY <1>1, <1>4, PassFields DEF NextPass
  <2> QED
    BY <1>1, <1>4, <2>1 DEF NextPass, Idles, Selecting
<1> QED
  BY <1>2, <1>3, <1>4 DEF PassB

\* A terminal status, from state m.
LEMMA TerminalView ==
  ASSUME IInv, CallsNextWork, NEW m \in States, NEW st, SetTerminal(m, st),
         SameCounts(mem, m), m.active = mem.active, m.pass = mem.pass,
         m.slotOf = mem.slotOf, m.current = mem.current,
         m.exhausted \in {mem.exhausted, mem.exhausted \cup GivenUp(mem)},
         m.exhausted # mem.exhausted => mem.pass = "A",
         UNCHANGED <<rows, stage, pool, stop, userStop, seen, report, bounds>>
  PROVE  Idles
<1>1. Agree(m, mem') /\ mem'.active = m.active
  BY StatusFields DEF SetTerminal
<1> QED
  BY <1>1, AgreeTrans DEF SetTerminal, Idles, Agree

LEMMA PassCView ==
  ASSUME IInv, PassC
  PROVE  Idles \/ \E t \in Tasks : Reserves(t) /\ FromC(t)
<1>1. mem \in States /\ Selecting("C") /\ CallsNextWork
      /\ UNCHANGED <<rows, stage, pool, stop, userStop, seen, report, bounds>>
  BY DEF IInv, TypeOK, PassC, Selecting
<1>2. CASE \E t \in pass_c_work(mem) : Reserve(mem, t)
  <2>1. PICK t \in PassCEligible(mem) : Reserve(mem, t) /\ RemainingQuota(mem) > 0
    BY <1>2 DEF pass_c_work
  <2>2. t \in mem.success \ mem.active /\ t \in Tasks
    BY <1>1, Fields DEF PassCEligible
  <2> QED
    BY <1>1, <2>1, <2>2, ReserveHereView DEF FromC
<1>3. CASE NoItemYet(mem)
  BY <1>1, <1>3, AgreeTrans DEF NoItemYet, Idles
<1>4. CASE SetTerminal(mem, "quota_unmet")
  BY <1>1, <1>4, AgreeTrans, TerminalView
<1> QED
  BY <1>2, <1>3, <1>4 DEF PassC

LEMMA TargetReachedView == IInv /\ TargetReached => Idles
<1> SUFFICES ASSUME IInv, TargetReached PROVE Idles
  OBVIOUS
<1>1. mem \in States
  BY DEF IInv, TypeOK
<1> QED
  BY <1>1, AgreeTrans, TerminalView DEF TargetReached

LEMMA SmokeEndView == IInv /\ SmokeEnd => Idles
<1> SUFFICES ASSUME IInv, SmokeEnd PROVE Idles
  OBVIOUS
<1> DEFINE a == pass_a_scan(mem)
<1>1. mem \in States /\ Selecting("A") /\ mem.pass = "A" /\ CallsNextWork
      /\ UNCHANGED <<rows, stage, pool, stop, userStop, seen, report, bounds>>
  BY DEF IInv, TypeOK, SmokeEnd, Selecting
<1>2. /\ a \in States /\ SameCounts(mem, a) /\ a.pass = mem.pass
      /\ a.exhausted = mem.exhausted \cup GivenUp(mem)
      /\ a.slotOf = mem.slotOf /\ a.current = mem.current /\ a.active = mem.active
  BY <1>1, ScanFields
<1>3. SetTerminal(a, "quota_unmet")
  BY DEF SmokeEnd
<1> HIDE DEF a
<1> QED
  BY <1>1, <1>2, <1>3, TerminalView

Selects ==
  Idles \/ \E t \in Tasks : Reserves(t) /\ (FromA(t) \/ FromB(t) \/ FromC(t))

\* The reservations are reset to the tasks of the threads that go on: W.
KeepsFlights(W) ==
  /\ W \subseteq InFlight /\ InFlight' = W
  /\ \A w \in W : pool'[w] = pool[w]
  /\ \A w \in Workers \ W : pool'[w].pc = "free"
  /\ Agree(mem, mem') /\ mem'.active = TasksOf(W) /\ saved' = mem'
  /\ mem'.status = mem.status
  /\ UNCHANGED <<rows, userStop, report, bounds>>

LEMMA WithdrawView ==
  ASSUME IInv, WithdrawReservation
  PROVE  KeepsFlights(InFlight) /\ pc = "submit" /\ pc' = "dispatch" /\ pool' = pool
         /\ UNCHANGED <<stage, seen>>
<1>1. mem \in States
  BY DEF IInv, TypeOK
<1>2. Agree(mem, mem') /\ mem'.active = TasksOf(InFlight) /\ mem'.status = mem.status
  BY <1>1, ActiveFields DEF WithdrawReservation
<1> QED
  BY <1>2 DEF WithdrawReservation, KeepsFlights, InFlight

LEMMA CollectView ==
  ASSUME IInv, Collect
  PROVE  KeepsFlights(InFlight \ Finished) /\ Waits /\ pc' = "reconcile"
         /\ stage' = "loop"
         /\ seen' = seen \cup ({pool[w].result : w \in Finished}
                                 \cap {"recoverable", "permanent"})
<1>1. mem \in States
  BY DEF IInv, TypeOK
<1>2. Agree(mem, mem') /\ mem'.active = TasksOf(InFlight \ Finished)
      /\ mem'.status = mem.status
  BY <1>1, ActiveFields DEF Collect
<1>3. pool' = [w \in Workers |-> IF w \in Finished THEN Idle ELSE pool[w]]
  BY DEF Collect
<1>4. InFlight' = InFlight \ Finished
  BY <1>3, IdleIsThread DEF InFlight
<1>5. \A w \in Workers \ (InFlight \ Finished) : pool'[w].pc = "free"
  BY <1>3, IdleIsThread DEF InFlight
<1> QED
  BY <1>2, <1>3, <1>4, <1>5 DEF Collect, KeepsFlights, InFlight

\* The process ends; c is the state it leaves in the ledger.
Ends(c) ==
  /\ pc' = "down" /\ stage' = "boot" /\ InFlight' = {} /\ mem' = saved'
  /\ Agree(c, saved') /\ saved'.active = c.active /\ rows' = rows

LEMMA FinishView ==
  ASSUME IInv, Finish
  PROVE  /\ pc = "dispatch" /\ ~CanFill /\ InFlight = {}
         /\ \/ Ends(saved) /\ saved' = saved /\ ~report'.eligible
               /\ report'.status = mem.status /\ mem.status # "in_progress"
            \/ Ends(mem) /\ mem.status = "in_progress" /\ report'.status = "stopped"
               /\ report'.eligible = auto_resume_eligible
<1>1. mem \in States /\ stop \in BOOLEAN
  BY DEF IInv, TypeOK
<1>2. /\ InFlight' = {} /\ pc' = "down" /\ stage' = "boot"
      /\ mem' = saved' /\ rows' = rows
  BY IdleIsThread DEF Finish, Exit, InFlight
<1>3. CASE stop /\ mem.status = "in_progress"
  <2>1. saved' = [mem EXCEPT !.status = "stopped"]
    BY <1>3 DEF Finish
  <2>2. Agree(mem, saved') /\ saved'.active = mem.active
    BY <1>1, <2>1, StatusFields
  <2> QED
    <3>1. report' = [status |-> "stopped", eligible |-> auto_resume_eligible]
      BY <1>3 DEF Finish, Exit, auto_resume_eligible
    <3>2. Ends(mem)
      BY <1>2, <2>2 DEF Ends
    <3> QED
      BY <1>3, <3>1, <3>2 DEF Finish
<1>4. CASE ~(stop /\ mem.status = "in_progress")
  <2>1. saved' = saved
    BY <1>4 DEF Finish
  <2>2. mem.status # "in_progress"
    <3>1. InFlight # Workers
      BY EngineAssumption DEF Finish
    <3> QED
      BY <1>4, <3>1 DEF Finish, CanFill
  <2> QED
    BY <1>2, <1>4, <2>1, <2>2, AgreeTrans DEF Ends, Finish, Exit
<1> QED
  BY <1>3, <1>4

LEMMA RepairDoneView ==
  ASSUME IInv, RepairDone
  PROVE  /\ Ends(mem) /\ pc = "reconcile" /\ stage = "repair" /\ Pending = {}
         /\ ~report'.eligible
<1>1. mem \in States
  BY DEF IInv, TypeOK
<1>2. Agree(mem, saved') /\ saved'.active = mem.active
  BY <1>1, StatusFields DEF RepairDone
<1> QED
  BY <1>2, IdleIsThread DEF RepairDone, Exit, Ends, InFlight

LEMMA CrashView ==
  ASSUME IInv, Crash
  PROVE  Ends(saved) /\ saved' = saved /\ report'.status = "crashed" /\ ~report'.eligible
  BY IdleIsThread, AgreeTrans DEF Crash, Exit, Ends, InFlight, ledger

\* Joined: the threads are gone.
Joins ==
  /\ pc = "join" /\ InFlight = Finished /\ InFlight' = {}
  /\ pc' = "reconcile" /\ stage' = "repair"
  /\ Agree(mem, mem') /\ mem'.active = {}
  /\ UNCHANGED <<ledger, picked, stop, userStop, seen, report, bounds>>

LEMMA JoinedView ==
  ASSUME IInv, Joined
  PROVE  Joins
<1>1. mem \in States
  BY DEF IInv, TypeOK
<1>2. Agree(mem, mem') /\ mem'.active = {}
  BY <1>1, ActiveFields DEF Joined
<1> QED
  BY <1>2, IdleIsThread DEF Joined, Joins, InFlight

\* Submit: the picked item gets a thread.
Submits(w) ==
  /\ pc = "submit" /\ pc' = "dispatch" /\ w \in Workers \ InFlight
  /\ InFlight' = InFlight \cup {w}
  /\ pool'[w] = Thread("queued", picked)
  /\ pool'[w].pc = "queued" /\ pool'[w].item = picked /\ pool'[w].row = 0
  /\ \A v \in Workers \ {w} : pool'[v] = pool[v]
  /\ UNCHANGED <<ledger, stage, mem, stop, userStop, seen, report, bounds>>

LEMMA SubmitView ==
  ASSUME IInv, Submit
  PROVE  \E w \in Workers : Submits(w)
<1>1. PICK w \in Workers \ InFlight : pool' = [pool EXCEPT ![w] = Thread("queued", picked)]
  BY DEF Submit
<1>2. pool'[w] = Thread("queued", picked) /\ \A v \in Workers \ {w} : pool'[v] = pool[v]
  BY <1>1 DEF IInv, TypeOK
<1>3. pool'[w].pc = "queued" /\ pool'[w].item = picked /\ pool'[w].row = 0
  BY <1>2 DEF Thread
<1>4. InFlight' = InFlight \cup {w}
  BY <1>2, <1>3 DEF InFlight
<1> QED
  BY <1>1, <1>2, <1>3, <1>4 DEF Submit, Submits

\* ReconcileDone, MainFault and Sigint are read as they are written.
Steps ==
  \/ \E w \in Workers : Worker(w)
  \/ Applies
  \/ Publishes
  \/ Boots
  \/ ReconcileDone
  \/ Selects
  \/ \E w \in Workers : Submits(w)
  \/ WithdrawReservation /\ KeepsFlights(InFlight) /\ pool' = pool
  \/ Collect /\ KeepsFlights(InFlight \ Finished)
  \/ Finish /\ pc = "dispatch" /\ InFlight = {} /\ (Ends(saved) \/ Ends(mem))
  \/ RepairDone /\ Ends(mem)
  \/ Crash /\ Ends(saved) /\ saved' = saved
  \/ Joins
  \/ MainFault
  \/ Sigint
  \/ UNCHANGED vars

LEMMA StepKinds ==
  ASSUME IInv, Own, [Next]_vars
  PROVE  Steps
<1>1. CASE Boot
  BY <1>1, BootBoots DEF Steps
<1>2. CASE Main
  <2>1. CASE ReconcileRow
    BY <2>1, ReconcileRowApplies DEF Steps
  <2>2. CASE PublishAccepted
    BY <2>2, PublishAcceptedPublishes DEF Steps
  <2>3. CASE CommitAccepted
    BY <2>3, CommitAcceptedApplies DEF Steps
  <2>4. CASE TargetReached \/ SmokeEnd
    BY <2>4, TargetReachedView, SmokeEndView DEF Steps, Selects
  <2>5. CASE PassA \/ PassB \/ PassC
    BY <2>5, PassAView, PassBView, PassCView DEF Steps, Selects
  <2>6. CASE Submit
    BY <2>6, SubmitView DEF Steps
  <2>7. CASE WithdrawReservation
    BY <2>7, WithdrawView DEF Steps
  <2>8. CASE Collect
    BY <2>8, CollectView DEF Steps
  <2>9. CASE Finish
    BY <2>9, FinishView DEF Steps
  <2>10. CASE RepairDone
    BY <2>10, RepairDoneView DEF Steps
  <2>11. CASE Joined
    BY <2>11, JoinedView DEF Steps
  <2>12. CASE ReconcileDone
    BY <2>12 DEF Steps
  <2> QED
    BY <1>2, <2>1, <2>2, <2>3, <2>4, <2>5, <2>6, <2>7, <2>8, <2>9, <2>10, <2>11, <2>12
    DEF Main
<1>3. CASE Crash
  BY <1>3, CrashView DEF Steps
<1>4. CASE MainFault \/ Sigint \/ UNCHANGED vars
  BY <1>4 DEF Steps
<1>5. CASE \E w \in Workers : Worker(w)
  BY <1>5 DEF Steps
<1> QED
  BY <1>1, <1>2, <1>3, <1>4, <1>5 DEF Next

----------------------------------------------------------------------------
(* Whose row is whose, and what counting requires, is inductive.           *)

LEMMA OwnWorker ==
  ASSUME IInv, Own, NEW w \in Workers, Worker(w)
  PROVE  Own'
<1>1. /\ w \in InFlight /\ pool[w].pc \in {"queued", "started", "rolling"}
      /\ UNCHANGED <<saved, mem, pc>>
      /\ InFlight' = InFlight /\ pool'[w].item = pool[w].item
      /\ \A v \in Workers \ {w} : pool'[v] = pool[v]
      /\ Loses(w) \/ Opens(w) \/ Works(w) \/ Decides(w)
  BY WorkerRows
<1>2. TypeOK /\ \A i \in DOMAIN rows : rows[i] \in Rows /\ i # 0
  BY RowsTyped DEF IInv
<1>3. InFlight \subseteq Workers
  BY DEF InFlight
<1>4. /\ \A i \in DOMAIN rows : i \in DOMAIN rows' /\ rows'[i].task = rows[i].task
                                /\ rows'[i].pass = rows[i].pass
      /\ \A i \in DOMAIN rows : i # pool[w].row => rows'[i] = rows[i]
      /\ pool'[w].row # pool[w].row => Opens(w)
      /\ pool[w].row # 0 /\ ~Loses(w) => rows[pool[w].row].status = "in_progress"
      /\ \A i \in DOMAIN rows' : rows'[i].status = "accepted" =>
            i \in DOMAIN rows /\ rows'[i] = rows[i]
      /\ \A i \in DOMAIN rows' : rows'[i].status \in CountedStatuses => rows'[i].work
  <2> USE DEF CountedStatuses, GenuineStatuses, RejectStatuses
  <2>1. CASE Loses(w)
    BY <2>1 DEF Loses, Own, CountedAreFinal
  <2>2. CASE Opens(w)
    <3>1. pool[w].row = 0
      BY <1>1, <2>2 DEF Opens, Own, ThreadsOwnRows
    <3> QED
      BY <2>2, <3>1 DEF Opens, Own, CountedAreFinal
  <2>3. CASE Works(w)
    <3> DEFINE r == pool[w].row
    <3>1. /\ r \in DOMAIN rows /\ rows[r].status = "in_progress"
          /\ Changed(r, [rows[r] EXCEPT !.work = TRUE]) /\ pool'[w].row = r
      BY <1>1, <2>3 DEF Works, Changed, Own, ThreadsOwnRows
    <3>2. rows'[r].status = "in_progress" /\ rows'[r].task = rows[r].task
          /\ rows'[r].pass = rows[r].pass
      BY <1>2, <3>1, RowWork DEF Changed
    <3> QED
      BY <3>1, <3>2 DEF Changed, Own, CountedAreFinal
  <2>4. CASE Decides(w)
    <3> DEFINE r == pool[w].row
    <3>1. PICK st \in {"candidate_success", "failed", "interrupted"},
               b \in Results \cup {NoPurchase} :
                 Changed(r, [rows[r] EXCEPT !.status = st, !.result = b])
      BY <2>4 DEF Decides
    <3>2. r \in DOMAIN rows /\ rows[r].status = "in_progress" /\ rows[r].work
          /\ pool'[w].row = r
      BY <1>1, <2>4, <3>1 DEF Decides, Changed, Own, ThreadsOwnRows
    <3>3. rows'[r].status = st /\ rows'[r].task = rows[r].task
          /\ rows'[r].pass = rows[r].pass /\ rows'[r].work
      BY <1>2, <3>1, <3>2, RowOutcome DEF Changed
    <3> QED
      BY <3>1, <3>2, <3>3 DEF Changed, Own, CountedAreFinal
  <2> QED
    BY <1>1, <2>1, <2>2, <2>3, <2>4
<1>5. \A v \in InFlight \ {w} : pool[v].row # pool[w].row \/ pool[v].row = 0
  BY <1>1 DEF IInv, OneFlightPerTask, Own, ThreadsOwnRows
<1>6. ThreadsOwnRows'
  <2> SUFFICES ASSUME NEW v \in InFlight
               PROVE  /\ pool'[v].pc = "queued" => pool'[v].row = 0
                      /\ pool'[v].pc \in {"started", "rolling"} =>
                           pool'[v].row # 0 /\ rows'[pool'[v].row].status = "in_progress"
                      /\ pool'[v].pc = "rolling" => rows'[pool'[v].row].work
                      /\ pool'[v].row # 0 =>
                           /\ pool'[v].row \in DOMAIN rows'
                           /\ rows'[pool'[v].row].task = pool'[v].item.task
                           /\ rows'[pool'[v].row].pass = pool'[v].item.pass
    BY <1>1 DEF ThreadsOwnRows
  <2>1. CASE v # w
    BY <1>1, <1>3, <1>4, <1>5, <2>1 DEF Own, ThreadsOwnRows
  <2>2. CASE v = w
    <3>1. CASE Loses(w)
      BY <1>1, <2>2, <3>1 DEF Loses, Own, ThreadsOwnRows
    <3>2. CASE Opens(w)
      BY <1>1, <2>2, <3>2 DEF Opens
    <3>3. CASE Works(w)
      <4>1. rows'[pool[w].row] = [rows[pool[w].row] EXCEPT !.work = TRUE]
            /\ pool[w].row \in DOMAIN rows
        BY <3>3 DEF Works, Changed
      <4>2. rows'[pool[w].row].status = rows[pool[w].row].status
            /\ rows'[pool[w].row].work
        BY <1>2, <4>1, RowWork
      <4> QED
        BY <1>1, <1>4, <2>2, <3>3, <4>1, <4>2 DEF Works, Own, ThreadsOwnRows
    <3>4. CASE Decides(w)
      <4>1. pool'[w].pc = "done" /\ pool'[w].row = pool[w].row
        BY <3>4 DEF Decides
      <4>2. pool[w].row # 0 => /\ pool[w].row \in DOMAIN rows
                               /\ rows[pool[w].row].task = pool[w].item.task
                               /\ rows[pool[w].row].pass = pool[w].item.pass
        BY <1>1 DEF Own, ThreadsOwnRows
      <4> QED
        BY <1>1, <1>4, <2>2, <4>1, <4>2
    <3> QED
      BY <1>1, <3>1, <3>2, <3>3, <3>4
  <2> QED
    BY <2>1, <2>2
<1>7. CountedAreFinal'
  <2>1. \A i \in mem.processed : rows'[i] = rows[i]
    <3> SUFFICES ASSUME NEW i \in mem.processed PROVE rows'[i] = rows[i]
      OBVIOUS
    <3>1. i \in DOMAIN rows /\ rows[i].status # "in_progress" /\ i # 0
      BY <1>2 DEF Own, CountedAreFinal, FinalStatuses, GenuineStatuses, RejectStatuses,
                  InfraStatuses
    <3> QED
      BY <1>1, <1>4, <3>1 DEF Loses
  <2> QED
    BY <1>1, <1>4, <2>1 DEF Own, CountedAreFinal
<1>8. CommitIsDue'
  <2> SUFFICES ASSUME pc = "commit"
               PROVE  /\ rows'[NextRow'].status = "candidate_success"
                      /\ Verdict(NextRow)' = "accepted"
                      /\ rows'[NextRow'].files > 0
    BY <1>1 DEF CommitIsDue
  <2> DEFINE n == NextRow
             t == rows[n].task
  <2>1. NextRow' = n /\ \A i \in DOMAIN rows : rows[i].task \notin mem.active =>
                                                i \in DOMAIN rows' /\ rows'[i] = rows[i]
    BY WorkerKeepsPending
  <2>2. n \in DOMAIN rows /\ t \notin mem.active
    BY <1>2, NextRowIsPending DEF IInv, PhaseOK, Pending
  <2>3. rows'[n] = rows[n]
    BY <2>1, <2>2
  <2>4. PriorResults(t)' = PriorResults(t)
    BY <1>4, <2>1, <2>2 DEF PriorResults, AcceptedRows
  <2> HIDE DEF n
  <2> QED
    BY <2>1, <2>2, <2>3, <2>4 DEF Own, CommitIsDue, Verdict, n
<1> QED
  BY <1>6, <1>7, <1>8 DEF Own

LEMMA OwnApplies ==
  ASSUME IInv, Own, Applies
  PROVE  Own'
<1>0. PICK n : n = NextRow
  OBVIOUS
<1>1. TypeOK /\ mem \in States /\ \A i \in DOMAIN rows : rows[i] \in Rows
  BY RowsTyped DEF IInv, TypeOK
<1>2. /\ n \in Pending /\ n \in DOMAIN rows /\ n \in Nat /\ rows[n].status # "in_progress"
      /\ Changed(n, [rows[n] EXCEPT !.status = Verdict(n)])
      /\ mem' = apply_attempt(mem, n, rows[n], Verdict(n))
      /\ UNCHANGED <<saved, pool>> /\ pc' = "reconcile"
  BY <1>0 DEF Applies
<1>3. Verdict(n) \in FinalStatuses /\ Verdict(n) \in RowStatuses
  BY <1>1, <1>2, VerdictIsFinal, VerdictIsStatus
<1>4. mem'.processed = mem.processed \cup {n}
  <2> DEFINE a == apply_attempt(mem, n, rows[n], Verdict(n))
  <2>2. a.processed = mem.processed \cup {n}
    BY <1>1, ApplyProcesses
  <2> HIDE DEF a
  <2> QED
    BY <1>2, <2>2 DEF a
<1>5. rows'[n].status = Verdict(n) /\ rows'[n].work = rows[n].work /\ rows[n].work
  BY <1>1, <1>2, RowStatus DEF Changed, Pending
<1>6. InFlight' = InFlight
  BY <1>2 DEF InFlight
<1>7. \A w \in InFlight : pool[w].row # n
  BY <1>2, PendingIsNobodys
<1>8. ThreadsOwnRows'
  BY <1>2, <1>6, <1>7 DEF Own, ThreadsOwnRows, Changed
<1>9. CountedAreFinal'
  BY <1>2, <1>3, <1>4, <1>5 DEF Own, CountedAreFinal, Changed
<1>10. CommitIsDue'
  BY <1>2 DEF CommitIsDue
<1> QED
  BY <1>8, <1>9, <1>10 DEF Own

LEMMA OwnPublishes ==
  ASSUME IInv, Own, Publishes
  PROVE  Own'
<1>0. PICK n : n = NextRow
  OBVIOUS
<1>1. TypeOK /\ \A i \in DOMAIN rows : rows[i] \in Rows
  BY RowsTyped DEF IInv, TypeOK
<1>2. /\ n \in Pending /\ n \in DOMAIN rows
      /\ rows[n].status = "candidate_success" /\ Verdict(n) = "accepted"
      /\ Changed(n, [rows[n] EXCEPT !.files = @ + 1])
      /\ UNCHANGED <<saved, mem, pool>>
  BY <1>0 DEF Publishes
<1>3. /\ rows'[n].status = rows[n].status /\ rows'[n].work = rows[n].work
      /\ rows'[n].task = rows[n].task /\ rows'[n].pass = rows[n].pass
      /\ rows'[n].result = rows[n].result /\ rows'[n].files = rows[n].files + 1
  BY <1>1, <1>2, RowFiles DEF Changed
<1>4. /\ DOMAIN rows' = DOMAIN rows
      /\ \A i \in DOMAIN rows : /\ rows'[i].status = rows[i].status
                                /\ rows'[i].work = rows[i].work
                                /\ rows'[i].task = rows[i].task
                                /\ rows'[i].pass = rows[i].pass
                                /\ rows'[i].result = rows[i].result
  BY <1>2, <1>3 DEF Changed
<1>5. Pending' = Pending /\ AcceptedRows' = AcceptedRows
  BY <1>2, <1>4 DEF Pending, AcceptedRows
<1>6. \A t : PriorResults(t)' = PriorResults(t)
  BY <1>4, <1>5 DEF PriorResults, AcceptedRows
<1>7. NextRow' = n
  BY <1>0, <1>5 DEF NextRow
<1>8. rows[n].files \in Nat
  BY <1>1, <1>2 DEF Rows
<1>9. InFlight' = InFlight
  BY <1>2 DEF InFlight
<1>10. ThreadsOwnRows'
  <2>1. \A w \in InFlight : pool[w].row # 0 => pool[w].row \in DOMAIN rows
    BY DEF Own, ThreadsOwnRows
  <2> QED
    BY <1>2, <1>4, <1>9, <2>1 DEF Own, ThreadsOwnRows
<1>11. CountedAreFinal'
  BY <1>2, <1>4 DEF Own, CountedAreFinal
<1>12. CommitIsDue'
  <2>1. Verdict(n)' = Verdict(n)
    BY <1>2, <1>4, <1>6 DEF Verdict
  <2> QED
    BY <1>2, <1>3, <1>7, <1>8, <2>1 DEF CommitIsDue
<1> QED
  BY <1>10, <1>11, <1>12 DEF Own

LEMMA OwnBoots ==
  ASSUME IInv, Own, Boots
  PROVE  Own'
<1>1. TypeOK /\ \A i \in DOMAIN rows : rows[i] \in Rows
  BY RowsTyped DEF IInv, TypeOK
<1>2. /\ mem'.processed = saved.processed /\ saved'.processed = saved.processed
      /\ InFlight' = {} /\ pc' = "reconcile" /\ DOMAIN rows' = DOMAIN rows
      /\ \A i \in DOMAIN rows : rows[i].status # "in_progress" => rows'[i] = rows[i]
  BY DEF Boots, Agree, SameCounts
<1>3. \A i \in DOMAIN rows : rows[i].status = "in_progress" =>
                               rows'[i].status = "interrupted"
  <2> SUFFICES ASSUME NEW i \in DOMAIN rows, rows[i].status = "in_progress"
               PROVE  rows'[i].status = "interrupted"
    OBVIOUS
  <2>1. rows'[i] = [rows[i] EXCEPT !.status = "interrupted"] /\ rows[i] \in Rows
    BY <1>1 DEF Boots
  <2> QED
    BY <2>1, RowStatus
<1>4. ThreadsOwnRows' /\ CommitIsDue'
  BY <1>2 DEF ThreadsOwnRows, CommitIsDue
<1>5. CountedAreFinal'
  <2>1. "interrupted" \notin CountedStatuses /\ "in_progress" \notin FinalStatuses
    BY DEF CountedStatuses, GenuineStatuses, RejectStatuses, FinalStatuses, InfraStatuses
  <2> QED
    BY <1>2, <1>3, <2>1 DEF Own, CountedAreFinal
<1> QED
  BY <1>4, <1>5 DEF Own

\* A step that touches no row and counts none.
LEMMA OwnQuiet ==
  ASSUME IInv, Own, rows' = rows,
         \A w \in InFlight' : \/ w \in InFlight /\ pool'[w] = pool[w]
                              \/ pool'[w].pc = "queued" /\ pool'[w].row = 0,
         saved'.processed \subseteq mem'.processed, mem'.processed \subseteq mem.processed,
         pc' = "commit" => pc = "commit" /\ mem' = mem
  PROVE  Own'
<1>1. ThreadsOwnRows'
  BY DEF Own, ThreadsOwnRows
<1>2. CountedAreFinal'
  BY DEF Own, CountedAreFinal
<1>3. CommitIsDue'
  <2> SUFFICES ASSUME pc' = "commit" PROVE CommitIsDue'
    BY DEF CommitIsDue
  <2>1. NextRow' = NextRow /\ AcceptedRows' = AcceptedRows
    BY DEF NextRow, Pending, AcceptedRows
  <2>2. \A t : PriorResults(t)' = PriorResults(t)
    BY <2>1 DEF PriorResults
  <2> QED
    BY <2>1, <2>2 DEF Own, CommitIsDue, Verdict
<1> QED
  BY <1>1, <1>2, <1>3 DEF Own

\* Three ways for the counts to be kept: each state keeps its own, the ledger
\* takes the memory's, the memory is read back from the ledger.
Keeps ==
  /\ rows' = rows
  /\ \/ SameCounts(mem, mem') /\ SameCounts(saved, saved')
     \/ SameCounts(mem, mem') /\ SameCounts(mem, saved')
     \/ SameCounts(saved, mem') /\ SameCounts(saved, saved')

LEMMA OwnStep ==
  ASSUME IInv, Own, [Next]_vars
  PROVE  /\ Own'
         /\ \/ \E w \in Workers : Worker(w)
            \/ Applies
            \/ Publishes
            \/ Boots
            \/ Keeps
<1> USE DEF SameCounts
<1>1. Steps
  BY StepKinds
<1>2. saved.processed \subseteq mem.processed
  BY DEF Own, CountedAreFinal
<1>3. CASE \E w \in Workers : Worker(w)
  BY <1>3, OwnWorker
<1>4. CASE Applies
  BY <1>4, OwnApplies
<1>5. CASE Publishes
  BY <1>5, OwnPublishes
<1>6. CASE Boots
  BY <1>6, OwnBoots
<1>7. ASSUME Keeps, pc' = "commit" => pc = "commit" /\ mem' = mem,
             \A w \in InFlight' : \/ w \in InFlight /\ pool'[w] = pool[w]
                                  \/ pool'[w].pc = "queued" /\ pool'[w].row = 0
      PROVE  Own'
  BY <1>2, <1>7, OwnQuiet DEF Keeps
<1>8. CASE ReconcileDone \/ MainFault \/ Sigint \/ UNCHANGED vars
  <2>1. Keeps /\ InFlight' = InFlight /\ pool' = pool
    BY <1>8 DEF ReconcileDone, MainFault, Sigint, vars, ledger, InFlight, Keeps
  <2>2. pc' = "commit" => pc = "commit" /\ mem' = mem
    BY <1>8 DEF ReconcileDone, MainFault, Sigint, vars, ledger
  <2> QED
    BY <1>7, <2>1, <2>2
<1>9. CASE Selects
  <2>1. Keeps /\ InFlight' = InFlight /\ pool' = pool /\ pc' # "commit"
    BY <1>9 DEF Selects, Idles, Reserves, InFlight, Keeps
  <2> QED
    BY <1>7, <2>1
<1>10. CASE \E w \in Workers : Submits(w)
  <2>1. PICK w \in Workers : Submits(w)
    BY <1>10
  <2>2. Keeps /\ pc' # "commit"
    BY <2>1 DEF Submits, Keeps, ledger
  <2>3. \A v \in InFlight' : \/ v \in InFlight /\ pool'[v] = pool[v]
                             \/ pool'[v].pc = "queued" /\ pool'[v].row = 0
    BY <2>1 DEF Submits, InFlight
  <2> QED
    BY <1>7, <2>2, <2>3
<1>11. CASE WithdrawReservation /\ KeepsFlights(InFlight)
  <2>1. Keeps /\ pc' # "commit"
    BY <1>11 DEF KeepsFlights, WithdrawReservation, Keeps, Agree
  <2> QED
    BY <1>7, <1>11, <2>1 DEF KeepsFlights
<1>12. CASE Collect /\ KeepsFlights(InFlight \ Finished)
  <2>1. Keeps /\ pc' # "commit"
    BY <1>12 DEF KeepsFlights, Collect, Keeps, Agree
  <2> QED
    BY <1>7, <1>12, <2>1 DEF KeepsFlights
<1>13. CASE Ends(saved) \/ Ends(mem)
  <2>1. Keeps /\ pc' # "commit" /\ InFlight' = {}
    BY <1>13 DEF Ends, Keeps, Agree
  <2> QED
    BY <1>7, <2>1
<1>14. CASE Joins
  <2>1. Keeps /\ pc' # "commit" /\ InFlight' = {}
    BY <1>14 DEF Joins, Keeps, Agree, ledger
  <2> QED
    BY <1>7, <2>1
<1>15. Keeps \/ (\E w \in Workers : Worker(w)) \/ Applies \/ Publishes \/ Boots
  <2>1. ReconcileDone \/ MainFault \/ Sigint \/ UNCHANGED vars => Keeps
    BY DEF ReconcileDone, MainFault, Sigint, vars, ledger, Keeps
  <2>2. Selects => Keeps
    BY DEF Selects, Idles, Reserves, Keeps
  <2>3. (\E w \in Workers : Submits(w)) => Keeps
    BY DEF Submits, Keeps, ledger
  <2>4. \A W : KeepsFlights(W) => Keeps
    BY DEF KeepsFlights, Keeps, Agree
  <2>5. Ends(saved) \/ Ends(mem) => Keeps
    BY DEF Ends, Keeps, Agree
  <2>6. Joins => Keeps
    BY DEF Joins, Keeps, Agree, ledger
  <2> QED
    BY <1>1, <2>1, <2>2, <2>3, <2>4, <2>5, <2>6 DEF Steps
<1>16. Own'
  BY <1>1, <1>3, <1>4, <1>5, <1>6, <1>8, <1>9, <1>10, <1>11, <1>12, <1>13, <1>14
  DEF Steps
<1> QED
  BY <1>15, <1>16

LEMMA OwnInit == Init => Own
<1> SUFFICES ASSUME Init PROVE Own
  OBVIOUS
<1>1. InFlight = {} /\ DOMAIN rows = {} /\ pc = "down"
  BY IdleIsThread DEF Init, InFlight
<1>2. mem.processed = {} /\ saved.processed = {}
  BY DEF Init, initial_state
<1> QED
  BY <1>1, <1>2 DEF Own, ThreadsOwnRows, CountedAreFinal, CommitIsDue

\* A row keeps its task, its pass and its slot, and once it has a final status it
\* keeps everything.
LEMMA RowsKept ==
  ASSUME IInv, Own, [Next]_vars
  PROVE  /\ DOMAIN rows \subseteq DOMAIN rows'
         /\ \A i \in DOMAIN rows :
              /\ rows'[i].task = rows[i].task /\ rows'[i].pass = rows[i].pass
              /\ rows'[i].slot = rows[i].slot
              /\ rows[i].status \in FinalStatuses => rows'[i] = rows[i]
              /\ rows[i].status # "in_progress" => rows'[i].work = rows[i].work
<1> USE DEF FinalStatuses, GenuineStatuses, RejectStatuses, InfraStatuses
<1>1. TypeOK /\ \A i \in DOMAIN rows : rows[i] \in Rows
  BY RowsTyped DEF IInv
<1>2. \/ \E w \in Workers : Worker(w)
      \/ Applies
      \/ Publishes
      \/ Boots
      \/ Keeps
  BY OwnStep
<1>3. ASSUME NEW k \in DOMAIN rows, NEW r, Changed(k, r),
             r.task = rows[k].task, r.pass = rows[k].pass, r.slot = rows[k].slot,
             rows[k].status \in FinalStatuses => r = rows[k],
             rows[k].status # "in_progress" => r.work = rows[k].work
      PROVE  /\ DOMAIN rows \subseteq DOMAIN rows'
             /\ \A i \in DOMAIN rows :
                  /\ rows'[i].task = rows[i].task /\ rows'[i].pass = rows[i].pass
                  /\ rows'[i].slot = rows[i].slot
                  /\ rows[i].status \in FinalStatuses => rows'[i] = rows[i]
                  /\ rows[i].status # "in_progress" => rows'[i].work = rows[i].work
  BY <1>3 DEF Changed
<1>4. CASE \E w \in Workers : Worker(w)
  <2>1. PICK w \in Workers : Worker(w)
    BY <1>4
  <2>2. w \in InFlight /\ (Loses(w) \/ Opens(w) \/ Works(w) \/ Decides(w))
    BY <2>1, WorkerRows
  <2> DEFINE k == pool[w].row
  <2>3. pool[w].pc \in {"started", "rolling"} =>
          k \in DOMAIN rows /\ rows[k].status = "in_progress"
    BY <2>2 DEF Own, ThreadsOwnRows
  <2>4. CASE Loses(w) \/ Opens(w)
    BY <2>4 DEF Loses, Opens
  <2>5. CASE Works(w)
    BY <1>1, <1>3, <2>3, <2>5, RowWork DEF Works
  <2>6. CASE Decides(w)
    <3>1. k \in DOMAIN rows /\ rows[k].status = "in_progress" /\ rows[k] \in Rows
      BY <1>1, <2>3, <2>6 DEF Decides
    <3>2. PICK st \in {"candidate_success", "failed", "interrupted"},
               b \in Results \cup {NoPurchase} :
                 Changed(k, [rows[k] EXCEPT !.status = st, !.result = b])
      BY <2>6 DEF Decides
    <3> DEFINE r == [rows[k] EXCEPT !.status = st, !.result = b]
    <3>3. r.task = rows[k].task /\ r.pass = rows[k].pass /\ r.slot = rows[k].slot
      BY <3>1, RowOutcome
    <3> HIDE DEF r, k
    <3> QED
      BY <1>3, <3>1, <3>2, <3>3 DEF r
  <2> QED
    BY <2>2, <2>4, <2>5, <2>6
<1>5. CASE Applies
  <2> DEFINE n == NextRow
             v == Verdict(n)
             r == [rows[n] EXCEPT !.status = v]
  <2>1. n \in DOMAIN rows /\ Changed(n, r) /\ rows[n].status # "in_progress"
    BY <1>5 DEF Applies
  <2>2. rows[n].status # "candidate_success" => v = rows[n].status
    BY <1>1, <2>1, VerdictIsFinal
  <2> HIDE DEF v, n
  <2>3. rows[n].status \in FinalStatuses => r = rows[n]
    BY <1>1, <2>1, <2>2 DEF Rows
  <2>4. r.task = rows[n].task /\ r.pass = rows[n].pass /\ r.slot = rows[n].slot
        /\ r.work = rows[n].work
    BY <1>1, <2>1, RowStatus
  <2> HIDE DEF r
  <2> QED
    BY <1>3, <2>1, <2>3, <2>4
<1>6. CASE Publishes
  <2> DEFINE n == NextRow
             r == [rows[n] EXCEPT !.files = @ + 1]
  <2>1. n \in DOMAIN rows /\ Changed(n, r) /\ rows[n].status = "candidate_success"
    BY <1>6 DEF Publishes
  <2> HIDE DEF n
  <2>2. r.task = rows[n].task /\ r.pass = rows[n].pass /\ r.slot = rows[n].slot
        /\ r.work = rows[n].work
    BY <1>1, <2>1, RowFiles
  <2> HIDE DEF r
  <2> QED
    BY <1>3, <2>1, <2>2
<1>7. CASE Boots
  <2>1. \A i \in DOMAIN rows :
          /\ rows'[i].task = rows[i].task /\ rows'[i].pass = rows[i].pass
          /\ rows'[i].slot = rows[i].slot
    <3> SUFFICES ASSUME NEW i \in DOMAIN rows
                 PROVE  /\ rows'[i].task = rows[i].task /\ rows'[i].pass = rows[i].pass
                        /\ rows'[i].slot = rows[i].slot
      OBVIOUS
    <3>1. \/ rows'[i] = [rows[i] EXCEPT !.status = "interrupted"]
          \/ rows'[i] = rows[i]
      BY <1>7 DEF Boots
    <3> DEFINE r == [rows[i] EXCEPT !.status = "interrupted"]
    <3>2. r.task = rows[i].task /\ r.pass = rows[i].pass /\ r.slot = rows[i].slot
      BY <1>1, RowStatus
    <3> HIDE DEF r
    <3> QED
      BY <3>1, <3>2 DEF r
  <2> QED
    BY <1>7, <2>1 DEF Boots
<1>8. CASE Keeps
  BY <1>8 DEF Keeps
<1> QED
  BY <1>2, <1>4, <1>5, <1>6, <1>7, <1>8

\* The action property CountedRowsAreFinal, over any number of workers, crashes and
\* restarts: reconcile_attempts may be interrupted and repeated at will.
THEOREM CountedRowsNeverChange == Spec => CountedRowsAreFinal
<1>1. IInv /\ Own /\ [Next]_vars =>
        [\A i \in DOMAIN rows :
           /\ i \in saved.processed => rows'[i] = rows[i]
           /\ rows[i].status \in GenuineStatuses => rows'[i].status = rows[i].status]_rows
  <2> SUFFICES ASSUME IInv, Own, [Next]_vars
               PROVE  \A i \in DOMAIN rows :
                        /\ i \in saved.processed => rows'[i] = rows[i]
                        /\ rows[i].status \in GenuineStatuses =>
                             rows'[i].status = rows[i].status
    OBVIOUS
  <2>1. \A i \in saved.processed : i \in DOMAIN rows /\ rows[i].status \in FinalStatuses
    BY DEF Own, CountedAreFinal
  <2> QED
    BY <2>1, RowsKept DEF FinalStatuses
<1>2. Init => Own
  BY OwnInit
<1>3. IInv /\ Own /\ [Next]_vars => Own'
  BY OwnStep
<1> QED
  BY <1>1, <1>2, <1>3, Invariant, PTL DEF Spec, CountedRowsAreFinal

----------------------------------------------------------------------------
(* Exactly-once apply.                                                     *)

\* Besides the counts of ExactlyOnce: the total is the number of counted accepted
\* rows, a second demonstration closes Pass B for its task, and the slots that
\* are fulfilled are those of the tasks with a first success.
CountedRest(m) ==
  /\ IsFiniteSet(Demonstrations(m, Tasks))
  /\ AcceptedTotal(m) = Cardinality(m.processed \cap AcceptedRows)
  /\ \A i \in m.processed : rows[i].status = "accepted" /\ rows[i].pass = "B" =>
                              rows[i].task \in m.bDone
  /\ \A t \in m.success : m.slotOf[t] \in m.fulfilled
  /\ \A s \in m.fulfilled : \E t \in m.success : m.slotOf[t] = s

Counts == ExactlyOnce /\ CountedRest(mem) /\ CountedRest(saved)

\* What was counted goes on counting the same.
LEMMA CountedSetsKept ==
  ASSUME IInv, Own, [Next]_vars
  PROVE  /\ \A t, P : mem.processed \cap Genuine(t, P)' = mem.processed \cap Genuine(t, P)
         /\ mem.processed \cap AcceptedRows' = mem.processed \cap AcceptedRows
         /\ \A t, P : saved.processed \cap Genuine(t, P)' = saved.processed \cap Genuine(t, P)
         /\ saved.processed \cap AcceptedRows' = saved.processed \cap AcceptedRows
         /\ \A t, P : mem.processed \cap AcceptedRows' \cap Genuine(t, P)'
                        = mem.processed \cap AcceptedRows \cap Genuine(t, P)
         /\ \A t, P : saved.processed \cap AcceptedRows' \cap Genuine(t, P)'
                        = saved.processed \cap AcceptedRows \cap Genuine(t, P)
         /\ \A i \in mem.processed : rows'[i] = rows[i]
         /\ \A i \in saved.processed : rows'[i] = rows[i]
<1>1. \A i \in mem.processed : i \in DOMAIN rows /\ i \in DOMAIN rows' /\ rows'[i] = rows[i]
  BY RowsKept DEF Own, CountedAreFinal
<1>2. saved.processed \subseteq mem.processed
  BY DEF Own, CountedAreFinal
<1>3. /\ \A t, P : mem.processed \cap Genuine(t, P)' = mem.processed \cap Genuine(t, P)
      /\ \A t, P : saved.processed \cap Genuine(t, P)' = saved.processed \cap Genuine(t, P)
  BY <1>1, <1>2 DEF Genuine
<1>4. /\ mem.processed \cap AcceptedRows' = mem.processed \cap AcceptedRows
      /\ saved.processed \cap AcceptedRows' = saved.processed \cap AcceptedRows
  BY <1>1, <1>2 DEF AcceptedRows
<1>5. /\ \A t, P : mem.processed \cap AcceptedRows' \cap Genuine(t, P)'
                        = mem.processed \cap AcceptedRows \cap Genuine(t, P)
      /\ \A t, P : saved.processed \cap AcceptedRows' \cap Genuine(t, P)'
                        = saved.processed \cap AcceptedRows \cap Genuine(t, P)
  <2> SUFFICES ASSUME NEW t, NEW P
               PROVE  /\ mem.processed \cap AcceptedRows' \cap Genuine(t, P)'
                           = mem.processed \cap AcceptedRows \cap Genuine(t, P)
                      /\ saved.processed \cap AcceptedRows' \cap Genuine(t, P)'
                           = saved.processed \cap AcceptedRows \cap Genuine(t, P)
    OBVIOUS
  <2>1. /\ mem.processed \cap Genuine(t, P)' = mem.processed \cap Genuine(t, P)
        /\ saved.processed \cap Genuine(t, P)' = saved.processed \cap Genuine(t, P)
    BY <1>3
  <2> QED
    BY <1>4, <2>1
<1> QED
  BY <1>1, <1>2, <1>3, <1>4, <1>5

LEMMA SameDemonstrations ==
  ASSUME NEW m, NEW n, SameCounts(m, n)
  PROVE  /\ Demonstrations(n, Tasks) = Demonstrations(m, Tasks)
         /\ AcceptedTotal(n) = AcceptedTotal(m)
  BY DEF SameCounts, Demonstrations, AcceptedTotal

\* The places of tasks with a success do not move.
LEMMA SuccessKeepsPlace ==
  ASSUME IInv, Own, [Next]_vars
  PROVE  \A t \in mem.success \cup saved.success :
           mem'.slotOf[t] = mem.slotOf[t] /\ saved'.slotOf[t] = mem.slotOf[t]
                                         /\ saved.slotOf[t] = mem.slotOf[t]
<1>1. /\ saved.slotOf = mem.slotOf /\ saved'.slotOf = mem'.slotOf
      /\ \A t \in mem.success \cup saved.success : mem.slotOf[t] \in Slots /\ t \in Tasks
  <2>1. IInv'
    BY NextInvariant
  <2>2. mem.success \subseteq Tasks /\ saved.success \subseteq Tasks
    BY Fields DEF IInv, TypeOK
  <2> QED
    BY <2>1, <2>2 DEF IInv, PlacesAgree
<1>2. Steps
  BY StepKinds
<1>3. \A t \in Tasks : mem.slotOf[t] \in Slots => mem'.slotOf[t] = mem.slotOf[t]
  <2>1. CASE \E w \in Workers : Worker(w)
    BY <2>1, WorkerRows
  <2>2. CASE Applies
    <3>1. rows[NextRow] \in Rows /\ Verdict(NextRow) \in RowStatuses /\ mem \in States
      BY <2>2, VerdictIsStatus, RowsTyped DEF Applies, IInv, TypeOK
    <3> QED
      BY <2>2, <3>1, ApplyCounts DEF Applies
  <2>3. CASE Publishes
    BY <2>3 DEF Publishes
  <2>4. CASE Boots
    BY <1>1, <2>4 DEF Boots, Agree
  <2>5. CASE Selects
    BY <2>5 DEF Selects, Idles, Reserves
  <2>6. CASE \E w \in Workers : Submits(w)
    BY <2>6 DEF Submits
  <2>7. CASE KeepsFlights(InFlight) \/ KeepsFlights(InFlight \ Finished)
    BY <2>7 DEF KeepsFlights, Agree
  <2>8. CASE Ends(saved) \/ Ends(mem)
    BY <1>1, <2>8 DEF Ends, Agree
  <2>9. CASE Joins
    BY <2>9 DEF Joins, Agree
  <2>10. CASE ReconcileDone \/ MainFault \/ Sigint \/ UNCHANGED vars
    BY <2>10 DEF ReconcileDone, MainFault, Sigint, vars
  <2> QED
    BY <1>2, <2>1, <2>2, <2>3, <2>4, <2>5, <2>6, <2>7, <2>8, <2>9, <2>10 DEF Steps
<1> QED
  BY <1>1, <1>3

LEMMA CarriedCount ==
  ASSUME IInv, Own, [Next]_vars, NEW k \in {mem, saved}, NEW n, SameCounts(k, n),
         CountsOf(k)
  PROVE  \A t \in Tasks :
           /\ n.first[t]  = Cardinality(n.processed \cap Genuine(t, {"A"})')
           /\ n.post[t]   = Cardinality(n.processed \cap Genuine(t, {"B", "C"})')
           /\ n.bTries[t] = Cardinality(n.processed \cap Genuine(t, {"B"})')
           /\ n.demos[t]  = Cardinality(n.processed \cap AcceptedRows'
                                                    \cap Genuine(t, Passes)')
           /\ t \in n.success <=>
                n.processed \cap AcceptedRows' \cap Genuine(t, {"A"})' # {}
<1> SUFFICES ASSUME NEW t \in Tasks
             PROVE  /\ n.first[t]  = Cardinality(n.processed \cap Genuine(t, {"A"})')
                    /\ n.post[t]   = Cardinality(n.processed \cap Genuine(t, {"B", "C"})')
                    /\ n.bTries[t] = Cardinality(n.processed \cap Genuine(t, {"B"})')
                    /\ n.demos[t]  = Cardinality(n.processed \cap AcceptedRows'
                                                             \cap Genuine(t, Passes)')
                    /\ t \in n.success <=>
                         n.processed \cap AcceptedRows' \cap Genuine(t, {"A"})' # {}
  OBVIOUS
<1> DEFINE S == k.processed
<1>1. /\ k.first[t]  = Cardinality(S \cap Genuine(t, {"A"}))
      /\ k.post[t]   = Cardinality(S \cap Genuine(t, {"B", "C"}))
      /\ k.bTries[t] = Cardinality(S \cap Genuine(t, {"B"}))
      /\ k.demos[t]  = Cardinality(S \cap AcceptedRows \cap Genuine(t, Passes))
      /\ t \in k.success <=> S \cap AcceptedRows \cap Genuine(t, {"A"}) # {}
  BY DEF CountsOf
<1>2. n.processed = S /\ n.first[t] = k.first[t] /\ n.post[t] = k.post[t]
      /\ n.bTries[t] = k.bTries[t] /\ n.demos[t] = k.demos[t] /\ n.success = k.success
  BY DEF SameCounts
<1>3. /\ \A P : S \cap Genuine(t, P)' = S \cap Genuine(t, P)
      /\ \A P : S \cap AcceptedRows' \cap Genuine(t, P)' = S \cap AcceptedRows \cap Genuine(t, P)
  BY CountedSetsKept
<1> HIDE DEF S
<1> QED
  BY <1>1, <1>2, <1>3

\* The slots that a state takes over as fulfilled are those of its successes.
LEMMA CoverageCarried ==
  ASSUME IInv, Own, Counts, [Next]_vars,
         NEW k \in {mem, saved}, NEW n \in {mem', saved'}, SameCounts(k, n)
  PROVE  /\ \A t \in n.success : n.slotOf[t] \in n.fulfilled
         /\ \A s \in n.fulfilled : \E t \in n.success : n.slotOf[t] = s
<1>1. CountedRest(k)
  BY DEF Counts
<1>2. n.success = k.success /\ n.fulfilled = k.fulfilled
  BY DEF SameCounts
<1>3. \A t \in k.success : n.slotOf[t] = k.slotOf[t]
  BY SuccessKeepsPlace
<1> QED
  BY <1>1, <1>2, <1>3 DEF CountedRest

\* A state that takes its counts from a state of before.
LEMMA CountsCarried ==
  ASSUME IInv, Own, Counts, [Next]_vars
  PROVE  /\ SameCounts(mem, mem') => CountsOf(mem)' /\ CountedRest(mem)'
         /\ SameCounts(saved, mem') => CountsOf(mem)' /\ CountedRest(mem)'
         /\ SameCounts(mem, saved') => CountsOf(saved)' /\ CountedRest(saved)'
         /\ SameCounts(saved, saved') => CountsOf(saved)' /\ CountedRest(saved)'
<1>1. /\ CountsOf(mem) /\ CountsOf(saved) /\ CountedRest(mem) /\ CountedRest(saved)
  BY DEF Counts, ExactlyOnce
<1>2. ASSUME SameCounts(mem, mem') PROVE CountsOf(mem)' /\ CountedRest(mem)'
  <2>1. CountsOf(mem)'
    BY <1>1, <1>2, CarriedCount DEF CountsOf
  <2>2. CountedRest(mem)'
    <3>1. /\ \A t \in mem'.success : mem'.slotOf[t] \in mem'.fulfilled
          /\ \A s \in mem'.fulfilled : \E t \in mem'.success : mem'.slotOf[t] = s
      BY <1>2, CoverageCarried
    <3>2. /\ IsFiniteSet(Demonstrations(mem', Tasks))
          /\ AcceptedTotal(mem') = Cardinality(mem'.processed \cap AcceptedRows')
          /\ \A i \in mem'.processed : rows'[i].status = "accepted" /\ rows'[i].pass = "B" =>
                                       rows'[i].task \in mem'.bDone
      BY <1>1, <1>2, CountedSetsKept, SameDemonstrations DEF CountedRest, SameCounts
    <3> QED
      BY <3>1, <3>2 DEF CountedRest, AcceptedTotal
  <2> QED
    BY <2>1, <2>2
<1>3. ASSUME SameCounts(saved, mem') PROVE CountsOf(mem)' /\ CountedRest(mem)'
  <2>1. CountsOf(mem)'
    BY <1>1, <1>3, CarriedCount DEF CountsOf
  <2>2. CountedRest(mem)'
    <3>1. /\ \A t \in mem'.success : mem'.slotOf[t] \in mem'.fulfilled
          /\ \A s \in mem'.fulfilled : \E t \in mem'.success : mem'.slotOf[t] = s
      BY <1>3, CoverageCarried
    <3>2. /\ IsFiniteSet(Demonstrations(mem', Tasks))
          /\ AcceptedTotal(mem') = Cardinality(mem'.processed \cap AcceptedRows')
          /\ \A i \in mem'.processed : rows'[i].status = "accepted" /\ rows'[i].pass = "B" =>
                                       rows'[i].task \in mem'.bDone
      BY <1>1, <1>3, CountedSetsKept, SameDemonstrations DEF CountedRest, SameCounts
    <3> QED
      BY <3>1, <3>2 DEF CountedRest, AcceptedTotal
  <2> QED
    BY <2>1, <2>2
<1>4. ASSUME SameCounts(mem, saved') PROVE CountsOf(saved)' /\ CountedRest(saved)'
  <2>1. CountsOf(saved)'
    BY <1>1, <1>4, CarriedCount DEF CountsOf
  <2>2. CountedRest(saved)'
    <3>1. /\ \A t \in saved'.success : saved'.slotOf[t] \in saved'.fulfilled
          /\ \A s \in saved'.fulfilled : \E t \in saved'.success : saved'.slotOf[t] = s
      BY <1>4, CoverageCarried
    <3>2. /\ IsFiniteSet(Demonstrations(saved', Tasks))
          /\ AcceptedTotal(saved') = Cardinality(saved'.processed \cap AcceptedRows')
          /\ \A i \in saved'.processed : rows'[i].status = "accepted" /\ rows'[i].pass = "B" =>
                                       rows'[i].task \in saved'.bDone
      BY <1>1, <1>4, CountedSetsKept, SameDemonstrations DEF CountedRest, SameCounts
    <3> QED
      BY <3>1, <3>2 DEF CountedRest, AcceptedTotal
  <2> QED
    BY <2>1, <2>2
<1>5. ASSUME SameCounts(saved, saved') PROVE CountsOf(saved)' /\ CountedRest(saved)'
  <2>1. CountsOf(saved)'
    BY <1>1, <1>5, CarriedCount DEF CountsOf
  <2>2. CountedRest(saved)'
    <3>1. /\ \A t \in saved'.success : saved'.slotOf[t] \in saved'.fulfilled
          /\ \A s \in saved'.fulfilled : \E t \in saved'.success : saved'.slotOf[t] = s
      BY <1>5, CoverageCarried
    <3>2. /\ IsFiniteSet(Demonstrations(saved', Tasks))
          /\ AcceptedTotal(saved') = Cardinality(saved'.processed \cap AcceptedRows')
          /\ \A i \in saved'.processed : rows'[i].status = "accepted" /\ rows'[i].pass = "B" =>
                                       rows'[i].task \in saved'.bDone
      BY <1>1, <1>5, CountedSetsKept, SameDemonstrations DEF CountedRest, SameCounts
    <3> QED
      BY <3>1, <3>2 DEF CountedRest, AcceptedTotal
  <2> QED
    BY <2>1, <2>2
<1> QED
  BY <1>2, <1>3, <1>4, <1>5

\* One more row, or none, in a finite set that does not hold it.
LEMMA CountOneMore ==
  ASSUME NEW S, IsFiniteSet(S), NEW x, x \notin S
  PROVE  /\ Cardinality(S) \in Nat
         /\ Cardinality(S \cup {x}) = Cardinality(S) + 1
         /\ IsFiniteSet(S \cup {x})
<1>1. Cardinality(S) \in Nat
  BY FS_CardinalityType
<1>2. IsFiniteSet(S \cup {x}) /\ Cardinality(S \cup {x}) =
        IF x \in S THEN Cardinality(S) ELSE Cardinality(S) + 1
  BY FS_AddElement
<1> QED
  BY <1>1, <1>2

LEMMA InDemonstrations ==
  ASSUME NEW m
  PROVE  \A p : p \in Demonstrations(m, Tasks) <=>
                  \E u \in Tasks : \E k \in 1..m.demos[u] : p = <<u, k>>
<1>1. \A p : p \in Demonstrations(m, Tasks) <=>
               \E u \in Tasks : p \in {u} \X (1..m.demos[u])
  BY DEF Demonstrations
<1>2. ASSUME NEW p, NEW u \in Tasks
      PROVE  p \in {u} \X (1..m.demos[u]) <=> \E k \in 1..m.demos[u] : p = <<u, k>>
  <2> DEFINE S == 1..m.demos[u]
  <2> HIDE DEF S
  <2>1. p \in {u} \X S <=> \E k \in S : p = <<u, k>>
    OBVIOUS
  <2> QED
    BY <2>1 DEF S
<1> QED
  BY <1>1, <1>2

LEMMA ApplyDemonstrations ==
  ASSUME NEW m \in States, NEW i \in Nat, NEW row \in Rows, NEW st \in RowStatuses
  PROVE  LET n == apply_attempt(m, i, row, st)
             d == <<row.task, m.demos[row.task] + 1>>
         IN  /\ st = "accepted" =>
                  /\ Demonstrations(n, Tasks) = Demonstrations(m, Tasks) \cup {d}
                  /\ d \notin Demonstrations(m, Tasks)
             /\ st # "accepted" => Demonstrations(n, Tasks) = Demonstrations(m, Tasks)
<1> DEFINE n == apply_attempt(m, i, row, st)
           t == row.task
           d == <<t, m.demos[t] + 1>>
<1>1. /\ \A u \in Tasks \ {t} : n.demos[u] = m.demos[u]
      /\ n.demos[t] = IF st = "accepted" THEN m.demos[t] + 1 ELSE m.demos[t]
      /\ t \in Tasks /\ m.demos \in [Tasks -> Nat]
  BY ApplyCounts, Fields DEF Rows
<1> HIDE DEF n, t
<1>2. CASE st # "accepted"
  <2>1. \A u \in Tasks : n.demos[u] = m.demos[u]
    BY <1>1, <1>2
  <2> QED
    BY <1>2, <2>1 DEF Demonstrations, n, t
<1>3. CASE st = "accepted"
  <2>1. n.demos[t] = m.demos[t] + 1 /\ m.demos[t] \in Nat
    BY <1>1, <1>3
  <2>2. \A k : k \in 1..(m.demos[t] + 1) <=> k \in 1..m.demos[t] \/ k = m.demos[t] + 1
    BY <2>1
  <2>3. \A p : p \in Demonstrations(m, Tasks) <=>
                 \E u \in Tasks : \E k \in 1..m.demos[u] : p = <<u, k>>
    BY InDemonstrations
  <2>4. \A p : p \in Demonstrations(n, Tasks) <=>
                 \E u \in Tasks : \E k \in 1..n.demos[u] : p = <<u, k>>
    BY InDemonstrations
  <2>5. d \notin Demonstrations(m, Tasks)
    <3> SUFFICES ASSUME NEW u \in Tasks, NEW k \in 1..m.demos[u], d = <<u, k>>
                 PROVE  FALSE
      BY <2>3
    <3>1. u = t /\ k = m.demos[t] + 1
      OBVIOUS
    <3> QED
      BY <2>1, <3>1
  <2>6. \A p : p \in Demonstrations(n, Tasks) <=> p \in Demonstrations(m, Tasks) \cup {d}
    <3> SUFFICES ASSUME NEW p
                 PROVE  p \in Demonstrations(n, Tasks) <=>
                          p \in Demonstrations(m, Tasks) \/ p = d
      OBVIOUS
    <3>1. ASSUME NEW u \in Tasks, NEW k \in 1..n.demos[u], p = <<u, k>>
          PROVE  p \in Demonstrations(m, Tasks) \/ p = d
      <4>1. CASE u = t
        <5>1. k \in 1..m.demos[t] \/ k = m.demos[t] + 1
          BY <2>1, <2>2, <3>1, <4>1
        <5> QED
          BY <2>3, <3>1, <4>1, <5>1
      <4>2. CASE u # t
        BY <1>1, <2>3, <3>1, <4>2
      <4> QED
        BY <4>1, <4>2
    <3>2. ASSUME NEW u \in Tasks, NEW k \in 1..m.demos[u], p = <<u, k>>
          PROVE  p \in Demonstrations(n, Tasks)
      <4>1. k \in 1..n.demos[u]
        BY <1>1, <2>1, <2>2, <3>2
      <4> QED
        BY <2>4, <3>2, <4>1
    <3>3. d \in Demonstrations(n, Tasks)
      <4>1. m.demos[t] + 1 \in 1..n.demos[t]
        BY <2>1
      <4> QED
        BY <1>1, <2>4, <4>1
    <3> QED
      BY <2>3, <2>4, <3>1, <3>2, <3>3
  <2>7. Demonstrations(n, Tasks) = Demonstrations(m, Tasks) \cup {d}
    BY <2>6
  <2> HIDE DEF d
  <2> QED
    BY <1>3, <2>5, <2>7 DEF n, t, d
<1> QED
  BY <1>2, <1>3

\* Counting the next row counts it once.
LEMMA CountsApplied ==
  ASSUME IInv, Own, Counts, [Next]_vars, Applies
  PROVE  CountsOf(mem)' /\ CountedRest(mem)'
<1>0. PICK n : n = NextRow
  OBVIOUS
<1> DEFINE v == Verdict(n)
           t == rows[n].task
           p == rows[n].pass
           G == v \notin InfraStatuses
           S == mem.processed
           a == apply_attempt(mem, n, rows[n], v)
<1>1. TypeOK /\ mem \in States /\ n \in DOMAIN rows /\ n \in Nat /\ rows[n] \in Rows
      /\ n \notin S /\ rows[n].status # "in_progress" /\ rows[n].work
      /\ Changed(n, [rows[n] EXCEPT !.status = v]) /\ mem' = a
  BY <1>0, RowsTyped DEF IInv, TypeOK, Applies, Pending
<1>2. v \in FinalStatuses /\ v \in RowStatuses
  BY <1>1, VerdictIsFinal, VerdictIsStatus
<1>3. t \in Tasks /\ p \in Passes /\ rows[n].slot \in Slots
  BY <1>1 DEF Rows
<1>4. /\ rows'[n].status = v /\ rows'[n].task = t /\ rows'[n].pass = p
      /\ n \in DOMAIN rows'
  BY <1>1, RowStatus DEF Changed
<1>5. G <=> v \in GenuineStatuses \cup {"candidate_success"}
  BY <1>2 DEF FinalStatuses, GenuineStatuses, RejectStatuses, InfraStatuses
<1>6. /\ a.processed = S \cup {n}
      /\ \A u \in Tasks \ {t} : /\ a.first[u] = mem.first[u] /\ a.post[u] = mem.post[u]
                                /\ a.bTries[u] = mem.bTries[u] /\ a.demos[u] = mem.demos[u]
      /\ a.first[t] = IF G /\ p = "A" THEN mem.first[t] + 1 ELSE mem.first[t]
      /\ a.post[t] = IF G /\ p # "A" THEN mem.post[t] + 1 ELSE mem.post[t]
      /\ a.bTries[t] = IF G /\ p = "B" THEN mem.bTries[t] + 1 ELSE mem.bTries[t]
      /\ a.demos[t] = IF v = "accepted" THEN mem.demos[t] + 1 ELSE mem.demos[t]
      /\ v = "accepted" /\ p = "A" => /\ a.success = mem.success \cup {t}
                                      /\ a.fulfilled = mem.fulfilled \cup {rows[n].slot}
      /\ ~(v = "accepted" /\ p = "A") =>
           a.success = mem.success /\ a.fulfilled = mem.fulfilled
      /\ mem.bDone \subseteq a.bDone
      /\ v = "accepted" /\ p = "B" => t \in a.bDone
      /\ a.slotOf = mem.slotOf
  BY <1>1, <1>2, ApplyCounts
<1>7. IsFiniteSet(S) /\ S \subseteq DOMAIN rows
  <2>1. S \subseteq DOMAIN rows /\ IsFiniteSet(DOMAIN rows)
    BY <1>1, RowsTyped DEF Own, CountedAreFinal
  <2> QED
    BY <2>1, FS_Subset
<1>8. /\ \A u, P : S \cap Genuine(u, P)' = S \cap Genuine(u, P)
      /\ S \cap AcceptedRows' = S \cap AcceptedRows
      /\ \A u, P : S \cap AcceptedRows' \cap Genuine(u, P)'
                     = S \cap AcceptedRows \cap Genuine(u, P)
      /\ \A i \in S : rows'[i] = rows[i]
  BY CountedSetsKept
<1>9. CountsOf(mem) /\ CountedRest(mem)
  BY DEF Counts, ExactlyOnce
<1>10. \A u, P : n \in Genuine(u, P)' <=> (u = t /\ p \in P /\ G)
  BY <1>4, <1>5 DEF Genuine
<1>11. n \in AcceptedRows' <=> v = "accepted"
  BY <1>4 DEF AcceptedRows
<1>12. v = "accepted" => G
  BY DEF InfraStatuses
<1> HIDE DEF v, t, p, G, S, a
<1>13. \A u, P : /\ (u = t /\ p \in P /\ G) =>
                      (S \cup {n}) \cap Genuine(u, P)' = (S \cap Genuine(u, P)) \cup {n}
                 /\ ~(u = t /\ p \in P /\ G) =>
                      (S \cup {n}) \cap Genuine(u, P)' = S \cap Genuine(u, P)
  <2> SUFFICES ASSUME NEW u, NEW P
               PROVE  /\ (u = t /\ p \in P /\ G) =>
                           (S \cup {n}) \cap Genuine(u, P)' = (S \cap Genuine(u, P)) \cup {n}
                      /\ ~(u = t /\ p \in P /\ G) =>
                           (S \cup {n}) \cap Genuine(u, P)' = S \cap Genuine(u, P)
    OBVIOUS
  <2>1. S \cap Genuine(u, P)' = S \cap Genuine(u, P)
    BY <1>8
  <2>2. n \in Genuine(u, P)' <=> (u = t /\ p \in P /\ G)
    BY <1>10
  <2> QED
    BY <2>1, <2>2
<1>14. /\ v = "accepted" => (S \cup {n}) \cap AcceptedRows' = (S \cap AcceptedRows) \cup {n}
       /\ v # "accepted" => (S \cup {n}) \cap AcceptedRows' = S \cap AcceptedRows
  BY <1>8, <1>11
<1>15. \A u, P :
         /\ (v = "accepted" /\ u = t /\ p \in P) =>
              (S \cup {n}) \cap AcceptedRows' \cap Genuine(u, P)'
                = (S \cap AcceptedRows \cap Genuine(u, P)) \cup {n}
         /\ ~(v = "accepted" /\ u = t /\ p \in P) =>
              (S \cup {n}) \cap AcceptedRows' \cap Genuine(u, P)'
                = S \cap AcceptedRows \cap Genuine(u, P)
  <2> SUFFICES ASSUME NEW u, NEW P
               PROVE  /\ (v = "accepted" /\ u = t /\ p \in P) =>
                           (S \cup {n}) \cap AcceptedRows' \cap Genuine(u, P)'
                             = (S \cap AcceptedRows \cap Genuine(u, P)) \cup {n}
                      /\ ~(v = "accepted" /\ u = t /\ p \in P) =>
                           (S \cup {n}) \cap AcceptedRows' \cap Genuine(u, P)'
                             = S \cap AcceptedRows \cap Genuine(u, P)
    OBVIOUS
  <2>1. S \cap AcceptedRows' \cap Genuine(u, P)' = S \cap AcceptedRows \cap Genuine(u, P)
    BY <1>8
  <2>2. n \in Genuine(u, P)' <=> (u = t /\ p \in P /\ G)
    BY <1>10
  <2> QED
    BY <1>11, <1>12, <2>1, <2>2
<1>16. ASSUME NEW u, NEW P
       PROVE  /\ IsFiniteSet(S \cap Genuine(u, P)) /\ n \notin S \cap Genuine(u, P)
              /\ IsFiniteSet(S \cap AcceptedRows \cap Genuine(u, P))
              /\ n \notin S \cap AcceptedRows \cap Genuine(u, P)
  <2>1. n \notin S
    BY <1>1 DEF S
  <2>2. S \cap Genuine(u, P) \subseteq S /\ S \cap AcceptedRows \cap Genuine(u, P) \subseteq S
    OBVIOUS
  <2> QED
    BY <1>7, <2>1, <2>2, FS_Subset
<1>17. ASSUME NEW u, NEW P
       PROVE  /\ (u = t /\ p \in P /\ G) =>
                   Cardinality((S \cup {n}) \cap Genuine(u, P)')
                     = Cardinality(S \cap Genuine(u, P)) + 1
              /\ ~(u = t /\ p \in P /\ G) =>
                   Cardinality((S \cup {n}) \cap Genuine(u, P)')
                     = Cardinality(S \cap Genuine(u, P))
  <2>1. /\ IsFiniteSet(S \cap Genuine(u, P)) /\ n \notin S \cap Genuine(u, P)
    BY <1>16
  <2>2. Cardinality((S \cap Genuine(u, P)) \cup {n}) = Cardinality(S \cap Genuine(u, P)) + 1
    BY <2>1, CountOneMore
  <2> QED
    BY <1>13, <2>2
<1>18. ASSUME NEW u, NEW P
       PROVE  /\ (v = "accepted" /\ u = t /\ p \in P) =>
                   Cardinality((S \cup {n}) \cap AcceptedRows' \cap Genuine(u, P)')
                     = Cardinality(S \cap AcceptedRows \cap Genuine(u, P)) + 1
              /\ ~(v = "accepted" /\ u = t /\ p \in P) =>
                   Cardinality((S \cup {n}) \cap AcceptedRows' \cap Genuine(u, P)')
                     = Cardinality(S \cap AcceptedRows \cap Genuine(u, P))
  <2>1. /\ IsFiniteSet(S \cap AcceptedRows \cap Genuine(u, P))
        /\ n \notin S \cap AcceptedRows \cap Genuine(u, P)
    BY <1>16
  <2>2. Cardinality((S \cap AcceptedRows \cap Genuine(u, P)) \cup {n})
          = Cardinality(S \cap AcceptedRows \cap Genuine(u, P)) + 1
    BY <2>1, CountOneMore
  <2> QED
    BY <1>15, <2>2
<1>19. mem' = a /\ a.processed = S \cup {n} /\ S = mem.processed
  BY <1>1, <1>6 DEF S
<1>20. CountsOf(mem)'
  <2> SUFFICES ASSUME NEW u \in Tasks
               PROVE  /\ a.first[u] = Cardinality((S \cup {n}) \cap Genuine(u, {"A"})')
                      /\ a.post[u] = Cardinality((S \cup {n}) \cap Genuine(u, {"B", "C"})')
                      /\ a.bTries[u] = Cardinality((S \cup {n}) \cap Genuine(u, {"B"})')
                      /\ a.demos[u] = Cardinality((S \cup {n}) \cap AcceptedRows'
                                                    \cap Genuine(u, Passes)')
                      /\ u \in a.success <=>
                           (S \cup {n}) \cap AcceptedRows' \cap Genuine(u, {"A"})' # {}
    BY <1>19 DEF CountsOf
  <2>1. /\ mem.first[u] = Cardinality(S \cap Genuine(u, {"A"}))
        /\ mem.post[u] = Cardinality(S \cap Genuine(u, {"B", "C"}))
        /\ mem.bTries[u] = Cardinality(S \cap Genuine(u, {"B"}))
        /\ mem.demos[u] = Cardinality(S \cap AcceptedRows \cap Genuine(u, Passes))
        /\ u \in mem.success <=> S \cap AcceptedRows \cap Genuine(u, {"A"}) # {}
    BY <1>9, <1>19 DEF CountsOf
  <2>2. a.first[u] = IF u = t /\ G /\ p = "A" THEN mem.first[u] + 1 ELSE mem.first[u]
    BY <1>6
  <2>3. a.post[u] = IF u = t /\ G /\ p # "A" THEN mem.post[u] + 1 ELSE mem.post[u]
    BY <1>6
  <2>4. a.bTries[u] = IF u = t /\ G /\ p = "B" THEN mem.bTries[u] + 1 ELSE mem.bTries[u]
    BY <1>6
  <2>5. a.demos[u] = IF u = t /\ v = "accepted" THEN mem.demos[u] + 1 ELSE mem.demos[u]
    BY <1>6
  <2>6. u \in a.success <=> u \in mem.success \/ (u = t /\ v = "accepted" /\ p = "A")
    BY <1>6
  <2>7. p \in {"A", "B", "C"}
    BY <1>3 DEF Passes
  <2>8. a.first[u] = Cardinality((S \cup {n}) \cap Genuine(u, {"A"})')
    <3>1. p \in {"A"} <=> p = "A"
      OBVIOUS
    <3> QED
      BY <1>17, <2>1, <2>2, <3>1
  <2>9. a.post[u] = Cardinality((S \cup {n}) \cap Genuine(u, {"B", "C"})')
    <3>1. p \in {"B", "C"} <=> p # "A"
      BY <2>7
    <3> QED
      BY <1>17, <2>1, <2>3, <3>1
  <2>10. a.bTries[u] = Cardinality((S \cup {n}) \cap Genuine(u, {"B"})')
    <3>1. p \in {"B"} <=> p = "B"
      OBVIOUS
    <3> QED
      BY <1>17, <2>1, <2>4, <3>1
  <2>11. a.demos[u] = Cardinality((S \cup {n}) \cap AcceptedRows' \cap Genuine(u, Passes)')
    BY <1>3, <1>18, <2>1, <2>5
  <2>12. u \in a.success <=>
           (S \cup {n}) \cap AcceptedRows' \cap Genuine(u, {"A"})' # {}
    <3>1. CASE v = "accepted" /\ u = t /\ p = "A"
      <4>1. (S \cup {n}) \cap AcceptedRows' \cap Genuine(u, {"A"})'
              = (S \cap AcceptedRows \cap Genuine(u, {"A"})) \cup {n}
        BY <1>15, <3>1
      <4> QED
        BY <2>6, <3>1, <4>1
    <3>2. CASE ~(v = "accepted" /\ u = t /\ p = "A")
      <4>1. (S \cup {n}) \cap AcceptedRows' \cap Genuine(u, {"A"})'
              = S \cap AcceptedRows \cap Genuine(u, {"A"})
        BY <1>15, <3>2
      <4> QED
        BY <2>1, <2>6, <3>2, <4>1
    <3> QED
      BY <3>1, <3>2
  <2> QED
    BY <2>8, <2>9, <2>10, <2>11, <2>12
<1>21. CountedRest(mem)'
  <2> DEFINE D == Demonstrations(mem, Tasks)
             E == Demonstrations(a, Tasks)
             d == <<t, mem.demos[t] + 1>>
  <2>1. /\ v = "accepted" => E = D \cup {d} /\ d \notin D
        /\ v # "accepted" => E = D
    BY <1>1, <1>2, ApplyDemonstrations DEF a, t, v
  <2>2. IsFiniteSet(D) /\ Cardinality(D) = Cardinality(S \cap AcceptedRows)
    BY <1>9, <1>19 DEF CountedRest, AcceptedTotal
  <2>3. IsFiniteSet(S \cap AcceptedRows) /\ n \notin S \cap AcceptedRows
    <3>1. S \cap AcceptedRows \subseteq S /\ n \notin S
      BY <1>1 DEF S
    <3> QED
      BY <1>7, <3>1, FS_Subset
  <2>4. /\ IsFiniteSet(E)
        /\ Cardinality(E) = Cardinality((S \cup {n}) \cap AcceptedRows')
    <3>1. CASE v = "accepted"
      <4> HIDE DEF D, E, d
      <4>1. Cardinality(E) = Cardinality(D) + 1 /\ IsFiniteSet(E)
        BY <2>1, <2>2, <3>1, CountOneMore
      <4>2. Cardinality((S \cup {n}) \cap AcceptedRows') = Cardinality(S \cap AcceptedRows) + 1
        BY <1>14, <2>3, <3>1, CountOneMore
      <4> QED
        BY <2>2, <4>1, <4>2
    <3>2. CASE v # "accepted"
      BY <1>14, <2>1, <2>2, <3>2
    <3> QED
      BY <3>1, <3>2
  <2>5. \A i \in S \cup {n} : rows'[i].status = "accepted" /\ rows'[i].pass = "B" =>
                                rows'[i].task \in a.bDone
    <3>1. \A i \in S : rows[i].status = "accepted" /\ rows[i].pass = "B" =>
                         rows[i].task \in mem.bDone
      BY <1>9, <1>19 DEF CountedRest
    <3> QED
      BY <1>4, <1>6, <1>8, <3>1
  <2>6. \A u \in a.success : a.slotOf[u] \in a.fulfilled
    <3>1. mem.slotOf[t] = rows[n].slot
      BY <1>1 DEF IInv, RowsPlaced, t
    <3>2. \A u \in mem.success : mem.slotOf[u] \in mem.fulfilled
      BY <1>9 DEF CountedRest
    <3> QED
      BY <1>6, <3>1, <3>2
  <2>7. \A s \in a.fulfilled : \E u \in a.success : a.slotOf[u] = s
    <3>1. mem.slotOf[t] = rows[n].slot
      BY <1>1 DEF IInv, RowsPlaced, t
    <3>2. \A s \in mem.fulfilled : \E u \in mem.success : mem.slotOf[u] = s
      BY <1>9 DEF CountedRest
    <3> QED
      BY <1>6, <3>1, <3>2
  <2> HIDE DEF E
  <2> QED
    BY <1>19, <2>4, <2>5, <2>6, <2>7 DEF CountedRest, AcceptedTotal, E
<1> QED
  BY <1>20, <1>21

LEMMA CountsStep ==
  ASSUME IInv, Own, Counts, [Next]_vars
  PROVE  Counts'
<1>1. \/ \E w \in Workers : Worker(w)
      \/ Applies
      \/ Publishes
      \/ Boots
      \/ Keeps
  BY OwnStep
<1>2. CASE \E w \in Workers : Worker(w)
  <2>1. mem' = mem /\ saved' = saved
    BY <1>2, WorkerRows
  <2> QED
    BY <2>1, AgreeTrans, CountsCarried DEF Counts, ExactlyOnce
<1>3. CASE Applies
  <2>1. saved' = saved
    BY <1>3 DEF Applies
  <2> QED
    BY <1>3, <2>1, AgreeTrans, CountsCarried, CountsApplied DEF Counts, ExactlyOnce
<1>4. CASE Publishes
  <2>1. mem' = mem /\ saved' = saved
    BY <1>4 DEF Publishes
  <2> QED
    BY <2>1, AgreeTrans, CountsCarried DEF Counts, ExactlyOnce
<1>5. CASE Boots
  BY <1>5, CountsCarried DEF Counts, ExactlyOnce, Boots, Agree
<1>6. CASE Keeps
  BY <1>6, CountsCarried DEF Counts, ExactlyOnce, Keeps
<1> QED
  BY <1>1, <1>2, <1>3, <1>4, <1>5, <1>6

LEMMA CountsInit == Init => Counts
<1> SUFFICES ASSUME Init PROVE Counts
  OBVIOUS
<1> DEFINE m == initial_state
<1>1. mem = m /\ saved = m /\ DOMAIN rows = {}
  BY DEF Init
<1>2. m.processed = {} /\ m.success = {} /\ m.bDone = {} /\ m.fulfilled = {}
      /\ \A t \in Tasks : m.first[t] = 0 /\ m.post[t] = 0 /\ m.bTries[t] = 0 /\ m.demos[t] = 0
  BY DEF initial_state
<1> HIDE DEF m
<1>3. Demonstrations(m, Tasks) = {}
  BY <1>2, InDemonstrations
<1>4. IsFiniteSet({}) /\ Cardinality({}) = 0
  BY FS_EmptySet
<1>5. \A S : {} \cap S = {}
  OBVIOUS
<1>6. CountsOf(m)
  BY <1>2, <1>4, <1>5 DEF CountsOf
<1>7. CountedRest(m)
  BY <1>2, <1>3, <1>4, <1>5 DEF CountedRest, AcceptedTotal
<1> QED
  BY <1>1, <1>6, <1>7 DEF Counts, ExactlyOnce

\* Exactly-once apply: across crashes, failures and restarts, in any number, the
\* budgets in memory and in the ledger count each processed row once.
THEOREM AppliedExactlyOnce == Spec => []ExactlyOnce
<1>1. Init => Own /\ Counts
  BY OwnInit, CountsInit
<1>2. IInv /\ Own /\ Counts /\ [Next]_vars => Own' /\ Counts'
  BY OwnStep, CountsStep
<1>3. Counts => ExactlyOnce
  BY DEF Counts
<1> QED
  BY <1>1, <1>2, <1>3, Invariant, PTL DEF Spec

----------------------------------------------------------------------------
(* The pass barrier.                                                       *)

\* Passes only advance, in the memory before the ledger; whatever is in flight or
\* about to be is of the pass both agree on; no pass after A before every slot is
\* fulfilled or exhausted.
Barrier ==
  /\ PassBarrier
  /\ \A i \in DOMAIN rows : PassRank(rows[i].pass) <= PassRank(saved.pass)
  /\ PassRank(saved.pass) <= PassRank(mem.pass)
  /\ \A w \in InFlight :
       /\ pool[w].item.pass = mem.pass /\ mem.pass = saved.pass
       /\ mem.pass # "A" => pool[w].item.task \in saved.success
  /\ pc = "submit" => /\ picked.pass = mem.pass /\ mem.pass = saved.pass
                      /\ mem.pass # "A" => picked.task \in saved.success
  /\ mem.pass # "A" => mem.fulfilled \cup mem.exhausted = Slots
  /\ saved.pass # "A" => saved.fulfilled \cup saved.exhausted = Slots

LEMMA Ranks ==
  /\ PassRank("A") = 1 /\ PassRank("B") = 2 /\ PassRank("C") = 3
  /\ \A p \in Passes : PassRank(p) \in 1..3 /\ (PassRank(p) = 1 <=> p = "A")
<1>1. PassRank("A") = 1 /\ PassRank("B") = 2 /\ PassRank("C") = 3
  BY DEF PassRank
<1>2. \A p \in Passes : p = "A" \/ p = "B" \/ p = "C"
  BY DEF Passes
<1> QED
  BY <1>1, <1>2

LEMMA SavedIsBehind ==
  ASSUME IInv, Own, Counts
  PROVE  saved.success \subseteq mem.success /\ saved.processed \subseteq mem.processed
<1>1. saved.processed \subseteq mem.processed
  BY DEF Own, CountedAreFinal
<1>2. saved.success \subseteq Tasks
  BY Fields DEF IInv, TypeOK
<1>3. ASSUME NEW t \in saved.success PROVE t \in mem.success
  <2>1. saved.processed \cap AcceptedRows \cap Genuine(t, {"A"}) # {} /\ t \in Tasks
    BY <1>2 DEF Counts, ExactlyOnce, CountsOf
  <2>2. mem.processed \cap AcceptedRows \cap Genuine(t, {"A"}) # {}
    BY <1>1, <2>1
  <2> QED
    BY <2>1, <2>2 DEF Counts, ExactlyOnce, CountsOf
<1> QED
  BY <1>1, <1>3

LEMMA TypedPasses ==
  ASSUME IInv
  PROVE  /\ mem.pass \in Passes /\ saved.pass \in Passes
         /\ \A i \in DOMAIN rows : rows[i].pass \in Passes
         /\ \A w \in InFlight : pool[w].item.pass \in Passes
<1>1. mem.pass \in Passes /\ saved.pass \in Passes
  BY Fields DEF IInv, TypeOK
<1>2. \A i \in DOMAIN rows : rows[i].pass \in Passes
  BY RowsTyped DEF IInv, Rows
<1>3. \A w \in InFlight : pool[w].item.pass \in Passes
  BY DEF IInv, TypeOK, InFlight, Threads, Items
<1> QED
  BY <1>1, <1>2, <1>3

\* A step that opens no row.
LEMMA BarrierFrame ==
  ASSUME IInv, Own, Barrier, [Next]_vars,
         DOMAIN rows' = DOMAIN rows,
         \A w \in InFlight' :
           /\ mem'.pass = mem.pass /\ saved'.pass = mem.pass
           /\ \/ w \in InFlight /\ pool'[w].item = pool[w].item
              \/ pc = "submit" /\ pool'[w].item = picked,
         saved.success \subseteq saved'.success,
         PassRank(saved.pass) <= PassRank(saved'.pass),
         PassRank(saved'.pass) <= PassRank(mem'.pass),
         pc' = "submit" => /\ picked'.pass = mem'.pass /\ mem'.pass = saved'.pass
                           /\ mem'.pass # "A" => picked'.task \in saved'.success,
         mem'.pass # "A" => mem'.fulfilled \cup mem'.exhausted = Slots,
         saved'.pass # "A" => saved'.fulfilled \cup saved'.exhausted = Slots
  PROVE  Barrier'
<1>1. \A i \in DOMAIN rows : rows'[i].task = rows[i].task /\ rows'[i].pass = rows[i].pass
  BY RowsKept
<1>2. IInv'
  BY NextInvariant
<1>3. /\ mem.pass \in Passes /\ saved.pass \in Passes
      /\ mem'.pass \in Passes /\ saved'.pass \in Passes
      /\ \A i \in DOMAIN rows : rows[i].pass \in Passes
  <2>1. mem'.pass \in Passes /\ saved'.pass \in Passes
    BY <1>2, Fields DEF IInv, TypeOK
  <2> QED
    BY <2>1, TypedPasses
<1>4. \A i \in DOMAIN rows' : PassRank(rows'[i].pass) <= PassRank(saved'.pass)
  <2> SUFFICES ASSUME NEW i \in DOMAIN rows
               PROVE  PassRank(rows[i].pass) <= PassRank(saved'.pass)
    BY <1>1
  <2>1. PassRank(rows[i].pass) <= PassRank(saved.pass)
    BY DEF Barrier
  <2> QED
    BY <1>3, <2>1, Ranks
<1>5. \A w \in InFlight' :
        /\ pool'[w].item.pass = mem'.pass /\ mem'.pass = saved'.pass
        /\ mem'.pass # "A" => pool'[w].item.task \in saved'.success
  BY DEF Barrier
<1>6. PassBarrier'
  <2>1. \A i, j \in DOMAIN rows : i < j => PassRank(rows[i].pass) <= PassRank(rows[j].pass)
    BY DEF Barrier, PassBarrier
  <2>2. \A i \in DOMAIN rows : rows[i].pass # "A" => saved.pass # "A"
    <3> SUFFICES ASSUME NEW i \in DOMAIN rows, rows[i].pass # "A" PROVE saved.pass # "A"
      OBVIOUS
    <3>1. PassRank(rows[i].pass) <= PassRank(saved.pass)
      BY DEF Barrier
    <3> QED
      BY <1>3, <3>1, Ranks
  <2>3. saved.pass # "A" => saved'.pass # "A"
    BY <1>3, Ranks
  <2>4. \A i \in DOMAIN rows : rows[i].pass # "A" => rows[i].task \in saved.success
    BY DEF Barrier, PassBarrier
  <2> QED
    BY <1>1, <1>5, <2>1, <2>2, <2>3, <2>4 DEF PassBarrier
<1> QED
  BY <1>4, <1>5, <1>6 DEF Barrier

LEMMA BarrierOpens ==
  ASSUME IInv, Own, Barrier, NEW w \in Workers, Worker(w), Opens(w)
  PROVE  Barrier'
<1>1. /\ w \in InFlight
      /\ UNCHANGED <<saved, mem, pc, picked>>
      /\ InFlight' = InFlight /\ pool'[w].item = pool[w].item
      /\ \A v \in Workers \ {w} : pool'[v] = pool[v]
  BY WorkerRows
<1> DEFINE n == Len(rows) + 1
<1>2. /\ DOMAIN rows' = DOMAIN rows \cup {n}
      /\ \A i \in DOMAIN rows : rows'[i] = rows[i] /\ i < n
      /\ rows'[n].task = pool[w].item.task /\ rows'[n].pass = pool[w].item.pass
      /\ n \in Nat
  BY DEF Opens
<1>3. rows'[n].pass = saved.pass
      /\ (saved.pass # "A" => rows'[n].task \in saved.success)
  BY <1>1, <1>2 DEF Barrier
<1>4. DOMAIN rows \subseteq Nat /\ saved.pass \in Passes
      /\ \A i \in DOMAIN rows : rows[i].pass \in Passes
  BY RowsTyped, TypedPasses DEF IInv
<1> HIDE DEF n
<1>5. \A i \in DOMAIN rows' : PassRank(rows'[i].pass) <= PassRank(saved.pass)
  BY <1>2, <1>3, <1>4, Ranks DEF Barrier
<1>6. \A v \in InFlight : pool'[v].item = pool[v].item
  BY <1>1 DEF InFlight
<1>7. PassBarrier'
  <2>1. ASSUME NEW i \in DOMAIN rows', NEW j \in DOMAIN rows', i < j
        PROVE  PassRank(rows'[i].pass) <= PassRank(rows'[j].pass)
    <3>1. CASE j = n
      BY <1>3, <1>5, <3>1
    <3>2. CASE j # n
      <4>1. i # n
        BY <1>2, <1>4, <2>1, <3>2
      <4> QED
        BY <1>2, <2>1, <3>2, <4>1 DEF Barrier, PassBarrier
    <3> QED
      BY <3>1, <3>2
  <2>2. \A u, v \in InFlight : pool'[u].item.pass = pool'[v].item.pass
    BY <1>6 DEF Barrier
  <2>3. ASSUME NEW i \in DOMAIN rows', rows'[i].pass # "A"
        PROVE  rows'[i].task \in saved.success /\ saved.fulfilled \cup saved.exhausted = Slots
    <3>1. CASE i = n
      BY <1>3, <2>3, <3>1 DEF Barrier
    <3>2. CASE i # n
      BY <1>2, <2>3, <3>2 DEF Barrier, PassBarrier
    <3> QED
      BY <3>1, <3>2
  <2> QED
    BY <1>1, <2>1, <2>2, <2>3 DEF PassBarrier
<1> QED
  BY <1>1, <1>5, <1>6, <1>7 DEF Barrier

\* What next_work leaves of the slots.
LEMMA EverySlotSettled ==
  ASSUME IInv, Servable(mem) = {}, mem.active = {}
  PROVE  mem.fulfilled \cup (mem.exhausted \cup GivenUp(mem)) = Slots
<1>1. mem.fulfilled \subseteq Slots /\ mem.exhausted \subseteq Slots
  BY Fields DEF IInv, TypeOK
<1> QED
  BY <1>1 DEF GivenUp, OpenSlots

LEMMA BarrierStep ==
  ASSUME IInv, Own, Counts, Barrier, [Next]_vars
  PROVE  Barrier'
<1> USE DEF SameCounts
<1>1. Steps
  BY StepKinds
<1>2. /\ mem.pass \in Passes /\ saved.pass \in Passes
      /\ PassRank(saved.pass) <= PassRank(mem.pass)
      /\ PassRank(mem.pass) \in 1..3 /\ PassRank(saved.pass) \in 1..3
      /\ mem.pass # "A" => mem.fulfilled \cup mem.exhausted = Slots
      /\ saved.pass # "A" => saved.fulfilled \cup saved.exhausted = Slots
      /\ saved.success \subseteq mem.success
  BY TypedPasses, SavedIsBehind, Ranks DEF Barrier
<1>3. /\ \A w \in InFlight : mem.pass = saved.pass
      /\ InFlight \subseteq Workers
  BY DEF Barrier, InFlight
<1>4. CASE \E w \in Workers : Worker(w)
  <2>1. PICK w \in Workers : Worker(w)
    BY <1>4
  <2>2. /\ w \in InFlight
        /\ UNCHANGED <<saved, mem, pc, picked>>
        /\ InFlight' = InFlight /\ pool'[w].item = pool[w].item
        /\ \A v \in Workers \ {w} : pool'[v] = pool[v]
        /\ Loses(w) \/ Opens(w) \/ Works(w) \/ Decides(w)
    BY <2>1, WorkerRows
  <2>3. CASE Opens(w)
    BY <2>1, <2>3, BarrierOpens
  <2>4. CASE Loses(w) \/ Works(w) \/ Decides(w)
    <3>1. DOMAIN rows' = DOMAIN rows
      BY <2>4 DEF Loses, Works, Decides, Changed
    <3> QED
      BY <1>2, <1>3, <2>2, <3>1, BarrierFrame DEF Barrier
  <2> QED
    BY <2>2, <2>3, <2>4
<1>5. CASE Applies
  <2>1. /\ DOMAIN rows' = DOMAIN rows /\ UNCHANGED <<saved, pool, picked>> /\ pc' = "reconcile"
        /\ InFlight' = InFlight
    BY <1>5 DEF Applies, Changed, InFlight
  <2>2. /\ mem'.pass = mem.pass /\ mem'.exhausted = mem.exhausted
        /\ mem.fulfilled \subseteq mem'.fulfilled /\ mem'.fulfilled \subseteq Slots
    <3>1. rows[NextRow] \in Rows /\ Verdict(NextRow) \in RowStatuses /\ mem \in States
      BY <1>5, VerdictIsStatus, RowsTyped DEF Applies, IInv, TypeOK
    <3>2. NextRow \in Nat /\ mem' = apply_attempt(mem, NextRow, rows[NextRow], Verdict(NextRow))
      BY <1>5 DEF Applies
    <3>3. mem'.pass = mem.pass /\ mem'.exhausted = mem.exhausted
          /\ mem.fulfilled \subseteq mem'.fulfilled
      BY <3>1, <3>2, ApplyCounts
    <3>4. mem' \in States
      BY NextInvariant DEF IInv, TypeOK
    <3> QED
      BY <3>3, <3>4, Fields
  <2>3. mem.exhausted \subseteq Slots
    BY Fields DEF IInv, TypeOK
  <2> QED
    BY <1>2, <1>3, <2>1, <2>2, <2>3, BarrierFrame DEF Barrier
<1>6. CASE Publishes
  <2>1. /\ DOMAIN rows' = DOMAIN rows /\ UNCHANGED <<mem, saved, pool, picked>> /\ pc' = "commit"
        /\ InFlight' = InFlight
    BY <1>6 DEF Publishes, Changed, InFlight
  <2> QED
    BY <1>2, <1>3, <2>1, BarrierFrame DEF Barrier
<1>7. CASE Boots
  <2>1. /\ DOMAIN rows' = DOMAIN rows /\ pc' = "reconcile" /\ InFlight' = {}
        /\ mem'.pass = saved.pass /\ saved'.pass = saved.pass
        /\ saved'.success = saved.success /\ saved'.fulfilled = saved.fulfilled
        /\ saved'.exhausted = saved.exhausted
        /\ mem'.fulfilled = saved.fulfilled /\ mem'.exhausted = saved.exhausted
    BY <1>7 DEF Boots, Agree
  <2> QED
    BY <1>2, <2>1, BarrierFrame
<1>8. CASE Idles
  <2>1. /\ UNCHANGED <<rows, saved, pool, picked>> /\ InFlight' = InFlight
        /\ pc' # "submit" /\ mem'.fulfilled = mem.fulfilled
        /\ mem'.exhausted \in {mem.exhausted, mem.exhausted \cup GivenUp(mem)}
        /\ mem'.exhausted # mem.exhausted => mem.pass = "A"
    BY <1>8 DEF Idles, InFlight
  <2>2. CASE mem'.pass = mem.pass
    BY <1>2, <1>3, <2>1, <2>2, BarrierFrame
  <2>3. CASE mem'.pass # mem.pass
    <3>1. mem.active = {} /\ <<mem.pass, mem'.pass>> \in {<<"A", "B">>, <<"B", "C">>}
      BY <1>8, <2>3 DEF Idles
    <3>2. InFlight = {}
      BY <3>1, FlightsAreReserved DEF TasksOf
    <3>3. mem'.fulfilled \cup mem'.exhausted = Slots
      <4>1. CASE mem.pass = "A"
        BY <1>8, <2>1, <2>3, <3>1, <4>1, EverySlotSettled DEF Idles
      <4>2. CASE mem.pass # "A"
        BY <1>2, <2>1, <4>2
      <4> QED
        BY <4>1, <4>2
    <3>4. PassRank(mem.pass) <= PassRank(mem'.pass) /\ PassRank(mem'.pass) \in 1..3
      BY <3>1, Ranks
    <3> QED
      BY <1>2, <2>1, <3>2, <3>3, <3>4, BarrierFrame
  <2> QED
    BY <2>2, <2>3
<1>9. CASE \E t \in Tasks : Reserves(t) /\ (FromA(t) \/ FromB(t) \/ FromC(t))
  <2>1. PICK t \in Tasks : Reserves(t) /\ (FromA(t) \/ FromB(t) \/ FromC(t))
    BY <1>9
  <2>2. /\ UNCHANGED <<rows, pool>> /\ InFlight' = InFlight
        /\ mem'.pass = mem.pass /\ saved' = mem' /\ mem'.fulfilled = mem.fulfilled
        /\ mem'.success = mem.success
        /\ picked'.pass = mem.pass /\ picked'.task = t
    BY <2>1 DEF Reserves, InFlight
  <2>3. /\ mem.pass # "A" => mem'.exhausted = mem.exhausted /\ t \in mem.success
    BY <2>1 DEF FromA, FromB, FromC, PassBEligible, PassCEligible
  <2> QED
    BY <1>2, <2>2, <2>3, BarrierFrame
<1>10. CASE \E w \in Workers : Submits(w)
  <2>1. PICK w \in Workers : Submits(w)
    BY <1>10
  <2>2. /\ UNCHANGED <<rows, mem, saved>> /\ pc = "submit" /\ pc' = "dispatch"
        /\ \A v \in InFlight' : \/ v \in InFlight /\ pool'[v].item = pool[v].item
                                \/ pool'[v].item = picked
    BY <1>3, <2>1 DEF Submits, ledger
  <2>3. mem.pass = saved.pass
    BY <2>2 DEF Barrier
  <2> QED
    BY <1>2, <2>2, <2>3, BarrierFrame
<1>11. ASSUME NEW W, KeepsFlights(W), pc' # "submit"
       PROVE  Barrier'
  <2>1. /\ rows' = rows /\ InFlight' = W /\ W \subseteq InFlight
        /\ \A w \in W : pool'[w] = pool[w]
        /\ mem'.pass = mem.pass /\ saved' = mem' /\ mem'.fulfilled = mem.fulfilled
        /\ mem'.success = mem.success /\ mem'.exhausted = mem.exhausted
    BY <1>11 DEF KeepsFlights, Agree
  <2> QED
    BY <1>2, <1>11, <2>1, BarrierFrame
<1>12. CASE Ends(saved) \/ Ends(mem)
  <2>1. PICK c \in {saved, mem} : Ends(c)
    BY <1>12
  <2>2. /\ rows' = rows /\ pc' = "down" /\ InFlight' = {} /\ mem' = saved'
        /\ saved'.pass = c.pass /\ saved'.fulfilled = c.fulfilled
        /\ saved'.success = c.success /\ saved'.exhausted = c.exhausted
    BY <2>1 DEF Ends, Agree
  <2> QED
    BY <1>2, <2>1, <2>2, BarrierFrame
<1>13. CASE Joins
  <2>1. /\ rows' = rows /\ saved' = saved /\ InFlight' = {} /\ pc' = "reconcile"
        /\ mem'.pass = mem.pass /\ mem'.fulfilled = mem.fulfilled
        /\ mem'.exhausted = mem.exhausted
    BY <1>13 DEF Joins, Agree, ledger
  <2> QED
    BY <1>2, <2>1, BarrierFrame
<1>14. CASE ReconcileDone
  <2>1. /\ UNCHANGED <<rows, mem, pool>> /\ saved' = mem /\ InFlight' = InFlight
        /\ pc' = "dispatch"
    BY <1>14 DEF ReconcileDone, InFlight
  <2> QED
    BY <1>2, <1>3, <2>1, BarrierFrame
<1>15. CASE MainFault \/ Sigint \/ UNCHANGED vars
  <2>1. /\ UNCHANGED <<rows, mem, saved, pool>> /\ InFlight' = InFlight
        /\ pc' = "submit" => pc = "submit" /\ picked' = picked
    BY <1>15 DEF MainFault, Sigint, vars, InFlight, ledger
  <2> QED
    BY <1>2, <1>3, <2>1, BarrierFrame DEF Barrier
<1>16. CASE WithdrawReservation /\ KeepsFlights(InFlight)
  BY <1>11, <1>16 DEF WithdrawReservation
<1>17. CASE Collect /\ KeepsFlights(InFlight \ Finished)
  BY <1>11, <1>17 DEF Collect
<1> QED
  BY <1>1, <1>4, <1>5, <1>6, <1>7, <1>8, <1>9, <1>10, <1>12, <1>13, <1>14, <1>15, <1>16,
     <1>17
  DEF Steps, Selects

LEMMA BarrierInit == Init => Barrier
<1> SUFFICES ASSUME Init PROVE Barrier
  OBVIOUS
<1>1. mem = saved /\ mem.pass = "A" /\ DOMAIN rows = {} /\ pc = "down" /\ InFlight = {}
  BY IdleIsThread DEF Init, initial_state, InFlight
<1>2. PassRank("A") <= PassRank("A")
  BY Ranks
<1> QED
  BY <1>1, <1>2 DEF Barrier, PassBarrier

\* Passes never overlap in the ledger, whatever crashes and restarts come between,
\* and a post-success attempt is made only when every slot is settled.
THEOREM PassesDoNotOverlap == Spec => []PassBarrier
<1>1. Init => Own /\ Counts /\ Barrier
  BY OwnInit, CountsInit, BarrierInit
<1>2. IInv /\ Own /\ Counts /\ Barrier /\ [Next]_vars => Own' /\ Counts' /\ Barrier'
  BY OwnStep, CountsStep, BarrierStep
<1>3. Barrier => PassBarrier
  BY DEF Barrier
<1> QED
  BY <1>1, <1>2, <1>3, Invariant, PTL DEF Spec

----------------------------------------------------------------------------
(* Accepted demonstrations.                                                *)

\* An accepted row was accepted before, or is the next row, decided now.
LEMMA AcceptedGrows ==
  ASSUME IInv, Own, [Next]_vars
  PROVE  /\ AcceptedRows \subseteq AcceptedRows'
         /\ \A i \in AcceptedRows : rows'[i] = rows[i]
         /\ \A i \in AcceptedRows' \ AcceptedRows :
              /\ Applies /\ i = NextRow /\ i \in DOMAIN rows
              /\ rows[i].status = "candidate_success" /\ Verdict(i) = "accepted"
              /\ rows[i].files > 0
              /\ rows'[i] = [rows[i] EXCEPT !.status = "accepted"]
<1> USE DEF FinalStatuses, GenuineStatuses, RejectStatuses, InfraStatuses
<1>1. TypeOK /\ \A i \in DOMAIN rows : rows[i] \in Rows
  BY RowsTyped DEF IInv
<1>2. /\ AcceptedRows \subseteq AcceptedRows'
      /\ \A i \in AcceptedRows : rows'[i] = rows[i]
  BY RowsKept DEF AcceptedRows
<1>3. \/ \E w \in Workers : Worker(w)
      \/ Applies
      \/ Publishes
      \/ Boots
      \/ Keeps
  BY OwnStep
<1>4. ASSUME NEW i \in AcceptedRows' \ AcceptedRows
      PROVE  /\ Applies /\ i = NextRow /\ i \in DOMAIN rows
             /\ rows[i].status = "candidate_success" /\ Verdict(i) = "accepted"
             /\ rows[i].files > 0
             /\ rows'[i] = [rows[i] EXCEPT !.status = "accepted"]
  <2>1. i \in DOMAIN rows' /\ rows'[i].status = "accepted"
        /\ (i \in DOMAIN rows => rows[i].status # "accepted")
    BY <1>4 DEF AcceptedRows
  <2>2. CASE \E w \in Workers : Worker(w)
    <3>1. PICK w \in Workers : Worker(w)
      BY <2>2
    <3>2. Loses(w) \/ Opens(w) \/ Works(w) \/ Decides(w)
      BY <3>1, WorkerRows
    <3>3. CASE Loses(w) \/ Opens(w)
      BY <2>1, <3>3 DEF Loses, Opens
    <3>4. CASE Works(w)
      <4>1. /\ pool[w].row \in DOMAIN rows /\ DOMAIN rows' = DOMAIN rows
            /\ rows'[pool[w].row].status = rows[pool[w].row].status
            /\ \A j \in DOMAIN rows \ {pool[w].row} : rows'[j] = rows[j]
        BY <1>1, <3>4, RowWork DEF Works, Changed
      <4> QED
        BY <2>1, <4>1
    <3>5. CASE Decides(w)
      <4>1. PICK st \in {"candidate_success", "failed", "interrupted"},
                 b \in Results \cup {NoPurchase} :
                   Changed(pool[w].row, [rows[pool[w].row] EXCEPT !.status = st, !.result = b])
        BY <3>5 DEF Decides
      <4>2. /\ pool[w].row \in DOMAIN rows /\ DOMAIN rows' = DOMAIN rows
            /\ rows'[pool[w].row].status = st
            /\ \A j \in DOMAIN rows \ {pool[w].row} : rows'[j] = rows[j]
        BY <1>1, <4>1, RowOutcome DEF Changed
      <4> QED
        BY <2>1, <4>2
    <3> QED
      BY <3>2, <3>3, <3>4, <3>5
  <2>3. CASE Applies
    <3>0. PICK n : n = NextRow
      OBVIOUS
    <3>1. /\ n \in DOMAIN rows /\ rows[n] \in Rows
          /\ Changed(n, [rows[n] EXCEPT !.status = Verdict(n)])
          /\ rows[n].status # "in_progress"
          /\ rows[n].status = "candidate_success" /\ Verdict(n) = "accepted" =>
               rows[n].files > 0
      BY <1>1, <2>3, <3>0 DEF Applies
    <3>2. rows'[n].status = Verdict(n)
      BY <3>1, RowStatus DEF Changed
    <3>3. i = n
      BY <2>1, <3>1 DEF Changed
    <3>4. rows[n].status = "candidate_success"
      BY <1>1, <2>1, <3>1, <3>2, <3>3, VerdictIsFinal
    <3> QED
      BY <2>1, <2>3, <3>0, <3>1, <3>2, <3>3, <3>4 DEF Changed
  <2>4. CASE Publishes
    <3>0. PICK n : n = NextRow
      OBVIOUS
    <3>1. /\ n \in DOMAIN rows /\ rows[n] \in Rows
          /\ Changed(n, [rows[n] EXCEPT !.files = @ + 1])
      BY <1>1, <2>4, <3>0 DEF Publishes
    <3>2. rows'[n].status = rows[n].status
      BY <3>1, RowFiles DEF Changed
    <3> QED
      BY <2>1, <3>1, <3>2 DEF Changed
  <2>5. CASE Boots
    <3>1. i \in DOMAIN rows /\ rows[i] \in Rows
          /\ (rows[i].status = "in_progress" =>
                rows'[i] = [rows[i] EXCEPT !.status = "interrupted"])
          /\ (rows[i].status # "in_progress" => rows'[i] = rows[i])
      BY <1>1, <2>1, <2>5 DEF Boots
    <3>2. [rows[i] EXCEPT !.status = "interrupted"].status = "interrupted"
      BY <3>1 DEF Rows
    <3> QED
      BY <2>1, <3>1, <3>2
  <2>6. CASE Keeps
    BY <2>1, <2>6 DEF Keeps
  <2> QED
    BY <1>3, <2>2, <2>3, <2>4, <2>5, <2>6
<1> QED
  BY <1>2, <1>4

LEMMA AcceptedAreDistinctStep ==
  ASSUME IInv, Own, AcceptedAreDistinct, [Next]_vars
  PROVE  AcceptedAreDistinct'
<1>1. /\ AcceptedRows \subseteq AcceptedRows'
      /\ \A i \in AcceptedRows : rows'[i] = rows[i]
      /\ \A i \in AcceptedRows' \ AcceptedRows :
              /\ i = NextRow /\ i \in DOMAIN rows
              /\ rows[i].status = "candidate_success" /\ Verdict(i) = "accepted"
              /\ rows[i].files > 0
              /\ rows'[i] = [rows[i] EXCEPT !.status = "accepted"]
  BY AcceptedGrows
<1>2. \A i \in DOMAIN rows : rows[i] \in Rows
  BY RowsTyped DEF IInv
<1>3. ASSUME NEW i \in AcceptedRows' \ AcceptedRows
      PROVE  /\ i = NextRow /\ rows'[i].files > 0 /\ rows'[i].result \in Behaviors
             /\ \A j \in AcceptedRows :
                  rows'[j].task = rows'[i].task => rows'[j].result # rows'[i].result
  <2>1. /\ i = NextRow /\ i \in DOMAIN rows /\ rows[i] \in Rows /\ rows[i].files > 0
        /\ rows[i].status = "candidate_success" /\ Verdict(i) = "accepted"
        /\ rows'[i] = [rows[i] EXCEPT !.status = "accepted"]
    BY <1>1, <1>2
  <2>2. /\ rows'[i].task = rows[i].task /\ rows'[i].result = rows[i].result
        /\ rows'[i].files = rows[i].files
    BY <2>1, RowStatus
  <2>3. verdict(rows[i].result, PriorResults(rows[i].task)) = "accepted"
    BY <2>1 DEF Verdict
  <2>4. rows[i].result # NoPurchase /\ rows[i].result \notin PriorResults(rows[i].task)
    BY <2>3 DEF verdict
  <2>5. rows[i].result \in Behaviors
    BY <2>1, <2>4 DEF Rows, Behaviors
  <2>6. \A j \in AcceptedRows : rows[j].task = rows[i].task => rows[j].result # rows[i].result
    BY <2>4 DEF PriorResults
  <2> QED
    BY <1>1, <2>1, <2>2, <2>5, <2>6
<1>4. \A i, j \in AcceptedRows' :
        rows'[i].task = rows'[j].task /\ rows'[i].result = rows'[j].result => i = j
  <2> SUFFICES ASSUME NEW i \in AcceptedRows', NEW j \in AcceptedRows',
                      rows'[i].task = rows'[j].task, rows'[i].result = rows'[j].result
               PROVE  i = j
    OBVIOUS
  <2>1. CASE i \in AcceptedRows /\ j \in AcceptedRows
    BY <1>1, <2>1 DEF AcceptedAreDistinct
  <2>2. CASE i \in AcceptedRows /\ j \notin AcceptedRows
    BY <1>3, <2>2
  <2>3. CASE i \notin AcceptedRows /\ j \in AcceptedRows
    BY <1>3, <2>3
  <2>4. CASE i \notin AcceptedRows /\ j \notin AcceptedRows
    BY <1>3, <2>4
  <2> QED
    BY <2>1, <2>2, <2>3, <2>4
<1>5. \A i \in AcceptedRows' : rows'[i].files > 0 /\ rows'[i].result \in Behaviors
  BY <1>1, <1>3 DEF AcceptedAreDistinct
<1> QED
  BY <1>4, <1>5 DEF AcceptedAreDistinct

\* Accepted demonstrations of a task differ pairwise, and each was published before
\* its row was marked accepted, although a crash may fall between any two writes.
THEOREM DemonstrationsAreDistinct == Spec => []AcceptedAreDistinct
<1>1. Init => Own /\ AcceptedAreDistinct
  BY OwnInit DEF Init, AcceptedAreDistinct, AcceptedRows
<1>2. IInv /\ Own /\ AcceptedAreDistinct /\ [Next]_vars => Own' /\ AcceptedAreDistinct'
  BY OwnStep, AcceptedAreDistinctStep
<1> QED
  BY <1>1, <1>2, Invariant, PTL DEF Spec

----------------------------------------------------------------------------
(* Reservations and what is left to reconcile.                             *)

Dispatching == {"dispatch", "next_work", "wait", "submit"}

\* Nothing of task t is left to reconcile.
Settled(t) ==
  \A i \in DOMAIN rows :
    rows[i].task = t /\ rows[i].status # "in_progress" /\ rows[i].work => i \in mem.processed

\* While it dispatches, the main thread has reconciled everything but the tasks in
\* flight and the task it picked, and the ledger counts what the memory counts.
Serial ==
  /\ pc \in {"reconcile", "commit"} \cup Dispatching =>
       mem.active = TasksOf(InFlight) \cup (IF pc = "submit" THEN {picked.task} ELSE {})
  /\ pc \in Dispatching =>
       Pending = {} /\ SameCounts(mem, saved) /\ saved.active = mem.active
  /\ pc = "submit" => Settled(picked.task)
  /\ stage = "repair" => pc \in {"reconcile", "commit"} /\ InFlight = {}
  /\ pc = "down" => stage = "boot"

LEMMA SettledByPending ==
  ASSUME Serial, pc \in Dispatching, NEW t, t \notin mem.active
  PROVE  Settled(t)
  BY DEF Serial, Pending, Settled

LEMMA SerialWorker ==
  ASSUME IInv, Own, Serial, NEW w \in Workers, Worker(w)
  PROVE  Serial'
<1>1. /\ w \in InFlight
      /\ UNCHANGED <<saved, mem, pc, stage, picked>>
      /\ InFlight' = InFlight /\ pool'[w].item = pool[w].item
      /\ \A v \in Workers \ {w} : pool'[v] = pool[v]
      /\ Loses(w) \/ Opens(w) \/ Works(w) \/ Decides(w)
  BY WorkerRows
<1>2. \A v \in InFlight : pool'[v].item = pool[v].item
  BY <1>1 DEF InFlight
<1>3. TasksOf(InFlight)' = TasksOf(InFlight)
  BY <1>1, <1>2 DEF TasksOf
<1>4. Pending' = Pending
  BY WorkerKeepsPending
<1>5. pc = "submit" => Settled(picked.task)'
  <2> SUFFICES ASSUME pc = "submit" PROVE Settled(picked.task)'
    OBVIOUS
  <2>1. pool[w].item.task # picked.task
    BY <1>1 DEF IInv, OneFlightPerTask, TasksOf
  <2>2. \A i \in DOMAIN rows : rows[i] \in Rows
    BY RowsTyped DEF IInv
  <2>3. \A i \in DOMAIN rows' : rows'[i].task = picked.task =>
                                  i \in DOMAIN rows /\ rows'[i] = rows[i]
    <3>1. CASE Loses(w)
      BY <3>1 DEF Loses
    <3>2. CASE Opens(w)
      BY <2>1, <3>2 DEF Opens
    <3>3. ASSUME NEW r, Changed(pool[w].row, r), r.task = rows[pool[w].row].task,
                 pool[w].row # 0
          PROVE  \A i \in DOMAIN rows' : rows'[i].task = picked.task =>
                                           i \in DOMAIN rows /\ rows'[i] = rows[i]
      <4>1. rows[pool[w].row].task = pool[w].item.task
        BY <1>1, <3>3 DEF Own, ThreadsOwnRows
      <4> QED
        BY <2>1, <3>3, <4>1 DEF Changed
    <3>4. pool[w].pc \in {"started", "rolling"} =>
            pool[w].row # 0 /\ pool[w].row \in DOMAIN rows
      BY <1>1 DEF Own, ThreadsOwnRows
    <3>5. CASE Works(w)
      BY <2>2, <3>3, <3>4, <3>5, RowWork DEF Works
    <3>6. CASE Decides(w)
      <4>1. PICK st \in {"candidate_success", "failed", "interrupted"},
                 b \in Results \cup {NoPurchase} :
                   Changed(pool[w].row, [rows[pool[w].row] EXCEPT !.status = st, !.result = b])
        BY <3>6 DEF Decides
      <4>2. pool[w].row # 0 /\ rows[pool[w].row] \in Rows
        BY <2>2, <3>4, <3>6 DEF Decides
      <4>3. [rows[pool[w].row] EXCEPT !.status = st, !.result = b].task
              = rows[pool[w].row].task
        BY <4>2, RowOutcome
      <4> QED
        BY <3>3, <4>1, <4>2, <4>3
    <3> QED
      BY <1>1, <3>1, <3>2, <3>5, <3>6
  <2> QED
    BY <1>1, <2>3 DEF Serial, Settled
<1> QED
  BY <1>1, <1>3, <1>4, <1>5 DEF Serial

LEMMA SerialStep ==
  ASSUME IInv, Own, Serial, [Next]_vars
  PROVE  Serial'
<1> USE DEF Dispatching
<1>1. Steps
  BY StepKinds
<1>2. InFlight \subseteq Workers
  BY DEF InFlight
<1>3. CASE \E w \in Workers : Worker(w)
  BY <1>3, SerialWorker
<1>4. CASE Applies
  <2>1. /\ UNCHANGED <<saved, pool, stage, picked>> /\ pc' = "reconcile"
        /\ pc \in {"reconcile", "commit"} /\ InFlight' = InFlight
    BY <1>4 DEF Applies, InFlight
  <2>2. mem'.active = mem.active
    <3>1. rows[NextRow] \in Rows /\ Verdict(NextRow) \in RowStatuses /\ mem \in States
      BY <1>4, VerdictIsStatus, RowsTyped DEF Applies, IInv, TypeOK
    <3> QED
      BY <1>4, <3>1, ApplyCounts DEF Applies
  <2>3. TasksOf(InFlight)' = TasksOf(InFlight)
    BY <2>1 DEF TasksOf
  <2> QED
    BY <2>1, <2>2, <2>3 DEF Serial
<1>5. CASE Publishes
  <2>1. /\ UNCHANGED <<mem, saved, pool, stage, picked>> /\ pc' = "commit"
        /\ pc = "reconcile" /\ InFlight' = InFlight
    BY <1>5 DEF Publishes, InFlight
  <2>2. TasksOf(InFlight)' = TasksOf(InFlight)
    BY <2>1 DEF TasksOf
  <2> QED
    BY <2>1, <2>2 DEF Serial
<1>6. CASE Boots
  <2>1. mem'.active = {} /\ InFlight' = {} /\ pc' = "reconcile" /\ stage' = "boot"
    BY <1>6 DEF Boots
  <2> QED
    BY <2>1 DEF Serial, TasksOf
<1>7. CASE ReconcileDone
  <2>1. /\ UNCHANGED <<rows, mem, pool>> /\ saved' = mem /\ pc' = "dispatch"
        /\ stage' = "loop" /\ pc = "reconcile" /\ Pending = {}
    BY <1>7 DEF ReconcileDone
  <2>2. Pending' = Pending /\ InFlight' = InFlight /\ TasksOf(InFlight)' = TasksOf(InFlight)
    BY <2>1 DEF Pending, InFlight, TasksOf
  <2> QED
    BY <2>1, <2>2, AgreeTrans DEF Serial
<1>8. CASE Idles
  <2>1. /\ UNCHANGED <<rows, saved, pool, stage>> /\ mem'.active = mem.active
        /\ SameCounts(mem, mem') /\ pc \in {"dispatch", "next_work"}
        /\ pc' \in {"wait", "next_work", "dispatch"}
    BY <1>8 DEF Idles, CallsNextWork
  <2>2. Pending' = Pending /\ InFlight' = InFlight /\ TasksOf(InFlight)' = TasksOf(InFlight)
    BY <2>1 DEF Pending, InFlight, TasksOf, SameCounts
  <2>3. SameCounts(mem', saved')
    BY <2>1 DEF Serial, SameCounts
  <2>4. stage' # "repair" /\ pc' # "down"
    BY <2>1 DEF Serial
  <2> QED
    BY <2>1, <2>2, <2>3, <2>4 DEF Serial
<1>9. CASE \E t \in Tasks : Reserves(t) /\ (FromA(t) \/ FromB(t) \/ FromC(t))
  <2>1. PICK t \in Tasks : Reserves(t)
    BY <1>9
  <2>2. /\ UNCHANGED <<rows, pool, stage>> /\ mem'.active = mem.active \cup {t}
        /\ SameCounts(mem, mem') /\ pc \in {"dispatch", "next_work"} /\ pc' = "submit"
        /\ saved' = mem' /\ picked'.task = t /\ t \notin TasksOf(InFlight)
    BY <2>1 DEF Reserves, CallsNextWork
  <2>3. mem.active = TasksOf(InFlight) /\ Pending = {}
    BY <2>2 DEF Serial
  <2>4. Settled(t)
    BY <2>2, <2>3, SettledByPending
  <2>5. Settled(picked.task)'
    BY <2>2, <2>4 DEF Settled, SameCounts
  <2>6. Pending' = {} /\ InFlight' = InFlight /\ TasksOf(InFlight)' = TasksOf(InFlight)
    BY <2>2, <2>3 DEF Pending, InFlight, TasksOf, SameCounts
  <2>7. stage' # "repair"
    BY <2>2 DEF Serial
  <2> QED
    BY <2>2, <2>3, <2>5, <2>6, <2>7, AgreeTrans DEF Serial
<1>10. CASE \E w \in Workers : Submits(w)
  <2>1. PICK w \in Workers : Submits(w)
    BY <1>10
  <2>2. /\ UNCHANGED <<rows, saved, mem, stage>> /\ pc = "submit" /\ pc' = "dispatch"
        /\ InFlight' = InFlight \cup {w} /\ pool'[w].item = picked /\ w \notin InFlight
        /\ \A v \in InFlight : pool'[v] = pool[v]
    BY <1>2, <2>1 DEF Submits, ledger
  <2>3. TasksOf(InFlight)' = TasksOf(InFlight) \cup {picked.task}
    BY <2>2 DEF TasksOf
  <2>4. Pending' = Pending
    BY <2>2 DEF Pending
  <2> QED
    BY <2>2, <2>3, <2>4 DEF Serial
<1>11. CASE WithdrawReservation /\ KeepsFlights(InFlight) /\ pool' = pool
  <2>1. /\ UNCHANGED <<rows, stage, pool>> /\ pc = "submit" /\ pc' = "dispatch"
        /\ InFlight' = InFlight /\ saved' = mem' /\ mem'.active = TasksOf(InFlight)
        /\ SameCounts(mem, mem')
    BY <1>11 DEF WithdrawReservation, KeepsFlights, Agree
  <2>2. TasksOf(InFlight)' = TasksOf(InFlight)
    BY <2>1 DEF TasksOf
  <2>3. Pending' = {}
    BY <2>1 DEF Serial, Pending, Settled, SameCounts
  <2>4. stage' # "repair"
    BY <2>1 DEF Serial
  <2> QED
    BY <2>1, <2>2, <2>3, <2>4, AgreeTrans DEF Serial
<1>12. CASE Collect /\ KeepsFlights(InFlight \ Finished)
  <2> DEFINE W == InFlight \ Finished
  <2>1. /\ pc' = "reconcile" /\ stage' = "loop" /\ InFlight' = W
        /\ mem'.active = TasksOf(W) /\ \A w \in W : pool'[w] = pool[w]
    BY <1>12 DEF Collect, KeepsFlights
  <2> HIDE DEF W
  <2>2. TasksOf(InFlight)' = TasksOf(W)
    BY <2>1 DEF TasksOf
  <2> QED
    BY <2>1, <2>2 DEF Serial
<1>13. CASE Ends(saved) \/ Ends(mem)
  BY <1>13 DEF Ends, Serial
<1>14. CASE Joins
  <2>1. /\ pc' = "reconcile" /\ InFlight' = {} /\ mem'.active = {}
    BY <1>14 DEF Joins
  <2> QED
    BY <2>1 DEF Serial, TasksOf
<1>15. CASE MainFault
  BY <1>15 DEF MainFault, Serial
<1>16. CASE Sigint \/ UNCHANGED vars
  <2>1. UNCHANGED <<rows, saved, mem, pool, pc, stage, picked>>
    BY <1>16 DEF Sigint, ledger, vars
  <2>2. /\ Pending' = Pending /\ InFlight' = InFlight /\ TasksOf(InFlight)' = TasksOf(InFlight)
        /\ Settled(picked.task)' <=> Settled(picked.task)
    BY <2>1 DEF Pending, InFlight, TasksOf, Settled
  <2> QED
    BY <2>1, <2>2 DEF Serial
<1> QED
  BY <1>1, <1>3, <1>4, <1>5, <1>6, <1>7, <1>8, <1>9, <1>10, <1>11, <1>12, <1>13, <1>14,
     <1>15, <1>16 DEF Steps, Selects

LEMMA SerialInit == Init => Serial
  BY DEF Init, Serial, Dispatching

----------------------------------------------------------------------------
(* The attempt budgets.                                                    *)

\* What the earlier sections establish, together.
Sched == IInv /\ Own /\ Counts /\ Barrier /\ Serial

LEMMA SchedStep == Sched /\ [Next]_vars => Sched'
<1> SUFFICES ASSUME Sched, [Next]_vars PROVE Sched'
  OBVIOUS
<1>1. IInv /\ Own /\ Counts /\ Barrier /\ Serial
  BY DEF Sched
<1>2. IInv'
  BY <1>1, NextInvariant
<1>3. Own' /\ Counts'
  BY <1>1, OwnStep, CountsStep
<1>4. Barrier' /\ Serial'
  BY <1>1, BarrierStep, SerialStep
<1> QED
  BY <1>2, <1>3, <1>4 DEF Sched

LEMMA SchedInit == Init => Sched
  BY InitInvariant, OwnInit, CountsInit, BarrierInit, SerialInit DEF Sched

\* The attempts of task t that are, or may become, accepted demonstrations.
Hopes(t, P) == {i \in Genuine(t, P) : rows[i].status \in {"accepted", "candidate_success"}}

\* One more attempt of task t in pass p is within every cap.
Room(t, p) ==
  /\ p = "A" => Cardinality(Genuine(t, {"A"})) < FirstCap /\ Hopes(t, {"A"}) = {}
  /\ p = "B" => Cardinality(Genuine(t, {"B"})) < BCap /\ Hopes(t, {"B"}) = {}
  /\ p # "A" => Cardinality(Genuine(t, {"B", "C"})) < PostCap
  /\ Cardinality(Hopes(t, Passes)) < DemoCap
  /\ Genuine(t, Passes) \subseteq saved.processed

\* Besides the caps: Pass A and Pass B end for a task with its first demonstration,
\* and it has one attempt the ledger has not counted.
CapsHold(t) ==
  /\ Cardinality(Genuine(t, {"A"})) <= FirstCap
  /\ Cardinality(Genuine(t, {"B"})) <= BCap
  /\ Cardinality(Genuine(t, {"B", "C"})) <= PostCap
  /\ Cardinality(Hopes(t, Passes)) <= DemoCap
  /\ \A i, j \in Hopes(t, {"A"}) : i = j
  /\ \A i, j \in Hopes(t, {"B"}) : i = j
  /\ \A i, j \in Genuine(t, Passes) \ saved.processed : i = j

Budgets ==
  /\ \A t \in Tasks : CapsHold(t)
  /\ \A t \in Tasks, p \in Passes :
       /\ \A w \in InFlight :
            pool[w].pc # "done" /\ pool[w].item.task = t /\ pool[w].item.pass = p => Room(t, p)
       /\ pc = "submit" /\ picked.task = t /\ picked.pass = p => Room(t, p)

LEMMA GenuineFacts ==
  ASSUME TypeOK
  PROVE  \A t, P : /\ Genuine(t, P) \subseteq DOMAIN rows /\ IsFiniteSet(Genuine(t, P))
                   /\ Cardinality(Genuine(t, P)) \in Nat
                   /\ Hopes(t, P) \subseteq Genuine(t, P) /\ IsFiniteSet(Hopes(t, P))
                   /\ Cardinality(Hopes(t, P)) \in Nat
<1> SUFFICES ASSUME NEW t, NEW P
             PROVE  /\ Genuine(t, P) \subseteq DOMAIN rows /\ IsFiniteSet(Genuine(t, P))
                    /\ Cardinality(Genuine(t, P)) \in Nat
                    /\ Hopes(t, P) \subseteq Genuine(t, P) /\ IsFiniteSet(Hopes(t, P))
                    /\ Cardinality(Hopes(t, P)) \in Nat
  OBVIOUS
<1>1. IsFiniteSet(DOMAIN rows)
  BY RowsTyped
<1>2. Genuine(t, P) \subseteq DOMAIN rows /\ Hopes(t, P) \subseteq Genuine(t, P)
  BY DEF Genuine, Hopes
<1>3. IsFiniteSet(Genuine(t, P)) /\ IsFiniteSet(Hopes(t, P))
  BY <1>1, <1>2, FS_Subset
<1> QED
  BY <1>2, <1>3, FS_CardinalityType

\* Thread w decides row r, which then counts if its status says so.
Charges(w, r) ==
  /\ w \in InFlight /\ pool[w].pc = "rolling" /\ pool'[w].pc = "done"
  /\ UNCHANGED <<saved, mem, pc, picked>>
  /\ \A t, P :
       /\ Genuine(t, P) \subseteq Genuine(t, P)' /\ Genuine(t, P)' \subseteq Genuine(t, P) \cup {r}
       /\ Hopes(t, P)' \subseteq Hopes(t, P) \cup {r}
       /\ r \in Genuine(t, P)' => t = pool[w].item.task /\ pool[w].item.pass \in P
       /\ r \notin Genuine(t, P)

ChargesNothing ==
  \A t, P : Genuine(t, P)' = Genuine(t, P) /\ Hopes(t, P)' \subseteq Hopes(t, P)

LEMMA CountedStep ==
  ASSUME IInv, Own, [Next]_vars
  PROVE  ChargesNothing \/ \E w \in Workers, r \in Nat : Charges(w, r)
<1> USE DEF GenuineStatuses, RejectStatuses
<1>1. TypeOK /\ \A i \in DOMAIN rows : rows[i] \in Rows /\ i \in Nat
  BY RowsTyped DEF IInv
<1>2. \/ \E w \in Workers : Worker(w)
      \/ Applies
      \/ Publishes
      \/ Boots
      \/ Keeps
  BY OwnStep
<1>3. ASSUME NEW r, NEW n, Changed(r, n), n.task = rows[r].task, n.pass = rows[r].pass,
             \/ n.status = rows[r].status
             \/ /\ rows[r].status \in CountedStatuses
                /\ n.status \in GenuineStatuses
                /\ rows[r].status = "candidate_success" \/ n.status # "accepted"
      PROVE  ChargesNothing
  <2>1. \A t, P : Genuine(t, P)' = Genuine(t, P)
    BY <1>3 DEF Genuine, Changed, CountedStatuses
  <2>2. \A t, P : Hopes(t, P)' \subseteq Hopes(t, P)
    <3> SUFFICES ASSUME NEW t, NEW P, NEW i \in Hopes(t, P)' PROVE i \in Hopes(t, P)
      OBVIOUS
    <3>1. i \in Genuine(t, P) /\ rows'[i].status \in {"accepted", "candidate_success"}
      BY <2>1 DEF Hopes
    <3>2. CASE i = r
      BY <1>3, <3>1, <3>2 DEF Hopes, Changed, CountedStatuses
    <3>3. CASE i # r
      BY <1>3, <3>1, <3>3 DEF Hopes, Changed, Genuine
    <3> QED
      BY <3>2, <3>3
  <2> QED
    BY <2>1, <2>2 DEF ChargesNothing
<1>4. CASE \E w \in Workers : Worker(w)
  <2>1. PICK w \in Workers : Worker(w)
    BY <1>4
  <2>2. /\ w \in InFlight /\ UNCHANGED <<saved, mem, pc, picked>>
        /\ Loses(w) \/ Opens(w) \/ Works(w) \/ Decides(w)
    BY <2>1, WorkerRows
  <2>3. CASE Loses(w)
    BY <2>3 DEF Loses, ChargesNothing, Genuine, Hopes
  <2>4. CASE Opens(w)
    <3>1. \A t, P : Genuine(t, P)' = Genuine(t, P)
      BY <2>4 DEF Genuine, Opens
    <3>2. \A t, P : Hopes(t, P)' = Hopes(t, P)
      BY <2>4, <3>1 DEF Hopes, Opens, Genuine
    <3> QED
      BY <3>1, <3>2 DEF ChargesNothing
  <2>5. CASE Works(w)
    <3> DEFINE r == pool[w].row
               n == [rows[r] EXCEPT !.work = TRUE]
    <3>1. Changed(r, n) /\ r \in DOMAIN rows
      BY <2>5 DEF Works, Changed
    <3>2. n.task = rows[r].task /\ n.pass = rows[r].pass /\ n.status = rows[r].status
      BY <1>1, <3>1, RowWork
    <3> HIDE DEF n
    <3> QED
      BY <1>3, <3>1, <3>2
  <2>6. CASE Decides(w)
    <3>1. PICK st \in {"candidate_success", "failed", "interrupted"},
               b \in Results \cup {NoPurchase} :
                 Changed(pool[w].row, [rows[pool[w].row] EXCEPT !.status = st, !.result = b])
      BY <2>6 DEF Decides
    <3> DEFINE r == pool[w].row
               n == [rows[r] EXCEPT !.status = st, !.result = b]
    <3>2. /\ r \in DOMAIN rows /\ Changed(r, n) /\ rows[r].status = "in_progress"
          /\ rows[r].task = pool[w].item.task /\ rows[r].pass = pool[w].item.pass
          /\ pool[w].pc = "rolling" /\ pool'[w].pc = "done"
      BY <2>2, <2>6, <3>1 DEF Decides, Changed, Own, ThreadsOwnRows
    <3>3. n.task = rows[r].task /\ n.pass = rows[r].pass
      BY <1>1, <3>2, RowOutcome
    <3> HIDE DEF n
    <3>4. \A t, P :
            /\ Genuine(t, P) \subseteq Genuine(t, P)'
            /\ Genuine(t, P)' \subseteq Genuine(t, P) \cup {r}
            /\ r \in Genuine(t, P)' => t = pool[w].item.task /\ pool[w].item.pass \in P
            /\ r \notin Genuine(t, P)
      BY <3>2, <3>3 DEF Genuine, Changed
    <3>5. \A t, P : Hopes(t, P)' \subseteq Hopes(t, P) \cup {r}
      BY <3>2, <3>4 DEF Hopes, Changed, Genuine
    <3>6. Charges(w, r)
      BY <2>2, <3>2, <3>4, <3>5 DEF Charges
    <3> QED
      BY <1>1, <3>2, <3>6
  <2> QED
    BY <2>2, <2>3, <2>4, <2>5, <2>6
<1>5. CASE Applies
  <2>0. PICK n : n = NextRow
    OBVIOUS
  <2> DEFINE r == [rows[n] EXCEPT !.status = Verdict(n)]
  <2>1. /\ n \in DOMAIN rows /\ Changed(n, r) /\ rows[n].status # "in_progress"
        /\ rows[n] \in Rows
    BY <1>1, <1>5, <2>0 DEF Applies
  <2>2. r.task = rows[n].task /\ r.pass = rows[n].pass /\ r.status = Verdict(n)
    BY <2>1, RowStatus
  <2>3. /\ rows[n].status # "candidate_success" => Verdict(n) = rows[n].status
        /\ rows[n].status = "candidate_success" => Verdict(n) \in RejectStatuses \cup {"accepted"}
    BY <1>1, <2>1, VerdictIsFinal
  <2> HIDE DEF r
  <2> QED
    BY <1>3, <2>1, <2>2, <2>3 DEF CountedStatuses
<1>6. CASE Publishes
  <2>0. PICK n : n = NextRow
    OBVIOUS
  <2> DEFINE r == [rows[n] EXCEPT !.files = @ + 1]
  <2>1. n \in DOMAIN rows /\ Changed(n, r) /\ rows[n] \in Rows
    BY <1>1, <1>6, <2>0 DEF Publishes
  <2>2. r.task = rows[n].task /\ r.pass = rows[n].pass /\ r.status = rows[n].status
    BY <2>1, RowFiles
  <2> HIDE DEF r
  <2> QED
    BY <1>3, <2>1, <2>2
<1>7. CASE Boots
  <2>1. \A i \in DOMAIN rows :
          /\ rows'[i].task = rows[i].task /\ rows'[i].pass = rows[i].pass
          /\ rows[i].status # "in_progress" => rows'[i].status = rows[i].status
          /\ rows[i].status = "in_progress" => rows'[i].status = "interrupted"
    <3> SUFFICES ASSUME NEW i \in DOMAIN rows
                 PROVE  /\ rows'[i].task = rows[i].task /\ rows'[i].pass = rows[i].pass
                        /\ rows[i].status # "in_progress" => rows'[i].status = rows[i].status
                        /\ rows[i].status = "in_progress" => rows'[i].status = "interrupted"
      OBVIOUS
    <3> DEFINE n == [rows[i] EXCEPT !.status = "interrupted"]
    <3>1. n.task = rows[i].task /\ n.pass = rows[i].pass /\ n.status = "interrupted"
      BY <1>1, RowStatus
    <3>3. rows[i].status = "in_progress" => rows'[i] = n
      BY <1>7 DEF Boots
    <3>4. rows[i].status # "in_progress" => rows'[i] = rows[i]
      BY <1>7 DEF Boots
    <3> HIDE DEF n
    <3> QED
      BY <3>1, <3>3, <3>4
  <2>2. DOMAIN rows' = DOMAIN rows
    BY <1>7 DEF Boots
  <2>3. \A t, P : Genuine(t, P)' = Genuine(t, P)
    BY <2>1, <2>2 DEF Genuine
  <2>4. \A t, P : Hopes(t, P)' = Hopes(t, P)
    BY <2>1, <2>2, <2>3 DEF Hopes, Genuine
  <2> QED
    BY <2>3, <2>4 DEF ChargesNothing
<1>8. CASE Keeps
  BY <1>8 DEF Keeps, ChargesNothing, Genuine, Hopes
<1> QED
  BY <1>2, <1>4, <1>5, <1>6, <1>7, <1>8

\* The ledger's count only grows.
LEMMA SavedGrows ==
  ASSUME IInv, Own, [Next]_vars
  PROVE  saved.processed \subseteq saved'.processed
<1>1. \/ \E w \in Workers : Worker(w)
      \/ Applies
      \/ Publishes
      \/ Boots
      \/ Keeps
  BY OwnStep
<1>2. saved.processed \subseteq mem.processed
  BY DEF Own, CountedAreFinal
<1>3. CASE \E w \in Workers : Worker(w)
  BY <1>3, WorkerRows
<1>4. CASE Applies \/ Publishes
  BY <1>4 DEF Applies, Publishes
<1>5. CASE Boots
  BY <1>5 DEF Boots, Agree, SameCounts
<1>6. CASE Keeps
  BY <1>2, <1>6 DEF Keeps, SameCounts
<1> QED
  BY <1>1, <1>3, <1>4, <1>5, <1>6

\* A thread that has not decided its row was there before, or was just submitted.
LEMMA ThreadOrigins ==
  ASSUME IInv, Own, [Next]_vars
  PROVE  /\ \A v \in InFlight' : pool'[v].pc # "done" =>
              \/ v \in InFlight /\ pool[v].pc # "done" /\ pool'[v].item = pool[v].item
              \/ pc = "submit" /\ pool'[v].item = picked
         /\ pc' = "submit" =>
              \/ pc = "submit" /\ picked' = picked
              \/ \E t \in Tasks : Reserves(t) /\ (FromA(t) \/ FromB(t) \/ FromC(t))
<1>1. Steps
  BY StepKinds
<1>2. InFlight \subseteq Workers
  BY DEF InFlight
<1>3. CASE \E w \in Workers : Worker(w)
  <2>1. PICK w \in Workers : Worker(w)
    BY <1>3
  <2>2. /\ w \in InFlight /\ pool[w].pc # "done" /\ UNCHANGED <<pc, picked>>
        /\ InFlight' = InFlight /\ pool'[w].item = pool[w].item
        /\ \A v \in Workers \ {w} : pool'[v] = pool[v]
    BY <2>1, WorkerRows
  <2> QED
    BY <1>2, <2>2
<1>4. CASE Applies \/ Publishes
  BY <1>4 DEF Applies, Publishes, InFlight
<1>5. CASE Boots
  BY <1>5 DEF Boots
<1>6. CASE ReconcileDone \/ MainFault \/ Sigint \/ UNCHANGED vars
  BY <1>6 DEF ReconcileDone, MainFault, Sigint, vars, InFlight
<1>7. CASE Selects
  BY <1>7 DEF Selects, Idles, Reserves, InFlight
<1>8. CASE \E w \in Workers : Submits(w)
  BY <1>2, <1>8 DEF Submits
<1>9. CASE KeepsFlights(InFlight) /\ WithdrawReservation
  BY <1>9 DEF KeepsFlights, WithdrawReservation
<1>10. CASE KeepsFlights(InFlight \ Finished) /\ Collect
  <2> DEFINE W == InFlight \ Finished
  <2>1. W \subseteq InFlight /\ InFlight' = W /\ (\A w \in W : pool'[w] = pool[w])
        /\ pc' = "reconcile"
    BY <1>10 DEF KeepsFlights, Collect
  <2> QED
    BY <2>1
<1>11. CASE Ends(saved) \/ Ends(mem)
  BY <1>11 DEF Ends
<1>12. CASE Joins
  BY <1>12 DEF Joins
<1> QED
  BY <1>1, <1>3, <1>4, <1>5, <1>6, <1>7, <1>8, <1>9, <1>10, <1>11, <1>12 DEF Steps

\* When next_work looks, a task that is not in flight has nothing left to count.
LEMMA IdleIsCounted ==
  ASSUME Sched, CallsNextWork, NEW t, t \notin mem.active
  PROVE  /\ SameCounts(mem, saved)
         /\ \A P : Genuine(t, P) \subseteq mem.processed
         /\ \A P : Hopes(t, P) = mem.processed \cap AcceptedRows \cap Genuine(t, P)
<1> USE DEF FinalStatuses, GenuineStatuses, RejectStatuses, InfraStatuses
<1>1. pc \in {"dispatch", "next_work"}
  BY DEF CallsNextWork
<1>2. Settled(t) /\ SameCounts(mem, saved)
  BY <1>1, SettledByPending DEF Sched, Serial, Dispatching
<1>3. \A P : Genuine(t, P) \subseteq mem.processed
  BY <1>2 DEF Genuine, Settled, Sched, Own, CountedAreFinal, CountedStatuses
<1>4. \A P : Hopes(t, P) = mem.processed \cap AcceptedRows \cap Genuine(t, P)
  BY <1>3 DEF Hopes, AcceptedRows, Genuine, Sched, Own, CountedAreFinal
<1> QED
  BY <1>2, <1>3, <1>4

\* What is reserved next is not in flight.
LEMMA ReservedIsIdle ==
  ASSUME Sched, NEW t \in Tasks, Reserves(t)
  PROVE  t \notin mem.active /\ CallsNextWork
<1>1. pc \in {"dispatch", "next_work"} /\ t \notin TasksOf(InFlight) /\ CallsNextWork
  BY DEF Reserves, CallsNextWork
<1> QED
  BY <1>1 DEF Sched, Serial, Dispatching

\* What next_work picks may be attempted once more.
LEMMA ReserveRoom ==
  ASSUME Sched, Budgets, NEW t \in Tasks, Reserves(t), FromA(t) \/ FromB(t) \/ FromC(t)
  PROVE  /\ Room(t, mem.pass)
         /\ mem.pass = "A" => t \notin mem.success
<1>1. IInv /\ Own /\ TypeOK /\ mem \in States
  BY DEF Sched, IInv, TypeOK
<1>2. /\ \A P : Genuine(t, P) \subseteq mem.processed
      /\ \A P : Hopes(t, P) = mem.processed \cap AcceptedRows \cap Genuine(t, P)
      /\ SameCounts(mem, saved)
  BY ReservedIsIdle, IdleIsCounted
<1>3. /\ mem.first[t]  = Cardinality(Genuine(t, {"A"}))
      /\ mem.post[t]   = Cardinality(Genuine(t, {"B", "C"}))
      /\ mem.bTries[t] = Cardinality(Genuine(t, {"B"}))
      /\ mem.demos[t]  = Cardinality(Hopes(t, Passes))
      /\ t \in mem.success <=> Hopes(t, {"A"}) # {}
  <2>1. \A P : mem.processed \cap Genuine(t, P) = Genuine(t, P)
    BY <1>2
  <2>2. CountsOf(mem)
    BY DEF Sched, Counts, ExactlyOnce
  <2> QED
    BY <1>2, <2>1, <2>2 DEF CountsOf
<1>4. Genuine(t, Passes) \subseteq saved.processed
  BY <1>2 DEF SameCounts
<1>5. \A i \in DOMAIN rows : PassRank(rows[i].pass) <= PassRank(mem.pass)
  <2>1. /\ PassRank(saved.pass) <= PassRank(mem.pass)
        /\ \A i \in DOMAIN rows : PassRank(rows[i].pass) <= PassRank(saved.pass)
    BY DEF Sched, Barrier
  <2>2. /\ mem.pass \in Passes /\ saved.pass \in Passes
        /\ \A i \in DOMAIN rows : rows[i].pass \in Passes
    BY <1>1, TypedPasses
  <2>3. \A p \in Passes : PassRank(p) \in Nat
    BY Ranks
  <2> QED
    BY <2>1, <2>2, <2>3
<1>6. Cardinality({}) = 0 /\ FirstCap \in Nat /\ FirstCap > 0 /\ DemoCap \in Nat
      /\ DemoCap >= 2 /\ BCap \in Nat /\ PostCap \in Nat /\ BCap <= PostCap
  BY FS_EmptySet, BudgetAssumption, CapAssumption
<1>7. /\ \A P : Cardinality(Genuine(t, P)) \in Nat /\ Cardinality(Hopes(t, P)) \in Nat
      /\ \A P : IsFiniteSet(Hopes(t, P)) /\ Hopes(t, P) \subseteq Genuine(t, P)
  BY <1>1, GenuineFacts
<1>8. CASE FromA(t)
  <2>1. PICK s \in Servable(mem) :
          /\ s \notin mem.fulfilled \cup mem.exhausted \cup GivenUp(mem)
          /\ t = mem'.current[s]
          /\ \/ /\ HasRetry(mem, s) /\ t = mem.current[s]
             \/ /\ ~HasRetry(mem, s) /\ t \in ReserveTasks(Stratum[s]) \ Known(mem)
    BY <1>8 DEF FromA
  <2>2. mem.pass = "A" /\ s \in Slots
    BY <1>8 DEF FromA, Servable, OpenSlots
  <2>3. \A i \in DOMAIN rows : rows[i].pass = "A"
    BY <1>1, <1>5, <2>2, Ranks, TypedPasses
  <2>4. Hopes(t, Passes) = Hopes(t, {"A"})
    BY <2>3 DEF Hopes, Genuine, Passes
  <2>5. t \notin mem.success
    <3>1. CASE t = mem.current[s]
      <4>1. mem.slotOf[t] = s
        BY <1>1, <2>2, <3>1 DEF IInv, PlacesAgree
      <4> QED
        BY <2>1, <4>1 DEF Sched, Counts, CountedRest
    <3>2. CASE t \notin Known(mem)
      <4>1. mem.slotOf[t] = NoSlot
        BY <3>2 DEF Known
      <4>2. NoSlot \notin Slots
        BY ShapeAssumption DEF NoSlot
      <4> QED
        BY <1>1, <4>1, <4>2 DEF IInv, PlacesAgree
    <3> QED
      BY <2>1, <3>1, <3>2
  <2>6. Cardinality(Genuine(t, {"A"})) < FirstCap
    <3>1. CASE HasRetry(mem, s) /\ t = mem.current[s]
      BY <1>3, <3>1 DEF HasRetry
    <3>2. CASE t \notin Known(mem)
      <4>1. mem.slotOf[t] = NoSlot
        BY <3>2 DEF Known
      <4>2. NoSlot \notin Slots
        BY ShapeAssumption DEF NoSlot
      <4>3. \A i \in DOMAIN rows : mem.slotOf[rows[i].task] = rows[i].slot
                                   /\ rows[i].slot \in Slots
        BY <1>1, RowsTyped DEF IInv, RowsPlaced, Rows
      <4>4. Genuine(t, {"A"}) = {}
        BY <4>1, <4>2, <4>3 DEF Genuine
      <4> QED
        BY <1>6, <4>4
    <3> QED
      BY <2>1, <3>1, <3>2
  <2>7. Hopes(t, {"A"}) = {} /\ Cardinality(Hopes(t, Passes)) < DemoCap
    BY <1>3, <1>6, <2>4, <2>5
  <2> QED
    BY <1>4, <2>2, <2>5, <2>6, <2>7 DEF Room
<1>9. CASE FromB(t)
  <2>1. mem.pass = "B" /\ t \in mem.success /\ t \notin mem.bDone /\ mem.bTries[t] < BCap
    BY <1>9 DEF FromB, PassBEligible
  <2>2. \A i \in DOMAIN rows : rows[i].pass \in {"A", "B"}
    BY <1>1, <1>5, <2>1, Ranks, TypedPasses DEF Passes
  <2>3. Genuine(t, {"B", "C"}) = Genuine(t, {"B"})
    BY <2>2 DEF Genuine
  <2>4. Hopes(t, {"B"}) = {}
    <3>1. \A i \in mem.processed : rows[i].status = "accepted" /\ rows[i].pass = "B" =>
                                     rows[i].task \in mem.bDone
      BY DEF Sched, Counts, CountedRest
    <3> QED
      BY <1>2, <2>1, <3>1 DEF AcceptedRows, Genuine
  <2>5. Hopes(t, Passes) = Hopes(t, {"A"})
    BY <2>2, <2>4 DEF Hopes, Genuine, Passes
  <2>6. Cardinality(Hopes(t, {"A"})) <= 1
    <3>1. PICK i : i \in Hopes(t, {"A"})
      BY <1>3, <2>1
    <3>2. Hopes(t, {"A"}) = {i}
      BY <3>1 DEF Budgets, CapsHold
    <3>3. Cardinality({i}) = 1
      BY FS_Singleton
    <3> QED
      BY <3>2, <3>3
  <2>7. /\ Cardinality(Genuine(t, {"B"})) < BCap
        /\ Cardinality(Genuine(t, {"B", "C"})) < PostCap
        /\ Cardinality(Hopes(t, Passes)) < DemoCap
    BY <1>3, <1>6, <1>7, <2>1, <2>3, <2>5, <2>6
  <2> QED
    BY <1>4, <2>1, <2>4, <2>7 DEF Room
<1>10. CASE FromC(t)
  <2>1. mem.pass = "C" /\ mem.demos[t] < DemoCap /\ mem.post[t] < PostCap
    BY <1>10 DEF FromC, PassCEligible
  <2> QED
    BY <1>3, <1>4, <2>1 DEF Room
<1> QED
  BY <1>8, <1>9, <1>10

\* Room survives what counts for other tasks only.
LEMMA RoomKept ==
  ASSUME IInv, NEW t, NEW p, Room(t, p), saved.processed \subseteq saved'.processed,
         \A P : Genuine(t, P)' = Genuine(t, P) /\ Hopes(t, P)' \subseteq Hopes(t, P)
  PROVE  Room(t, p)'
<1>1. \A P : IsFiniteSet(Hopes(t, P))
  BY GenuineFacts DEF IInv
<1>2. Cardinality(Hopes(t, Passes)') <= Cardinality(Hopes(t, Passes))
      /\ Cardinality(Hopes(t, Passes)') \in Nat /\ Cardinality(Hopes(t, Passes)) \in Nat
  BY <1>1, FS_Subset, FS_CardinalityType
<1>3. \A P : Genuine(t, P)' = Genuine(t, P) /\ (Hopes(t, P) = {} => Hopes(t, P)' = {})
  OBVIOUS
<1>4. DemoCap \in Nat
  BY BudgetAssumption
<1> QED
  BY <1>2, <1>3, <1>4 DEF Room

\* At most one attempt more.
LEMMA OneMore ==
  ASSUME NEW S, IsFiniteSet(S), NEW x, NEW T, S \subseteq T, T \subseteq S \cup {x}
  PROVE  /\ IsFiniteSet(T) /\ Cardinality(T) \in Nat /\ Cardinality(S) \in Nat
         /\ Cardinality(T) <= Cardinality(S) + 1
         /\ x \notin T => T = S
<1>1. CASE x \in S \/ x \notin T
  <2>1. T = S
    BY <1>1
  <2> QED
    BY <2>1, FS_CardinalityType
<1>2. CASE x \notin S /\ x \in T
  <2>1. T = S \cup {x}
    BY <1>2
  <2> QED
    BY <1>2, <2>1, CountOneMore
<1> QED
  BY <1>1, <1>2

LEMMA CapsStep ==
  ASSUME Sched, Budgets, [Next]_vars, NEW t \in Tasks
  PROVE  CapsHold(t)'
<1>1. IInv /\ Own /\ TypeOK /\ CapsHold(t) /\ saved.processed \subseteq saved'.processed
  BY SavedGrows DEF Sched, IInv, Budgets
<1>2. \A P : /\ IsFiniteSet(Genuine(t, P)) /\ IsFiniteSet(Hopes(t, P))
             /\ Hopes(t, P) \subseteq Genuine(t, P)
  BY <1>1, GenuineFacts
<1>3. FirstCap \in Nat /\ BCap \in Nat /\ PostCap \in Nat /\ DemoCap \in Nat
  BY BudgetAssumption
<1>4. ASSUME \A P : Genuine(t, P)' = Genuine(t, P) /\ Hopes(t, P)' \subseteq Hopes(t, P)
      PROVE  CapsHold(t)'
  <2>1. Cardinality(Hopes(t, Passes)') <= Cardinality(Hopes(t, Passes))
        /\ Cardinality(Hopes(t, Passes)') \in Nat /\ Cardinality(Hopes(t, Passes)) \in Nat
    BY <1>2, <1>4, FS_Subset, FS_CardinalityType
  <2>2. \A P : Genuine(t, P)' = Genuine(t, P)
    BY <1>4
  <2>3. /\ \A i, j \in Hopes(t, {"A"})' : i = j
        /\ \A i, j \in Hopes(t, {"B"})' : i = j
        /\ \A i, j \in Genuine(t, Passes)' \ saved'.processed : i = j
    BY <1>1, <1>4 DEF CapsHold
  <2> QED
    BY <1>1, <1>3, <2>1, <2>2, <2>3 DEF CapsHold
<1>5. CASE ChargesNothing
  BY <1>4, <1>5 DEF ChargesNothing
<1>6. ASSUME NEW w \in Workers, NEW r \in Nat, Charges(w, r) PROVE CapsHold(t)'
  <2> DEFINE p == pool[w].item.pass
  <2>1. /\ \A P : /\ Genuine(t, P) \subseteq Genuine(t, P)'
                  /\ Genuine(t, P)' \subseteq Genuine(t, P) \cup {r}
                  /\ Hopes(t, P)' \subseteq Hopes(t, P) \cup {r}
                  /\ r \in Genuine(t, P)' => t = pool[w].item.task /\ p \in P
                  /\ r \notin Genuine(t, P)
        /\ saved' = saved
    BY <1>6 DEF Charges
  <2>2. \A P : Hopes(t, P)' \subseteq Genuine(t, P)'
    BY DEF Hopes
  <2>3. CASE t # pool[w].item.task
    <3>1. \A P : Genuine(t, P)' = Genuine(t, P) /\ Hopes(t, P)' \subseteq Hopes(t, P)
      BY <2>1, <2>2, <2>3
    <3> QED
      BY <1>4, <3>1
  <2>4. CASE t = pool[w].item.task
    <3>2. p \in Passes
      BY <1>1, <1>6, TypedPasses DEF Charges
    <3>1. Room(t, p)
      BY <1>6, <2>4, <3>2 DEF Charges, Budgets
    <3>3. \A P : /\ Cardinality(Genuine(t, P)') \in Nat /\ Cardinality(Genuine(t, P)) \in Nat
                 /\ Cardinality(Genuine(t, P)') <= Cardinality(Genuine(t, P)) + 1
                 /\ p \notin P => Genuine(t, P)' = Genuine(t, P)
      BY <1>2, <2>1, OneMore
    <3>4. Cardinality(Hopes(t, Passes)') <= Cardinality(Hopes(t, Passes)) + 1
          /\ Cardinality(Hopes(t, Passes)') \in Nat /\ Cardinality(Hopes(t, Passes)) \in Nat
      <4> DEFINE S == Hopes(t, Passes)
      <4>1. IsFiniteSet(S)
        BY <1>2
      <4>2. S \subseteq S \cup {r} /\ IsFiniteSet(S \cup {r})
            /\ Cardinality(S \cup {r}) <= Cardinality(S) + 1
        BY <4>1, OneMore
      <4>3. Hopes(t, Passes)' \subseteq S \cup {r}
        BY <2>1
      <4>4. Cardinality(Hopes(t, Passes)') <= Cardinality(S \cup {r})
        BY <4>2, <4>3, FS_Subset
      <4>5. Cardinality(S \cup {r}) \in Nat /\ Cardinality(S) \in Nat
            /\ Cardinality(Hopes(t, Passes)') \in Nat
        BY <4>1, <4>2, <4>3, FS_Subset, FS_CardinalityType
      <4> HIDE DEF S
      <4>6. Cardinality(Hopes(t, Passes)') <= Cardinality(S) + 1
        BY <4>2, <4>4, <4>5
      <4> QED
        BY <4>5, <4>6 DEF S
    <3>5. Cardinality(Genuine(t, {"A"})') <= FirstCap
      <4>1. CASE p = "A"
        BY <1>3, <3>1, <3>3, <4>1 DEF Room
      <4>2. CASE p # "A"
        <5>1. Genuine(t, {"A"})' = Genuine(t, {"A"})
          BY <3>3, <4>2
        <5> QED
          BY <1>1, <5>1 DEF CapsHold
      <4> QED
        BY <4>1, <4>2
    <3>6. Cardinality(Genuine(t, {"B"})') <= BCap
      <4>1. CASE p = "B"
        BY <1>3, <3>1, <3>3, <4>1 DEF Room
      <4>2. CASE p # "B"
        <5>1. Genuine(t, {"B"})' = Genuine(t, {"B"})
          BY <3>3, <4>2
        <5> QED
          BY <1>1, <5>1 DEF CapsHold
      <4> QED
        BY <4>1, <4>2
    <3>7. Cardinality(Genuine(t, {"B", "C"})') <= PostCap
      <4>1. CASE p # "A"
        BY <1>3, <3>1, <3>3, <4>1 DEF Room
      <4>2. CASE p = "A"
        <5>1. Genuine(t, {"B", "C"})' = Genuine(t, {"B", "C"})
          BY <3>3, <4>2
        <5> QED
          BY <1>1, <5>1 DEF CapsHold
      <4> QED
        BY <4>1, <4>2
    <3>8. Cardinality(Hopes(t, Passes)') <= DemoCap
      BY <1>3, <3>1, <3>4 DEF Room
    <3>9. ASSUME NEW q \in {"A", "B"} PROVE \A i, j \in Hopes(t, {q})' : i = j
      <4>1. CASE p = q
        <5>1. Hopes(t, {q}) = {}
          BY <3>1, <3>9, <4>1 DEF Room
        <5> QED
          BY <2>1, <5>1
      <4>2. CASE p # q
        <5>1. Hopes(t, {q})' \subseteq Hopes(t, {q})
          BY <2>1, <2>2, <4>2
        <5> QED
          BY <1>1, <3>9, <5>1 DEF CapsHold
      <4> QED
        BY <4>1, <4>2
    <3>10. \A i, j \in Genuine(t, Passes)' \ saved'.processed : i = j
      <4>1. Genuine(t, Passes)' \ saved'.processed \subseteq {r}
        BY <2>1, <3>1 DEF Room
      <4> QED
        BY <4>1
    <3> QED
      BY <3>5, <3>6, <3>7, <3>8, <3>9, <3>10 DEF CapsHold
  <2> QED
    BY <2>3, <2>4
<1> QED
  BY <1>1, <1>5, <1>6, CountedStep

LEMMA BudgetsStep ==
  ASSUME Sched, Budgets, [Next]_vars
  PROVE  Budgets'
<1>1. IInv /\ Own /\ TypeOK /\ saved.processed \subseteq saved'.processed
  BY SavedGrows DEF Sched, IInv
<1>2. \A t \in Tasks : CapsHold(t)'
  BY CapsStep
<1>3. ChargesNothing \/ \E w \in Workers, r \in Nat : Charges(w, r)
  BY <1>1, CountedStep
<1>4. ASSUME NEW a, NEW b, Room(a, b),
             \A w \in Workers, r \in Nat : Charges(w, r) => a # pool[w].item.task
      PROVE  Room(a, b)'
  <2>1. \A P : Genuine(a, P)' = Genuine(a, P) /\ Hopes(a, P)' \subseteq Hopes(a, P)
    <3>1. CASE ChargesNothing
      BY <3>1 DEF ChargesNothing
    <3>2. ASSUME NEW w \in Workers, NEW r \in Nat, Charges(w, r)
          PROVE  \A P : Genuine(a, P)' = Genuine(a, P) /\ Hopes(a, P)' \subseteq Hopes(a, P)
      <4>1. a # pool[w].item.task
        BY <1>4, <3>2
      <4>2. \A P : r \notin Genuine(a, P)'
        BY <3>2, <4>1 DEF Charges
      <4>3. \A P : Hopes(a, P)' \subseteq Genuine(a, P)'
        BY DEF Hopes
      <4> QED
        BY <3>2, <4>2, <4>3 DEF Charges
    <3> QED
      BY <1>3, <3>1, <3>2
  <2> QED
    BY <1>1, <1>4, <2>1, RoomKept
<1>5. ASSUME NEW a \in Tasks, NEW b \in Passes, pc = "submit", picked.task = a, picked.pass = b
      PROVE  Room(a, b)'
  <2>1. Room(a, b)
    BY <1>5 DEF Budgets
  <2>2. \A w \in Workers, r \in Nat : Charges(w, r) => a # pool[w].item.task
    BY <1>1, <1>5 DEF Charges, IInv, OneFlightPerTask, TasksOf
  <2> QED
    BY <1>4, <2>1, <2>2
<1>6. ASSUME NEW a \in Tasks, NEW b \in Passes, NEW v \in InFlight', pool'[v].pc # "done",
             pool'[v].item.task = a, pool'[v].item.pass = b
      PROVE  Room(a, b)'
  <2>1. \/ v \in InFlight /\ pool[v].pc # "done" /\ pool'[v].item = pool[v].item
        \/ pc = "submit" /\ pool'[v].item = picked
    BY <1>1, <1>6, ThreadOrigins
  <2>2. CASE v \in InFlight /\ pool[v].pc # "done" /\ pool'[v].item = pool[v].item
    <3>1. Room(a, b)
      BY <1>6, <2>2 DEF Budgets
    <3>2. \A w \in Workers, r \in Nat : Charges(w, r) => a # pool[w].item.task
      BY <1>1, <1>6, <2>2 DEF Charges, IInv, OneFlightPerTask
    <3> QED
      BY <1>4, <3>1, <3>2
  <2>3. CASE pc = "submit" /\ pool'[v].item = picked
    BY <1>5, <1>6, <2>3
  <2> QED
    BY <2>1, <2>2, <2>3
<1>7. ASSUME NEW a \in Tasks, NEW b \in Passes, pc' = "submit", picked'.task = a,
             picked'.pass = b
      PROVE  Room(a, b)'
  <2>1. CASE pc = "submit" /\ picked' = picked
    BY <1>5, <1>7, <2>1
  <2>2. CASE \E t \in Tasks : Reserves(t) /\ (FromA(t) \/ FromB(t) \/ FromC(t))
    <3>1. PICK t \in Tasks : Reserves(t) /\ (FromA(t) \/ FromB(t) \/ FromC(t))
      BY <2>2
    <3>2. a = t /\ b = mem.pass /\ pc # "down" /\ rows' = rows
      BY <1>7, <3>1 DEF Reserves, CallsNextWork
    <3>3. Room(a, b)
      BY <3>1, <3>2, ReserveRoom
    <3>4. \A w \in Workers, r \in Nat : Charges(w, r) => a # pool[w].item.task
      BY <3>1, <3>2 DEF Charges, Reserves, TasksOf
    <3> QED
      BY <1>4, <3>3, <3>4
  <2> QED
    BY <1>1, <1>7, <2>1, <2>2, ThreadOrigins
<1> QED
  BY <1>2, <1>6, <1>7 DEF Budgets

LEMMA BudgetsInit == Init => Budgets
<1> SUFFICES ASSUME Init PROVE Budgets
  OBVIOUS
<1>1. DOMAIN rows = {} /\ pc = "down" /\ InFlight = {}
  BY IdleIsThread DEF Init, InFlight
<1>2. \A t, P : Genuine(t, P) = {} /\ Hopes(t, P) = {}
  BY <1>1 DEF Genuine, Hopes
<1>3. Cardinality({}) = 0
  BY FS_EmptySet
<1>4. ASSUME NEW t \in Tasks PROVE CapsHold(t)
  <2>1. FirstCap >= 0 /\ BCap >= 0 /\ PostCap >= 0 /\ DemoCap >= 0
    BY BudgetAssumption
  <2>2. \A P : Cardinality(Genuine(t, P)) = 0 /\ Cardinality(Hopes(t, P)) = 0
    BY <1>2, <1>3
  <2>3. /\ Cardinality(Genuine(t, {"A"})) <= FirstCap
        /\ Cardinality(Genuine(t, {"B"})) <= BCap
        /\ Cardinality(Genuine(t, {"B", "C"})) <= PostCap
        /\ Cardinality(Hopes(t, Passes)) <= DemoCap
    BY <2>1, <2>2
  <2> QED
    BY <1>2, <2>3 DEF CapsHold
<1> QED
  BY <1>1, <1>4 DEF Budgets

\* The attempts in the ledger stay within every budget of their task, counted or not,
\* across crashes, restarts and repeated reconciles.
THEOREM BudgetsHold == Spec => []LedgerWithinBudgets
<1>1. Init => Sched /\ Budgets
  BY SchedInit, BudgetsInit
<1>2. Sched /\ Budgets /\ [Next]_vars => Sched' /\ Budgets'
  BY SchedStep, BudgetsStep
<1>3. Sched /\ Budgets => LedgerWithinBudgets
  <2> SUFFICES ASSUME Sched, Budgets, NEW t \in Tasks
               PROVE  /\ Cardinality(Genuine(t, {"A"})) <= FirstCap
                      /\ Cardinality(Genuine(t, {"B"})) <= BCap
                      /\ Cardinality(Genuine(t, {"B", "C"})) <= PostCap
                      /\ Cardinality(AcceptedRows \cap Genuine(t, Passes)) <= DemoCap
    BY DEF LedgerWithinBudgets
  <2>1. CapsHold(t) /\ TypeOK
    BY DEF Budgets, Sched, IInv
  <2>2. AcceptedRows \cap Genuine(t, Passes) \subseteq Hopes(t, Passes)
    BY DEF Hopes, AcceptedRows
  <2>3. IsFiniteSet(Hopes(t, Passes))
    BY <2>1, GenuineFacts
  <2>4. /\ Cardinality(AcceptedRows \cap Genuine(t, Passes)) <= Cardinality(Hopes(t, Passes))
        /\ Cardinality(AcceptedRows \cap Genuine(t, Passes)) \in Nat
        /\ Cardinality(Hopes(t, Passes)) \in Nat
    BY <2>2, <2>3, FS_Subset, FS_CardinalityType
  <2>5. DemoCap \in Nat /\ Cardinality(Hopes(t, Passes)) <= DemoCap
    BY <2>1, BudgetAssumption DEF CapsHold
  <2>6. Cardinality(AcceptedRows \cap Genuine(t, Passes)) <= DemoCap
    BY <2>4, <2>5
  <2> QED
    BY <2>1, <2>6 DEF CapsHold
<1> QED
  BY <1>1, <1>2, <1>3, PTL DEF Spec

----------------------------------------------------------------------------
(* How a process ends.                                                     *)

\* A published demonstration is accepted, or will be.
Published ==
  \A i \in DOMAIN rows :
    rows[i].files > 0 =>
      \/ rows[i].status = "accepted"
      \/ rows[i].status = "candidate_success" /\ Verdict(i) = "accepted"

\* The fate of a candidate does not change while it waits: nothing else of its task
\* can be accepted before it.
LEMMA FateIsSealed ==
  ASSUME Sched, Budgets, [Next]_vars, NEW i \in CandidateRows,
         i \in CandidateRows', rows'[i].result = rows[i].result
  PROVE  Verdict(i)' = Verdict(i)
<1>1. IInv /\ Own
  BY DEF Sched
<1>2. /\ AcceptedRows \subseteq AcceptedRows'
      /\ \A j \in AcceptedRows : rows'[j] = rows[j]
      /\ \A j \in AcceptedRows' \ AcceptedRows :
           j \in DOMAIN rows /\ rows[j].status = "candidate_success"
  BY <1>1, AcceptedGrows
<1>3. /\ i \in DOMAIN rows /\ rows[i].status = "candidate_success"
      /\ rows'[i].status = "candidate_success"
      /\ \A j \in DOMAIN rows : rows'[j].task = rows[j].task
  BY <1>1, RowsKept DEF CandidateRows
<1>4. ASSUME NEW j \in AcceptedRows' \ AcceptedRows PROVE rows'[j].task # rows[i].task
  <2> SUFFICES ASSUME rows'[j].task = rows[i].task PROVE FALSE
    OBVIOUS
  <2>1. PICK t \in Tasks : t = rows[i].task
    BY <1>1, <1>3, RowsTyped DEF IInv, Rows
  <2>2. i \in Genuine(t, Passes) /\ j \in Genuine(t, Passes)
    <3>1. rows[i].pass \in Passes /\ rows[j].pass \in Passes
      BY <1>1, <1>2, <1>3, TypedPasses
    <3> QED
      BY <1>2, <1>3, <2>1, <3>1 DEF Genuine
  <2>3. i \notin saved.processed /\ j \notin saved.processed
    BY <1>1, <1>2, <1>3
    DEF Own, CountedAreFinal, FinalStatuses, GenuineStatuses, RejectStatuses, InfraStatuses
  <2>4. i = j
    BY <2>2, <2>3 DEF Budgets, CapsHold
  <2> QED
    BY <1>3, <2>4 DEF AcceptedRows
<1>5. PriorResults(rows[i].task)' = PriorResults(rows[i].task)
  <2>1. rows'[i].task = rows[i].task
    BY <1>3
  <2>2. {j \in AcceptedRows' : rows'[j].task = rows[i].task}
          = {j \in AcceptedRows : rows[j].task = rows[i].task}
    BY <1>2, <1>4
  <2>3. {rows'[k].result : k \in {j \in AcceptedRows' : rows'[j].task = rows[i].task}}
          = {rows[k].result : k \in {j \in AcceptedRows : rows[j].task = rows[i].task}}
    BY <1>2, <2>2
  <2> QED
    BY <2>1, <2>3 DEF PriorResults
<1> QED
  BY <1>3, <1>5 DEF Verdict

LEMMA PublishedStep ==
  ASSUME Sched, Budgets, Published, [Next]_vars
  PROVE  Published'
<1>1. IInv /\ Own /\ TypeOK /\ \A i \in DOMAIN rows : rows[i] \in Rows
  BY RowsTyped DEF Sched, IInv
<1>2. \/ \E w \in Workers : Worker(w)
      \/ Applies
      \/ Publishes
      \/ Boots
      \/ Keeps
  BY <1>1, OwnStep
<1>3. ASSUME NEW i \in DOMAIN rows, rows'[i] = rows[i], i \in DOMAIN rows', rows[i].files > 0
      PROVE  \/ rows'[i].status = "accepted"
             \/ rows'[i].status = "candidate_success" /\ Verdict(i)' = "accepted"
  <2>1. CASE rows[i].status = "accepted"
    BY <1>3, <2>1
  <2>2. CASE rows[i].status = "candidate_success" /\ Verdict(i) = "accepted"
    <3>1. i \in CandidateRows /\ i \in CandidateRows'
      BY <1>3, <2>2 DEF CandidateRows
    <3> QED
      BY <1>3, <2>2, <3>1, FateIsSealed
  <2> QED
    BY <1>3, <2>1, <2>2 DEF Published
<1> SUFFICES ASSUME NEW i \in DOMAIN rows', rows'[i].files > 0
             PROVE  \/ rows'[i].status = "accepted"
                    \/ rows'[i].status = "candidate_success" /\ Verdict(i)' = "accepted"
  BY DEF Published
<1>4. CASE \E w \in Workers : Worker(w)
  <2>1. PICK w \in Workers : Worker(w)
    BY <1>4
  <2>2. w \in InFlight /\ (Loses(w) \/ Opens(w) \/ Works(w) \/ Decides(w))
    BY <1>1, <2>1, WorkerRows
  <2>3. ASSUME NEW n, Changed(pool[w].row, n), n.files = rows[pool[w].row].files,
               pool[w].pc \in {"started", "rolling"}
        PROVE  i \in DOMAIN rows /\ rows'[i] = rows[i]
    <3>1. /\ rows[pool[w].row].status = "in_progress" /\ pool[w].row \in DOMAIN rows
          /\ rows'[pool[w].row] = n
      BY <1>1, <2>2, <2>3 DEF Own, ThreadsOwnRows, Changed
    <3>2. ~ (rows[pool[w].row].files > 0)
      BY <3>1 DEF Published
    <3> QED
      BY <2>3, <3>1, <3>2 DEF Changed
  <2>4. CASE Loses(w)
    BY <1>3, <2>4 DEF Loses
  <2>5. CASE Opens(w)
    <3>1. i \in DOMAIN rows
      BY <2>5 DEF Opens
    <3> QED
      BY <1>3, <2>5, <3>1 DEF Opens
  <2>6. CASE Works(w)
    <3> DEFINE n == [rows[pool[w].row] EXCEPT !.work = TRUE]
    <3>1. Changed(pool[w].row, n) /\ pool[w].pc = "started" /\ pool[w].row \in DOMAIN rows
      BY <2>6 DEF Works, Changed
    <3>2. n.files = rows[pool[w].row].files
      BY <1>1, <3>1, RowWork
    <3> HIDE DEF n
    <3>3. i \in DOMAIN rows /\ rows'[i] = rows[i]
      BY <2>3, <3>1, <3>2
    <3> QED
      BY <1>3, <3>3
  <2>7. CASE Decides(w)
    <3>1. PICK st \in {"candidate_success", "failed", "interrupted"},
               b \in Results \cup {NoPurchase} :
                 Changed(pool[w].row, [rows[pool[w].row] EXCEPT !.status = st, !.result = b])
      BY <2>7 DEF Decides
    <3> DEFINE n == [rows[pool[w].row] EXCEPT !.status = st, !.result = b]
    <3>2. Changed(pool[w].row, n) /\ pool[w].pc = "rolling" /\ pool[w].row \in DOMAIN rows
      BY <2>7, <3>1 DEF Decides, Changed
    <3>3. n.files = rows[pool[w].row].files
      BY <1>1, <3>2, RowOutcome
    <3> HIDE DEF n
    <3>4. i \in DOMAIN rows /\ rows'[i] = rows[i]
      BY <2>3, <3>2, <3>3
    <3> QED
      BY <1>3, <3>4
  <2> QED
    BY <2>2, <2>4, <2>5, <2>6, <2>7
<1>5. CASE Applies
  <2>0. PICK n : n = NextRow
    OBVIOUS
  <2>1. /\ n \in DOMAIN rows /\ Changed(n, [rows[n] EXCEPT !.status = Verdict(n)])
        /\ rows[n].status # "in_progress"
    BY <1>5, <2>0 DEF Applies
  <2>2. rows'[n].status = Verdict(n) /\ rows'[n].files = rows[n].files
    BY <1>1, <2>1, RowStatus DEF Changed
  <2>3. CASE i = n
    <3>1. rows[n].status = "accepted" => Verdict(n) = "accepted"
      BY <1>1, <2>1, VerdictIsFinal
    <3> QED
      BY <2>1, <2>2, <2>3, <3>1 DEF Published
  <2>4. CASE i # n
    BY <1>3, <2>1, <2>4 DEF Changed
  <2> QED
    BY <2>3, <2>4
<1>6. CASE Publishes
  <2>0. PICK n : n = NextRow
    OBVIOUS
  <2>1. /\ n \in DOMAIN rows /\ Changed(n, [rows[n] EXCEPT !.files = @ + 1])
        /\ rows[n].status = "candidate_success" /\ Verdict(n) = "accepted"
    BY <1>6, <2>0 DEF Publishes
  <2>2. rows'[n].status = "candidate_success" /\ rows'[n].result = rows[n].result
        /\ n \in DOMAIN rows'
    BY <1>1, <2>1, RowFiles DEF Changed
  <2>3. n \in CandidateRows /\ n \in CandidateRows'
    BY <2>1, <2>2 DEF CandidateRows
  <2>4. Verdict(n)' = "accepted"
    BY <2>1, <2>2, <2>3, FateIsSealed
  <2>5. CASE i = n
    BY <2>2, <2>4, <2>5
  <2>6. CASE i # n
    BY <1>3, <2>1, <2>6 DEF Changed
  <2> QED
    BY <2>5, <2>6
<1>7. CASE Boots
  <2>1. i \in DOMAIN rows
    BY <1>7 DEF Boots
  <2> DEFINE n == [rows[i] EXCEPT !.status = "interrupted"]
  <2>2. n.files = rows[i].files
    BY <1>1, <2>1, RowStatus
  <2>3. CASE rows[i].status = "in_progress"
    <3>1. rows'[i] = n
      BY <1>7, <2>1, <2>3 DEF Boots
    <3> HIDE DEF n
    <3> QED
      BY <2>1, <2>2, <2>3, <3>1 DEF Published
  <2>4. CASE rows[i].status # "in_progress"
    <3>1. rows'[i] = rows[i]
      BY <1>7, <2>1, <2>4 DEF Boots
    <3> QED
      BY <1>3, <2>1, <3>1
  <2> QED
    BY <2>3, <2>4
<1>8. CASE Keeps
  BY <1>3, <1>8 DEF Keeps
<1> QED
  BY <1>2, <1>4, <1>5, <1>6, <1>7, <1>8

\* A process that ends with nothing in flight and nothing to reconcile.
LEMMA NothingLeft ==
  ASSUME Sched, Published, NEW c, SameCounts(mem, c), c.active = {},
         Pending = {}, mem.active = {}, Ends(c)
  PROVE  /\ \A i \in DOMAIN rows' :
              rows'[i].work /\ rows'[i].status # "in_progress" => i \in saved'.processed
         /\ CandidateRows' = {}
         /\ \A i \in DOMAIN rows' : rows'[i].files > 0 => rows'[i].status = "accepted"
         /\ AcceptedTotal(saved') = Cardinality(AcceptedRows')
         /\ saved'.active = {}
<1> USE DEF FinalStatuses, GenuineStatuses, RejectStatuses, InfraStatuses, CountedStatuses
<1>1. rows' = rows /\ SameCounts(mem, saved') /\ saved'.active = {}
  BY AgreeTrans DEF Ends
<1>2. \A i \in DOMAIN rows : rows[i].work /\ rows[i].status # "in_progress" =>
                               i \in mem.processed
  BY DEF Pending
<1>3. CandidateRows = {} /\ AcceptedRows \subseteq mem.processed
  BY <1>2 DEF CandidateRows, AcceptedRows, Sched, Own, CountedAreFinal
<1>4. \A i \in DOMAIN rows : rows[i].files > 0 => rows[i].status = "accepted"
  BY <1>3 DEF Published, CandidateRows
<1>5. AcceptedTotal(saved') = AcceptedTotal(mem)
  BY <1>1, SameDemonstrations
<1>6. AcceptedTotal(mem) = Cardinality(AcceptedRows)
  <2>1. mem.processed \cap AcceptedRows = AcceptedRows
    BY <1>3
  <2> QED
    BY <2>1 DEF Sched, Counts, CountedRest
<1>7. CandidateRows' = CandidateRows /\ AcceptedRows' = AcceptedRows
  BY <1>1 DEF CandidateRows, AcceptedRows
<1> QED
  BY <1>1, <1>2, <1>3, <1>4, <1>5, <1>6, <1>7 DEF SameCounts

\* Which steps end a process, and in which state.
LEMMA Endings ==
  ASSUME Sched, [Next]_vars, pc' = "down"
  PROVE  \/ UNCHANGED vars
         \/ Crash /\ report'.status = "crashed" /\ ~report'.eligible
         \/ RepairDone /\ Ends(mem) /\ Pending = {} /\ mem.active = {} /\ ~report'.eligible
         \/ /\ Finish /\ InFlight = {} /\ pc = "dispatch" /\ stage # "repair"
            /\ report'.eligible => auto_resume_eligible
            /\ \E c : /\ Ends(c) /\ SameCounts(mem, c) /\ c.active = {}
                      /\ Pending = {} /\ mem.active = {}
<1>1. IInv /\ Own /\ Steps
  BY StepKinds DEF Sched
<1>2. TasksOf({}) = {}
  BY DEF TasksOf
<1>3. CASE \E w \in Workers : Worker(w)
  <2>1. pc = "down" /\ InFlight # {}
    BY <1>1, <1>3, WorkerRows
  <2> QED
    BY <1>1, <2>1 DEF IInv, PhaseOK
<1>4. CASE Finish
  <2>1. /\ pc = "dispatch" /\ InFlight = {}
        /\ \/ Ends(saved) /\ ~report'.eligible
           \/ Ends(mem) /\ report'.eligible = auto_resume_eligible
    BY <1>1, <1>4, FinishView
  <2>2. /\ Pending = {} /\ SameCounts(mem, saved) /\ saved.active = mem.active
        /\ mem.active = {} /\ stage # "repair"
    BY <1>2, <2>1 DEF Sched, Serial, Dispatching
  <2> QED
    BY <1>4, <2>1, <2>2, AgreeTrans
<1>5. CASE RepairDone
  <2>1. Ends(mem) /\ pc = "reconcile" /\ stage = "repair" /\ Pending = {} /\ ~report'.eligible
    BY <1>1, <1>5, RepairDoneView
  <2>2. mem.active = {}
    BY <1>2, <2>1 DEF Sched, Serial
  <2> QED
    BY <1>5, <2>1, <2>2
<1>6. CASE Crash
  BY <1>1, <1>6, CrashView
<1>7. CASE Applies \/ Publishes \/ Boots \/ ReconcileDone
  BY <1>7 DEF Applies, Publishes, Boots, ReconcileDone
<1>8. CASE Selects
  BY <1>8 DEF Selects, Idles, Reserves
<1>9. CASE (\E w \in Workers : Submits(w)) \/ WithdrawReservation \/ Collect \/ Joins
  BY <1>9 DEF Submits, WithdrawReservation, Collect, Joins
<1>10. CASE MainFault \/ Sigint
  BY <1>10 DEF MainFault, Sigint
<1> QED
  BY <1>1, <1>3, <1>4, <1>5, <1>6, <1>7, <1>8, <1>9, <1>10 DEF Steps

LEMMA ExitStepLeavesNothing ==
  ASSUME Sched, Published, ExitLeavesNothingBehind, [Next]_vars
  PROVE  ExitLeavesNothingBehind'
<1> SUFFICES ASSUME pc' = "down", report'.status \notin {"none", "crashed"}
             PROVE  /\ \A i \in DOMAIN rows' :
                         rows'[i].work /\ rows'[i].status # "in_progress" =>
                           i \in saved'.processed
                    /\ CandidateRows' = {}
                    /\ \A i \in DOMAIN rows' :
                         rows'[i].files > 0 => rows'[i].status = "accepted"
                    /\ AcceptedTotal(saved') = Cardinality(AcceptedRows')
                    /\ saved'.active = {}
  BY DEF ExitLeavesNothingBehind, AcceptedTotal, Demonstrations
<1>1. CASE UNCHANGED vars
  <2>1. /\ rows' = rows /\ saved' = saved /\ pc' = pc /\ report' = report
        /\ CandidateRows' = CandidateRows /\ AcceptedRows' = AcceptedRows
    BY <1>1 DEF vars, CandidateRows, AcceptedRows
  <2> QED
    BY <2>1 DEF ExitLeavesNothingBehind
<1>2. CASE RepairDone /\ Ends(mem) /\ Pending = {} /\ mem.active = {}
  BY <1>2, NothingLeft, AgreeTrans
<1>3. CASE \E c : /\ Ends(c) /\ SameCounts(mem, c) /\ c.active = {}
                  /\ Pending = {} /\ mem.active = {}
  BY <1>3, NothingLeft
<1> QED
  BY <1>1, <1>2, <1>3, Endings

\* Unless it crashes, a process that ends has applied every finished attempt and
\* committed every published demonstration, and its counts are the accepted table's.
THEOREM EndsClean == Spec => []ExitLeavesNothingBehind
<1>1. Init => Sched /\ Budgets /\ Published /\ ExitLeavesNothingBehind
  <2> SUFFICES ASSUME Init PROVE Published /\ ExitLeavesNothingBehind
    BY SchedInit, BudgetsInit
  <2>1. DOMAIN rows = {} /\ report.status = "none"
    BY DEF Init
  <2> QED
    BY <2>1 DEF Published, ExitLeavesNothingBehind
<1>2. Sched /\ Budgets /\ Published /\ ExitLeavesNothingBehind /\ [Next]_vars =>
        Sched' /\ Budgets' /\ Published' /\ ExitLeavesNothingBehind'
  BY SchedStep, BudgetsStep, PublishedStep, ExitStepLeavesNothing
<1> QED
  BY <1>1, <1>2, PTL DEF Spec

----------------------------------------------------------------------------
(* What a resumable stop leaves.                                           *)

\* Whose row is in progress: that of a thread which still decides it, or which lost it
\* and will say so; or the loss was already noted.
Attended(i) ==
  \/ "permanent" \in seen
  \/ \E w \in InFlight :
       pool[w].row = i /\ (pool[w].pc # "done" \/ pool[w].result = "permanent")

InProgress == {i \in DOMAIN rows : rows[i].status = "in_progress"}

Drained ==
  /\ pc # "down" /\ stage # "repair" => \A i \in InProgress : Attended(i)
  /\ EligibleStopIsDrained

\* A thread that loses its row reports a permanent failure.
LEMMA LossIsReported ==
  ASSUME IInv, Own, NEW w \in Workers, Worker(w), Loses(w), pool[w].row # 0
  PROVE  pool'[w].result = "permanent"
<1>1. /\ w \in InFlight /\ pool \in [Workers -> Threads] /\ pool[w] \in Threads
      /\ \A i \in DOMAIN rows : rows[i] \in Rows
  BY WorkerRows, RowsTyped DEF IInv, TypeOK
<1>2. rows' = rows /\ pool'[w].pc = "done"
  BY DEF Loses
<1>3. CASE LoseRow(w)
  <2>1. pool' = [pool EXCEPT ![w] = [pool[w] EXCEPT !.pc = "done", !.result = "permanent"]]
    BY <1>3 DEF LoseRow, WorkerStep
  <2>2. pool'[w] = [pool[w] EXCEPT !.pc = "done", !.result = "permanent"]
    BY <1>1, <2>1
  <2> QED
    BY <1>1, <2>2 DEF Threads
<1>4. CASE Cancelled(w)
  BY <1>1, <1>4 DEF Cancelled, Own, ThreadsOwnRows
<1>5. CASE StartAttempt(w) \/ SaveWork(w)
  <2>1. CASE StartAttempt(w)
    <3>1. pool'[w] = [pool[w] EXCEPT !.pc = "started", !.row = Len(rows) + 1]
      BY <1>1, <2>1 DEF StartAttempt, WorkerStep
    <3> QED
      BY <1>1, <1>2, <3>1 DEF Threads
  <2>2. CASE SaveWork(w)
    <3>1. pool'[w] = [pool[w] EXCEPT !.pc = "rolling"]
      BY <1>1, <2>2 DEF SaveWork, WorkerStep
    <3> QED
      BY <1>1, <1>2, <3>1 DEF Threads
  <2> QED
    BY <1>5, <2>1, <2>2
<1>6. ASSUME NEW st \in {"candidate_success", "failed", "interrupted"},
             NEW b \in Results \cup {NoPurchase}, NEW o, Persist(w, st, b, o)
      PROVE  FALSE
  <2> DEFINE r == pool[w].row
  <2>1. /\ pool[w].pc = "rolling"
        /\ rows' = [rows EXCEPT ![r] = [rows[r] EXCEPT !.status = st, !.result = b]]
    BY <1>6 DEF Persist, save_attempt
  <2>2. r \in DOMAIN rows /\ rows[r].status = "in_progress"
    BY <1>1, <2>1 DEF Own, ThreadsOwnRows
  <2>3. rows'[r] = [rows[r] EXCEPT !.status = st, !.result = b]
    BY <2>1, <2>2
  <2>4. rows'[r].status = st
    BY <1>1, <2>2, <2>3, RowOutcome
  <2> QED
    BY <1>2, <2>2, <2>4
<1>7. CASE Succeed(w)
  <2>1. PICK b \in Results : Persist(w, "candidate_success", b, "ok")
    BY <1>7 DEF Succeed
  <2> QED
    BY <1>6, <2>1
<1>8. CASE Fail(w) \/ GiveUp(w)
  BY <1>6, <1>8 DEF Fail, GiveUp
<1>9. CASE Break(w)
  <2>1. PICK f \in Faults : Persist(w, "interrupted", NoPurchase, f)
    BY <1>9 DEF Break
  <2> QED
    BY <1>6, <2>1
<1> QED
  BY <1>3, <1>4, <1>5, <1>7, <1>8, <1>9 DEF Worker

LEMMA AttendedByThreads ==
  ASSUME IInv, Own, NEW w \in Workers, Worker(w), \A i \in InProgress : Attended(i),
         NEW i \in InProgress'
  PROVE  Attended(i)'
<1>1. /\ w \in InFlight /\ seen' = seen /\ InFlight' = InFlight
      /\ \A v \in Workers \ {w} : pool'[v] = pool[v]
      /\ Loses(w) \/ Opens(w) \/ Works(w) \/ Decides(w)
  BY WorkerRows
<1>2. InFlight \subseteq Workers /\ \A j \in DOMAIN rows : rows[j] \in Rows /\ j # 0
  BY RowsTyped DEF InFlight, IInv
<1>3. i \in DOMAIN rows' /\ rows'[i].status = "in_progress"
  BY DEF InProgress
\* A row w does not own keeps its thread; the one it owns keeps w.
<1>4. ASSUME i \in InProgress,
             pool[w].row = i => /\ pool'[w].row = i
                                /\ pool'[w].pc # "done" \/ pool'[w].result = "permanent"
      PROVE  Attended(i)'
  <2>1. Attended(i)
    BY <1>4
  <2>2. CASE "permanent" \in seen
    BY <1>1, <2>2 DEF Attended
  <2>3. ASSUME NEW v \in InFlight, pool[v].row = i,
               pool[v].pc # "done" \/ pool[v].result = "permanent"
        PROVE  Attended(i)'
    <3>1. pool'[v].row = i /\ (pool'[v].pc # "done" \/ pool'[v].result = "permanent")
      BY <1>1, <1>2, <1>4, <2>3
    <3> QED
      BY <1>1, <3>1 DEF Attended
  <2> QED
    BY <2>1, <2>2, <2>3 DEF Attended
<1>5. CASE Loses(w)
  <2>1. rows' = rows /\ pool'[w].row = pool[w].row
    BY <1>5 DEF Loses
  <2>2. i \in InProgress /\ i # 0
    BY <1>2, <1>3, <2>1 DEF InProgress
  <2>3. pool[w].row = i => pool'[w].result = "permanent"
    BY <1>5, <2>2, LossIsReported
  <2> QED
    BY <1>4, <2>1, <2>2, <2>3
<1>6. CASE Opens(w)
  <2>1. CASE i = Len(rows) + 1
    BY <1>1, <1>6, <2>1 DEF Opens, Attended
  <2>2. CASE i # Len(rows) + 1
    <3>1. i \in InProgress
      BY <1>3, <1>6, <2>2 DEF Opens, InProgress
    <3>2. pool[w].row # i
      BY <1>1, <1>2, <1>6, <3>1 DEF Opens, Own, ThreadsOwnRows, InProgress
    <3> QED
      BY <1>4, <3>1, <3>2
  <2> QED
    BY <2>1, <2>2
<1>7. CASE Works(w)
  <2>1. /\ pool[w].row \in DOMAIN rows /\ DOMAIN rows' = DOMAIN rows
        /\ rows'[pool[w].row].status = rows[pool[w].row].status
        /\ \A j \in DOMAIN rows \ {pool[w].row} : rows'[j] = rows[j]
        /\ pool'[w].row = pool[w].row /\ pool'[w].pc = "rolling"
    BY <1>2, <1>7, RowWork DEF Works, Changed
  <2>2. i \in InProgress
    BY <1>3, <2>1 DEF InProgress
  <2> QED
    BY <1>4, <2>1, <2>2
<1>8. CASE Decides(w)
  <2>1. PICK st \in {"candidate_success", "failed", "interrupted"},
             b \in Results \cup {NoPurchase} :
               Changed(pool[w].row, [rows[pool[w].row] EXCEPT !.status = st, !.result = b])
    BY <1>8 DEF Decides
  <2>2. /\ pool[w].row \in DOMAIN rows /\ DOMAIN rows' = DOMAIN rows
        /\ rows'[pool[w].row].status = st
        /\ \A j \in DOMAIN rows \ {pool[w].row} : rows'[j] = rows[j]
    BY <1>2, <2>1, RowOutcome DEF Changed
  <2>3. i # pool[w].row
    BY <1>3, <2>2
  <2>4. i \in InProgress
    BY <1>3, <2>2, <2>3 DEF InProgress
  <2> QED
    BY <1>4, <2>3, <2>4
<1> QED
  BY <1>1, <1>5, <1>6, <1>7, <1>8

\* The main thread makes no row in progress.
LEMMA MainStartsNothing ==
  ASSUME IInv, Own, [Next]_vars
  PROVE  (\E w \in Workers : Worker(w)) \/ InProgress' \subseteq InProgress
<1> USE DEF FinalStatuses, GenuineStatuses, RejectStatuses, InfraStatuses
<1>1. TypeOK /\ \A i \in DOMAIN rows : rows[i] \in Rows
  BY RowsTyped DEF IInv
<1>2. \/ \E w \in Workers : Worker(w)
      \/ Applies
      \/ Publishes
      \/ Boots
      \/ Keeps
  BY OwnStep
<1>3. CASE Applies
  <2>0. PICK n : n = NextRow
    OBVIOUS
  <2>1. /\ n \in DOMAIN rows /\ Changed(n, [rows[n] EXCEPT !.status = Verdict(n)])
        /\ rows[n].status # "in_progress"
    BY <1>3, <2>0 DEF Applies
  <2>2. rows'[n].status = Verdict(n) /\ Verdict(n) # "in_progress"
    BY <1>1, <2>1, RowStatus, VerdictIsFinal DEF Changed
  <2> QED
    BY <2>1, <2>2 DEF Changed, InProgress
<1>4. CASE Publishes
  <2>0. PICK n : n = NextRow
    OBVIOUS
  <2>1. /\ n \in DOMAIN rows /\ Changed(n, [rows[n] EXCEPT !.files = @ + 1])
    BY <1>4, <2>0 DEF Publishes
  <2>2. rows'[n].status = rows[n].status
    BY <1>1, <2>1, RowFiles DEF Changed
  <2> QED
    BY <2>1, <2>2 DEF Changed, InProgress
<1>5. CASE Boots
  <2> SUFFICES ASSUME NEW i \in InProgress' PROVE i \in InProgress
    OBVIOUS
  <2>1. i \in DOMAIN rows /\ rows'[i].status = "in_progress"
    BY <1>5 DEF Boots, InProgress
  <2>2. CASE rows[i].status # "in_progress"
    <3>1. rows'[i] = rows[i]
      BY <1>5, <2>1, <2>2 DEF Boots
    <3> QED
      BY <2>1, <2>2, <3>1
  <2> QED
    BY <2>1, <2>2 DEF InProgress
<1>6. CASE Keeps
  BY <1>6 DEF Keeps, InProgress
<1> QED
  BY <1>2, <1>3, <1>4, <1>5, <1>6

LEMMA BootLeavesNone ==
  ASSUME IInv, Boots
  PROVE  InProgress' = {}
<1> SUFFICES ASSUME NEW i \in InProgress' PROVE FALSE
  OBVIOUS
<1>1. i \in DOMAIN rows /\ rows'[i].status = "in_progress" /\ rows[i] \in Rows
  BY RowsTyped DEF Boots, InProgress, IInv
<1>2. CASE rows[i].status = "in_progress"
  <2> DEFINE n == [rows[i] EXCEPT !.status = "interrupted"]
  <2>1. rows'[i] = n
    BY <1>1, <1>2 DEF Boots
  <2>2. n.status = "interrupted"
    BY <1>1, RowStatus
  <2> HIDE DEF n
  <2> QED
    BY <1>1, <2>1, <2>2
<1>3. CASE rows[i].status # "in_progress"
  <2>1. rows'[i] = rows[i]
    BY <1>1, <1>3 DEF Boots
  <2> QED
    BY <1>1, <1>3, <2>1
<1> QED
  BY <1>2, <1>3

LEMMA DrainedStep ==
  ASSUME Sched, Drained, [Next]_vars
  PROVE  Drained'
<1>1. IInv /\ Own /\ Steps
  BY StepKinds DEF Sched
<1>2. EligibleStopIsDrained'
  <2> SUFFICES ASSUME pc' = "down", report'.eligible
               PROVE  \A i \in DOMAIN rows' : rows'[i].status # "in_progress"
    BY DEF EligibleStopIsDrained
  <2>1. CASE UNCHANGED vars
    BY <2>1 DEF vars, Drained, EligibleStopIsDrained
  <2>2. CASE /\ Finish /\ InFlight = {} /\ pc = "dispatch" /\ stage # "repair"
             /\ report'.eligible => auto_resume_eligible
             /\ \E c : Ends(c)
    <3>1. "permanent" \notin seen /\ rows' = rows
      BY <2>2 DEF auto_resume_eligible, Ends
    <3> QED
      BY <2>2, <3>1 DEF Drained, Attended, InProgress
  <2> QED
    BY <2>1, <2>2, Endings
<1>3. ASSUME pc' # "down", stage' # "repair", NEW i \in InProgress'
      PROVE  Attended(i)'
  <2>1. CASE \E w \in Workers : Worker(w)
    <3>1. PICK w \in Workers : Worker(w)
      BY <2>1
    <3>2. pc # "down" /\ stage # "repair"
      BY <1>1, <1>3, <3>1, WorkerRows
    <3> QED
      BY <1>1, <1>3, <3>1, <3>2, AttendedByThreads DEF Drained
  <2>2. CASE Boots
    BY <1>1, <1>3, <2>2, BootLeavesNone
  <2>3. ASSUME ~(\E w \in Workers : Worker(w)), pc # "down" /\ stage # "repair",
               seen \subseteq seen',
               \A w \in InFlight : \/ w \in InFlight' /\ pool'[w] = pool[w]
                                   \/ pool[w].pc = "done" /\
                                        (pool[w].result = "permanent" => "permanent" \in seen')
        PROVE  Attended(i)'
    <3>1. i \in InProgress
      BY <1>1, <1>3, <2>3, MainStartsNothing
    <3>2. Attended(i)
      BY <2>3, <3>1 DEF Drained
    <3> QED
      BY <2>3, <3>2 DEF Attended
  <2>4. CASE Applies \/ Publishes
    <3>1. /\ seen' = seen /\ InFlight' = InFlight /\ pool' = pool /\ stage' = stage
          /\ pc # "down"
      BY <2>4 DEF Applies, Publishes, InFlight
    <3> QED
      BY <1>3, <2>1, <2>3, <3>1
  <2>5. CASE ReconcileDone \/ Selects \/ WithdrawReservation \/ MainFault \/ Sigint
    <3>1. seen' = seen /\ pool' = pool /\ InFlight' = InFlight /\ pc # "down"
          /\ stage # "repair"
      <4>1. CASE ReconcileDone
        BY <4>1 DEF ReconcileDone, InFlight
      <4>2. CASE Selects
        <5>1. /\ seen' = seen /\ pool' = pool /\ pc \in {"dispatch", "next_work"}
              /\ stage' = stage
          BY <4>2 DEF Selects, Idles, Reserves, CallsNextWork
        <5> QED
          BY <1>3, <5>1 DEF InFlight
      <4>3. CASE WithdrawReservation
        BY <1>3, <4>3 DEF WithdrawReservation, InFlight
      <4>4. CASE MainFault
        BY <4>4 DEF MainFault, InFlight
      <4>5. CASE Sigint
        BY <1>3, <4>5 DEF Sigint, InFlight
      <4> QED
        BY <2>5, <4>1, <4>2, <4>3, <4>4, <4>5
    <3> QED
      BY <2>1, <2>3, <3>1
  <2>6. CASE \E w \in Workers : Submits(w)
    <3>1. PICK w \in Workers : Submits(w)
      BY <2>6
    <3>2. /\ seen' = seen /\ pc = "submit" /\ stage' = stage
          /\ \A v \in InFlight : v \in InFlight' /\ pool'[v] = pool[v]
      BY <3>1 DEF Submits, InFlight
    <3> QED
      BY <1>3, <2>1, <2>3, <3>2
  <2>7. CASE Collect
    <3>1. /\ Waits /\ InFlight' = InFlight \ Finished
          /\ \A w \in InFlight \ Finished : pool'[w] = pool[w]
          /\ seen' = seen \cup ({pool[w].result : w \in Finished}
                                  \cap {"recoverable", "permanent"})
      BY <1>1, <2>7, CollectView DEF KeepsFlights
    <3>2. pc # "down" /\ stage # "repair"
      BY <3>1 DEF Waits, Sched, Serial
    <3>3. \A w \in InFlight : \/ w \in InFlight' /\ pool'[w] = pool[w]
                              \/ pool[w].pc = "done" /\
                                   (pool[w].result = "permanent" => "permanent" \in seen')
      BY <3>1 DEF Finished
    <3> QED
      BY <2>1, <2>3, <3>1, <3>2, <3>3
  <2>8. CASE Ends(saved) \/ Ends(mem) \/ Joins
    BY <1>3, <2>8 DEF Ends, Joins
  <2>9. CASE UNCHANGED vars
    <3>1. seen' = seen /\ pool' = pool /\ InFlight' = InFlight /\ pc' = pc /\ stage' = stage
      BY <2>9 DEF vars, InFlight
    <3> QED
      BY <1>3, <2>1, <2>3, <3>1
  <2> QED
    BY <1>1, <2>1, <2>2, <2>4, <2>5, <2>6, <2>7, <2>8, <2>9 DEF Steps
<1> QED
  BY <1>2, <1>3 DEF Drained

\* The automatic resume follows only runs whose every attempt reached a final status.
THEOREM ResumesAreDrained == Spec => []EligibleStopIsDrained
<1>1. Init => Sched /\ Drained
  <2> SUFFICES ASSUME Init PROVE Drained
    BY SchedInit
  <2>1. DOMAIN rows = {}
    BY DEF Init
  <2> QED
    BY <2>1 DEF Drained, InProgress, EligibleStopIsDrained
<1>2. Sched /\ Drained /\ [Next]_vars => Sched' /\ Drained'
  BY SchedStep, DrainedStep
<1>3. Drained => EligibleStopIsDrained
  BY DEF Drained
<1> QED
  BY <1>1, <1>2, <1>3, PTL DEF Spec

----------------------------------------------------------------------------
(* Coverage.                                                               *)

\* Task t used up Pass A without a success, and the ledger knows.
Spent(t) ==
  /\ Cardinality(Genuine(t, {"A"})) = FirstCap
  /\ Genuine(t, {"A"}) \subseteq saved.processed
  /\ Hopes(t, {"A"}) = {}

\* Only spent tasks were replaced, and a slot is given up with its reserve used up.
SlotEarned(s) ==
  /\ mem.current[s] = PrimaryTask[s] \/ mem.current[s] \in ReserveTasks(Stratum[s])
  /\ \A t \in Known(mem) : mem.slotOf[t] = s /\ t # mem.current[s] => Spent(t)
  /\ s \in mem.exhausted =>
       /\ s \notin mem.fulfilled
       /\ \A t \in Tasks : t = mem.current[s] => Spent(t)
       /\ ReserveTasks(Stratum[s]) \subseteq Known(mem)

Earned ==
  /\ saved.exhausted \subseteq mem.exhausted /\ saved.fulfilled \subseteq mem.fulfilled
  /\ \A s \in Slots : SlotEarned(s)

LEMMA SpentKept ==
  ASSUME Sched, Budgets, [Next]_vars, NEW t, Spent(t)
  PROVE  Spent(t)'
<1>1. IInv /\ Own /\ saved.processed \subseteq saved'.processed
  BY SavedGrows DEF Sched
<1>2. Genuine(t, {"A"})' = Genuine(t, {"A"}) /\ Hopes(t, {"A"})' \subseteq Hopes(t, {"A"})
  <2>1. CASE ChargesNothing
    BY <2>1 DEF ChargesNothing
  <2>2. ASSUME NEW w \in Workers, NEW r \in Nat, Charges(w, r)
        PROVE  /\ Genuine(t, {"A"})' = Genuine(t, {"A"})
               /\ Hopes(t, {"A"})' \subseteq Hopes(t, {"A"})
    <3>1. r \notin Genuine(t, {"A"})'
      <4> SUFFICES ASSUME r \in Genuine(t, {"A"})' PROVE FALSE
        OBVIOUS
      <4>1. t = pool[w].item.task /\ pool[w].item.pass = "A" /\ w \in InFlight
            /\ pool[w].pc # "done"
        BY <2>2 DEF Charges
      <4>2. t \in Tasks
        BY <1>1, <4>1 DEF IInv, TypeOK, InFlight, Threads, Items
      <4>3. Room(t, "A")
        BY <4>1, <4>2 DEF Budgets, Passes
      <4>4. Cardinality(Genuine(t, {"A"})) < FirstCap /\ FirstCap \in Nat
        BY <4>3, BudgetAssumption DEF Room
      <4> QED
        BY <4>4 DEF Spent
    <3>2. Hopes(t, {"A"})' \subseteq Genuine(t, {"A"})'
      BY DEF Hopes
    <3> QED
      BY <2>2, <3>1, <3>2 DEF Charges
  <2> QED
    BY <1>1, <2>1, <2>2, CountedStep
<1> QED
  BY <1>1, <1>2 DEF Spent

LEMMA SpentNoSuccess ==
  ASSUME Sched, NEW t \in Tasks, Spent(t)
  PROVE  t \notin mem.success /\ t \notin saved.success
<1>1. \A i \in Genuine(t, {"A"}) : i \notin AcceptedRows
  BY DEF Spent, Hopes, AcceptedRows
<1> QED
  BY <1>1 DEF Sched, Counts, ExactlyOnce, CountsOf

\* A slot that is open without a retry left.
LEMMA UsedUp ==
  ASSUME Sched, Budgets, CallsNextWork, NEW s \in OpenSlots(mem), ~HasRetry(mem, s)
  PROVE  Spent(mem.current[s])
<1> DEFINE t == mem.current[s]
<1>1. IInv /\ TypeOK /\ mem \in States /\ s \in Slots /\ t \notin mem.active
      /\ s \notin mem.fulfilled
  BY DEF Sched, IInv, TypeOK, OpenSlots
<1>2. t \in Tasks /\ mem.slotOf[t] = s
  BY <1>1, Fields DEF IInv, PlacesAgree
<1> HIDE DEF t
<1>3. /\ \A P : Genuine(t, P) \subseteq mem.processed
      /\ \A P : Hopes(t, P) = mem.processed \cap AcceptedRows \cap Genuine(t, P)
      /\ SameCounts(mem, saved)
  BY <1>1, IdleIsCounted
<1>4. t \notin mem.success
  BY <1>1, <1>2 DEF Sched, Counts, CountedRest
<1>5. /\ mem.first[t] = Cardinality(Genuine(t, {"A"}))
      /\ Hopes(t, {"A"}) = {}
  <2>1. mem.processed \cap Genuine(t, {"A"}) = Genuine(t, {"A"})
    BY <1>3
  <2> QED
    BY <1>2, <1>3, <1>4, <2>1 DEF Sched, Counts, ExactlyOnce, CountsOf
<1>6. Cardinality(Genuine(t, {"A"})) = FirstCap
  <2>1. ~(mem.first[t] < FirstCap)
    BY DEF HasRetry, t
  <2>2. Cardinality(Genuine(t, {"A"})) <= FirstCap
    BY <1>2 DEF Budgets, CapsHold
  <2>3. Cardinality(Genuine(t, {"A"})) \in Nat /\ FirstCap \in Nat
    BY <1>1, GenuineFacts, BudgetAssumption
  <2> QED
    BY <1>5, <2>1, <2>2, <2>3
<1>7. Spent(t)
  BY <1>3, <1>5, <1>6 DEF Spent, SameCounts
<1> QED
  BY <1>7 DEF t

LEMMA GivenUpIsEarned ==
  ASSUME Sched, Budgets, CallsNextWork, NEW s \in GivenUp(mem)
  PROVE  /\ s \in Slots /\ s \notin mem.fulfilled /\ Spent(mem.current[s])
         /\ ReserveTasks(Stratum[s]) \subseteq Known(mem)
<1>1. s \in OpenSlots(mem) /\ ~HasRetry(mem, s) /\ UnusedReserve(mem, s) = {}
  BY DEF GivenUp, Servable
<1>2. ReserveTasks(Stratum[s]) \subseteq Known(mem)
  BY <1>1 DEF UnusedReserve, ReserveTasks
<1> QED
  BY <1>1, <1>2, UsedUp DEF OpenSlots

\* The places stay, and nothing is given up or fulfilled.
LEMMA EarnedCarried ==
  ASSUME Sched, Budgets, Earned, [Next]_vars,
         mem'.current = mem.current, mem'.slotOf = mem.slotOf,
         mem'.exhausted \subseteq mem.exhausted, mem'.fulfilled \subseteq mem.fulfilled,
         saved'.exhausted \subseteq mem'.exhausted, saved'.fulfilled \subseteq mem'.fulfilled
  PROVE  Earned'
<1>1. \A t : Spent(t) => Spent(t)'
  BY SpentKept
<1>2. Known(mem') = Known(mem)
  BY DEF Known
<1>3. ASSUME NEW s \in Slots PROVE SlotEarned(s)'
  <2>1. SlotEarned(s)
    BY DEF Earned
  <2> QED
    BY <1>1, <1>2, <2>1 DEF SlotEarned
<1> QED
  BY <1>3 DEF Earned

LEMMA EarnedIdles ==
  ASSUME Sched, Budgets, Earned, [Next]_vars, Idles
  PROVE  Earned'
<1>1. \A t : Spent(t) => Spent(t)'
  BY SpentKept
<1>2. /\ CallsNextWork /\ mem'.current = mem.current /\ mem'.slotOf = mem.slotOf
      /\ mem'.fulfilled = mem.fulfilled /\ saved' = saved
      /\ mem.exhausted \subseteq mem'.exhausted
      /\ mem'.exhausted \subseteq mem.exhausted \cup GivenUp(mem)
  BY DEF Idles, SameCounts
<1>3. Known(mem') = Known(mem)
  BY <1>2 DEF Known
<1>4. ASSUME NEW s \in Slots PROVE SlotEarned(s)'
  <2>1. SlotEarned(s)
    BY DEF Earned
  <2>2. s \in GivenUp(mem) => /\ s \notin mem.fulfilled /\ Spent(mem.current[s])
                              /\ ReserveTasks(Stratum[s]) \subseteq Known(mem)
    BY <1>2, GivenUpIsEarned
  <2>3. s \in mem'.exhausted =>
          /\ s \notin mem.fulfilled
          /\ \A t \in Tasks : t = mem.current[s] => Spent(t)
          /\ ReserveTasks(Stratum[s]) \subseteq Known(mem)
    BY <1>2, <2>1, <2>2 DEF SlotEarned
  <2>4. s \in mem'.exhausted => \A t \in Tasks : t = mem.current[s] => Spent(t)'
    BY <1>1, <2>3
  <2> QED
    BY <1>1, <1>2, <1>3, <2>1, <2>3, <2>4 DEF SlotEarned
<1> QED
  BY <1>2, <1>4 DEF Earned

LEMMA EarnedReserves ==
  ASSUME Sched, Budgets, Earned, [Next]_vars, NEW t \in Tasks, Reserves(t), FromA(t)
  PROVE  Earned'
<1>1. \A u : Spent(u) => Spent(u)'
  BY SpentKept
<1>2. /\ CallsNextWork /\ saved' = mem' /\ mem'.fulfilled = mem.fulfilled
      /\ mem'.exhausted = mem.exhausted \cup GivenUp(mem) /\ mem \in States
  BY DEF Reserves, FromA, SameCounts, Sched, IInv, TypeOK
<1>3. PICK s \in Servable(mem) :
        /\ s \notin mem.fulfilled \cup mem.exhausted \cup GivenUp(mem)
        /\ \/ mem'.slotOf = mem.slotOf /\ mem'.current = mem.current
           \/ /\ ~HasRetry(mem, s) /\ t \in ReserveTasks(Stratum[s]) \ Known(mem)
              /\ mem'.slotOf = [mem.slotOf EXCEPT ![t] = s]
              /\ mem'.current = [mem.current EXCEPT ![s] = t]
  BY DEF FromA
<1>4. s \in OpenSlots(mem) /\ s \in Slots
  BY DEF Servable, OpenSlots
<1>5. \A x \in GivenUp(mem) :
        /\ x \in Slots /\ x \notin mem.fulfilled /\ Spent(mem.current[x])
        /\ ReserveTasks(Stratum[x]) \subseteq Known(mem)
  BY <1>2, GivenUpIsEarned
<1>6. ASSUME NEW x \in Slots, x \in mem'.exhausted
      PROVE  /\ x # s /\ x \notin mem.fulfilled
             /\ \A u \in Tasks : u = mem.current[x] => Spent(u)
             /\ ReserveTasks(Stratum[x]) \subseteq Known(mem)
  BY <1>2, <1>3, <1>5, <1>6 DEF Earned, SlotEarned
<1>7. CASE mem'.slotOf = mem.slotOf /\ mem'.current = mem.current
  <2>1. Known(mem') = Known(mem)
    BY <1>7 DEF Known
  <2>2. ASSUME NEW x \in Slots PROVE SlotEarned(x)'
    <3>1. SlotEarned(x)
      BY DEF Earned
    <3> QED
      BY <1>1, <1>2, <1>6, <1>7, <2>1, <3>1 DEF SlotEarned
  <2> QED
    BY <1>2, <2>2 DEF Earned
<1>8. CASE /\ ~HasRetry(mem, s) /\ t \in ReserveTasks(Stratum[s]) \ Known(mem)
           /\ mem'.slotOf = [mem.slotOf EXCEPT ![t] = s]
           /\ mem'.current = [mem.current EXCEPT ![s] = t]
  <2>1. Spent(mem.current[s])
    BY <1>2, <1>4, <1>8, UsedUp
  <2>2. /\ mem'.slotOf[t] = s /\ \A u \in Tasks \ {t} : mem'.slotOf[u] = mem.slotOf[u]
        /\ mem'.current[s] = t /\ \A x \in Slots \ {s} : mem'.current[x] = mem.current[x]
    BY <1>2, <1>4, <1>8, Fields
  <2>3. s # NoSlot
    BY <1>4, ShapeAssumption DEF NoSlot
  <2>4. Known(mem') = Known(mem) \cup {t}
    BY <2>2, <2>3 DEF Known
  <2>5. ASSUME NEW x \in Slots PROVE SlotEarned(x)'
    <3>1. SlotEarned(x)
      BY DEF Earned
    <3>2. mem'.current[x] = PrimaryTask[x] \/ mem'.current[x] \in ReserveTasks(Stratum[x])
      BY <1>8, <2>2, <3>1 DEF SlotEarned
    <3>3. ASSUME NEW u \in Known(mem'), mem'.slotOf[u] = x, u # mem'.current[x]
          PROVE  Spent(u)'
      <4>1. u # t /\ u \in Known(mem) /\ mem.slotOf[u] = x
        <5>1. u # t
          BY <2>2, <3>3
        <5>2. u \in Known(mem) /\ u \in Tasks
          BY <2>4, <5>1 DEF Known
        <5> QED
          BY <2>2, <3>3, <5>1, <5>2
      <4>2. CASE u = mem.current[x]
        <5>1. x = s
          BY <2>2, <3>3, <4>2
        <5>2. Spent(u)
          BY <2>1, <4>2, <5>1
        <5> QED
          BY <1>1, <5>2
      <4>3. CASE u # mem.current[x]
        <5>1. Spent(u)
          BY <3>1, <4>1, <4>3 DEF SlotEarned
        <5> QED
          BY <1>1, <5>1
      <4> QED
        BY <4>2, <4>3
    <3>4. ASSUME x \in mem'.exhausted
          PROVE  /\ x \notin mem'.fulfilled
                 /\ \A u \in Tasks : u = mem'.current[x] => Spent(u)'
                 /\ ReserveTasks(Stratum[x]) \subseteq Known(mem')
      <4>1. /\ x # s /\ x \notin mem.fulfilled
            /\ \A u \in Tasks : u = mem.current[x] => Spent(u)
            /\ ReserveTasks(Stratum[x]) \subseteq Known(mem)
        BY <1>6, <3>4
      <4> QED
        BY <1>1, <1>2, <2>2, <2>4, <4>1
    <3> QED
      BY <3>2, <3>3, <3>4 DEF SlotEarned
  <2> QED
    BY <1>2, <2>5 DEF Earned
<1> QED
  BY <1>3, <1>7, <1>8

LEMMA EarnedApplies ==
  ASSUME Sched, Budgets, Earned, [Next]_vars, Applies
  PROVE  Earned'
<1>0. PICK n : n = NextRow
  OBVIOUS
<1>1. IInv /\ Own /\ TypeOK /\ mem \in States
  BY DEF Sched, IInv, TypeOK
<1>2. /\ n \in Pending /\ n \in DOMAIN rows /\ n \in Nat /\ rows[n].status # "in_progress"
      /\ mem' = apply_attempt(mem, n, rows[n], Verdict(n)) /\ saved' = saved
  BY <1>0 DEF Applies
<1>3. rows[n] \in Rows /\ Verdict(n) \in RowStatuses
  BY <1>1, <1>2, RowsTyped, VerdictIsStatus
<1> DEFINE a == apply_attempt(mem, n, rows[n], Verdict(n))
           news == Verdict(n) = "accepted" /\ rows[n].pass = "A"
<1>4. /\ a.current = mem.current /\ a.slotOf = mem.slotOf /\ a.exhausted = mem.exhausted
      /\ news => a.fulfilled = mem.fulfilled \cup {rows[n].slot}
      /\ ~news => a.fulfilled = mem.fulfilled
  BY <1>1, <1>2, <1>3, ApplyCounts
<1> HIDE DEF a
<1>5. mem' = a
  BY <1>2 DEF a
<1>6. CASE ~news
  BY <1>2, <1>4, <1>5, <1>6, EarnedCarried DEF Earned
<1>7. CASE news
  <2>1. \A u : Spent(u) => Spent(u)'
    BY SpentKept
  <2>2. Known(mem') = Known(mem)
    BY <1>4, <1>5 DEF Known
  <2>3. ~ Spent(rows[n].task)
    <3>1. rows[n].status \in {"candidate_success", "accepted"}
      BY <1>1, <1>2, <1>7, VerdictIsFinal
    <3>2. n \in Genuine(rows[n].task, {"A"})
      BY <1>2, <1>7, <3>1 DEF Genuine, GenuineStatuses
    <3>3. n \notin saved.processed
      BY <1>1, <1>2 DEF Pending, Own, CountedAreFinal
    <3> QED
      BY <3>2, <3>3 DEF Spent
  <2>4. rows[n].slot \notin mem.exhausted
    <3>1. mem.slotOf[rows[n].task] = rows[n].slot /\ rows[n].slot \in Slots
          /\ rows[n].task \in Tasks
      BY <1>1, <1>2, <1>3 DEF IInv, RowsPlaced, Rows
    <3>2. rows[n].slot # NoSlot
      BY <3>1, ShapeAssumption DEF NoSlot
    <3>3. rows[n].task \in Known(mem)
      BY <3>1, <3>2 DEF Known
    <3>4. rows[n].task = mem.current[rows[n].slot]
      BY <2>3, <3>1, <3>3 DEF Earned, SlotEarned
    <3> QED
      BY <2>3, <3>1, <3>4 DEF Earned, SlotEarned
  <2>5. ASSUME NEW s \in Slots PROVE SlotEarned(s)'
    <3>1. SlotEarned(s)
      BY DEF Earned
    <3>2. s \in mem.exhausted => s \notin mem'.fulfilled
      BY <1>4, <1>5, <1>7, <2>4, <3>1 DEF SlotEarned
    <3> QED
      BY <1>4, <1>5, <2>1, <2>2, <3>1, <3>2 DEF SlotEarned
  <2> QED
    BY <1>2, <1>4, <1>5, <1>7, <2>5 DEF Earned
<1> QED
  BY <1>6, <1>7

LEMMA EarnedStep ==
  ASSUME Sched, Budgets, Earned, [Next]_vars
  PROVE  Earned'
<1> USE DEF Agree, SameCounts
<1>1. IInv /\ Own /\ Steps
  BY StepKinds DEF Sched
<1>2. /\ saved.slotOf = mem.slotOf /\ saved.current = mem.current
      /\ saved.exhausted \subseteq mem.exhausted /\ saved.fulfilled \subseteq mem.fulfilled
  BY <1>1 DEF IInv, PlacesAgree, Earned
<1>3. CASE \E w \in Workers : Worker(w)
  <2>1. mem' = mem /\ saved' = saved
    BY <1>1, <1>3, WorkerRows
  <2> QED
    BY <1>2, <2>1, EarnedCarried
<1>4. CASE Applies
  BY <1>4, EarnedApplies
<1>5. CASE Publishes \/ (\E w \in Workers : Submits(w)) \/ MainFault \/ Sigint \/ UNCHANGED vars
  <2>1. mem' = mem /\ saved' = saved
    BY <1>5 DEF Publishes, Submits, MainFault, Sigint, ledger, vars
  <2> QED
    BY <1>2, <2>1, EarnedCarried
<1>6. CASE Boots
  <2>1. /\ mem'.current = mem.current /\ mem'.slotOf = mem.slotOf
        /\ mem'.exhausted = saved.exhausted /\ mem'.fulfilled = saved.fulfilled
        /\ saved'.exhausted = saved.exhausted /\ saved'.fulfilled = saved.fulfilled
    BY <1>2, <1>6 DEF Boots
  <2> QED
    BY <1>2, <2>1, EarnedCarried
<1>7. CASE ReconcileDone
  <2>1. mem' = mem /\ saved' = mem
    BY <1>7 DEF ReconcileDone
  <2> QED
    BY <2>1, EarnedCarried
<1>8. CASE Idles
  BY <1>8, EarnedIdles
<1>9. ASSUME NEW t \in Tasks, Reserves(t), FromA(t) \/ FromB(t) \/ FromC(t) PROVE Earned'
  <2>1. CASE FromA(t)
    BY <1>9, <2>1, EarnedReserves
  <2>2. CASE FromB(t) \/ FromC(t)
    <3>1. /\ mem'.current = mem.current /\ mem'.slotOf = mem.slotOf
          /\ mem'.exhausted = mem.exhausted /\ mem'.fulfilled = mem.fulfilled /\ saved' = mem'
      BY <1>9, <2>2 DEF FromB, FromC, Reserves
    <3> QED
      BY <3>1, EarnedCarried
  <2> QED
    BY <1>9, <2>1, <2>2
<1>10. CASE KeepsFlights(InFlight) \/ KeepsFlights(InFlight \ Finished)
  <2>1. /\ mem'.current = mem.current /\ mem'.slotOf = mem.slotOf
        /\ mem'.exhausted = mem.exhausted /\ mem'.fulfilled = mem.fulfilled /\ saved' = mem'
    BY <1>10 DEF KeepsFlights
  <2> QED
    BY <2>1, EarnedCarried
<1>11. CASE Ends(saved) \/ Ends(mem)
  <2>1. /\ mem'.current = mem.current /\ mem'.slotOf = mem.slotOf
        /\ mem'.exhausted \subseteq mem.exhausted /\ mem'.fulfilled \subseteq mem.fulfilled
        /\ saved' = mem'
    BY <1>2, <1>11 DEF Ends
  <2> QED
    BY <2>1, EarnedCarried
<1>12. CASE Joins
  <2>1. /\ mem'.current = mem.current /\ mem'.slotOf = mem.slotOf
        /\ mem'.exhausted = mem.exhausted /\ mem'.fulfilled = mem.fulfilled /\ saved' = saved
    BY <1>12 DEF Joins, ledger
  <2> QED
    BY <1>2, <2>1, EarnedCarried
<1> QED
  BY <1>1, <1>3, <1>4, <1>5, <1>6, <1>7, <1>8, <1>9, <1>10, <1>11, <1>12 DEF Steps, Selects

LEMMA EarnedInit == Init => Earned
<1> SUFFICES ASSUME Init PROVE Earned
  OBVIOUS
<1>1. /\ mem = initial_state /\ saved = initial_state /\ mem \in States
  BY InitialState DEF Init
<1>2. /\ mem.exhausted = {} /\ mem.fulfilled = {} /\ mem.current = PrimaryTask
      /\ saved.exhausted = {} /\ saved.fulfilled = {}
      /\ mem.slotOf = [t \in Tasks |-> IF \E s \in Slots : PrimaryTask[s] = t
                                       THEN CHOOSE s \in Slots : PrimaryTask[s] = t
                                       ELSE NoSlot]
  BY <1>1 DEF initial_state
<1>3. ASSUME NEW t \in Known(mem) PROVE t = mem.current[mem.slotOf[t]]
  <2>1. t \in Tasks /\ mem.slotOf[t] # NoSlot
    BY DEF Known
  <2>2. \E s \in Slots : PrimaryTask[s] = t
    BY <1>2, <2>1
  <2>3. mem.slotOf[t] = CHOOSE s \in Slots : PrimaryTask[s] = t
    BY <1>2, <2>1, <2>2
  <2>4. PrimaryTask[mem.slotOf[t]] = t
    BY <2>2, <2>3
  <2> QED
    BY <1>2, <2>4
<1> QED
  BY <1>2, <1>3 DEF Earned, SlotEarned

\* A slot is covered exactly when its task has a counted accepted Pass A row; it passes
\* to a reserve task of its stratum, or is given up, only when the task it had used its
\* Pass A budget without a success, whatever restarts come between.
THEOREM CoverageMovesWhenEarned == Spec => []CoverageIsEarned
<1>1. Init => Sched /\ Budgets /\ Earned
  BY SchedInit, BudgetsInit, EarnedInit
<1>2. Sched /\ Budgets /\ Earned /\ [Next]_vars => Sched' /\ Budgets' /\ Earned'
  BY SchedStep, BudgetsStep, EarnedStep
<1>3. Sched /\ Earned => CoverageIsEarned
  <2> SUFFICES ASSUME Sched, Earned, NEW s \in Slots
               PROVE  /\ \/ mem.current[s] = PrimaryTask[s]
                         \/ mem.current[s] \in ReserveTasks(Stratum[s])
                      /\ mem.slotOf[mem.current[s]] = s
                      /\ \A t \in Known(mem) : mem.slotOf[t] = s /\ t # mem.current[s] =>
                            t \notin mem.success /\ Cardinality(Genuine(t, {"A"})) = FirstCap
                      /\ s \in mem.fulfilled <=>
                            mem.processed \cap AcceptedRows
                                          \cap Genuine(mem.current[s], {"A"}) # {}
                      /\ s \in mem.exhausted =>
                            /\ s \notin mem.fulfilled
                            /\ Cardinality(Genuine(mem.current[s], {"A"})) = FirstCap
                            /\ ReserveTasks(Stratum[s]) \subseteq Known(mem)
    BY DEF CoverageIsEarned
  <2>1. SlotEarned(s) /\ mem \in States /\ IInv
    BY DEF Earned, Sched, IInv, TypeOK
  <2>2. mem.slotOf[mem.current[s]] = s /\ mem.current[s] \in Tasks
    BY <2>1, Fields DEF IInv, PlacesAgree
  <2>3. \A t \in Known(mem) : mem.slotOf[t] = s /\ t # mem.current[s] =>
            t \notin mem.success /\ Cardinality(Genuine(t, {"A"})) = FirstCap
    BY <2>1, SpentNoSuccess DEF SlotEarned, Spent, Known
  <2>4. CountedRest(mem) /\ CountsOf(mem) /\ mem.success \subseteq Tasks
    BY <2>1, Fields DEF Sched, Counts, ExactlyOnce
  <2>5. s \in mem.fulfilled <=> mem.current[s] \in mem.success
    <3>1. ASSUME s \in mem.fulfilled PROVE mem.current[s] \in mem.success
      <4>1. PICK t \in mem.success : mem.slotOf[t] = s
        BY <2>4, <3>1 DEF CountedRest
      <4>2. s # NoSlot
        BY ShapeAssumption DEF NoSlot
      <4>3. t \in Known(mem)
        BY <2>4, <4>1, <4>2 DEF Known
      <4> QED
        BY <2>3, <4>1, <4>3
    <3> QED
      BY <2>2, <2>4, <3>1 DEF CountedRest
  <2>6. mem.current[s] \in mem.success <=>
          mem.processed \cap AcceptedRows \cap Genuine(mem.current[s], {"A"}) # {}
    BY <2>2, <2>4 DEF CountsOf
  <2> QED
    BY <2>1, <2>2, <2>3, <2>5, <2>6 DEF SlotEarned, Spent
<1> QED
  BY <1>1, <1>2, <1>3, PTL DEF Spec

----------------------------------------------------------------------------
(* The quota: what it counts.                                              *)

TasksAt(I) == {rows[i].task : i \in I}

\* The successes the ledger has not counted, and the tasks that have one or may still
\* get one out of a reservation.
Uncounted == (AcceptedRows \cup CandidateRows) \ saved.processed
CountedSuccesses == saved.processed \cap AcceptedRows
Committed == saved.active \cup TasksAt(Uncounted)

Claims == Cardinality(CountedSuccesses) + Cardinality(Committed)

LEMMA DisjointCounts ==
  ASSUME NEW S, IsFiniteSet(S), NEW T, IsFiniteSet(T), S \cap T = {}
  PROVE  /\ IsFiniteSet(S \cup T)
         /\ Cardinality(S \cup T) = Cardinality(S) + Cardinality(T)
         /\ Cardinality(S) \in Nat /\ Cardinality(T) \in Nat
<1>1. Cardinality(S \cap T) = 0
  BY FS_EmptySet
<1>2. /\ IsFiniteSet(S \cup T)
      /\ Cardinality(S \cup T) = Cardinality(S) + Cardinality(T) - Cardinality(S \cap T)
  BY FS_Union
<1>3. Cardinality(S) \in Nat /\ Cardinality(T) \in Nat
  BY FS_CardinalityType
<1> QED
  BY <1>1, <1>2, <1>3

\* Rows of distinct tasks are as many as their tasks.
LEMMA DistinctTasks ==
  ASSUME NEW I, IsFiniteSet(I), \A i, j \in I : rows[i].task = rows[j].task => i = j
  PROVE  IsFiniteSet(TasksAt(I)) /\ Cardinality(TasksAt(I)) = Cardinality(I)
<1> DEFINE g == [i \in I |-> rows[i].task]
<1>1. g \in Bijection(I, TasksAt(I))
  BY DEF TasksAt, Bijection, Injection, Surjection, IsInjective
<1>2. ExistsBijection(I, TasksAt(I))
  BY <1>1 DEF ExistsBijection
<1> QED
  BY <1>2, FS_Bijection

\* Task t serves a slot now.
Serves(t) == mem.slotOf[t] \in Slots /\ mem.current[mem.slotOf[t]] = t

\* Tasks that serve a slot are no more than the slots.
LEMMA ServersFit ==
  ASSUME NEW T, \A t \in T : Serves(t)
  PROVE  IsFiniteSet(T) /\ Cardinality(T) \in Nat /\ Cardinality(T) <= Cardinality(Slots)
<1> DEFINE g == [t \in T |-> mem.slotOf[t]]
<1>1. g \in Injection(T, Slots)
  BY DEF Serves, Injection, IsInjective
<1>2. IsFiniteSet(Slots)
  BY ShapeAssumption
<1> HIDE DEF g
<1> QED
  BY <1>1, <1>2, FS_Injection, FS_CardinalityType

\* A state's reservations are for tasks its pass can still use, and the smoke run
\* never leaves Pass A.
Free(m) ==
  /\ m.pass = "A" => m.active \cap m.success = {}
  /\ m.pass = "B" => m.active \cap m.bDone = {}
  /\ StopAfterA => m.pass = "A"

\* What the memory has reserved, the ledger has; what the memory counted of a task
\* reserved again, the ledger counted; a reserved task serves its slot.
Reserved ==
  /\ mem.active \subseteq saved.active
  /\ \A i \in mem.processed : rows[i].task \in mem.active => i \in saved.processed
  /\ \A t \in saved.active : Serves(t)
  /\ Free(mem) /\ Free(saved)

\* No more successes than the target, whatever the reservations turn into.
Quota == Claims <= Target

\* The successes among the rows.
LEMMA SuccessFacts ==
  ASSUME Sched, Budgets
  PROVE  /\ IsFiniteSet(AcceptedRows) /\ IsFiniteSet(CandidateRows)
         /\ IsFiniteSet(CountedSuccesses) /\ IsFiniteSet(Uncounted)
         /\ AcceptedRows \cup CandidateRows = CountedSuccesses \cup Uncounted
         /\ CountedSuccesses \cap Uncounted = {}
         /\ \A i \in AcceptedRows \cup CandidateRows :
              /\ i \in DOMAIN rows /\ rows[i].task \in Tasks /\ rows[i].pass \in Passes
              /\ i \in Hopes(rows[i].task, {rows[i].pass})
              /\ i \in Genuine(rows[i].task, Passes)
         /\ \A i, j \in Uncounted : rows[i].task = rows[j].task => i = j
         /\ Committed \subseteq Tasks /\ IsFiniteSet(Committed)
<1>1. TypeOK /\ IInv /\ Own /\ saved.active \subseteq Tasks
  BY DEF Sched, IInv, TypeOK, States
<1>2. IsFiniteSet(DOMAIN rows) /\ \A i \in DOMAIN rows : rows[i] \in Rows
  BY <1>1, RowsTyped
<1>3. IsFiniteSet(AcceptedRows) /\ IsFiniteSet(CandidateRows)
  BY <1>2, FS_Subset DEF AcceptedRows, CandidateRows
<1>4. IsFiniteSet(AcceptedRows \cup CandidateRows)
  BY <1>3, FS_Union
<1>5. IsFiniteSet(CountedSuccesses) /\ IsFiniteSet(Uncounted)
  BY <1>3, <1>4, FS_Subset DEF CountedSuccesses, Uncounted
<1>6. \A i \in saved.processed : rows[i].status # "candidate_success"
  BY <1>1 DEF Own, CountedAreFinal, FinalStatuses, GenuineStatuses, InfraStatuses,
              RejectStatuses
<1>7. AcceptedRows \cup CandidateRows = CountedSuccesses \cup Uncounted
  BY <1>6 DEF CountedSuccesses, Uncounted, AcceptedRows, CandidateRows
<1>8. \A i \in AcceptedRows \cup CandidateRows :
        /\ i \in DOMAIN rows /\ rows[i].task \in Tasks /\ rows[i].pass \in Passes
        /\ i \in Hopes(rows[i].task, {rows[i].pass})
        /\ i \in Genuine(rows[i].task, Passes)
  BY <1>2 DEF AcceptedRows, CandidateRows, Rows, Hopes, Genuine, GenuineStatuses
<1>9. ASSUME NEW i \in Uncounted, NEW j \in Uncounted, rows[i].task = rows[j].task
      PROVE  i = j
  <2> DEFINE t == rows[i].task
  <2>1. t \in Tasks /\ i \in Genuine(t, Passes) \ saved.processed
        /\ j \in Genuine(t, Passes) \ saved.processed
    BY <1>8, <1>9 DEF Uncounted
  <2> HIDE DEF t
  <2> QED
    BY <2>1 DEF Budgets, CapsHold
<1>10. TasksAt(Uncounted) \subseteq Tasks /\ Committed \subseteq Tasks
  BY <1>1, <1>8 DEF TasksAt, Uncounted, Committed
<1>11. IsFiniteSet(Committed)
  BY <1>10, ShapeAssumption, FS_Subset
<1>12. CountedSuccesses \cap Uncounted = {}
  BY DEF CountedSuccesses, Uncounted
<1> QED
  BY <1>3, <1>5, <1>7, <1>8, <1>9, <1>10, <1>11, <1>12

----------------------------------------------------------------------------
(* Before Pass C the slots bound the successes.                            *)

\* A task with a success serves its slot: only tasks without one are replaced.
LEMMA SuccessServes ==
  ASSUME Sched, Budgets, Earned, NEW i \in AcceptedRows \cup CandidateRows
  PROVE  Serves(rows[i].task) /\ Hopes(rows[i].task, {"A"}) # {}
<1> DEFINE t == rows[i].task
<1>1. /\ i \in DOMAIN rows /\ t \in Tasks /\ rows[i].pass \in Passes
      /\ i \in Hopes(t, {rows[i].pass})
  BY SuccessFacts
<1>2. IInv /\ TypeOK
  BY DEF Sched, IInv
<1>3. mem.slotOf[t] = rows[i].slot /\ rows[i].slot \in Slots
  BY <1>1, <1>2, RowsTyped DEF IInv, RowsPlaced, Rows
<1>4. Hopes(t, {"A"}) # {}
  <2>1. CASE rows[i].pass = "A"
    BY <1>1, <2>1
  <2>2. CASE rows[i].pass # "A"
    <3>1. t \in saved.success
      BY <1>1, <2>2 DEF Sched, Barrier, PassBarrier
    <3>2. saved.processed \cap AcceptedRows \cap Genuine(t, {"A"}) # {}
      BY <1>1, <3>1 DEF Sched, Counts, ExactlyOnce, CountsOf
    <3> QED
      BY <3>2 DEF Hopes, AcceptedRows
  <2> QED
    BY <2>1, <2>2
<1>5. mem.current[mem.slotOf[t]] = t
  <2>1. SlotEarned(mem.slotOf[t]) /\ t \in Known(mem) /\ ~Spent(t)
    <3>1. NoSlot \notin Slots
      BY ShapeAssumption DEF NoSlot
    <3> QED
      BY <1>1, <1>3, <1>4, <3>1 DEF Earned, Known, Spent
  <2> QED
    BY <2>1 DEF SlotEarned
<1> QED
  BY <1>3, <1>4, <1>5 DEF Serves

Covered == Sched /\ Budgets /\ Earned /\ Reserved

\* The counted successes of the ledger's pass are of tasks nothing is committed to.
LEMMA LastPassIsDone ==
  ASSUME Covered, NEW i \in CountedSuccesses, rows[i].pass = saved.pass,
         saved.pass \in {"A", "B"}
  PROVE  rows[i].task \notin Committed
<1> DEFINE t == rows[i].task
<1>1. Sched /\ Budgets /\ Earned /\ Free(saved)
  BY DEF Covered, Reserved
<1>2. /\ i \in AcceptedRows \cup CandidateRows /\ i \in saved.processed
      /\ i \in AcceptedRows
  BY DEF CountedSuccesses
<1>3. /\ t \in Tasks /\ i \in Hopes(t, {saved.pass}) /\ i \in Genuine(t, {saved.pass})
  BY <1>1, <1>2, SuccessFacts DEF Hopes
<1>4. t \notin saved.active
  <2>1. CASE saved.pass = "A"
    <3>1. saved.processed \cap AcceptedRows \cap Genuine(t, {"A"}) # {}
      BY <1>2, <1>3, <2>1
    <3>2. t \in saved.success
      BY <1>1, <1>3, <3>1 DEF Sched, Counts, ExactlyOnce, CountsOf
    <3> QED
      BY <1>1, <2>1, <3>2 DEF Free
  <2>2. CASE saved.pass = "B"
    <3>1. t \in saved.bDone
      BY <1>1, <1>2, <2>2 DEF Sched, Counts, CountedRest, AcceptedRows
    <3> QED
      BY <1>1, <2>2, <3>1 DEF Free
  <2> QED
    BY <2>1, <2>2
<1>5. ASSUME NEW j \in Uncounted, rows[j].task = t PROVE FALSE
  <2>1. /\ j \in AcceptedRows \cup CandidateRows /\ j \notin saved.processed
        /\ j \in DOMAIN rows /\ j \in Hopes(t, {rows[j].pass}) /\ rows[j].pass \in Passes
    BY <1>1, <1>5, SuccessFacts DEF Uncounted
  <2>2. PassRank(rows[j].pass) <= PassRank(saved.pass)
    BY <1>1, <2>1 DEF Sched, Barrier
  <2>3. CapsHold(t)
    BY <1>1, <1>3 DEF Budgets
  <2>4. rows[j].pass # "C" /\ (saved.pass = "A" => rows[j].pass = "A")
    BY <2>1, <2>2, Ranks DEF Passes
  <2>5. CASE rows[j].pass = saved.pass
    <3>1. PICK p \in {"A", "B"} : saved.pass = p
      OBVIOUS
    <3>2. i \in Hopes(t, {p}) /\ j \in Hopes(t, {p})
      BY <1>3, <2>1, <2>5, <3>1
    <3>3. i = j
      BY <2>3, <3>2 DEF CapsHold
    <3> QED
      BY <1>2, <2>1, <3>3
  <2>6. CASE rows[j].pass = "A" /\ saved.pass = "B"
    <3>1. t \in saved.success
      <4>1. i \in DOMAIN rows /\ rows[i].pass # "A"
        BY <1>2, <2>6 DEF AcceptedRows
      <4> QED
        BY <1>1, <4>1 DEF Sched, Barrier, PassBarrier
    <3>2. PICK k : k \in saved.processed \cap AcceptedRows \cap Genuine(t, {"A"})
      BY <1>1, <1>3, <3>1 DEF Sched, Counts, ExactlyOnce, CountsOf
    <3>3. k \in Hopes(t, {"A"}) /\ j \in Hopes(t, {"A"})
      BY <2>1, <2>6, <3>2 DEF Hopes, AcceptedRows
    <3> QED
      BY <2>1, <2>3, <3>2, <3>3 DEF CapsHold
  <2> QED
    BY <2>1, <2>4, <2>5, <2>6 DEF Passes
<1> QED
  BY <1>4, <1>5 DEF Committed, TasksAt

\* Counted successes of one pass before C are of distinct tasks, which serve slots.
LEMMA CountedOfPass ==
  ASSUME Covered, NEW p \in {"A", "B"}
  PROVE  LET I == {i \in CountedSuccesses : rows[i].pass = p}
         IN  /\ IsFiniteSet(I) /\ IsFiniteSet(TasksAt(I))
             /\ Cardinality(TasksAt(I)) = Cardinality(I)
             /\ \A t \in TasksAt(I) : Serves(t)
<1> DEFINE I == {i \in CountedSuccesses : rows[i].pass = p}
<1>1. Sched /\ Budgets /\ Earned
  BY DEF Covered
<1>2. IsFiniteSet(I)
  BY <1>1, SuccessFacts, FS_Subset
<1>3. ASSUME NEW i \in I, NEW j \in I, rows[i].task = rows[j].task PROVE i = j
  <2> DEFINE t == rows[i].task
  <2>1. t \in Tasks /\ i \in Hopes(t, {p}) /\ j \in Hopes(t, {p})
    BY <1>1, <1>3, SuccessFacts DEF CountedSuccesses
  <2> HIDE DEF t
  <2>2. CapsHold(t)
    BY <1>1, <2>1 DEF Budgets
  <2> QED
    BY <2>1, <2>2 DEF CapsHold
<1>4. ASSUME NEW t \in TasksAt(I) PROVE Serves(t)
  <2>1. PICK i \in I : t = rows[i].task
    BY DEF TasksAt
  <2>2. i \in AcceptedRows \cup CandidateRows
    BY DEF CountedSuccesses
  <2> QED
    BY <1>1, <2>1, <2>2, SuccessServes
<1> HIDE DEF I
<1>5. IsFiniteSet(TasksAt(I)) /\ Cardinality(TasksAt(I)) = Cardinality(I)
  BY <1>2, <1>3, DistinctTasks
<1> QED
  BY <1>2, <1>4, <1>5 DEF I

\* In Pass A a slot is counted or committed to once; in Pass B once more.
BeforeC == saved.pass # "C"

LEMMA EarlyQuota == Covered /\ BeforeC => Quota
<1> SUFFICES ASSUME Covered, saved.pass # "C" PROVE Quota
  BY DEF BeforeC
<1> DEFINE p == saved.pass
           Last == {i \in CountedSuccesses : rows[i].pass = p}
           Early == {i \in CountedSuccesses : rows[i].pass = "A"}
           N == Cardinality(Slots)
<1>1. Sched /\ Budgets /\ Earned /\ Reserved /\ IInv
  BY DEF Covered, Sched
<1>2. p \in {"A", "B"} /\ \A i \in DOMAIN rows : rows[i].pass \in Passes
  BY <1>1, TypedPasses DEF Passes
<1>3. ASSUME NEW i \in CountedSuccesses
      PROVE  rows[i].pass = p \/ (p = "B" /\ rows[i].pass = "A")
  <2>1. i \in DOMAIN rows
    BY DEF CountedSuccesses, AcceptedRows
  <2>2. PassRank(rows[i].pass) <= PassRank(p)
    BY <1>1, <2>1 DEF Sched, Barrier
  <2> QED
    BY <1>2, <2>1, <2>2, Ranks DEF Passes
<1>4. /\ IsFiniteSet(Last) /\ IsFiniteSet(TasksAt(Last))
      /\ Cardinality(TasksAt(Last)) = Cardinality(Last)
      /\ \A t \in TasksAt(Last) : Serves(t)
  <2> HIDE DEF p
  <2> QED
    BY <1>2, CountedOfPass
<1>5. /\ IsFiniteSet(Early) /\ IsFiniteSet(TasksAt(Early))
      /\ Cardinality(TasksAt(Early)) = Cardinality(Early)
      /\ \A t \in TasksAt(Early) : Serves(t)
  BY CountedOfPass
<1>6. TasksAt(Last) \cap Committed = {}
  BY <1>2, LastPassIsDone DEF TasksAt
<1>7. IsFiniteSet(Committed) /\ \A t \in Committed : Serves(t)
  BY <1>1, SuccessFacts, SuccessServes DEF Committed, TasksAt, Uncounted, Reserved
<1> HIDE DEF Last, Early
<1>8. Cardinality(Last) + Cardinality(Committed) <= N
      /\ Cardinality(Last) \in Nat /\ Cardinality(Committed) \in Nat
  <2>1. Cardinality(TasksAt(Last) \cup Committed) <= N
    BY <1>4, <1>7, ServersFit
  <2>2. /\ Cardinality(TasksAt(Last) \cup Committed)
             = Cardinality(TasksAt(Last)) + Cardinality(Committed)
        /\ Cardinality(TasksAt(Last)) \in Nat /\ Cardinality(Committed) \in Nat
    BY <1>4, <1>6, <1>7, DisjointCounts
  <2> QED
    BY <1>4, <2>1, <2>2
<1>9. Cardinality(Early) <= N /\ Cardinality(Early) \in Nat
  BY <1>5, ServersFit
<1>10. N \in Nat /\ Target \in Nat
  BY ShapeAssumption, FS_CardinalityType, BudgetAssumption
<1>11. CASE p = "A"
  <2>1. CountedSuccesses = Last
    BY <1>3, <1>11 DEF Last
  <2>2. N <= Target
    BY <1>10, TargetAssumption
  <2> QED
    BY <1>8, <1>10, <2>1, <2>2 DEF Quota, Claims
<1>12. CASE p = "B"
  <2>1. CountedSuccesses = Last \cup Early /\ Last \cap Early = {}
    BY <1>3, <1>12 DEF Last, Early
  <2>2. Cardinality(CountedSuccesses) = Cardinality(Last) + Cardinality(Early)
    BY <1>4, <1>5, <2>1, DisjointCounts
  <2>3. ~StopAfterA
    BY <1>1, <1>12 DEF Reserved, Free
  <2>4. 2 * N <= Target
    BY <2>3, TargetAssumption
  <2> QED
    BY <1>8, <1>9, <1>10, <2>2, <2>4 DEF Quota, Claims
<1> QED
  BY <1>2, <1>11, <1>12

----------------------------------------------------------------------------
(* Reservations are kept in step.                                          *)

LEMMA WinnersServe ==
  ASSUME Covered, NEW t \in mem.success
  PROVE  Serves(t)
<1>1. Sched /\ Budgets /\ Earned
  BY DEF Covered
<1>2. t \in Tasks
  BY <1>1, Fields DEF Sched, IInv, TypeOK
<1>3. PICK i : i \in mem.processed \cap AcceptedRows \cap Genuine(t, {"A"})
  BY <1>1, <1>2 DEF Sched, Counts, ExactlyOnce, CountsOf
<1>4. i \in AcceptedRows \cup CandidateRows /\ rows[i].task = t
  BY <1>3 DEF Genuine
<1> QED
  BY <1>1, <1>4, SuccessServes

LEMMA FreeKept ==
  ASSUME NEW m, NEW n, Agree(m, n), n.active \subseteq m.active, Free(m)
  PROVE  Free(n)
  BY DEF Agree, SameCounts, Free

\* No task changes its place and nothing new is reserved.
LEMMA ReservedFrame ==
  ASSUME Covered, mem'.slotOf = mem.slotOf, mem'.current = mem.current,
         mem'.active \subseteq saved'.active, saved'.active \subseteq saved.active,
         \A i \in mem'.processed : rows'[i].task \in mem'.active => i \in saved'.processed,
         Free(mem'), Free(saved')
  PROVE  Reserved'
<1>1. ASSUME NEW t \in saved'.active PROVE Serves(t)'
  <2>1. Serves(t)
    BY <1>1 DEF Covered, Reserved
  <2> QED
    BY <2>1 DEF Serves
<1> QED
  BY <1>1 DEF Reserved, Free

\* The rows a state counts keep their tasks.
LEMMA ReservedQuiet ==
  ASSUME Covered, [Next]_vars, Agree(mem, mem'), mem'.active \subseteq mem.active,
         \/ saved' = saved
         \/ Agree(saved, saved') /\ saved'.active = saved.active
         \/ saved' = mem'
  PROVE  Reserved'
<1>1. Sched /\ Reserved /\ IInv /\ Own
  BY DEF Covered, Sched
<1>2. Free(mem') /\ mem'.slotOf = mem.slotOf /\ mem'.current = mem.current
      /\ mem'.processed = mem.processed
  BY <1>1, FreeKept DEF Reserved, Agree, SameCounts
<1>3. \A i \in mem.processed : rows'[i] = rows[i]
  BY <1>1, CountedSetsKept
<1>4. CASE saved' = saved \/ (Agree(saved, saved') /\ saved'.active = saved.active)
  <2>1. Agree(saved, saved') /\ saved'.active = saved.active
    BY <1>4, AgreeTrans
  <2>2. Free(saved') /\ saved'.processed = saved.processed
    BY <1>1, <2>1, FreeKept DEF Reserved, Agree, SameCounts
  <2> QED
    BY <1>1, <1>2, <1>3, <2>1, <2>2, ReservedFrame DEF Reserved
<1>5. CASE saved' = mem'
  BY <1>1, <1>2, <1>3, <1>5, ReservedFrame DEF Reserved
<1> QED
  BY <1>4, <1>5

\* The memory is read back from the ledger, or will be, with nothing reserved.
LEMMA ReservedReset ==
  ASSUME Covered, NEW c \in {mem, saved}, Agree(c, saved'), saved'.active = c.active,
         Agree(c, mem'), mem'.active \in {{}, c.active}, mem'.processed = saved'.processed
  PROVE  Reserved'
<1>1. Sched /\ Reserved /\ IInv
  BY DEF Covered, Sched
<1>2. mem'.slotOf = mem.slotOf /\ mem'.current = mem.current
  BY <1>1 DEF IInv, PlacesAgree, Agree
<1>3. mem'.active \subseteq c.active /\ saved'.active \subseteq saved.active
  BY <1>1 DEF Reserved
<1>4. Free(mem') /\ Free(saved')
  BY <1>1, <1>3, FreeKept DEF Reserved
<1> QED
  BY <1>1, <1>2, <1>3, <1>4, ReservedFrame

LEMMA ReservedApplies ==
  ASSUME Covered, [Next]_vars, Applies
  PROVE  Reserved'
<1> DEFINE i == NextRow
           t == rows[i].task
           st == Verdict(i)
<1>1. Sched /\ Reserved /\ IInv /\ Own /\ TypeOK /\ mem \in States
  BY DEF Covered, Sched, IInv, TypeOK
<1>2. /\ i \in DOMAIN rows /\ i \in Nat /\ rows[i] \in Rows /\ t \notin mem.active
      /\ rows[i].status # "in_progress"
  BY <1>1, RowsTyped DEF Applies, Pending
<1>3. st \in RowStatuses
  BY <1>1, <1>2, VerdictIsFinal DEF FinalStatuses, RowStatuses
<1>4. mem' = apply_attempt(mem, i, rows[i], st) /\ saved' = saved
  BY DEF Applies
<1>5. /\ mem'.processed = mem.processed \cup {i}
      /\ mem'.success \subseteq mem.success \cup {t}
      /\ mem'.slotOf = mem.slotOf /\ mem'.current = mem.current
      /\ mem'.active = mem.active /\ mem'.pass = mem.pass
  <2> HIDE DEF i, st
  <2>1. mem' = apply_attempt(mem, i, rows[i], st)
    BY <1>4
  <2> QED
    BY <1>1, <1>2, <1>3, <2>1, ApplyCounts
<1>6. mem'.bDone \subseteq mem.bDone \cup {t}
  <2> HIDE DEF i, st
  <2>1. mem' = apply_attempt(mem, i, rows[i], st)
    BY <1>4
  <2> QED
    BY <1>1, <2>1 DEF apply_attempt, States
<1>7. Free(mem')
  BY <1>1, <1>2, <1>5, <1>6 DEF Reserved, Free
<1>8. rows'[i].task = t /\ \A j \in mem.processed : rows'[j] = rows[j]
  BY <1>1, <1>2, RowsKept, CountedSetsKept
<1> HIDE DEF i, t, st
<1> QED
  BY <1>1, <1>2, <1>4, <1>5, <1>7, <1>8, ReservedFrame DEF Reserved

LEMMA ReservedIdles ==
  ASSUME Covered, [Next]_vars, Idles
  PROVE  Reserved'
<1>1. Sched /\ Reserved /\ IInv /\ Own /\ mem \in States
  BY DEF Covered, Sched, IInv, TypeOK
<1>2. /\ SameCounts(mem, mem') /\ mem'.active = mem.active /\ saved' = saved
      /\ mem'.slotOf = mem.slotOf /\ mem'.current = mem.current /\ rows' = rows
  BY DEF Idles
<1>3. Free(mem')
  <2>1. CASE mem'.pass = mem.pass
    BY <1>1, <1>2, <2>1 DEF Reserved, Free, SameCounts
  <2>2. CASE mem'.pass # mem.pass
    <3>1. /\ mem'.active = {} /\ mem'.pass # "A"
          /\ mem.pass = "A" => ~StopAfterA
      BY <1>2, <2>2 DEF Idles
    <3> QED
      BY <1>1, <2>2, <3>1 DEF Reserved, Free
  <2> QED
    BY <2>1, <2>2
<1> QED
  BY <1>1, <1>2, <1>3, ReservedFrame DEF Reserved, SameCounts

LEMMA ReservedReserves ==
  ASSUME Covered, [Next]_vars, NEW t \in Tasks, Reserves(t), FromA(t) \/ FromB(t) \/ FromC(t)
  PROVE  Reserved'
<1>1. Sched /\ Budgets /\ Reserved /\ IInv /\ Own /\ mem \in States
  BY DEF Covered, Sched, IInv, TypeOK
<1>2. /\ SameCounts(mem, mem') /\ mem'.active = mem.active \cup {t} /\ saved' = mem'
      /\ mem'.pass = mem.pass /\ rows' = rows
  BY DEF Reserves
<1>3. mem.pass = "A" => t \notin mem.success
  BY <1>1, ReserveRoom
<1>4. t \notin mem.active
  BY <1>1, ReservedIsIdle
<1>5. Free(mem')
  BY <1>1, <1>2, <1>3 DEF Reserved, Free, SameCounts, FromA, FromB, FromC, PassBEligible
<1>6. ASSUME NEW u \in mem'.active PROVE Serves(u)'
  <2>1. u # t => Serves(u)
    BY <1>1, <1>2, <1>6 DEF Reserved
  <2>2. CASE FromB(t) \/ FromC(t)
    <3>1. t \in mem.success /\ mem'.slotOf = mem.slotOf /\ mem'.current = mem.current
      BY <2>2 DEF FromB, FromC, PassBEligible, PassCEligible
    <3>2. Serves(u)
      BY <2>1, <3>1, WinnersServe
    <3> QED
      BY <3>1, <3>2 DEF Serves
  <2>3. CASE FromA(t)
    <3>1. PICK s \in Servable(mem) :
            /\ t = mem'.current[s]
            /\ \/ /\ HasRetry(mem, s) /\ t = mem.current[s]
                  /\ mem'.slotOf = mem.slotOf /\ mem'.current = mem.current
               \/ /\ ~HasRetry(mem, s) /\ t \in ReserveTasks(Stratum[s]) \ Known(mem)
                  /\ mem'.slotOf = [mem.slotOf EXCEPT ![t] = s]
                  /\ mem'.current = [mem.current EXCEPT ![s] = t]
      BY <2>3 DEF FromA
    <3>2. s \in Slots /\ mem.current[s] \notin mem.active
      BY <3>1 DEF Servable, OpenSlots
    <3>3. mem.slotOf \in [Tasks -> Slots \cup {NoSlot}] /\ mem.current \in [Slots -> Tasks]
      BY <1>1, Fields
    <3>4. u \in Tasks
      BY <1>1, <1>2, <1>6, Fields
    <3>5. CASE u = t
      <4>1. mem'.slotOf[t] = s
        <5>1. mem.slotOf[mem.current[s]] = s
          BY <1>1, <3>2 DEF IInv, PlacesAgree
        <5> QED
          BY <3>1, <3>3, <5>1
      <4> QED
        BY <3>1, <3>2, <3>5, <4>1 DEF Serves
    <3>6. CASE u # t
      <4>1. Serves(u) /\ u \in mem.active
        BY <1>2, <1>6, <2>1, <3>6
      <4>2. mem.slotOf[u] # s
        BY <3>2, <4>1 DEF Serves
      <4>3. mem'.slotOf[u] = mem.slotOf[u]
        BY <3>1, <3>3, <3>4, <3>6
      <4>4. mem'.current[mem.slotOf[u]] = mem.current[mem.slotOf[u]]
        BY <3>1, <3>3, <4>1, <4>2 DEF Serves
      <4> QED
        BY <4>1, <4>3, <4>4 DEF Serves
    <3> QED
      BY <3>5, <3>6
  <2> QED
    BY <2>2, <2>3
<1> QED
  BY <1>2, <1>5, <1>6 DEF Reserved, Free

LEMMA ReservedStep ==
  ASSUME Covered, [Next]_vars
  PROVE  Reserved'
<1>1. Sched /\ Reserved /\ IInv /\ Own /\ Steps
  BY StepKinds DEF Covered, Sched
<1>2. CASE UNCHANGED <<mem, saved>>
  BY <1>2, AgreeTrans, ReservedQuiet
<1>3. CASE \E w \in Workers : Worker(w)
  BY <1>1, <1>2, <1>3, WorkerRows
<1>4. CASE Applies
  BY <1>4, ReservedApplies
<1>5. CASE Publishes \/ (\E w \in Workers : Submits(w)) \/ MainFault \/ Sigint \/ UNCHANGED vars
  BY <1>2, <1>5 DEF Publishes, Submits, MainFault, Sigint, vars, ledger
<1>6. CASE Boots
  <2>1. /\ Agree(saved, mem') /\ Agree(saved, saved') /\ mem'.active = {}
        /\ saved'.active = saved.active
    BY <1>6 DEF Boots
  <2>2. mem'.processed = saved'.processed
    BY <2>1 DEF Agree, SameCounts
  <2> QED
    BY <2>1, <2>2, ReservedReset
<1>7. CASE ReconcileDone
  <2>1. mem' = mem /\ saved' = mem'
    BY <1>7 DEF ReconcileDone
  <2> QED
    BY <2>1, AgreeTrans, ReservedQuiet
<1>8. CASE Selects
  BY <1>8, ReservedIdles, ReservedReserves DEF Selects
<1>9. ASSUME NEW W \in SUBSET InFlight, KeepsFlights(W) PROVE Reserved'
  <2>1. TasksOf(W) \subseteq mem.active
    BY <1>1, FlightsAreReserved DEF TasksOf
  <2> QED
    BY <1>9, <2>1, ReservedQuiet DEF KeepsFlights
<1>10. CASE (WithdrawReservation /\ KeepsFlights(InFlight))
            \/ (Collect /\ KeepsFlights(InFlight \ Finished))
  BY <1>9, <1>10
<1>11. ASSUME NEW c \in {mem, saved}, Ends(c) PROVE Reserved'
  <2>1. Agree(c, saved') /\ saved'.active = c.active /\ mem' = saved'
    BY <1>11 DEF Ends
  <2> QED
    BY <2>1, ReservedReset
<1>12. CASE Joins
  BY <1>12, ReservedQuiet DEF Joins, ledger
<1> QED
  BY <1>1, <1>3, <1>4, <1>5, <1>6, <1>7, <1>8, <1>10, <1>11, <1>12 DEF Steps

----------------------------------------------------------------------------
(* Claims only shrink, but for a reservation.                              *)

\* Counting what the memory has counted claims no more than the ledger did.
LEMMA FoldedClaims ==
  ASSUME Covered
  PROVE  /\ Cardinality(mem.processed \cap AcceptedRows) \in Nat
         /\ Cardinality(mem.active \cup TasksAt(Uncounted \ mem.processed)) \in Nat
         /\ IsFiniteSet(mem.active \cup TasksAt(Uncounted \ mem.processed))
         /\ Cardinality(mem.processed \cap AcceptedRows)
              + Cardinality(mem.active \cup TasksAt(Uncounted \ mem.processed)) <= Claims
         /\ Claims \in Nat
<1> DEFINE New == (mem.processed \cap AcceptedRows) \ saved.processed
           Rest == mem.active \cup TasksAt(Uncounted \ mem.processed)
<1>1. Sched /\ Budgets /\ Reserved /\ IInv /\ Own
  BY DEF Covered, Sched
<1>2. /\ IsFiniteSet(AcceptedRows) /\ IsFiniteSet(CountedSuccesses)
      /\ IsFiniteSet(Uncounted) /\ IsFiniteSet(Committed)
      /\ \A i, j \in Uncounted : rows[i].task = rows[j].task => i = j
  BY <1>1, SuccessFacts
<1>3. New \subseteq Uncounted /\ IsFiniteSet(New)
  <2>1. New \subseteq Uncounted
    BY DEF Uncounted
  <2> QED
    BY <1>2, <2>1, FS_Subset
<1>4. mem.processed \cap AcceptedRows = CountedSuccesses \cup New
      /\ CountedSuccesses \cap New = {}
  BY <1>1 DEF CountedSuccesses, Own, CountedAreFinal
<1>5. TasksAt(New) \cap Rest = {}
  <2> SUFFICES ASSUME NEW i \in New, rows[i].task \in Rest PROVE FALSE
    BY DEF TasksAt
  <2>1. rows[i].task \notin mem.active
    BY <1>1 DEF Reserved
  <2>2. PICK j \in Uncounted \ mem.processed : rows[j].task = rows[i].task
    BY <2>1 DEF TasksAt
  <2> QED
    BY <1>2, <1>3, <2>2
<1>6. TasksAt(New) \cup Rest \subseteq Committed
  BY <1>1, <1>3 DEF TasksAt, Committed, Reserved
<1> HIDE DEF New, Rest
<1>7. IsFiniteSet(TasksAt(New)) /\ Cardinality(TasksAt(New)) = Cardinality(New)
  BY <1>2, <1>3, DistinctTasks
<1>8. IsFiniteSet(Rest)
  BY <1>2, <1>6, FS_Subset
<1>9. /\ Cardinality(TasksAt(New) \cup Rest) = Cardinality(New) + Cardinality(Rest)
      /\ Cardinality(New) \in Nat /\ Cardinality(Rest) \in Nat
  BY <1>5, <1>7, <1>8, DisjointCounts
<1>10. Cardinality(TasksAt(New) \cup Rest) <= Cardinality(Committed)
       /\ Cardinality(Committed) \in Nat
  BY <1>2, <1>6, FS_Subset, FS_CardinalityType
<1>11. /\ Cardinality(mem.processed \cap AcceptedRows)
            = Cardinality(CountedSuccesses) + Cardinality(New)
       /\ Cardinality(CountedSuccesses) \in Nat
  BY <1>2, <1>3, <1>4, DisjointCounts
<1>12. /\ Cardinality(mem.processed \cap AcceptedRows) \in Nat
       /\ Cardinality(mem.processed \cap AcceptedRows) + Cardinality(Rest) <= Claims
       /\ Claims \in Nat
  BY <1>9, <1>10, <1>11 DEF Claims
<1> QED
  BY <1>8, <1>9, <1>12 DEF Rest

\* What a step does to the persisted state.
LEMMA LedgerSteps ==
  ASSUME Sched, [Next]_vars
  PROVE  \/ saved'.processed = saved.processed /\ saved'.active \subseteq saved.active
         \/ /\ rows' = rows /\ saved'.processed = mem.processed
            /\ saved'.active \subseteq mem.active
         \/ \E t \in Tasks : Reserves(t) /\ (FromA(t) \/ FromB(t) \/ FromC(t))
<1>1. IInv /\ Own /\ Steps
  BY StepKinds DEF Sched
<1>2. CASE \E w \in Workers : Worker(w)
  BY <1>1, <1>2, WorkerRows
<1>3. CASE Applies \/ Publishes \/ (\E w \in Workers : Submits(w)) \/ Joins \/ MainFault
           \/ Sigint \/ Idles \/ UNCHANGED vars
  BY <1>3 DEF Applies, Publishes, Submits, Joins, MainFault, Sigint, Idles, vars, ledger
<1>4. CASE Boots
  BY <1>4 DEF Boots, Agree, SameCounts
<1>5. CASE ReconcileDone
  BY <1>5 DEF ReconcileDone
<1>6. ASSUME NEW W \in SUBSET InFlight, KeepsFlights(W)
      PROVE  rows' = rows /\ saved'.processed = mem.processed
             /\ saved'.active \subseteq mem.active
  <2>1. TasksOf(W) \subseteq mem.active
    BY <1>1, FlightsAreReserved DEF TasksOf
  <2> QED
    BY <1>6, <2>1 DEF KeepsFlights, Agree, SameCounts
<1>7. CASE (WithdrawReservation /\ KeepsFlights(InFlight))
           \/ (Collect /\ KeepsFlights(InFlight \ Finished))
  BY <1>6, <1>7
<1>8. CASE Ends(saved)
  BY <1>8 DEF Ends, Agree, SameCounts
<1>9. CASE Ends(mem)
  BY <1>9 DEF Ends, Agree, SameCounts
<1> QED
  BY <1>1, <1>2, <1>3, <1>4, <1>5, <1>7, <1>8, <1>9 DEF Steps, Selects

LEMMA ClaimsKept ==
  ASSUME Covered, [Next]_vars,
         \/ saved'.processed = saved.processed /\ saved'.active \subseteq saved.active
         \/ /\ rows' = rows /\ saved'.processed = mem.processed
            /\ saved'.active \subseteq mem.active
  PROVE  Claims' <= Claims /\ Claims' \in Nat /\ Claims \in Nat
<1>1. Sched /\ Budgets /\ Reserved /\ IInv /\ Own
  BY DEF Covered, Sched
<1>2. CASE saved'.processed = saved.processed /\ saved'.active \subseteq saved.active
  <2>1. CountedSuccesses' = CountedSuccesses
    BY <1>1, <1>2, CountedSetsKept DEF CountedSuccesses
  <2>2. ASSUME NEW i \in Uncounted', NEW t, t = rows'[i].task PROVE t \in Committed
    <3>1. /\ i \in DOMAIN rows' /\ rows'[i].status \in {"accepted", "candidate_success"}
          /\ i \notin saved.processed
      BY <1>2 DEF Uncounted, AcceptedRows, CandidateRows
    <3>2. TypeOK'
      BY <1>1, NextInvariant DEF IInv
    <3>3. rows'[i] \in Rows'
      <4>1. \A j \in DOMAIN rows' : rows'[j] \in Rows
        BY <3>2 DEF TypeOK
      <4> QED
        BY <3>1, <4>1 DEF Rows
    <3>4. rows'[i].pass \in Passes
      BY <3>3 DEF Rows
    <3>5. i \in Hopes(t, Passes)' /\ i \in Genuine(t, Passes)'
      BY <2>2, <3>1, <3>4 DEF Hopes, Genuine, GenuineStatuses
    <3>6. CASE i \in Hopes(t, Passes)
      BY <3>1, <3>6 DEF Hopes, Genuine, Committed, TasksAt, Uncounted, AcceptedRows,
                        CandidateRows
    <3>7. CASE i \notin Hopes(t, Passes)
      <4>1. PICK w \in Workers, r \in Nat : Charges(w, r) /\ i = r
        BY <1>1, <3>5, <3>7, CountedStep DEF Charges, ChargesNothing
      <4>2. t = pool[w].item.task /\ w \in InFlight
        BY <3>5, <4>1 DEF Charges
      <4> QED
        BY <1>1, <4>2 DEF IInv, ThreadsReserved, Committed
    <3> QED
      BY <3>6, <3>7
  <2>3. Committed' \subseteq Committed
    <3>1. TasksAt(Uncounted)' \subseteq Committed
      BY <2>2 DEF TasksAt
    <3>2. saved'.active \subseteq Committed
      BY <1>2 DEF Committed
    <3> QED
      BY <3>1, <3>2 DEF Committed
  <2>4. IsFiniteSet(Committed) /\ IsFiniteSet(CountedSuccesses)
    BY <1>1, SuccessFacts
  <2>5. /\ Cardinality(Committed') <= Cardinality(Committed)
        /\ Cardinality(Committed') \in Nat /\ Cardinality(Committed) \in Nat
        /\ Cardinality(CountedSuccesses) \in Nat
    BY <2>3, <2>4, FS_Subset, FS_CardinalityType
  <2>6. Cardinality(CountedSuccesses') = Cardinality(CountedSuccesses)
    BY <2>1
  <2> QED
    BY <2>5, <2>6 DEF Claims
<1>3. CASE /\ rows' = rows /\ saved'.processed = mem.processed
           /\ saved'.active \subseteq mem.active
  <2> DEFINE Rest == mem.active \cup TasksAt(Uncounted \ mem.processed)
             Won == mem.processed \cap AcceptedRows
  <2>1. CountedSuccesses' = Won
    BY <1>3 DEF CountedSuccesses, AcceptedRows
  <2>2. Uncounted' = Uncounted \ mem.processed
    <3>1. saved.processed \subseteq mem.processed
      BY <1>1 DEF Own, CountedAreFinal
    <3> QED
      BY <1>3, <3>1 DEF Uncounted, AcceptedRows, CandidateRows
  <2>3. Committed' \subseteq Rest
    BY <1>3, <2>2 DEF Committed, TasksAt
  <2>4. /\ Cardinality(Won) \in Nat /\ Cardinality(Rest) \in Nat /\ IsFiniteSet(Rest)
        /\ Cardinality(Won) + Cardinality(Rest) <= Claims /\ Claims \in Nat
    BY FoldedClaims
  <2> HIDE DEF Rest, Won
  <2>5. Cardinality(Committed') <= Cardinality(Rest) /\ Cardinality(Committed') \in Nat
    BY <2>3, <2>4, FS_Subset, FS_CardinalityType
  <2>6. Cardinality(CountedSuccesses') = Cardinality(Won)
    BY <2>1
  <2> QED
    BY <2>4, <2>5, <2>6 DEF Claims
<1> QED
  BY <1>2, <1>3

\* A reservation of Pass C is made while the quota has room for one more success.
LEMMA ReservedInQuota ==
  ASSUME Covered, NEW t \in Tasks, Reserves(t), FromC(t)
  PROVE  Quota'
<1>1. Sched /\ Budgets /\ Reserved /\ IInv /\ Own
  BY DEF Covered, Sched
<1>2. /\ t \notin mem.active /\ CallsNextWork
  BY <1>1, ReservedIsIdle
<1>3. /\ rows' = rows /\ saved' = mem' /\ SameCounts(mem, mem')
      /\ mem'.active = mem.active \cup {t} /\ RemainingQuota(mem) > 0
  BY DEF Reserves, FromC
<1>4. CountedSuccesses' = mem.processed \cap AcceptedRows
  BY <1>3 DEF CountedSuccesses, AcceptedRows, SameCounts
<1>5. AcceptedTotal(mem) = Cardinality(mem.processed \cap AcceptedRows)
  BY <1>1 DEF Sched, Counts, CountedRest
<1>6. ASSUME NEW i \in Uncounted' PROVE rows[i].task \in mem.active
  <2>1. i \in AcceptedRows \cup CandidateRows /\ i \notin mem.processed
    BY <1>3 DEF Uncounted, AcceptedRows, CandidateRows, SameCounts
  <2>2. i \in Genuine(rows[i].task, Passes)
    BY <1>1, <2>1, SuccessFacts
  <2> QED
    BY <1>1, <1>2, <2>1, <2>2, IdleIsCounted
<1>7. Committed' = mem.active \cup {t}
  BY <1>3, <1>6 DEF Committed, TasksAt
<1>8. IsFiniteSet(mem.active)
  <2>1. mem.active \subseteq Tasks
    BY <1>1, Fields DEF IInv, TypeOK
  <2> QED
    BY <2>1, ShapeAssumption, FS_Subset
<1>9. Cardinality(mem.active \cup {t}) = Cardinality(mem.active) + 1
      /\ Cardinality(mem.active) \in Nat
  BY <1>2, <1>8, CountOneMore
<1>10. /\ Cardinality(Committed') = Cardinality(mem.active) + 1
       /\ Cardinality(CountedSuccesses') = AcceptedTotal(mem)
  BY <1>4, <1>5, <1>7, <1>9
<1>11. AcceptedTotal(mem) \in Nat /\ Target \in Nat
  <2>1. IsFiniteSet(Demonstrations(mem, Tasks))
    BY <1>1 DEF Sched, Counts, CountedRest
  <2> QED
    BY <2>1, FS_CardinalityType, BudgetAssumption DEF AcceptedTotal
<1> QED
  BY <1>3, <1>9, <1>10, <1>11 DEF Quota, Claims, RemainingQuota

LEMMA EarlyQuotaNext == Covered' /\ BeforeC' => Quota'
  BY EarlyQuota, PTL

LEMMA QuotaStep ==
  ASSUME Covered, Quota, Covered', [Next]_vars
  PROVE  Quota'
<1>1. Sched
  BY DEF Covered
<1>2. CASE saved'.pass # "C"
  <2>1. BeforeC'
    BY <1>2 DEF BeforeC
  <2> QED
    BY <2>1, EarlyQuotaNext
<1>3. CASE \E t \in Tasks : Reserves(t) /\ (FromA(t) \/ FromB(t) \/ FromC(t))
  <2>1. PICK t \in Tasks : Reserves(t) /\ (FromA(t) \/ FromB(t) \/ FromC(t))
    BY <1>3
  <2>2. CASE FromC(t)
    BY <2>1, <2>2, ReservedInQuota
  <2>3. CASE FromA(t) \/ FromB(t)
    <3>1. saved'.pass # "C"
      BY <2>1, <2>3 DEF Reserves, FromA, FromB
    <3> QED
      BY <1>2, <3>1
  <2> QED
    BY <2>1, <2>2, <2>3
<1>4. CASE \/ saved'.processed = saved.processed /\ saved'.active \subseteq saved.active
           \/ /\ rows' = rows /\ saved'.processed = mem.processed
              /\ saved'.active \subseteq mem.active
  <2>1. Claims' <= Claims /\ Claims' \in Nat /\ Claims \in Nat
    BY <1>4, ClaimsKept
  <2> QED
    BY <2>1, BudgetAssumption DEF Quota
<1> QED
  BY <1>1, <1>3, <1>4, LedgerSteps

LEMMA QuotaInit == Init => Reserved /\ Quota
<1> SUFFICES ASSUME Init PROVE Reserved /\ Quota
  OBVIOUS
<1>1. /\ mem = initial_state /\ saved = initial_state /\ DOMAIN rows = {}
  BY DEF Init
<1>2. initial_state.active = {} /\ initial_state.processed = {} /\ initial_state.pass = "A"
  BY DEF initial_state
<1>3. Reserved
  BY <1>1, <1>2 DEF Reserved, Free
<1>4. CountedSuccesses = {} /\ Committed = {}
  BY <1>1, <1>2 DEF CountedSuccesses, Committed, TasksAt, Uncounted, AcceptedRows,
                    CandidateRows
<1>5. Cardinality({}) = 0
  BY FS_EmptySet
<1>6. Claims = 0
  BY <1>4, <1>5 DEF Claims
<1> QED
  BY <1>3, <1>6, BudgetAssumption DEF Quota

LEMMA QuotaHolds == Covered /\ Quota => QuotaIsReserved
<1> SUFFICES ASSUME Covered, Quota PROVE QuotaIsReserved
  OBVIOUS
<1>1. Sched /\ Budgets /\ Target \in Nat
  BY BudgetAssumption DEF Covered
<1> DEFINE Rest == mem.active \cup TasksAt(Uncounted \ mem.processed)
           Won == mem.processed \cap AcceptedRows
<1>2. /\ Cardinality(Won) \in Nat /\ Cardinality(Rest) \in Nat /\ IsFiniteSet(Rest)
      /\ Cardinality(Won) + Cardinality(Rest) <= Claims /\ Claims \in Nat
  BY FoldedClaims
<1>3. mem.active \in SUBSET Rest
  OBVIOUS
<1>4. AcceptedTotal(mem) = Cardinality(Won)
  BY <1>1 DEF Sched, Counts, CountedRest
<1> HIDE DEF Rest, Won
<1>5. Cardinality(mem.active) <= Cardinality(Rest) /\ Cardinality(mem.active) \in Nat
  BY <1>2, <1>3, FS_Subset, FS_CardinalityType
<1>6. AcceptedTotal(mem) + Cardinality(mem.active) <= Target
  BY <1>1, <1>2, <1>4, <1>5 DEF Quota
<1>7. /\ AcceptedRows \cup CandidateRows = CountedSuccesses \cup Uncounted
      /\ CountedSuccesses \cap Uncounted = {}
      /\ IsFiniteSet(CountedSuccesses) /\ IsFiniteSet(Uncounted)
      /\ \A i, j \in Uncounted : rows[i].task = rows[j].task => i = j
      /\ IsFiniteSet(Committed)
  BY <1>1, SuccessFacts
<1>8. /\ Cardinality(AcceptedRows \cup CandidateRows)
           = Cardinality(CountedSuccesses) + Cardinality(Uncounted)
      /\ Cardinality(CountedSuccesses) \in Nat /\ Cardinality(Uncounted) \in Nat
  BY <1>7, DisjointCounts
<1>9. Cardinality(TasksAt(Uncounted)) = Cardinality(Uncounted)
  BY <1>7, DistinctTasks
<1>10. TasksAt(Uncounted) \in SUBSET Committed
  BY DEF Committed
<1>11. Cardinality(TasksAt(Uncounted)) <= Cardinality(Committed)
       /\ Cardinality(Committed) \in Nat
  BY <1>7, <1>10, FS_Subset, FS_CardinalityType
<1>12. Cardinality(AcceptedRows \cup CandidateRows) <= Target
  BY <1>1, <1>8, <1>9, <1>11 DEF Quota, Claims
<1> QED
  BY <1>6, <1>12 DEF QuotaIsReserved

\* The run never holds more successes than its target, decided or not, and in Pass C
\* what is in flight is reserved in the quota: nothing has to be thrown away.
THEOREM NothingIsDiscarded == Spec => []QuotaIsReserved
<1>1. Init => Covered /\ Quota
  BY SchedInit, BudgetsInit, EarnedInit, QuotaInit DEF Covered
<1>2. Covered /\ [Next]_vars => Covered'
  BY SchedStep, BudgetsStep, EarnedStep, ReservedStep DEF Covered
<1>3. Covered /\ Quota /\ [Next]_vars => Covered' /\ Quota'
  BY <1>2, QuotaStep
<1> QED
  BY <1>1, <1>3, QuotaHolds, PTL DEF Spec

----------------------------------------------------------------------------
(* The collector implements its contract.                                  *)

\* The dataset of the contract, and the demonstrations of a task in it.
DataOf(I) == {<<rows[i].task, rows[i].result>> : i \in I}
Data == DataOf(AcceptedRows)
DataFor(t) == {d \in Data : d[1] = t}

\* The genuine attempts of task t in the passes P.
PaidRows(t, P) ==
  {i \in DOMAIN rows : /\ rows[i].task = t /\ rows[i].pass \in P
                       /\ rows[i].status \in GenuineStatuses}

\* Nothing the contract speaks of changes.
Quiet == Data' = Data /\ \A t, P : PaidRows(t, P)' = PaidRows(t, P)

\* Row i becomes an attempt of task t in pass p.
Pays(i, t, p) ==
  \A u, P : /\ i \notin PaidRows(u, P)
            /\ u = t /\ p \in P => PaidRows(u, P)' = PaidRows(u, P) \cup {i}
            /\ ~(u = t /\ p \in P) => PaidRows(u, P)' = PaidRows(u, P)

\* The budget it is paid from has room.
Affords(t, p) ==
  /\ p = "A" => DataFor(t) = {} /\ Cardinality(PaidRows(t, {"A"})) < FirstCap
  /\ p # "A" => DataFor(t) # {} /\ Cardinality(PaidRows(t, {"B", "C"})) < PostCap

\* The attempt adds demonstration b of task t.
Wins(t, b) ==
  /\ Data' = Data \cup {<<t, b>>} /\ <<t, b>> \notin Data
  /\ Cardinality(Data) < Target /\ Cardinality(DataFor(t)) < DemoCap

\* The inductive invariant under which every step is one of the contract.
Promised == Covered /\ Quota /\ AcceptedAreDistinct

LEMMA QuietRows ==
  ASSUME DOMAIN rows \subseteq DOMAIN rows',
         \A i \in DOMAIN rows :
           /\ rows'[i].task = rows[i].task /\ rows'[i].pass = rows[i].pass
           /\ rows'[i].status \in GenuineStatuses <=> rows[i].status \in GenuineStatuses
           /\ rows'[i].status = "accepted" <=> rows[i].status = "accepted"
           /\ rows[i].status = "accepted" => rows'[i].result = rows[i].result,
         \A i \in DOMAIN rows' \ DOMAIN rows : rows'[i].status \notin GenuineStatuses
  PROVE  Quiet
<1>1. AcceptedRows' = AcceptedRows
  BY DEF AcceptedRows, GenuineStatuses
<1>2. Data' = Data
  BY <1>1 DEF Data, DataOf, AcceptedRows
<1>3. ASSUME NEW t, NEW P PROVE PaidRows(t, P)' = PaidRows(t, P)
  BY DEF PaidRows
<1> QED
  BY <1>2, <1>3 DEF Quiet

LEMMA PayingRow ==
  ASSUME NEW i, NEW r, Changed(i, r), rows[i].status \notin GenuineStatuses,
         r.status \in GenuineStatuses, r.task = rows[i].task, r.pass = rows[i].pass
  PROVE  /\ Pays(i, rows[i].task, rows[i].pass)
         /\ r.status # "accepted" => Data' = Data
         /\ r.status = "accepted" /\ r.result = rows[i].result =>
              Data' = Data \cup {<<rows[i].task, rows[i].result>>}
<1>1. i \in DOMAIN rows /\ DOMAIN rows' = DOMAIN rows /\ rows'[i] = r
      /\ \A j \in DOMAIN rows \ {i} : rows'[j] = rows[j]
  BY DEF Changed
<1>2. Pays(i, rows[i].task, rows[i].pass)
  <2> SUFFICES ASSUME NEW u, NEW P
               PROVE  /\ i \notin PaidRows(u, P)
                      /\ u = rows[i].task /\ rows[i].pass \in P =>
                           PaidRows(u, P)' = PaidRows(u, P) \cup {i}
                      /\ ~(u = rows[i].task /\ rows[i].pass \in P) =>
                           PaidRows(u, P)' = PaidRows(u, P)
    BY DEF Pays
  <2> QED
    BY <1>1 DEF PaidRows
<1>3. i \notin AcceptedRows
  BY DEF AcceptedRows, GenuineStatuses
<1>4. ASSUME r.status # "accepted" PROVE Data' = Data
  <2>1. AcceptedRows' = AcceptedRows
    BY <1>1, <1>3, <1>4 DEF AcceptedRows
  <2> QED
    BY <1>1, <1>3, <2>1 DEF Data, DataOf, AcceptedRows
<1>5. ASSUME r.status = "accepted", r.result = rows[i].result
      PROVE  Data' = Data \cup {<<rows[i].task, rows[i].result>>}
  <2>1. AcceptedRows' = AcceptedRows \cup {i}
    BY <1>1, <1>3, <1>5 DEF AcceptedRows
  <2>2. \A j \in AcceptedRows \cup {i} :
          rows'[j].task = rows[j].task /\ rows'[j].result = rows[j].result
    BY <1>1, <1>5 DEF AcceptedRows
  <2>3. Data' = {<<rows[j].task, rows[j].result>> : j \in AcceptedRows \cup {i}}
    BY <2>1, <2>2 DEF Data, DataOf
  <2> QED
    BY <2>3 DEF Data, DataOf
<1> QED
  BY <1>2, <1>4, <1>5

\* Distinct accepted rows are distinct demonstrations.
LEMMA DataIsCounted ==
  ASSUME AcceptedAreDistinct, NEW I, I \subseteq AcceptedRows, IsFiniteSet(I)
  PROVE  IsFiniteSet(DataOf(I)) /\ Cardinality(DataOf(I)) = Cardinality(I)
<1> DEFINE g == [i \in I |-> <<rows[i].task, rows[i].result>>]
<1>1. \A i, j \in I : <<rows[i].task, rows[i].result>> = <<rows[j].task, rows[j].result>> =>
                        i = j
  BY DEF AcceptedAreDistinct
<1>2. g \in Bijection(I, DataOf(I))
  BY <1>1 DEF DataOf, Bijection, Injection, Surjection, IsInjective
<1>3. ExistsBijection(I, DataOf(I))
  BY <1>2 DEF ExistsBijection
<1> QED
  BY <1>3, FS_Bijection

\* A task has a demonstration exactly when it has one of Pass A.
LEMMA FirstDemonstration ==
  ASSUME Sched, NEW t \in Tasks
  PROVE  /\ DataFor(t) # {} => Hopes(t, {"A"}) # {}
         /\ t \in saved.success => DataFor(t) # {}
<1>1. ASSUME t \in saved.success
      PROVE  \E k \in AcceptedRows : rows[k].task = t /\ rows[k].pass = "A"
  <2>1. PICK k : k \in saved.processed \cap AcceptedRows \cap Genuine(t, {"A"})
    BY <1>1 DEF Sched, Counts, ExactlyOnce, CountsOf
  <2> QED
    BY <2>1 DEF Genuine
<1>2. ASSUME DataFor(t) # {} PROVE Hopes(t, {"A"}) # {}
  <2>1. PICK k \in AcceptedRows : rows[k].task = t
    BY <1>2 DEF DataFor, Data, DataOf
  <2>2. PICK j \in AcceptedRows : rows[j].task = t /\ rows[j].pass = "A"
    <3>1. CASE rows[k].pass = "A"
      BY <2>1, <3>1
    <3>2. CASE rows[k].pass # "A"
      <4>1. t \in saved.success
        BY <2>1, <3>2 DEF Sched, Barrier, PassBarrier, AcceptedRows
      <4> QED
        BY <1>1, <4>1
    <3> QED
      BY <3>1, <3>2
  <2>3. j \in Hopes(t, {"A"})
    BY <2>2 DEF Hopes, Genuine, AcceptedRows, GenuineStatuses
  <2> QED
    BY <2>3
<1>3. ASSUME t \in saved.success PROVE DataFor(t) # {}
  <2>1. PICK k \in AcceptedRows : rows[k].task = t
    BY <1>1, <1>3
  <2>2. <<rows[k].task, rows[k].result>> \in DataFor(t)
    BY <2>1 DEF DataFor, Data, DataOf
  <2> QED
    BY <2>2
<1> QED
  BY <1>2, <1>3

LEMMA PaidAreGenuine ==
  ASSUME TypeOK, NEW t, NEW P
  PROVE  PaidRows(t, P) \subseteq Genuine(t, P) /\ IsFiniteSet(Genuine(t, P))
<1>1. PaidRows(t, P) \subseteq Genuine(t, P)
  BY DEF PaidRows, Genuine
<1> QED
  BY <1>1, GenuineFacts

\* The attempts a thread decides fit their budget.
LEMMA ThreadAffords ==
  ASSUME Sched, Budgets, NEW w \in InFlight, pool[w].pc # "done",
         NEW t \in Tasks, NEW p \in Passes, pool[w].item.task = t, pool[w].item.pass = p
  PROVE  Affords(t, p)
<1>1. Room(t, p) /\ TypeOK
  BY DEF Budgets, Sched, IInv
<1>2. \A P : IsFiniteSet(Genuine(t, P)) /\ PaidRows(t, P) \subseteq Genuine(t, P)
  BY <1>1, PaidAreGenuine
<1>3. \A P : /\ Cardinality(PaidRows(t, P)) <= Cardinality(Genuine(t, P))
             /\ Cardinality(PaidRows(t, P)) \in Nat /\ Cardinality(Genuine(t, P)) \in Nat
  BY <1>2, FS_Subset, FS_CardinalityType
<1>4. FirstCap \in Nat /\ PostCap \in Nat
  BY BudgetAssumption
<1>5. CASE p = "A"
  <2>1. Cardinality(Genuine(t, {"A"})) < FirstCap /\ Hopes(t, {"A"}) = {}
    BY <1>1, <1>5 DEF Room
  <2>2. DataFor(t) = {}
    BY <2>1, FirstDemonstration
  <2> QED
    BY <1>3, <1>4, <1>5, <2>1, <2>2 DEF Affords
<1>6. CASE p # "A"
  <2>1. Cardinality(Genuine(t, {"B", "C"})) < PostCap
    BY <1>1, <1>6 DEF Room
  <2>2. t \in saved.success
    BY <1>6 DEF Sched, Barrier
  <2>3. DataFor(t) # {}
    BY <2>2, FirstDemonstration
  <2> QED
    BY <1>3, <1>4, <1>6, <2>1, <2>3 DEF Affords
<1> QED
  BY <1>5, <1>6

\* So do the candidates the main thread decides.
LEMMA CandidateAffords ==
  ASSUME Sched, Budgets, NEW i \in CandidateRows,
         NEW t \in Tasks, NEW p \in Passes, rows[i].task = t, rows[i].pass = p
  PROVE  Affords(t, p)
<1>1. CapsHold(t) /\ TypeOK
  BY DEF Budgets, Sched, IInv
<1>2. /\ i \notin AcceptedRows /\ i \in DOMAIN rows /\ i \in Hopes(t, {p})
      /\ \A P : i \notin PaidRows(t, P)
      /\ \A P : p \in P => i \in Genuine(t, P)
  BY DEF CandidateRows, AcceptedRows, Hopes, Genuine, PaidRows, GenuineStatuses,
         RejectStatuses
<1>3. ASSUME NEW P, p \in P
      PROVE  /\ Cardinality(PaidRows(t, P)) < Cardinality(Genuine(t, P))
             /\ Cardinality(PaidRows(t, P)) \in Nat /\ Cardinality(Genuine(t, P)) \in Nat
  <2> DEFINE G == Genuine(t, P)
             S == PaidRows(t, P)
  <2>1. IsFiniteSet(G) /\ S \subseteq G /\ i \in G /\ i \notin S
    BY <1>1, <1>2, <1>3, PaidAreGenuine
  <2> HIDE DEF G, S
  <2>2. Cardinality(S) <= Cardinality(G) /\ (Cardinality(S) = Cardinality(G) => S = G)
        /\ Cardinality(S) \in Nat /\ Cardinality(G) \in Nat
    BY <2>1, FS_Subset, FS_CardinalityType
  <2>3. Cardinality(S) < Cardinality(G)
    BY <2>1, <2>2
  <2> QED
    BY <2>2, <2>3 DEF G, S
<1>4. FirstCap \in Nat /\ PostCap \in Nat
  BY BudgetAssumption
<1>5. CASE p = "A"
  <2>1. Cardinality(PaidRows(t, {"A"})) < FirstCap
    BY <1>1, <1>3, <1>4, <1>5 DEF CapsHold
  <2>2. DataFor(t) = {}
    <3> SUFFICES ASSUME NEW k \in AcceptedRows, rows[k].task = t PROVE FALSE
      BY DEF DataFor, Data, DataOf
    <3>1. CASE rows[k].pass = "A"
      <4>1. k \in Hopes(t, {"A"}) /\ i \in Hopes(t, {"A"})
        BY <1>2, <1>5, <3>1 DEF Hopes, Genuine, AcceptedRows, GenuineStatuses
      <4> QED
        BY <1>1, <1>2, <4>1 DEF CapsHold
    <3>2. CASE rows[k].pass # "A"
      <4>1. t \in saved.success
        BY <3>2 DEF Sched, Barrier, PassBarrier, AcceptedRows
      <4>2. PICK j : j \in saved.processed \cap AcceptedRows \cap Genuine(t, {"A"})
        BY <4>1 DEF Sched, Counts, ExactlyOnce, CountsOf
      <4>3. j \in Hopes(t, {"A"}) /\ i \in Hopes(t, {"A"})
        BY <1>2, <1>5, <4>2 DEF Hopes, AcceptedRows
      <4> QED
        BY <1>1, <1>2, <4>2, <4>3 DEF CapsHold
    <3> QED
      BY <3>1, <3>2
  <2> QED
    BY <1>5, <2>1, <2>2 DEF Affords
<1>6. CASE p # "A"
  <2>1. Cardinality(PaidRows(t, {"B", "C"})) < PostCap
    <3>1. p \in {"B", "C"}
      BY <1>6 DEF Passes
    <3> QED
      BY <1>1, <1>3, <1>4, <3>1 DEF CapsHold
  <2>2. DataFor(t) # {}
    <3>1. t \in saved.success
      BY <1>2, <1>6 DEF Sched, Barrier, PassBarrier
    <3> QED
      BY <3>1, FirstDemonstration
  <2> QED
    BY <1>6, <2>1, <2>2 DEF Affords
<1> QED
  BY <1>5, <1>6

\* An accepted candidate is a demonstration the dataset has room for.
LEMMA CandidateWins ==
  ASSUME Promised, NEW i \in CandidateRows, Verdict(i) = "accepted",
         NEW t, t = rows[i].task, NEW b, b = rows[i].result,
         Data' = Data \cup {<<t, b>>}
  PROVE  Wins(t, b) /\ b \in Behaviors
<1>1. /\ Sched /\ Budgets /\ AcceptedAreDistinct /\ QuotaIsReserved /\ TypeOK
  BY QuotaHolds DEF Promised, Covered, Sched, IInv
<1>2. /\ i \in DOMAIN rows /\ rows[i].status = "candidate_success" /\ i \notin AcceptedRows
      /\ rows[i] \in Rows
  BY <1>1, RowsTyped DEF CandidateRows, AcceptedRows
<1>3. t \in Tasks /\ CapsHold(t) /\ b \in Results \cup {NoPurchase}
      /\ i \in Hopes(t, Passes)
  BY <1>1, <1>2 DEF Rows, Budgets, Hopes, Genuine
<1>4. b \in Behaviors /\ b \notin PriorResults(t)
  BY <1>2, <1>3 DEF Verdict, verdict, Behaviors
<1>5. <<t, b>> \notin Data
  BY <1>4 DEF Data, DataOf, PriorResults
<1>6. IsFiniteSet(AcceptedRows) /\ IsFiniteSet(CandidateRows)
  BY <1>1, SuccessFacts
<1>7. Cardinality(Data) < Target
  <2>1. Cardinality(Data) = Cardinality(AcceptedRows)
    BY <1>1, <1>6, DataIsCounted DEF Data
  <2>2. IsFiniteSet(AcceptedRows \cup CandidateRows)
    BY <1>6, FS_Union
  <2>3. i \in AcceptedRows \cup CandidateRows
    OBVIOUS
  <2>4. AcceptedRows \in SUBSET (AcceptedRows \cup CandidateRows)
    OBVIOUS
  <2>5. /\ Cardinality(AcceptedRows) <= Cardinality(AcceptedRows \cup CandidateRows)
        /\ Cardinality(AcceptedRows) # Cardinality(AcceptedRows \cup CandidateRows)
        /\ Cardinality(AcceptedRows) \in Nat
        /\ Cardinality(AcceptedRows \cup CandidateRows) \in Nat
    BY <1>2, <1>6, <2>2, <2>3, <2>4, FS_Subset, FS_CardinalityType
  <2> QED
    BY <1>1, <2>1, <2>5, BudgetAssumption DEF QuotaIsReserved
<1>8. Cardinality(DataFor(t)) < DemoCap
  <2> DEFINE I == {k \in AcceptedRows : rows[k].task = t}
             H == Hopes(t, Passes)
  <2>1. DataFor(t) = DataOf(I)
    BY DEF DataFor, Data, DataOf
  <2>2. I \subseteq H /\ IsFiniteSet(H) /\ i \in H /\ i \notin I
    <3>1. ASSUME NEW k \in I PROVE k \in H
      <4>1. k \in DOMAIN rows /\ rows[k].status = "accepted" /\ rows[k].task = t
        BY DEF AcceptedRows
      <4>2. rows[k].pass \in Passes
        BY <1>1, <4>1, RowsTyped DEF Rows
      <4> QED
        BY <4>1, <4>2 DEF Hopes, Genuine, GenuineStatuses
    <3>2. IsFiniteSet(H)
      BY <1>1, GenuineFacts
    <3> QED
      BY <1>2, <1>3, <3>1, <3>2
  <2>3. I \subseteq AcceptedRows /\ IsFiniteSet(I)
    BY <1>6, FS_Subset
  <2> HIDE DEF I
  <2>4. Cardinality(DataOf(I)) = Cardinality(I)
    BY <1>1, <2>3, DataIsCounted
  <2>5. Cardinality(H) <= DemoCap
    BY <1>3 DEF CapsHold
  <2> HIDE DEF H
  <2>6. Cardinality(I) <= Cardinality(H) /\ Cardinality(I) # Cardinality(H)
        /\ Cardinality(I) \in Nat /\ Cardinality(H) \in Nat
    BY <2>2, <2>3, FS_Subset, FS_CardinalityType
  <2> QED
    BY <2>1, <2>4, <2>5, <2>6, BudgetAssumption
<1> QED
  BY <1>4, <1>5, <1>7, <1>8 DEF Wins

\* What the contract sees of a step.
PaysFor(t, p) ==
  /\ \E i \in Nat : Pays(i, t, p)
  /\ Affords(t, p)
  /\ Data' = Data \/ \E b \in Behaviors : Wins(t, b)

LEMMA DecisionPays ==
  ASSUME Promised, NEW w \in Workers, Worker(w), Decides(w), w \in InFlight
  PROVE  Quiet \/ \E t \in Tasks, p \in Passes : PaysFor(t, p)
<1> DEFINE r == pool[w].row
           t == rows[r].task
           p == rows[r].pass
<1>1. Sched /\ Budgets /\ IInv /\ Own /\ TypeOK
  BY DEF Promised, Covered, Sched, IInv
<1>2. r # 0 /\ r \in DOMAIN rows /\ rows[r].status = "in_progress" /\ pool[w].pc = "rolling"
      /\ t = pool[w].item.task /\ p = pool[w].item.pass
  BY <1>1 DEF Decides, Own, ThreadsOwnRows
<1>3. PICK st \in {"candidate_success", "failed", "interrupted"},
           b \in Results \cup {NoPurchase} :
             Changed(r, [rows[r] EXCEPT !.status = st, !.result = b])
  BY DEF Decides
<1> DEFINE n == [rows[r] EXCEPT !.status = st, !.result = b]
<1>4. rows[r] \in Rows /\ r \in Nat
  BY <1>1, <1>2, RowsTyped
<1>5. n.status = st /\ n.task = t /\ n.pass = p
  BY <1>4, RowOutcome
<1>6. t \in Tasks /\ p \in Passes
  BY <1>4 DEF Rows
<1>7. Changed(r, n)
  BY <1>3
<1> HIDE DEF n, r
<1>8. CASE st = "failed"
  <2>1. n.status \in GenuineStatuses /\ n.status # "accepted"
        /\ rows[r].status \notin GenuineStatuses
    BY <1>2, <1>5, <1>8 DEF GenuineStatuses, RejectStatuses
  <2>2. Pays(r, t, p) /\ Data' = Data
    BY <1>5, <1>7, <2>1, PayingRow
  <2>3. Affords(t, p)
    <3> HIDE DEF t, p
    <3> QED
      BY <1>1, <1>2, <1>6, ThreadAffords
  <2> QED
    BY <1>4, <1>6, <2>2, <2>3 DEF PaysFor
<1>9. CASE st # "failed"
  <2>1. n.status \notin GenuineStatuses /\ n.status # "accepted"
        /\ rows[r].status \notin GenuineStatuses /\ rows[r].status # "accepted"
    BY <1>2, <1>3, <1>5, <1>9 DEF GenuineStatuses, RejectStatuses
  <2> QED
    BY <1>5, <1>7, <2>1, QuietRows DEF Changed
<1> QED
  BY <1>8, <1>9

LEMMA ApplicationPays ==
  ASSUME Promised, Applies
  PROVE  Quiet \/ \E t \in Tasks, p \in Passes : PaysFor(t, p)
<1>0. PICK i : i = NextRow
  OBVIOUS
<1> DEFINE t == rows[i].task
           p == rows[i].pass
           n == [rows[i] EXCEPT !.status = Verdict(i)]
<1>1. Sched /\ Budgets /\ IInv /\ TypeOK
  BY DEF Promised, Covered, Sched, IInv
<1>2. /\ i \in DOMAIN rows /\ i \in Nat /\ rows[i].status # "in_progress" /\ Changed(i, n)
  BY <1>0 DEF Applies
<1>3. rows[i] \in Rows
  BY <1>1, <1>2, RowsTyped
<1>4. n.status = Verdict(i) /\ n.task = t /\ n.pass = p /\ n.result = rows[i].result
  BY <1>3, RowStatus
<1>5. t \in Tasks /\ p \in Passes
  BY <1>3 DEF Rows
<1> HIDE DEF n
<1>6. CASE rows[i].status # "candidate_success"
  <2>1. Verdict(i) = rows[i].status
    BY <1>6 DEF Verdict
  <2> QED
    BY <1>2, <1>4, <2>1, QuietRows DEF Changed
<1>7. CASE rows[i].status = "candidate_success"
  <2>1. i \in CandidateRows
    BY <1>2, <1>7 DEF CandidateRows
  <2>2. Verdict(i) \in RejectStatuses \cup {"accepted"}
    BY <1>1, <1>2, <1>7, VerdictIsFinal
  <2>3. Verdict(i) \in GenuineStatuses /\ rows[i].status \notin GenuineStatuses
    BY <1>7, <2>2 DEF GenuineStatuses, RejectStatuses
  <2>4. /\ Pays(i, t, p)
        /\ Verdict(i) # "accepted" => Data' = Data
        /\ Verdict(i) = "accepted" => Data' = Data \cup {<<t, rows[i].result>>}
    BY <1>2, <1>4, <2>3, PayingRow
  <2>5. Affords(t, p)
    <3> HIDE DEF t, p
    <3> QED
      BY <1>1, <1>5, <2>1, CandidateAffords DEF t, p
  <2>6. ASSUME Verdict(i) = "accepted" PROVE \E b \in Behaviors : Wins(t, b)
    BY <2>1, <2>4, <2>6, CandidateWins
  <2> QED
    BY <1>2, <1>5, <2>4, <2>5, <2>6 DEF PaysFor
<1> QED
  BY <1>6, <1>7

LEMMA StepPays ==
  ASSUME Promised, [Next]_vars
  PROVE  Quiet \/ \E t \in Tasks, p \in Passes : PaysFor(t, p)
<1>1. Sched /\ IInv /\ Own /\ TypeOK /\ Steps
  BY StepKinds DEF Promised, Covered, Sched, IInv
<1>2. \A i \in DOMAIN rows : rows[i] \in Rows
  BY <1>1, RowsTyped
<1>3. CASE rows' = rows
  BY <1>3, QuietRows
<1>4. CASE \E w \in Workers : Worker(w)
  <2>1. PICK w \in Workers : Worker(w)
    BY <1>4
  <2>2. w \in InFlight /\ (Loses(w) \/ Opens(w) \/ Works(w) \/ Decides(w))
    BY <1>1, <2>1, WorkerRows
  <2>3. CASE Loses(w)
    BY <1>3, <2>3 DEF Loses
  <2>4. CASE Opens(w)
    BY <2>4, QuietRows DEF Opens, GenuineStatuses, RejectStatuses
  <2>5. CASE Works(w)
    <3> DEFINE r == pool[w].row
               n == [rows[r] EXCEPT !.work = TRUE]
    <3>1. Changed(r, n)
      BY <2>5 DEF Works
    <3>2. r \in DOMAIN rows
      BY <3>1 DEF Changed
    <3>3. n.status = rows[r].status /\ n.task = rows[r].task /\ n.pass = rows[r].pass
          /\ n.result = rows[r].result
      BY <1>2, <3>2, RowWork
    <3> HIDE DEF r, n
    <3> QED
      BY <3>1, <3>3, QuietRows DEF Changed
  <2>6. CASE Decides(w)
    BY <2>1, <2>2, <2>6, DecisionPays
  <2> QED
    BY <2>2, <2>3, <2>4, <2>5, <2>6
<1>5. CASE Applies
  BY <1>5, ApplicationPays
<1>6. CASE Publishes
  <2>0. PICK r : r = NextRow
    OBVIOUS
  <2> DEFINE n == [rows[r] EXCEPT !.files = @ + 1]
  <2>1. Changed(r, n) /\ r \in DOMAIN rows
    BY <1>6, <2>0 DEF Publishes
  <2>2. n.status = rows[r].status /\ n.task = rows[r].task /\ n.pass = rows[r].pass
        /\ n.result = rows[r].result
    BY <1>2, <2>1, RowFiles
  <2> HIDE DEF n
  <2> QED
    BY <2>1, <2>2, QuietRows DEF Changed
<1>7. CASE Boots
  <2>1. ASSUME NEW i \in DOMAIN rows
        PROVE  /\ rows'[i].task = rows[i].task /\ rows'[i].pass = rows[i].pass
               /\ rows'[i].result = rows[i].result
               /\ \/ rows'[i].status = rows[i].status
                  \/ rows[i].status = "in_progress" /\ rows'[i].status = "interrupted"
    <3>1. CASE rows[i].status = "in_progress"
      <4> DEFINE n == [rows[i] EXCEPT !.status = "interrupted"]
      <4>1. rows'[i] = n
        BY <1>7, <2>1, <3>1 DEF Boots
      <4>2. n.status = "interrupted" /\ n.task = rows[i].task /\ n.pass = rows[i].pass
            /\ n.result = rows[i].result
        BY <1>2, <2>1, RowStatus
      <4> HIDE DEF n
      <4> QED
        BY <3>1, <4>1, <4>2
    <3>2. CASE rows[i].status # "in_progress"
      BY <1>7, <2>1, <3>2 DEF Boots
    <3> QED
      BY <3>1, <3>2
  <2> QED
    BY <1>7, <2>1, QuietRows DEF Boots, GenuineStatuses, RejectStatuses
<1>8. CASE ReconcileDone \/ Selects \/ (\E w \in Workers : Submits(w)) \/ Joins \/ MainFault
           \/ Sigint \/ UNCHANGED vars
  BY <1>3, <1>8 DEF ReconcileDone, Selects, Idles, Reserves, Submits, Joins, MainFault,
                    Sigint, vars, ledger
<1>9. CASE (WithdrawReservation /\ KeepsFlights(InFlight))
           \/ (Collect /\ KeepsFlights(InFlight \ Finished))
  BY <1>3, <1>9 DEF KeepsFlights
<1>10. CASE Ends(saved) \/ Ends(mem)
  BY <1>3, <1>10 DEF Ends
<1> QED
  BY <1>1, <1>4, <1>5, <1>6, <1>7, <1>8, <1>9, <1>10 DEF Steps

\* The instance of the contract counts as this module does.
LEMMA SameCardinality == \A S : Contract!Cardinality(S) = Cardinality(S)
  BY DEF Contract!Cardinality, Cardinality

\* The step of the contract.
LEMMA ContractStep ==
  ASSUME Promised, [Next]_vars
  PROVE  [Contract!Next]_(Contract!vars)
<1> DEFINE D == {<<rows[i].task, rows[i].result>> : i \in AcceptedRows}
           F == [t \in Tasks |-> Paid(t, {"A"})]
           Q == [t \in Tasks |-> Paid(t, {"B", "C"})]
<1>1. D = Data /\ D' = Data'
  BY DEF Data, DataOf
<1>2. \A t, P : Paid(t, P) = Cardinality(PaidRows(t, P))
  BY DEF Paid, PaidRows
<1>3. \A t \in Tasks : F[t] = Cardinality(PaidRows(t, {"A"}))
                       /\ Q[t] = Cardinality(PaidRows(t, {"B", "C"}))
  BY <1>2
<1>4. \A t \in Tasks : F'[t] = Cardinality(PaidRows(t, {"A"})')
                       /\ Q'[t] = Cardinality(PaidRows(t, {"B", "C"})')
  BY DEF Paid, PaidRows
<1>5. CASE Quiet
  <2>1. \A t \in Tasks : F'[t] = F[t] /\ Q'[t] = Q[t]
    BY <1>3, <1>4, <1>5 DEF Quiet
  <2>2. F' = F /\ Q' = Q /\ D' = D
    BY <1>1, <1>5, <2>1 DEF Quiet
  <2> QED
    BY <2>2 DEF Contract!vars
<1>6. ASSUME NEW t \in Tasks, NEW p \in Passes, PaysFor(t, p) PROVE Contract!Next
  <2>1. PICK i \in Nat : Pays(i, t, p)
    BY <1>6 DEF PaysFor
  <2>2. \A P : IsFiniteSet(PaidRows(t, P))
    <3>1. TypeOK
      BY DEF Promised, Covered, Sched, IInv
    <3> QED
      BY <3>1, PaidAreGenuine, FS_Subset
  <2>3. \A u \in Tasks : \A P : ~(u = t /\ p \in P) => PaidRows(u, P)' = PaidRows(u, P)
    BY <2>1 DEF Pays
  <2>4. \A P : p \in P => Cardinality(PaidRows(t, P)') = Cardinality(PaidRows(t, P)) + 1
    BY <2>1, <2>2, CountOneMore DEF Pays
  <2>5. Contract!DemosOf(t) = DataFor(t)
    BY <1>1 DEF Contract!DemosOf, DataFor
  <2>6. Contract!Pay(t)
    <3>1. CASE p = "A"
      <4>1. /\ DataFor(t) = {} /\ F[t] < FirstCap
        BY <1>3, <1>6, <3>1 DEF PaysFor, Affords
      <4>2. F' = [F EXCEPT ![t] = @ + 1]
        <5>1. \A u \in Tasks : F'[u] = IF u = t THEN F[t] + 1 ELSE F[u]
          BY <1>3, <1>4, <2>3, <2>4, <3>1
        <5> QED
          BY <5>1
      <4>3. Q' = Q
        <5>1. \A u \in Tasks : Q'[u] = Q[u]
          BY <1>3, <1>4, <2>3, <3>1
        <5> QED
          BY <5>1
      <4> QED
        BY <2>5, <4>1, <4>2, <4>3 DEF Contract!Pay, Contract!Pending
    <3>2. CASE p # "A"
      <4>0. p \in {"B", "C"}
        BY <3>2 DEF Passes
      <4>1. /\ DataFor(t) # {} /\ Q[t] < PostCap
        BY <1>3, <1>6, <3>2 DEF PaysFor, Affords
      <4>2. Q' = [Q EXCEPT ![t] = @ + 1]
        <5>1. \A u \in Tasks : Q'[u] = IF u = t THEN Q[t] + 1 ELSE Q[u]
          BY <1>3, <1>4, <2>3, <2>4, <4>0
        <5> QED
          BY <5>1
      <4>3. F' = F
        <5>1. \A u \in Tasks : F'[u] = F[u]
          BY <1>3, <1>4, <2>3, <3>2
        <5> QED
          BY <5>1
      <4> QED
        BY <2>5, <4>1, <4>2, <4>3 DEF Contract!Pay, Contract!Pending
    <3> QED
      BY <3>1, <3>2
  <2>7. CASE Data' = Data
    <3>1. Contract!Miss(t)
      BY <1>1, <2>6, <2>7 DEF Contract!Miss
    <3> QED
      BY <3>1 DEF Contract!Next
  <2>8. ASSUME NEW b \in Behaviors, Wins(t, b) PROVE Contract!Next
    <3>1. Contract!Accept(t, b)
      <4>1. Contract!Cardinality(D) < Target
        <5>1. Contract!Cardinality(D) = Cardinality(Data)
          BY <1>1, SameCardinality, Zenon
        <5> HIDE DEF D
        <5> QED
          BY <5>1, <2>8 DEF Wins
      <4>2. Contract!Cardinality(Contract!DemosOf(t)) < DemoCap
        <5>1. Contract!Cardinality(Contract!DemosOf(t)) = Cardinality(DataFor(t))
          BY <2>5, SameCardinality, Zenon
        <5> HIDE DEF D
        <5> QED
          BY <5>1, <2>8 DEF Wins
      <4>3. <<t, b>> \notin D
        BY <1>1, <2>8, Zenon DEF Wins
      <4>4. D' = D \cup {<<t, b>>}
        BY <1>1, <2>8, Zenon DEF Wins
      <4> QED
        BY <4>1, <4>2, <4>3, <4>4, <2>6, Zenon DEF Contract!Accept
    <3> QED
      BY <3>1 DEF Contract!Next
  <2> QED
    BY <1>6, <2>7, <2>8 DEF PaysFor
<1> QED
  BY <1>5, <1>6, StepPays

LEMMA ContractInit == Init => Contract!Init
<1> SUFFICES ASSUME Init PROVE Contract!Init
  OBVIOUS
<1>1. DOMAIN rows = {} /\ AcceptedRows = {}
  BY DEF Init, AcceptedRows
<1>2. \A t, P : Paid(t, P) = Cardinality({})
  BY <1>1 DEF Paid
<1>3. Cardinality({}) = 0
  BY FS_EmptySet
<1>4. \A t, P : Paid(t, P) = 0
  BY <1>2, <1>3
<1> QED
  BY <1>1, <1>4 DEF Contract!Init

\* Through every interleaving, failure, crash and restart, the attempts table is the
\* contract's dataset, each attempt paid from the right budget of its task.
THEOREM CollectorKeepsItsContract == Spec => ImplementsContract
<1>1. Init => Promised /\ Contract!Init
  <2>1. Init => AcceptedAreDistinct
    BY DEF Init, AcceptedAreDistinct, AcceptedRows
  <2> QED
    BY <2>1, SchedInit, BudgetsInit, EarnedInit, QuotaInit, ContractInit
    DEF Covered, Promised
<1>2. Promised /\ [Next]_vars => Promised'
  <2> SUFFICES ASSUME Promised, [Next]_vars PROVE Promised'
    OBVIOUS
  <2>1. Covered /\ Quota /\ AcceptedAreDistinct /\ Sched /\ Budgets /\ Earned
    BY DEF Promised, Covered
  <2>2. Covered'
    BY <2>1, SchedStep, BudgetsStep, EarnedStep, ReservedStep DEF Covered
  <2>3. Quota'
    BY <2>1, <2>2, QuotaStep
  <2>4. AcceptedAreDistinct'
    BY <2>1, AcceptedAreDistinctStep DEF Sched
  <2> QED
    BY <2>2, <2>3, <2>4 DEF Promised
<1>3. Promised /\ [Next]_vars => [Contract!Next]_(Contract!vars)
  BY ContractStep
<1> QED
  BY <1>1, <1>2, <1>3, PTL DEF Spec, ImplementsContract, Contract!Spec

=============================================================================
