-------------------------- MODULE CollectionContract --------------------------
(***************************************************************************)
(* What the formal collection promises, without threads, ledger or         *)
(* restarts: a dataset that grows one distinct demonstration at a time,    *)
(* where every attempt, successful or not, is paid from the budget of its  *)
(* task, and nothing is accepted beyond the target of the dataset.         *)
(***************************************************************************)
EXTENDS Integers, FiniteSets

CONSTANTS Tasks, Behaviors, Target, FirstCap, PostCap, DemoCap

VARIABLES
  dataset,   \* the accepted demonstrations, <<task, behaviour>>
  first,     \* attempts made while the task had no demonstration yet
  post       \* attempts made for a second or third one

vars == <<dataset, first, post>>

DemosOf(t) == {d \in dataset : d[1] = t}
Pending(t) == DemosOf(t) = {}

Init ==
  /\ dataset = {}
  /\ first = [t \in Tasks |-> 0]
  /\ post = [t \in Tasks |-> 0]

\* A genuine attempt is paid from the coverage budget until the task has its
\* first demonstration, from the post-success budget afterwards.
Pay(t) ==
  \/ /\ Pending(t) /\ first[t] < FirstCap
     /\ first' = [first EXCEPT ![t] = @ + 1]
     /\ UNCHANGED post
  \/ /\ ~Pending(t) /\ post[t] < PostCap
     /\ post' = [post EXCEPT ![t] = @ + 1]
     /\ UNCHANGED first

\* The attempt adds a demonstration that differs from the task's others.
Accept(t, b) ==
  /\ Cardinality(dataset) < Target
  /\ Cardinality(DemosOf(t)) < DemoCap
  /\ <<t, b>> \notin dataset
  /\ dataset' = dataset \cup {<<t, b>>}
  /\ Pay(t)

\* The attempt fails, or its demonstration is rejected.
Miss(t) == Pay(t) /\ UNCHANGED dataset

Next == \E t \in Tasks : Miss(t) \/ \E b \in Behaviors : Accept(t, b)

Spec == Init /\ [][Next]_vars

=============================================================================
