------------------------------ MODULE MCGrpoRun ------------------------------
EXTENDS GrpoRun

\* Epochs of three tasks, shuffled by two seeds.
MCOrder == <<<<"t1", "t2", "t3", "t2", "t3", "t1">>, <<"t2", "t1", "t3", "t3", "t1", "t2">>>>

Formal(groups, steps, horizon) ==
  [seed |-> 1, groups |-> groups, steps |-> steps, micro |-> 2, horizon |-> horizon,
   admission |-> FALSE]

Admission(steps, horizon) == [Formal(1, steps, horizon) EXCEPT !.admission = TRUE]

\* A formal run launched as it should be, with another seed, with other groups, and
\* with a microbatch or a horizon that validate refuses.
FormalConfigs ==
  {Formal(1, 3, 0), [Formal(1, 3, 0) EXCEPT !.seed = 2], Formal(2, 3, 0),
   [Formal(1, 3, 0) EXCEPT !.micro = 3], Formal(1, 3, 2)}

\* Admission in phases, and the same with other groups or without --admission.
AdmissionConfigs ==
  {Admission(1, 4), Admission(2, 4), Admission(3, 4),
   [Admission(3, 4) EXCEPT !.groups = 2], Formal(1, 3, 4)}

AllConfigs == FormalConfigs \cup AdmissionConfigs

Unscheduled == {Admission(1, 0), Admission(2, 0), Admission(3, 0)}
=============================================================================
