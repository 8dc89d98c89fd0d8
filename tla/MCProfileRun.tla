----------------------------- MODULE MCProfileRun -----------------------------
EXTENDS ProfileRun

CONSTANTS t1, t2

One == <<t1>>
Two == <<t1, t2>>

\* An older run that was left, and two younger ones that cannot be taken for this one.
Others == {[created |-> 0, status |-> "stopped", same |-> TRUE],
           [created |-> 2, status |-> "complete", same |-> TRUE],
           [created |-> 3, status |-> "infrastructure_interrupted", same |-> FALSE]}

=============================================================================
