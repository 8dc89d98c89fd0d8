-------------------------- MODULE MCConcurrencyProbe --------------------------
EXTENDS ConcurrencyProbe

CONSTANTS t1, t2, t3

Three == <<t1, t2, t3>>

=============================================================================
