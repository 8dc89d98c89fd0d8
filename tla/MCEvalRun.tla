------------------------------ MODULE MCEvalRun ------------------------------
EXTENDS EvalRun

=============================================================================
