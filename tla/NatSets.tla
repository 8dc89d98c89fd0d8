------------------------------- MODULE NatSets -------------------------------
(***************************************************************************)
(* Searches that take the first candidate in numerical order.              *)
(***************************************************************************)
EXTENDS Integers, FiniteSets

\* The first element of a sorted, or an enumerated, set of numbers.
First(S) == CHOOSE s \in S : \A u \in S : s <= u

=============================================================================
