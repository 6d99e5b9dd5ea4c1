--------------------------- MODULE MCAnalysisRun ---------------------------
(***************************************************************************)
(* Instances of AnalysisRun for TLC.                                       *)
(***************************************************************************)
EXTENDS AnalysisRun, TLC

CONSTANTS p1, p2, l1, l2

\* All runs on one day.
SameDay == [k \in Keys |-> "day"]

\* The two lots in one portfolio, or in one each.
Together == [l \in Lots |-> p1]
Apart    == [l \in Lots |-> IF l = l1 THEN p1 ELSE p2]
One      == [l \in Lots |-> p1]

\* No request is named by the specification.
AnyOrder == Permutations(Requests)

=============================================================================
