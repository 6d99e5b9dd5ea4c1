------------------------ MODULE MCConflictIdentities -----------------------
(***************************************************************************)
(* Runs of two as-of dates and two clocks on two lots.                     *)
(***************************************************************************)
EXTENDS ConflictIdentities, TLC

CONSTANTS r1, r2, r3, l1, l2

\* A conflict with a window on one lot, a stale quote on the other.
OneOfEach == [l \in Lots |-> IF l = l1 THEN {"late"} ELSE {"early"}]

\* So that a window is over on the second day.
NoDays == [l \in Lots |-> 0]

Interchangeable == Permutations(Runs)
=============================================================================
