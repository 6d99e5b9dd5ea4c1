-------------------------- MODULE MCLotSelection ---------------------------
(***************************************************************************)
(* Three lots, two of them of one symbol: losses that divide the target    *)
(* and losses that do not, ties, whole and half shares.                    *)
(***************************************************************************)
EXTENDS LotSelection

GainsAndLosses == {-3, 4, 11}
TwoAndOne == [l \in Lots |-> IF l = 3 THEN "b" ELSE "a"]
=============================================================================
