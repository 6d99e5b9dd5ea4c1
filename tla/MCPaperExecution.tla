-------------------------- MODULE MCPaperExecution --------------------------
(***************************************************************************)
(* Instances of PaperExecution for TLC.                                    *)
(***************************************************************************)
EXTENDS PaperExecution

CONSTANTS c1, c2, l1, l2

\* Two analysis runs picked the same lot; the account holds another lot of the
\* same symbol, so the position alone does not stop a second sale.
OneLotTwice == [c \in {c1, c2} |-> l1]
SmallLots == [l \in {l1, l2} |-> 2]

\* A single candidate and its lot.
OwnLot == [c \in {c1} |-> l1]

\* The ranking selected one share of two; or nothing.
SelectOne == [c \in Candidates |-> 1]
SelectNone == [c \in Candidates |-> 0]

\* Fills and closed orders; and fills in two parts.
FillsAndCloses == {"filled", "canceled", "expired", "rejected"}
PartialFills == {"partially_filled", "filled", "pending_cancel"}

=============================================================================
