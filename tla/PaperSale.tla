----------------------------- MODULE PaperSale -----------------------------
(***************************************************************************)
(* What the paper SELL workflow promises for a candidate: after an offer   *)
(* (a prepared snapshot with its token) the broker gets one order or none, *)
(* and that order is recorded once or not at all.  Neither is undone.      *)
(***************************************************************************)
CONSTANTS
  Candidates,
  Requests     \* the requests that may place or record an order

VARIABLES
  offered,     \* candidates that were prepared at least once
  placed,      \* broker orders of a candidate
  recorded     \* rows that record its order

vars == <<offered, placed, recorded>>

Init ==
  /\ offered = {}
  /\ placed = [c \in Candidates |-> {}]
  /\ recorded = [c \in Candidates |-> {}]

Offer(c) ==
  /\ offered' = offered \cup {c}
  /\ UNCHANGED <<placed, recorded>>

Place(c) ==
  /\ c \in offered
  /\ placed[c] = {}
  /\ \E r \in Requests : placed' = [placed EXCEPT ![c] = {r}]
  /\ UNCHANGED <<offered, recorded>>

Record(c) ==
  /\ placed[c] # {}
  /\ recorded[c] = {}
  /\ \E r \in Requests : recorded' = [recorded EXCEPT ![c] = {r}]
  /\ UNCHANGED <<offered, placed>>

Next == \E c \in Candidates : Offer(c) \/ Place(c) \/ Record(c)

Spec == Init /\ [][Next]_vars

=============================================================================
