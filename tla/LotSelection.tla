---------------------------- MODULE LotSelection ----------------------------
(***************************************************************************)
(* The ranking of a portfolio's approved lots and their selection against  *)
(* the harvesting target (harvesting.py rank_key, select_against_target,   *)
(* harvesting_target; analysis.py _evaluate_and_rank_portfolio): the lots  *)
(* are taken in rank order, each as far as the lot, the mirrored position  *)
(* and what is left of the target allow.                                   *)
(*                                                                         *)
(* A quantity and an amount are integers: 1/Precision of a share, and      *)
(* 1/Precision of the unit that amounts are quantized to.                  *)
(***************************************************************************)
EXTENDS DecimalCents, FiniteSets

CONSTANTS
  Lots,        \* tax lots: integers, the order of their ids
  Symbols,     \* what they are lots of
  SymbolOf,    \* the symbol of a lot
  Precision,   \* steps of a division within one unit
  Quantities,  \* of a lot, and of a mirrored position
  Bases,       \* per-unit bases
  Prices,      \* quotes the lots were evaluated with
  Dates,       \* acquisition dates
  Results      \* realized results of sales, gains and losses

ASSUME SelectionAssumption ==
  /\ Lots \subseteq Int /\ IsFiniteSet(Lots)
  /\ SymbolOf \in [Lots -> Symbols]
  /\ Precision \in Nat \ {0}
  /\ Quantities \subseteq Int /\ Bases \subseteq Int /\ Prices \subseteq Nat
  /\ Dates \subseteq Int /\ Results \subseteq Int

\* A lot loses less on a share than the division has steps: the decimal context
\* of 28 digits has steps enough for any price.
ASSUME PrecisionAssumption ==
  \A basis \in Bases, quote \in Prices : basis - quote < Precision

VARIABLES
  lot,      \* quantity, basis and acquisition date of each lot
  price,    \* evaluation.quote of a symbol
  mirror,   \* the mirrored position, asked for again at the ranking
  target,   \* harvesting_target
  allow,    \* harvest_allow_exceed_target
  todo,     \* approved lots the loop has not met
  rank,     \* of the lot it met last
  left,     \* what is left of the target
  picked    \* per lot: selected_quantity, usable_loss and rank, or zeros

inputs == <<lot, price, mirror, target, allow>>
vars == <<inputs, todo, rank, left, picked>>

---------------------------------------------------------------------------
(* The items that are ranked.                                              *)

Loss(l)  == lot[l].basis - price[SymbolOf[l]]
Total(l) == Loss(l) * lot[l].qty
Cost(l)  == price[SymbolOf[l]] * lot[l].qty
Approved == {l \in Lots : lot[l].qty > 0 /\ Total(l) > 0}

\* risk_improvement and drift_improvement: both the weight of the asset, here
\* the value of its lots.
Value(s) ==
  LET held[S \in SUBSET Lots] ==
        IF S = {} THEN 0
        ELSE LET l == CHOOSE x \in S : TRUE
             IN  (IF SymbolOf[l] = s THEN Cost(l) ELSE 0) + held[S \ {l}]
  IN  held[Lots]

\* The replacement is known and the turnover is 0 for every approved lot.
RisingKey(l) == <<Total(l), Value(SymbolOf[l]), Cost(l), lot[l].acquired, l>>
RankKey(l) == <<-Total(l), -Value(SymbolOf[l]), Cost(l), lot[l].acquired, l>>

Below(a, b) ==
  \E i \in DOMAIN a : a[i] < b[i] /\ \A j \in 1..(i - 1) : a[j] = b[j]
Outranks(a, b) == Below(RankKey(a), RankKey(b))

First(l) == l \in todo /\ \A m \in todo \ {l} : Outranks(l, m)

---------------------------------------------------------------------------
(* The quantity and the loss taken of a lot.                               *)

Lower(a, b) == IF a < b THEN a ELSE b
LotQuantity(l) == lot[l].qty
Capacity(l) == Lower(lot[l].qty, mirror[SymbolOf[l]])

WholeLot(l) == Capacity(l)
Needed(l) == HalfEven(left, Loss(l))
Quantize(x) == Precision * HalfEven(x, Precision)

\* What is taken without rounding, or exactly what is left.
Exact(l, q) ==
  IF q * Loss(l) <= left THEN [qty |-> q, usable |-> q * Loss(l)]
  ELSE [qty |-> Needed(l), usable |-> left]

Rounded(l) ==
  LET q == Lower(Capacity(l), Needed(l))
      u == Quantize(q * Loss(l))
  IN  IF allow \/ u <= left THEN [qty |-> q, usable |-> u] ELSE Exact(l, q)

Capped(l, t) ==
  IF t.qty <= Capacity(l) THEN t
  ELSE IF allow THEN [qty |-> Capacity(l), usable |-> Capacity(l) * Loss(l)]
  ELSE Exact(l, Capacity(l))

Taken(l) == Capped(l, Rounded(l))

---------------------------------------------------------------------------
Nothing == [qty |-> 0, usable |-> 0, rank |-> 0]

\* The positive net of short-term and long-term results.
HarvestingTarget(short, long) ==
  IF short + long > 0 THEN (short + long) * Precision ELSE 0

Init ==
  /\ lot \in [Lots -> [qty: Quantities, basis: Bases, acquired: Dates]]
  /\ price \in [Symbols -> Prices]
  /\ mirror \in [Symbols -> Quantities \cup {0}]
  /\ \E short, long \in Results : target = HarvestingTarget(short, long)
  /\ allow \in BOOLEAN
  /\ todo = Approved
  /\ rank = 0
  /\ left = target
  /\ picked = [l \in Lots |-> Nothing]

Meets(l) ==
  /\ First(l)
  /\ todo' = todo \ {l}
  /\ rank' = rank + 1
  /\ UNCHANGED inputs

\* The loop ends with the target: at once, or with allow_exceed at the next
\* lot that could be sold.
Stop ==
  /\ todo # {}
  /\ left <= 0
  /\ ~allow \/ \E l \in todo : First(l) /\ Capacity(l) > 0
  /\ todo' = {}
  /\ UNCHANGED <<inputs, rank, left, picked>>

Skip(l) ==
  /\ Meets(l)
  /\ left > 0 \/ allow
  /\ Capacity(l) <= 0 \/ (left > 0 /\ Lower(Capacity(l), Needed(l)) <= 0)
  /\ UNCHANGED <<left, picked>>

Take(l) ==
  LET t == Taken(l) IN
  /\ Meets(l)
  /\ left > 0
  /\ Lower(Capacity(l), Needed(l)) > 0
  /\ left' = left - t.usable
  /\ picked' = [picked EXCEPT ![l] =
                  [qty |-> t.qty, usable |-> t.usable, rank |-> rank + 1]]

\* The evaluations are written and the transaction commits.
Ranked == todo = {} /\ UNCHANGED vars

Next == Stop \/ (\E l \in Lots : Skip(l) \/ Take(l)) \/ Ranked

Spec == Init /\ [][Next]_vars

---------------------------------------------------------------------------
(* Properties.                                                             *)

\* The variables keep their types.
TypeOK ==
  /\ target \in Nat
  /\ todo \subseteq Approved
  /\ rank \in 0..Cardinality(Lots)
  /\ left \in Int
  /\ picked \in [Lots -> [qty: Nat, usable: Nat, rank: 0..Cardinality(Lots)]]

Sum(f, S) ==
  LET total[T \in SUBSET S] ==
        IF T = {} THEN 0
        ELSE LET x == CHOOSE y \in T : TRUE IN f[x] + total[T \ {x}]
  IN  total[S]

Usable == [l \in Lots |-> picked[l].usable]

\* What is there to sell of each lot.
Reach ==
  [l \in Lots |->
     IF l \in Approved /\ Capacity(l) > 0 THEN Capacity(l) * Loss(l) ELSE 0]

\* The losses selected are the target or, when all the approved lots together
\* do not reach it, all there is to sell, but for half a unit of quantize() a
\* lot, and never more than the target: no order, rounding or setting oversteps
\* it, and none leaves a part of it while there is something to sell.
TargetIsMet ==
  LET used == Sum(Usable, Lots)
      due  == Lower(target, Sum(Reach, Lots))
  IN  /\ used = target - left
      /\ used <= target
      /\ todo = {} => /\ 2 * (used - due) <= Precision * Cardinality(Lots)
                     /\ 2 * (due - used) <= Precision * Cardinality(Lots)

\* "never exceed lot/mirror qty" (REQUIREMENTS_MATRIX.md): a selected quantity
\* is covered by its lot and by the position asked for at the ranking.
SelectedIsOwned ==
  \A l \in Lots :
    picked[l].qty > 0 =>
      picked[l].qty <= lot[l].qty /\ picked[l].qty <= mirror[SymbolOf[l]]

\* A lot is sold only when every approved lot with a larger loss is sold as far
\* as it can be, and ranks follow the losses.
LargestFirst ==
  \A a, b \in Lots :
    /\ picked[b].qty > 0
    /\ Total(a) > Total(b)
    /\ Capacity(a) > 0
    => /\ picked[a].qty = Capacity(a)
       /\ 0 < picked[a].rank /\ picked[a].rank < picked[b].rank
=============================================================================
