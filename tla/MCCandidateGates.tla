------------------------- MODULE MCCandidateGates --------------------------
(***************************************************************************)
(* Three days, the second without a session; a wash-sale window and a      *)
(* demo allowance of a day, a window of two days for the coin; a lot that  *)
(* passes, and lots with a flaw each.                                      *)
(***************************************************************************)
EXTENDS CandidateGates

Profile == [crypto |-> 40, single |-> 60, equity |-> 90, notional |-> 4]
Sound ==
  [taxable |-> TRUE, eligible |-> TRUE, basis |-> 5, qty |-> 2, calendar |-> TRUE,
   foreign |-> FALSE, mirror |-> 2, listed |-> 2, replacement |-> "allowed", tradable |-> TRUE, sold |-> FALSE,
   values |-> [lot |-> 8, bond |-> 6, share |-> 6, coin |-> 2],
   limit |-> Profile]

MCPurchases ==
  {<<"etf", "order">>, <<"twin", "dividend">>, <<"coin", "order">>, <<"coin", "dividend">>}

Period(a, b, demo) == [start |-> a, end |-> b, current |-> demo]
MCIssued ==
  {Period(0, 0, FALSE), Period(0, 1, FALSE), Period(0, 1, TRUE),
   Period(1, 2, FALSE)}

MCFacts ==
  {Sound,
   [Sound EXCEPT !.taxable = FALSE], [Sound EXCEPT !.eligible = FALSE],
   [Sound EXCEPT !.basis = -1], [Sound EXCEPT !.basis = 0],
   [Sound EXCEPT !.basis = 2], [Sound EXCEPT !.basis = 3],
   [Sound EXCEPT !.qty = 0], [Sound EXCEPT !.qty = 3],
   [Sound EXCEPT !.calendar = FALSE], [Sound EXCEPT !.foreign = TRUE],
   [Sound EXCEPT !.mirror = 0], [Sound EXCEPT !.mirror = 1], [Sound EXCEPT !.listed = 1],
   [Sound EXCEPT !.replacement = "none"], [Sound EXCEPT !.replacement = "identical"],
   [Sound EXCEPT !.tradable = FALSE], [Sound EXCEPT !.sold = TRUE],
   [Sound EXCEPT !.limit.single = 20], [Sound EXCEPT !.limit.notional = 3]}
=============================================================================
