--------------------------- MODULE CandidateGates ---------------------------
(***************************************************************************)
(* The gates a pending lot passes on its way to an approval (harvesting.py *)
(* evaluate_candidate, _apply_gates; freshness.py, quote_freshness.py,     *)
(* portfolio.py), and the world they look at: days on which the user buys, *)
(* statements that list what was bought in their period, and sessions.     *)
(*                                                                         *)
(* The evaluation asks its providers one after another and its database    *)
(* last: time passes, the user buys and uploads between the quote, the     *)
(* statement and the gates. The mirrored position is traded by somebody    *)
(* else: the two questions about it get unrelated answers, two facts.      *)
(***************************************************************************)
EXTENDS Integers, FiniteSets

CONSTANTS
  MaxDay,         \* bound: the days of a behaviour
  TradingDays,    \* those with a session
  CalendarDays,   \* how far back the sessions are asked for
  MaxAge,         \* quote_max_age_minutes, in ticks
  DemoMaxAge,     \* demo_statement_max_age_days
  WashWindow,     \* wash_sale_window_days
  CryptoWindow,   \* crypto_repurchase_window_days
  MinLoss,        \* min_loss_threshold
  Price,          \* of a valid quote
  MaxDelay,       \* bound: the ticks an evaluation takes
  Purchases,      \* bound: <<asset, way>> pairs, what the user may buy
  MaxBuys,        \* bound: what the user buys
  Issued,         \* bound: the statements the user may upload
  MaxStatements,  \* bound: how many of them
  Facts           \* rows of the account, the lot and its asset, and answers
                  \* of the providers: what evaluate_candidate may be given

ASSUME GatesAssumption ==
  /\ MaxDay \in Nat /\ TradingDays \subseteq 0..MaxDay /\ MaxAge \in Nat
  /\ CalendarDays \in Nat /\ DemoMaxAge \in Nat
  /\ WashWindow \in Nat /\ CryptoWindow \in Nat
  /\ Price \in Nat \ {0} /\ MaxDelay \in Nat
  /\ \A s \in Issued : s.start \in Nat /\ s.end \in Nat /\ s.start <= s.end

VARIABLES
  asset,       \* what the lot is of: "etf" or "coin"
  now,         \* the time: three ticks a day
  bought,      \* what the user has bought, whether a statement shows it or not
  statements,  \* statements: period and current-demo marker
  pc,          \* next step of the evaluation
  ctx,         \* GateContext: what it was given and has read
  decision     \* the evaluation stored

vars == <<asset, now, bought, statements, pc, ctx, decision>>
world == <<asset, now, bought, statements>>

---------------------------------------------------------------------------
(* Time: a day is a tick before its session, one of it and one after.      *)

Ticks  == 0..(3 * MaxDay + 2)
Day(t) == t \div 3
Today  == Day(now)

Opens(d)  == 3 * d + 1
Closes(d) == 3 * d + 2
IsOpen(t) == \E d \in TradingDays : Opens(d) <= t /\ t < Closes(d)
Calendar(t) == {d \in TradingDays : Day(t) - CalendarDays <= d /\ d <= Day(t) + 1}

---------------------------------------------------------------------------
(* Rows.                                                                   *)

\* What is bought: the asset, another fund that is substantially identical to
\* the etf, or the coin; on an order or by a reinvested dividend.
Assets == {"etf", "twin", "coin"}
Identical == {"etf", "twin"}
Acquisition == [asset: Assets, day: 0..MaxDay, how: {"order", "dividend"}]

Statement == [start: 0..MaxDay, end: 0..MaxDay, current: BOOLEAN]

\* The rows a statement brings: the acquisitions of its period.
Listed == {b \in bought : \E s \in statements : s.start <= b.day /\ b.day <= s.end}

NoQuote == [price |-> 0, ts |-> -1, alpaca |-> FALSE]
Quotes  == {NoQuote, [price |-> 0, ts |-> now, alpaca |-> TRUE]}
             \cup [price: {Price}, ts: 0..now, alpaca: {TRUE}]
             \cup [price: {Price}, ts: {now, now - 2} \cap Ticks, alpaca: {FALSE}]

NoStatement == [start |-> 0, end |-> -1, current |-> FALSE]
NoContext   == [asOf |-> 0, asked |-> 0, quote |-> NoQuote,
                statement |-> NoStatement]
Undecided   == [code |-> "NONE", asOf |-> 0, quote |-> NoQuote]

---------------------------------------------------------------------------
(* assess_quote_freshness.                                                 *)

OlderThan(t, q) == t - q.ts > MaxAge

\* The clock's day, which an as-of date may lie behind.
AsOfTime(c, t) == c.asOf
MarketTime(c, t) == t

Completed(t) == {d \in Calendar(t) : Closes(d) <= t}
Last(t) == {d \in Completed(t) : \A e \in Completed(t) : Closes(e) <= Closes(d)}
NextOpen(t) ==
  LET later == {Opens(d) : d \in {e \in TradingDays : Opens(e) > t}}
                 \cup {Opens(MaxDay + 1)}
  IN  CHOOSE o \in later : \A p \in later : o <= p

\* What calendar answers is a fact of the evaluation: FALSE when it fails.
ByCalendar(q) == q.alpaca /\ asset = "etf"

NoCalendar(q, f) ==
  /\ ByCalendar(q)
  /\ ~f.calendar \/ (~IsOpen(now) /\ Completed(now) = {})

UnavailableQuote(c, f) ==
  \/ c.quote = NoQuote
  \/ c.quote.price <= 0
  \/ NoCalendar(c.quote, f)

StaleQuote(c) ==
  LET q == c.quote IN
  IF ~ByCalendar(q) THEN OlderThan(c.asOf, q)
  ELSE IF IsOpen(now) THEN OlderThan(MarketTime(c, now), q)
  ELSE (\E d \in Last(now) : q.ts < Opens(d)) \/ q.ts >= NextOpen(now)

---------------------------------------------------------------------------
(* _freshness_or_reconciliation.                                           *)

DataStale(c) ==
  IF c.statement.current THEN Day(c.asOf) - c.statement.end > DemoMaxAge
  ELSE c.statement.end < Day(c.asOf)

\* wash_sale_coverage_complete: the wash-sale window, whatever the asset.
FromTheStart(c) == c.statement.start <= Day(c.asOf) - WashWindow
Covered(c) == FromTheStart(c) /\ c.statement.end >= Day(c.asOf)

\* Positions of other symbols are a fact; more of this one than the lots.
Mismatched(f) == f.foreign \/ f.listed > f.qty

---------------------------------------------------------------------------
(* _wash_or_crypto_conflict, on the rows of the statements.                *)

GateWindow == IF asset = "etf" THEN WashWindow ELSE CryptoWindow

Around(b, c) ==
  Day(c.asOf) - GateWindow <= b.day /\ b.day <= Day(c.asOf) + GateWindow

Replaces(b) ==
  IF asset = "etf" THEN b.asset \in Identical
  ELSE b.asset = "coin" /\ b.how = "order"

RepurchaseConflict(c) == \E b \in Listed : Around(b, c) /\ Replaces(b)

---------------------------------------------------------------------------
(* _risk_violation: the weights after the sale, in percent.                *)

\* A sale of more than the lot's asset is worth leaves nothing of it.
After(f) ==
  LET sale == Price * f.qty
  IN  [f.values EXCEPT !.lot = IF @ > sale THEN @ - sale ELSE 0]

\* The other holdings are a bond, a share and a coin.
Total(v)      == v.lot + v.bond + v.share + v.coin
ClassOf(v, k) == v[k] + IF k = (IF asset = "etf" THEN "share" ELSE "coin") THEN v.lot ELSE 0

\* A share of nothing is above no limit.
Above(part, v, limit) == 100 * part > limit * Total(v)

\* The lot's own class is never "bond" here: selling a bond fund below the
\* minimum is one more reason for the same rejection.
RiskViolation(f) ==
  LET v == After(f) IN
  \/ Above(ClassOf(v, "coin"), v, f.limit.crypto)
  \/ \E a \in DOMAIN v : Above(v[a], v, f.limit.single)
  \/ Above(ClassOf(v, "share"), v, f.limit.equity)

---------------------------------------------------------------------------
(* _apply_gates: the code of the first gate that is not passed.            *)

Quantity(f) == IF f.mirror >= f.qty THEN f.qty ELSE f.mirror
NotOwned(f) == Quantity(f) <= 0 \/ f.listed < Quantity(f)

Gates ==
  <<"NOT_TAXABLE_ACCOUNT", "INELIGIBLE_ASSET_TYPE", "MISSING_BASIS",
    "INVALID_BASIS", "NON_POSITIVE_QUANTITY", "UNAVAILABLE_QUOTE",
    "STALE_QUOTE", "PROFITABLE_LOT", "BELOW_THRESHOLD", "NO_STATEMENT",
    "DATA_STALE", "INCOMPLETE_HISTORY", "POSITION_MISMATCH",
    "REPURCHASE_CONFLICT", "RISK_PROFILE_VIOLATION", "MAX_TRADE_SIZE",
    "UNKNOWN_REPLACEMENT", "REPLACEMENT_NOT_ALLOWED", "NOT_TRADABLE",
    "INSUFFICIENT_MIRROR_QUANTITY", "NOT_OWNED", "PREVIOUSLY_EXECUTED">>

TotalLoss(f) == (f.basis - Price) * f.qty

Fails(gate, c, f) ==
  CASE gate = "NOT_TAXABLE_ACCOUNT"   -> ~f.taxable
    [] gate = "INELIGIBLE_ASSET_TYPE" -> ~f.eligible
    [] gate = "MISSING_BASIS"         -> f.basis = -1
    [] gate = "INVALID_BASIS"         -> f.basis <= 0
    [] gate = "NON_POSITIVE_QUANTITY" -> f.qty <= 0
    [] gate = "UNAVAILABLE_QUOTE"     -> UnavailableQuote(c, f)
    [] gate = "STALE_QUOTE"           -> StaleQuote(c)
    [] gate = "PROFITABLE_LOT"        -> TotalLoss(f) <= 0
    [] gate = "BELOW_THRESHOLD"       -> TotalLoss(f) < MinLoss
    [] gate = "NO_STATEMENT"          -> c.statement = NoStatement
    [] gate = "DATA_STALE"            -> DataStale(c)
    [] gate = "INCOMPLETE_HISTORY"    -> ~Covered(c)
    [] gate = "POSITION_MISMATCH"     -> Mismatched(f)
    [] gate = "REPURCHASE_CONFLICT"   -> RepurchaseConflict(c)
    [] gate = "RISK_PROFILE_VIOLATION" -> RiskViolation(f)
    [] gate = "MAX_TRADE_SIZE"        -> Price * f.qty > f.limit.notional
    [] gate = "UNKNOWN_REPLACEMENT"   -> f.replacement \in {"none", "unknown"}
    [] gate = "REPLACEMENT_NOT_ALLOWED" -> f.replacement \in {"prohibited", "identical"}
    [] gate = "NOT_TRADABLE"          -> ~f.tradable
    [] gate = "INSUFFICIENT_MIRROR_QUANTITY" -> f.mirror <= 0
    [] gate = "NOT_OWNED"             -> NotOwned(f)
    [] gate = "PREVIOUSLY_EXECUTED"   -> f.sold

Failed(c, f) == {i \in DOMAIN Gates : Fails(Gates[i], c, f)}

\* The one code there is.
Verdicts(c, f) ==
  LET failed == Failed(c, f)
  IN  IF failed = {} THEN {"APPROVED"}
      ELSE {Gates[i] : i \in {k \in failed : \A j \in failed : k <= j}}

---------------------------------------------------------------------------
Init ==
  /\ asset \in {"etf", "coin"}
  /\ now = 0
  /\ bought = {}
  /\ statements = {}
  /\ pc = "idle"
  /\ ctx = NoContext
  /\ decision = Undecided

Evaluation == <<pc, ctx, decision>>

Tick ==
  /\ pc # "done"
  /\ now + 1 \in Ticks
  /\ pc # "idle" => now < ctx.asked + MaxDelay
  /\ now' = now + 1
  /\ UNCHANGED <<asset, bought, statements, Evaluation>>

\* A statement is made out when the purchases of its last day are known.
Buy(a, how) ==
  /\ pc # "done"
  /\ Cardinality(bought) < MaxBuys
  /\ \A s \in statements : s.end < Today
  /\ bought' = bought \cup {[asset |-> a, day |-> Today, how |-> how]}
  /\ UNCHANGED <<asset, now, statements, Evaluation>>

Upload(s) ==
  /\ pc # "done"
  /\ Cardinality(statements) < MaxStatements
  /\ s.end <= Today
  /\ statements' = statements \cup {s}
  /\ UNCHANGED <<asset, now, bought, Evaluation>>

---------------------------------------------------------------------------
(* evaluate_candidate.                                                     *)

\* Bound: as of now, or of the end of an earlier day.
AsOfs == {t \in 0..now : t = now \/ (t = Closes(Day(t)) /\ Day(t) < Today)}

\* quote_for_asset_type.
Fetch(asOf, q) ==
  /\ pc = "idle"
  /\ pc' = "list"
  /\ ctx' = [NoContext EXCEPT !.asOf = asOf, !.asked = now, !.quote = q]
  /\ UNCHANGED <<world, decision>>

\* The questions to the broker, then the statement whose period ends last.
Newest == {s \in statements : \A t \in statements : t.end <= s.end}
List ==
  /\ pc = "list"
  /\ pc' = "gates"
  /\ \E s \in IF statements = {} THEN {NoStatement} ELSE Newest :
       ctx' = [ctx EXCEPT !.statement = s]
  /\ UNCHANGED <<world, decision>>

Decide(f) ==
  /\ pc = "gates"
  /\ pc' = "done"
  /\ \E code \in Verdicts(ctx, f) :
       decision' = IF code = "APPROVED"
                   THEN [code |-> code, asOf |-> ctx.asOf, quote |-> ctx.quote]
                   ELSE [Undecided EXCEPT !.code = code]
  /\ ctx' = NoContext
  /\ UNCHANGED world

\* Bound: one evaluation a behaviour.
Decided == pc = "done" /\ UNCHANGED vars

Next ==
  \/ Tick
  \/ \E p \in Purchases : Buy(p[1], p[2])
  \/ \E s \in Issued : Upload(s)
  \/ \E asOf \in AsOfs, q \in Quotes : Fetch(asOf, q)
  \/ List
  \/ \E f \in Facts : Decide(f)
  \/ Decided

Spec == Init /\ [][Next]_vars

---------------------------------------------------------------------------
(* Properties.                                                             *)

\* The variables keep their types, and an approval has a price.
TypeOK ==
  /\ now \in Ticks
  /\ bought \subseteq Acquisition /\ statements \subseteq Statement
  /\ pc \in {"idle", "list", "gates", "done"}
  /\ decision.code \in {"NONE", "APPROVED"} \cup {Gates[i] : i \in DOMAIN Gates}
  /\ decision.code = "APPROVED" => decision.quote.price = Price

Approved == decision.code = "APPROVED"

\* The days of the gate's window that the history must cover.
CoveredWindow == IF GateWindow <= WashWindow THEN GateWindow ELSE WashWindow

\* "The 20-day allowance does not shorten the wash-sale window or skip
\* incomplete-history checks" (README.md): a lot is approved only when nothing
\* identical was bought in the window up to the as-of date, be it listed in an
\* older statement, in the last one, or not yet in any.  The history of a coin is
\* checked for the wash-sale window as well: if its own is the longer one, what
\* it has of days before that may be in no statement.
NoHiddenPurchase ==
  Approved =>
    \A b \in bought :
      ~ /\ Replaces(b)
        /\ Day(decision.asOf) - CoveredWindow <= b.day
        /\ b.day <= Day(decision.asOf)

\* No approval rests on a price that a later session has superseded, nor, while
\* the market is open, on one older than the limit: by the market's time,
\* whatever the as-of date, and by the time the gates are passed, not the time
\* the quote was asked for.
PriceIsCurrent ==
  Approved /\ ByCalendar(decision.quote) =>
    /\ ~ \E d \in TradingDays :
           decision.quote.ts < Opens(d) /\ Closes(d) <= now
    /\ IsOpen(now) => now - decision.quote.ts <= MaxAge
=============================================================================
