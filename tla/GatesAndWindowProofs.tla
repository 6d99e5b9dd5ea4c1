------------------------ MODULE GatesAndWindowProofs ------------------------
(***************************************************************************)
(* What an evaluation rests on.  No approval overlooks a purchase or rests *)
(* on a superseded price, for any days, sessions, purchases, statements,   *)
(* allowances and windows (CandidateGates); and the price window has no    *)
(* hole and the cached quote does not get younger, for every number of     *)
(* syncs and every window, overlap, delay and ttl that WindowAssumption    *)
(* allows (RollingWindow).                                                 *)
(***************************************************************************)
EXTENDS CandidateGates, RollingWindow, FiniteSetTheorems, TLAPS

---------------------------------------------------------------------------
(* The gates of an evaluation.                                             *)

\* The statement that is asked for coverage is one of those whose rows the
\* wash-sale gate reads, and a decision is not looked at before it is made.
Read ==
  /\ pc \in {"idle", "list", "gates", "done"}
  /\ pc = "gates" => ctx.statement \in statements \cup {NoStatement}
  /\ pc # "done" => decision = Undecided

\* What days are compared.
Numbers ==
  /\ now \in Nat
  /\ \A b \in bought : b.day \in Int
  /\ \A s \in statements : s.start \in Int /\ s.end \in Int
  /\ ctx = [asOf |-> ctx.asOf, asked |-> ctx.asked, quote |-> ctx.quote,
            statement |-> ctx.statement]
  /\ ctx.asOf \in Nat

IInv == Numbers /\ Read /\ NoHiddenPurchase

LEMMA InitInv == Init => IInv
  BY DEF Init, IInv, Numbers, Read, NoHiddenPurchase, Approved, Undecided, NoContext

\* A day is a number.
LEMMA Days == \A t \in Nat : Day(t) \in Int
  BY DEF Day

\* An approval has passed the coverage gate and the wash-sale gate.
LEMMA ApprovalPasses ==
  ASSUME NEW c, NEW f, Failed(c, f) = {}
  PROVE  c.statement # NoStatement /\ Covered(c) /\ ~RepurchaseConflict(c)
<1>1. /\ 10 \in DOMAIN Gates /\ Gates[10] = "NO_STATEMENT"
      /\ 12 \in DOMAIN Gates /\ Gates[12] = "INCOMPLETE_HISTORY"
      /\ 14 \in DOMAIN Gates /\ Gates[14] = "REPURCHASE_CONFLICT"
  BY DEF Gates
<1>2. /\ ~Fails("NO_STATEMENT", c, f) /\ ~Fails("INCOMPLETE_HISTORY", c, f)
      /\ ~Fails("REPURCHASE_CONFLICT", c, f)
  BY <1>1 DEF Failed
<1> QED
  BY <1>2 DEF Fails

\* A code of a gate is no approval.
LEMMA CodesReject == \A i \in DOMAIN Gates : Gates[i] # "APPROVED"
  BY DEF Gates

\* Any purchase of the window before the as-of date is in the statement that
\* covers it, hence among the rows the gate looked at.
LEMMA DecideStep == ASSUME IInv, NEW f, Decide(f) PROVE IInv'
<1>0. Numbers'
  BY DEF Decide, IInv, Numbers, NoContext, world
<1>1. /\ pc = "gates" /\ pc' = "done" /\ UNCHANGED world /\ Numbers
      /\ ctx.statement \in statements \cup {NoStatement}
  BY DEF Decide, IInv, Read
<1>2. CASE Failed(ctx, f) # {}
  <2>1. decision'.code # "APPROVED"
    BY <1>2, CodesReject DEF Decide, Verdicts, Failed, Undecided
  <2> QED
    BY <1>0, <1>1, <2>1 DEF IInv, Read, NoHiddenPurchase, Approved
<1>3. CASE Failed(ctx, f) = {}
  <2>1. /\ ctx.statement \in statements /\ Covered(ctx) /\ ~RepurchaseConflict(ctx)
    BY <1>1, <1>3, ApprovalPasses
  <2>2. decision'.asOf = ctx.asOf
    BY <1>3 DEF Decide, Verdicts
  <2>3. ASSUME NEW b \in bought, Replaces(b),
               Day(ctx.asOf) - CoveredWindow <= b.day, b.day <= Day(ctx.asOf)
        PROVE  FALSE
    <3>0. /\ b.day \in Int /\ Day(ctx.asOf) \in Int /\ WashWindow \in Nat /\ CryptoWindow \in Nat
          /\ GateWindow \in Nat /\ CoveredWindow <= GateWindow /\ CoveredWindow <= WashWindow
          /\ CoveredWindow \in Nat
          /\ ctx.statement.start \in Int /\ ctx.statement.end \in Int
      BY <1>1, <2>1, Days, GatesAssumption DEF Numbers, GateWindow, CoveredWindow
    <3>1. b \in Listed
      <4>1. /\ ctx.statement.start <= Day(ctx.asOf) - WashWindow
            /\ Day(ctx.asOf) <= ctx.statement.end
        BY <2>1, <3>0 DEF Covered, FromTheStart
      <4>2. ctx.statement.start <= b.day /\ b.day <= ctx.statement.end
        BY <2>3, <3>0, <4>1
      <4> QED
        BY <2>1, <4>2 DEF Listed
    <3>2. Around(b, ctx)
      BY <2>3, <3>0 DEF Around
    <3> QED
      BY <2>1, <2>3, <3>1, <3>2 DEF RepurchaseConflict
  <2> QED
    BY <1>0, <1>1, <2>2, <2>3
    DEF IInv, Read, NoHiddenPurchase, Approved, world, Replaces, GateWindow, CoveredWindow
<1> QED
  BY <1>2, <1>3

LEMMA NextStep == IInv /\ [Next]_vars => IInv'
<1> SUFFICES ASSUME IInv, [Next]_vars PROVE IInv'
  OBVIOUS
<1> USE DEF IInv, Numbers, Read, NoHiddenPurchase, Approved
<1>1. CASE Tick
  BY <1>1 DEF Tick, Evaluation, Replaces, GateWindow, CoveredWindow
<1>2. ASSUME NEW p \in Purchases, Buy(p[1], p[2]) PROVE IInv'
  <2>1. Today \in Int
    BY Days DEF Today
  <2>2. \A b \in bought' : b.day \in Int
    BY <1>2, <2>1 DEF Buy
  <2>3. UNCHANGED <<now, statements, pc, ctx, decision>> /\ decision = Undecided
    BY <1>2 DEF Buy, Evaluation
  <2>4. Numbers'
    BY <2>2, <2>3
  <2>5. ~Approved'
    BY <2>3 DEF Undecided
  <2>6. Read'
    BY <2>3
  <2> QED BY <2>4, <2>5, <2>6
<1>3. ASSUME NEW s \in Issued, Upload(s) PROVE IInv'
  BY <1>3, GatesAssumption DEF Upload, Evaluation, Undecided
<1>4. ASSUME NEW asOf \in AsOfs, NEW q, Fetch(asOf, q) PROVE IInv'
  <2>1. asOf \in Nat
    BY DEF AsOfs
  <2>2. UNCHANGED <<now, bought, statements, decision>> /\ pc' = "list" /\ decision = Undecided
    BY <1>4 DEF Fetch, world
  <2>3. ctx' = [asOf |-> asOf, asked |-> now, quote |-> q, statement |-> NoStatement]
    BY <1>4 DEF Fetch, NoContext
  <2>4. Numbers'
    BY <2>1, <2>2, <2>3
  <2> QED BY <2>2, <2>4 DEF Undecided
<1>5. CASE List
  <2>1. Newest \subseteq statements
    BY DEF Newest
  <2>2. PICK s \in IF statements = {} THEN {NoStatement} ELSE Newest :
          ctx' = [ctx EXCEPT !.statement = s]
    BY <1>5 DEF List
  <2>3. ctx'.statement = s /\ ctx'.asOf = ctx.asOf
    BY <2>2
  <2>4. ctx' = [asOf |-> ctx'.asOf, asked |-> ctx'.asked, quote |-> ctx'.quote,
                statement |-> ctx'.statement]
    BY <2>2
  <2> QED
    BY <1>5, <2>1, <2>2, <2>3, <2>4 DEF List, world, Undecided
<1>6. ASSUME NEW f \in Facts, Decide(f) PROVE IInv'
  BY <1>6, DecideStep
<1>7. CASE UNCHANGED vars
  BY <1>7 DEF vars, Replaces, GateWindow, CoveredWindow
<1> QED
  BY <1>1, <1>2, <1>3, <1>4, <1>5, <1>6, <1>7 DEF Next, Decided

\* Whatever the two windows, the allowance for demo statements and the order of
\* purchases and uploads around an evaluation, no lot is approved although
\* something identical was bought in the covered part of its window up to its
\* as-of date: all of the wash-sale window for a fund, and the shorter of the
\* two for a coin (_freshness_or_reconciliation, _wash_or_crypto_conflict).
THEOREM NothingIsHidden == Spec => []NoHiddenPurchase
<1>1. IInv => NoHiddenPurchase
  BY DEF IInv
<1> QED
  BY <1>1, InitInv, NextStep, PTL DEF Spec

---------------------------------------------------------------------------
(* The price.                                                              *)

\* A bounded set of numbers has a largest one: the distances to the bound have
\* a smallest one.
LEMMA LargestBelow ==
  ASSUME NEW bound \in Nat, NEW S \in SUBSET (0..bound), S # {}
  PROVE  \E d \in S : \A e \in S : e <= d
<1> DEFINE Distances == {bound - d : d \in S}
<1>1. Distances \in SUBSET Nat /\ Distances # {}
  OBVIOUS
<1>2. \E n \in Distances : \A m \in Distances : ~(<<m, n>> \in OpToRel(<, Nat))
  BY <1>1, NatLessThanWellFounded, WFMin, Zenon
<1>3. PICK n \in Distances : \A m \in Distances : ~(m < n)
  BY <1>1, <1>2, Zenon DEF OpToRel
<1>4. PICK d \in S : n = bound - d
  BY <1>3
<1>5. ASSUME NEW e \in S PROVE e <= d
  <2>1. ~(bound - e < n)
    BY <1>3
  <2> QED BY <1>4, <2>1
<1> QED BY <1>5

\* Where the market is closed and some session of the calendar is over, there
\* is a last one; a session before the calendar is older.
LEMMA LastIsLast ==
  ASSUME NEW t \in Nat, Completed(t) # {}
  PROVE  \E l \in Last(t) :
           \A d \in TradingDays : Closes(d) <= t => Opens(d) <= Opens(l)
<1>1. TradingDays \subseteq 0..MaxDay /\ MaxDay \in Nat /\ CalendarDays \in Nat
  BY GatesAssumption
<1>2. Completed(t) \in SUBSET (0..MaxDay)
  BY <1>1 DEF Completed, Calendar
<1>3. PICK l \in Completed(t) : \A e \in Completed(t) : e <= l
  BY <1>1, <1>2, LargestBelow
<1>4. l \in TradingDays /\ l \in Nat /\ Day(t) - CalendarDays <= l
  BY <1>1, <1>2 DEF Completed, Calendar
<1>5. l \in Last(t)
  <2> SUFFICES ASSUME NEW e \in Completed(t) PROVE Closes(e) <= Closes(l)
    BY DEF Last
  <2>1. e \in Nat /\ e <= l
    BY <1>2, <1>3
  <2> QED BY <1>4, <2>1 DEF Closes
<1>6. ASSUME NEW d \in TradingDays, Closes(d) <= t
      PROVE  Opens(d) <= Opens(l)
  <2>1. d \in Nat
    BY <1>1
  <2>2. Day(t) \in Nat /\ d <= Day(t)
    BY <1>6, <2>1 DEF Closes, Day
  <2>3. CASE Day(t) - CalendarDays <= d
    <3>1. d \in Completed(t)
      BY <1>6, <2>1, <2>2, <2>3 DEF Completed, Calendar
    <3>2. d <= l
      BY <1>3, <3>1
    <3> QED BY <1>4, <2>1, <3>2 DEF Opens
  <2>4. CASE ~(Day(t) - CalendarDays <= d)
    <3>1. d <= l
      BY <1>1, <1>4, <2>1, <2>2, <2>4
    <3> QED BY <1>4, <2>1, <3>1 DEF Opens
  <2> QED BY <2>3, <2>4
<1> QED BY <1>5, <1>6

\* A quote that is not too old while the market is open was asked for after
\* every session that is over: a limit of less than a day is shorter than the
\* time from before a session to the next one.
LEMMA OpenIsLater ==
  ASSUME NEW t \in Nat, NEW ts \in Int, IsOpen(t), t - ts <= MaxAge, MaxAge < 4,
         NEW d \in TradingDays, Closes(d) <= t
  PROVE  Opens(d) <= ts
<1>1. d \in Nat /\ MaxAge \in Nat
  BY GatesAssumption
<1>2. PICK e \in TradingDays : Opens(e) <= t /\ t < Closes(e)
  BY DEF IsOpen
<1>3. e \in Nat
  BY GatesAssumption
<1> QED
  BY <1>1, <1>2, <1>3 DEF Opens, Closes

\* The time of a quote is a number, and an approval's as-of date and quote are
\* those that the gates were shown.
Times ==
  /\ now \in Nat
  /\ ctx = [asOf |-> ctx.asOf, asked |-> ctx.asked, quote |-> ctx.quote,
            statement |-> ctx.statement]
  /\ ctx.quote.ts \in Int
  /\ pc # "done" => decision = Undecided

LEMMA QuoteTimes == now \in Nat => \A q \in Quotes : q.ts \in Int
<1> SUFFICES ASSUME now \in Nat, NEW q \in Quotes PROVE q.ts \in Int
  OBVIOUS
<1>1. CASE q \in {NoQuote, [price |-> 0, ts |-> now, alpaca |-> TRUE]}
  BY <1>1 DEF NoQuote
<1>2. CASE q \in [price: {Price}, ts: 0..now, alpaca: {TRUE}]
  BY <1>2
<1>3. CASE q \in [price: {Price}, ts: {now, now - 2} \cap Ticks, alpaca: {FALSE}]
  BY <1>3 DEF Ticks
<1> QED BY <1>1, <1>2, <1>3 DEF Quotes

\* An approval has passed both gates of the quote.
LEMMA QuotePasses ==
  ASSUME NEW c, NEW f, Failed(c, f) = {}
  PROVE  ~UnavailableQuote(c, f) /\ ~StaleQuote(c)
<1>1. /\ 6 \in DOMAIN Gates /\ Gates[6] = "UNAVAILABLE_QUOTE"
      /\ 7 \in DOMAIN Gates /\ Gates[7] = "STALE_QUOTE"
  BY DEF Gates
<1>2. ~Fails("UNAVAILABLE_QUOTE", c, f) /\ ~Fails("STALE_QUOTE", c, f)
  BY <1>1 DEF Failed
<1> QED
  BY <1>2 DEF Fails

\* What the gates do not refuse is current.
LEMMA NotStale ==
  ASSUME MaxAge < 4, now \in Nat, NEW c, NEW f, c.quote.ts \in Int,
         ByCalendar(c.quote), ~UnavailableQuote(c, f), ~StaleQuote(c)
  PROVE  /\ \A d \in TradingDays : Closes(d) <= now => Opens(d) <= c.quote.ts
         /\ IsOpen(now) => now - c.quote.ts <= MaxAge
<1>1. MaxAge \in Nat
  BY GatesAssumption
<1>2. CASE IsOpen(now)
  <2>1. now - c.quote.ts <= MaxAge
    BY <1>1, <1>2 DEF StaleQuote, OlderThan, MarketTime
  <2> QED
    BY <1>2, <2>1, OpenIsLater
<1>3. CASE ~IsOpen(now)
  <2>1. Completed(now) # {}
    BY <1>3 DEF UnavailableQuote, NoCalendar
  <2>2. PICK l \in Last(now) :
          \A d \in TradingDays : Closes(d) <= now => Opens(d) <= Opens(l)
    BY <2>1, LastIsLast
  <2>3. ~(c.quote.ts < Opens(l))
    BY <1>3 DEF StaleQuote
  <2>4. l \in Nat /\ \A d \in TradingDays : d \in Nat
    BY GatesAssumption DEF Last, Completed, Calendar
  <2>5. ASSUME NEW d \in TradingDays, Closes(d) <= now
        PROVE  Opens(d) <= c.quote.ts
    BY <2>2, <2>3, <2>4, <2>5 DEF Opens
  <2> QED BY <1>3, <2>5
<1> QED BY <1>2, <1>3

LEMMA PriceInit == Init => Times /\ PriceIsCurrent
  BY DEF Init, Times, PriceIsCurrent, Approved, Undecided, NoContext, NoQuote

LEMMA PriceDecides ==
  ASSUME MaxAge < 4, Times, NEW f, Decide(f)
  PROVE  Times' /\ PriceIsCurrent'
<1>1. /\ pc = "gates" /\ pc' = "done" /\ UNCHANGED <<asset, now>> /\ now \in Nat
      /\ ctx' = NoContext /\ ctx.quote.ts \in Int
  BY DEF Decide, world, Times
<1>2. Times'
  BY <1>1 DEF Times, NoContext, NoQuote
<1>3. CASE Failed(ctx, f) # {}
  <2>1. decision'.code # "APPROVED"
    BY <1>3, CodesReject DEF Decide, Verdicts, Failed, Undecided
  <2> QED
    BY <1>2, <2>1 DEF PriceIsCurrent, Approved
<1>4. CASE Failed(ctx, f) = {}
  <2>1. decision'.quote = ctx.quote
    BY <1>4 DEF Decide, Verdicts
  <2>2. ~UnavailableQuote(ctx, f) /\ ~StaleQuote(ctx)
    BY <1>4, QuotePasses
  <2>3. ASSUME ByCalendar(ctx.quote)
        PROVE  /\ \A d \in TradingDays : Closes(d) <= now => Opens(d) <= ctx.quote.ts
               /\ IsOpen(now) => now - ctx.quote.ts <= MaxAge
    BY <1>1, <2>2, <2>3, NotStale
  <2>4. \A d \in TradingDays : d \in Nat
    BY GatesAssumption
  <2>5. ASSUME ByCalendar(ctx.quote), NEW d \in TradingDays, Closes(d) <= now
        PROVE  ~(ctx.quote.ts < Opens(d))
    BY <1>1, <2>3, <2>4, <2>5 DEF Opens
  <2>6. (ByCalendar(decision.quote))' <=> ByCalendar(ctx.quote)
    BY <1>1, <2>1 DEF ByCalendar
  <2>7. IsOpen(now') <=> IsOpen(now)
    BY <1>1
  <2> QED
    BY <1>1, <1>2, <2>1, <2>3, <2>5, <2>6, <2>7 DEF PriceIsCurrent
<1> QED BY <1>3, <1>4

LEMMA PriceNext ==
  MaxAge < 4 => (Times /\ PriceIsCurrent /\ [Next]_vars => Times' /\ PriceIsCurrent')
<1> SUFFICES ASSUME MaxAge < 4, Times, PriceIsCurrent, [Next]_vars
             PROVE  Times' /\ PriceIsCurrent'
  OBVIOUS
<1>0. ASSUME pc # "done", decision' = decision PROVE PriceIsCurrent'
  BY <1>0 DEF Times, Undecided, PriceIsCurrent, Approved
<1>1. CASE Tick
  BY <1>0, <1>1 DEF Tick, Evaluation, Times
<1>2. ASSUME NEW p \in Purchases, Buy(p[1], p[2]) PROVE Times' /\ PriceIsCurrent'
  BY <1>0, <1>2 DEF Buy, Evaluation, Times
<1>3. ASSUME NEW s \in Issued, Upload(s) PROVE Times' /\ PriceIsCurrent'
  BY <1>0, <1>3 DEF Upload, Evaluation, Times
<1>4. ASSUME NEW asOf \in AsOfs, NEW q \in Quotes, Fetch(asOf, q)
      PROVE  Times' /\ PriceIsCurrent'
  <2>1. /\ UNCHANGED <<now, decision>> /\ pc = "idle" /\ pc' = "list"
        /\ ctx' = [asOf |-> asOf, asked |-> now, quote |-> q, statement |-> NoStatement]
    BY <1>4 DEF Fetch, world, NoContext
  <2>2. q.ts \in Int
    BY QuoteTimes DEF Times
  <2>3. ctx'.quote.ts \in Int
    BY <2>1, <2>2
  <2>4. Times'
    BY <2>1, <2>3 DEF Times
  <2> QED BY <1>0, <2>1, <2>4
<1>5. CASE List
  <2>1. PICK s : ctx' = [ctx EXCEPT !.statement = s]
    BY <1>5 DEF List
  <2>2. ctx' = [asOf |-> ctx.asOf, asked |-> ctx.asked, quote |-> ctx.quote,
                statement |-> s]
    BY <2>1 DEF Times
  <2>3. Times'
    BY <1>5, <2>2 DEF List, world, Times
  <2> QED BY <1>0, <1>5, <2>3 DEF List
<1>6. ASSUME NEW f \in Facts, Decide(f) PROVE Times' /\ PriceIsCurrent'
  BY <1>6, PriceDecides
<1>7. CASE UNCHANGED vars
  <2>1. UNCHANGED <<asset, now, ctx, pc, decision>>
    BY <1>7 DEF vars
  <2> QED
    BY <2>1 DEF Times, PriceIsCurrent, Approved, ByCalendar
<1> QED
  BY <1>1, <1>2, <1>3, <1>4, <1>5, <1>6, <1>7 DEF Next, Decided

\* However long an evaluation takes and whatever its as-of date, an approval of
\* a lot that trades in sessions rests on a price of the last session at least,
\* and while the market is open on one within the limit, given a limit of less
\* than a day (assess_quote_freshness, _apply_gates).
THEOREM PriceStaysCurrent == MaxAge < 4 => (Spec => []PriceIsCurrent)
<1> SUFFICES ASSUME MaxAge < 4 PROVE Spec => []PriceIsCurrent
  OBVIOUS
<1>1. Times /\ PriceIsCurrent /\ [Next]_vars => Times' /\ PriceIsCurrent'
  BY PriceNext
<1> QED
  BY <1>1, PriceInit, PTL DEF Spec

---------------------------------------------------------------------------
(* The sync of a window.                                                   *)

\* An observation the sync of s has still to bring: published in its window,
\* and not stored while the store keeps what it was given.
Needed(s, t) ==
  /\ sync[s].asOf - Window <= t /\ t <= sync[s].asOf - Delay
  /\ Live(t) /\ ~Has(t)

\* A sync that will move the latest as-of forward fetches, or has fetched and
\* will write, all that is missing from its window.
SyncComplete(s) ==
  top < sync[s].asOf =>
    \A t \in 0..day : Needed(s, t) =>
      \/ sync[s].pc = "idle"
      \/ sync[s].pc = "fetch" /\ sync[s].start <= t
      \/ sync[s].pc = "put" /\ t \in sync[s].todo

\* What a sync has fetched is of its as-of date at the latest.
FetchedIsPast == \A s \in Sessions : \A t \in sync[s].todo : t <= sync[s].asOf

\* An item lives for the ttl from its date on, at least.
KeptLongEnough == \A o \in stored : o.expires >= o.at + Ttl

SavedIsCompleted == meta # NoMeta => meta.last <= top

QuotesAreAnswers == quote <= answered /\ \A s \in Sessions : sync[s].quote <= answered

WindowInv == WindowTypeOK /\ WindowComplete /\ FetchedIsPast /\ KeptLongEnough /\ SavedIsCompleted
             /\ QuotesAreAnswers /\ \A s \in Sessions : SyncComplete(s)

\* In the initial state nothing was synced.
LEMMA WindowInitInv == WindowInit => WindowInv
  BY WindowAssumption DEF WindowInit, WindowInv, WindowTypeOK, WindowComplete, FetchedIsPast,
     KeptLongEnough, SavedIsCompleted, QuotesAreAnswers, SyncComplete, Idle, NoMeta, Uncached

\* The record of a session.
SyncRow == [pc : {"idle", "fetch", "put", "quote", "advance"}, asOf : 0..day,
            start : Int, todo : SUBSET (0..day), quote : {Uncached} \cup (0..day)]

LEMMA SyncRows == WindowTypeOK => sync \in [Sessions -> SyncRow]
  BY DEF WindowTypeOK, SyncRow

\* Every action keeps the types.
LEMMA TypeStep == WindowTypeOK /\ [WindowNext]_window => WindowTypeOK'
<1> SUFFICES ASSUME WindowTypeOK, [WindowNext]_window PROVE WindowTypeOK'
  OBVIOUS
<1> USE WindowAssumption
<1>1. CASE NextDay
  BY <1>1 DEF NextDay, WindowTypeOK, NoMeta, Uncached
<1>2. CASE Expire
  BY <1>2 DEF Expire, WindowTypeOK, NoMeta, Uncached
<1>3. ASSUME NEW s \in Sessions, ReadMeta(s) PROVE WindowTypeOK'
  <2>1. PICK asOf \in 0..day : sync' = [sync EXCEPT ![s] =
          [Idle EXCEPT !.pc = "fetch", !.asOf = asOf, !.start = FetchStart(meta, asOf)]]
    BY <1>3 DEF ReadMeta
  <2>2. FetchStart(meta, asOf) \in Int
    BY DEF FetchStart, Latest, WindowTypeOK, NoMeta
  <2>3. [Idle EXCEPT !.pc = "fetch", !.asOf = asOf, !.start = FetchStart(meta, asOf)] \in SyncRow
    BY <2>2 DEF Idle, SyncRow, Uncached, WindowTypeOK
  <2>4. sync' \in [Sessions -> SyncRow]
    BY <2>1, <2>3, SyncRows
  <2> QED
    BY <1>3, <2>4 DEF ReadMeta, WindowTypeOK, SyncRow
<1>4. ASSUME NEW s \in Sessions, FetchPrices(s) PROVE WindowTypeOK'
  <2>1. PICK zero \in Int : zero = 0
    OBVIOUS
  <2>2. PICK all \in SUBSET (0..day) :
          sync' = [sync EXCEPT ![s].pc = "put", ![s].todo = all, ![s].start = zero]
    BY <1>4, <2>1 DEF FetchPrices, Certain, Possible, Published
  <2>3. [sync[s] EXCEPT !.pc = "put", !.todo = all, !.start = zero] \in SyncRow
    BY SyncRows DEF SyncRow
  <2>4. sync' \in [Sessions -> SyncRow]
    BY <2>2, <2>3, SyncRows
  <2> QED
    BY <1>4, <2>4 DEF FetchPrices, WindowTypeOK, SyncRow
<1>5. ASSUME NEW s \in Sessions, PutObservation(s) PROVE WindowTypeOK'
  <2>1. PICK t \in sync[s].todo, retrieved \in sync[s].asOf..day :
          /\ stored' = {o \in stored : o.at # t} \cup {[at |-> t, expires |-> retrieved + Ttl]}
          /\ sync' = [sync EXCEPT ![s].todo = @ \ {t}]
    BY <1>5 DEF PutObservation
  <2>2. t \in 0..day /\ sync[s].todo \ {t} \in SUBSET (0..day) /\ retrieved \in Nat
    BY SyncRows DEF SyncRow
  <2>3. [sync[s] EXCEPT !.todo = @ \ {t}] \in SyncRow
    BY <2>2, SyncRows DEF SyncRow
  <2>4. sync' \in [Sessions -> SyncRow]
    BY <2>1, <2>3, SyncRows
  <2>5. stored' \subseteq [at : 0..day, expires : Nat]
    BY <2>1, <2>2 DEF WindowTypeOK
  <2> QED
    BY <1>5, <2>4, <2>5 DEF PutObservation, WindowTypeOK, SyncRow
<1>6. ASSUME NEW s \in Sessions, GetQuote(s) PROVE WindowTypeOK'
  <2>1. PICK q \in {Uncached} \cup (0..day), next \in {"quote", "advance"} :
          /\ sync' = [sync EXCEPT ![s].pc = next, ![s].quote = q]
          /\ quote' \in {quote, q} /\ answered' \in {answered, day}
    <3>1. sync[s] \in SyncRow /\ sync[s].quote \in {Uncached} \cup (0..day) /\ day \in 0..day
      BY SyncRows DEF SyncRow, WindowTypeOK
    <3>2. CASE /\ sync' = [sync EXCEPT ![s].pc = "quote", ![s].quote = quote]
               /\ UNCHANGED <<quote, answered>>
      BY <3>2 DEF WindowTypeOK
    <3>3. CASE sync' = [sync EXCEPT ![s].pc = "advance"] /\ UNCHANGED <<quote, answered>>
      BY <3>1, <3>3, SyncRows DEF SyncRow
    <3>4. CASE \E traded \in 0..day :
                 /\ answered' = day /\ quote' = traded
                 /\ sync' = [sync EXCEPT ![s].pc = "quote", ![s].quote = traded]
      BY <3>4
    <3> QED
      BY <1>6, <3>2, <3>3, <3>4 DEF GetQuote
  <2>2. [sync[s] EXCEPT !.pc = next, !.quote = q] \in SyncRow
    BY SyncRows DEF SyncRow
  <2>3. sync' \in [Sessions -> SyncRow]
    BY <2>1, <2>2, SyncRows
  <2>4. quote' \in {Uncached} \cup (0..day) /\ answered' \in {-1} \cup (0..day)
    BY <2>1 DEF WindowTypeOK
  <2>5. UNCHANGED <<backend, syncs, day, stored, meta, top>>
    BY <1>6 DEF GetQuote
  <2> QED
    BY <2>3, <2>4, <2>5 DEF WindowTypeOK, SyncRow
<1>7. ASSUME NEW s \in Sessions, StoreQuote(s) PROVE WindowTypeOK'
  <2>1. [sync[s] EXCEPT !.pc = "advance", !.quote = Uncached] \in SyncRow
    BY SyncRows DEF SyncRow
  <2>2. sync' \in [Sessions -> SyncRow] /\ quote' \in {Uncached} \cup (0..day)
    BY <1>7, <2>1, SyncRows DEF StoreQuote, SourceTimestamp, SyncRow
  <2> QED
    BY <1>7, <2>2 DEF StoreQuote, WindowTypeOK, SyncRow
<1>8. ASSUME NEW s \in Sessions, AdvanceMeta(s) PROVE WindowTypeOK'
  <2>1. Idle \in SyncRow /\ sync[s].asOf \in 0..day
    BY SyncRows DEF SyncRow, Idle, Uncached, WindowTypeOK
  <2>2. sync' \in [Sessions -> SyncRow]
    BY <1>8, <2>1, SyncRows DEF AdvanceMeta
  <2>3. meta' \in [last : 0..day, expires : Nat] /\ top' \in {-1} \cup (0..day)
    BY <1>8, <2>1 DEF AdvanceMeta, Latest, WindowTypeOK
  <2> QED
    BY <1>8, <2>2, <2>3 DEF AdvanceMeta, WindowTypeOK, SyncRow
<1>9. ASSUME NEW s \in Sessions, Fail(s) PROVE WindowTypeOK'
  BY <1>9 DEF Fail, WindowTypeOK, Idle, NoMeta, Uncached
<1>10. CASE UNCHANGED window
  BY <1>10 DEF window, WindowTypeOK
<1> QED
  BY <1>1, <1>2, <1>3, <1>4, <1>5, <1>6, <1>7, <1>8, <1>9, <1>10 DEF WindowNext

\* The metadata read say where the holes of a newer window can begin.
LEMMA FetchStartCovers ==
  ASSUME WindowInv, NEW asOf \in 0..day, top < asOf, NEW t \in 0..day,
         asOf - Window <= t, t <= asOf - Delay, Live(t), ~Has(t)
  PROVE  FetchStart(meta, asOf) <= t
<1> USE WindowAssumption
<1>1. CASE meta = NoMeta
  BY <1>1 DEF FetchStart
<1>2. CASE meta # NoMeta
  <2>1. meta.last \in 0..day /\ meta.last <= top /\ top \in 0..day
    BY <1>2 DEF WindowInv, WindowTypeOK, SavedIsCompleted, NoMeta
  <2>2. ASSUME t < meta.last - Overlap PROVE FALSE
    <3>1. top - Window <= t /\ t <= top - Delay
      BY <2>1, <2>2
    <3> QED
      BY <3>1 DEF WindowInv, WindowComplete
  <2> QED
    BY <1>2, <2>1, <2>2 DEF FetchStart, Latest
<1> QED
  BY <1>1, <1>2

\* The observations stay complete: only dead items are deleted, and the latest
\* as-of moves to a sync that has written all its window lacked.
LEMMA WindowStep == WindowInv /\ [WindowNext]_window => WindowComplete'
<1> SUFFICES ASSUME WindowInv, [WindowNext]_window, NEW t \in 0..day',
                    top' - Window <= t, t <= top' - Delay, Live(t)'
             PROVE  Has(t)'
  BY DEF WindowComplete
<1>0. WindowTypeOK /\ WindowTypeOK' /\ top \in Int /\ top' \in Int
  BY TypeStep DEF WindowInv, WindowTypeOK
<1> USE WindowAssumption
<1>1. CASE NextDay
  <2>1. top' = top /\ t \in 0..day /\ Live(t)
    BY <1>0, <1>1 DEF NextDay, Live, WindowTypeOK
  <2> QED
    BY <1>1, <2>1 DEF NextDay, WindowInv, WindowComplete, Has
<1>2. CASE Expire
  <2>1. top' = top /\ day' = day /\ backend' = backend /\ Live(t)
    BY <1>2 DEF Expire, Live
  <2>2. PICK o \in stored : o.at = t
    BY <1>2, <2>1 DEF Expire, WindowInv, WindowComplete, Has
  <2>3. ~(o.expires < day)
    BY <1>0, <1>2, <2>1, <2>2 DEF Expire, Live, WindowInv, KeptLongEnough, WindowTypeOK
  <2> QED
    BY <1>2, <2>2, <2>3 DEF Expire, Has
<1>3. ASSUME NEW s \in Sessions, PutObservation(s) PROVE Has(t)'
  <2>1. PICK u \in sync[s].todo, retrieved \in sync[s].asOf..day :
          stored' = {o \in stored : o.at # u} \cup {[at |-> u, expires |-> retrieved + Ttl]}
    BY <1>3 DEF PutObservation
  <2>2. CASE t = u
    <3>1. [at |-> u, expires |-> retrieved + Ttl] \in stored'
      BY <2>1
    <3> QED
      BY <2>2, <3>1 DEF Has
  <2>3. CASE t # u
    <3>1. t \in 0..day /\ Live(t) /\ top' = top
      BY <1>3 DEF PutObservation, Live
    <3>2. PICK o \in stored : o.at = t
      BY <3>1 DEF WindowInv, WindowComplete, Has
    <3> QED
      BY <2>1, <2>3, <3>2 DEF Has
  <2> QED
    BY <2>2, <2>3
<1>4. ASSUME NEW s \in Sessions, AdvanceMeta(s) PROVE Has(t)'
  <2>1. t \in 0..day /\ Live(t) /\ stored' = stored /\ sync[s].asOf \in 0..day
    BY <1>0, <1>4, SyncRows DEF AdvanceMeta, Live, SyncRow
  <2>2. CASE top' = top
    BY <1>4, <2>1, <2>2 DEF AdvanceMeta, WindowInv, WindowComplete, Has
  <2>3. CASE top < sync[s].asOf /\ top' = sync[s].asOf
    BY <1>4, <2>1, <2>3 DEF AdvanceMeta, WindowInv, SyncComplete, Needed, Has
  <2> QED
    BY <1>0, <1>4, <2>1, <2>2, <2>3 DEF AdvanceMeta, Latest
<1>5. ASSUME stored' = stored, top' = top, day' = day, backend' = backend PROVE Has(t)'
  BY <1>5 DEF WindowInv, WindowComplete, Has, Live
<1> QED
  BY <1>1, <1>2, <1>3, <1>4, <1>5
  DEF WindowNext, window, ReadMeta, FetchPrices, GetQuote, StoreQuote, Fail

\* A sync keeps all that it needs in its fetch or its list of writes.
LEMMA SyncStep == WindowInv /\ [WindowNext]_window => \A s \in Sessions : SyncComplete(s)'
<1> SUFFICES ASSUME WindowInv, [WindowNext]_window, NEW s \in Sessions, (top < sync[s].asOf)',
                    NEW t \in 0..day', Needed(s, t)'
             PROVE  (\/ sync[s].pc = "idle"
                     \/ sync[s].pc = "fetch" /\ sync[s].start <= t
                     \/ sync[s].pc = "put" /\ t \in sync[s].todo)'
  BY DEF SyncComplete
<1> DEFINE Handled == \/ sync[s].pc = "idle"
                      \/ sync[s].pc = "fetch" /\ sync[s].start <= t
                      \/ sync[s].pc = "put" /\ t \in sync[s].todo
<1>0. /\ WindowTypeOK /\ WindowTypeOK' /\ top \in Int /\ top' \in Int
      /\ sync[s] \in SyncRow /\ sync \in [Sessions -> SyncRow]
  BY TypeStep, SyncRows DEF WindowInv, WindowTypeOK
<1> USE WindowAssumption
<1>1. ASSUME sync'[s] = sync[s], stored' = stored, day' = day, backend' = backend, top <= top'
      PROVE  Handled'
  <2>1. top < sync[s].asOf /\ Needed(s, t) /\ t \in 0..day
    BY <1>0, <1>1 DEF Needed, Live, Has, SyncRow, WindowTypeOK
  <2> QED
    BY <1>1, <2>1 DEF WindowInv, SyncComplete
<1>2. CASE NextDay
  <2>1. top < sync[s].asOf /\ Needed(s, t)
    BY <1>0, <1>2 DEF NextDay, Needed, Live, Has, WindowTypeOK
  <2>2. t \in 0..day
    BY <1>0, <1>2, <2>1 DEF Needed, SyncRow, WindowTypeOK
  <2> QED
    BY <1>2, <2>1, <2>2 DEF WindowInv, SyncComplete, NextDay
<1>3. CASE Expire
  <2>1. top < sync[s].asOf /\ t \in 0..day /\ Live(t)
    BY <1>3 DEF Expire, Needed, Live
  <2>2. ~Has(t)
    <3>1. SUFFICES ASSUME NEW o \in stored, o.at = t PROVE FALSE
      BY DEF Has
    <3>2. ~(o.expires < day)
      BY <1>0, <1>3, <2>1, <3>1 DEF Expire, Live, WindowInv, KeptLongEnough, WindowTypeOK
    <3> QED
      BY <1>3, <3>1, <3>2 DEF Expire, Needed, Has
  <2> QED
    BY <1>3, <2>1, <2>2 DEF Expire, Needed, Live, WindowInv, SyncComplete
<1>4. ASSUME NEW r \in Sessions, ReadMeta(r) PROVE Handled'
  <2>1. CASE r # s
    BY <1>0, <1>1, <1>4, <2>1 DEF ReadMeta
  <2>2. CASE r = s
    <3>1. PICK asOf \in 0..day : sync' = [sync EXCEPT ![s] =
            [Idle EXCEPT !.pc = "fetch", !.asOf = asOf, !.start = FetchStart(meta, asOf)]]
      BY <1>4, <2>2 DEF ReadMeta
    <3>2. sync'[s].pc = "fetch" /\ sync'[s].asOf = asOf /\ sync'[s].start = FetchStart(meta, asOf)
      BY <1>0, <3>1 DEF Idle
    <3>3. top < asOf /\ asOf - Window <= t /\ t <= asOf - Delay /\ Live(t) /\ ~Has(t) /\ t \in 0..day
      BY <1>4, <3>2 DEF ReadMeta, Needed, Live, Has
    <3>4. FetchStart(meta, asOf) <= t
      BY <3>3, FetchStartCovers
    <3> QED
      BY <3>2, <3>4
  <2> QED
    BY <2>1, <2>2
<1>5. ASSUME NEW r \in Sessions, FetchPrices(r) PROVE Handled'
  <2>1. CASE r # s
    BY <1>0, <1>1, <1>5, <2>1 DEF FetchPrices
  <2>2. CASE r = s
    <3>1. sync'[s].pc = "put" /\ Certain(s) \subseteq sync'[s].todo /\ sync'[s].asOf = sync[s].asOf
      BY <1>0, <1>5, <2>2 DEF FetchPrices
    <3>2. top < sync[s].asOf /\ Needed(s, t) /\ t \in 0..day
      BY <1>5, <3>1 DEF FetchPrices, Needed, Live, Has
    <3>3. sync[s].pc = "fetch" /\ sync[s].start <= t
      BY <1>5, <2>2, <3>2 DEF FetchPrices, WindowInv, SyncComplete
    <3>4. t \in Certain(s)
      BY <1>0, <3>2, <3>3 DEF Certain, Published, Needed, SyncRow, WindowTypeOK
    <3> QED
      BY <3>1, <3>4
  <2> QED
    BY <2>1, <2>2
<1>6. ASSUME NEW r \in Sessions, PutObservation(r) PROVE Handled'
  <2>1. PICK u \in sync[r].todo, retrieved \in sync[r].asOf..day :
          /\ stored' = {o \in stored : o.at # u} \cup {[at |-> u, expires |-> retrieved + Ttl]}
          /\ sync' = [sync EXCEPT ![r].todo = @ \ {u}]
    BY <1>6 DEF PutObservation
  <2>2. t # u /\ ~Has(t)
    <3>1. \A o \in stored' : o.at # t
      BY DEF Needed, Has
    <3>2. t # u
      <4>1. [at |-> u, expires |-> retrieved + Ttl] \in stored'
        BY <2>1
      <4>2. [at |-> u, expires |-> retrieved + Ttl].at # t
        BY <3>1, <4>1
      <4> QED
        BY <4>2
    <3> QED
      BY <2>1, <3>1, <3>2 DEF Has
  <2>3. top < sync[s].asOf /\ Needed(s, t) /\ t \in 0..day /\ sync'[s].pc = sync[s].pc
        /\ sync'[s].start = sync[s].start
    BY <1>0, <1>6, <2>1, <2>2 DEF PutObservation, Needed, Live, Has, SyncRow
  <2>4. t \in sync[s].todo => t \in sync'[s].todo
    BY <1>0, <2>1, <2>2 DEF SyncRow
  <2> QED
    BY <2>3, <2>4 DEF WindowInv, SyncComplete
<1>7. ASSUME NEW r \in Sessions, GetQuote(r) PROVE Handled'
  <2>1. CASE r # s
    BY <1>0, <1>1, <1>7, <2>1 DEF GetQuote
  <2>2. CASE r = s
    <3>1. top < sync[s].asOf /\ Needed(s, t) /\ t \in 0..day
      BY <1>0, <1>7, <2>2 DEF GetQuote, Needed, Live, Has, SyncRow
    <3> QED
      BY <1>7, <2>2, <3>1 DEF GetQuote, WindowInv, SyncComplete
  <2> QED
    BY <2>1, <2>2
<1>8. ASSUME NEW r \in Sessions, StoreQuote(r) PROVE Handled'
  <2>1. CASE r # s
    BY <1>0, <1>1, <1>8, <2>1 DEF StoreQuote
  <2>2. CASE r = s
    <3>1. top < sync[s].asOf /\ Needed(s, t) /\ t \in 0..day
      BY <1>0, <1>8, <2>2 DEF StoreQuote, Needed, Live, Has, SyncRow
    <3> QED
      BY <1>8, <2>2, <3>1 DEF StoreQuote, WindowInv, SyncComplete
  <2> QED
    BY <2>1, <2>2
<1>9. ASSUME NEW r \in Sessions, AdvanceMeta(r) \/ Fail(r) PROVE Handled'
  <2>1. CASE r = s
    BY <1>0, <1>9, <2>1 DEF AdvanceMeta, Fail, Idle
  <2>2. CASE r # s
    <3>1. sync[r].asOf \in 0..day /\ top <= top'
      BY <1>0, <1>9 DEF AdvanceMeta, Fail, Latest, SyncRow
    <3> QED
      BY <1>0, <1>1, <1>9, <2>2, <3>1 DEF AdvanceMeta, Fail
  <2> QED
    BY <2>1, <2>2
<1>10. CASE UNCHANGED window
  BY <1>0, <1>1, <1>10 DEF window
<1> QED
  BY <1>2, <1>3, <1>4, <1>5, <1>6, <1>7, <1>8, <1>9, <1>10 DEF WindowNext

\* A fetch brings observations up to its as-of date only.
LEMMA FetchedStep == WindowInv /\ [WindowNext]_window => FetchedIsPast'
<1> SUFFICES ASSUME WindowInv, [WindowNext]_window PROVE FetchedIsPast'
  OBVIOUS
<1>0. WindowTypeOK /\ sync \in [Sessions -> SyncRow] /\ FetchedIsPast
  BY SyncRows DEF WindowInv
<1>1. ASSUME sync' = sync PROVE FetchedIsPast'
  BY <1>0, <1>1 DEF FetchedIsPast
<1>2. ASSUME NEW s \in Sessions, \A r \in Sessions \ {s} : sync'[r] = sync[r],
             \A t \in sync'[s].todo : t <= sync'[s].asOf
      PROVE  FetchedIsPast'
  BY <1>0, <1>2 DEF FetchedIsPast
<1>3. ASSUME NEW s \in Sessions, ReadMeta(s) \/ AdvanceMeta(s) \/ Fail(s) PROVE FetchedIsPast'
  <2>1. sync'[s].todo = {} /\ \A r \in Sessions \ {s} : sync'[r] = sync[r]
    <3>1. CASE ReadMeta(s)
      BY <1>0, <3>1 DEF ReadMeta, Idle
    <3>2. CASE AdvanceMeta(s)
      BY <1>0, <3>2 DEF AdvanceMeta, Idle
    <3>3. CASE Fail(s)
      BY <1>0, <3>3 DEF Fail, Idle
    <3> QED BY <1>3, <3>1, <3>2, <3>3
  <2>2. \A t \in sync'[s].todo : t <= sync'[s].asOf
    BY <2>1
  <2> QED BY <1>2, <2>1, <2>2
<1>4. ASSUME NEW s \in Sessions, FetchPrices(s) PROVE FetchedIsPast'
  <2>1. /\ sync'[s].todo \subseteq Possible(s) /\ sync'[s].asOf = sync[s].asOf
        /\ \A r \in Sessions \ {s} : sync'[r] = sync[r]
    <3>1. Certain(s) \subseteq Possible(s)
      BY DEF Certain, Possible, Published
    <3>2. PICK more \in SUBSET (Possible(s) \ Certain(s)) :
            sync' = [sync EXCEPT ![s].pc = "put", ![s].todo = Certain(s) \cup more, ![s].start = 0]
      BY <1>4 DEF FetchPrices
    <3> QED BY <1>0, <3>1, <3>2 DEF SyncRow
  <2>2. \A t \in sync'[s].todo : t <= sync'[s].asOf
    BY <2>1 DEF Possible
  <2> QED BY <1>2, <2>1, <2>2
<1>5. ASSUME NEW s \in Sessions, PutObservation(s) \/ GetQuote(s) \/ StoreQuote(s)
      PROVE  FetchedIsPast'
  <2>1. /\ sync'[s].todo \subseteq sync[s].todo /\ sync'[s].asOf = sync[s].asOf
        /\ \A r \in Sessions \ {s} : sync'[r] = sync[r]
    <3>1. CASE PutObservation(s)
      BY <1>0, <3>1 DEF PutObservation, SyncRow
    <3>2. CASE GetQuote(s)
      BY <1>0, <3>2 DEF GetQuote, SyncRow
    <3>3. CASE StoreQuote(s)
      BY <1>0, <3>3 DEF StoreQuote, SyncRow
    <3> QED BY <1>5, <3>1, <3>2, <3>3
  <2>2. \A t \in sync'[s].todo : t <= sync'[s].asOf
    BY <1>0, <2>1 DEF FetchedIsPast
  <2> QED BY <1>2, <2>1, <2>2
<1> QED
  BY <1>1, <1>3, <1>4, <1>5 DEF WindowNext, window, NextDay, Expire

\* The three smaller conjuncts.
LEMMA RestStep ==
  WindowInv /\ [WindowNext]_window => (KeptLongEnough /\ SavedIsCompleted /\ QuotesAreAnswers)'
<1> SUFFICES ASSUME WindowInv, [WindowNext]_window
             PROVE  (KeptLongEnough /\ SavedIsCompleted /\ QuotesAreAnswers)'
  OBVIOUS
<1>0. WindowTypeOK /\ WindowTypeOK' /\ sync \in [Sessions -> SyncRow] /\ top \in Int /\ answered \in Int
  BY TypeStep, SyncRows DEF WindowInv, WindowTypeOK
<1> USE WindowAssumption
<1>1. KeptLongEnough'
  <2>1. ASSUME NEW s \in Sessions, PutObservation(s) PROVE KeptLongEnough'
    <3>1. PICK u \in sync[s].todo, retrieved \in sync[s].asOf..day :
            stored' = {o \in stored : o.at # u} \cup {[at |-> u, expires |-> retrieved + Ttl]}
      BY <2>1 DEF PutObservation
    <3>2. u \in 0..day /\ u <= sync[s].asOf /\ sync[s].asOf \in 0..day
      BY <1>0 DEF SyncRow, WindowInv, FetchedIsPast
    <3> QED
      BY <1>0, <3>1, <3>2 DEF WindowInv, KeptLongEnough, WindowTypeOK
  <2>2. ASSUME stored' \subseteq stored PROVE KeptLongEnough'
    BY <2>2 DEF WindowInv, KeptLongEnough
  <2> QED
    BY <2>1, <2>2
    DEF WindowNext, window, NextDay, Expire, ReadMeta, FetchPrices, GetQuote, StoreQuote,
        AdvanceMeta, Fail
<1>2. SavedIsCompleted'
  <2>1. ASSUME NEW s \in Sessions, AdvanceMeta(s) PROVE SavedIsCompleted'
    BY <1>0, <2>1 DEF AdvanceMeta, SavedIsCompleted, Latest, SyncRow
  <2>2. ASSUME meta' \in {meta, NoMeta}, top' = top PROVE SavedIsCompleted'
    BY <2>2 DEF WindowInv, SavedIsCompleted
  <2> QED
    BY <2>1, <2>2
    DEF WindowNext, window, NextDay, Expire, ReadMeta, FetchPrices, PutObservation, GetQuote,
        StoreQuote, Fail
<1>3. QuotesAreAnswers'
  <2>1. ASSUME NEW s \in Sessions, GetQuote(s) PROVE QuotesAreAnswers'
    <3>1. quote' <= answered' /\ answered <= answered'
      BY <1>0, <2>1 DEF GetQuote, WindowInv, QuotesAreAnswers, WindowTypeOK, Uncached
    <3>2. ASSUME NEW r \in Sessions PROVE sync'[r].quote <= answered'
      BY <1>0, <2>1, <3>1
         DEF GetQuote, WindowInv, QuotesAreAnswers, WindowTypeOK, SyncRow, Uncached
    <3> QED
      BY <3>1, <3>2 DEF QuotesAreAnswers
  <2>2. ASSUME NEW s \in Sessions, StoreQuote(s) PROVE QuotesAreAnswers'
    BY <1>0, <2>2
       DEF StoreQuote, SourceTimestamp, WindowInv, QuotesAreAnswers, WindowTypeOK, SyncRow, Uncached
  <2>3. ASSUME quote' = quote, answered' = answered,
               \A s \in Sessions : sync'[s].quote \in {sync[s].quote, Uncached}
        PROVE  QuotesAreAnswers'
    BY <1>0, <2>3 DEF WindowInv, QuotesAreAnswers, Uncached, WindowTypeOK
  <2>4. ASSUME NEW s \in Sessions, ReadMeta(s) \/ FetchPrices(s) \/ PutObservation(s) \/ AdvanceMeta(s) \/ Fail(s)
        PROVE  QuotesAreAnswers'
    <3>1. \A r \in Sessions : sync'[r].quote \in {sync[r].quote, Uncached}
      <4>1. CASE ReadMeta(s)
        BY <1>0, <4>1 DEF ReadMeta, Idle, SyncRow
      <4>2. CASE FetchPrices(s)
        BY <1>0, <4>2 DEF FetchPrices, SyncRow
      <4>3. CASE PutObservation(s)
        BY <1>0, <4>3 DEF PutObservation, SyncRow
      <4>4. CASE AdvanceMeta(s) \/ Fail(s)
        BY <1>0, <4>4 DEF AdvanceMeta, Fail, Idle, SyncRow
      <4> QED
        BY <2>4, <4>1, <4>2, <4>3, <4>4
    <3> QED
      BY <2>3, <2>4, <3>1 DEF ReadMeta, FetchPrices, PutObservation, AdvanceMeta, Fail
  <2> QED
    BY <2>1, <2>2, <2>3, <2>4 DEF WindowNext, window, NextDay, Expire
<1> QED
  BY <1>1, <1>2, <1>3

\* The inductive invariant holds of every behaviour.
THEOREM WindowInvariance == WindowSpec => []WindowInv
<1>1. WindowInit => WindowInv
  BY WindowInitInv
<1>2. WindowInv /\ [WindowNext]_window => WindowInv'
  BY TypeStep, WindowStep, SyncStep, FetchedStep, RestStep DEF WindowInv
<1> QED
  BY <1>1, <1>2, PTL DEF WindowSpec

\* The window of the latest analysis has no hole, whatever failed and however
\* the syncs interleaved (window_sync.py 37-76).
THEOREM WindowIsComplete == WindowSpec => []WindowComplete
<1>1. WindowInv => WindowComplete
  BY DEF WindowInv
<1> QED
  BY <1>1, WindowInvariance, PTL

\* A quote that passes the age check comes from a day the provider answered
\* (window_sync.py 78-97, quote_freshness.py 30-38).
THEOREM FreshIsAnswered == WindowSpec => []FreshMeansAnswered
<1>1. WindowInv => FreshMeansAnswered
  BY WindowAssumption DEF WindowInv, WindowTypeOK, QuotesAreAnswers, FreshMeansAnswered, Uncached
<1> QED
  BY <1>1, WindowInvariance, PTL

\* The state stays typed: no saved as-of and no quote is later than today.
THEOREM WindowTypes == WindowSpec => []WindowTypeOK
<1>1. WindowInv => WindowTypeOK
  BY DEF WindowInv
<1> QED
  BY <1>1, WindowInvariance, PTL
=============================================================================
