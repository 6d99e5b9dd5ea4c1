--------------------------- MODULE DemoStatements --------------------------
(***************************************************************************)
(* A synthetic statement from its generation to its reading: the           *)
(* generators make specifications, one of them is printed, its file may    *)
(* suffer on the way, and the parser of an upload reads what arrived       *)
(* (generate.py write_statement_pdfs, ingestion.py ingest).                *)
(***************************************************************************)
EXTENDS BankGenerator, BrokerageGenerator

CONSTANTS HarmedAsOfs,  \* as-of dates whose files may suffer
          HarmedRows,   \* the rows of a table that may
          Harms         \* kinds of harm a file may suffer

ASSUME HarmsAssumption ==
  Harms \subseteq {"page", "row", "cell", "uncaught", "header", "closing", "scan"}

VARIABLES spec,     \* the statement printed
          doc,      \* its file
          harm,     \* what the file suffered: "none" or a member of Harms
          outcome   \* what the parser made of it

vars == <<generator, spec, doc, harm, outcome>>

None == [status |-> "none"]

Init ==
  /\ GeneratorInit
  /\ spec = None
  /\ doc = <<>>
  /\ harm = "none"
  /\ outcome = None

---------------------------------------------------------------------------
(* Printing.                                                               *)

Generating == Generate /\ UNCHANGED <<spec, doc, harm, outcome>>

IsBank(s) == "rows" \in DOMAIN s

PrintBank ==
  /\ stage = "done" /\ spec = None
  /\ \E i \in DOMAIN statements :
       /\ spec' = statements[i]
       /\ doc' = RenderBank(statements[i])
  /\ UNCHANGED <<generator, harm, outcome>>

PrintBrokerage ==
  /\ stage = "done" /\ spec = None
  /\ \E p \in Portfolios :
       /\ spec' = BrokerageSpec(p, asOf, asOf # HISTORICAL)
       /\ doc' = RenderBrokerage(spec')
  /\ UNCHANGED <<generator, harm, outcome>>

---------------------------------------------------------------------------
(* What may happen to a file.                                              *)

Pages == 1..Len(doc)

\* Pages lost, doubled or exchanged.
LosePage(i)      == RemoveAt(doc, i)
DoublePage(i)    == InsertAt(doc, i, doc[i])
SwapPages(i, j)  == [doc EXCEPT ![i] = doc[j], ![j] = doc[i]]
PageHarms ==
  {LosePage(i) : i \in Pages} \cup {DoublePage(i) : i \in Pages}
    \cup {SwapPages(i, i + 1) : i \in Pages \ {Len(doc)}}

\* The places of the rows that may suffer: page and line.
Places ==
  UNION {{<<i, j>> : j \in {k \in DOMAIN doc[i] : doc[i][k].kind = "row"}} : i \in Pages}
Before(a, b) == a[1] < b[1] \/ (a[1] = b[1] /\ a[2] < b[2])
Harmable == {p \in Places : Cardinality({q \in Places : Before(q, p)}) + 1 \in HarmedRows}

Page(i, lines) == [doc EXCEPT ![i] = lines]
LoseRow(p)   == Page(p[1], RemoveAt(doc[p[1]], p[2]))
DoubleRow(p) == Page(p[1], InsertAt(doc[p[1]], p[2], doc[p[1]][p[2]]))
SwapRows(p)  == Page(p[1], [doc[p[1]] EXCEPT ![p[2]] = doc[p[1]][p[2] + 1],
                                             ![p[2] + 1] = doc[p[1]][p[2]]])
RowHarms == {LoseRow(p) : p \in Harmable} \cup {DoubleRow(p) : p \in Harmable}
              \cup {SwapRows(p) : p \in Harmable}

\* A cell misread: as another value, or as one that is wrong in itself.
Cell(p, key, value) == Page(p[1], [doc[p[1]] EXCEPT ![p[2]].cells[key] = value])
Misread(p, keys, change(_)) ==
  LET cells == doc[p[1]][p[2]].cells
  IN  {Cell(p, k, change(cells[k])) : k \in keys \cap DOMAIN cells}
Wrong(i, j, faults) == {Page(i, [doc[i] EXCEPT ![j].fault = f]) : f \in faults}

RowFaults(name) ==
  {"number", "nan"}
    \cup (IF name = "HOLDINGS" THEN {} ELSE {"date", "day"})
    \cup (IF name \in {"TRANSACTIONS", "TAX_LOTS", "SALES"} THEN {"currency"} ELSE {})
    \cup (IF name \in {"TRANSACTIONS", "HOLDINGS", "TAX_LOTS", "SALES"} THEN {"word"} ELSE {})
    \cup (IF name = "TRANSACTIONS" THEN {"time", "type"} ELSE {})
WrongRows(faults) ==
  UNION {Wrong(p[1], p[2], RowFaults(doc[p[1]][p[2]].of) \cap faults) : p \in Harmable}

CellHarms ==
  WrongRows(Caught) \cup
  UNION {Misread(p, {"amount", "balance", "proceeds", "result", "qty"}, LAMBDA v : v + 1)
           \cup Misread(p, {"dir"}, LAMBDA v : IF v = "DEBIT" THEN "CREDIT" ELSE "DEBIT")
           \cup Misread(p, {"period"}, LAMBDA v : IF v = "SHORT_TERM" THEN "LONG_TERM"
                                                  ELSE "SHORT_TERM") : p \in Harmable}

\* Entries of the header or the summary, as far as the first page shows them,
\* lost or misread.
Entries(keys) == {j \in DOMAIN doc[1] : doc[1][j].kind = "entry" /\ doc[1][j].key \in keys}
LoseEntry(j) == Page(1, RemoveAt(doc[1], j))
MisreadEntry(j) == Page(1, [doc[1] EXCEPT ![j].value = @ + 1])
Misreadable == IF IsBank(spec) THEN {"opening_balance", "transaction_count"} ELSE ToSet(Summary)

EntryFaults(key) ==
  CASE key \in {"account_id", "user_id", "portfolio_id"} -> {"uuid"}
    [] key \in {"period_start", "period_end"}            -> {"date", "day"}
    [] key = "base_currency"                             -> {"currency"}
    [] key = "transaction_count"                         -> {"integer"}
    [] key \in {"statement_id", "taxable"}               -> {}
    [] OTHER                                             -> {"number", "nan"}
WrongEntries(faults) ==
  UNION {Wrong(1, j, EntryFaults(doc[1][j].key) \cap faults) :
           j \in Entries(BankHeaders \cup BrokerageHeaders \cup ToSet(Summary))}

HeaderHarms ==
  {LoseEntry(j) : j \in Entries(CommonHeaders)}
    \cup {MisreadEntry(j) : j \in Entries(Misreadable)} \cup WrongEntries(Caught)
ClosingHarms ==
  {MisreadEntry(j) : j \in Entries(IF IsBank(spec) THEN {"closing_balance"} ELSE {})}

\* A value wrong in a way that its conversion does not look for.
Uncaught == {"nan", "day", "time", "word", "type", "uuid", "integer"}
UncaughtHarms == WrongRows(Uncaught) \cup WrongEntries(Uncaught)

Harmed(kind) ==
  CASE kind = "page"    -> PageHarms
    [] kind = "row"     -> RowHarms
    [] kind = "cell"    -> CellHarms
    [] kind = "uncaught" -> UncaughtHarms
    [] kind = "header"  -> HeaderHarms
    [] kind = "closing" -> ClosingHarms
    [] kind = "scan"    -> {[i \in Pages |-> <<>>]}

Suffer ==
  /\ spec # None /\ harm = "none" /\ outcome = None
  /\ asOf \in HarmedAsOfs
  /\ \E kind \in Harms : \E d \in Harmed(kind) \ {doc} :
       /\ doc' = d
       /\ harm' = kind
  /\ UNCHANGED <<generator, spec, outcome>>

---------------------------------------------------------------------------

ReadStatement ==
  /\ spec # None /\ outcome = None
  /\ outcome' = Parse(doc)
  /\ UNCHANGED <<generator, spec, doc, harm>>

Next == Generating \/ PrintBank \/ PrintBrokerage \/ Suffer \/ ReadStatement

Spec == Init /\ [][Next]_vars

\* A pass of the filler loop that changes nothing, and so the last one.
Spins ==
  /\ stage = "fill"
  /\ Len(rows) < MinRows
  /\ ~ Postable(FillDay)
  /\ cursor = FillDay + 1

\* The generator is a loop of one process: weak fairness of Generating, written
\* out, since it can go on until it is done or spins, and alone moves its loops.
loops == <<count, user, index, cursor, posted, stage>>
FairSpec ==
  Spec /\ ([]<>(stage = "done" \/ Spins) \/ []<><<TRUE>>_loops)

---------------------------------------------------------------------------
(* Properties.                                                             *)

\* Only an amount in dollars can be checked against the balances, and a balance
\* only with the amount of its own row or of the next one.
BalanceChecked(rs, i) == \E j \in {i, i + 1} : j \in DOMAIN rs => rs[j].ccy = "USD"

Checkable(s) ==
  IF IsBank(s)
  THEN [id |-> s.id, start |-> s.start, end |-> s.end, opening |-> s.opening,
        closing |-> s.closing,
        rows |-> [i \in DOMAIN s.rows |->
                    [s.rows[i] EXCEPT
                       !.amount = IF s.rows[i].ccy = "USD" THEN @ ELSE 0,
                       !.balance = IF BalanceChecked(s.rows, i) THEN @ ELSE 0]]]
  ELSE [sales |-> ToSet(s.sales), realized |-> s.realized]

Near(printed, basis) ==
  IF basis = NoAmount THEN printed = NoAmount
  ELSE 100 * printed - basis \in (-50)..50

\* An unharmed statement reads back as it was generated, the basis of each lot
\* to the cent, and each bank row is attributed to a page that shows it
\* (render_bank_pdf and parse_bank_pdf, render_brokerage_pdf and
\* parse_brokerage_pdf).
RoundTrip ==
  (outcome # None /\ harm = "none") =>
    /\ outcome.status = "parsed"
    /\ LET read == outcome.statement
       IN  IF IsBank(spec)
           THEN /\ read = spec
                /\ \A i \in DOMAIN spec.rows :
                     Row("TRANSACTIONS", spec.rows[i])
                       \in ToSet(doc[LineSourcePage(doc, spec.rows[i].id)])
           ELSE /\ [read EXCEPT !.lots = <<>>] = [spec EXCEPT !.lots = <<>>]
                /\ Len(read.lots) = Len(spec.lots)
                /\ \A i \in DOMAIN read.lots :
                     /\ read.lots[i].id = spec.lots[i].id
                     /\ Near(read.lots[i].basis, spec.lots[i].basis)

\* A statement whose file suffered is not read, or what can be checked of it
\* is read as it was written: no lost, doubled or exchanged page, no such row of
\* transactions or sales and no misread balance, amount in dollars, sale or result
\* gets through the parsers.  The other tables of a brokerage statement have no
\* count and no sum: their rows may be lost, doubled or misread unnoticed.
ReadAsWritten ==
  outcome.status = "parsed" => Checkable(outcome.statement) = Checkable(spec)

\* The rows of a bank statement lie in its period and in order, once the
\* period is long enough for the bills of its first eight days.
DatedInPeriod ==
  \A k \in DOMAIN statements :
    LET s == statements[k]
    IN  s.end >= s.start + 7 =>
          \A i \in DOMAIN s.rows :
            /\ s.start <= s.rows[i].day /\ s.rows[i].day <= s.end
            /\ i > 1 => s.rows[i - 1].day <= s.rows[i].day

\* When the generator is done every user has the history the anomaly
\* detection asks for, in statements that continue each other (the loop of
\* build_bank_statements).
HistoryIsEnough ==
  stage = "done" =>
    /\ asOf # HISTORICAL =>
         \A u \in Users : RowsOf(u, statements) >= MinHistory \/ count = MaxMonths
    /\ \A k \in DOMAIN statements \ {1} :
         LET s == statements[k]  t == statements[k - 1]
         IN  s.user = t.user => s.start = t.end + 1 /\ s.opening = t.closing

\* A current brokerage statement holds what its lots add up to, its events lie
\* in its period, and every reinvested dividend has its purchase on the same
\* day (_holdings_from_lots, _apply_current_demo_window_dates).
BookIsConsistent ==
  (spec # None /\ ~ IsBank(spec) /\ asOf # HISTORICAL) =>
    /\ \A i \in DOMAIN spec.lots : \E h \in ToSet(spec.holdings) : h.id = spec.lots[i].symbol
    /\ \A h \in ToSet(spec.holdings) :
         h.qty = FoldLeft(LAMBDA n, l : IF l.symbol = h.id THEN n + l.qty ELSE n, 0, spec.lots)
    /\ \A e \in ToSet(spec.purchases) \cup ToSet(spec.dividends) :
         spec.start <= e.day /\ e.day <= spec.end
    /\ \A d \in ToSet(spec.dividends) : d.reinvested =>
         \E b \in ToSet(spec.purchases) :
           b.reinvest /\ b.symbol = d.symbol /\ b.day = d.day

\* What is generated is consistent: its dates, its histories and its books
\* (build_bank_statements, _current_demo_spec).
GeneratedIsConsistent == DatedInPeriod /\ HistoryIsEnough /\ BookIsConsistent

\* The closing balance of the header and of the last row.
ClosingDiffers ==
  LET lines == Text(doc)
  IN  RequireHeaderMap(lines)["closing_balance"].value
        # Last(TableRows(lines, "TRANSACTIONS")).cells.balance

\* A malformed statement is refused with a code, never with an exception the
\* callers do not know, whatever pages, rows and entries are lost, doubled or
\* exchanged and whatever is misread, but for a closing balance that is not that
\* of the rows and for a value of the kinds in Uncaught.
MalformedIsRefused ==
  outcome.status = "crashed" => harm = "uncaught" \/ ClosingDiffers

\* src/REQUIREMENTS_MATRIX.md:36, "Reject scanned PDFs / unknown / malformed with
\* stable codes".  The code breaks it for these two.
MalformedHasCode == outcome.status # "crashed"

\* The second day of the month is a Sunday and the period does not reach the
\* third: the filler loop finds no day to post on.
Endless(day) ==
  /\ day # HISTORICAL
  /\ DayOfMonth(day) <= 2
  /\ Weekday(FirstDay(MonthOf(day)) + 1) = 6

\* The generator ends, or spins: for these dates and no others.
GenerationEnds == <>IF Endless(asOf) THEN Spins ELSE stage = "done"
=============================================================================
