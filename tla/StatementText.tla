--------------------------- MODULE StatementText ---------------------------
(***************************************************************************)
(* The synthetic statements as text: the writers (src/app/demo_data/       *)
(* pdf_layout.py, bank_pdf.py, brokerage_pdf.py) and the parsers           *)
(* (src/app/parsers).                                                      *)
(*                                                                         *)
(* A document is a sequence of pages, a page a sequence of lines.  A line  *)
(* is page furniture (format, banner, footer, stamp), a section marker, a  *)
(* key=value entry, the column names of a table or one of its rows.  An     *)
(* entry or row also says what is wrong with its value or with one of its   *)
(* cells (`fault`), which is nothing ("none") as long as it is as printed.  *)
(* Money and prices are cents, a quantity counts hundredths of a share; the *)
(* basis of a lot is unrounded in a specification, cents in a document.    *)
(***************************************************************************)
EXTENDS DecimalCents, Sequences, SequencesExt, FiniteSetsExt

CONSTANT PageRows  \* lines that fit on a page below its header (62 in the code)

ASSUME PageRowsAssumption == PageRows \in Nat \ {0}

BANK_MARKER      == "SYNTHETIC_BANK_V1"
BROKERAGE_MARKER == "SYNTHETIC_BROKERAGE_V1"
Markers == {BANK_MARKER, BROKERAGE_MARKER}

---------------------------------------------------------------------------
(* Lines.                                                                  *)

FormatLine(m)      == [kind |-> "format", marker |-> m]
BannerLine         == [kind |-> "banner"]
FooterLine(i, m)   == [kind |-> "footer", marker |-> m, no |-> i]
StampLine(i, n, m) == [kind |-> "stamp", marker |-> m, no |-> i, of |-> n]
Section(name)      == [kind |-> "section", name |-> name]
Entry(k, v)        == [kind |-> "entry", key |-> k, value |-> v, fault |-> "none"]
Columns(name)      == [kind |-> "columns", of |-> name]
Row(name, cells)   == [kind |-> "row", of |-> name, cells |-> cells, fault |-> "none"]

Furniture == {"format", "banner", "footer", "stamp"}
Branded   == {"format", "footer", "stamp"}   \* lines that carry the marker
Bannered  == {"banner", "footer", "stamp"}   \* lines that carry the banner

Rows(name, records) == [i \in DOMAIN records |-> Row(name, records[i])]

---------------------------------------------------------------------------
(* PagedTextDocument: a line that does not fit opens a page; a page has    *)
(* its header before its lines and two footers after them.                 *)

Paginate(m, lines) ==
  LET n == IF lines = <<>> THEN 1 ELSE (Len(lines) + PageRows - 1) \div PageRows
      Body(i) == SubSeq(lines, (i - 1) * PageRows + 1,
                        IF i = n THEN Len(lines) ELSE i * PageRows)
  IN  [i \in 1..n |->
         <<FormatLine(m), BannerLine>> \o Body(i)
           \o <<FooterLine(i, m), StampLine(i, n, m)>>]

Table(name, records) == <<Section(name), Columns(name)>> \o Rows(name, records)

\* The first lines of both kinds of statement.
Identity(spec) ==
  <<Entry("statement_id", spec.id), Entry("account_id", spec.account),
    Entry("user_id", spec.user), Entry("period_start", spec.start),
    Entry("period_end", spec.end), Entry("base_currency", "USD")>>

CommonHeaders == {"statement_id", "account_id", "user_id", "period_start",
                  "period_end", "base_currency"}
BankHeaders == CommonHeaders \cup {"opening_balance", "closing_balance", "transaction_count"}

RenderBank(spec) ==
  Paginate(BANK_MARKER,
    <<Section("HEADER")>> \o Identity(spec)
    \o <<Entry("opening_balance", spec.opening),
         Entry("closing_balance", spec.closing),
         Entry("transaction_count", Len(spec.rows))>>
    \o Table("TRANSACTIONS", spec.rows) \o <<Section("END")>>)

BrokerageHeaders == CommonHeaders \cup {"portfolio_id", "taxable"}
Summary == <<"st_gains", "st_losses", "st_net", "lt_gains", "lt_losses", "lt_net",
             "combined_net">>

NoAmount == -1  \* an empty cell

\* The basis of a lot is printed in cents.
LotCells(lot) ==
  [lot EXCEPT !.basis = IF @ = NoAmount THEN @ ELSE HalfEven(@, 100)]

RenderBrokerage(spec) ==
  Paginate(BROKERAGE_MARKER,
    <<Section("HEADER")>> \o Identity(spec)
    \o <<Entry("portfolio_id", spec.account), Entry("taxable", TRUE)>>
    \o Table("HOLDINGS", spec.holdings)
    \o Table("TAX_LOTS", [i \in DOMAIN spec.lots |-> LotCells(spec.lots[i])])
    \o Table("SALES", spec.sales)
    \o Table("DIVIDENDS", spec.dividends) \o Table("PURCHASES", spec.purchases)
    \o <<Section("REALIZED_SUMMARY")>>
    \o [i \in DOMAIN Summary |-> Entry(Summary[i], spec.realized[Summary[i]])]
    \o <<Section("END")>>)

---------------------------------------------------------------------------
(* parsers/common.py.                                                      *)

Text(doc) == FlattenSeq(doc)
LinesOf(doc) == UNION {ToSet(doc[i]) : i \in DOMAIN doc}

Marked(lines, m) == \E l \in lines : l.kind \in Branded /\ l.marker = m
Sectioned(lines, names) == \A name \in names : Section(name) \in lines

\* extract_pdf refuses a document without text (a scan).
Scanned(doc) == Text(doc) = <<>>

\* The marker and the structure decide, not the banner alone.
DetectFormat(doc) ==
  LET lines     == LinesOf(doc)
      bank      == Marked(lines, BANK_MARKER)
      brokerage == Marked(lines, BROKERAGE_MARKER)
  IN  IF \A l \in lines : l.kind \notin Bannered THEN "unknown"
      ELSE IF bank /\ ~brokerage /\ Sectioned(lines, {"HEADER", "TRANSACTIONS"})
      THEN BANK_MARKER
      ELSE IF brokerage /\ ~bank /\ Sectioned(lines, {"HEADER", "TAX_LOTS"})
      THEN BROKERAGE_MARKER ELSE "unknown"

\* "PAGE i OF n" is looked for as a substring of the stamp: the number of
\* pages printed there need only begin with the digits of n.
Stamped(page, i, n) ==
  \E j \in DOMAIN page :
    /\ page[j].kind = "stamp" /\ page[j].no = i
    /\ \E k \in {1, 10, 100} : page[j].of \div k = n

Continuous(doc, m) ==
  \A i \in DOMAIN doc :
    /\ Stamped(doc[i], i, Len(doc))
    /\ Marked(ToSet(doc[i]), m)
    /\ \E l \in ToSet(doc[i]) : l.kind \in Bannered

\* A header field is the last entry with its key before the next section.
RequireHeaderMap(lines) ==
  LET from == Min({i \in DOMAIN lines : lines[i] = Section("HEADER")})
      to   == Min({Len(lines) + 1} \cup
                  {i \in DOMAIN lines : i > from /\ lines[i].kind = "section"
                                          /\ lines[i] # Section("HEADER")})
      at(k) == {i \in (from + 1)..(to - 1) :
                  lines[i].kind = "entry" /\ lines[i].key = k}
      keys  == {lines[i].key : i \in {j \in (from + 1)..(to - 1) :
                                        lines[j].kind = "entry"}}
  IN  [k \in keys |-> lines[Max(at(k))]]

\* The lines of a section up to the next one, without page furniture (and, as
\* a fault, with it).
UnfilteredRows(lines, name) ==
  LET starts == {i \in DOMAIN lines : lines[i] = Section(name)}
      from   == Min(starts)
      to     == Min({Len(lines) + 1} \cup
                    {i \in DOMAIN lines : i > from /\ lines[i].kind = "section"})
  IN  IF starts = {} THEN <<>> ELSE SubSeq(lines, from + 1, to - 1)
SectionRows(lines, name) ==
  LET starts == {i \in DOMAIN lines : lines[i] = Section(name)}
      from   == Min(starts)
      to     == Min({Len(lines) + 1} \cup
                    {i \in DOMAIN lines : i > from /\ lines[i].kind = "section"
                                            /\ lines[i] # Section(name)})
      Kept(l) == IF l.kind \in Furniture \cup {"section"} THEN <<>> ELSE <<l>>
  IN  IF starts = {} THEN <<>>
      ELSE FlattenSeq([i \in 1..(to - from - 1) |-> Kept(lines[from + i])])

\* section_rows and assert_columns.
HasTable(lines, name) ==
  LET s == SectionRows(lines, name)
  IN  s # <<>> /\ s[1] = Columns(name)

TableRows(lines, name) == Tail(SectionRows(lines, name))

\* assert_row_width: tables differ in width.
Fits(l, name) == l.kind = "row" /\ l.of = name

Cells(rows) == [i \in DOMAIN rows |-> rows[i].cells]

\* The page of a row is the first one that shows its id.
LineSourcePage(doc, id) ==
  LET shown == {i \in DOMAIN doc :
                  \E l \in ToSet(doc[i]) : l.kind = "row" /\ l.cells.id = id}
  IN  IF shown = {} THEN 1 ELSE Min(shown)

---------------------------------------------------------------------------
(* An outcome: the statement as read, a ParseError ("refused"), or another *)
(* exception ("crashed"), which the callers do not expect.                 *)

Refused == [status |-> "refused"]
Crashed == [status |-> "crashed"]
Parsed(statement) == [status |-> "parsed", statement |-> statement]

\* What is wrong with a value: "number" (no number), "date" (not of the form of
\* one) and "currency" are looked for; not so "nan", "day" (the form of a date,
\* but there is no such day), "time", "word" and "type" (no member of their
\* enumeration), "uuid" and "integer", which the conversion raises something else
\* for (and, as a fault, "number" too).
UnwrappedConversion(fault) ==
  IF fault = "none" THEN "none"
  ELSE IF fault \in {"date", "currency"} THEN "refused" ELSE "crashed"
Caught == {"number", "date", "currency"}
Conversion(fault) ==
  IF fault = "none" THEN "none"
  ELSE IF fault \in Caught THEN "refused" ELSE "crashed"

\* The rows of a table are judged in their order, up to one that does not fit.
TableFault(rows, name, Fault(_)) ==
  LET fitting == {i \in DOMAIN rows : \A j \in 1..i : Fits(rows[j], name)}
      faulty  == {i \in fitting : Fault(i) # "none"}
  IN  IF faulty # {} THEN Fault(Min(faulty))
      ELSE IF fitting # DOMAIN rows THEN "refused" ELSE "none"

\* The end of both parsers: ids, period and currency, in this order.
IdentityFault(header, ids) ==
  LET keys   == ids \o <<"period_start", "period_end", "base_currency">>
      faulty == {i \in DOMAIN keys : header[keys[i]].fault # "none"}
  IN  IF faulty = {} THEN "none" ELSE Conversion(header[keys[Min(faulty)]].fault)

\* Only an amount in dollars is compared with the balances.
DirectionFails(row, previous) == (row.dir = "CREDIT") # (row.balance > previous)
BalanceFails(row, previous) ==
  LET delta == row.balance - previous
  IN  \/ row.dir = "CREDIT" /\ delta <= 0
      \/ row.dir = "DEBIT" /\ delta >= 0
      \/ row.ccy = "USD" /\ delta \notin {row.amount, -row.amount}

\* The cells before the balance is compared: the currency and the type come
\* after it.
CellFault(l) ==
  IF l.cells.amount <= 0 THEN "refused"
  ELSE IF l.fault \in {"currency", "type"} THEN "none" ELSE Conversion(l.fault)

\* A balance cannot be compared with an opening that is NaN.
BankRowFault(l, previous, nan) ==
  IF CellFault(l) # "none" THEN CellFault(l)
  ELSE IF nan THEN "crashed"
  ELSE IF BalanceFails(l.cells, previous) THEN "refused" ELSE Conversion(l.fault)

\* parse_bank_pdf after the format checks.  int() raises ValueError, and the
\* message of the closing check uses a name that is not defined (NameError).
ParseBank(doc) ==
  LET lines   == Text(doc)
      header  == RequireHeaderMap(lines)
      rows    == TableRows(lines, "TRANSACTIONS")
      opening == header["opening_balance"]
      closing == header["closing_balance"]
      fault   == TableFault(rows, "TRANSACTIONS",
                   LAMBDA i : IF i = 1
                              THEN BankRowFault(rows[i], opening.value, opening.fault = "nan")
                              ELSE BankRowFault(rows[i], rows[i - 1].cells.balance, FALSE))
  IN  IF ~ (BankHeaders \subseteq DOMAIN header) \/ ~ HasTable(lines, "TRANSACTIONS")
      THEN Refused
      ELSE IF header["transaction_count"].fault # "none" THEN Crashed
      ELSE IF \/ Len(rows) # header["transaction_count"].value
              \/ \E l \in {opening, closing, header["base_currency"]} : l.fault \in Caught
      THEN Refused
      ELSE IF fault # "none" THEN [status |-> fault]
      ELSE IF \/ "nan" \in {opening.fault, closing.fault}
              \/ (IF rows = <<>> THEN opening.value
                  ELSE rows[Len(rows)].cells.balance) # closing.value
      THEN Crashed
      ELSE IF IdentityFault(header, <<"account_id", "user_id">>) # "none"
      THEN [status |-> IdentityFault(header, <<"account_id", "user_id">>)]
      ELSE Parsed([id |-> header["statement_id"].value, account |-> header["account_id"].value,
                   user |-> header["user_id"].value, start |-> header["period_start"].value,
                   end |-> header["period_end"].value, opening |-> opening.value,
                   closing |-> closing.value, rows |-> Cells(rows)])

\* Sums of the realized results by holding period and sign.
Realized(sales) ==
  LET Add(period, Keep(_)) ==
        FoldLeft(LAMBDA sum, s : IF s.period = period /\ Keep(s.result)
                                 THEN sum + s.result ELSE sum, 0, sales)
      stg == Add("SHORT_TERM", LAMBDA r : r > 0)
      stl == Add("SHORT_TERM", LAMBDA r : r < 0)
      ltg == Add("LONG_TERM", LAMBDA r : r > 0)
      ltl == Add("LONG_TERM", LAMBDA r : r < 0)
  IN  [st_gains |-> stg, st_losses |-> stl, st_net |-> stg + stl,
       lt_gains |-> ltg, lt_losses |-> ltl, lt_net |-> ltg + ltl,
       combined_net |-> stg + stl + ltg + ltl]

\* _parse_sales: proceeds may be rounded, the result may not.
SaleReconciles(s) ==
  /\ \/ s.proceeds * 100 = s.qty * s.price
     \/ s.proceeds = HalfEven(s.qty * s.price, 100)
  /\ s.result = s.proceeds - s.basis

\* _parse_lots.
LotReadable(lot) == ~ (lot.missing /\ lot.unit # NoAmount)

\* A NaN among the numbers of a sale equals nothing; in the other tables it is
\* not looked at.
BookRowFault(l) ==
  IF \/ l.of = "TAX_LOTS" /\ ~ LotReadable(l.cells)
     \/ l.of = "SALES" /\ (~ SaleReconciles(l.cells) \/ l.fault = "nan")
  THEN "refused"
  ELSE IF l.fault = "nan" THEN "none" ELSE Conversion(l.fault)

\* _parse_realized: the entries of the summary; one that is no number, or NaN,
\* is refused.
ParseRealized(lines) ==
  LET s == SectionRows(lines, "REALIZED_SUMMARY")
      keys == {s[i].key : i \in {j \in DOMAIN s : s[j].kind = "entry"}}
  IN  [k \in keys |-> s[Max({i \in DOMAIN s : s[i].kind = "entry" /\ s[i].key = k})]]

RealizedAgrees(summary, sales) ==
  /\ \A k \in DOMAIN summary : summary[k].fault = "none"
  /\ [k \in DOMAIN summary |-> summary[k].value] = Realized(sales)

Tables == <<"HOLDINGS", "TAX_LOTS", "SALES", "DIVIDENDS", "PURCHASES">>

\* parse_brokerage_pdf after the format checks: table by table, then the summary,
\* then the header.
ParseBrokerage(doc) ==
  LET lines   == Text(doc)
      header  == RequireHeaderMap(lines)
      rows(name) == TableRows(lines, name)
      fault(name) == IF ~ HasTable(lines, name) THEN "refused"
                     ELSE TableFault(rows(name), name, LAMBDA i : BookRowFault(rows(name)[i]))
      faulty  == {i \in DOMAIN Tables : fault(Tables[i]) # "none"}
      summary == ParseRealized(lines)
      ids     == <<"account_id", "portfolio_id", "user_id">>
      cells(name) == Cells(rows(name))
  IN  IF ~ (BrokerageHeaders \subseteq DOMAIN header) THEN Refused
      ELSE IF faulty # {} THEN [status |-> fault(Tables[Min(faulty)])]
      ELSE IF ~ RealizedAgrees(summary, cells("SALES")) THEN Refused
      ELSE IF IdentityFault(header, ids) # "none" THEN [status |-> IdentityFault(header, ids)]
      ELSE Parsed([id |-> header["statement_id"].value, account |-> header["account_id"].value,
                   user |-> header["user_id"].value, start |-> header["period_start"].value,
                   end |-> header["period_end"].value,
                   holdings |-> cells("HOLDINGS"), lots |-> cells("TAX_LOTS"),
                   sales |-> cells("SALES"), dividends |-> cells("DIVIDENDS"),
                   purchases |-> cells("PURCHASES"),
                   realized |-> [k \in DOMAIN summary |-> summary[k].value]])

\* The front of both parsers, and of StatementIngestor.ingest.
Parse(doc) ==
  IF Scanned(doc) THEN Refused
  ELSE LET fmt == DetectFormat(doc)
       IN  IF fmt = "unknown" THEN Refused
           ELSE IF ~ Continuous(doc, fmt) THEN Refused
           ELSE IF fmt = BANK_MARKER THEN ParseBank(doc) ELSE ParseBrokerage(doc)
=============================================================================
