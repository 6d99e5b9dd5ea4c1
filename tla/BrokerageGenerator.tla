------------------------- MODULE BrokerageGenerator ------------------------
(***************************************************************************)
(* The generator of the synthetic brokerage statements                     *)
(* (src/app/demo_data/brokerage_generator.py).  The books of the two       *)
(* portfolios are constants; a current statement is the historical book    *)
(* with every date moved by the distance of the two as-of dates, and some  *)
(* purchases put at fixed distances before the new one.                    *)
(*                                                                         *)
(* A day is its ordinal, a quantity counts hundredths, prices and money    *)
(* are cents; the basis of a lot is the unrounded product of the two.      *)
(***************************************************************************)
EXTENDS StatementText

CONSTANTS Books,         \* book of each portfolio: lots, sales, dividends, purchases
          HistoricalDay  \* HISTORICAL_AS_OF_DATE (2024-06-15)

Portfolios == DOMAIN Books

\* What a book holds.
BookDays == (HistoricalDay - 166)..HistoricalDay
BookLots == [id: STRING, symbol: STRING, acquired: Int, qty: Nat \ {0}, unit: Int]
BookSales == [id: STRING, symbol: STRING, acquired: Int, sold: Int, qty: Nat \ {0},
              price: Int, unit: Int, period: STRING]
BookDividends == [id: STRING, symbol: STRING, day: BookDays, amount: Int, reinvested: BOOLEAN]
BookPurchases == [id: STRING, symbol: STRING, day: BookDays, qty: Int, price: Int,
                  reinvest: BOOLEAN, scheduled: BOOLEAN]
BookRecords == [symbols: Seq(STRING), wash: STRING, lots: Seq(BookLots), sales: Seq(BookSales),
                dividends: Seq(BookDividends), purchases: Seq(BookPurchases)]

\* Income and purchases are of the year up to the historical day, and every
\* reinvested dividend has a purchase with it.
BookAssumption ==
  /\ HistoricalDay \in Nat
  /\ \A p \in Portfolios :
       /\ Books[p] \in BookRecords
       /\ \A d \in ToSet(Books[p].dividends) : d.reinvested =>
            \E b \in ToSet(Books[p].purchases) : b.reinvest /\ b.symbol = d.symbol

ASSUME BookAssumption

\* _lot: a lot without basis shows no amount at all.
LotSpec(l) ==
  [id |-> l.id, symbol |-> l.symbol, acquired |-> l.acquired, qty |-> l.qty,
   unit |-> l.unit, basis |-> IF l.unit = NoAmount THEN NoAmount ELSE l.unit * l.qty,
   missing |-> l.unit = NoAmount]

\* _sale: proceeds and basis are rounded before their difference is taken.
SaleSpec(s) ==
  LET proceeds == HalfEven(s.qty * s.price, 100)
      basis    == HalfEven(s.qty * s.unit, 100)
  IN  [id |-> s.id, symbol |-> s.symbol, acquired |-> s.acquired, sold |-> s.sold,
       qty |-> s.qty, price |-> s.price, proceeds |-> proceeds, basis |-> basis,
       result |-> proceeds - basis, period |-> s.period]

\* _holdings_from_lots: the listed symbols first, then those only lots have.
HoldingsFromLots(symbols, lots) ==
  LET Add(seen, s) == IF s \in ToSet(seen) THEN seen ELSE Append(seen, s)
      all == FoldLeft(Add, symbols, [i \in DOMAIN lots |-> lots[i].symbol])
      Held(s) == FoldLeft(LAMBDA sum, l : IF l.symbol = s THEN sum + l.qty ELSE sum,
                          0, lots)
  IN  [i \in DOMAIN all |-> [id |-> all[i], qty |-> Held(all[i])]]

\* shift_from_historical.
Shift(day, asOf) == day + (asOf - HistoricalDay)

WashDay(asOf)   == asOf - 10
CryptoDay(asOf) == asOf - 7

\* _apply_current_demo_window_dates, for the purchases.
PatchedPurchase(b, wash, asOf) ==
  [b EXCEPT !.day = IF b.symbol = wash /\ b.reinvest THEN WashDay(asOf)
                    ELSE IF b.scheduled THEN CryptoDay(asOf) ELSE @]

\* _apply_current_demo_window_dates, for the dividends: a reinvested dividend
\* is paid on the day of the last reinvestment of its symbol.
PatchedDividend(d, purchases) ==
  LET reinvested == {i \in DOMAIN purchases :
                       purchases[i].reinvest /\ purchases[i].symbol = d.symbol}
  IN  [d EXCEPT !.day = IF d.reinvested /\ reinvested # {}
                        THEN purchases[Max(reinvested)].day ELSE @]

\* _current_demo_spec: the book as of another day.
CurrentBook(book, asOf) ==
  LET Moved(r) == [r EXCEPT !.day = Shift(@, asOf)]
      purchases == [i \in DOMAIN book.purchases |->
                      PatchedPurchase(Moved(book.purchases[i]), book.wash, asOf)]
  IN  [symbols |-> book.symbols, wash |-> book.wash,
       lots |-> [i \in DOMAIN book.lots |->
                   [book.lots[i] EXCEPT !.acquired = Shift(@, asOf)]],
       sales |-> [i \in DOMAIN book.sales |->
                    [book.sales[i] EXCEPT !.acquired = Shift(@, asOf),
                                          !.sold = Shift(@, asOf)]],
       purchases |-> purchases,
       dividends |-> [i \in DOMAIN book.dividends |->
                        PatchedDividend(Moved(book.dividends[i]), purchases)]]

\* _assemble_spec.
AssembleSpec(p, book, start, end) ==
  LET lots  == [i \in DOMAIN book.lots |-> LotSpec(book.lots[i])]
      sales == [i \in DOMAIN book.sales |-> SaleSpec(book.sales[i])]
  IN  [id |-> <<"BRK", p, end>>, account |-> p, user |-> p, start |-> start, end |-> end,
       holdings |-> HoldingsFromLots(book.symbols, lots), lots |-> lots,
       sales |-> sales, dividends |-> book.dividends, purchases |-> book.purchases,
       realized |-> Realized(sales)]

\* portfolio_a_spec and portfolio_b_spec; the historical period begins with the
\* year 2024, 166 days before its end.
BrokerageSpec(p, asOf, current) ==
  LET day == IF current THEN asOf ELSE HistoricalDay
      book == IF current THEN CurrentBook(Books[p], asOf) ELSE Books[p]
  IN  AssembleSpec(p, book, Shift(HistoricalDay - 166, day), day)
=============================================================================
