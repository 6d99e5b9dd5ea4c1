-------------------------- MODULE MCDemoStatements -------------------------
(***************************************************************************)
(* Instances of DemoStatements for TLC: records taken from the two books,  *)
(* each kind of lot, sale and income once or twice.                        *)
(***************************************************************************)
EXTENDS DemoStatements

Day(y, m, d) == Date(y, m, d)

\* The regression fixtures, the default demo date, days at the beginning of a
\* month whose first is a weekday, and a Monday in a short month.
\* Of the last two the generator finds no end for the first, and does for the
\* second, which is the first of a month whose second is a Monday.
MCAsOfs  == {HISTORICAL, Day(2026, 8, 28), Day(2026, 5, 2), Day(2026, 3, 9),
             Day(2026, 8, 1), Day(2026, 11, 1)}
MCHarmed == {Day(2026, 3, 9)}

MCHistorical == Day(2024, 6, 15)

Lot(id, symbol, day, qty, unit) ==
  [id |-> id, symbol |-> symbol, acquired |-> day, qty |-> qty, unit |-> unit]
Sale(id, symbol, from, to, qty, price, unit, period) ==
  [id |-> id, symbol |-> symbol, acquired |-> from, sold |-> to, qty |-> qty,
   price |-> price, unit |-> unit, period |-> period]
Dividend(id, symbol, day, amount, reinvested) ==
  [id |-> id, symbol |-> symbol, day |-> day, amount |-> amount, reinvested |-> reinvested]
Buy(id, symbol, day, qty, price, reinvest, scheduled) ==
  [id |-> id, symbol |-> symbol, day |-> day, qty |-> qty, price |-> price,
   reinvest |-> reinvest, scheduled |-> scheduled]

BookA ==
  [symbols |-> <<"VTI", "BTC", "SPY">>, wash |-> "SPY",
   lots |-> <<Lot("A-VTI-APPROVED", "VTI", Day(2023, 1, 10), 1200, 25000),
              Lot("A-BTC-APPROVED", "BTC", Day(2023, 3, 1), 5, 8571429),
              Lot("A-SPY-WASH", "SPY", Day(2023, 1, 15), 800, 62000),
              Lot("A-VTI-NOBASIS", "VTI", Day(2023, 4, 1), 600, NoAmount),
              Lot("A-DOGE-REBUY", "DOGE", Day(2023, 6, 1), 1000000, 20)>>,
   sales |-> <<Sale("A-SALE-STG1", "VTI", Day(2023, 8, 1), Day(2024, 2, 10),
                    2000, 24000, 20000, "SHORT_TERM"),
               Sale("A-SALE-LTG1", "SPY", Day(2022, 1, 5), Day(2024, 3, 15),
                    1000, 54000, 40000, "LONG_TERM"),
               Sale("A-SALE-X3", "AAPL", Day(2023, 8, 12), Day(2024, 3, 1),
                    400, 18500, 19500, "SHORT_TERM"),
               Sale("A-SALE-LTL1", "BND", Day(2022, 1, 8), Day(2024, 2, 20),
                    2500, 7000, 9000, "LONG_TERM")>>,
   dividends |-> <<Dividend("A-DIV-SPY-1", "SPY", Day(2024, 6, 5), 3800, TRUE),
                   Dividend("A-DIV-VTI-1", "VTI", Day(2024, 3, 20), 4500, TRUE),
                   Dividend("A-DIV-AGG-C", "AGG", Day(2024, 4, 8), 1200, FALSE)>>,
   purchases |-> <<Buy("A-BUY-SPY-REINV", "SPY", Day(2024, 6, 5), 7, 50000, TRUE, FALSE),
                   Buy("A-BUY-VTI-REINV", "VTI", Day(2024, 3, 20), 18, 20000, TRUE, FALSE),
                   Buy("A-BUY-DOGE-SCHED", "DOGE", Day(2024, 6, 8), 50000, 14, FALSE, TRUE)>>]

BookB ==
  [symbols |-> <<"VTI", "VNQ">>, wash |-> "VNQ",
   lots |-> <<Lot("B-VTI-APPROVED", "VTI", Day(2022, 6, 1), 1500, 25000),
              Lot("B-VNQ-WASH", "VNQ", Day(2023, 5, 1), 800, 10500),
              Lot("B-ETH-THRESH", "ETH", Day(2023, 9, 1), 20, 336735)>>,
   sales |-> <<Sale("B-SALE-STG1", "QQQ", Day(2023, 8, 1), Day(2024, 2, 10),
                    1000, 47000, 40000, "SHORT_TERM"),
               Sale("B-SALE-X3", "TSLA", Day(2023, 8, 12), Day(2024, 3, 1),
                    300, 17500, 19000, "SHORT_TERM")>>,
   dividends |-> <<Dividend("B-DIV-VTI-1", "VTI", Day(2024, 6, 5), 3500, TRUE),
                   Dividend("B-DIV-VNQ-1", "VNQ", Day(2024, 4, 2), 2000, TRUE)>>,
   purchases |-> <<Buy("B-BUY-VTI-REINV", "VTI", Day(2024, 3, 18), 14, 20000, TRUE, FALSE),
                   Buy("B-BUY-VNQ-REINV", "VNQ", Day(2024, 6, 5), 24, 8400, TRUE, FALSE),
                   Buy("B-BUY-DOGE-SCHED", "DOGE", Day(2024, 6, 8), 40000, 14, FALSE, TRUE)>>]

MCBooks == [p \in {"A", "B"} |-> IF p = "A" THEN BookA ELSE BookB]
=============================================================================
