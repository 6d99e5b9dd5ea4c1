--------------------------- MODULE MCStatementStore --------------------------
(* Small documents as the demo generators write them: the lots and trades   *)
(* of every dataset have the same external ids, a bank statement of one     *)
(* month the same id for every as-of date of that month, with more rows     *)
(* later.                                                                   *)
EXTENDS StatementStore, TLC

VTI == [canonical |-> "ETF:VTI", class |-> "ETF", symbol |-> "VTI"]
BTC == [canonical |-> "CRYPTO:BTC-USD", class |-> "CRYPTO", symbol |-> "BTC/USD"]

Bank(id, version, rows) ==
  [id |-> id, version |-> version, format |-> "SYNTHETIC_BANK_V1", account |-> "checking",
   rows |-> rows, trades |-> {}, assets |-> {}]
Broker(id, rows, trades, assets) ==
  [id |-> id, version |-> "1", format |-> "SYNTHETIC_BROKERAGE_V1", account |-> "portfolio",
   rows |-> rows, trades |-> trades, assets |-> assets]

BankEarly == Bank("BANK-1", "early", {"txn1"})
BankLate == Bank("BANK-1", "late", {"txn1", "txn2"})
BrokerHistorical == Broker("BRK-2024", {"lotA"}, {"saleA"}, {VTI})
BrokerEarly == Broker("BRK-early", {"lotA"}, {"saleA"}, {VTI})
BrokerLate == Broker("BRK-late", {"lotA"}, {"saleA"}, {VTI})
BrokerOwn == Broker("BRK-own", {"lotB"}, {"saleB"}, {VTI, BTC})

MCAccounts == {"checking", "portfolio"}
MCGenerated ==
  (<<"historical", "2024">> :> <<BrokerHistorical>>) @@
  (<<"current", "early">> :> <<BankEarly, BrokerEarly>>) @@
  (<<"current", "late">> :> <<BankLate, BrokerLate>>)

Pdf(name, doc) ==
  [name |-> name, folded |-> name, suffix |-> ".pdf", magic |-> TRUE, size |-> 1,
   type |-> "application/pdf", doc |-> doc]
Broken == [Pdf("a.pdf", Unreadable) EXCEPT !.magic = FALSE]
Large(bytes) == [Pdf("b.pdf", Unreadable) EXCEPT !.size = bytes]

MCBatches ==
  { <<Pdf("a.pdf", BankEarly)>>,
    <<Pdf("a.pdf", BrokerOwn)>>,
    <<Broken, Pdf("a.pdf", BrokerEarly), Pdf("a.pdf", BrokerOwn)>>,
    <<Large(3), Large(2), [Pdf("c.txt", Unreadable) EXCEPT !.suffix = ".txt"]>> }
==============================================================================
