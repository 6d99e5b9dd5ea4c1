--------------------------- MODULE BankGenerator ---------------------------
(***************************************************************************)
(* The generator of the synthetic bank statements                          *)
(* (src/app/demo_data/bank_generator.py): for each user one statement per  *)
(* month, the last month cut off at the as-of date, each opened with the   *)
(* closing balance of the one before.                                      *)
(*                                                                         *)
(* A day is its ordinal (date.toordinal), a month the number 12 * year +   *)
(* month - 1, a time of day the minutes since midnight (0: none), an       *)
(* amount cents.  Merchant, category and type of a row are one name.       *)
(***************************************************************************)
EXTENDS DecimalCents, Sequences, SequencesExt, FiniteSetsExt

CONSTANTS AsOfs,       \* as-of dates the generator may be asked for
          MinHistory,  \* min_history: rows a user needs (80 in the settings)
          MinRows      \* rows of a statement before its anomalies (78)

HISTORICAL == 0  \* the as-of "None": the fixtures of 2024

\* The twelve months up to an as-of date have dates: 335 is 1 December of the year 1.
ASSUME GeneratorAssumption ==
  /\ MinHistory \in Nat /\ MinRows \in Nat
  /\ \A day \in AsOfs \ {HISTORICAL} : day \in Nat /\ day >= 335

Users == 0..1
MaxMonths == 12

---------------------------------------------------------------------------
(* The calendar.                                                           *)

\* Counted from 1 March of the year 0, so that the leap day comes last.
FirstDay(month) ==
  LET y == (month - 2) \div 12
      m == (month - 2) % 12
  IN  365 * y + y \div 4 - y \div 100 + y \div 400 + (153 * m + 2) \div 5 - 305

LastDay(month) == FirstDay(month + 1) - 1
MonthOf(day) == CHOOSE m \in (day \div 31)..(day \div 28 + 12) :
                  FirstDay(m) <= day /\ day <= LastDay(m)
Date(year, month, day) == FirstDay(12 * year + month - 1) + day - 1
Weekday(day) == (day + 6) % 7          \* Monday is 0
DayOfMonth(day) == day - FirstDay(MonthOf(day)) + 1

Earlier(a, b) == IF a < b THEN a ELSE b

---------------------------------------------------------------------------
(* month_periods_for_user and month_periods_for_as_of.                     *)

Month(m, asOf) == [start |-> FirstDay(m),
                   end   |-> IF m = MonthOf(asOf) THEN asOf ELSE LastDay(m)]

\* The current month and the count - 1 before it.
PeriodsForAsOf(asOf, count) ==
  [i \in 1..count |-> Month(MonthOf(asOf) - count + i, asOf)]

\* February to April 2024 for the first user, March to May for the second.
PeriodsOf(user, asOf, count) ==
  IF asOf = HISTORICAL
  THEN [i \in 1..3 |-> LET m == 12 * 2024 + user + i
                       IN  [start |-> FirstDay(m), end |-> LastDay(m)]]
  ELSE PeriodsForAsOf(asOf, count)

---------------------------------------------------------------------------
(* The rows of a month.                                                    *)

Post(day, time, what, amount, ccy, dir) ==
  [day |-> day, time |-> time, what |-> what, amount |-> amount, ccy |-> ccy, dir |-> dir]
Debit(day, time, what, amount)  == Post(day, time, what, amount, "USD", "DEBIT")
Credit(day, time, what, amount) == Post(day, time, what, amount, "USD", "CREDIT")

\* Fault: no salary looks at the period's end.
UncutBills(p) ==
  <<Credit(p.start, 540, "salary", 450000), Credit(p.start + 14, 540, "salary", 450000),
    Debit(p.start, 480, "rent", 180000)>>

\* Bills on fixed days; only the second salary looks at the period's end.
Recurring(p) ==
  <<Credit(p.start, 540, "salary", 450000),
    Credit(Earlier(p.start + 14, p.end), 540, "salary", 450000),
    Debit(p.start, 480, "rent", 180000),
    Debit(p.start + 4, 0, "utilities", 12000),
    Debit(p.start + 6, 0, "streaming", 1599),
    Debit(p.start + 7, 0, "insurance", 9500)>>

\* Weekday transit and coffee, weekly groceries, dinner and shopping.
Daily(day) ==
  LET w == Weekday(day)
      If(cond, row) == IF cond THEN <<row>> ELSE <<>>
  IN  If(w < 5, Debit(day, 495, "transit", 450))
        \o If(w \in {1, 3}, Debit(day, 460, "coffee", 1250))
        \o If(w = 5, Debit(day, 0, "groceries", 8800 + 100 * (DayOfMonth(day) % 5)))
        \o If(w = 5, Debit(day, 1150, "dinner", 4400))
        \o If(w = 2, Debit(day, 0, "shopping", 3600 + 100 * (DayOfMonth(day) % 7)))

Daylong(p) ==
  FlattenSeq([i \in 1..(p.end - p.start + 1) |-> Daily(p.start + i - 1)])

Monthly(p, index) ==
  LET At(offset) == Earlier(p.start + offset, p.end)
      Foreign(offsets, amount, ccy) ==
        [i \in DOMAIN offsets |->
           Post(At(offsets[i]), 0, "groceries_abroad", amount, ccy, "DEBIT")]
  IN  <<Debit(At(11), 0, "transfer", 20000), Debit(At(17), 0, "cash", 8000)>>
        \o Foreign(<<3, 9, 16, 22>>, 7000, "GBP")
        \o Foreign(<<4, 11, 18, 24>>, 6500, "EUR")
        \o [i \in 1..(IF index = 0 THEN 2 ELSE 1) |->
              Credit(At(6 + 5 * (i - 1)), 0, "refund", 3600)]
        \o <<CASE index = 0 -> Credit(p.end, 0, "interest", 215)
               [] index = 1 -> Debit(p.end, 0, "fee", 500)
               [] OTHER     -> Debit(p.end, 0, "fee", 1500)>>

Regular(p, index) == Recurring(p) \o Daylong(p) \o Monthly(p, index)

\* _inject_anomaly: three of the nine kinds each month, in turn.
Anomaly(kind, p, index) ==
  LET day == Earlier(p.start + 10 + index, p.end)
  IN  CASE kind = 0 -> Debit(day, 845, "large_amount", 820000)
        [] kind = 1 -> Debit(day, 1000, "unusual_merchant", 510000)
        [] kind = 2 -> Debit(day, 0, "category_spike", 430000)
        [] kind = 3 -> Debit(p.start, 605, "duplicate", 180000)
        [] kind = 4 -> Debit(day, 660, "frequency_spike", 280000)
        [] kind = 5 -> Debit(day, 192, "unusual_time", 360000)
        [] kind = 6 -> Debit(day, 0, "weekly_spike", 390000)
        [] kind = 7 -> Post(day, 1065, "international", 280000, "EUR", "DEBIT")
        [] OTHER    -> Debit(day, 1310, "cash_withdrawal", 450000)

Anomalies(p, index) == [i \in 1..3 |-> Anomaly((3 * index + i - 1) % 9, p, index)]

---------------------------------------------------------------------------
(* From rows to a statement.                                               *)

ToUsd(row) == CASE row.ccy = "USD" -> row.amount
                [] row.ccy = "GBP" -> HalfEven(row.amount * 127, 100)
                [] OTHER           -> HalfEven(row.amount * 1085, 1000)

Signed(row) == IF row.dir = "CREDIT" THEN ToUsd(row) ELSE -ToUsd(row)

Precedes(a, b) ==
  \/ a.day < b.day
  \/ a.day = b.day /\ a.time < b.time
  \/ a.day = b.day /\ a.time = b.time /\ a.seq < b.seq

\* The place of a row is the number of those that are not after it.
Sorted(rows) ==
  LET place == [i \in DOMAIN rows |->
                  Cardinality({j \in DOMAIN rows : ~ Precedes(rows[i], rows[j])})]
  IN  [k \in DOMAIN rows |-> rows[CHOOSE i \in DOMAIN rows : place[i] = k]]

\* Rows with their identity, and no balance yet.
Numbered(user, p, rows) ==
  [i \in DOMAIN rows |->
     [day |-> rows[i].day, time |-> rows[i].time, what |-> rows[i].what,
      amount |-> rows[i].amount, ccy |-> rows[i].ccy, dir |-> rows[i].dir,
      id |-> <<"TXN", user, MonthOf(p.start), i>>, seq |-> i, balance |-> 0]]

\* From the rows with their balances.
Statement(user, p, rows, opening) ==
  [id |-> <<"BANK", user, p.start>>, account |-> user, user |-> user,
   start |-> p.start, end |-> p.end, opening |-> opening,
   closing |-> Last(rows).balance, rows |-> rows]

---------------------------------------------------------------------------
(* The loops: one pass of the filler loop, or of the balance loop, a step. *)

VARIABLES asOf,        \* the date asked for
          count,       \* month_count
          user,        \* user_index
          index,       \* month_index
          rows,        \* rows of the month in work
          filler,      \* rows the filler loop added
          cursor,      \* its cursor
          posted,      \* rows of the month with a balance
          statements,  \* statements finished, of both users
          stage        \* "month", "fill", "balance" or "done"

generator == <<asOf, count, user, index, rows, filler, cursor, posted, statements, stage>>

FirstOpening(u) == IF u = 0 THEN 850000 ELSE 920000

GeneratorInit ==
  /\ asOf \in AsOfs
  /\ count = 3
  /\ user = 0
  /\ index = 0
  /\ rows = <<>>
  /\ filler = 0
  /\ cursor = 0
  /\ posted = 0
  /\ statements = <<>>
  /\ stage = "month"

Period == PeriodsOf(user, asOf, count)[index + 1]

\* opening = closing of the user's previous statement.
Opening == IF index = 0 THEN FirstOpening(user) ELSE Last(statements).closing

\* _one_statement up to the filler loop.
StartMonth ==
  /\ stage = "month"
  /\ \E p \in {Period} :
       /\ rows' = Regular(p, index)
       /\ cursor' = p.start + 2
  /\ filler' = 0
  /\ stage' = "fill"
  /\ UNCHANGED <<asOf, count, user, index, posted, statements>>

Weekdays(day) == Weekday(day) < 5
\* A filler row is posted on every day but Sunday.
Postable(day) == Weekday(day) < 6

FillDay == IF cursor > Period.end THEN Period.start + 1 ELSE cursor

\* One pass of the filler loop: past the end the cursor starts over at the
\* second day of the period.
Fill ==
  /\ stage = "fill"
  /\ Len(rows) < MinRows
  /\ LET day == FillDay
     IN  /\ cursor' = day + 1
         /\ IF Postable(day)
            THEN /\ rows' = Append(rows, Debit(day, 740, "filler", 2200 + 100 * (filler % 4)))
                 /\ filler' = filler + 1
            ELSE UNCHANGED <<rows, filler>>
  /\ UNCHANGED <<asOf, count, user, index, posted, statements, stage>>

\* The anomalies come after the filler and are sorted in with the rest.
InjectAndSort ==
  /\ stage = "fill"
  /\ Len(rows) >= MinRows
  /\ \E p \in {Period} : \E all \in {rows \o Anomalies(p, index)} :
       \E numbered \in {Numbered(user, p, all)} : rows' = Sorted(numbered)
  /\ posted' = 0
  /\ stage' = "balance"
  /\ UNCHANGED <<asOf, count, user, index, filler, cursor, statements>>

\* The running balance goes through the rows in their order.
BalanceRow ==
  /\ stage = "balance"
  /\ posted < Len(rows)
  /\ posted' = posted + 1
  /\ LET running == IF posted = 0 THEN Opening ELSE rows[posted].balance
     IN  rows' = [rows EXCEPT ![posted + 1].balance = running + Signed(rows[posted + 1])]
  /\ UNCHANGED <<asOf, count, user, index, filler, cursor, statements, stage>>

MonthsOf(u) == Len(PeriodsOf(u, asOf, count))

\* counts: the rows of a user's statements.
RowsOf(u, made) ==
  FoldLeft(LAMBDA n, s : IF s.user = u THEN n + Len(s.rows) ELSE n, 0, made)

Enough(made) ==
  \/ asOf = HISTORICAL
  \/ \A u \in Users : RowsOf(u, made) >= MinHistory
  \/ count >= MaxMonths

\* The rest of _one_statement, and the loops around it: the next month, the
\* next user, or the end, from which a short history starts over with a month
\* more.
FinishMonth ==
  /\ stage = "balance"
  /\ posted = Len(rows)
  /\ \E p \in {Period} :
       \E made \in {Append(statements, Statement(user, p, rows, Opening))} :
         \/ /\ index + 1 < MonthsOf(user)
            /\ index' = index + 1
            /\ statements' = made
            /\ stage' = "month"
            /\ UNCHANGED <<user, count>>
         \/ /\ index + 1 = MonthsOf(user) /\ user = 0
            /\ user' = 1
            /\ index' = 0
            /\ statements' = made
            /\ stage' = "month"
            /\ UNCHANGED count
         \/ /\ index + 1 = MonthsOf(user) /\ user = 1 /\ ~ Enough(made)
            /\ user' = 0
            /\ index' = 0
            /\ statements' = <<>>
            /\ count' = count + 1
            /\ stage' = "month"
         \/ /\ index + 1 = MonthsOf(user) /\ user = 1 /\ Enough(made)
            /\ statements' = made
            /\ stage' = "done"
            /\ UNCHANGED <<user, index, count>>
  /\ rows' = <<>>
  /\ UNCHANGED <<asOf, filler, cursor, posted>>

Generate == StartMonth \/ Fill \/ InjectAndSort \/ BalanceRow \/ FinishMonth
=============================================================================
