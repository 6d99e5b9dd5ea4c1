------------------------ MODULE DemoStatementsProofs -----------------------
(***************************************************************************)
(* Theorems about DemoStatements, for any as-of date, book and page size:  *)
(* what the generators of the synthetic statements make is consistent, a   *)
(* statement that is printed and suffers nothing is read back as it was,   *)
(* and a malformed one is refused, but for what the code does not look for. *)
(*                                                                         *)
(* The first part follows the generator row by row. The second follows the *)
(* printed lines: content between page furniture, pages, sections, tables  *)
(* and header entries, and what each parser makes of them. The third       *)
(* follows what a file suffers: which lines a harmed file may hold, and    *)
(* what the parsers make of such lines.                                    *)
(*                                                                         *)
(* What is computed over a sequence (a flattened sequence of rows, a fold, *)
(* the places of a sort) is reasoned about by induction over a set of      *)
(* natural numbers (SetInduction).                                         *)
(***************************************************************************)
EXTENDS DemoStatements, FiniteSetTheorems, SequenceTheorems, WellFoundedInduction, TLAPS

---------------------------------------------------------------------------
(* Induction, and the largest element.                                     *)

LEMMA LeastNatural ==
  ASSUME NEW T \in SUBSET Nat, T # {}
  PROVE  \E m \in T : \A n \in T : m <= n
<1>1. \E m \in T : \A n \in T : ~ (<<n, m>> \in OpToRel(<, Nat))
  BY NatLessThanWellFounded, WFMin, Zenon
<1>2. PICK m \in T : \A n \in T : ~ (n < m)
  BY <1>1, Zenon DEF OpToRel
<1> QED
  BY <1>2

LEMMA SetInduction ==
  ASSUME NEW T, 0 \in T, \A n \in Nat : n \in T => n + 1 \in T
  PROVE  Nat \subseteq T
<1> DEFINE Missing == Nat \ T
<1>1. CASE Missing = {}
  BY <1>1
<1>2. CASE Missing # {}
  <2>1. PICK m \in Missing : \A n \in Missing : m <= n
    <3>1. Missing \in SUBSET Nat
      OBVIOUS
    <3> QED BY <1>2, <3>1, LeastNatural
  <2>2. m \in Nat /\ m # 0 /\ m \notin T
    BY <2>1
  <2>3. m - 1 \in Nat /\ m - 1 \notin Missing
    BY <2>1, <2>2
  <2>4. (m - 1) + 1 \in T
    BY <2>3
  <2> QED BY <2>2, <2>4
<1> QED BY <1>1, <1>2

LEMMA LargestInteger ==
  ASSUME NEW T \in SUBSET Int, T # {}, NEW b \in Int, \A n \in T : n <= b
  PROVE  \E m \in T : \A n \in T : n <= m
<1> DEFINE Below == {b - n : n \in T}
<1>1. Below \in SUBSET Nat /\ Below # {}
  <2>1. ASSUME NEW n \in T PROVE b - n \in Nat
    OBVIOUS
  <2> QED BY <2>1
<1>2. PICK k \in Below : \A n \in Below : k <= n
  <2> HIDE DEF Below
  <2> QED BY <1>1, LeastNatural
<1>3. PICK m \in T : k = b - m
  BY <1>2
<1>4. \A n \in T : b - m <= b - n
  BY <1>2, <1>3
<1> QED
  BY <1>3, <1>4

---------------------------------------------------------------------------
(* The calendar.                                                           *)

LEMMA FirstDayInteger ==
  ASSUME NEW m \in Int
  PROVE  FirstDay(m) \in Int /\ LastDay(m) \in Int
BY DEF FirstDay, LastDay

\* The month of a day is one in which it lies.
LEMMA MonthOfDay ==
  ASSUME NEW day \in Nat \ {0}
  PROVE  /\ MonthOf(day) \in Int
         /\ FirstDay(MonthOf(day)) <= day
         /\ day <= LastDay(MonthOf(day))
<1> DEFINE from == day \div 31
           to   == day \div 28 + 12
           Begun == {m \in from..to : FirstDay(m) <= day}
<1>1. from \in Int /\ to \in Int /\ from <= to
  OBVIOUS
<1>2. FirstDay(from) <= day
  BY SMTT(30) DEF FirstDay
<1>3. FirstDay(to + 1) > day
  <2>1. FirstDay(day \div 28 + 13) > day
    BY SMTT(30) DEF FirstDay
  <2>2. to + 1 = day \div 28 + 13
    OBVIOUS
  <2> QED BY <2>1, <2>2
<1>4. PICK m \in Begun : \A n \in Begun : n <= m
  <2>1. from \in Begun
    BY <1>1, <1>2
  <2>2. Begun \in SUBSET Int /\ \A n \in Begun : n <= to
    BY <1>1
  <2> HIDE DEF Begun, from, to
  <2> QED BY <1>1, <2>1, <2>2, LargestInteger
<1>5. day < FirstDay(m + 1)
  <2>1. CASE m = to
    BY <1>3, <2>1
  <2>2. CASE m # to
    <3>1. m \in from..to /\ m + 1 \in from..to
      BY <1>1, <1>4, <2>2
    <3>2. m + 1 \notin Begun
      BY <1>4, <3>1
    <3>3. FirstDay(m + 1) \in Int
      BY <3>1, <1>1, FirstDayInteger
    <3> QED BY <3>1, <3>2, <3>3
  <2> QED BY <2>1, <2>2
<1>6. m \in from..to /\ FirstDay(m) <= day /\ day <= LastDay(m)
  <2>1. m \in from..to /\ FirstDay(m) <= day /\ m + 1 \in Int
    BY <1>1, <1>4
  <2>2. FirstDay(m + 1) \in Int
    BY <2>1, FirstDayInteger
  <2> QED BY <1>5, <2>1, <2>2 DEF LastDay
<1>7. /\ MonthOf(day) \in from..to
      /\ FirstDay(MonthOf(day)) <= day
      /\ day <= LastDay(MonthOf(day))
  <2> HIDE DEF Begun
  <2> QED BY <1>6 DEF MonthOf
<1> QED
  BY <1>1, <1>7

---------------------------------------------------------------------------
(* Flattened sequences.                                                    *)

\* The parts of FlattenSeq: the concatenation of the first i sequences.
Flattens(f, seqs) ==
  f = [i \in 1..Len(seqs) |-> IF i = 1 THEN seqs[i] ELSE f[i - 1] \o seqs[i]]

LEMMA FlattensAt ==
  ASSUME NEW seqs, NEW f, Flattens(f, seqs), NEW i \in 1..Len(seqs)
  PROVE  f[i] = IF i = 1 THEN seqs[i] ELSE f[i - 1] \o seqs[i]
<1> DEFINE Part(j) == IF j = 1 THEN seqs[j] ELSE f[j - 1] \o seqs[j]
<1>1. f = [j \in 1..Len(seqs) |-> Part(j)]
  BY DEF Flattens
<1>2. f[i] = Part(i)
  <2> HIDE DEF Part
  <2> QED BY <1>1
<1> QED
  BY <1>2

LEMMA FlattensExists ==
  ASSUME NEW seqs, Len(seqs) \in Nat
  PROVE  \E f : Flattens(f, seqs)
<1> DEFINE Part(n, f) == f = [i \in 1..n |-> IF i = 1 THEN seqs[i] ELSE f[i - 1] \o seqs[i]]
           T == {n \in Nat : \E f : Part(n, f)}
<1>1. 0 \in T
  <2>1. Part(0, [i \in 1..0 |-> 0])
    OBVIOUS
  <2> QED BY <2>1
<1>2. ASSUME NEW n \in Nat, n \in T PROVE n + 1 \in T
  <2>1. PICK f : Part(n, f)
    BY <1>2
  <2> DEFINE next == IF n = 0 THEN seqs[1] ELSE f[n] \o seqs[n + 1]
             g == [i \in 1..(n + 1) |-> IF i = n + 1 THEN next ELSE f[i]]
  <2>2. ASSUME NEW i \in 1..(n + 1)
        PROVE  g[i] = IF i = 1 THEN seqs[i] ELSE g[i - 1] \o seqs[i]
    <3>1. CASE i = n + 1
      BY <3>1
    <3>2. CASE i # n + 1
      <4>1. i \in 1..n /\ (i # 1 => i - 1 \in 1..n)
        BY <3>2
      <4>2. f[i] = IF i = 1 THEN seqs[i] ELSE f[i - 1] \o seqs[i]
        BY <2>1, <4>1
      <4> QED BY <3>2, <4>1, <4>2
    <3> QED BY <3>1, <3>2
  <2>3. g = [i \in 1..(n + 1) |-> IF i = 1 THEN seqs[i] ELSE g[i - 1] \o seqs[i]]
    <3>1. g = [i \in 1..(n + 1) |-> g[i]]
      OBVIOUS
    <3> HIDE DEF g
    <3> QED BY <2>2, <3>1
  <2>4. \E h : Part(n + 1, h)
    <3> HIDE DEF g
    <3> QED BY <2>3
  <2> HIDE DEF Part
  <2> QED BY <2>4
<1>3. Nat \subseteq T
  <2> HIDE DEF T
  <2> QED BY <1>1, <1>2, SetInduction
<1> QED
  BY <1>3 DEF Flattens

LEMMA FlattensUnique ==
  ASSUME NEW s, NEW t, NEW f, NEW g, Len(s) \in Nat, Len(t) \in Nat,
         Flattens(f, s), Flattens(g, t),
         NEW m \in Nat, m <= Len(s), m <= Len(t), \A i \in 1..m : s[i] = t[i]
  PROVE  \A i \in 1..m : f[i] = g[i]
<1> DEFINE T == {n \in Nat : \A i \in 1..n : i <= m => f[i] = g[i]}
<1>1. 0 \in T
  OBVIOUS
<1>2. ASSUME NEW n \in Nat, n \in T PROVE n + 1 \in T
  <2>1. ASSUME n + 1 <= m PROVE f[n + 1] = g[n + 1]
    <3>1. /\ f[n + 1] = IF n + 1 = 1 THEN s[n + 1] ELSE f[(n + 1) - 1] \o s[n + 1]
          /\ g[n + 1] = IF n + 1 = 1 THEN t[n + 1] ELSE g[(n + 1) - 1] \o t[n + 1]
      <4>1. n + 1 \in 1..Len(s) /\ n + 1 \in 1..Len(t)
        BY <2>1
      <4> QED BY <4>1, FlattensAt
    <3>2. s[n + 1] = t[n + 1]
      BY <2>1
    <3>3. n # 0 => f[n] = g[n]
      BY <1>2, <2>1
    <3>4. (n + 1) - 1 = n
      OBVIOUS
    <3> QED BY <3>1, <3>2, <3>3, <3>4
  <2> QED BY <1>2, <2>1
<1>3. Nat \subseteq T
  <2> HIDE DEF T
  <2> QED BY <1>1, <1>2, SetInduction
<1> QED
  BY <1>3

LEMMA FlattenLast ==
  ASSUME NEW seqs, Len(seqs) \in Nat, NEW f, Flattens(f, seqs)
  PROVE  FlattenSeq(seqs) = IF Len(seqs) = 0 THEN seqs ELSE f[Len(seqs)]
<1> DEFINE F == CHOOSE flatten : Flattens(flatten, seqs)
<1>1. FlattenSeq(seqs) = IF Len(seqs) = 0 THEN seqs ELSE F[Len(seqs)]
  BY DEF FlattenSeq, Flattens
<1>2. Flattens(F, seqs)
  BY FlattensExists
<1>3. \A i \in 1..Len(seqs) : f[i] = F[i]
  <2> HIDE DEF F
  <2> QED BY <1>2, FlattensUnique
<1> QED
  <2> HIDE DEF F
  <2> QED BY <1>1, <1>3

LEMMA FlattenEmpty == FlattenSeq(<<>>) = <<>>
BY DEF FlattenSeq

LEMMA FlattenStep ==
  ASSUME NEW t, NEW tu, Len(t) \in Nat, Len(tu) = Len(t) + 1,
         Len(t) = 0 => t \o tu[1] = tu[1], \A i \in 1..Len(t) : t[i] = tu[i]
  PROVE  FlattenSeq(tu) = FlattenSeq(t) \o tu[Len(tu)]
<1>1. PICK n \in Nat : n = Len(t) /\ Len(tu) = n + 1
  OBVIOUS
<1>2. PICK f : Flattens(f, t)
  BY <1>1, FlattensExists
<1>3. PICK g : Flattens(g, tu)
  BY <1>1, FlattensExists
<1>4. \A i \in 1..n : f[i] = g[i]
  <2>1. n <= Len(t) /\ n <= Len(tu) /\ Len(t) \in Nat /\ Len(tu) \in Nat
    BY <1>1
  <2>2. \A i \in 1..n : t[i] = tu[i]
    BY <1>1
  <2>3. Flattens(f, t) /\ Flattens(g, tu)
    BY <1>2, <1>3
  <2> QED BY ONLY n \in Nat, <2>1, <2>2, <2>3, FlattensUnique
<1>5. g[n + 1] = IF n + 1 = 1 THEN tu[n + 1] ELSE g[(n + 1) - 1] \o tu[n + 1]
  <2>1. n + 1 \in 1..Len(tu)
    BY <1>1
  <2> QED BY <1>3, <2>1, FlattensAt
<1>6. FlattenSeq(tu) = g[n + 1]
  BY <1>1, <1>3, FlattenLast
<1>7. FlattenSeq(t) = IF n = 0 THEN t ELSE f[n]
  BY <1>1, <1>2, FlattenLast
<1>8. CASE n = 0
  BY <1>1, <1>5, <1>6, <1>7, <1>8
<1>9. CASE n # 0
  <2>1. (n + 1) - 1 = n /\ n \in 1..n /\ n + 1 # 1
    BY <1>9
  <2> QED BY <1>1, <1>4, <1>5, <1>6, <1>7, <1>9, <2>1
<1> QED BY <1>8, <1>9

\* A further sequence is put at the end.
LEMMA FlattenAppend ==
  ASSUME NEW S, NEW seqs \in Seq(Seq(S)), NEW s \in Seq(S)
  PROVE  /\ FlattenSeq(Append(seqs, s)) = FlattenSeq(seqs) \o s
         /\ FlattenSeq(seqs) \in Seq(S)
<1> DEFINE Whole(t) == FlattenSeq(t)
           T == {n \in Nat : \A t \in Seq(Seq(S)) : Len(t) = n => Whole(t) \in Seq(S)}
<1>1. ASSUME NEW t \in Seq(Seq(S)), NEW u \in Seq(S), Whole(t) \in Seq(S)
      PROVE  Whole(Append(t, u)) = Whole(t) \o u
  <2>1. /\ Len(t) \in Nat
        /\ Append(t, u) \in Seq(Seq(S)) /\ Len(Append(t, u)) = Len(t) + 1
        /\ Append(t, u)[Len(t) + 1] = u
        /\ \A i \in 1..Len(t) : t[i] = Append(t, u)[i]
    OBVIOUS
  <2>2. Len(t) = 0 => t \o Append(t, u)[1] = Append(t, u)[1]
    <3>1. ASSUME Len(t) = 0 PROVE t = <<>>
      BY <3>1
    <3>2. <<>> \o u = u
      OBVIOUS
    <3> QED BY <2>1, <3>1, <3>2
  <2>3. PICK a, b : a = t /\ b = Append(t, u)
    OBVIOUS
  <2>4. /\ Len(a) \in Nat /\ Len(b) = Len(a) + 1
        /\ Len(a) = 0 => a \o b[1] = b[1]
        /\ \A i \in 1..Len(a) : a[i] = b[i]
    BY <2>1, <2>2, <2>3
  <2>5. FlattenSeq(b) = FlattenSeq(a) \o b[Len(b)]
    BY <2>4, FlattenStep
  <2> QED BY <2>1, <2>3, <2>5
<1>2. 0 \in T
  <2>1. ASSUME NEW t \in Seq(Seq(S)), Len(t) = 0 PROVE Whole(t) \in Seq(S)
    <3>1. t = <<>>
      BY <2>1
    <3>2. FlattenSeq(t) = t /\ <<>> \in Seq(S)
      BY <2>1, <3>1, FlattenEmpty
    <3> QED BY <3>1, <3>2
  <2> QED BY <2>1
<1>3. ASSUME NEW n \in Nat, n \in T PROVE n + 1 \in T
  <2>1. ASSUME NEW t \in Seq(Seq(S)), Len(t) = n + 1 PROVE Whole(t) \in Seq(S)
    <3> DEFINE head == SubSeq(t, 1, n)
    <3>1. head \in Seq(Seq(S)) /\ Len(head) = n /\ t = Append(head, t[n + 1]) /\ t[n + 1] \in Seq(S)
      BY <2>1
    <3>2. Whole(head) \in Seq(S)
      <4> HIDE DEF Whole, head
      <4> QED BY <1>3, <3>1
    <3>3. Whole(t) = Whole(head) \o t[n + 1]
      <4> HIDE DEF Whole, head
      <4> QED BY <1>1, <3>1, <3>2
    <3> HIDE DEF Whole, head
    <3> QED BY <3>1, <3>2, <3>3
  <2> HIDE DEF Whole
  <2> QED BY <2>1
<1>4. Nat \subseteq T
  <2> HIDE DEF T
  <2> QED BY <1>2, <1>3, SetInduction
<1>5. Whole(seqs) \in Seq(S)
  <2> HIDE DEF Whole
  <2> QED BY <1>4
<1> QED
  <2>1. Whole(Append(seqs, s)) = Whole(seqs) \o s
    <3> HIDE DEF Whole
    <3> QED BY <1>1, <1>5
  <2> QED BY <1>5, <2>1

LEMMA FlattenType ==
  ASSUME NEW S, NEW seqs \in Seq(Seq(S))
  PROVE  FlattenSeq(seqs) \in Seq(S)
<1>1. <<>> \in Seq(S)
  OBVIOUS
<1> QED
  BY <1>1, FlattenAppend

---------------------------------------------------------------------------
(* The rows of a month.                                                    *)

Currencies == {"USD", "GBP", "EUR"}
Directions == {"DEBIT", "CREDIT"}

\* What the rows are for.
Names == {"salary", "rent", "utilities", "streaming", "insurance", "transit", "coffee",
          "groceries", "dinner", "shopping", "transfer", "cash", "groceries_abroad",
          "refund", "interest", "fee", "filler", "large_amount", "unusual_merchant",
          "category_spike", "duplicate", "frequency_spike", "unusual_time",
          "weekly_spike", "international", "cash_withdrawal"}

\* A row before it has a place.
Draft == [day: Int, time: Int, what: Names, amount: Nat \ {0},
          ccy: Currencies, dir: Directions]

\* A period of at least eight days, and the rows of one that lie in it.
Reaches(p) == p.end >= p.start + 7
Within(p, day) == Reaches(p) => p.start <= day /\ day <= p.end
Dated(p) == {r \in Draft : Within(p, r.day)}

OnDay(day) == {r \in Draft : r.day = day}

Span == [start: Nat \ {0}, end: Int]

LEMMA PostType ==
  ASSUME NEW day \in Int, NEW time \in Int, NEW what \in Names, NEW amount \in Nat \ {0},
         NEW ccy \in Currencies, NEW dir \in Directions
  PROVE  /\ Post(day, time, what, amount, ccy, dir) \in Draft
         /\ Post(day, time, what, amount, ccy, dir).day = day
BY DEF Post, Draft

LEMMA DebitType ==
  ASSUME NEW day \in Int, NEW time \in Int, NEW what \in Names, NEW amount \in Nat \ {0}
  PROVE  /\ Debit(day, time, what, amount) \in Draft
         /\ Debit(day, time, what, amount).day = day
         /\ Credit(day, time, what, amount) \in Draft
         /\ Credit(day, time, what, amount).day = day
<1>1. "USD" \in Currencies /\ "DEBIT" \in Directions /\ "CREDIT" \in Directions
  BY DEF Currencies, Directions
<1> QED
  BY <1>1, PostType DEF Debit, Credit

LEMMA DatedType ==
  ASSUME NEW p, NEW day \in Int, Within(p, day), NEW time \in Int, NEW what \in Names,
         NEW amount \in Nat \ {0}
  PROVE  Debit(day, time, what, amount) \in Dated(p) /\ Credit(day, time, what, amount) \in Dated(p)
BY DebitType DEF Dated

LEMMA ForeignType ==
  ASSUME NEW p, NEW day \in Int, Within(p, day), NEW time \in Int, NEW what \in Names,
         NEW amount \in Nat \ {0}, NEW ccy \in Currencies
  PROVE  Post(day, time, what, amount, ccy, "DEBIT") \in Dated(p)
<1>1. "DEBIT" \in Directions
  BY DEF Directions
<1> QED
  BY <1>1, PostType DEF Dated

LEMMA OnDayType ==
  ASSUME NEW day \in Int, NEW time \in Int, NEW what \in Names, NEW amount \in Nat \ {0}
  PROVE  Debit(day, time, what, amount) \in OnDay(day)
BY DebitType DEF OnDay

LEMMA DailyRows ==
  ASSUME NEW day \in Nat \ {0}
  PROVE  Daily(day) \in Seq(OnDay(day))
<1> DEFINE S == OnDay(day)
           If(cond, row) == IF cond THEN <<row>> ELSE <<>>
           w == Weekday(day)
           groceries == 8800 + 100 * (DayOfMonth(day) % 5)
           shopping == 3600 + 100 * (DayOfMonth(day) % 7)
           a == Debit(day, 495, "transit", 450)
           b == Debit(day, 460, "coffee", 1250)
           c == Debit(day, 0, "groceries", groceries)
           d == Debit(day, 1150, "dinner", 4400)
           e == Debit(day, 0, "shopping", shopping)
<1>1. groceries \in Nat \ {0} /\ shopping \in Nat \ {0}
  <2>1. DayOfMonth(day) \in Int
    BY MonthOfDay, FirstDayInteger DEF DayOfMonth
  <2> QED BY <2>1
<1>2. a \in S /\ b \in S /\ c \in S /\ d \in S /\ e \in S
  <2>1. a \in S /\ b \in S /\ d \in S
    BY OnDayType, SMT DEF Names
  <2>2. c \in S /\ e \in S
    <3> HIDE DEF groceries, shopping
    <3> QED BY <1>1, OnDayType, SMT DEF Names
  <2> QED BY <2>1, <2>2
<1>3. Daily(day) = If(w < 5, a) \o If(w \in {1, 3}, b) \o If(w = 5, c) \o If(w = 5, d)
                     \o If(w = 2, e)
  BY DEF Daily
<1>4. /\ If(w < 5, a) \in Seq(S) /\ If(w \in {1, 3}, b) \in Seq(S) /\ If(w = 5, c) \in Seq(S)
      /\ If(w = 5, d) \in Seq(S) /\ If(w = 2, e) \in Seq(S)
  <2> HIDE DEF S, a, b, c, d, e, w
  <2> QED BY <1>2
<1> HIDE DEF S, If, a, b, c, d, e, w
<1>5. Daily(day) \in Seq(S)
  BY <1>3, <1>4
<1> QED
  BY <1>5 DEF S

LEMMA DaylongRows ==
  ASSUME NEW p \in Span
  PROVE  Daylong(p) \in Seq(Dated(p))
<1> DEFINE n == p.end - p.start + 1
           day(i) == p.start + i - 1
           days == [i \in 1..n |-> Daily(day(i))]
           N == IF n < 0 THEN 0 ELSE n
<1>1. p.start \in Nat \ {0} /\ p.end \in Int
  BY DEF Span
<1>2. ASSUME NEW i \in 1..n PROVE Daily(day(i)) \in Seq(Dated(p))
  <2>1. day(i) \in Nat \ {0} /\ p.start <= day(i) /\ day(i) <= p.end
    BY <1>1
  <2>2. OnDay(day(i)) \subseteq Dated(p)
    BY <2>1 DEF Dated, Within, OnDay
  <2>3. Daily(day(i)) \in Seq(OnDay(day(i)))
    BY <2>1, DailyRows
  <2> HIDE DEF day
  <2> QED BY <2>2, <2>3
<1>3. days \in Seq(Seq(Dated(p)))
  <2>1. N \in Nat /\ 1..n = 1..N
    BY <1>1
  <2>2. days = [i \in 1..N |-> Daily(day(i))]
    BY <2>1
  <2>3. \A i \in 1..N : Daily(day(i)) \in Seq(Dated(p))
    BY <1>2, <2>1
  <2> HIDE DEF N, n, day, days
  <2> QED BY <2>1, <2>2, <2>3
<1>4. FlattenSeq(days) \in Seq(Dated(p))
  <2> HIDE DEF days
  <2> QED BY <1>3, FlattenType
<1>5. Daylong(p) = FlattenSeq(days)
  BY DEF Daylong
<1> QED
  BY <1>4, <1>5

\* A day counted from the beginning and cut off at the end lies in the period.
LEMMA CutDay ==
  ASSUME NEW p \in Span, NEW offset \in Nat
  PROVE  /\ Earlier(p.start + offset, p.end) \in Int
         /\ Within(p, Earlier(p.start + offset, p.end))
         /\ p.start \in Int /\ Within(p, p.start)
         /\ p.end \in Int /\ Within(p, p.end)
         /\ offset <= 7 => p.start + offset \in Int /\ Within(p, p.start + offset)
BY DEF Span, Earlier, Within, Reaches

LEMMA RecurringRows ==
  ASSUME NEW p \in Span
  PROVE  Recurring(p) \in Seq(Dated(p))
<1> DEFINE last == Earlier(p.start + 14, p.end)
           a == Credit(p.start, 540, "salary", 450000)
           b == Credit(last, 540, "salary", 450000)
           c == Debit(p.start, 480, "rent", 180000)
           d == Debit(p.start + 4, 0, "utilities", 12000)
           e == Debit(p.start + 6, 0, "streaming", 1599)
           f == Debit(p.start + 7, 0, "insurance", 9500)
<1>1. /\ p.start \in Int /\ Within(p, p.start)
      /\ p.start + 4 \in Int /\ Within(p, p.start + 4)
      /\ p.start + 6 \in Int /\ Within(p, p.start + 6)
      /\ p.start + 7 \in Int /\ Within(p, p.start + 7)
  BY CutDay
<1>2. last \in Int /\ Within(p, last)
  BY CutDay
<1>3. a \in Dated(p) /\ b \in Dated(p) /\ c \in Dated(p)
  <2> HIDE DEF last
  <2> QED BY <1>1, <1>2, DatedType, SMT DEF Names
<1>4. d \in Dated(p) /\ e \in Dated(p) /\ f \in Dated(p)
  <2> HIDE DEF last
  <2> QED BY <1>1, DatedType, SMT DEF Names
<1>5. Recurring(p) = <<a, b, c, d, e, f>>
  BY DEF Recurring
<1> HIDE DEF a, b, c, d, e, f
<1> QED
  BY <1>3, <1>4, <1>5

LEMMA MonthlyRows ==
  ASSUME NEW p \in Span, NEW i \in Nat
  PROVE  Monthly(p, i) \in Seq(Dated(p))
<1> DEFINE At(offset) == Earlier(p.start + offset, p.end)
           Foreign(offsets, amount, ccy) ==
             [j \in DOMAIN offsets |->
                Post(At(offsets[j]), 0, "groceries_abroad", amount, ccy, "DEBIT")]
           refunds == IF i = 0 THEN 2 ELSE 1
           start == <<Debit(At(11), 0, "transfer", 20000), Debit(At(17), 0, "cash", 8000)>>
           pounds == <<3, 9, 16, 22>>
           euros == <<4, 11, 18, 24>>
           gbp == Foreign(pounds, 7000, "GBP")
           eur == Foreign(euros, 6500, "EUR")
           refund == [j \in 1..refunds |-> Credit(At(6 + 5 * (j - 1)), 0, "refund", 3600)]
           end == CASE i = 0 -> Credit(p.end, 0, "interest", 215)
                    [] i = 1 -> Debit(p.end, 0, "fee", 500)
                    [] OTHER -> Debit(p.end, 0, "fee", 1500)
<1>1. \A offset \in Nat : At(offset) \in Int /\ Within(p, At(offset))
  BY CutDay
<1>2. p.end \in Int /\ Within(p, p.end)
  BY CutDay
<1> HIDE DEF At
<1>3. start \in Seq(Dated(p))
  BY <1>1, DatedType, SMT DEF Names
<1>4. ASSUME NEW offsets \in Seq(Nat), NEW amount \in Nat \ {0}, NEW ccy \in Currencies
      PROVE  Foreign(offsets, amount, ccy) \in Seq(Dated(p))
  <2>1. ASSUME NEW j \in DOMAIN offsets
        PROVE  Post(At(offsets[j]), 0, "groceries_abroad", amount, ccy, "DEBIT") \in Dated(p)
    <3>1. offsets[j] \in Nat
      BY ONLY offsets \in Seq(Nat), j \in DOMAIN offsets
    <3> QED BY <1>1, <3>1, ForeignType, SMT DEF Names
  <2>2. Len(offsets) \in Nat /\ DOMAIN offsets = 1..Len(offsets)
    OBVIOUS
  <2> QED BY <2>1, <2>2
<1>5. gbp \in Seq(Dated(p)) /\ eur \in Seq(Dated(p))
  <2>1. pounds \in Seq(Nat) /\ euros \in Seq(Nat)
    OBVIOUS
  <2>2. "GBP" \in Currencies /\ "EUR" \in Currencies
    BY DEF Currencies
  <2> HIDE DEF Foreign, pounds, euros
  <2> QED BY <1>4, <2>1, <2>2, SMT
<1>6. refund \in Seq(Dated(p))
  <2>1. refunds \in Nat
    OBVIOUS
  <2>2. ASSUME NEW j \in 1..refunds
        PROVE  Credit(At(6 + 5 * (j - 1)), 0, "refund", 3600) \in Dated(p)
    <3>1. 6 + 5 * (j - 1) \in Nat
      BY <2>1
    <3> QED BY <1>1, <3>1, DatedType, SMT DEF Names
  <2> HIDE DEF refunds
  <2> QED BY <2>1, <2>2
<1>7. end \in Dated(p)
  <2>1. /\ Credit(p.end, 0, "interest", 215) \in Dated(p)
        /\ Debit(p.end, 0, "fee", 500) \in Dated(p)
        /\ Debit(p.end, 0, "fee", 1500) \in Dated(p)
    BY <1>2, DatedType, SMT DEF Names
  <2> QED BY <2>1
<1>8. Monthly(p, i) = start \o gbp \o eur \o refund \o <<end>>
  BY DEF Monthly, At
<1>9. <<end>> \in Seq(Dated(p))
  <2> HIDE DEF end
  <2> QED BY <1>7
<1> HIDE DEF start, gbp, eur, refund, end
<1> QED
  BY <1>3, <1>5, <1>6, <1>8, <1>9

LEMMA RegularRows ==
  ASSUME NEW p \in Span, NEW i \in Nat
  PROVE  Regular(p, i) \in Seq(Dated(p))
BY RecurringRows, DaylongRows, MonthlyRows DEF Regular

LEMMA AnomalyRows ==
  ASSUME NEW p \in Span, NEW i \in Nat
  PROVE  Anomalies(p, i) \in Seq(Dated(p)) /\ Len(Anomalies(p, i)) = 3
<1> DEFINE day == Earlier(p.start + 10 + i, p.end)
<1>1. day \in Int /\ Within(p, day) /\ p.start \in Int /\ Within(p, p.start)
  <2>1. 10 + i \in Nat /\ p.start + 10 + i = p.start + (10 + i)
    BY DEF Span
  <2> QED BY <2>1, CutDay
<1>2. ASSUME NEW kind \in 0..8 PROVE Anomaly(kind, p, i) \in Dated(p)
  <2> HIDE DEF day
  <2>1. /\ Debit(day, 845, "large_amount", 820000) \in Dated(p)
        /\ Debit(day, 1000, "unusual_merchant", 510000) \in Dated(p)
        /\ Debit(day, 0, "category_spike", 430000) \in Dated(p)
        /\ Debit(p.start, 605, "duplicate", 180000) \in Dated(p)
        /\ Debit(day, 660, "frequency_spike", 280000) \in Dated(p)
    BY <1>1, DatedType, SMT DEF Names
  <2>2. /\ Debit(day, 192, "unusual_time", 360000) \in Dated(p)
        /\ Debit(day, 0, "weekly_spike", 390000) \in Dated(p)
        /\ Debit(day, 1310, "cash_withdrawal", 450000) \in Dated(p)
    BY <1>1, DatedType, SMT DEF Names
  <2>3. Post(day, 1065, "international", 280000, "EUR", "DEBIT") \in Dated(p)
    BY <1>1, ForeignType, SMT DEF Currencies, Names
  <2> QED BY <2>1, <2>2, <2>3, SMT DEF Anomaly, day
<1>3. \A j \in 1..3 : (3 * i + j - 1) % 9 \in 0..8
  OBVIOUS
<1>4. Anomalies(p, i) = [j \in 1..3 |-> Anomaly((3 * i + j - 1) % 9, p, i)]
  BY SMT DEF Anomalies
<1>5. \A j \in 1..3 : Anomaly((3 * i + j - 1) % 9, p, i) \in Dated(p)
  BY <1>2, <1>3, SMT
<1> QED
  BY <1>4, <1>5, SMT

---------------------------------------------------------------------------
(* The rows in their order.                                                *)

\* Rows that can be put in order: no two have the same number.
Orderable(rs) ==
  /\ \A i \in DOMAIN rs : rs[i].day \in Int /\ rs[i].time \in Int /\ rs[i].seq \in Int
  /\ \A i, j \in DOMAIN rs : rs[i].seq = rs[j].seq => i = j

LEMMA PrecedesIsTotal ==
  ASSUME NEW rs, Orderable(rs), NEW i \in DOMAIN rs, NEW j \in DOMAIN rs
  PROVE  /\ ~ Precedes(rs[i], rs[i])
         /\ i # j => (Precedes(rs[i], rs[j]) <=> ~ Precedes(rs[j], rs[i]))
BY DEF Orderable, Precedes

LEMMA PrecedesIsTransitive ==
  ASSUME NEW rs, Orderable(rs), NEW i \in DOMAIN rs, NEW j \in DOMAIN rs, NEW k \in DOMAIN rs,
         Precedes(rs[i], rs[j]), Precedes(rs[j], rs[k])
  PROVE  Precedes(rs[i], rs[k])
BY DEF Orderable, Precedes

\* Every place is taken by one row: sorting keeps the length and the rows, and
\* puts them in order.
LEMMA SortedRows ==
  ASSUME NEW R, NEW rs \in Seq(R), Orderable(rs)
  PROVE  /\ Sorted(rs) \in Seq(R) /\ Len(Sorted(rs)) = Len(rs)
         /\ \A k, l \in 1..Len(rs) : k < l => Precedes(Sorted(rs)[k], Sorted(rs)[l])
<1> DEFINE n == Len(rs)
           NotAfter(i) == {j \in 1..n : ~ Precedes(rs[i], rs[j])}
           place == [i \in 1..n |-> Cardinality(NotAfter(i))]
           Holder(k) == CHOOSE i \in 1..n : place[i] = k
<1>1. n \in Nat /\ DOMAIN rs = 1..n
  OBVIOUS
<1> HIDE DEF n
<1>2. IsFiniteSet(1..n) /\ Cardinality(1..n) = n
  BY <1>1, FS_Interval
<1>3. ASSUME NEW i \in 1..n
      PROVE  IsFiniteSet(NotAfter(i)) /\ Cardinality(NotAfter(i)) \in 1..n
  <2>1. NotAfter(i) \in SUBSET (1..n)
    OBVIOUS
  <2>2. IsFiniteSet(NotAfter(i)) /\ Cardinality(NotAfter(i)) <= n
    BY <1>2, <2>1, FS_Subset
  <2>3. i \in NotAfter(i)
    BY <1>1, PrecedesIsTotal
  <2>4. Cardinality(NotAfter(i)) \in Nat /\ Cardinality(NotAfter(i)) # 0
    <3> HIDE DEF NotAfter
    <3> QED BY <2>2, <2>3, FS_CardinalityType, FS_EmptySet
  <2> HIDE DEF NotAfter
  <2> QED BY <1>1, <2>2, <2>4
<1>4. ASSUME NEW i \in 1..n, NEW j \in 1..n, Precedes(rs[i], rs[j])
      PROVE  place[i] < place[j]
  <2>1. i \in DOMAIN rs /\ j \in DOMAIN rs
    BY <1>1
  <2>2. j \in NotAfter(j) /\ j \notin NotAfter(i)
    BY <1>4, <2>1, PrecedesIsTotal
  <2>3. ASSUME NEW k \in NotAfter(i) PROVE k \in NotAfter(j)
    <3>1. k \in DOMAIN rs /\ k \in 1..n
      BY <1>1
    <3>2. ~ Precedes(rs[i], rs[k])
      OBVIOUS
    <3>3. ~ Precedes(rs[j], rs[k])
      BY ONLY Orderable(rs), <1>4, <2>1, <3>1, <3>2, PrecedesIsTransitive
    <3> QED BY <3>1, <3>3
  <2>4. NotAfter(i) \in SUBSET NotAfter(j) /\ NotAfter(i) # NotAfter(j)
    BY <2>2, <2>3
  <2>5. /\ IsFiniteSet(NotAfter(j))
        /\ Cardinality(NotAfter(j)) \in Int /\ Cardinality(NotAfter(i)) \in Int
    <3> HIDE DEF NotAfter
    <3> QED BY <1>1, <1>3
  <2> HIDE DEF NotAfter
  <2>6. Cardinality(NotAfter(i)) < Cardinality(NotAfter(j))
    BY <2>4, <2>5, FS_Subset
  <2> QED BY <2>6
<1>5. place \in [1..n -> 1..n]
  <2> HIDE DEF NotAfter
  <2> QED BY <1>3
<1>6. ASSUME NEW i \in 1..n, NEW j \in 1..n, place[i] = place[j] PROVE i = j
  <2>1. i \in DOMAIN rs /\ j \in DOMAIN rs
    BY <1>1
  <2>2. i # j => Precedes(rs[i], rs[j]) \/ Precedes(rs[j], rs[i])
    BY <2>1, PrecedesIsTotal
  <2>3. place[i] \in Int /\ place[j] \in Int
    <3> HIDE DEF place
    <3> QED BY <1>5
  <2> HIDE DEF place
  <2> QED BY <1>4, <1>6, <2>2, <2>3
<1> HIDE DEF place
<1>7. place \in Injection(1..n, 1..n)
  BY <1>5, <1>6 DEF Injection, IsInjective
<1>8. place \in Surjection(1..n, 1..n)
  BY <1>2, <1>7, FS_Injection
<1>9. ASSUME NEW k \in 1..n PROVE Holder(k) \in 1..n /\ place[Holder(k)] = k
  <2>1. \E i \in 1..n : place[i] = k
    BY <1>8 DEF Surjection
  <2> QED BY <2>1
<1>10. Sorted(rs) = [k \in 1..n |-> rs[Holder(k)]]
  BY <1>1 DEF Sorted, place
<1> HIDE DEF Holder
<1>11. Sorted(rs) \in Seq(R) /\ Len(Sorted(rs)) = n /\ \A k \in 1..n : Sorted(rs)[k] = rs[Holder(k)]
  <2>1. \A k \in 1..n : rs[Holder(k)] \in R
    BY <1>1, <1>9
  <2> QED BY <1>1, <1>10, <2>1
<1>12. ASSUME NEW k \in 1..n, NEW l \in 1..n, k < l
       PROVE  Precedes(Sorted(rs)[k], Sorted(rs)[l])
  <2>1. Holder(k) \in 1..n /\ Holder(l) \in 1..n /\ Holder(k) # Holder(l)
    BY <1>1, <1>9, <1>12
  <2>2. ~ Precedes(rs[Holder(l)], rs[Holder(k)])
    <3>1. place[Holder(k)] = k /\ place[Holder(l)] = l
      BY <1>9
    <3>2. ~ (l < k)
      BY <1>1, <1>12
    <3> QED BY <1>4, <2>1, <3>1, <3>2
  <2>3. Precedes(rs[Holder(k)], rs[Holder(l)])
    BY <1>1, <2>1, <2>2, PrecedesIsTotal
  <2> QED BY <1>11, <2>3
<1> QED
  BY <1>11, <1>12 DEF n

---------------------------------------------------------------------------
(* The periods of a user.                                                  *)

\* The months a generation may look back.
Counts == 3..MaxMonths

\* Periods that follow one another.
Consecutive(periods) ==
  /\ \A i \in DOMAIN periods : periods[i] \in Span
  /\ \A i \in DOMAIN periods : i + 1 \in DOMAIN periods =>
       periods[i + 1].start = periods[i].end + 1

LEMMA HistoricalPeriods ==
  ASSUME NEW u \in Users, NEW c \in Counts
  PROVE  /\ Len(PeriodsOf(u, HISTORICAL, c)) = 3
         /\ DOMAIN PeriodsOf(u, HISTORICAL, c) = 1..3
         /\ Consecutive(PeriodsOf(u, HISTORICAL, c))
<1> DEFINE P == [i \in 1..3 |-> [start |-> FirstDay(12 * 2024 + u + i),
                                 end   |-> LastDay(12 * 2024 + u + i)]]
<1>1. PeriodsOf(u, HISTORICAL, c) = P
  BY SMT DEF PeriodsOf
<1>2. ASSUME NEW i \in 1..3
      PROVE  /\ FirstDay(12 * 2024 + u + i) \in Nat \ {0}
             /\ LastDay(12 * 2024 + u + i) \in Int
  BY SMT DEF FirstDay, LastDay, Users
<1>3. P \in Seq(Span) /\ Len(P) = 3
  BY <1>2, SMT DEF Span
<1>4. \A i \in 1..2 : P[i + 1].start = P[i].end + 1
  <2>1. ASSUME NEW i \in 1..2 PROVE P[i + 1].start = P[i].end + 1
    <3> DEFINE m == 12 * 2024 + u + i
    <3>1. m \in Int /\ 12 * 2024 + u + (i + 1) = m + 1
      BY SMT DEF Users
    <3>2. FirstDay(m + 1) \in Int
      BY <3>1, FirstDayInteger, SMT
    <3>3. P[i + 1].start = FirstDay(m + 1) /\ P[i].end = LastDay(m)
      BY <3>1, SMT
    <3> QED BY <3>2, <3>3, SMT DEF LastDay
  <2> QED BY <2>1
<1>5. Consecutive(P)
  <2>1. DOMAIN P = 1..3 /\ \A i \in 1..3 : P[i] \in Span
    BY <1>2, SMT DEF Span
  <2>2. \A i \in 1..3 : i + 1 \in 1..3 => i \in 1..2
    BY SMT
  <2> HIDE DEF P
  <2> QED BY <1>4, <2>1, <2>2, Zenon DEF Consecutive
<1> QED
  <2> HIDE DEF P
  <2> QED BY <1>1, <1>3, <1>5, SMT

LEMMA CurrentPeriods ==
  ASSUME NEW u \in Users, NEW c \in Counts, NEW day \in AsOfs, day # HISTORICAL
  PROVE  /\ Len(PeriodsOf(u, day, c)) = c
         /\ DOMAIN PeriodsOf(u, day, c) = 1..c
         /\ Consecutive(PeriodsOf(u, day, c))
<1> DEFINE M == MonthOf(day)
           P == [i \in 1..c |-> Month(M - c + i, day)]
<1>1. day \in Nat /\ day >= 335
  BY GeneratorAssumption, SMT
<1>2. M \in Int /\ FirstDay(M) <= day /\ day <= LastDay(M)
  <2>1. day \in Nat \ {0}
    BY <1>1, SMT
  <2> QED BY <2>1, MonthOfDay
<1>3. c \in Nat /\ c >= 3 /\ c <= 12
  BY SMT DEF Counts, MaxMonths
<1> HIDE DEF M
<1>4. M >= 23
  <2>1. ASSUME M <= 22 PROVE FALSE
    <3>1. LastDay(M) < 335
      BY <1>2, <2>1, SMTT(30) DEF LastDay, FirstDay
    <3> QED BY <1>1, <1>2, <3>1, FirstDayInteger, SMT
  <2> QED BY <1>2, <2>1, SMT
<1>5. ASSUME NEW m \in Int, m >= 12 PROVE FirstDay(m) \in Nat \ {0}
  BY <1>5, SMTT(30) DEF FirstDay
<1>6. ASSUME NEW i \in 1..c
      PROVE  /\ M - c + i \in Int /\ M - c + i >= 12
             /\ P[i] \in Span
             /\ P[i].start = FirstDay(M - c + i)
             /\ i # c => P[i].end = LastDay(M - c + i)
  <2> DEFINE m == M - c + i
             end == IF m = M THEN day ELSE LastDay(m)
  <2>1. m \in Int /\ m >= 12 /\ (m = M <=> i = c)
    BY <1>2, <1>3, <1>4, SMT
  <2>2. FirstDay(m) \in Nat \ {0} /\ LastDay(m) \in Int
    BY <1>5, <2>1, FirstDayInteger
  <2>3. end \in Int /\ (i # c => end = LastDay(m))
    <3> HIDE DEF m
    <3> QED BY <1>1, <2>1, <2>2, SMT
  <2>4. P[i] = [start |-> FirstDay(m), end |-> end]
    BY DEF Month, M
  <2> HIDE DEF P, end
  <2>5. P[i].start = FirstDay(m) /\ P[i].end = end
    BY <2>4
  <2>6. P[i] \in Span
    BY <2>2, <2>3, <2>4 DEF Span
  <2> QED BY <2>1, <2>3, <2>5, <2>6
<1>7. \A i \in 1..c : P[i] \in Span
  BY <1>6
<1>8. ASSUME NEW i \in 1..c, i + 1 \in 1..c PROVE P[i + 1].start = P[i].end + 1
  <2> DEFINE m == M - c + i
  <2>1. m \in Int /\ i # c /\ M - c + (i + 1) = m + 1
    BY <1>2, <1>3, <1>8, SMT
  <2> HIDE DEF P
  <2>2. P[i + 1].start = FirstDay(M - c + (i + 1))
    BY <1>6, <1>8
  <2>3. P[i].end = LastDay(m)
    BY <1>6, <2>1
  <2>4. FirstDay(m + 1) \in Int
    BY <2>1, FirstDayInteger, SMT
  <2> HIDE DEF m
  <2> QED BY <2>1, <2>2, <2>3, <2>4, SMT DEF LastDay
<1>9. PeriodsOf(u, day, c) = P
  BY DEF PeriodsOf, PeriodsForAsOf, M
<1>10. Len(P) = c /\ DOMAIN P = 1..c
  BY <1>3, SMT
<1>11. Consecutive(P)
  <2> HIDE DEF P
  <2> QED BY <1>7, <1>8, <1>10, SMT DEF Consecutive
<1> QED
  <2> HIDE DEF P
  <2> QED BY <1>9, <1>10, <1>11

---------------------------------------------------------------------------
(* The inductive invariant of the generator.                               *)

RowIds == {"TXN"} \X Users \X Int \X Int

\* A row with its place, and those of a period.
Posted == [day: Int, time: Int, what: Names, amount: Nat \ {0}, ccy: Currencies,
           dir: Directions, id: RowIds, seq: Int, balance: Int]
PostedIn(p) == {r \in Posted : Within(p, r.day)}

BankIds == {"BANK"} \X Users \X Int

BankStatement ==
  [id: BankIds, account: Users, user: Users, start: Int, end: Int,
   opening: Int, closing: Int, rows: Seq(Posted)]

InDayOrder(rs) == \A i, j \in DOMAIN rs : i < j => rs[i].day <= rs[j].day

GeneratorType ==
  /\ asOf \in AsOfs /\ count \in Counts
  /\ user \in Users /\ index \in Nat /\ index < MonthsOf(user)
  /\ filler \in Nat /\ cursor \in Int /\ posted \in Nat
  /\ stage \in {"month", "fill", "balance", "done"}
  /\ statements \in Seq(BankStatement)

\* The month in work: its rows lie in its period, and the filler loop's cursor
\* is never on its first day; once sorted, they stay in their order.
MonthInWork ==
  /\ stage = "fill" => rows \in Seq(Dated(Period)) /\ cursor >= Period.start + 2
  /\ stage = "balance" =>
       /\ rows \in Seq(PostedIn(Period)) /\ rows # <<>> /\ InDayOrder(rows)
       /\ posted <= Len(rows)

\* A finished statement.
StatementOK(s) ==
  /\ \A i \in DOMAIN s.rows : Within(s, s.rows[i].day)
  /\ InDayOrder(s.rows)

Continues(s, t) == s.user = t.user => s.start = t.end + 1 /\ s.opening = t.closing

\* The statements continue each other, and the month in work the last of them.
Chain ==
  /\ \A k \in DOMAIN statements : StatementOK(statements[k])
  /\ \A k \in DOMAIN statements \ {1} : Continues(statements[k], statements[k - 1])
  /\ stage # "done" =>
       /\ index > 0 => /\ statements # <<>>
                       /\ Last(statements).user = user
                       /\ Last(statements).end + 1 = Period.start
       /\ index = 0 /\ statements # <<>> => Last(statements).user # user

EnoughWhenDone == stage = "done" => Enough(statements)

\* What is printed comes from the generators.
Printed ==
  \/ spec = None
  \/ IsBank(spec)
  \/ \E p \in Portfolios : spec = BrokerageSpec(p, asOf, asOf # HISTORICAL)

GeneratedInv == GeneratorType /\ MonthInWork /\ Chain /\ EnoughWhenDone /\ Printed

LEMMA UsersAre == Users = {0, 1} /\ Users \subseteq Nat
BY SMT DEF Users

LEMMA CountsAre == Counts \subseteq Nat /\ \A c \in Counts : c >= 3 /\ c <= 12
BY SMT DEF Counts, MaxMonths

\* The periods of every user are consecutive, and there are some.
LEMMA PeriodsAre ==
  ASSUME NEW u \in Users, NEW c \in Counts, NEW day \in AsOfs
  PROVE  /\ Len(PeriodsOf(u, day, c)) \in Nat \ {0}
         /\ DOMAIN PeriodsOf(u, day, c) = 1..Len(PeriodsOf(u, day, c))
         /\ Consecutive(PeriodsOf(u, day, c))
<1>1. CASE day = HISTORICAL
  BY <1>1, HistoricalPeriods
<1>2. CASE day # HISTORICAL
  <2>1. c \in Nat \ {0}
    BY CountsAre, SMT
  <2> QED BY <1>2, <2>1, CurrentPeriods
<1> QED
  BY <1>1, <1>2

LEMMA PeriodIs ==
  ASSUME GeneratorType
  PROVE  /\ Period \in Span
         /\ index + 1 < MonthsOf(user) =>
              PeriodsOf(user, asOf, count)[(index + 1) + 1].start = Period.end + 1
<1> DEFINE P == PeriodsOf(user, asOf, count)
<1>1. user \in Users /\ count \in Counts /\ asOf \in AsOfs /\ index \in Nat /\ index < MonthsOf(user)
  BY DEF GeneratorType
<1>2. Len(P) \in Nat \ {0} /\ DOMAIN P = 1..Len(P) /\ Consecutive(P) /\ MonthsOf(user) = Len(P)
  BY <1>1, PeriodsAre DEF MonthsOf
<1>3. Period = P[index + 1]
  BY DEF Period
<1>4. index + 1 \in DOMAIN P /\ (index + 1 < MonthsOf(user) => (index + 1) + 1 \in DOMAIN P)
  BY <1>1, <1>2, SMT
<1> HIDE DEF P
<1> QED
  BY <1>2, <1>3, <1>4 DEF P, Consecutive

LEMMA FillDayIs ==
  ASSUME GeneratorType, MonthInWork, stage = "fill"
  PROVE  /\ FillDay \in Int /\ FillDay >= Period.start + 1
         /\ Within(Period, FillDay)
<1>1. cursor \in Int /\ cursor >= Period.start + 2
  BY DEF GeneratorType, MonthInWork
<1>2. Period.start \in Int /\ Period.end \in Int
  BY PeriodIs, SMT DEF Span
<1> QED
  BY <1>1, <1>2, SMT DEF FillDay, Within, Reaches

\* Rows with their identities can be put in order.
LEMMA NumberedRows ==
  ASSUME NEW u \in Users, NEW p \in Span, NEW all \in Seq(Dated(p))
  PROVE  /\ Numbered(u, p, all) \in Seq(PostedIn(p))
         /\ Len(Numbered(u, p, all)) = Len(all)
         /\ Orderable(Numbered(u, p, all))
<1> DEFINE n == Len(all)
           Id(i) == <<"TXN", u, MonthOf(p.start), i>>
           Made(i) == [day |-> all[i].day, time |-> all[i].time, what |-> all[i].what,
                       amount |-> all[i].amount, ccy |-> all[i].ccy, dir |-> all[i].dir,
                       id |-> Id(i), seq |-> i, balance |-> 0]
           N == [i \in 1..n |-> Made(i)]
<1>1. n \in Nat /\ DOMAIN all = 1..n
  OBVIOUS
<1>2. MonthOf(p.start) \in Int
  <2>1. p.start \in Nat \ {0}
    BY DEF Span
  <2> QED BY <2>1, MonthOfDay
<1>3. ASSUME NEW i \in 1..n
      PROVE  Made(i) \in Posted /\ Made(i).day = all[i].day /\ Made(i).seq = i
             /\ Made(i).time = all[i].time
  <2>1. Id(i) \in RowIds
    BY <1>1, <1>2 DEF RowIds
  <2>2. all[i] \in Draft
    BY DEF Dated
  <2> HIDE DEF Id
  <2> QED BY <1>1, <2>1, <2>2, SMT DEF Draft, Posted
<1>4. ASSUME NEW i \in 1..n PROVE Within(p, all[i].day) /\ all[i].day \in Int /\ all[i].time \in Int
  BY DEF Dated, Draft
<1>5. Numbered(u, p, all) = N
  BY <1>1 DEF Numbered
<1> HIDE DEF Made, n
<1>6. ASSUME NEW i \in 1..n PROVE Made(i) \in PostedIn(p)
  BY <1>3, <1>4 DEF PostedIn
<1>7. N \in Seq(PostedIn(p)) /\ Len(N) = n /\ DOMAIN N = 1..n /\ \A i \in 1..n : N[i] = Made(i)
  BY <1>1, <1>6
<1> HIDE DEF N
<1>8. Orderable(N)
  <2>1. ASSUME NEW i \in 1..n
        PROVE  N[i].day \in Int /\ N[i].time \in Int /\ N[i].seq = i
    BY <1>3, <1>4, <1>7
  <2> QED BY <1>1, <1>7, <2>1, SMT DEF Orderable
<1> QED
  BY <1>5, <1>7, <1>8 DEF n

---------------------------------------------------------------------------
(* Every step of the generator keeps the invariant.                        *)

Kept == GeneratorType /\ MonthInWork /\ Chain /\ EnoughWhenDone

LEMMA StartMonthStep ==
  ASSUME Kept, StartMonth
  PROVE  Kept'
<1> USE DEF Kept
<1>1. /\ stage = "month" /\ stage' = "fill"
      /\ rows' = Regular(Period, index) /\ cursor' = Period.start + 2 /\ filler' = 0
      /\ asOf' = asOf /\ count' = count /\ user' = user /\ index' = index
      /\ posted' = posted /\ statements' = statements
  BY DEF StartMonth
<1>2. Period' = Period /\ MonthsOf(user)' = MonthsOf(user)
  BY <1>1 DEF Period, MonthsOf
<1>3. Period \in Span /\ index \in Nat
  BY PeriodIs DEF GeneratorType
<1>4. Period.start \in Int
  BY <1>3 DEF Span
<1>5. GeneratorType'
  BY <1>1, <1>2, <1>4 DEF GeneratorType
<1>6. MonthInWork'
  <2>1. Regular(Period, index) \in Seq(Dated(Period))
    BY <1>3, RegularRows
  <2>2. rows' \in Seq(Dated(Period'))
    BY <1>1, <1>2, <2>1, Zenon
  <2>3. cursor' >= Period'.start + 2
    BY <1>1, <1>2, <1>4
  <2> QED BY <1>1, <2>2, <2>3 DEF MonthInWork
<1>7. Chain'
  BY <1>1, <1>2 DEF Chain
<1>8. EnoughWhenDone'
  BY <1>1 DEF EnoughWhenDone
<1> QED
  BY <1>5, <1>6, <1>7, <1>8

LEMMA FillStep ==
  ASSUME Kept, Fill
  PROVE  Kept'
<1> USE DEF Kept
<1>1. /\ stage = "fill" /\ stage' = "fill" /\ cursor' = FillDay + 1
      /\ \/ /\ rows' = Append(rows, Debit(FillDay, 740, "filler", 2200 + 100 * (filler % 4)))
            /\ filler' = filler + 1
         \/ rows' = rows /\ filler' = filler
      /\ asOf' = asOf /\ count' = count /\ user' = user /\ index' = index
      /\ posted' = posted /\ statements' = statements
  BY Zenon DEF Fill
<1>2. Period' = Period /\ MonthsOf(user)' = MonthsOf(user)
  BY <1>1 DEF Period, MonthsOf
<1>3. Period \in Span /\ filler \in Nat /\ Period.start \in Int
  BY PeriodIs DEF GeneratorType, Span
<1>4. FillDay \in Int /\ FillDay >= Period.start + 1 /\ Within(Period, FillDay)
  BY <1>1, FillDayIs
<1>5. GeneratorType'
  <2>1. cursor' \in Int /\ filler' \in Nat
    BY <1>1, <1>3, <1>4, SMT
  <2> QED BY <1>1, <1>2, <2>1 DEF GeneratorType
<1>6. MonthInWork'
  <2>1. rows \in Seq(Dated(Period))
    BY <1>1 DEF MonthInWork
  <2> DEFINE row == Debit(FillDay, 740, "filler", 2200 + 100 * (filler % 4))
  <2>2. row \in Dated(Period)
    <3>1. 2200 + 100 * (filler % 4) \in Nat \ {0}
      BY <1>3, SMT
    <3> QED BY <1>4, <3>1, DatedType, SMT DEF Names
  <2> HIDE DEF row
  <2>3. rows' \in Seq(Dated(Period))
    <3>1. rows' = Append(rows, row) \/ rows' = rows
      BY <1>1 DEF row
    <3> QED BY <2>1, <2>2, <3>1
  <2>4. rows' \in Seq(Dated(Period'))
    BY <1>2, <2>3, Zenon
  <2>5. cursor' >= Period'.start + 2
    BY <1>1, <1>2, <1>3, <1>4, SMT
  <2> QED BY <1>1, <2>4, <2>5 DEF MonthInWork
<1>7. Chain'
  BY <1>1, <1>2 DEF Chain
<1>8. EnoughWhenDone'
  BY <1>1 DEF EnoughWhenDone
<1> QED
  BY <1>5, <1>6, <1>7, <1>8

LEMMA InjectAndSortStep ==
  ASSUME Kept, InjectAndSort
  PROVE  Kept'
<1> USE DEF Kept
<1> DEFINE all == rows \o Anomalies(Period, index)
           numbered == Numbered(user, Period, all)
<1>1. /\ stage = "fill" /\ stage' = "balance" /\ posted' = 0 /\ rows' = Sorted(numbered)
      /\ asOf' = asOf /\ count' = count /\ user' = user /\ index' = index
      /\ filler' = filler /\ cursor' = cursor /\ statements' = statements
  BY DEF InjectAndSort
<1>2. Period' = Period /\ MonthsOf(user)' = MonthsOf(user)
  BY <1>1 DEF Period, MonthsOf
<1>3. Period \in Span /\ index \in Nat /\ user \in Users
  BY PeriodIs DEF GeneratorType
<1>4. all \in Seq(Dated(Period)) /\ Len(all) \in Nat \ {0}
  <2>1. rows \in Seq(Dated(Period))
    BY <1>1 DEF MonthInWork
  <2>2. Anomalies(Period, index) \in Seq(Dated(Period)) /\ Len(Anomalies(Period, index)) = 3
    BY <1>3, AnomalyRows
  <2> QED BY <2>1, <2>2, SMT
<1> HIDE DEF all
<1>5. /\ numbered \in Seq(PostedIn(Period)) /\ Len(numbered) = Len(all) /\ Orderable(numbered)
  BY <1>3, <1>4, NumberedRows
<1> HIDE DEF numbered
<1> DEFINE sorted == Sorted(numbered)
<1>6. /\ sorted \in Seq(PostedIn(Period)) /\ Len(sorted) = Len(all)
      /\ \A k, l \in 1..Len(numbered) : k < l => Precedes(sorted[k], sorted[l])
  BY <1>5, SortedRows
<1> HIDE DEF sorted
<1>7. InDayOrder(sorted) /\ sorted # <<>>
  <2>1. DOMAIN sorted = 1..Len(numbered)
    BY <1>5, <1>6
  <2>2. ASSUME NEW i \in DOMAIN sorted, NEW j \in DOMAIN sorted, i < j
        PROVE  sorted[i].day <= sorted[j].day
    <3>1. Precedes(sorted[i], sorted[j])
      BY <1>6, <2>1, <2>2
    <3>2. sorted[i] \in Posted /\ sorted[j] \in Posted
      BY <1>6 DEF PostedIn
    <3>3. sorted[i].day \in Int /\ sorted[j].day \in Int
      BY <3>2, SMT DEF Posted
    <3> QED BY <3>1, <3>3 DEF Precedes
  <2>3. sorted # <<>>
    BY <1>4, <1>6
  <2> QED BY <2>2, <2>3 DEF InDayOrder
<1>8. GeneratorType'
  BY <1>1, <1>2 DEF GeneratorType
<1>9. MonthInWork'
  <2>1. rows' = sorted
    BY <1>1 DEF sorted
  <2>2. rows' \in Seq(PostedIn(Period')) /\ rows' # <<>> /\ InDayOrder(rows')
    BY <1>2, <1>6, <1>7, <2>1, Zenon
  <2>3. posted' <= Len(rows')
    BY <1>1, <1>4, <1>6, <2>1
  <2> QED BY <1>1, <2>2, <2>3 DEF MonthInWork, InDayOrder
<1>10. Chain'
  BY <1>1, <1>2 DEF Chain
<1>11. EnoughWhenDone'
  BY <1>1 DEF EnoughWhenDone
<1> QED
  BY <1>8, <1>9, <1>10, <1>11

LEMMA HalfEvenType ==
  ASSUME NEW x \in Int, NEW unit \in Nat \ {0}
  PROVE  HalfEven(x, unit) \in Int
<1>1. x \div unit \in Int
  BY SMT
<1> QED
  BY <1>1, SMT DEF HalfEven

LEMMA SignedType ==
  ASSUME NEW row \in Posted
  PROVE  Signed(row) \in Int
<1>1. row.amount \in Int
  BY SMT DEF Posted
<1>2. ToUsd(row) \in Int
  <2>1. HalfEven(row.amount * 127, 100) \in Int /\ HalfEven(row.amount * 1085, 1000) \in Int
    BY <1>1, HalfEvenType, SMT
  <2> QED BY <1>1, <2>1, SMT DEF ToUsd
<1> QED
  BY <1>2 DEF Signed

\* What is before the first row, and the closing balance of the statement before.
LEMMA OpeningType ==
  ASSUME Kept, stage # "done"
  PROVE  Opening \in Int
<1>1. CASE index = 0
  BY <1>1, SMT DEF Opening, FirstOpening
<1>2. CASE index # 0
  <2>1. statements \in Seq(BankStatement) /\ statements # <<>>
    BY <1>2 DEF Kept, GeneratorType, Chain
  <2>2. Last(statements) \in BankStatement
    BY <2>1 DEF Last
  <2>3. Last(statements).closing \in Int
    BY <2>2 DEF BankStatement
  <2> QED BY <1>2, <2>3 DEF Opening
<1> QED
  BY <1>1, <1>2

LEMMA BalanceRowStep ==
  ASSUME Kept, BalanceRow
  PROVE  Kept'
<1> USE DEF Kept
<1> DEFINE k == posted + 1
           running == IF posted = 0 THEN Opening ELSE rows[posted].balance
           row == [rows[k] EXCEPT !.balance = running + Signed(rows[k])]
<1>1. /\ stage = "balance" /\ stage' = "balance" /\ posted < Len(rows) /\ posted' = posted + 1
      /\ rows' = [rows EXCEPT ![k] = row]
      /\ asOf' = asOf /\ count' = count /\ user' = user /\ index' = index
      /\ filler' = filler /\ cursor' = cursor /\ statements' = statements
  BY DEF BalanceRow
<1>2. Period' = Period /\ MonthsOf(user)' = MonthsOf(user)
  BY <1>1 DEF Period, MonthsOf
<1>3. /\ rows \in Seq(PostedIn(Period)) /\ rows # <<>> /\ InDayOrder(rows) /\ posted <= Len(rows)
      /\ posted \in Nat
  BY <1>1 DEF MonthInWork, GeneratorType
<1>4. Len(rows) \in Nat /\ DOMAIN rows = 1..Len(rows) /\ k \in 1..Len(rows)
  BY <1>1, <1>3
<1>5. \A i \in 1..Len(rows) : rows[i] \in Posted /\ Within(Period, rows[i].day) /\ rows[i] \in PostedIn(Period)
  BY <1>3, <1>4 DEF PostedIn
<1>6. running \in Int
  <2>1. posted # 0 => posted \in 1..Len(rows)
    BY <1>1, <1>3, <1>4
  <2>2. posted # 0 => rows[posted].balance \in Int
    BY <1>5, <2>1, SMT DEF Posted
  <2>3. Opening \in Int
    BY <1>1, OpeningType
  <2> QED BY <2>2, <2>3
<1> HIDE DEF running
<1>7. row \in PostedIn(Period) /\ row.day = rows[k].day
  <2>1. rows[k] \in Posted /\ Within(Period, rows[k].day)
    BY <1>4, <1>5
  <2>2. running + Signed(rows[k]) \in Int
    BY <1>6, <2>1, SignedType
  <2>3. row \in Posted /\ row.day = rows[k].day
    BY <2>1, <2>2, SMT DEF Posted
  <2> HIDE DEF row
  <2> QED BY <2>1, <2>3 DEF PostedIn
<1> HIDE DEF row, k
<1>8. /\ rows' \in Seq(PostedIn(Period)) /\ Len(rows') = Len(rows)
      /\ DOMAIN rows' = 1..Len(rows)
      /\ \A i \in 1..Len(rows) : rows'[i].day = rows[i].day
  <2>1. rows' = [i \in 1..Len(rows) |-> IF i = k THEN row ELSE rows[i]]
    BY <1>1, <1>4
  <2>2. \A i \in 1..Len(rows) : (IF i = k THEN row ELSE rows[i]) \in PostedIn(Period)
    BY <1>5, <1>7
  <2>3. \A i \in 1..Len(rows) : (IF i = k THEN row ELSE rows[i]).day = rows[i].day
    BY <1>7
  <2> QED BY <1>4, <2>1, <2>2, <2>3
<1>9. InDayOrder(rows')
  BY <1>3, <1>4, <1>8 DEF InDayOrder
<1>10. GeneratorType'
  <2>1. posted' \in Nat
    BY <1>1, <1>3
  <2> QED BY <1>1, <1>2, <2>1 DEF GeneratorType
<1>11. MonthInWork'
  <2>1. rows' \in Seq(PostedIn(Period'))
    BY <1>2, <1>8, Zenon
  <2>2. posted' <= Len(rows') /\ rows' # <<>>
    BY <1>1, <1>3, <1>4, <1>8
  <2> QED BY <1>1, <1>9, <2>1, <2>2 DEF MonthInWork, InDayOrder
<1>12. Chain'
  BY <1>1, <1>2 DEF Chain
<1>13. EnoughWhenDone'
  BY <1>1 DEF EnoughWhenDone
<1> QED
  BY <1>10, <1>11, <1>12, <1>13

\* The statement of the month in work continues the last one.
LEMMA StatementIs ==
  ASSUME Kept, stage = "balance"
  PROVE  LET s == Statement(user, Period, rows, Opening)
         IN  /\ s \in BankStatement /\ StatementOK(s)
             /\ s.user = user /\ s.end = Period.end
             /\ statements # <<>> => Continues(s, Last(statements))
<1> DEFINE s == Statement(user, Period, rows, Opening)
<1> USE DEF Kept
<1>1. /\ rows \in Seq(PostedIn(Period)) /\ rows # <<>> /\ InDayOrder(rows)
      /\ user \in Users /\ index \in Nat /\ Opening \in Int /\ Period \in Span
  BY OpeningType, PeriodIs DEF MonthInWork, GeneratorType
<1>2. Len(rows) \in Nat \ {0} /\ DOMAIN rows = 1..Len(rows)
  BY <1>1
<1>3. \A i \in 1..Len(rows) : rows[i] \in Posted /\ Within(Period, rows[i].day)
  BY <1>1, <1>2 DEF PostedIn
<1>4. Last(rows).balance \in Int
  <2>1. Last(rows) \in Posted
    BY <1>2, <1>3 DEF Last
  <2> QED BY <2>1, SMT DEF Posted
<1>5. rows \in Seq(Posted)
  BY <1>1, <1>2, <1>3
<1>6. Period.start \in Int /\ Period.end \in Int
  BY <1>1 DEF Span
<1>7. s = [id |-> <<"BANK", user, Period.start>>, account |-> user, user |-> user,
           start |-> Period.start, end |-> Period.end, opening |-> Opening,
           closing |-> Last(rows).balance, rows |-> rows]
  BY DEF Statement
<1> HIDE DEF s
<1>8. /\ s.user = user /\ s.start = Period.start /\ s.end = Period.end
      /\ s.opening = Opening /\ s.rows = rows
  BY <1>7
<1>9. s \in BankStatement
  <2>1. <<"BANK", user, Period.start>> \in BankIds
    BY <1>1, <1>6 DEF BankIds
  <2> QED BY <1>1, <1>4, <1>5, <1>6, <1>7, <2>1, SMT DEF BankStatement
<1>10. StatementOK(s)
  <2>1. \A day : Within(s, day) <=> Within(Period, day)
    BY <1>8, Zenon DEF Within, Reaches
  <2> QED BY <1>1, <1>2, <1>3, <1>8, <2>1, Zenon DEF StatementOK
<1>11. ASSUME statements # <<>> PROVE Continues(s, Last(statements))
  <2>1. statements \in Seq(BankStatement)
    BY DEF GeneratorType
  <2>2. Last(statements) \in BankStatement
    BY <1>11, <2>1 DEF Last
  <2>3. CASE index = 0
    <3>1. Last(statements).user # user
      BY <1>11, <2>3 DEF Chain
    <3> QED BY <1>8, <3>1, Zenon DEF Continues
  <2>4. CASE index # 0
    <3>1. Last(statements).end + 1 = Period.start
      BY <1>1, <2>4 DEF Chain
    <3>2. Opening = Last(statements).closing
      BY <2>4 DEF Opening
    <3> QED BY <1>8, <3>1, <3>2, Zenon DEF Continues
  <2> QED BY <2>3, <2>4
<1> QED
  BY <1>8, <1>9, <1>10, <1>11 DEF s

\* A further statement that continues the last one.
LEMMA ChainGrows ==
  ASSUME NEW made \in Seq(BankStatement), NEW s \in BankStatement, StatementOK(s),
         made # <<>> => Continues(s, Last(made)),
         \A k \in DOMAIN made : StatementOK(made[k]),
         \A k \in DOMAIN made \ {1} : Continues(made[k], made[k - 1])
  PROVE  /\ Append(made, s) \in Seq(BankStatement)
         /\ Append(made, s) # <<>> /\ Last(Append(made, s)) = s
         /\ \A k \in DOMAIN Append(made, s) : StatementOK(Append(made, s)[k])
         /\ \A k \in DOMAIN Append(made, s) \ {1} :
              Continues(Append(made, s)[k], Append(made, s)[k - 1])
<1> DEFINE n == Len(made)
           all == Append(made, s)
<1>1. /\ n \in Nat /\ DOMAIN made = 1..n /\ all \in Seq(BankStatement) /\ Len(all) = n + 1
      /\ DOMAIN all = 1..(n + 1) /\ all[n + 1] = s /\ \A k \in 1..n : all[k] = made[k]
  OBVIOUS
<1>2. n # 0 => made # <<>> /\ Last(made) = made[n]
  BY <1>1 DEF Last
<1> HIDE DEF n, all
<1>3. all # <<>> /\ Last(all) = s
  BY <1>1 DEF Last
<1>4. ASSUME NEW k \in DOMAIN all PROVE StatementOK(all[k])
  <2>1. k = n + 1 \/ k \in 1..n
    BY <1>1
  <2> QED BY <1>1, <2>1, Zenon
<1>5. ASSUME NEW k \in DOMAIN all \ {1} PROVE Continues(all[k], all[k - 1])
  <2>1. CASE k = n + 1
    <3>1. n # 0 /\ k - 1 = n /\ n \in 1..n
      BY <1>1, <2>1
    <3>2. all[k] = s /\ all[k - 1] = Last(made) /\ made # <<>>
      BY <1>1, <1>2, <2>1, <3>1, Zenon
    <3> QED BY <3>2, Zenon
  <2>2. CASE k # n + 1
    <3>1. k \in 1..n \ {1} /\ k - 1 \in 1..n
      BY <1>1, <2>2
    <3>2. all[k] = made[k] /\ all[k - 1] = made[k - 1] /\ k \in DOMAIN made \ {1}
      BY <1>1, <3>1
    <3> QED BY <3>2, Zenon
  <2> QED BY <2>1, <2>2
<1> QED
  BY <1>1, <1>3, <1>4, <1>5, Zenon DEF all

LEMMA MonthsAre ==
  ASSUME GeneratorType, NEW u \in Users, NEW c \in Counts
  PROVE  Len(PeriodsOf(u, asOf, c)) \in Nat \ {0}
BY PeriodsAre DEF GeneratorType

\* Four ways to finish a month: the next month, the next user, all over again
\* with a month more, or the end.
LEMMA FinishMonthStep ==
  ASSUME Kept, FinishMonth
  PROVE  Kept'
<1> USE DEF Kept
<1> DEFINE s == Statement(user, Period, rows, Opening)
           made == Append(statements, s)
           NextMonth == /\ index + 1 < MonthsOf(user)
                        /\ index' = index + 1 /\ statements' = made /\ stage' = "month"
                        /\ user' = user /\ count' = count
           NextUser == /\ index + 1 = MonthsOf(user) /\ user = 0
                       /\ user' = 1 /\ index' = 0 /\ statements' = made
                       /\ stage' = "month" /\ count' = count
           Over == /\ ~ Enough(made)
                   /\ user' = 0 /\ index' = 0 /\ statements' = <<>>
                   /\ count' = count + 1 /\ stage' = "month"
           End == /\ Enough(made) /\ statements' = made /\ stage' = "done"
                  /\ user' = user /\ index' = index /\ count' = count
<1>1. /\ stage = "balance"
      /\ NextMonth \/ NextUser \/ Over \/ End
      /\ asOf' = asOf /\ filler' = filler /\ cursor' = cursor /\ posted' = posted
  BY DEF FinishMonth
<1>2. /\ s \in BankStatement /\ StatementOK(s) /\ s.user = user /\ s.end = Period.end
      /\ statements # <<>> => Continues(s, Last(statements))
  <2> HIDE DEF Kept
  <2> QED BY <1>1, StatementIs
<1>3. /\ statements \in Seq(BankStatement) /\ user \in Users /\ count \in Counts
      /\ index \in Nat /\ asOf \in AsOfs /\ filler \in Nat /\ cursor \in Int /\ posted \in Nat
  BY DEF GeneratorType
<1>4. /\ made \in Seq(BankStatement) /\ made # <<>> /\ Last(made) = s
      /\ \A k \in DOMAIN made : StatementOK(made[k])
      /\ \A k \in DOMAIN made \ {1} : Continues(made[k], made[k - 1])
  <2>1. /\ \A k \in DOMAIN statements : StatementOK(statements[k])
        /\ \A k \in DOMAIN statements \ {1} : Continues(statements[k], statements[k - 1])
    BY DEF Chain
  <2> HIDE DEF s
  <2> QED BY <1>2, <1>3, <2>1, ChainGrows
<1> HIDE DEF s, made
<1>5. CASE NextMonth
  <2>1. MonthsOf(user)' = MonthsOf(user)
    BY <1>1, <1>5 DEF MonthsOf
  <2>2. Period'.start = Period.end + 1
    <3>1. Period' = PeriodsOf(user, asOf, count)[(index + 1) + 1]
      BY <1>1, <1>5 DEF Period
    <3> QED BY <1>5, <3>1, PeriodIs
  <2>3. GeneratorType'
    BY <1>1, <1>3, <1>4, <1>5, <2>1 DEF GeneratorType
  <2>4. MonthInWork' /\ EnoughWhenDone'
    BY <1>5 DEF MonthInWork, EnoughWhenDone
  <2>5. Chain'
    <3>1. /\ statements' = made /\ statements' # <<>> /\ Last(statements') = s
          /\ s.user = user' /\ s.end + 1 = Period'.start /\ index' # 0
      BY <1>2, <1>3, <1>4, <1>5, <2>2
    <3> QED BY <1>4, <3>1, Zenon DEF Chain
  <2> QED BY <2>3, <2>4, <2>5
<1>6. CASE NextUser
  <2>1. MonthsOf(user)' \in Nat \ {0} /\ user' \in Users
    <3>1. 1 \in Users
      BY UsersAre
    <3>2. MonthsOf(user)' = Len(PeriodsOf(1, asOf, count))
      BY <1>1, <1>6 DEF MonthsOf
    <3> QED BY <1>3, <1>6, <3>1, <3>2, MonthsAre
  <2>2. GeneratorType'
    BY <1>1, <1>3, <1>4, <1>6, <2>1 DEF GeneratorType
  <2>3. MonthInWork' /\ EnoughWhenDone'
    BY <1>6 DEF MonthInWork, EnoughWhenDone
  <2>4. Chain'
    <3>1. /\ statements' = made /\ Last(statements') = s
          /\ s.user # user' /\ ~ (index' > 0)
      BY <1>2, <1>4, <1>6
    <3> QED BY <1>4, <3>1, Zenon DEF Chain
  <2> QED BY <2>2, <2>3, <2>4
<1>7. CASE Over
  <2>1. count < MaxMonths
    <3>1. count \in Int /\ MaxMonths \in Int
      BY <1>3, CountsAre, SMT DEF MaxMonths
    <3> QED BY <1>7, <3>1 DEF Enough
  <2>2. count' \in Counts
    BY <1>3, <1>7, <2>1, SMT DEF Counts, MaxMonths
  <2>3. MonthsOf(user)' \in Nat \ {0} /\ user' \in Users
    <3>1. 0 \in Users
      BY UsersAre
    <3>2. MonthsOf(user)' = Len(PeriodsOf(0, asOf, count'))
      BY <1>1, <1>7 DEF MonthsOf
    <3> QED BY <1>3, <1>7, <2>2, <3>1, <3>2, MonthsAre
  <2>4. GeneratorType'
    BY <1>1, <1>3, <1>7, <2>2, <2>3 DEF GeneratorType
  <2>5. MonthInWork' /\ EnoughWhenDone'
    BY <1>7 DEF MonthInWork, EnoughWhenDone
  <2>6. Chain'
    BY <1>7 DEF Chain
  <2> QED BY <2>4, <2>5, <2>6
<1>8. CASE End
  <2>1. MonthsOf(user)' = MonthsOf(user)
    BY <1>1, <1>8 DEF MonthsOf
  <2>2. GeneratorType'
    BY <1>1, <1>3, <1>4, <1>8, <2>1 DEF GeneratorType
  <2>3. MonthInWork'
    BY <1>8 DEF MonthInWork
  <2>4. EnoughWhenDone'
    BY <1>1, <1>8 DEF EnoughWhenDone, Enough
  <2>5. Chain'
    BY <1>4, <1>8 DEF Chain
  <2> QED BY <2>2, <2>3, <2>4, <2>5
<1> QED
  BY <1>1, <1>5, <1>6, <1>7, <1>8

LEMMA GeneratorStarts ==
  ASSUME GeneratorInit
  PROVE  Kept
<1>1. count \in Counts /\ user \in Users
  BY SMT DEF GeneratorInit, Counts, MaxMonths, Users
<1>2. MonthsOf(user) \in Nat \ {0}
  BY <1>1, PeriodsAre DEF GeneratorInit, MonthsOf
<1>3. GeneratorType
  BY <1>1, <1>2 DEF GeneratorInit, GeneratorType
<1>4. MonthInWork /\ Chain /\ EnoughWhenDone
  BY DEF GeneratorInit, MonthInWork, Chain, EnoughWhenDone
<1> QED
  BY <1>3, <1>4 DEF Kept

LEMMA GenerateStep ==
  ASSUME Kept, Generate
  PROVE  Kept' /\ asOf' = asOf
<1>1. CASE StartMonth
  BY <1>1, StartMonthStep DEF StartMonth
<1>2. CASE Fill
  BY <1>2, FillStep DEF Fill
<1>3. CASE InjectAndSort
  BY <1>3, InjectAndSortStep DEF InjectAndSort
<1>4. CASE BalanceRow
  BY <1>4, BalanceRowStep DEF BalanceRow
<1>5. CASE FinishMonth
  BY <1>5, FinishMonthStep DEF FinishMonth
<1> QED
  BY <1>1, <1>2, <1>3, <1>4, <1>5 DEF Generate

LEMMA GeneratorStutters ==
  ASSUME Kept, UNCHANGED generator
  PROVE  Kept'
<1>1. /\ asOf' = asOf /\ count' = count /\ user' = user /\ index' = index /\ rows' = rows
      /\ filler' = filler /\ cursor' = cursor /\ posted' = posted
      /\ statements' = statements /\ stage' = stage
  BY DEF generator
<1>2. Period' = Period /\ MonthsOf(user)' = MonthsOf(user)
  BY <1>1 DEF Period, MonthsOf
<1>3. GeneratorType' /\ Chain'
  BY <1>1, <1>2 DEF Kept, GeneratorType, Chain
<1>4. MonthInWork'
  BY <1>1, <1>2, Zenon DEF Kept, MonthInWork
<1>5. EnoughWhenDone'
  BY <1>1 DEF Kept, EnoughWhenDone, Enough
<1> QED
  BY <1>3, <1>4, <1>5 DEF Kept

---------------------------------------------------------------------------
(* The books.                                                              *)

LEMMA MaxIs ==
  ASSUME NEW k \in Nat, NEW s \in SUBSET (1..k), s # {}
  PROVE  Max(s) \in s /\ \A i \in s : i <= Max(s)
<1>1. PICK m \in s : \A i \in s : i <= m
  <2>1. s \in SUBSET Int /\ k \in Int /\ \A i \in s : i <= k
    OBVIOUS
  <2> QED BY <2>1, LargestInteger
<1>2. \A i \in s : m >= i
  BY <1>1
<1>3. Max(s) \in s /\ \A i \in s : Max(s) >= i
  BY <1>1, <1>2, Zenon DEF Max
<1> QED
  BY <1>3

\* A symbol is listed once.
Listed(seen, s) == IF s \in ToSet(seen) THEN seen ELSE Append(seen, s)

\* The parts of FoldLeft: what the symbols of each set of lots are added to.
Folds(g, base, seq, n) ==
  g = [s \in SUBSET (1..n) |->
         IF s = {} THEN base ELSE Listed(g[s \ {Max(s)}], seq[Max(s)])]

LEMMA FoldsAt ==
  ASSUME NEW base, NEW seq, NEW n, NEW g, Folds(g, base, seq, n), NEW s \in SUBSET (1..n)
  PROVE  g[s] = IF s = {} THEN base ELSE Listed(g[s \ {Max(s)}], seq[Max(s)])
<1> DEFINE Part(t) == IF t = {} THEN base ELSE Listed(g[t \ {Max(t)}], seq[Max(t)])
<1>1. g = [t \in SUBSET (1..n) |-> Part(t)]
  BY DEF Folds
<1>2. g[s] = Part(s)
  <2> HIDE DEF Part
  <2> QED BY <1>1
<1> QED
  BY <1>2

LEMMA FoldsExists ==
  ASSUME NEW base, NEW seq, NEW n \in Nat
  PROVE  \E g : Folds(g, base, seq, n)
<1> DEFINE T == {k \in Nat : \E g : Folds(g, base, seq, k)}
<1>1. 0 \in T
  <2> DEFINE g == [s \in SUBSET (1..0) |-> base]
  <2>1. \A s \in SUBSET (1..0) : s = {}
    OBVIOUS
  <2>2. Folds(g, base, seq, 0)
    BY <2>1, Zenon DEF Folds
  <2> QED BY <2>2
<1>2. ASSUME NEW k \in Nat, k \in T PROVE k + 1 \in T
  <2>1. PICK f : Folds(f, base, seq, k)
    BY <1>2
  <2> DEFINE Last1(s) == Listed(f[s \ {k + 1}], seq[k + 1])
             g == [s \in SUBSET (1..(k + 1)) |-> IF k + 1 \in s THEN Last1(s) ELSE f[s]]
             Part(s) == IF s = {} THEN base ELSE Listed(g[s \ {Max(s)}], seq[Max(s)])
  <2>2. ASSUME NEW s \in SUBSET (1..(k + 1)) PROVE g[s] = Part(s)
    <3>1. CASE k + 1 \in s
      <4>1. Max(s) = k + 1
        <5>1. k + 1 \in Nat /\ s # {}
          BY <3>1
        <5>2. Max(s) \in s /\ k + 1 <= Max(s)
          BY <3>1, <5>1, MaxIs
        <5>3. Max(s) \in 1..(k + 1)
          BY <5>2
        <5> QED BY <5>2, <5>3
      <4>2. s \ {k + 1} \in SUBSET (1..(k + 1)) /\ k + 1 \notin s \ {k + 1}
        OBVIOUS
      <4>3. g[s \ {k + 1}] = f[s \ {k + 1}]
        BY <4>2, Zenon
      <4>4. g[s] = Last1(s) /\ s # {}
        BY <3>1, Zenon
      <4> QED BY <4>1, <4>3, <4>4, Zenon
    <3>2. CASE k + 1 \notin s
      <4>1. s \in SUBSET (1..k)
        BY <3>2
      <4>2. g[s] = f[s]
        BY <3>2, Zenon
      <4>3. f[s] = IF s = {} THEN base ELSE Listed(f[s \ {Max(s)}], seq[Max(s)])
        <5> DEFINE PartF(t) == IF t = {} THEN base ELSE Listed(f[t \ {Max(t)}], seq[Max(t)])
        <5>1. f = [t \in SUBSET (1..k) |-> PartF(t)]
          BY ONLY <2>1, Zenon DEF Folds
        <5>2. f[s] = PartF(s)
          <6> HIDE DEF PartF
          <6> QED BY ONLY <4>1, <5>1, Zenon
        <5> QED BY <5>2, Zenon
      <4>4. k + 1 \notin s \ {Max(s)} /\ s \ {Max(s)} \in SUBSET (1..(k + 1))
        BY <3>2, Zenon
      <4>5. g[s \ {Max(s)}] = f[s \ {Max(s)}]
        BY <4>4, Zenon
      <4> QED BY <4>2, <4>3, <4>5, Zenon
    <3> QED BY <3>1, <3>2
  <2>3. g = [s \in SUBSET (1..(k + 1)) |-> g[s]]
    OBVIOUS
  <2>4. g = [s \in SUBSET (1..(k + 1)) |-> Part(s)]
    <3> HIDE DEF g, Part
    <3> QED BY <2>2, <2>3, Zenon
  <2>5. Folds(g, base, seq, k + 1)
    <3> HIDE DEF g
    <3> QED BY <2>4, Zenon DEF Folds
  <2> HIDE DEF g
  <2> QED BY <2>5
<1>3. Nat \subseteq T
  <2> HIDE DEF T
  <2> QED BY <1>1, <1>2, SetInduction
<1> QED
  BY <1>3

AllListed(base, seq) == FoldLeft(Listed, base, seq)

LEMMA FoldLast ==
  ASSUME NEW base, NEW seq, NEW n \in Nat, DOMAIN seq = 1..n
  PROVE  \E g : Folds(g, base, seq, n) /\ AllListed(base, seq) = g[1..n]
<1> DEFINE G == CHOOSE g : Folds(g, base, seq, n)
<1>1. AllListed(base, seq) = G[1..n]
  BY Zenon DEF AllListed, FoldLeft, MapThenFoldSet, Folds
<1>2. Folds(G, base, seq, n)
  BY FoldsExists, Zenon
<1> QED
  BY <1>1, <1>2, Zenon

LEMMA ListedIs ==
  ASSUME NEW S, NEW seen \in Seq(S), NEW s \in S
  PROVE  /\ Listed(seen, s) \in Seq(S)
         /\ ToSet(seen) \subseteq ToSet(Listed(seen, s)) /\ s \in ToSet(Listed(seen, s))
<1> DEFINE longer == Append(seen, s)
<1>1. longer \in Seq(S) /\ ToSet(seen) \subseteq ToSet(longer) /\ s \in ToSet(longer)
  <2>1. /\ longer \in Seq(S) /\ Len(seen) \in Nat /\ DOMAIN seen = 1..Len(seen)
        /\ DOMAIN longer = 1..(Len(seen) + 1)
        /\ longer[Len(seen) + 1] = s /\ \A i \in 1..Len(seen) : longer[i] = seen[i]
    OBVIOUS
  <2> HIDE DEF longer
  <2> QED BY <2>1 DEF ToSet
<1> HIDE DEF longer
<1>2. CASE s \in ToSet(seen)
  BY <1>2 DEF Listed
<1>3. CASE s \notin ToSet(seen)
  BY <1>1, <1>3 DEF Listed, longer
<1> QED
  BY <1>2, <1>3

\* No symbol of a lot is missing from the list.
LEMMA AllListedIs ==
  ASSUME NEW S, NEW base, base \in Seq(S), NEW seq, NEW n, n \in Nat, DOMAIN seq = 1..n,
         \A i \in 1..n : seq[i] \in S
  PROVE  /\ AllListed(base, seq) \in Seq(S)
         /\ \A i \in 1..n : seq[i] \in ToSet(AllListed(base, seq))
<1>1. PICK g : Folds(g, base, seq, n) /\ AllListed(base, seq) = g[1..n]
  BY FoldLast
<1>2. ASSUME NEW s \in SUBSET (1..n)
      PROVE  g[s] = IF s = {} THEN base ELSE Listed(g[s \ {Max(s)}], seq[Max(s)])
  <2>1. Folds(g, base, seq, n)
    BY <1>1
  <2> QED BY ONLY s \in SUBSET (1..n), <2>1, FoldsAt
<1> DEFINE T == {k \in Nat : k <= n => /\ g[1..k] \in Seq(S)
                                       /\ \A i \in 1..k : seq[i] \in ToSet(g[1..k])}
<1>3. 0 \in T
  <2>1. 1..0 = {} /\ 1..0 \in SUBSET (1..n)
    OBVIOUS
  <2>2. g[1..0] = base
    BY <1>2, <2>1, Zenon
  <2>3. 0 \in Nat /\ \A i \in 1..0 : FALSE
    OBVIOUS
  <2> QED BY <2>2, <2>3
<1>4. ASSUME NEW k \in Nat, k \in T PROVE k + 1 \in T
  <2>1. ASSUME k + 1 <= n
        PROVE  /\ g[1..(k + 1)] \in Seq(S)
               /\ \A i \in 1..(k + 1) : seq[i] \in ToSet(g[1..(k + 1)])
    <3> DEFINE s == 1..(k + 1)
    <3>1. s \in SUBSET (1..n) /\ s # {} /\ k + 1 \in s /\ \A i \in s : i \in Int /\ i <= k + 1
      <4>1. k + 1 \in s /\ \A i \in s : i \in Int /\ i <= k + 1
        OBVIOUS
      <4>2. \A i \in s : i \in 1..n
        BY <2>1
      <4> HIDE DEF s
      <4> QED BY <4>1, <4>2
    <3>2. Max(s) = k + 1
      <4>1. k + 1 \in Nat /\ s \in SUBSET (1..(k + 1))
        OBVIOUS
      <4> HIDE DEF s
      <4>2. Max(s) \in s /\ \A i \in s : i <= Max(s)
        BY <3>1, <4>1, MaxIs
      <4>3. k + 1 <= Max(s) /\ Max(s) \in Int /\ Max(s) <= k + 1
        BY <3>1, <4>2
      <4> QED BY <4>3
    <3>3. s \ {k + 1} = 1..k
      OBVIOUS
    <3>4. g[s] = Listed(g[1..k], seq[k + 1])
      <4> HIDE DEF s
      <4> QED BY <1>2, <3>1, <3>2, <3>3, Zenon
    <3>5. /\ g[1..k] \in Seq(S) /\ \A i \in 1..k : seq[i] \in ToSet(g[1..k])
          /\ seq[k + 1] \in S
      BY <1>4, <2>1
    <3>6. /\ g[s] \in Seq(S) /\ seq[k + 1] \in ToSet(g[s])
          /\ \A i \in 1..k : seq[i] \in ToSet(g[s])
      <4> HIDE DEF s
      <4> QED BY <3>4, <3>5, ListedIs
    <3>7. \A i \in s : i = k + 1 \/ i \in 1..k
      OBVIOUS
    <3> QED BY <3>6, <3>7, Zenon
  <2> QED BY <2>1
<1>5. Nat \subseteq T
  <2> HIDE DEF T
  <2> QED BY <1>3, <1>4, SetInduction
<1>6. n \in T
  BY <1>5
<1> QED
  BY <1>1, <1>6

\* What the lots of a symbol add up to.
HeldOf(s, lots) == FoldLeft(LAMBDA sum, l : IF l.symbol = s THEN sum + l.qty ELSE sum, 0, lots)

LEMMA HoldingsAre ==
  ASSUME NEW symbols, NEW lots
  PROVE  LET all == AllListed(symbols, [i \in DOMAIN lots |-> lots[i].symbol])
         IN  HoldingsFromLots(symbols, lots)
               = [i \in DOMAIN all |-> [id |-> all[i], qty |-> HeldOf(all[i], lots)]]
BY Zenon DEF HoldingsFromLots, AllListed, HeldOf, Listed, FoldLeft, MapThenFoldSet

LEMMA HoldingsHold ==
  ASSUME NEW S, NEW symbols \in Seq(S), NEW lots, NEW n \in Nat, DOMAIN lots = 1..n,
         \A i \in 1..n : lots[i].symbol \in S
  PROVE  LET holdings == HoldingsFromLots(symbols, lots)
         IN  /\ \A i \in DOMAIN lots : \E h \in ToSet(holdings) : h.id = lots[i].symbol
             /\ \A h \in ToSet(holdings) : h.qty = HeldOf(h.id, lots)
<1> DEFINE named == [i \in DOMAIN lots |-> lots[i].symbol]
           all == AllListed(symbols, named)
           Holding(i) == [id |-> all[i], qty |-> HeldOf(all[i], lots)]
           holdings == [i \in DOMAIN all |-> Holding(i)]
<1>1. HoldingsFromLots(symbols, lots) = holdings
  BY HoldingsAre
<1>2. \A i \in 1..n : lots[i].symbol \in ToSet(all)
  <2>1. DOMAIN named = 1..n /\ \A i \in 1..n : named[i] = lots[i].symbol /\ named[i] \in S
    OBVIOUS
  <2>2. \A i \in 1..n : named[i] \in ToSet(all)
    <3> HIDE DEF named
    <3> QED BY <2>1, AllListedIs
  <2> HIDE DEF named
  <2> QED BY <2>1, <2>2
<1> HIDE DEF all
<1>3. \A i \in DOMAIN all : Holding(i).id = all[i] /\ Holding(i).qty = HeldOf(Holding(i).id, lots)
  OBVIOUS
<1> HIDE DEF Holding
<1>4. DOMAIN holdings = DOMAIN all /\ \A i \in DOMAIN all : holdings[i] = Holding(i)
  OBVIOUS
<1> HIDE DEF holdings
<1>5. ASSUME NEW i \in DOMAIN lots
      PROVE  \E h \in ToSet(holdings) : h.id = lots[i].symbol
  <2>1. PICK j \in DOMAIN all : all[j] = lots[i].symbol
    BY <1>2 DEF ToSet
  <2>2. holdings[j] \in ToSet(holdings) /\ holdings[j].id = lots[i].symbol
    BY <1>3, <1>4, <2>1, Zenon DEF ToSet
  <2> QED BY <2>2
<1>6. ASSUME NEW h \in ToSet(holdings) PROVE h.qty = HeldOf(h.id, lots)
  <2>1. PICK j \in DOMAIN all : h = Holding(j)
    BY <1>4, Zenon DEF ToSet
  <2> QED BY <1>3, <2>1, Zenon
<1> QED
  BY <1>1, <1>5, <1>6, Zenon

\* An event and a lot as of another day.
MovedEvent(r, day) == [r EXCEPT !.day = Shift(r.day, day)]
MovedLot(l, day) == [l EXCEPT !.acquired = Shift(l.acquired, day)]

\* What a book of another day has in common with the historical one.
LEMMA CurrentBookIs ==
  ASSUME NEW book, NEW day, NEW made, made = CurrentBook(book, day)
  PROVE  /\ made.symbols = book.symbols
         /\ DOMAIN made.lots = DOMAIN book.lots
         /\ \A i \in DOMAIN book.lots : made.lots[i] = MovedLot(book.lots[i], day)
         /\ DOMAIN made.purchases = DOMAIN book.purchases
         /\ \A i \in DOMAIN book.purchases :
              made.purchases[i] = PatchedPurchase(MovedEvent(book.purchases[i], day), book.wash, day)
         /\ DOMAIN made.dividends = DOMAIN book.dividends
         /\ \A i \in DOMAIN book.dividends :
              made.dividends[i]
                = PatchedDividend(MovedEvent(book.dividends[i], day), made.purchases)
<1> DEFINE lots == [i \in DOMAIN book.lots |-> MovedLot(book.lots[i], day)]
           sales == [i \in DOMAIN book.sales |->
                       [book.sales[i] EXCEPT !.acquired = Shift(@, day), !.sold = Shift(@, day)]]
           purchases == [i \in DOMAIN book.purchases |->
                           PatchedPurchase(MovedEvent(book.purchases[i], day), book.wash, day)]
           dividends == [i \in DOMAIN book.dividends |->
                           PatchedDividend(MovedEvent(book.dividends[i], day), purchases)]
           current == [symbols |-> book.symbols, wash |-> book.wash, lots |-> lots,
                       sales |-> sales, purchases |-> purchases, dividends |-> dividends]
<1>1. made = current
  BY Zenon DEF CurrentBook, MovedLot, MovedEvent
<1> HIDE DEF lots, sales, purchases, dividends
<1>2. /\ current.symbols = book.symbols /\ current.lots = lots
      /\ current.purchases = purchases /\ current.dividends = dividends
  OBVIOUS
<1> HIDE DEF current
<1> QED
  BY <1>1, <1>2 DEF lots, purchases, dividends

\* The days of a current statement.
CurrentDays(day) == (day - 166)..day

LEMMA ShiftIs ==
  ASSUME NEW day \in Int, NEW d \in BookDays
  PROVE  Shift(d, day) \in CurrentDays(day)
<1>1. HistoricalDay \in Nat
  BY BookAssumption DEF BookAssumption
<1> QED
  BY <1>1, SMT DEF BookDays, Shift, CurrentDays

LEMMA PatchedPurchaseIs ==
  ASSUME NEW day \in Int, NEW b \in BookPurchases, NEW wash
  PROVE  LET made == PatchedPurchase(MovedEvent(b, day), wash, day)
         IN  /\ made.day \in CurrentDays(day)
             /\ made.reinvest = b.reinvest /\ made.symbol = b.symbol
<1> DEFINE r == [b EXCEPT !.day = Shift(b.day, day)]
           when == IF r.symbol = wash /\ r.reinvest THEN WashDay(day)
                   ELSE IF r.scheduled THEN CryptoDay(day) ELSE r.day
           made == [r EXCEPT !.day = when]
<1>1. PatchedPurchase(r, wash, day) = made
  BY Zenon DEF PatchedPurchase
<1>2. /\ DOMAIN b = {"id", "symbol", "day", "qty", "price", "reinvest", "scheduled"}
      /\ Shift(b.day, day) \in CurrentDays(day)
  BY ShiftIs DEF BookPurchases
<1>3. /\ DOMAIN r = DOMAIN b /\ r.day \in CurrentDays(day)
      /\ r.symbol = b.symbol /\ r.reinvest = b.reinvest
  BY <1>2
<1>4. WashDay(day) \in CurrentDays(day) /\ CryptoDay(day) \in CurrentDays(day)
  BY SMT DEF WashDay, CryptoDay, CurrentDays
<1> HIDE DEF r
<1>5. when \in CurrentDays(day)
  BY <1>3, <1>4
<1> HIDE DEF when
<1>6. made.day = when /\ made.reinvest = b.reinvest /\ made.symbol = b.symbol
  BY <1>2, <1>3
<1> HIDE DEF made
<1> QED
  BY <1>1, <1>5, <1>6, Zenon DEF r, MovedEvent

\* A reinvested dividend is paid on the day of the last of its purchases.
LEMMA PatchedDividendIs ==
  ASSUME NEW d, "day" \in DOMAIN d, NEW purchases, NEW n \in Nat, DOMAIN purchases = 1..n,
         NEW Days, d.day \in Days, \A i \in 1..n : purchases[i].day \in Days,
         d.reinvested => \E i \in 1..n : purchases[i].reinvest /\ purchases[i].symbol = d.symbol
  PROVE  LET made == PatchedDividend(d, purchases)
         IN  /\ made.day \in Days
             /\ made.reinvested => \E i \in 1..n : /\ purchases[i].reinvest
                                                   /\ purchases[i].symbol = made.symbol
                                                   /\ purchases[i].day = made.day
<1> DEFINE reinvested == {i \in DOMAIN purchases :
                            purchases[i].reinvest /\ purchases[i].symbol = d.symbol}
           last == Max(reinvested)
           when == IF d.reinvested /\ reinvested # {} THEN purchases[last].day ELSE d.day
           made == [d EXCEPT !.day = when]
<1>1. PatchedDividend(d, purchases) = made
  BY Zenon DEF PatchedDividend
<1>2. reinvested # {} => /\ last \in 1..n
                         /\ purchases[last].reinvest /\ purchases[last].symbol = d.symbol
  <2>1. reinvested \in SUBSET (1..n)
    OBVIOUS
  <2>2. reinvested # {} => last \in reinvested
    <3> HIDE DEF reinvested
    <3> QED BY <2>1, MaxIs
  <2> HIDE DEF last
  <2> QED BY <2>1, <2>2
<1>3. d.reinvested => reinvested # {}
  OBVIOUS
<1> HIDE DEF reinvested, last
<1>4. when \in Days /\ (d.reinvested => when = purchases[last].day)
  BY <1>2, <1>3, Zenon
<1> HIDE DEF when
<1>5. made.day = when /\ made.reinvested = d.reinvested /\ made.symbol = d.symbol
  OBVIOUS
<1> HIDE DEF made
<1>6. ASSUME made.reinvested
      PROVE  \E i \in 1..n : /\ purchases[i].reinvest /\ purchases[i].symbol = made.symbol
                             /\ purchases[i].day = made.day
  <2>1. d.reinvested
    BY <1>5, <1>6, Zenon
  <2>2. last \in 1..n /\ purchases[last].reinvest /\ purchases[last].symbol = made.symbol
    BY <1>2, <1>3, <1>5, <2>1, Zenon
  <2>3. purchases[last].day = made.day
    BY <1>4, <1>5, <2>1, Zenon
  <2> QED BY <2>2, <2>3, Zenon
<1> QED
  BY <1>1, <1>4, <1>5, <1>6, Zenon

LEMMA BookIs ==
  ASSUME NEW p \in Portfolios
  PROVE  /\ Books[p] \in BookRecords
         /\ \A d \in ToSet(Books[p].dividends) : d.reinvested =>
              \E b \in ToSet(Books[p].purchases) : b.reinvest /\ b.symbol = d.symbol
BY BookAssumption, Zenon DEF BookAssumption

\* The events of a current book lie in its period, and every reinvested
\* dividend has a purchase on its day.
LEMMA CurrentIncome ==
  ASSUME NEW p \in Portfolios, NEW day \in Int
  PROVE  LET made == CurrentBook(Books[p], day)
         IN  /\ \A e \in ToSet(made.purchases) \cup ToSet(made.dividends) :
                  e.day \in CurrentDays(day)
             /\ \A d \in ToSet(made.dividends) : d.reinvested =>
                  \E b \in ToSet(made.purchases) :
                    b.reinvest /\ b.symbol = d.symbol /\ b.day = d.day
<1> DEFINE book == Books[p]
           made == CurrentBook(book, day)
           Bought(i) == PatchedPurchase(MovedEvent(book.purchases[i], day), book.wash, day)
           Paid(i) == PatchedDividend(MovedEvent(book.dividends[i], day), made.purchases)
           n == Len(book.purchases)
           m == Len(book.dividends)
<1>1. /\ book.purchases \in Seq(BookPurchases) /\ book.dividends \in Seq(BookDividends)
  BY BookIs DEF BookRecords
<1>2. /\ DOMAIN made.purchases = DOMAIN book.purchases
      /\ \A i \in DOMAIN book.purchases : made.purchases[i] = Bought(i)
      /\ DOMAIN made.dividends = DOMAIN book.dividends
      /\ \A i \in DOMAIN book.dividends : made.dividends[i] = Paid(i)
  <2>1. made = CurrentBook(book, day)
    OBVIOUS
  <2> HIDE DEF made, book
  <2> QED BY ONLY <2>1, CurrentBookIs
<1>3. /\ n \in Nat /\ DOMAIN book.purchases = 1..n /\ \A i \in 1..n : book.purchases[i] \in BookPurchases
      /\ m \in Nat /\ DOMAIN book.dividends = 1..m /\ \A i \in 1..m : book.dividends[i] \in BookDividends
  BY <1>1
<1>4. ASSUME NEW i \in 1..n
      PROVE  /\ Bought(i).day \in CurrentDays(day)
             /\ Bought(i).reinvest = book.purchases[i].reinvest
             /\ Bought(i).symbol = book.purchases[i].symbol
  <2>1. book.purchases[i] \in BookPurchases
    BY <1>3
  <2> QED BY <2>1, PatchedPurchaseIs, Zenon
<1> HIDE DEF n, m, made, Bought
<1>5. /\ DOMAIN made.purchases = 1..n /\ \A i \in 1..n : made.purchases[i] = Bought(i)
  BY <1>2, <1>3, Zenon
<1>6. ASSUME NEW i \in 1..m
      PROVE  /\ Paid(i).day \in CurrentDays(day)
             /\ Paid(i).reinvested =>
                  \E j \in 1..n : /\ made.purchases[j].reinvest
                                  /\ made.purchases[j].symbol = Paid(i).symbol
                                  /\ made.purchases[j].day = Paid(i).day
  <2> DEFINE d == book.dividends[i]
             r == MovedEvent(d, day)
  <2>1. d \in BookDividends
    BY <1>3
  <2>2. /\ DOMAIN d = {"id", "symbol", "day", "amount", "reinvested"}
        /\ Shift(d.day, day) \in CurrentDays(day)
    BY <2>1, ShiftIs DEF BookDividends
  <2>3. d.reinvested => \E j \in 1..n : /\ book.purchases[j].reinvest
                                        /\ book.purchases[j].symbol = d.symbol
    <3>1. d \in ToSet(book.dividends)
      BY <1>3, Zenon DEF ToSet
    <3>2. d.reinvested => \E b \in ToSet(book.purchases) : b.reinvest /\ b.symbol = d.symbol
      BY <3>1, BookIs, Zenon
    <3> HIDE DEF book, d
    <3> QED BY <1>3, <3>2, Zenon DEF ToSet
  <2> HIDE DEF d
  <2>4. /\ r.day \in CurrentDays(day) /\ "day" \in DOMAIN r
        /\ r.symbol = d.symbol /\ r.reinvested = d.reinvested
    BY <2>2 DEF MovedEvent
  <2> HIDE DEF r
  <2>5. r.reinvested => \E j \in 1..n : /\ made.purchases[j].reinvest
                                        /\ made.purchases[j].symbol = r.symbol
    BY <1>4, <1>5, <2>3, <2>4, Zenon
  <2>6. \A j \in 1..n : made.purchases[j].day \in CurrentDays(day)
    BY <1>4, <1>5, Zenon
  <2>7. Paid(i) = PatchedDividend(r, made.purchases)
    BY DEF r, d
  <2> HIDE DEF Paid
  <2>8. PICK bought, days : bought = made.purchases /\ days = CurrentDays(day)
    OBVIOUS
  <2>9. /\ "day" \in DOMAIN r /\ n \in Nat /\ DOMAIN bought = 1..n /\ r.day \in days
        /\ \A j \in 1..n : bought[j].day \in days
        /\ r.reinvested => \E j \in 1..n : bought[j].reinvest /\ bought[j].symbol = r.symbol
    BY <1>3, <1>5, <2>4, <2>5, <2>6, <2>8, Zenon
  <2>10. /\ PatchedDividend(r, bought).day \in days
         /\ PatchedDividend(r, bought).reinvested =>
              \E j \in 1..n : /\ bought[j].reinvest
                              /\ bought[j].symbol = PatchedDividend(r, bought).symbol
                              /\ bought[j].day = PatchedDividend(r, bought).day
    BY ONLY <2>9, PatchedDividendIs
  <2> QED BY <2>7, <2>8, <2>10, Zenon
<1>7. DOMAIN made.dividends = 1..m /\ \A i \in 1..m : made.dividends[i] = Paid(i)
  BY <1>2, <1>3, Zenon
<1> HIDE DEF Paid
<1>8. ASSUME NEW e \in ToSet(made.purchases) \cup ToSet(made.dividends)
      PROVE  e.day \in CurrentDays(day)
  <2>1. CASE e \in ToSet(made.purchases)
    <3>1. PICK i \in 1..n : e = Bought(i)
      BY <1>5, <2>1, Zenon DEF ToSet
    <3> QED BY <1>4, <3>1, Zenon
  <2>2. CASE e \in ToSet(made.dividends)
    <3>1. PICK i \in 1..m : e = Paid(i)
      BY <1>7, <2>2, Zenon DEF ToSet
    <3> QED BY <1>6, <3>1, Zenon
  <2> QED BY <2>1, <2>2, Zenon
<1>9. ASSUME NEW d \in ToSet(made.dividends), d.reinvested
      PROVE  \E b \in ToSet(made.purchases) : b.reinvest /\ b.symbol = d.symbol /\ b.day = d.day
  <2>1. PICK i \in 1..m : d = Paid(i)
    BY <1>7, Zenon DEF ToSet
  <2>2. PICK j \in 1..n : /\ made.purchases[j].reinvest
                          /\ made.purchases[j].symbol = d.symbol
                          /\ made.purchases[j].day = d.day
    BY <1>6, <1>9, <2>1, Zenon
  <2>3. made.purchases[j] \in ToSet(made.purchases)
    BY <1>5, Zenon DEF ToSet
  <2> QED BY <2>2, <2>3, Zenon
<1> QED
  BY <1>8, <1>9, Zenon DEF made

\* A current statement is consistent.
BookHolds(made) ==
  /\ \A i \in DOMAIN made.lots : \E h \in ToSet(made.holdings) : h.id = made.lots[i].symbol
  /\ \A h \in ToSet(made.holdings) : h.qty = HeldOf(h.id, made.lots)
  /\ \A e \in ToSet(made.purchases) \cup ToSet(made.dividends) :
       made.start <= e.day /\ e.day <= made.end
  /\ \A d \in ToSet(made.dividends) : d.reinvested =>
       \E b \in ToSet(made.purchases) :
         b.reinvest /\ b.symbol = d.symbol /\ b.day = d.day

LEMMA CurrentStatement ==
  ASSUME NEW p \in Portfolios, NEW day \in Int
  PROVE  BookHolds(BrokerageSpec(p, day, TRUE))
<1> DEFINE book == CurrentBook(Books[p], day)
           start == Shift(HistoricalDay - 166, day)
           lots == [i \in DOMAIN book.lots |-> LotSpec(book.lots[i])]
           sales == [i \in DOMAIN book.sales |-> SaleSpec(book.sales[i])]
           made == BrokerageSpec(p, day, TRUE)
<1>1. made = [id |-> <<"BRK", p, day>>, account |-> p, user |-> p, start |-> start, end |-> day,
              holdings |-> HoldingsFromLots(book.symbols, lots), lots |-> lots,
              sales |-> sales, dividends |-> book.dividends, purchases |-> book.purchases,
              realized |-> Realized(sales)]
  BY Zenon DEF BrokerageSpec, AssembleSpec
<1> HIDE DEF book, start, lots, sales, made
<1>2. /\ made.start = start /\ made.end = day /\ made.lots = lots
      /\ made.holdings = HoldingsFromLots(book.symbols, lots)
      /\ made.dividends = book.dividends /\ made.purchases = book.purchases
  BY <1>1
<1>3. start = day - 166
  <2>1. HistoricalDay \in Nat
    BY BookAssumption DEF BookAssumption
  <2> QED BY <2>1, SMT DEF start, Shift
<1>4. \E S, n : /\ book.symbols \in Seq(S) /\ n \in Nat /\ DOMAIN lots = 1..n
                /\ \A i \in 1..n : lots[i].symbol \in S
  <2> DEFINE old == Books[p].lots
             n == Len(old)
             Moved(i) == MovedLot(old[i], day)
  <2>1. Books[p].symbols \in Seq(STRING) /\ old \in Seq(BookLots)
    BY BookIs DEF BookRecords
  <2>2. n \in Nat /\ DOMAIN old = 1..n /\ \A i \in 1..n : old[i] \in BookLots
    BY <2>1
  <2>3. book.symbols = Books[p].symbols /\ DOMAIN book.lots = DOMAIN old
        /\ \A i \in DOMAIN old : book.lots[i] = Moved(i)
    <3> DEFINE b == Books[p]
    <3>1. book = CurrentBook(b, day)
      BY DEF book
    <3> HIDE DEF b
    <3>2. /\ book.symbols = b.symbols /\ DOMAIN book.lots = DOMAIN b.lots
          /\ \A i \in DOMAIN b.lots : book.lots[i] = MovedLot(b.lots[i], day)
      BY ONLY <3>1, CurrentBookIs
    <3> QED BY <3>2, Zenon DEF b
  <2> HIDE DEF n, old
  <2>4. \A i \in 1..n : Moved(i).symbol \in STRING
    <3>1. ASSUME NEW i \in 1..n PROVE Moved(i).symbol \in STRING
      <4>1. old[i].symbol \in STRING /\ DOMAIN old[i] = {"id", "symbol", "acquired", "qty", "unit"}
        BY <2>2 DEF BookLots
      <4> QED BY <4>1 DEF MovedLot
    <3> QED BY <3>1
  <2> HIDE DEF Moved
  <2>5. DOMAIN lots = 1..n /\ \A i \in 1..n : lots[i] = LotSpec(Moved(i))
    BY <2>2, <2>3, Zenon DEF lots
  <2>6. \A i \in 1..n : lots[i].symbol \in STRING
    <3>1. \A l : LotSpec(l).symbol = l.symbol
      BY DEF LotSpec
    <3> QED BY <2>4, <2>5, <3>1, Zenon
  <2> QED BY <2>1, <2>2, <2>3, <2>5, <2>6, Zenon
<1>5. /\ \A i \in DOMAIN lots : \E h \in ToSet(made.holdings) : h.id = lots[i].symbol
      /\ \A h \in ToSet(made.holdings) : h.qty = HeldOf(h.id, lots)
  <2>1. PICK S, n : /\ book.symbols \in Seq(S) /\ n \in Nat /\ DOMAIN lots = 1..n
                    /\ \A i \in 1..n : lots[i].symbol \in S
    BY <1>4
  <2> DEFINE holdings == HoldingsFromLots(book.symbols, lots)
  <2>2. /\ \A i \in DOMAIN lots : \E h \in ToSet(holdings) : h.id = lots[i].symbol
        /\ \A h \in ToSet(holdings) : h.qty = HeldOf(h.id, lots)
    BY ONLY <2>1, HoldingsHold
  <2> HIDE DEF holdings
  <2>3. made.holdings = holdings
    BY <1>2 DEF holdings
  <2> QED BY <2>2, <2>3, Zenon
<1>6. \A e : e.day \in CurrentDays(day) => start <= e.day /\ e.day <= day
  BY <1>3, SMT DEF CurrentDays
<1>7. /\ \A e \in ToSet(book.purchases) \cup ToSet(book.dividends) : e.day \in CurrentDays(day)
      /\ \A d \in ToSet(book.dividends) : d.reinvested =>
           \E b \in ToSet(book.purchases) :
             b.reinvest /\ b.symbol = d.symbol /\ b.day = d.day
  BY CurrentIncome, Zenon DEF book
<1>8. \A e \in ToSet(made.purchases) \cup ToSet(made.dividends) :
        made.start <= e.day /\ e.day <= made.end
  BY <1>2, <1>6, <1>7, Zenon
<1>9. BookHolds(made)
  BY <1>2, <1>5, <1>7, <1>8, Zenon DEF BookHolds
<1> QED
  BY <1>9, Zenon DEF made

---------------------------------------------------------------------------
(* What is generated is consistent.                                        *)

LEMMA StatementsAreBank ==
  ASSUME Kept, NEW i \in DOMAIN statements
  PROVE  IsBank(statements[i])
<1>1. statements[i] \in BankStatement
  BY DEF Kept, GeneratorType
<1> QED
  BY <1>1 DEF BankStatement, IsBank

LEMMA PrintedStep ==
  ASSUME Kept, Printed, [Next]_vars
  PROVE  Printed'
<1>1. ASSUME spec' = spec, asOf' = asOf PROVE Printed'
  BY <1>1, Zenon DEF Printed, IsBank
<1>2. CASE Generating
  BY <1>1, <1>2, GenerateStep DEF Generating
<1>3. CASE PrintBank
  BY <1>3, StatementsAreBank DEF PrintBank, Printed, IsBank
<1>4. CASE PrintBrokerage
  <2>1. PICK p \in Portfolios : spec' = BrokerageSpec(p, asOf, asOf # HISTORICAL)
    BY <1>4 DEF PrintBrokerage
  <2>2. asOf' = asOf
    BY <1>4 DEF PrintBrokerage, generator
  <2>3. spec' = BrokerageSpec(p, asOf', asOf' # HISTORICAL)
    BY <2>1, <2>2, Zenon
  <2> QED BY <2>3, Zenon DEF Printed
<1>5. CASE Suffer
  BY <1>1, <1>5, Zenon DEF Suffer, generator
<1>6. CASE ReadStatement
  BY <1>1, <1>6, Zenon DEF ReadStatement, generator
<1>7. CASE UNCHANGED vars
  BY <1>1, <1>7, Zenon DEF vars, generator
<1> QED
  BY <1>2, <1>3, <1>4, <1>5, <1>6, <1>7 DEF Next

LEMMA GeneratedStep ==
  ASSUME GeneratedInv, [Next]_vars
  PROVE  GeneratedInv'
<1>1. Kept /\ Printed
  BY Zenon DEF GeneratedInv, Kept
<1>2. Printed'
  BY <1>1, PrintedStep
<1>3. Kept'
  <2>1. CASE Generating
    BY <1>1, <2>1, GenerateStep DEF Generating
  <2>2. CASE UNCHANGED generator
    BY <1>1, <2>2, GeneratorStutters
  <2> QED
    BY <2>1, <2>2 DEF Next, PrintBank, PrintBrokerage, Suffer, ReadStatement, vars
<1> QED
  BY <1>2, <1>3, Zenon DEF GeneratedInv, Kept

LEMMA GeneratedStarts ==
  ASSUME Init
  PROVE  GeneratedInv
<1>1. Kept
  BY GeneratorStarts DEF Init
<1>2. Printed
  BY Zenon DEF Init, Printed
<1> QED
  BY <1>1, <1>2, Zenon DEF GeneratedInv, Kept

LEMMA DatesAreIn ==
  ASSUME Kept
  PROVE  DatedInPeriod
<1>1. ASSUME NEW k \in DOMAIN statements, statements[k].end >= statements[k].start + 7,
             NEW i \in DOMAIN statements[k].rows
      PROVE  LET s == statements[k]
             IN  /\ s.start <= s.rows[i].day /\ s.rows[i].day <= s.end
                 /\ i > 1 => s.rows[i - 1].day <= s.rows[i].day
  <2> DEFINE s == statements[k]
  <2>1. StatementOK(s) /\ s \in BankStatement
    BY DEF Kept, Chain, GeneratorType
  <2>2. DOMAIN s.rows = 1..Len(s.rows) /\ Len(s.rows) \in Nat
    <3>1. s.rows \in Seq(Posted)
      BY <2>1 DEF BankStatement
    <3> QED BY <3>1
  <2> HIDE DEF s
  <2>3. i \in DOMAIN s.rows /\ s.end >= s.start + 7
    BY <1>1 DEF s
  <2>4. s.start <= s.rows[i].day /\ s.rows[i].day <= s.end
    BY <2>1, <2>3 DEF StatementOK, Within, Reaches
  <2>5. i > 1 => s.rows[i - 1].day <= s.rows[i].day
    <3>1. i > 1 => i - 1 \in DOMAIN s.rows /\ i - 1 < i
      BY <2>2, <2>3
    <3> QED BY <2>1, <2>3, <3>1 DEF StatementOK, InDayOrder
  <2> QED BY <2>4, <2>5 DEF s
<1> QED
  BY <1>1, Zenon DEF DatedInPeriod

LEMMA HistoryIs ==
  ASSUME Kept
  PROVE  HistoryIsEnough
<1>1. ASSUME stage = "done", asOf # HISTORICAL, NEW u \in Users
      PROVE  RowsOf(u, statements) >= MinHistory \/ count = MaxMonths
  <2>1. count \in Int /\ count <= MaxMonths /\ MaxMonths \in Int
    BY CountsAre, SMT DEF Kept, GeneratorType, MaxMonths
  <2> QED BY <1>1, <2>1 DEF Kept, EnoughWhenDone, Enough
<1>2. ASSUME NEW k \in DOMAIN statements \ {1}, statements[k].user = statements[k - 1].user
      PROVE  /\ statements[k].start = statements[k - 1].end + 1
             /\ statements[k].opening = statements[k - 1].closing
  BY <1>2, Zenon DEF Kept, Chain, Continues
<1> QED
  BY <1>1, <1>2, Zenon DEF HistoryIsEnough

LEMMA BooksAre ==
  ASSUME Kept, Printed
  PROVE  BookIsConsistent
<1> SUFFICES ASSUME spec # None, ~ IsBank(spec), asOf # HISTORICAL
             PROVE  BookIsConsistent
  BY Zenon DEF BookIsConsistent
<1>1. asOf \in Int
  BY GeneratorAssumption DEF Kept, GeneratorType
<1>2. PICK p \in Portfolios : spec = BrokerageSpec(p, asOf, asOf # HISTORICAL)
  BY Zenon DEF Printed
<1>3. spec = BrokerageSpec(p, asOf, TRUE)
  <2>1. BrokerageSpec(p, asOf, asOf # HISTORICAL) = BrokerageSpec(p, asOf, TRUE)
    BY Zenon DEF BrokerageSpec
  <2> QED BY <1>2, <2>1, Zenon
<1>4. BookHolds(spec)
  BY <1>1, <1>3, CurrentStatement, Zenon
<1>5. /\ \A i \in DOMAIN spec.lots : \E h \in ToSet(spec.holdings) : h.id = spec.lots[i].symbol
      /\ \A h \in ToSet(spec.holdings) : h.qty = HeldOf(h.id, spec.lots)
      /\ \A e \in ToSet(spec.purchases) \cup ToSet(spec.dividends) :
           spec.start <= e.day /\ e.day <= spec.end
      /\ \A d \in ToSet(spec.dividends) : d.reinvested =>
           \E b \in ToSet(spec.purchases) :
             b.reinvest /\ b.symbol = d.symbol /\ b.day = d.day
  BY ONLY <1>4, Zenon DEF BookHolds
<1>6. \A h \in ToSet(spec.holdings) :
        h.qty = FoldLeft(LAMBDA n, l : IF l.symbol = h.id THEN n + l.qty ELSE n, 0, spec.lots)
  BY ONLY <1>5, Zenon DEF HeldOf, FoldLeft, MapThenFoldSet
<1> QED
  BY ONLY <1>5, <1>6, Zenon DEF BookIsConsistent

\* What the generators make is consistent: the rows of a bank statement lie in
\* its period and in order, the statements of a user continue each other and
\* hold the history asked for, and a current brokerage statement agrees with
\* its lots and its purchases (build_bank_statements, _current_demo_spec).
THEOREM GeneratedIsConsistentAlways == Spec => []GeneratedIsConsistent
<1>1. Init => GeneratedInv
  BY GeneratedStarts
<1>2. GeneratedInv /\ [Next]_vars => GeneratedInv'
  BY GeneratedStep
<1>3. GeneratedInv => GeneratedIsConsistent
  <2>1. ASSUME GeneratedInv PROVE GeneratedIsConsistent
    <3>1. Kept /\ Printed
      BY <2>1, Zenon DEF GeneratedInv, Kept
    <3> QED BY <3>1, DatesAreIn, HistoryIs, BooksAre DEF GeneratedIsConsistent
  <2> QED BY <2>1
<1> QED
  BY <1>1, <1>2, <1>3, PTL DEF Spec

---------------------------------------------------------------------------
(* Lines between page furniture.                                           *)

\* The content of a sequence of lines lies at some places of it, in order, and
\* everything else is page furniture.
Carried(lines, content, at) ==
  /\ at \in [1..Len(content) -> 1..Len(lines)]
  /\ \A k, l \in 1..Len(content) : k < l => at[k] < at[l]
  /\ \A k \in 1..Len(content) : lines[at[k]] = content[k]
  /\ \A j \in 1..Len(lines) :
       (\A k \in 1..Len(content) : at[k] # j) => lines[j].kind \in Furniture

Carries(lines, content) == \E at : Carried(lines, content, at)

LEMMA CarriesItself ==
  ASSUME NEW S, NEW s \in Seq(S)
  PROVE  Carries(s, s)
<1> DEFINE at == [k \in 1..Len(s) |-> k]
<1>1. Len(s) \in Nat
  OBVIOUS
<1>2. Carried(s, s, at)
  BY <1>1 DEF Carried
<1> QED
  BY <1>2 DEF Carries

LEMMA CarriesNothing ==
  ASSUME NEW s, Len(s) \in Nat, \A j \in 1..Len(s) : s[j].kind \in Furniture
  PROVE  Carries(s, <<>>)
<1> DEFINE at == [k \in 1..0 |-> k]
<1>1. Carried(s, <<>>, at)
  <2>1. Len(<<>>) = 0 /\ \A k \in 1..0 : FALSE
    OBVIOUS
  <2> QED BY <2>1 DEF Carried
<1> QED
  BY <1>1 DEF Carries

LEMMA ConcatIs ==
  ASSUME NEW S, NEW s \in Seq(S), NEW t \in Seq(S)
  PROVE  /\ Len(s) \in Nat /\ Len(t) \in Nat
         /\ s \o t \in Seq(S) /\ Len(s \o t) = Len(s) + Len(t)
         /\ \A i \in 1..Len(s) : (s \o t)[i] = s[i]
         /\ \A i \in 1..Len(t) : (s \o t)[Len(s) + i] = t[i]
<1>1. Len(s) \in Nat /\ Len(t) \in Nat /\ s \o t \in Seq(S) /\ Len(s \o t) = Len(s) + Len(t)
  OBVIOUS
<1>2. ASSUME NEW i \in 1..Len(s) PROVE (s \o t)[i] = s[i]
  OBVIOUS
<1>3. ASSUME NEW i \in 1..Len(t) PROVE (s \o t)[Len(s) + i] = t[i]
  <2>1. ASSUME NEW j \in (Len(s) + 1)..(Len(s) + Len(t)) PROVE (s \o t)[j] = t[j - Len(s)]
    OBVIOUS
  <2>2. Len(s) + i \in (Len(s) + 1)..(Len(s) + Len(t)) /\ (Len(s) + i) - Len(s) = i
    BY <1>1
  <2> QED BY <2>1, <2>2
<1> QED
  BY <1>1, <1>2, <1>3

LEMMA CarriesBoth ==
  ASSUME NEW S, NEW s \in Seq(S), NEW t \in Seq(S), NEW c \in Seq(S), NEW d \in Seq(S),
         Carries(s, c), Carries(t, d)
  PROVE  Carries(s \o t, c \o d)
<1>1. PICK f : Carried(s, c, f)
  BY DEF Carries
<1>2. PICK g : Carried(t, d, g)
  BY DEF Carries
<1> DEFINE n == Len(c)
           m == Len(s)
           at == [k \in 1..(n + Len(d)) |-> IF k <= n THEN f[k] ELSE m + g[k - n]]
<1>3. /\ n \in Nat /\ m \in Nat /\ Len(d) \in Nat /\ Len(t) \in Nat
      /\ Len(s \o t) = m + Len(t) /\ Len(c \o d) = n + Len(d)
      /\ \A i \in 1..m : (s \o t)[i] = s[i]
      /\ \A i \in 1..Len(t) : (s \o t)[m + i] = t[i]
      /\ \A i \in 1..n : (c \o d)[i] = c[i]
      /\ \A i \in 1..Len(d) : (c \o d)[n + i] = d[i]
  BY ConcatIs
<1>4. PICK l \in Nat : l = Len(t)
  BY <1>3
<1> DEFINE lines == s \o t
           content == c \o d
<1>5. PICK e \in Nat : e = Len(d)
  BY <1>3
<1> HIDE DEF n, m, lines, content
<1>0. n \in Nat /\ m \in Nat
  BY <1>3
<1>6. /\ f \in [1..n -> 1..m] /\ \A i, j \in 1..n : i < j => f[i] < f[j]
      /\ \A i \in 1..n : s[f[i]] = c[i]
      /\ \A j \in 1..m : (\A k \in 1..n : f[k] # j) => s[j].kind \in Furniture
  BY <1>1 DEF Carried, n, m
<1>7. /\ g \in [1..e -> 1..l] /\ \A i, j \in 1..e : i < j => g[i] < g[j]
      /\ \A i \in 1..e : t[g[i]] = d[i]
      /\ \A j \in 1..l : (\A k \in 1..e : g[k] # j) => t[j].kind \in Furniture
  BY <1>2, <1>4, <1>5 DEF Carried
<1>8. /\ Len(lines) = m + l /\ Len(content) = n + e
      /\ \A i \in 1..m : lines[i] = s[i]
      /\ \A i \in 1..l : lines[m + i] = t[i]
      /\ \A i \in 1..n : content[i] = c[i]
      /\ \A i \in 1..e : content[n + i] = d[i]
  BY <1>3, <1>4, <1>5 DEF lines, content
<1>9. \A k \in 1..(n + e) : at[k] = IF k <= n THEN f[k] ELSE m + g[k - n]
  BY <1>5
<1>10. at \in [1..(n + e) -> 1..(m + l)]
  <2>1. ASSUME NEW k \in 1..(n + e)
        PROVE  (IF k <= n THEN f[k] ELSE m + g[k - n]) \in 1..(m + l)
    <3>1. CASE k <= n
      <4>1. f[k] \in 1..m
        BY <1>0, <1>6, <3>1
      <4> QED BY <1>0, <1>4, <3>1, <4>1
    <3>2. CASE ~ (k <= n)
      <4>1. g[k - n] \in 1..l
        BY <1>0, <1>7, <3>2
      <4> QED BY <1>0, <1>4, <3>2, <4>1
    <3> QED BY <3>1, <3>2
  <2> QED BY <1>5, <2>1
<1> HIDE DEF at
<1>11. ASSUME NEW i \in 1..(n + e), NEW j \in 1..(n + e), i < j PROVE at[i] < at[j]
  <2>1. /\ at[i] = IF i <= n THEN f[i] ELSE m + g[i - n]
        /\ at[j] = IF j <= n THEN f[j] ELSE m + g[j - n]
    BY <1>9
  <2>2. CASE j <= n
    <3>1. i \in 1..n /\ j \in 1..n
      BY <1>0, <1>11, <2>2
    <3> QED BY <1>0, <1>6, <1>11, <2>1, <2>2, <3>1
  <2>3. CASE ~ (j <= n) /\ i <= n
    <3>1. i \in 1..n /\ j - n \in 1..e
      BY <1>0, <2>3
    <3>2. f[i] \in 1..m /\ g[j - n] \in 1..l
      BY <1>6, <1>7, <3>1
    <3> QED BY <1>0, <1>4, <2>1, <2>3, <3>2
  <2>4. CASE ~ (i <= n)
    <3>1. i - n \in 1..e /\ j - n \in 1..e /\ i - n < j - n /\ ~ (j <= n)
      BY <1>0, <1>11, <2>4
    <3>2. g[i - n] \in 1..l /\ g[j - n] \in 1..l /\ g[i - n] < g[j - n]
      BY <1>7, <3>1
    <3> QED BY <1>0, <1>4, <2>1, <2>4, <3>1, <3>2
  <2> QED BY <2>2, <2>3, <2>4
<1>12. ASSUME NEW k \in 1..(n + e) PROVE lines[at[k]] = content[k]
  <2>1. CASE k <= n
    <3>1. k \in 1..n
      BY <1>0, <2>1
    <3>2. f[k] \in 1..m /\ at[k] = f[k]
      BY <1>6, <1>9, <2>1, <3>1
    <3> QED BY <1>6, <1>8, <3>1, <3>2
  <2>2. CASE ~ (k <= n)
    <3>1. k - n \in 1..e /\ at[k] = m + g[k - n] /\ n + (k - n) = k
      BY <1>0, <1>9, <2>2
    <3>2. g[k - n] \in 1..l /\ t[g[k - n]] = d[k - n]
      BY <1>7, <3>1
    <3>3. lines[m + g[k - n]] = t[g[k - n]] /\ content[n + (k - n)] = d[k - n]
      BY <1>8, <3>1, <3>2
    <3> QED BY <3>1, <3>2, <3>3
  <2> QED BY <2>1, <2>2
<1>13. ASSUME NEW j \in 1..(m + l), \A k \in 1..(n + e) : at[k] # j
       PROVE  lines[j].kind \in Furniture
  <2>1. CASE j <= m
    <3>1. j \in 1..m
      BY <1>0, <2>1
    <3>2. ASSUME NEW k \in 1..n PROVE f[k] # j
      <4>1. k \in 1..(n + e) /\ k <= n
        BY <1>0, <1>5
      <4> QED BY <1>9, <1>13, <4>1
    <3> QED BY <1>6, <1>8, <3>1, <3>2
  <2>2. CASE ~ (j <= m)
    <3>1. j - m \in 1..l /\ m + (j - m) = j
      BY <1>0, <1>4, <2>2
    <3>2. ASSUME NEW k \in 1..e PROVE g[k] # j - m
      <4>1. n + k \in 1..(n + e) /\ ~ (n + k <= n) /\ (n + k) - n = k
        BY <1>0, <1>5
      <4>2. at[n + k] = m + g[k] /\ at[n + k] # j
        BY <1>9, <1>13, <4>1
      <4>3. g[k] \in Nat
        <5>1. g \in [1..e -> 1..l]
          BY <1>7
        <5>2. g[k] \in 1..l
          BY <5>1, Zenon
        <5> QED BY <5>2
      <4> QED BY <1>0, <4>2, <4>3
    <3>3. t[j - m].kind \in Furniture
      BY <1>7, <3>1, <3>2
    <3>4. lines[m + (j - m)] = t[j - m]
      BY <1>8, <3>1
    <3> QED BY <3>1, <3>3, <3>4
  <2> QED BY <2>1, <2>2
<1>14. Carried(lines, content, at)
  BY <1>8, <1>10, <1>11, <1>12, <1>13 DEF Carried
<1> QED
  BY <1>14 DEF Carries, lines, content

---------------------------------------------------------------------------
(* Printed pages.                                                          *)

LEMMA PageCount ==
  ASSUME NEW len \in Nat \ {0}, NEW p \in Nat \ {0}, NEW n, n = (len + p - 1) \div p
  PROVE  n \in Nat \ {0} /\ (n - 1) * p < len /\ len <= n * p
<1> DEFINE x == len + p - 1
<1>1. x \in Nat /\ x >= p
  OBVIOUS
<1>2. n = x \div p
  OBVIOUS
<1> HIDE DEF x
<1>3. n \in Int /\ n * p <= x /\ x < (n + 1) * p
  BY <1>1, <1>2, SMTT(30)
<1>4. n >= 1
  <2>1. ASSUME n <= 0 PROVE FALSE
    <3>1. (n + 1) * p <= p
      BY <1>3, <2>1, SMTT(30)
    <3> QED BY <1>1, <1>3, <3>1, SMT
  <2> QED BY <1>3, <2>1
<1>5. (n - 1) * p = n * p - p /\ (n + 1) * p = n * p + p /\ n * p \in Int
  BY <1>3, SMTT(30)
<1> QED
  BY <1>1, <1>3, <1>4, <1>5, SMT DEF x

FurnitureOf(m) ==
  {FormatLine(m), BannerLine}
    \cup {FooterLine(i, m) : i \in Nat} \cup {StampLine(i, n, m) : i \in Nat, n \in Nat}

LEMMA FurnitureKinds ==
  ASSUME NEW m
  PROVE  \A l \in FurnitureOf(m) :
           l.kind \in Furniture /\ (l.kind \in Branded => l.marker = m)
BY DEF FurnitureOf, FormatLine, BannerLine, FooterLine, StampLine, Furniture, Branded

\* A page around its content.
PageOf(m, body, i, n) ==
  <<FormatLine(m), BannerLine>> \o body \o <<FooterLine(i, m), StampLine(i, n, m)>>

Framed(page, m, body, i, n) ==
  /\ Len(page) = Len(body) + 4
  /\ page[1] = FormatLine(m) /\ page[2] = BannerLine
  /\ \A j \in 1..Len(body) : page[2 + j] = body[j]
  /\ page[Len(body) + 3] = FooterLine(i, m)
  /\ page[Len(body) + 4] = StampLine(i, n, m)

LEMMA PageIs ==
  ASSUME NEW C, NEW m, NEW body \in Seq(C), NEW i \in Nat, NEW n \in Nat
  PROVE  LET page == PageOf(m, body, i, n)
         IN  /\ page \in Seq(C \cup FurnitureOf(m))
             /\ ToSet(page) \subseteq ToSet(body) \cup FurnitureOf(m)
             /\ FormatLine(m) \in ToSet(page) /\ StampLine(i, n, m) \in ToSet(page)
             /\ Carries(page, body)
             /\ Framed(page, m, body, i, n)
<1> DEFINE S == C \cup FurnitureOf(m)
           top == <<FormatLine(m), BannerLine>>
           foot == <<FooterLine(i, m), StampLine(i, n, m)>>
           begun == top \o body
           page == begun \o foot
<1>1. PageOf(m, body, i, n) = page
  BY DEF PageOf
<1>2. FormatLine(m) \in FurnitureOf(m) /\ BannerLine \in FurnitureOf(m)
  BY DEF FurnitureOf
<1>3. FooterLine(i, m) \in FurnitureOf(m) /\ StampLine(i, n, m) \in FurnitureOf(m)
  BY DEF FurnitureOf
<1>4. /\ top \in Seq(FurnitureOf(m)) /\ top \in Seq(S) /\ Len(top) = 2
      /\ top[1] = FormatLine(m) /\ top[2] = BannerLine /\ \A j \in 1..2 : top[j] \in FurnitureOf(m)
  BY <1>2
<1>5. /\ foot \in Seq(FurnitureOf(m)) /\ foot \in Seq(S) /\ Len(foot) = 2
      /\ foot[1] = FooterLine(i, m) /\ foot[2] = StampLine(i, n, m)
      /\ \A j \in 1..2 : foot[j] \in FurnitureOf(m)
  BY <1>3
<1>6. body \in Seq(S) /\ Len(body) \in Nat /\ \A j \in 1..Len(body) : body[j] \in ToSet(body)
  BY DEF ToSet
<1> HIDE DEF S, top, foot
<1>7. /\ begun \in Seq(S) /\ Len(begun) = 2 + Len(body) /\ Len(begun) \in Nat
      /\ \A j \in 1..2 : begun[j] = top[j]
      /\ \A j \in 1..Len(body) : begun[2 + j] = body[j]
  <2>1. /\ begun \in Seq(S) /\ Len(begun) = Len(top) + Len(body)
        /\ \A j \in 1..Len(top) : begun[j] = top[j]
        /\ \A j \in 1..Len(body) : begun[Len(top) + j] = body[j]
    <3>1. top \in Seq(S) /\ body \in Seq(S)
      BY <1>4, <1>6
    <3> QED BY ONLY <3>1, ConcatIs
  <2> HIDE DEF begun
  <2> QED BY <1>4, <1>6, <2>1
<1> HIDE DEF begun
<1>8. /\ page \in Seq(S) /\ Len(page) = Len(begun) + 2
      /\ \A j \in 1..Len(begun) : page[j] = begun[j]
      /\ \A j \in 1..2 : page[Len(begun) + j] = foot[j]
  <2>1. /\ page \in Seq(S) /\ Len(page) = Len(begun) + Len(foot)
        /\ \A j \in 1..Len(begun) : page[j] = begun[j]
        /\ \A j \in 1..Len(foot) : page[Len(begun) + j] = foot[j]
    <3>1. begun \in Seq(S) /\ foot \in Seq(S)
      BY <1>5, <1>7
    <3> QED BY ONLY <3>1, ConcatIs
  <2> HIDE DEF page
  <2> QED BY <1>5, <1>7, <2>1
<1> HIDE DEF page
<1>9. DOMAIN page = 1..(Len(body) + 4)
  BY <1>6, <1>7, <1>8
<1>10. ASSUME NEW j \in DOMAIN page PROVE page[j] \in ToSet(body) \cup FurnitureOf(m)
  <2>1. CASE j \in 1..2
    <3>1. j \in 1..Len(begun)
      BY <1>6, <1>7, <2>1
    <3> QED BY <1>4, <1>7, <1>8, <2>1, <3>1
  <2>2. CASE j \in 3..(2 + Len(body))
    <3>1. j - 2 \in 1..Len(body) /\ j \in 1..Len(begun) /\ 2 + (j - 2) = j
      BY <1>6, <1>7, <2>2
    <3>2. page[j] = begun[j] /\ begun[2 + (j - 2)] = body[j - 2]
      BY <1>7, <1>8, <3>1
    <3> QED BY <1>6, <3>1, <3>2
  <2>3. CASE j > 2 + Len(body)
    <3>1. j - Len(begun) \in 1..2 /\ Len(begun) + (j - Len(begun)) = j
      BY <1>6, <1>7, <1>9, <2>3
    <3>2. page[Len(begun) + (j - Len(begun))] = foot[j - Len(begun)]
      BY <1>8, <3>1
    <3> QED BY <1>5, <3>1, <3>2
  <2> QED BY <1>6, <1>9, <2>1, <2>2, <2>3
<1>11. ToSet(page) \subseteq ToSet(body) \cup FurnitureOf(m)
  BY <1>10 DEF ToSet
<1>12. FormatLine(m) \in ToSet(page) /\ StampLine(i, n, m) \in ToSet(page)
  <2>1. 1 \in DOMAIN page /\ page[1] = FormatLine(m)
    BY <1>4, <1>6, <1>7, <1>8, <1>9
  <2>2. Len(begun) + 2 \in DOMAIN page /\ page[Len(begun) + 2] = StampLine(i, n, m)
    BY <1>5, <1>6, <1>7, <1>8, <1>9
  <2> QED BY <2>1, <2>2 DEF ToSet
<1>13. Carries(page, body)
  <2>1. Carries(top, <<>>) /\ Carries(foot, <<>>)
    <3>1. Len(top) \in Nat /\ Len(foot) \in Nat
      BY <1>4, <1>5
    <3>2. /\ \A j \in 1..Len(top) : top[j].kind \in Furniture
          /\ \A j \in 1..Len(foot) : foot[j].kind \in Furniture
      BY <1>4, <1>5, FurnitureKinds
    <3> QED BY <3>1, <3>2, CarriesNothing
  <2>2. Carries(body, body)
    BY <1>6, CarriesItself
  <2>3. <<>> \in Seq(S) /\ <<>> \o body = body /\ body \o <<>> = body
    BY <1>6
  <2>4. Carries(begun, <<>> \o body)
    BY ONLY <1>4, <1>6, <2>1, <2>2, <2>3, CarriesBoth DEF begun
  <2>5. Carries(begun, body)
    BY <2>3, <2>4
  <2>6. Carries(page, body \o <<>>)
    BY ONLY <1>5, <1>6, <1>7, <2>1, <2>3, <2>5, CarriesBoth DEF page
  <2> QED BY <2>3, <2>6
<1>14. Framed(page, m, body, i, n)
  <2>1. PICK b \in Nat : b = Len(body) /\ Len(begun) = 2 + b
    BY <1>6, <1>7
  <2>2. page[1] = top[1] /\ page[2] = top[2]
    <3>1. 1 \in 1..Len(begun) /\ 2 \in 1..Len(begun)
      BY <2>1
    <3> QED BY <1>7, <1>8, <3>1
  <2>3. ASSUME NEW j \in 1..b PROVE page[2 + j] = body[j]
    <3>1. 2 + j \in 1..Len(begun)
      BY <2>1
    <3> QED BY <1>7, <1>8, <2>1, <3>1
  <2>4. page[b + 3] = foot[1] /\ page[b + 4] = foot[2]
    <3>1. Len(begun) + 1 = b + 3 /\ Len(begun) + 2 = b + 4
      BY <2>1
    <3> QED BY <1>8, <3>1
  <2>5. Len(page) = b + 4
    BY <1>8, <2>1
  <2> QED BY <1>4, <1>5, <2>1, <2>2, <2>3, <2>4, <2>5 DEF Framed
<1> QED
  BY <1>1, <1>8, <1>11, <1>12, <1>13, <1>14 DEF S

LEMMA SubSeqJoin ==
  ASSUME NEW S, NEW s \in Seq(S), NEW a \in Nat, NEW b \in Nat, a <= b, b <= Len(s)
  PROVE  /\ SubSeq(s, 1, a) \in Seq(S) /\ SubSeq(s, a + 1, b) \in Seq(S)
         /\ SubSeq(s, 1, a) \o SubSeq(s, a + 1, b) = SubSeq(s, 1, b)
         /\ ToSet(SubSeq(s, a + 1, b)) \subseteq ToSet(s)
<1> DEFINE x == SubSeq(s, 1, a)
           y == SubSeq(s, a + 1, b)
           z == SubSeq(s, 1, b)
<1>1. Len(s) \in Nat /\ DOMAIN s = 1..Len(s)
  OBVIOUS
<1>2. x \in Seq(S) /\ Len(x) = a /\ \A i \in 1..a : x[i] = s[i]
  BY <1>1
<1>3. y \in Seq(S) /\ Len(y) = b - a /\ \A i \in 1..(b - a) : y[i] = s[a + i]
  BY <1>1
<1>4. z \in Seq(S) /\ Len(z) = b /\ \A i \in 1..b : z[i] = s[i]
  BY <1>1
<1> HIDE DEF x, y, z
<1>5. /\ x \o y \in Seq(S) /\ Len(x \o y) = a + (b - a)
      /\ \A i \in 1..a : (x \o y)[i] = x[i]
      /\ \A i \in 1..(b - a) : (x \o y)[a + i] = y[i]
  <2>1. x \in Seq(S) /\ y \in Seq(S)
    BY <1>2, <1>3
  <2>2. /\ x \o y \in Seq(S) /\ Len(x \o y) = Len(x) + Len(y)
        /\ \A i \in 1..Len(x) : (x \o y)[i] = x[i]
        /\ \A i \in 1..Len(y) : (x \o y)[Len(x) + i] = y[i]
    BY ONLY <2>1, ConcatIs
  <2> QED BY <1>2, <1>3, <2>2
<1> DEFINE w == x \o y
<1>6. w \in Seq(S) /\ Len(w) = b
  BY <1>5
<1>7. ASSUME NEW i \in 1..b PROVE w[i] = z[i]
  <2>1. CASE i <= a
    <3>1. i \in 1..a
      BY <2>1
    <3> QED BY <1>2, <1>4, <1>5, <3>1
  <2>2. CASE ~ (i <= a)
    <3>1. i - a \in 1..(b - a) /\ a + (i - a) = i
      BY <2>2
    <3>2. w[a + (i - a)] = y[i - a] /\ y[i - a] = s[a + (i - a)]
      BY <1>3, <1>5, <3>1
    <3> QED BY <1>4, <3>1, <3>2
  <2> QED BY <2>1, <2>2
<1>8. w = z
  <2> HIDE DEF w
  <2> QED BY <1>4, <1>6, <1>7
<1>9. ToSet(y) \subseteq ToSet(s)
  <2>1. ASSUME NEW j \in DOMAIN y PROVE y[j] \in ToSet(s)
    <3>1. j \in 1..(b - a)
      BY <1>3, <2>1
    <3>2. a + j \in DOMAIN s /\ y[j] = s[a + j]
      BY <1>1, <1>3, <3>1
    <3> QED BY <3>2 DEF ToSet
  <2> QED BY <2>1 DEF ToSet
<1> QED
  BY <1>2, <1>3, <1>8, <1>9 DEF x, y, z

\* Where the content of a page ends.
CutAt(lines, n, i) == IF i = n THEN Len(lines) ELSE i * PageRows

LEMMA Cuts ==
  ASSUME NEW C, NEW lines \in Seq(C), lines # <<>>,
         NEW n, n = (Len(lines) + PageRows - 1) \div PageRows
  PROVE  /\ n \in Nat \ {0} /\ CutAt(lines, n, 0) = 0 /\ CutAt(lines, n, n) = Len(lines)
         /\ \A i \in 1..n :
              /\ CutAt(lines, n, i - 1) = (i - 1) * PageRows
              /\ CutAt(lines, n, i - 1) \in Nat /\ CutAt(lines, n, i) \in Nat
              /\ CutAt(lines, n, i - 1) <= CutAt(lines, n, i)
              /\ CutAt(lines, n, i) <= Len(lines)
<1>1. PICK len \in Nat \ {0} : len = Len(lines)
  OBVIOUS
<1>2. PICK p \in Nat \ {0} : p = PageRows
  BY PageRowsAssumption
<1>3. n \in Nat \ {0} /\ (n - 1) * p < len /\ len <= n * p
  <2>1. n = (len + p - 1) \div p
    BY <1>1, <1>2
  <2> QED BY <2>1, PageCount
<1>4. \A i : CutAt(lines, n, i) = IF i = n THEN len ELSE i * p
  BY <1>1, <1>2 DEF CutAt
<1>5. ASSUME NEW i \in 1..n
      PROVE  /\ CutAt(lines, n, i - 1) = (i - 1) * p /\ (i - 1) * p \in Nat
             /\ CutAt(lines, n, i) \in Nat /\ CutAt(lines, n, i) <= len
             /\ (i - 1) * p <= CutAt(lines, n, i)
  <2>1. CutAt(lines, n, i - 1) = (i - 1) * p
    <3>1. i - 1 # n
      BY <1>3
    <3> QED BY <1>4, <3>1
  <2>2. (i - 1) * p \in Nat /\ i * p = (i - 1) * p + p /\ i * p \in Nat
    BY SMTT(30)
  <2>3. CASE i = n
    BY <1>3, <1>4, <2>1, <2>2, <2>3
  <2>4. CASE i # n
    <3>1. i * p <= (n - 1) * p
      <4>1. i \in Nat /\ n - 1 \in Nat /\ i <= n - 1
        BY <1>3, <2>4
      <4> QED BY ONLY p \in Nat, <4>1, SMTT(30)
    <3>2. (n - 1) * p \in Int
      BY <1>3, SMT
    <3>3. CutAt(lines, n, i) = i * p
      BY <1>4, <2>4
    <3> HIDE <1>4
    <3> QED BY <1>3, <2>1, <2>2, <3>1, <3>2, <3>3, SMT
  <2> QED BY <2>3, <2>4
<1>6. CutAt(lines, n, 0) = 0 /\ CutAt(lines, n, n) = len
  <2>1. 0 # n /\ 0 * p = 0
    BY <1>3, SMT
  <2> QED BY <1>4, <2>1
<1> QED
  BY <1>1, <1>2, <1>3, <1>5, <1>6

\* A document whose lines are those of content among the furniture of its pages.
Prints(d, m, C, content) ==
  /\ d \in Seq(Seq(C \cup FurnitureOf(m))) /\ d # <<>>
  /\ Continuous(d, m)
  /\ \A i \in DOMAIN d : ToSet(d[i]) \subseteq ToSet(content) \cup FurnitureOf(m)
  /\ Carries(Text(d), content)

LEMMA PagesAre ==
  ASSUME NEW C, NEW m, NEW lines \in Seq(C), lines # <<>>
  PROVE  \E n \in Nat \ {0} :
           /\ n = (Len(lines) + PageRows - 1) \div PageRows
           /\ Paginate(m, lines) =
                [i \in 1..n |-> PageOf(m, SubSeq(lines, CutAt(lines, n, i - 1) + 1,
                                                 CutAt(lines, n, i)), i, n)]
<1> DEFINE n == (Len(lines) + PageRows - 1) \div PageRows
           Body(i) == SubSeq(lines, (i - 1) * PageRows + 1,
                             IF i = n THEN Len(lines) ELSE i * PageRows)
           Part(i) == SubSeq(lines, CutAt(lines, n, i - 1) + 1, CutAt(lines, n, i))
<1>1. n \in Nat \ {0} /\ \A i \in 1..n : CutAt(lines, n, i - 1) = (i - 1) * PageRows
  BY Cuts
<1>2. Paginate(m, lines) = [i \in 1..n |-> PageOf(m, Body(i), i, n)]
  BY Zenon DEF Paginate, PageOf
<1>3. \A i \in 1..n : Body(i) = Part(i)
  BY <1>1, Zenon DEF CutAt
<1> HIDE DEF Body, Part
<1>4. Paginate(m, lines) = [i \in 1..n |-> PageOf(m, Part(i), i, n)]
  BY <1>2, <1>3, Zenon
<1> HIDE DEF n
<1> QED
  BY <1>1, <1>4, Zenon DEF n, Part

LEMMA PaginatePrints ==
  ASSUME NEW C, NEW m, NEW lines \in Seq(C), lines # <<>>
  PROVE  Prints(Paginate(m, lines), m, C, lines)
<1>1. PICK n \in Nat \ {0} :
        /\ n = (Len(lines) + PageRows - 1) \div PageRows
        /\ Paginate(m, lines) =
             [i \in 1..n |-> PageOf(m, SubSeq(lines, CutAt(lines, n, i - 1) + 1,
                                              CutAt(lines, n, i)), i, n)]
  BY PagesAre
<1> DEFINE S == C \cup FurnitureOf(m)
           cut(i) == CutAt(lines, n, i)
           Body(i) == SubSeq(lines, cut(i - 1) + 1, cut(i))
           Pg(i) == PageOf(m, Body(i), i, n)
           d == [i \in 1..n |-> Pg(i)]
<1>2. /\ cut(0) = 0 /\ cut(n) = Len(lines)
      /\ \A i \in 1..n : /\ cut(i - 1) \in Nat /\ cut(i) \in Nat
                         /\ cut(i - 1) <= cut(i) /\ cut(i) <= Len(lines)
  BY <1>1, Cuts
<1>3. Paginate(m, lines) = d
  BY <1>1
<1> HIDE DEF cut
<1>4. ASSUME NEW i \in 1..n
      PROVE  /\ Body(i) \in Seq(C) /\ ToSet(Body(i)) \subseteq ToSet(lines)
             /\ SubSeq(lines, 1, cut(i - 1)) \o Body(i) = SubSeq(lines, 1, cut(i))
             /\ SubSeq(lines, 1, cut(i - 1)) \in Seq(C)
  <2>1. PICK a \in Nat, b \in Nat : a = cut(i - 1) /\ b = cut(i) /\ a <= b /\ b <= Len(lines)
    BY <1>2
  <2>2. /\ SubSeq(lines, 1, a) \in Seq(C) /\ SubSeq(lines, a + 1, b) \in Seq(C)
        /\ SubSeq(lines, 1, a) \o SubSeq(lines, a + 1, b) = SubSeq(lines, 1, b)
        /\ ToSet(SubSeq(lines, a + 1, b)) \subseteq ToSet(lines)
    BY <2>1, SubSeqJoin
  <2> QED BY <2>1, <2>2
<1> HIDE DEF Body
<1>5. ASSUME NEW i \in 1..n
      PROVE  /\ Pg(i) \in Seq(S)
             /\ ToSet(Pg(i)) \subseteq ToSet(lines) \cup FurnitureOf(m)
             /\ FormatLine(m) \in ToSet(Pg(i)) /\ StampLine(i, n, m) \in ToSet(Pg(i))
             /\ Carries(Pg(i), Body(i))
  <2>1. Body(i) \in Seq(C) /\ i \in Nat /\ n \in Nat /\ ToSet(Body(i)) \subseteq ToSet(lines)
    BY <1>4
  <2>2. /\ Pg(i) \in Seq(S)
        /\ ToSet(Pg(i)) \subseteq ToSet(Body(i)) \cup FurnitureOf(m)
        /\ FormatLine(m) \in ToSet(Pg(i)) /\ StampLine(i, n, m) \in ToSet(Pg(i))
        /\ Carries(Pg(i), Body(i))
    BY ONLY <2>1, PageIs
  <2> HIDE DEF Pg
  <2> QED BY <2>1, <2>2
<1> HIDE DEF Pg, S
<1>6. /\ d \in Seq(Seq(S)) /\ Len(d) = n /\ DOMAIN d = 1..n /\ d # <<>>
      /\ \A i \in 1..n : d[i] = Pg(i)
  <2>1. d \in Seq(Seq(S)) /\ Len(d) = n
    BY <1>5
  <2>2. DOMAIN d = 1..n /\ \A i \in 1..n : d[i] = Pg(i)
    OBVIOUS
  <2>3. d # <<>>
    BY <2>1, <1>1
  <2> QED BY <2>1, <2>2, <2>3
<1> HIDE DEF d
<1>7. Continuous(d, m)
  <2>1. ASSUME NEW i \in 1..n
        PROVE  /\ Stamped(d[i], i, Len(d))
               /\ Marked(ToSet(d[i]), m)
               /\ \E l \in ToSet(d[i]) : l.kind \in Bannered
    <3>1. d[i] = Pg(i) /\ StampLine(i, n, m) \in ToSet(Pg(i))
      BY <1>5, <1>6
    <3>2. PICK j \in DOMAIN d[i] : d[i][j] = StampLine(i, n, m)
      BY <3>1 DEF ToSet
    <3>3. d[i][j].kind = "stamp" /\ d[i][j].no = i /\ d[i][j].of = n /\ d[i][j].marker = m
      BY <3>2 DEF StampLine
    <3>4. Stamped(d[i], i, Len(d))
      <4>1. d[i][j].of \div 1 = Len(d)
        BY <1>1, <1>6, <3>3, SMT
      <4> QED BY <3>3, <4>1 DEF Stamped
    <3>5. d[i][j] \in ToSet(d[i])
      BY DEF ToSet
    <3> QED BY <3>3, <3>4, <3>5 DEF Marked, Branded, Bannered
  <2> QED BY <1>6, <2>1 DEF Continuous
<1>8. Carries(Text(d), lines)
  <2> DEFINE begun(i) == SubSeq(d, 1, i)
             so(i) == SubSeq(lines, 1, cut(i))
             T == {i \in Nat : i <= n =>
                     Carries(FlattenSeq(begun(i)), so(i)) /\ so(i) \in Seq(C)}
  <2>1. 0 \in T
    <3>1. begun(0) = <<>> /\ so(0) = <<>>
      BY <1>2, <1>6
    <3>2. Carries(<<>>, <<>>)
      BY CarriesNothing
    <3>3. <<>> \in Seq(C)
      OBVIOUS
    <3> HIDE DEF begun, so
    <3> QED BY <3>1, <3>2, <3>3, FlattenEmpty
  <2>2. ASSUME NEW i \in Nat, i \in T PROVE i + 1 \in T
    <3>1. ASSUME i + 1 <= n
          PROVE  Carries(FlattenSeq(begun(i + 1)), so(i + 1)) /\ so(i + 1) \in Seq(C)
      <4>1. i + 1 \in 1..n /\ (i + 1) - 1 = i
        BY <3>1
      <4>2. begun(i) \in Seq(Seq(S)) /\ d[i + 1] \in Seq(S)
            /\ begun(i + 1) = Append(begun(i), d[i + 1])
        BY <1>6, <4>1
      <4>3. so(i) \o Body(i + 1) = so(i + 1) /\ Body(i + 1) \in Seq(C) /\ so(i) \in Seq(C)
        BY <1>4, <4>1
      <4>4. Carries(FlattenSeq(begun(i)), so(i))
        BY <2>2, <3>1
      <4>5. Carries(d[i + 1], Body(i + 1))
        BY <1>5, <1>6, <4>1
      <4> HIDE DEF begun, so, T
      <4>6. FlattenSeq(begun(i + 1)) = FlattenSeq(begun(i)) \o d[i + 1]
            /\ FlattenSeq(begun(i)) \in Seq(S)
        <5>1. FlattenSeq(Append(begun(i), d[i + 1])) = FlattenSeq(begun(i)) \o d[i + 1]
              /\ FlattenSeq(begun(i)) \in Seq(S)
          BY ONLY <4>2, FlattenAppend
        <5> QED BY <4>2, <5>1
      <4>7. so(i) \in Seq(S) /\ Body(i + 1) \in Seq(S)
        BY <4>3 DEF S
      <4>8. Carries(FlattenSeq(begun(i)) \o d[i + 1], so(i) \o Body(i + 1))
        BY ONLY <4>2, <4>4, <4>5, <4>6, <4>7, CarriesBoth
      <4>9. so(i) \o Body(i + 1) \in Seq(C)
        BY <4>3
      <4> QED BY <4>3, <4>6, <4>8, <4>9
    <3> HIDE DEF begun, so
    <3> QED BY <3>1
  <2>3. Nat \subseteq T
    <3> HIDE DEF T
    <3> QED BY <2>1, <2>2, SetInduction
  <2>4. begun(n) = d /\ so(n) = lines
    BY <1>2, <1>6
  <2>5. n \in T
    BY <2>3
  <2> HIDE DEF begun, so
  <2> QED BY <2>4, <2>5 DEF Text
<1> QED
  BY <1>3, <1>5, <1>6, <1>7, <1>8 DEF Prints, S

---------------------------------------------------------------------------
(* Reading a section.                                                      *)

KeptLine(l) == IF l.kind \in Furniture \cup {"section"} THEN <<>> ELSE <<l>>
KeptLines(s) == FlattenSeq([i \in 1..Len(s) |-> KeptLine(s[i])])

\* Without its furniture a sequence of lines is its content.
LEMMA KeptIsContent ==
  ASSUME NEW S, NEW s \in Seq(S), NEW c \in Seq(S), NEW at, Carried(s, c, at),
         \A k \in 1..Len(c) : c[k].kind \notin Furniture \cup {"section"}
  PROVE  KeptLines(s) = c
<1> DEFINE K == [i \in 1..Len(s) |-> KeptLine(s[i])]
           begun(n) == SubSeq(K, 1, n)
           sofar(n) == SubSeq(c, 1, n)
           Read(n, m) == /\ FlattenSeq(begun(n)) = sofar(m)
                         /\ \A k \in 1..Len(c) : k <= m <=> at[k] <= n
           T == {n \in Nat : n <= Len(s) => \E m \in 0..Len(c) : Read(n, m)}
<1>1. Len(s) \in Nat /\ Len(c) \in Nat
  OBVIOUS
<1>2. /\ at \in [1..Len(c) -> 1..Len(s)]
      /\ \A k, l \in 1..Len(c) : k < l => at[k] < at[l]
      /\ \A k \in 1..Len(c) : s[at[k]] = c[k]
      /\ \A j \in 1..Len(s) : (\A k \in 1..Len(c) : at[k] # j) => s[j].kind \in Furniture
  BY DEF Carried
<1>3. ASSUME NEW i \in 1..Len(s) PROVE KeptLine(s[i]) \in Seq(S)
  <2>1. s[i] \in S /\ <<>> \in Seq(S) /\ <<s[i]>> \in Seq(S)
    OBVIOUS
  <2> QED BY <2>1, Zenon DEF KeptLine
<1>4. /\ K \in Seq(Seq(S)) /\ Len(K) = Len(s)
      /\ \A i \in 1..Len(s) : K[i] = KeptLine(s[i])
  <2>1. K \in Seq(Seq(S)) /\ Len(K) = Len(s)
    BY <1>1, <1>3
  <2>2. \A i \in 1..Len(s) : K[i] = KeptLine(s[i])
    OBVIOUS
  <2> QED BY <2>1, <2>2
<1> HIDE DEF K
<1>5. 0 \in T
  <2>1. begun(0) = <<>> /\ sofar(0) = <<>>
    BY <1>1, <1>4
  <2>2. \A k \in 1..Len(c) : ~ (k <= 0) /\ ~ (at[k] <= 0)
    BY <1>1, <1>2
  <2>3. 0 \in 0..Len(c)
    BY <1>1
  <2> HIDE DEF begun, sofar
  <2>4. Read(0, 0)
    BY <2>1, <2>2, FlattenEmpty
  <2> QED BY <2>3, <2>4
<1>6. ASSUME NEW n \in Nat, n \in T PROVE n + 1 \in T
  <2>1. ASSUME n + 1 <= Len(s) PROVE \E m \in 0..Len(c) : Read(n + 1, m)
    <3>1. PICK m \in 0..Len(c) : Read(n, m)
      BY <1>1, <1>6, <2>1
    <3>2. n + 1 \in 1..Len(s)
      BY <1>1, <2>1
    <3>3. /\ begun(n) \in Seq(Seq(S)) /\ K[n + 1] \in Seq(S)
          /\ begun(n + 1) = Append(begun(n), K[n + 1])
      <4>1. K \in Seq(Seq(S)) /\ n + 1 \in 1..Len(K)
        BY <1>4, <3>2
      <4> QED BY ONLY n \in Nat, <4>1
    <3>4. FlattenSeq(begun(n + 1)) = FlattenSeq(begun(n)) \o K[n + 1]
      <4> HIDE DEF begun
      <4>1. FlattenSeq(Append(begun(n), K[n + 1])) = FlattenSeq(begun(n)) \o K[n + 1]
        BY ONLY <3>3, FlattenAppend
      <4> QED BY <3>3, <4>1
    <3>5. CASE \E k \in 1..Len(c) : at[k] = n + 1
      <4>1. PICK k \in 1..Len(c) : at[k] = n + 1
        BY <3>5
      <4>2. k = m + 1
        <5>1. ~ (k <= m)
          BY <3>1, <4>1
        <5>2. ASSUME k > m + 1 PROVE FALSE
          <6>1. m + 1 \in 1..Len(c) /\ m + 1 < k /\ ~ (m + 1 <= m)
            BY <1>1, <5>2
          <6>2. at[m + 1] < n + 1 /\ at[m + 1] \in 1..Len(s) /\ ~ (at[m + 1] <= n)
            BY <1>2, <3>1, <4>1, <6>1
          <6> QED BY <6>2
        <5> QED BY <1>1, <5>1, <5>2
      <4>3. K[n + 1] = <<c[m + 1]>>
        <5>1. s[n + 1] = c[m + 1] /\ c[m + 1].kind \notin Furniture \cup {"section"}
          BY <1>2, <4>1, <4>2
        <5> QED BY <1>4, <3>2, <5>1, Zenon DEF KeptLine
      <4>4. sofar(m) \o <<c[m + 1]>> = sofar(m + 1) /\ m + 1 \in 0..Len(c)
        <5>1. m \in Nat /\ m + 1 <= Len(c)
          BY <1>1, <4>2
        <5>2. sofar(m) \in Seq(S) /\ c[m + 1] \in S /\ sofar(m + 1) = Append(sofar(m), c[m + 1])
          BY ONLY c \in Seq(S), <5>1
        <5>3. sofar(m) \o <<c[m + 1]>> = Append(sofar(m), c[m + 1])
          <6> HIDE DEF sofar
          <6> QED BY ONLY <5>2
        <5> QED BY <1>1, <5>1, <5>2, <5>3
      <4>5. ASSUME NEW j \in 1..Len(c) PROVE j <= m + 1 <=> at[j] <= n + 1
        <5>1. at[j] \in 1..Len(s) /\ (j <= m <=> at[j] <= n)
          BY <1>2, <3>1
        <5>2. at[j] = n + 1 => j = k
          <6>1. j < k => at[j] < at[k]
            BY <1>2
          <6>2. k < j => at[k] < at[j]
            BY <1>2
          <6> QED BY <1>2, <4>1, <6>1, <6>2
        <5> QED BY <1>1, <4>1, <4>2, <5>1, <5>2
      <4> HIDE DEF begun, sofar
      <4>6. Read(n + 1, m + 1)
        BY <3>1, <3>4, <4>3, <4>4, <4>5
      <4> QED BY <4>4, <4>6
    <3>6. CASE \A k \in 1..Len(c) : at[k] # n + 1
      <4>1. K[n + 1] = <<>>
        <5>1. s[n + 1].kind \in Furniture
          BY <1>2, <3>2, <3>6
        <5> QED BY <1>4, <3>2, <5>1, Zenon DEF KeptLine
      <4>2. FlattenSeq(begun(n + 1)) = FlattenSeq(begun(n))
        <5>1. sofar(m) \o <<>> = sofar(m)
          BY <1>1
        <5> HIDE DEF begun, sofar
        <5> QED BY <3>1, <3>4, <4>1, <5>1
      <4>3. ASSUME NEW j \in 1..Len(c) PROVE j <= m <=> at[j] <= n + 1
        <5>1. at[j] \in 1..Len(s) /\ (j <= m <=> at[j] <= n) /\ at[j] # n + 1
          BY <1>2, <3>1, <3>6
        <5> QED BY <1>1, <5>1
      <4> HIDE DEF begun, sofar
      <4>4. Read(n + 1, m)
        BY <3>1, <4>2, <4>3
      <4> QED BY <4>4
    <3> QED BY <3>5, <3>6
  <2> HIDE DEF Read
  <2> QED BY <2>1
<1>7. Nat \subseteq T
  <2> HIDE DEF T
  <2> QED BY <1>5, <1>6, SetInduction
<1>8. PICK m \in 0..Len(c) : Read(Len(s), m)
  <2>1. Len(s) \in T
    BY <1>1, <1>7
  <2> HIDE DEF Read
  <2> QED BY <1>1, <2>1
<1>9. m = Len(c)
  <2>1. ASSUME m < Len(c) PROVE FALSE
    <3>1. m + 1 \in 1..Len(c) /\ ~ (m + 1 <= m)
      BY <1>1, <2>1
    <3>2. at[m + 1] \in 1..Len(s) /\ ~ (at[m + 1] <= Len(s))
      BY <1>2, <1>8, <3>1
    <3> QED BY <1>1, <3>2
  <2> QED BY <1>1, <2>1
<1>10. begun(Len(s)) = K /\ sofar(Len(c)) = c
  BY <1>1, <1>4
<1> QED
  <2> HIDE DEF begun, sofar
  <2> QED BY <1>8, <1>9, <1>10 DEF KeptLines, K

LEMMA MinIs ==
  ASSUME NEW s, NEW x \in s, x \in Int, \A y \in s : y \in Int /\ x <= y
  PROVE  Min(s) = x
<1>1. \A y \in s : x <= y
  OBVIOUS
<1>2. Min(s) \in s /\ \A y \in s : Min(s) <= y
  BY <1>1, Zenon DEF Min
<1>3. Min(s) \in Int /\ x <= Min(s) /\ Min(s) <= x
  BY <1>2
<1> QED
  BY <1>3

LEMMA OneOf ==
  ASSUME NEW x \in Int
  PROVE  Min({x}) = x /\ Max({x}) = x
BY DEF Min, Max

\* Places of lines that carry content, in their order.
LEMMA CarriedOrder ==
  ASSUME NEW lines, NEW content, NEW at, Carried(lines, content, at),
         Len(lines) \in Nat, Len(content) \in Nat
  PROVE  /\ \A k \in 1..Len(content) : at[k] \in 1..Len(lines)
         /\ \A k, l \in 1..Len(content) : at[k] < at[l] => k < l
         /\ \A k, l \in 1..Len(content) : at[k] = at[l] => k = l
<1>1. /\ \A k \in 1..Len(content) : at[k] \in 1..Len(lines)
      /\ \A k, l \in 1..Len(content) : k < l => at[k] < at[l]
  BY DEF Carried
<1>2. ASSUME NEW k \in 1..Len(content), NEW l \in 1..Len(content)
      PROVE  (at[k] < at[l] => k < l) /\ (at[k] = at[l] => k = l)
  <2>1. at[k] \in Int /\ at[l] \in Int
    BY <1>1
  <2>2. (k < l => at[k] < at[l]) /\ (l < k => at[l] < at[k])
    BY <1>1
  <2> QED BY <2>1, <2>2
<1> QED
  BY <1>1, <1>2

Between(lines, from, to) == [i \in 1..(to - from - 1) |-> lines[from + i]]

\* The lines between two places, and the content between them.
LEMMA CarriedBetween ==
  ASSUME NEW S, NEW lines \in Seq(S), NEW content \in Seq(S), NEW at,
         Carried(lines, content, at),
         NEW a \in 1..Len(content), NEW b \in 1..Len(content), a < b
  PROVE  /\ Between(lines, at[a], at[b]) \in Seq(S)
         /\ Carries(Between(lines, at[a], at[b]), SubSeq(content, a + 1, b - 1))
<1>1. PICK len \in Nat, m \in Nat : len = Len(lines) /\ m = Len(content)
  OBVIOUS
<1>2. /\ \A k \in 1..m : at[k] \in 1..len
      /\ \A k, l \in 1..m : at[k] < at[l] <=> k < l
      /\ \A k \in 1..m : lines[at[k]] = content[k]
      /\ \A j \in 1..len : (\A k \in 1..m : at[k] # j) => lines[j].kind \in Furniture
  <2>1. Len(lines) \in Nat /\ Len(content) \in Nat
    OBVIOUS
  <2> QED BY <1>1, <2>1, CarriedOrder DEF Carried
<1>3. a \in 1..m /\ b \in 1..m /\ a \in Nat /\ b \in Nat
  BY <1>1
<1>4. PICK from \in 1..len, to \in 1..len : from = at[a] /\ to = at[b] /\ from < to
  BY <1>2, <1>3
<1>5. PICK e \in Nat : e = to - from - 1
  BY <1>4
<1>6. PICK g \in Nat : g = b - a - 1
  BY <1>3
<1> DEFINE between == [i \in 1..e |-> lines[from + i]]
           part == [i \in 1..g |-> content[a + i]]
           f == [k \in 1..g |-> at[a + k] - from]
<1>7. between \in Seq(S) /\ Len(between) = e /\ \A i \in 1..e : between[i] = lines[from + i]
  <2>1. ASSUME NEW i \in 1..e PROVE lines[from + i] \in S
    <3>1. from + i \in 1..Len(lines)
      BY <1>1, <1>4, <1>5
    <3> QED BY <3>1
  <2> QED BY <2>1
<1>8. Len(part) = g /\ \A i \in 1..g : part[i] = content[a + i]
  OBVIOUS
<1>9. SubSeq(content, a + 1, b - 1) = part
  <2>1. ASSUME NEW i \in 1..g PROVE content[a + i] \in S
    <3>1. a + i \in 1..Len(content)
      BY <1>1, <1>3, <1>6
    <3> QED BY <3>1
  <2>2. part \in Seq(S)
    BY <2>1
  <2>3. /\ SubSeq(content, a + 1, b - 1) \in Seq(S)
        /\ Len(SubSeq(content, a + 1, b - 1)) = g
        /\ \A i \in 1..g : SubSeq(content, a + 1, b - 1)[i] = content[a + i]
    <3>1. a + 1 \in Nat /\ b - 1 \in Nat /\ b - 1 <= Len(content) /\ a + 1 >= 1
      BY <1>1, <1>3
    <3>2. (b - 1) - (a + 1) + 1 = g
      BY <1>3, <1>6
    <3>3. ASSUME NEW i \in 1..g PROVE SubSeq(content, a + 1, b - 1)[i] = content[a + i]
      <4>1. i \in 1..((b - 1) + 1 - (a + 1)) /\ (a + 1) + i - 1 = a + i
        BY <1>3, <1>6
      <4>2. SubSeq(content, a + 1, b - 1)[i] = content[(a + 1) + i - 1]
        BY ONLY content \in Seq(S), <3>1, <4>1
      <4> QED BY <4>1, <4>2
    <3>4. SubSeq(content, a + 1, b - 1) \in Seq(S) /\ Len(SubSeq(content, a + 1, b - 1)) = g
      BY <1>3, <1>6, <3>1
    <3> QED BY <3>3, <3>4
  <2> HIDE DEF part
  <2> QED BY <1>8, <2>2, <2>3
<1>10. \A k \in 1..g : f[k] = at[a + k] - from /\ a + k \in 1..m /\ at[a + k] \in Int
  BY <1>2, <1>3, <1>6
<1> HIDE DEF between, part, f
<1>11. f \in [1..g -> 1..e]
  <2>1. ASSUME NEW k \in 1..g PROVE at[a + k] - from \in 1..e
    <3>1. a + k \in 1..m /\ a < a + k /\ a + k < b
      BY <1>3, <1>6
    <3>2. from < at[a + k] /\ at[a + k] < to /\ at[a + k] \in Int
      BY <1>2, <1>3, <1>4, <3>1
    <3>3. PICK y \in Int : y = at[a + k]
      BY <3>2
    <3>4. from < y /\ y < to
      BY <3>2, <3>3
    <3>5. y - from \in 1..e
      BY <1>5, <3>4
    <3> QED BY <3>3, <3>5
  <2> QED BY <2>1 DEF f
<1>12. ASSUME NEW k \in 1..g, NEW l \in 1..g, k < l PROVE f[k] < f[l]
  <2>1. at[a + k] < at[a + l]
    <3>1. a + k < a + l
      BY <1>3, <1>12
    <3> QED BY <1>2, <1>10, <3>1
  <2>2. /\ f[k] = at[a + k] - from /\ f[l] = at[a + l] - from
        /\ at[a + k] \in Int /\ at[a + l] \in Int
    BY <1>10, Zenon
  <2>3. PICK x \in Int, y \in Int : x = at[a + k] /\ y = at[a + l]
    BY <2>2, Zenon
  <2>4. x < y
    BY <2>1, <2>3, Zenon
  <2>5. x - from < y - from
    BY <1>4, <2>4
  <2> QED BY <2>2, <2>3, <2>5, Zenon
<1>13. ASSUME NEW k \in 1..g PROVE between[f[k]] = part[k]
  <2>1. f[k] \in 1..e /\ from + f[k] = at[a + k] /\ a + k \in 1..m
    <3>1. f[k] \in 1..e
      BY <1>11
    <3>2. PICK y \in Int : y = at[a + k] /\ f[k] = y - from /\ a + k \in 1..m
      BY <1>10
    <3> QED BY <1>4, <3>1, <3>2
  <2> QED BY <1>2, <1>7, <1>8, <2>1
<1>14. ASSUME NEW j \in 1..e, \A k \in 1..g : f[k] # j PROVE between[j].kind \in Furniture
  <2>1. from + j \in 1..len /\ from < from + j /\ from + j < to
    <3>1. e = to - from - 1
      BY <1>5, Zenon
    <3> QED BY ONLY len \in Nat, from \in 1..len, to \in 1..len, e \in Nat, j \in 1..e, <3>1
  <2>2. ASSUME NEW k \in 1..m, at[k] = from + j PROVE FALSE
    <3>1. a < k /\ k < b
      BY <1>2, <1>3, <1>4, <2>1, <2>2
    <3>2. k - a \in 1..g /\ a + (k - a) = k
      BY <1>3, <1>6, <3>1
    <3>3. f[k - a] = at[a + (k - a)] - from /\ f[k - a] # j
      BY <1>10, <1>14, <3>2
    <3> QED BY <1>4, <2>2, <3>2, <3>3
  <2>3. lines[from + j].kind \in Furniture
    BY <1>2, <2>1, <2>2
  <2> QED BY <1>7, <2>3
<1>15. Carries(between, part)
  <2>1. Carried(between, part, f)
    BY <1>7, <1>8, <1>11, <1>12, <1>13, <1>14 DEF Carried
  <2> QED BY <2>1, Zenon DEF Carries
<1>16. Between(lines, at[a], at[b]) = between
  BY <1>4, <1>5, Zenon DEF between, Between
<1> QED
  BY <1>7, <1>9, <1>15, <1>16, Zenon

StartsOf(lines, name) == {i \in DOMAIN lines : lines[i] = Section(name)}
EndsOf(lines, name, from) ==
  {Len(lines) + 1} \cup
    {i \in DOMAIN lines : i > from /\ lines[i].kind = "section" /\ lines[i] # Section(name)}

\* A section of the content: its marker, once, its lines and the next section.
SectionAt(content, name, a, b) ==
  /\ a \in 1..Len(content) /\ b \in 1..Len(content) /\ a < b
  /\ content[a] = Section(name)
  /\ content[b].kind = "section" /\ content[b] # Section(name)
  /\ \A k \in 1..Len(content) : content[k] = Section(name) => k = a
  /\ \A k \in 1..Len(content) :
       a < k /\ k < b => content[k].kind \notin Furniture \cup {"section"}

LEMMA SectionLies ==
  ASSUME NEW S, NEW lines \in Seq(S), NEW content \in Seq(S), NEW at,
         Carried(lines, content, at), NEW name, NEW a, NEW b, SectionAt(content, name, a, b)
  PROVE  /\ StartsOf(lines, name) = {at[a]}
         /\ Min(StartsOf(lines, name)) = at[a]
         /\ Min(EndsOf(lines, name, at[a])) = at[b]
         /\ at[a] \in Nat /\ at[b] \in Nat
<1>1. PICK len \in Nat, m \in Nat : len = Len(lines) /\ m = Len(content)
  OBVIOUS
<1>2. /\ \A k \in 1..m : at[k] \in 1..len
      /\ \A k, l \in 1..m : at[k] < at[l] <=> k < l
      /\ \A k \in 1..m : lines[at[k]] = content[k]
      /\ \A j \in 1..len : (\A k \in 1..m : at[k] # j) => lines[j].kind \in Furniture
  <2>1. Len(lines) \in Nat /\ Len(content) \in Nat
    OBVIOUS
  <2> QED BY <1>1, <2>1, CarriedOrder DEF Carried
<1>3. /\ a \in 1..m /\ b \in 1..m /\ a < b
      /\ content[a] = Section(name)
      /\ content[b].kind = "section" /\ content[b] # Section(name)
      /\ \A k \in 1..m : content[k] = Section(name) => k = a
      /\ \A k \in 1..m : a < k /\ k < b => content[k].kind \notin Furniture \cup {"section"}
  BY <1>1 DEF SectionAt
<1>4. DOMAIN lines = 1..len
  BY <1>1
<1>5. "section" \notin Furniture /\ Section(name).kind = "section"
  BY DEF Furniture, Section
<1>6. ASSUME NEW i \in 1..len, lines[i].kind = "section" PROVE \E k \in 1..m : at[k] = i
  BY <1>2, <1>5, <1>6
<1>7. at[a] \in 1..len /\ lines[at[a]] = Section(name)
  BY <1>2, <1>3
<1>8. at[b] \in 1..len /\ lines[at[b]] = content[b] /\ at[a] < at[b]
  BY <1>2, <1>3
<1>9. StartsOf(lines, name) = {at[a]}
  <2>1. ASSUME NEW i \in 1..len, lines[i] = Section(name) PROVE i = at[a]
    <3>1. PICK k \in 1..m : at[k] = i
      BY <1>5, <1>6, <2>1
    <3>2. content[k] = Section(name)
      BY <1>2, <2>1, <3>1
    <3> QED BY <1>3, <3>1, <3>2
  <2>2. at[a] \in 1..len /\ lines[at[a]] = Section(name)
    BY <1>7
  <2> QED BY <1>4, <2>1, <2>2, Zenon DEF StartsOf
<1>10. Min({at[a]}) = at[a]
  <2>1. PICK y \in Int : y = at[a]
    BY <1>7
  <2>2. Min({y}) = y
    BY OneOf
  <2> QED BY <2>1, <2>2
<1>11. Min(EndsOf(lines, name, at[a])) = at[b]
  <2> DEFINE E == EndsOf(lines, name, at[a])
  <2>1. at[b] \in E /\ at[b] \in Int
    <3>1. at[b] \in DOMAIN lines /\ at[b] > at[a] /\ at[b] \in Int
      BY <1>4, <1>7, <1>8
    <3>2. lines[at[b]].kind = "section" /\ lines[at[b]] # Section(name)
      BY <1>3, <1>8
    <3> QED BY <3>1, <3>2, Zenon DEF EndsOf
  <2>2. ASSUME NEW y \in E PROVE y \in Int /\ at[b] <= y
    <3>1. CASE y = Len(lines) + 1
      BY <1>1, <1>8, <3>1
    <3>2. CASE y # Len(lines) + 1
      <4>1. y \in 1..len /\ y > at[a] /\ lines[y].kind = "section" /\ lines[y] # Section(name)
        BY <1>4, <3>2 DEF EndsOf
      <4>2. PICK k \in 1..m : at[k] = y
        BY <1>6, <4>1
      <4>3. content[k].kind = "section"
        BY <1>2, <4>1, <4>2
      <4>4. a < k
        BY <1>2, <1>3, <1>7, <4>1, <4>2
      <4>5. ~ (k < b)
        BY <1>3, <4>3, <4>4
      <4>6. ~ (at[k] < at[b])
        BY <1>2, <1>3, <4>5
      <4> QED BY <1>8, <4>1, <4>2, <4>6
    <3> QED BY <3>1, <3>2
  <2> HIDE DEF E
  <2>3. Min(E) = at[b]
    BY <2>1, <2>2, MinIs
  <2> QED BY <2>3 DEF E
<1> QED
  BY <1>7, <1>8, <1>9, <1>10, <1>11

LEMMA SubSeqIs ==
  ASSUME NEW S, NEW s \in Seq(S), NEW a \in Nat, NEW b \in Nat, a < b, b <= Len(s)
  PROVE  /\ SubSeq(s, a + 1, b - 1) \in Seq(S)
         /\ Len(SubSeq(s, a + 1, b - 1)) = b - a - 1
         /\ \A k \in 1..Len(SubSeq(s, a + 1, b - 1)) :
              /\ SubSeq(s, a + 1, b - 1)[k] = s[a + k]
              /\ a + k \in 1..Len(s) /\ a < a + k /\ a + k < b
<1>1. SubSeq(s, a + 1, b - 1) \in Seq(S) /\ Len(SubSeq(s, a + 1, b - 1)) = b - a - 1
  OBVIOUS
<1>2. ASSUME NEW k \in 1..(b - a - 1)
      PROVE  SubSeq(s, a + 1, b - 1)[k] = s[a + k] /\ a + k \in 1..Len(s) /\ a < a + k /\ a + k < b
  <2>1. a + k \in 1..Len(s) /\ a < a + k /\ a + k < b
    OBVIOUS
  <2>2. SubSeq(s, a + 1, b - 1)[k] = s[(a + 1) + k - 1]
    OBVIOUS
  <2>3. (a + 1) + k - 1 = a + k
    OBVIOUS
  <2> QED BY <2>1, <2>2, <2>3
<1> QED
  BY <1>1, <1>2

\* The rows of a section are its lines.
LEMMA SectionRowsAre ==
  ASSUME NEW S, NEW lines \in Seq(S), NEW content \in Seq(S), Carries(lines, content),
         NEW name, NEW a, NEW b, SectionAt(content, name, a, b)
  PROVE  SectionRows(lines, name) = SubSeq(content, a + 1, b - 1)
<1>1. PICK at : Carried(lines, content, at)
  BY DEF Carries
<1>2. /\ StartsOf(lines, name) = {at[a]} /\ Min(StartsOf(lines, name)) = at[a]
      /\ Min(EndsOf(lines, name, at[a])) = at[b]
      /\ at[a] \in Nat /\ at[b] \in Nat
  BY <1>1, SectionLies
<1> DEFINE between == Between(lines, at[a], at[b])
           part == SubSeq(content, a + 1, b - 1)
<1>3. PICK x \in 1..Len(content), y \in 1..Len(content) : x = a /\ y = b /\ x < y
  BY DEF SectionAt
<1>4. between \in Seq(S) /\ Carries(between, part)
  <2>1. lines \in Seq(S) /\ content \in Seq(S)
    OBVIOUS
  <2>2. Between(lines, at[x], at[y]) \in Seq(S)
        /\ Carries(Between(lines, at[x], at[y]), SubSeq(content, x + 1, y - 1))
    BY ONLY <1>1, <1>3, <2>1, CarriedBetween
  <2> QED BY <1>3, <2>2, Zenon
<1>5. part \in Seq(S) /\ \A k \in 1..Len(part) : part[k].kind \notin Furniture \cup {"section"}
  <2>1. x \in Nat /\ y \in Nat /\ 1 <= x /\ x < y /\ y <= Len(content)
    BY <1>3
  <2>2. /\ SubSeq(content, x + 1, y - 1) \in Seq(S)
        /\ \A k \in 1..Len(SubSeq(content, x + 1, y - 1)) :
             /\ SubSeq(content, x + 1, y - 1)[k] = content[x + k]
             /\ x + k \in 1..Len(content) /\ x < x + k /\ x + k < y
    BY ONLY content \in Seq(S), <2>1, SubSeqIs
  <2>3. \A k \in 1..Len(content) :
          x < k /\ k < y => content[k].kind \notin Furniture \cup {"section"}
    BY <1>3 DEF SectionAt
  <2> QED BY <1>3, <2>1, <2>2, <2>3
<1>6. KeptLines(between) = part
  <2>1. PICK f : Carried(between, part, f)
    BY <1>4 DEF Carries
  <2> HIDE DEF between, part
  <2> QED BY ONLY <1>4, <1>5, <2>1, KeptIsContent
<1>7. KeptLines(between) = FlattenSeq([i \in 1..(at[b] - at[a] - 1) |-> KeptLine(lines[at[a] + i])])
  <2>1. PICK e \in Int : e = at[b] - at[a] - 1
    BY <1>2
  <2>2. between = [i \in 1..e |-> lines[at[a] + i]]
    BY <2>1, Zenon DEF Between
  <2>3. Len(between) \in Nat /\ DOMAIN between = 1..Len(between)
    BY <1>4
  <2>4. 1..Len(between) = 1..e
    BY <2>2, <2>3, Zenon
  <2>5. \A i \in 1..Len(between) : between[i] = lines[at[a] + i]
    BY <2>2, <2>4, Zenon
  <2> HIDE DEF between
  <2> QED BY <2>1, <2>4, <2>5, Zenon DEF KeptLines
<1>8. SectionRows(lines, name) =
        IF StartsOf(lines, name) = {} THEN <<>>
        ELSE FlattenSeq([i \in 1..(Min(EndsOf(lines, name, Min(StartsOf(lines, name))))
                                   - Min(StartsOf(lines, name)) - 1) |->
                           KeptLine(lines[Min(StartsOf(lines, name)) + i])])
  BY Zenon DEF SectionRows, StartsOf, EndsOf, KeptLine
<1>9. StartsOf(lines, name) # {}
  BY <1>2
<1> HIDE DEF between, part
<1> QED
  BY <1>2, <1>6, <1>7, <1>8, <1>9, Zenon DEF part

HeaderBetween(lines, from, to) ==
  [k \in {lines[i].key : i \in {j \in (from + 1)..(to - 1) : lines[j].kind = "entry"}} |->
     lines[Max({i \in (from + 1)..(to - 1) :
                  lines[i].kind = "entry" /\ lines[i].key = k})]]

OnlyEntry(content, a, b, j) ==
  /\ j \in (a + 1)..(b - 1) /\ content[j].kind = "entry"
  /\ \A k \in (a + 1)..(b - 1) :
       content[k].kind = "entry" /\ content[k].key = content[j].key => k = j

\* An entry of the header, the only one with its key, is read as it was printed.
LEMMA HeaderRead ==
  ASSUME NEW S, NEW lines \in Seq(S), NEW content \in Seq(S), Carries(lines, content),
         NEW a, NEW b, SectionAt(content, "HEADER", a, b),
         NEW j, OnlyEntry(content, a, b, j)
  PROVE  /\ content[j].key \in DOMAIN RequireHeaderMap(lines)
         /\ RequireHeaderMap(lines)[content[j].key] = content[j]
<1>1. PICK at : Carried(lines, content, at)
  BY DEF Carries
<1>2. /\ Min(StartsOf(lines, "HEADER")) = at[a]
      /\ Min(EndsOf(lines, "HEADER", at[a])) = at[b]
      /\ at[a] \in Nat /\ at[b] \in Nat
  BY <1>1, SectionLies
<1>3. PICK len \in Nat, m \in Nat : len = Len(lines) /\ m = Len(content)
  OBVIOUS
<1>4. /\ \A k \in 1..m : at[k] \in 1..len
      /\ \A k, l \in 1..m : at[k] < at[l] <=> k < l
      /\ \A k \in 1..m : lines[at[k]] = content[k]
      /\ \A i \in 1..len : (\A k \in 1..m : at[k] # i) => lines[i].kind \in Furniture
  <2>1. Len(lines) \in Nat /\ Len(content) \in Nat
    OBVIOUS
  <2> QED BY <1>1, <1>3, <2>1, CarriedOrder DEF Carried
<1>5. a \in 1..m /\ b \in 1..m /\ j \in 1..m /\ a < j /\ j < b
  BY <1>3 DEF SectionAt, OnlyEntry
<1>6. PICK from \in Nat, to \in Nat, here \in Nat :
        /\ from = at[a] /\ to = at[b] /\ here = at[j]
        /\ from < here /\ here < to /\ to <= len
  <2>1. at[a] \in 1..len /\ at[b] \in 1..len /\ at[j] \in 1..len
    BY <1>4, <1>5
  <2>2. at[a] < at[j] /\ at[j] < at[b]
    BY <1>4, <1>5
  <2> QED BY <2>1, <2>2
<1> DEFINE key == content[j].key
           same(k) == {i \in (from + 1)..(to - 1) : lines[i].kind = "entry" /\ lines[i].key = k}
           keys == {lines[i].key : i \in {k \in (from + 1)..(to - 1) : lines[k].kind = "entry"}}
<1>7. RequireHeaderMap(lines) = [k \in keys |-> lines[Max(same(k))]]
  <2>1. RequireHeaderMap(lines) =
          HeaderBetween(lines, Min(StartsOf(lines, "HEADER")),
                        Min(EndsOf(lines, "HEADER", Min(StartsOf(lines, "HEADER")))))
    BY Zenon DEF RequireHeaderMap, HeaderBetween, StartsOf, EndsOf
  <2>2. RequireHeaderMap(lines) = HeaderBetween(lines, from, to)
    BY <1>2, <1>6, <2>1, Zenon
  <2> QED BY <2>2, Zenon DEF HeaderBetween
<1>8. here \in (from + 1)..(to - 1) /\ lines[here] = content[j]
  <2>1. here \in (from + 1)..(to - 1)
    BY ONLY <1>6
  <2>2. lines[here] = content[j]
    BY <1>4, <1>5, <1>6, Zenon
  <2> QED BY <2>1, <2>2
<1>9. key \in keys
  BY <1>8 DEF OnlyEntry
<1>10. same(key) = {here}
  <2>1. ASSUME NEW i \in (from + 1)..(to - 1), lines[i].kind = "entry", lines[i].key = key
        PROVE  i = here
    <3>1. i \in 1..len /\ from < i /\ i < to
      <4>1. from \in Nat /\ to \in Nat /\ len \in Nat /\ to <= len
        BY <1>6
      <4> QED BY ONLY i \in (from + 1)..(to - 1), <4>1
    <3>2. lines[i].kind \notin Furniture
      BY <2>1 DEF Furniture
    <3>3. PICK k \in 1..m : at[k] = i
      BY <1>4, <3>1, <3>2
    <3>4. a < k /\ k < b
      BY <1>4, <1>5, <1>6, <3>1, <3>3
    <3>5. content[k].kind = "entry" /\ content[k].key = content[j].key
      BY <1>4, <2>1, <3>3
    <3>6. k \in (a + 1)..(b - 1)
      BY <1>5, <3>4
    <3>7. k = j
      BY <3>5, <3>6 DEF OnlyEntry
    <3> QED BY <1>6, <3>3, <3>7
  <2>2. here \in same(key)
    BY <1>8 DEF OnlyEntry
  <2> QED BY <2>1, <2>2
<1>11. Max(same(key)) = here
  <2>0. here \in Int
    OBVIOUS
  <2>1. Max({here}) = here
    BY ONLY <2>0, OneOf
  <2> QED BY <1>10, <2>1
<1> HIDE DEF same, keys
<1>12. RequireHeaderMap(lines)[key] = lines[Max(same(key))]
       /\ key \in DOMAIN RequireHeaderMap(lines)
  BY <1>7, <1>9, Zenon
<1> QED
  BY <1>8, <1>11, <1>12

LEMMA TailIs ==
  ASSUME NEW S, NEW s \in Seq(S), s # <<>>
  PROVE  Tail(s) = [i \in 1..(Len(s) - 1) |-> s[i + 1]]
<1>1. PICK t \in Seq(S) : t = Tail(s)
  BY HeadTailProperties
<1>2. PICK n \in Nat : n = Len(t)
  OBVIOUS
<1>3. Len(s) - 1 = n /\ \A i \in 1..n : t[i] = s[i + 1]
  BY <1>1, <1>2, HeadTailProperties
<1>4. [i \in 1..n |-> t[i]] = t
  BY <1>2
<1>5. [i \in 1..n |-> t[i]] = [i \in 1..n |-> s[i + 1]]
  BY <1>3, Zenon
<1> QED BY <1>1, <1>3, <1>4, <1>5, Zenon

\* What a table of the content holds.
TableAt(content, name, a, records) ==
  /\ SectionAt(content, name, a, a + Len(records) + 2)
  /\ content[a + 1] = Columns(name)
  /\ \A i \in 1..Len(records) : content[a + 1 + i] = Row(name, records[i])

\* A table is read as it was printed.
LEMMA TableRead ==
  ASSUME NEW S, NEW lines \in Seq(S), NEW content \in Seq(S), Carries(lines, content),
         NEW name, NEW a, NEW R, NEW records, records \in Seq(R),
         a \in Nat, TableAt(content, name, a, records)
  PROVE  HasTable(lines, name) /\ TableRows(lines, name) = Rows(name, records)
<1>1. PICK n \in Nat : n = Len(records)
  OBVIOUS
<1>2. SectionAt(content, name, a, a + n + 2)
  BY <1>1 DEF TableAt
<1>3. a + n + 2 \in Nat /\ a < a + n + 2 /\ a + n + 2 <= Len(content)
  BY <1>2 DEF SectionAt
<1> DEFINE s == SubSeq(content, a + 1, a + n + 2 - 1)
<1>4. SectionRows(lines, name) = s
  <2>1. PICK b : b = a + n + 2
    OBVIOUS
  <2>2. SectionAt(content, name, a, b)
    BY <1>2, <2>1, Zenon
  <2>3. SectionRows(lines, name) = SubSeq(content, a + 1, b - 1)
    BY <2>2, SectionRowsAre
  <2> HIDE DEF s
  <2>4. s = SubSeq(content, a + 1, b - 1)
    BY <2>1 DEF s
  <2> QED BY <2>3, <2>4, Zenon
<1>5. s \in Seq(S) /\ Len(s) = n + 1 /\ \A k \in 1..(n + 1) : s[k] = content[a + k]
  <2>1. PICK b \in Nat : b = a + n + 2
    BY <1>3
  <2>2. /\ SubSeq(content, a + 1, b - 1) \in Seq(S)
        /\ Len(SubSeq(content, a + 1, b - 1)) = b - a - 1
        /\ \A k \in 1..Len(SubSeq(content, a + 1, b - 1)) :
             SubSeq(content, a + 1, b - 1)[k] = content[a + k]
    BY <1>3, <2>1, SubSeqIs
  <2>3. b - a - 1 = n + 1
    BY <2>1
  <2>4. s = SubSeq(content, a + 1, b - 1)
    BY <2>1
  <2> HIDE DEF s
  <2> QED BY <2>2, <2>3, <2>4, Zenon
<1> HIDE DEF s
<1>6. s # <<>> /\ s[1] = Columns(name)
  <2>1. 1 \in 1..(n + 1)
    BY <1>1
  <2>2. content[a + 1] = Columns(name)
    BY DEF TableAt
  <2> QED BY <1>5, <2>1, <2>2
<1>7. ASSUME NEW i \in 1..n PROVE s[i + 1] = Row(name, records[i])
  <2>1. i + 1 \in 1..(n + 1) /\ a + (i + 1) = a + 1 + i
    OBVIOUS
  <2>2. content[a + 1 + i] = Row(name, records[i])
    BY <1>1 DEF TableAt
  <2> QED BY <1>5, <2>1, <2>2
<1>8. HasTable(lines, name)
  BY <1>4, <1>6, Zenon DEF HasTable
<1>9. Tail(s) = [i \in 1..n |-> s[i + 1]]
  <2>1. Len(s) - 1 = n
    BY <1>5
  <2>2. Tail(s) = [i \in 1..(Len(s) - 1) |-> s[i + 1]]
    BY <1>5, <1>6, TailIs
  <2> QED BY <2>1, <2>2, Zenon
<1>10. [i \in 1..n |-> s[i + 1]] = [i \in 1..n |-> Row(name, records[i])]
  BY <1>7, Zenon
<1>11. DOMAIN records = 1..n
  BY <1>1
<1>12. [i \in 1..n |-> Row(name, records[i])] = Rows(name, records)
  BY <1>11, Zenon DEF Rows
<1>13. TableRows(lines, name) = Tail(s)
  BY <1>4, Zenon DEF TableRows
<1> QED
  BY <1>8, <1>9, <1>10, <1>12, <1>13, Zenon

---------------------------------------------------------------------------
(* Printed tables.                                                         *)

\* Where the section markers of a sequence of lines are, and that there is no
\* furniture.
Sections(c) == {k \in 1..Len(c) : c[k].kind = "section"}
Unfurnished(c) == \A k \in 1..Len(c) : c[k].kind \notin Furniture

\* Lines after which a table was put.
TableJoined(S, c, name, records, all) ==
  /\ all \in Seq(S \cup ToSet(Table(name, records)))
  /\ Len(all) = Len(c) + 2 + Len(records)
  /\ \A k \in 1..Len(c) : all[k] = c[k]
  /\ all[Len(c) + 1] = Section(name) /\ all[Len(c) + 2] = Columns(name)
  /\ \A i \in 1..Len(records) : all[Len(c) + 2 + i] = Row(name, records[i])
  /\ Sections(all) = Sections(c) \cup {Len(c) + 1}
  /\ Unfurnished(all)

LEMMA TableJoins ==
  ASSUME NEW S, NEW c \in Seq(S), Unfurnished(c), NEW name, NEW R, NEW records \in Seq(R)
  PROVE  TableJoined(S, c, name, records, c \o Table(name, records))
<1> DEFINE t == Table(name, records)
           all == c \o t
           head == <<Section(name), Columns(name)>>
           body == Rows(name, records)
<1>1. PICK n \in Nat, m \in Nat : n = Len(records) /\ m = Len(c)
  OBVIOUS
<1>2. DOMAIN records = 1..n
  BY <1>1
<1>3. body = [i \in 1..n |-> Row(name, records[i])]
  BY <1>2, Zenon DEF Rows
<1>4. Len(body) = n /\ DOMAIN body = 1..n /\ \A i \in 1..n : body[i] = Row(name, records[i])
  BY <1>1, <1>3
<1> DEFINE Ls == {Section(name), Columns(name)} \cup {Row(name, records[i]) : i \in 1..n}
<1> HIDE DEF body
<1>5. body \in Seq(Ls) /\ head \in Seq(Ls)
  <2>1. body \in Seq(Ls)
    BY <1>1, <1>3
  <2>2. Section(name) \in Ls /\ Columns(name) \in Ls
    OBVIOUS
  <2> HIDE DEF Ls
  <2> QED BY <2>1, <2>2
<1>6. t = head \o body
  BY Zenon DEF Table, body
<1>7. Len(head) = 2 /\ head[1] = Section(name) /\ head[2] = Columns(name)
  OBVIOUS
<1> HIDE DEF head, Ls
<1>8. /\ t \in Seq(Ls) /\ Len(t) = 2 + n /\ t[1] = Section(name) /\ t[2] = Columns(name)
      /\ \A i \in 1..n : t[2 + i] = Row(name, records[i])
  <2>1. /\ head \o body \in Seq(Ls) /\ Len(head \o body) = Len(head) + Len(body)
        /\ \A i \in 1..Len(head) : (head \o body)[i] = head[i]
        /\ \A i \in 1..Len(body) : (head \o body)[Len(head) + i] = body[i]
    BY ONLY <1>5, ConcatIs
  <2> HIDE DEF t
  <2> QED BY <1>4, <1>6, <1>7, <2>1
<1> HIDE DEF t
<1>9. t \in Seq(ToSet(t))
  <2>1. \A i \in 1..Len(t) : t[i] \in ToSet(t)
    BY <1>8 DEF ToSet
  <2> QED BY <1>8, <2>1
<1>10. /\ all \in Seq(S \cup ToSet(t)) /\ Len(all) = m + (2 + n)
       /\ \A k \in 1..m : all[k] = c[k]
       /\ \A i \in 1..(2 + n) : all[m + i] = t[i]
  <2> DEFINE U == S \cup ToSet(t)
  <2>1. c \in Seq(U) /\ t \in Seq(U)
    BY <1>9
  <2>2. /\ c \o t \in Seq(U) /\ Len(c \o t) = Len(c) + Len(t)
        /\ \A i \in 1..Len(c) : (c \o t)[i] = c[i]
        /\ \A i \in 1..Len(t) : (c \o t)[Len(c) + i] = t[i]
    BY ONLY <2>1, ConcatIs
  <2> QED BY <1>1, <1>8, <2>2
<1> HIDE DEF all
<1>11. /\ all[m + 1] = Section(name) /\ all[m + 2] = Columns(name)
       /\ \A i \in 1..n : all[m + 2 + i] = Row(name, records[i])
  <2>1. 1 \in 1..(2 + n) /\ 2 \in 1..(2 + n)
    OBVIOUS
  <2>2. ASSUME NEW i \in 1..n PROVE all[m + 2 + i] = Row(name, records[i])
    <3>1. 2 + i \in 1..(2 + n) /\ m + (2 + i) = m + 2 + i
      OBVIOUS
    <3> QED BY <1>8, <1>10, <3>1
  <2> QED BY <1>8, <1>10, <2>1, <2>2
<1>12. ASSUME NEW k \in 1..(m + 2 + n)
       PROVE  /\ k \in 1..m \/ k = m + 1 \/ k = m + 2 \/ \E i \in 1..n : k = m + 2 + i
              /\ k \notin 1..m /\ k # m + 1 => all[k].kind \in {"columns", "row"}
  <2>1. k \in 1..m \/ k = m + 1 \/ k = m + 2 \/ k - (m + 2) \in 1..n
    OBVIOUS
  <2>2. (m + 2) + (k - (m + 2)) = k
    OBVIOUS
  <2>3. k \in 1..m \/ k = m + 1 \/ k = m + 2 \/ \E i \in 1..n : k = m + 2 + i
    BY <2>1, <2>2
  <2>4. ASSUME k \notin 1..m, k # m + 1 PROVE all[k].kind \in {"columns", "row"}
    <3>1. CASE k = m + 2
      <4>1. all[k] = Columns(name)
        BY <1>11, <3>1
      <4> QED BY <4>1 DEF Columns
    <3>2. CASE k # m + 2
      <4>1. PICK i \in 1..n : k = m + 2 + i
        BY <2>3, <2>4, <3>2
      <4>2. all[k] = Row(name, records[i])
        BY <1>11, <4>1
      <4> QED BY <4>2 DEF Row
    <3> QED BY <3>1, <3>2
  <2> QED BY <2>3, <2>4
<1>13. all[m + 1].kind = "section"
  BY <1>11 DEF Section
<1>14. Sections(all) = Sections(c) \cup {m + 1}
  <2>1. Len(all) = m + 2 + n /\ m + 1 \in 1..(m + 2 + n) /\ 1..m \subseteq 1..(m + 2 + n)
    BY <1>10
  <2>2. \A k \in 1..(m + 2 + n) : all[k].kind = "section" <=> k \in Sections(c) \/ k = m + 1
    BY <1>1, <1>10, <1>12, <1>13 DEF Sections
  <2> QED BY <1>1, <2>1, <2>2 DEF Sections
<1>15. Unfurnished(all)
  <2>1. ASSUME NEW k \in 1..(m + 2 + n) PROVE all[k].kind \notin Furniture
    <3>1. k \in 1..m => c[k].kind \notin Furniture
      BY <1>1 DEF Unfurnished
    <3> QED BY <1>10, <1>12, <1>13, <3>1 DEF Furniture
  <2>2. Len(all) = m + 2 + n
    BY <1>10
  <2> QED BY <2>1, <2>2 DEF Unfurnished
<1>16. Len(all) = m + 2 + n
  BY <1>10
<1> QED
  <2>1. /\ all \in Seq(S \cup ToSet(t)) /\ Len(all) = Len(c) + 2 + Len(records)
        /\ \A k \in 1..Len(c) : all[k] = c[k]
        /\ all[Len(c) + 1] = Section(name) /\ all[Len(c) + 2] = Columns(name)
        /\ \A i \in 1..Len(records) : all[Len(c) + 2 + i] = Row(name, records[i])
        /\ Sections(all) = Sections(c) \cup {Len(c) + 1}
        /\ Unfurnished(all)
    BY <1>1, <1>10, <1>11, <1>14, <1>15, <1>16
  <2> QED BY <2>1 DEF all, t, TableJoined

---------------------------------------------------------------------------
(* The parsers without their front, in terms of a header and of tables.    *)

BankFaultAt(listed, opening, i) ==
  IF i = 1 THEN BankRowFault(listed[i], opening.value, opening.fault = "nan")
  ELSE BankRowFault(listed[i], listed[i - 1].cells.balance, FALSE)

BankTableFault(listed, opening) ==
  LET fitting == {i \in DOMAIN listed : \A j \in 1..i : Fits(listed[j], "TRANSACTIONS")}
      faulty  == {i \in fitting : BankFaultAt(listed, opening, i) # "none"}
  IN  IF faulty # {} THEN BankFaultAt(listed, opening, Min(faulty))
      ELSE IF fitting # DOMAIN listed THEN "refused" ELSE "none"

BankClosingFails(listed, opening, closing) ==
  \/ "nan" \in {opening.fault, closing.fault}
  \/ (IF listed = <<>> THEN opening.value ELSE listed[Len(listed)].cells.balance) # closing.value

BankKeys == <<"account_id", "user_id">>

BankRead(H, listed) ==
  [id |-> H["statement_id"].value, account |-> H["account_id"].value,
   user |-> H["user_id"].value, start |-> H["period_start"].value,
   end |-> H["period_end"].value, opening |-> H["opening_balance"].value,
   closing |-> H["closing_balance"].value, rows |-> Cells(listed)]

BankOutcome(H, listed) ==
  IF H["transaction_count"].fault # "none" THEN Crashed
  ELSE IF \/ Len(listed) # H["transaction_count"].value
          \/ \E l \in {H["opening_balance"], H["closing_balance"], H["base_currency"]} :
               l.fault \in Caught
  THEN Refused
  ELSE IF BankTableFault(listed, H["opening_balance"]) # "none"
  THEN [status |-> BankTableFault(listed, H["opening_balance"])]
  ELSE IF BankClosingFails(listed, H["opening_balance"], H["closing_balance"]) THEN Crashed
  ELSE IF IdentityFault(H, BankKeys) # "none" THEN [status |-> IdentityFault(H, BankKeys)]
  ELSE Parsed(BankRead(H, listed))

LEMMA ParseBankIs ==
  ASSUME NEW d
  PROVE  ParseBank(d) =
           IF ~ (BankHeaders \subseteq DOMAIN RequireHeaderMap(Text(d)))
                \/ ~ HasTable(Text(d), "TRANSACTIONS")
           THEN Refused
           ELSE BankOutcome(RequireHeaderMap(Text(d)), TableRows(Text(d), "TRANSACTIONS"))
  BY Zenon DEF ParseBank, BankOutcome, BankTableFault, BankFaultAt, BankClosingFails, BankRead,
     BankKeys, TableFault

BookTableFault(listed, name) ==
  LET fitting == {i \in DOMAIN listed : \A j \in 1..i : Fits(listed[j], name)}
      faulty  == {i \in fitting : BookRowFault(listed[i]) # "none"}
  IN  IF faulty # {} THEN BookRowFault(listed[Min(faulty)])
      ELSE IF fitting # DOMAIN listed THEN "refused" ELSE "none"

BookFault(lines, name) ==
  IF ~ HasTable(lines, name) THEN "refused" ELSE BookTableFault(TableRows(lines, name), name)

BookKeys == <<"account_id", "portfolio_id", "user_id">>

BookRead(H, lines) ==
  [id |-> H["statement_id"].value, account |-> H["account_id"].value,
   user |-> H["user_id"].value, start |-> H["period_start"].value,
   end |-> H["period_end"].value,
   holdings |-> Cells(TableRows(lines, "HOLDINGS")), lots |-> Cells(TableRows(lines, "TAX_LOTS")),
   sales |-> Cells(TableRows(lines, "SALES")), dividends |-> Cells(TableRows(lines, "DIVIDENDS")),
   purchases |-> Cells(TableRows(lines, "PURCHASES")),
   realized |-> [k \in DOMAIN ParseRealized(lines) |-> ParseRealized(lines)[k].value]]

BookOutcome(H, lines) ==
  IF {i \in DOMAIN Tables : BookFault(lines, Tables[i]) # "none"} # {}
  THEN [status |->
          BookFault(lines, Tables[Min({i \in DOMAIN Tables : BookFault(lines, Tables[i]) # "none"})])]
  ELSE IF ~ RealizedAgrees(ParseRealized(lines), Cells(TableRows(lines, "SALES"))) THEN Refused
  ELSE IF IdentityFault(H, BookKeys) # "none" THEN [status |-> IdentityFault(H, BookKeys)]
  ELSE Parsed(BookRead(H, lines))

LEMMA ParseBrokerageIs ==
  ASSUME NEW d
  PROVE  ParseBrokerage(d) =
           IF ~ (BrokerageHeaders \subseteq DOMAIN RequireHeaderMap(Text(d))) THEN Refused
           ELSE BookOutcome(RequireHeaderMap(Text(d)), Text(d))
  BY Zenon DEF ParseBrokerage, BookOutcome, BookFault, BookTableFault, BookRead, BookKeys, TableFault

\* A header whose ids, period and currency are in order.
LEMMA IdentityIsRead ==
  ASSUME NEW H, NEW ids, NEW K, ids \in Seq(K),
         \A k \in K \cup {"period_start", "period_end", "base_currency"} : H[k].fault = "none"
  PROVE  IdentityFault(H, ids) = "none"
<1> DEFINE last == <<"period_start", "period_end", "base_currency">>
           All == K \cup {"period_start", "period_end", "base_currency"}
           keys == ids \o last
<1>1. last \in Seq(All) /\ ids \in Seq(All)
  OBVIOUS
<1> HIDE DEF All, last
<1>2. ids \o last \in Seq(All)
  BY ONLY <1>1, ConcatIs
<1>3. \A i \in DOMAIN keys : keys[i] \in All
  BY <1>2
<1>4. {i \in DOMAIN keys : H[keys[i]].fault # "none"} = {}
  <2> HIDE DEF keys
  <2> QED BY <1>3, Zenon DEF All
<1> QED
  BY <1>4, Zenon DEF IdentityFault, last, keys

LEMMA CellsOfRows ==
  ASSUME NEW name, NEW R, NEW records \in Seq(R)
  PROVE  /\ Cells(Rows(name, records)) = records
         /\ DOMAIN Rows(name, records) = DOMAIN records
         /\ Len(Rows(name, records)) = Len(records)
         /\ \A i \in DOMAIN records : Rows(name, records)[i] = Row(name, records[i])
<1>1. PICK n \in Nat : n = Len(records) /\ DOMAIN records = 1..n
  OBVIOUS
<1> DEFINE listed == Rows(name, records)
<1>2. listed = [i \in 1..n |-> Row(name, records[i])]
  BY <1>1, Zenon DEF Rows
<1>3. DOMAIN listed = 1..n /\ Len(listed) = n /\ \A i \in 1..n : listed[i] = Row(name, records[i])
  <2> HIDE DEF listed
  <2> QED BY <1>2
<1> HIDE DEF listed
<1>4. \A i \in 1..n : listed[i].cells = records[i]
  BY <1>3 DEF Row
<1>5. Cells(listed) = [i \in 1..n |-> listed[i].cells]
  BY <1>3, Zenon DEF Cells
<1>6. [i \in 1..n |-> listed[i].cells] = [i \in 1..n |-> records[i]]
  BY <1>4, Zenon
<1>7. [i \in 1..n |-> records[i]] = records
  BY <1>1
<1> QED
  BY <1>1, <1>3, <1>5, <1>6, <1>7 DEF listed

\* Lines put after some lines.
LEMMA Joins ==
  ASSUME NEW S, NEW c \in Seq(S), NEW t \in Seq(S), Unfurnished(c), Unfurnished(t)
  PROVE  LET all == c \o t
         IN  /\ all \in Seq(S) /\ Len(all) = Len(c) + Len(t)
             /\ \A k \in 1..Len(c) : all[k] = c[k]
             /\ \A k \in 1..Len(t) : all[Len(c) + k] = t[k]
             /\ Sections(all) = Sections(c) \cup {Len(c) + k : k \in Sections(t)}
             /\ Unfurnished(all)
<1> DEFINE all == c \o t
<1>1. PICK m \in Nat, n \in Nat : m = Len(c) /\ n = Len(t)
  OBVIOUS
<1>2. /\ all \in Seq(S) /\ Len(all) = m + n
      /\ \A k \in 1..m : all[k] = c[k]
      /\ \A k \in 1..n : all[m + k] = t[k]
  BY <1>1, ConcatIs
<1> HIDE DEF all
<1>3. ASSUME NEW k \in 1..(m + n)
      PROVE  k \in 1..m \/ (k - m \in 1..n /\ m + (k - m) = k)
  OBVIOUS
<1>4. Unfurnished(all)
  <2>1. ASSUME NEW k \in 1..(m + n) PROVE all[k].kind \notin Furniture
    <3>1. CASE k \in 1..m
      BY <1>1, <1>2, <3>1 DEF Unfurnished
    <3>2. CASE k - m \in 1..n /\ m + (k - m) = k
      <4>1. all[k] = t[k - m]
        BY <1>2, <3>2
      <4> QED BY <1>1, <3>2, <4>1 DEF Unfurnished
    <3> QED BY <1>3, <3>1, <3>2
  <2> QED BY <1>2, <2>1 DEF Unfurnished
<1>5. Sections(all) \subseteq Sections(c) \cup {m + k : k \in Sections(t)}
  <2>1. ASSUME NEW k \in 1..(m + n), all[k].kind = "section"
        PROVE  k \in Sections(c) \/ \E j \in Sections(t) : k = m + j
    <3>1. CASE k \in 1..m
      BY <1>1, <1>2, <2>1, <3>1 DEF Sections
    <3>2. CASE k - m \in 1..n /\ m + (k - m) = k
      <4>1. all[k] = t[k - m]
        BY <1>2, <3>2
      <4>2. k - m \in Sections(t)
        BY <1>1, <2>1, <3>2, <4>1 DEF Sections
      <4> QED BY <3>2, <4>2
    <3> QED BY <1>3, <3>1, <3>2
  <2> QED BY <1>2, <2>1 DEF Sections
<1>6. Sections(c) \subseteq Sections(all)
  <2>1. ASSUME NEW k \in 1..m, c[k].kind = "section" PROVE k \in 1..(m + n) /\ all[k].kind = "section"
    <3>1. all[k] = c[k] /\ k \in 1..(m + n)
      BY <1>2
    <3> QED BY <2>1, <3>1
  <2> QED BY <1>1, <1>2, <2>1 DEF Sections
<1>7. {m + k : k \in Sections(t)} \subseteq Sections(all)
  <2>1. ASSUME NEW k \in 1..n, t[k].kind = "section"
        PROVE  m + k \in 1..(m + n) /\ all[m + k].kind = "section"
    <3>1. all[m + k] = t[k] /\ m + k \in 1..(m + n)
      BY <1>2
    <3> QED BY <2>1, <3>1
  <2>2. ASSUME NEW k \in Sections(t) PROVE m + k \in Sections(all)
    <3>1. k \in 1..n /\ t[k].kind = "section"
      BY <1>1 DEF Sections
    <3>2. m + k \in 1..(m + n) /\ all[m + k].kind = "section"
      BY <2>1, <3>1
    <3> QED BY <1>2, <3>2 DEF Sections
  <2> QED BY <2>2, Zenon
<1>8. Sections(all) = Sections(c) \cup {m + k : k \in Sections(t)}
  BY <1>5, <1>6, <1>7, Zenon
<1> QED
  <2>1. /\ all \in Seq(S) /\ Len(all) = Len(c) + Len(t)
        /\ \A k \in 1..Len(c) : all[k] = c[k]
        /\ \A k \in 1..Len(t) : all[Len(c) + k] = t[k]
    BY <1>1, <1>2
  <2>2. Sections(all) = Sections(c) \cup {Len(c) + k : k \in Sections(t)}
    BY <1>1, <1>8, Zenon
  <2> QED BY <1>4, <2>1, <2>2 DEF all

\* A marker put after some lines.
LEMMA MarkerJoins ==
  ASSUME NEW S, NEW c \in Seq(S), Unfurnished(c), NEW name, Section(name) \in S
  PROVE  LET all == c \o <<Section(name)>>
         IN  /\ all \in Seq(S) /\ Len(all) = Len(c) + 1
             /\ \A k \in 1..Len(c) : all[k] = c[k]
             /\ all[Len(c) + 1] = Section(name)
             /\ Sections(all) = Sections(c) \cup {Len(c) + 1}
             /\ Unfurnished(all)
<1> DEFINE t == <<Section(name)>>
           all == c \o t
<1>1. t \in Seq(S) /\ Len(t) = 1 /\ t[1] = Section(name)
  OBVIOUS
<1>2. Section(name).kind = "section" /\ "section" \notin Furniture
  BY DEF Section, Furniture
<1>3. Unfurnished(t)
  BY <1>1, <1>2 DEF Unfurnished
<1>4. Sections(t) = {1}
  BY <1>1, <1>2 DEF Sections
<1> HIDE DEF t
<1>5. /\ all \in Seq(S) /\ Len(all) = Len(c) + Len(t)
      /\ \A k \in 1..Len(c) : all[k] = c[k]
      /\ \A k \in 1..Len(t) : all[Len(c) + k] = t[k]
      /\ Sections(all) = Sections(c) \cup {Len(c) + k : k \in Sections(t)}
      /\ Unfurnished(all)
  BY <1>1, <1>3, Joins
<1>6. {Len(c) + k : k \in Sections(t)} = {Len(c) + 1}
  BY <1>4
<1> HIDE DEF all
<1>7. all[Len(c) + 1] = Section(name)
  BY <1>1, <1>5
<1>8. Sections(all) = Sections(c) \cup {Len(c) + 1}
  BY <1>5, <1>6, Zenon
<1> QED
  BY <1>1, <1>5, <1>7, <1>8 DEF all, t

\* Entries put after some lines.
LEMMA EntriesJoin ==
  ASSUME NEW S, NEW c \in Seq(S), NEW t \in Seq(S), Unfurnished(c),
         \A k \in 1..Len(t) : t[k].kind = "entry"
  PROVE  LET all == c \o t
         IN  /\ all \in Seq(S) /\ Len(all) = Len(c) + Len(t)
             /\ \A k \in 1..Len(c) : all[k] = c[k]
             /\ \A k \in 1..Len(t) : all[Len(c) + k] = t[k]
             /\ Sections(all) = Sections(c)
             /\ Unfurnished(all)
<1> DEFINE all == c \o t
<1>1. Unfurnished(t) /\ Sections(t) = {}
  BY DEF Unfurnished, Sections, Furniture
<1>2. /\ all \in Seq(S) /\ Len(all) = Len(c) + Len(t)
      /\ \A k \in 1..Len(c) : all[k] = c[k]
      /\ \A k \in 1..Len(t) : all[Len(c) + k] = t[k]
      /\ Sections(all) = Sections(c) \cup {Len(c) + k : k \in Sections(t)}
      /\ Unfurnished(all)
  BY <1>1, Joins
<1> HIDE DEF all
<1>3. Sections(all) = Sections(c)
  BY <1>1, <1>2
<1> QED
  BY <1>2, <1>3 DEF all

\* The header of a statement and the entries of its own kind.

LEMMA HeadIs ==
  ASSUME NEW s, NEW U, NEW E \in Seq(U), \A k \in 1..Len(E) : E[k].kind = "entry"
  PROVE  \E T :
         LET all == <<Section("HEADER")>> \o Identity(s) \o E
         IN  /\ all \in Seq(T) /\ Len(all) = 7 + Len(E)
             /\ all[1] = Section("HEADER")
             /\ all[2] = Entry("statement_id", s.id) /\ all[3] = Entry("account_id", s.account)
             /\ all[4] = Entry("user_id", s.user) /\ all[5] = Entry("period_start", s.start)
             /\ all[6] = Entry("period_end", s.end) /\ all[7] = Entry("base_currency", "USD")
             /\ \A k \in 1..Len(E) : all[7 + k] = E[k]
             /\ Sections(all) = {1}
             /\ Unfurnished(all)
<1> DEFINE id == Identity(s)
           top == <<Section("HEADER")>>
           begun == top \o id
           all == begun \o E
           T == {Section("HEADER"), Entry("statement_id", s.id), Entry("account_id", s.account),
                 Entry("user_id", s.user), Entry("period_start", s.start),
                 Entry("period_end", s.end), Entry("base_currency", "USD")} \cup U
<1>1. id \in Seq(T)
  <2>1. /\ Entry("statement_id", s.id) \in T /\ Entry("account_id", s.account) \in T
        /\ Entry("user_id", s.user) \in T /\ Entry("period_start", s.start) \in T
        /\ Entry("period_end", s.end) \in T /\ Entry("base_currency", "USD") \in T
    OBVIOUS
  <2> HIDE DEF T
  <2> QED BY <2>1 DEF Identity
<1>2. /\ Len(id) = 6
      /\ id[1] = Entry("statement_id", s.id) /\ id[2] = Entry("account_id", s.account)
      /\ id[3] = Entry("user_id", s.user) /\ id[4] = Entry("period_start", s.start)
      /\ id[5] = Entry("period_end", s.end) /\ id[6] = Entry("base_currency", "USD")
  BY DEF Identity
<1>3. \A k \in 1..6 : id[k].kind = "entry"
  <2>1. \A k \in 1..6 : k = 1 \/ k = 2 \/ k = 3 \/ k = 4 \/ k = 5 \/ k = 6
    OBVIOUS
  <2>2. \A key, value : Entry(key, value).kind = "entry"
    BY DEF Entry
  <2> HIDE DEF id
  <2> QED BY <1>2, <2>1, <2>2
<1>4. top \in Seq(T) /\ Len(top) = 1 /\ top[1] = Section("HEADER") /\ E \in Seq(T)
  <2>1. Section("HEADER") \in T /\ U \subseteq T
    OBVIOUS
  <2> HIDE DEF T
  <2> QED BY <2>1
<1>5. Unfurnished(top) /\ Sections(top) = {1}
  <2>1. Section("HEADER").kind = "section" /\ "section" \notin Furniture
    BY DEF Section, Furniture
  <2> QED BY <1>4, <2>1 DEF Unfurnished, Sections
<1> HIDE DEF id, top, T
<1>6. /\ begun \in Seq(T) /\ Len(begun) = 7
      /\ begun[1] = Section("HEADER") /\ \A k \in 1..6 : begun[1 + k] = id[k]
      /\ Sections(begun) = {1} /\ Unfurnished(begun)
  <2>1. /\ begun \in Seq(T) /\ Len(begun) = Len(top) + Len(id)
        /\ \A k \in 1..Len(top) : begun[k] = top[k]
        /\ \A k \in 1..Len(id) : begun[Len(top) + k] = id[k]
        /\ Sections(begun) = Sections(top)
        /\ Unfurnished(begun)
    BY <1>1, <1>2, <1>3, <1>4, <1>5, EntriesJoin
  <2> HIDE DEF begun
  <2> QED BY <1>2, <1>4, <1>5, <2>1
<1> HIDE DEF begun
<1>7. /\ all \in Seq(T) /\ Len(all) = 7 + Len(E)
      /\ \A k \in 1..7 : all[k] = begun[k]
      /\ \A k \in 1..Len(E) : all[7 + k] = E[k]
      /\ Sections(all) = {1} /\ Unfurnished(all)
  <2>1. /\ all \in Seq(T) /\ Len(all) = Len(begun) + Len(E)
        /\ \A k \in 1..Len(begun) : all[k] = begun[k]
        /\ \A k \in 1..Len(E) : all[Len(begun) + k] = E[k]
        /\ Sections(all) = Sections(begun)
        /\ Unfurnished(all)
    BY <1>4, <1>6, EntriesJoin
  <2> HIDE DEF all
  <2> QED BY <1>6, <2>1
<1> HIDE DEF all
<1>8. /\ all[1] = Section("HEADER")
      /\ all[2] = Entry("statement_id", s.id) /\ all[3] = Entry("account_id", s.account)
      /\ all[4] = Entry("user_id", s.user) /\ all[5] = Entry("period_start", s.start)
      /\ all[6] = Entry("period_end", s.end) /\ all[7] = Entry("base_currency", "USD")
  BY <1>2, <1>6, <1>7
<1> QED
  BY <1>7, <1>8 DEF all, begun, top, id

---------------------------------------------------------------------------
(* A bank statement as it is printed and read.                             *)

BankEntries(s) ==
  <<Entry("opening_balance", s.opening), Entry("closing_balance", s.closing),
    Entry("transaction_count", Len(s.rows))>>
BankContent(s) ==
  <<Section("HEADER")>> \o Identity(s) \o BankEntries(s)
    \o Table("TRANSACTIONS", s.rows) \o <<Section("END")>>

LEMMA BankContentIs ==
  ASSUME NEW s, NEW R, s.rows \in Seq(R)
  PROVE  LET c == BankContent(s)
             n == Len(s.rows)
         IN  /\ c \in Seq(ToSet(c)) /\ Len(c) = 13 + n
             /\ c[1] = Section("HEADER")
             /\ c[2] = Entry("statement_id", s.id) /\ c[3] = Entry("account_id", s.account)
             /\ c[4] = Entry("user_id", s.user) /\ c[5] = Entry("period_start", s.start)
             /\ c[6] = Entry("period_end", s.end) /\ c[7] = Entry("base_currency", "USD")
             /\ c[8] = Entry("opening_balance", s.opening)
             /\ c[9] = Entry("closing_balance", s.closing)
             /\ c[10] = Entry("transaction_count", n)
             /\ c[11] = Section("TRANSACTIONS") /\ c[12] = Columns("TRANSACTIONS")
             /\ \A i \in 1..n : c[12 + i] = Row("TRANSACTIONS", s.rows[i])
             /\ c[13 + n] = Section("END")
             /\ Sections(c) = {1, 11, 13 + n}
             /\ Unfurnished(c)
<1> DEFINE E == BankEntries(s)
           head == <<Section("HEADER")>> \o Identity(s) \o E
           t == Table("TRANSACTIONS", s.rows)
           body == head \o t
           c == body \o <<Section("END")>>
           U == {Entry("opening_balance", s.opening), Entry("closing_balance", s.closing),
                 Entry("transaction_count", Len(s.rows))}
<1>1. PICK n \in Nat : n = Len(s.rows)
  OBVIOUS
<1>2. E \in Seq(U)
  BY DEF BankEntries
<1>3. /\ Len(E) = 3 /\ E[1] = Entry("opening_balance", s.opening)
      /\ E[2] = Entry("closing_balance", s.closing) /\ E[3] = Entry("transaction_count", n)
  BY <1>1 DEF BankEntries
<1>4. \A k \in 1..Len(E) : E[k].kind = "entry"
  <2>1. \A k \in 1..3 : k = 1 \/ k = 2 \/ k = 3
    OBVIOUS
  <2> HIDE DEF E
  <2> QED BY <1>3, <2>1 DEF Entry
<1> HIDE DEF U, E
<1>5. PICK T :
        /\ head \in Seq(T) /\ Len(head) = 7 + Len(E)
        /\ head[1] = Section("HEADER")
        /\ head[2] = Entry("statement_id", s.id) /\ head[3] = Entry("account_id", s.account)
        /\ head[4] = Entry("user_id", s.user) /\ head[5] = Entry("period_start", s.start)
        /\ head[6] = Entry("period_end", s.end) /\ head[7] = Entry("base_currency", "USD")
        /\ \A k \in 1..Len(E) : head[7 + k] = E[k]
        /\ Sections(head) = {1}
        /\ Unfurnished(head)
  BY <1>2, <1>4, HeadIs
<1> HIDE DEF head, t
<1>6. /\ body \in Seq(T \cup ToSet(t)) /\ Len(body) = Len(head) + 2 + n
      /\ \A k \in 1..Len(head) : body[k] = head[k]
      /\ body[Len(head) + 1] = Section("TRANSACTIONS")
      /\ body[Len(head) + 2] = Columns("TRANSACTIONS")
      /\ \A i \in 1..n : body[Len(head) + 2 + i] = Row("TRANSACTIONS", s.rows[i])
      /\ Sections(body) = Sections(head) \cup {Len(head) + 1}
      /\ Unfurnished(body)
  <2>1. s.rows \in Seq(R) /\ head \in Seq(T) /\ Unfurnished(head)
    BY <1>5
  <2>2. TableJoined(T, head, "TRANSACTIONS", s.rows, head \o Table("TRANSACTIONS", s.rows))
    BY ONLY <2>1, TableJoins
  <2> QED BY <1>1, <2>2, Zenon DEF t, body, TableJoined
<1> HIDE DEF body
<1> DEFINE W == T \cup ToSet(t) \cup {Section("END")}
<1>7. body \in Seq(W) /\ Section("END") \in W
  BY <1>6
<1> HIDE DEF W
<1>8. /\ c \in Seq(W) /\ Len(c) = Len(body) + 1
      /\ \A k \in 1..Len(body) : c[k] = body[k]
      /\ c[Len(body) + 1] = Section("END")
      /\ Sections(c) = Sections(body) \cup {Len(body) + 1}
      /\ Unfurnished(c)
  <2>1. Unfurnished(body)
    BY <1>6
  <2> QED BY ONLY <1>7, <2>1, MarkerJoins
<1> HIDE DEF c
<1>9. Len(head) = 10 /\ Len(body) = 12 + n /\ Len(c) = 13 + n
  BY <1>3, <1>5, <1>6, <1>8
<1>10. \A k \in 1..10 : c[k] = head[k]
  <2>1. ASSUME NEW k \in 1..10 PROVE c[k] = head[k]
    <3>1. body[k] = head[k]
      BY <1>6, <1>9
    <3>2. k \in 1..Len(body)
      BY <1>9
    <3> QED BY <1>8, <3>1, <3>2
  <2> QED BY <2>1
<1>11. /\ head[8] = Entry("opening_balance", s.opening)
       /\ head[9] = Entry("closing_balance", s.closing)
       /\ head[10] = Entry("transaction_count", n)
  <2>1. /\ head[7 + 1] = E[1] /\ head[7 + 2] = E[2] /\ head[7 + 3] = E[3]
    BY <1>3, <1>5
  <2> QED BY <1>3, <2>1
<1>12. c[11] = Section("TRANSACTIONS") /\ c[12] = Columns("TRANSACTIONS")
  <2>1. body[11] = Section("TRANSACTIONS") /\ body[12] = Columns("TRANSACTIONS")
    BY <1>6, <1>9
  <2>2. 11 \in 1..Len(body) /\ 12 \in 1..Len(body)
    BY <1>9
  <2> QED BY <1>8, <2>1, <2>2
<1>13. ASSUME NEW i \in 1..n PROVE c[12 + i] = Row("TRANSACTIONS", s.rows[i])
  <2>1. body[12 + i] = Row("TRANSACTIONS", s.rows[i])
    BY <1>6, <1>9
  <2>2. 12 + i \in 1..Len(body)
    BY <1>9
  <2> QED BY <1>8, <2>1, <2>2
<1>14. Sections(c) = {1, 11, 13 + n} /\ c[13 + n] = Section("END")
  <2>1. Len(head) + 1 = 11 /\ Len(body) + 1 = 13 + n
    BY <1>9
  <2> QED BY <1>5, <1>6, <1>8, <2>1
<1>15. c \in Seq(ToSet(c))
  <2>1. \A i \in 1..Len(c) : c[i] \in ToSet(c)
    BY <1>8 DEF ToSet
  <2> QED BY <1>8, <2>1
<1>16. c = BankContent(s)
  BY Zenon DEF c, body, head, t, E, BankContent
<1>17. /\ c[1] = Section("HEADER")
       /\ c[2] = Entry("statement_id", s.id) /\ c[3] = Entry("account_id", s.account)
       /\ c[4] = Entry("user_id", s.user) /\ c[5] = Entry("period_start", s.start)
       /\ c[6] = Entry("period_end", s.end) /\ c[7] = Entry("base_currency", "USD")
       /\ c[8] = head[8] /\ c[9] = head[9] /\ c[10] = head[10]
  BY <1>5, <1>10
<1> QED
  BY <1>1, <1>8, <1>9, <1>11, <1>12, <1>13, <1>14, <1>15, <1>16, <1>17

\* A printed document shows its format and everything it says.
LEMMA PrintsDetect ==
  ASSUME NEW d, NEW m, NEW C, NEW content \in Seq(C), Prints(d, m, C, content),
         Unfurnished(content), content # <<>>
  PROVE  /\ ~ Scanned(d)
         /\ \A l \in LinesOf(d) : l.kind \in Branded => l.marker = m
         /\ Marked(LinesOf(d), m)
         /\ \E l \in LinesOf(d) : l.kind \in Bannered
         /\ ToSet(content) \subseteq LinesOf(d)
         /\ \E S : Text(d) \in Seq(S)  /\ content \in Seq(S)
<1>1. /\ d \in Seq(Seq(C \cup FurnitureOf(m))) /\ d # <<>> /\ Continuous(d, m)
      /\ \A i \in DOMAIN d : ToSet(d[i]) \subseteq ToSet(content) \cup FurnitureOf(m)
      /\ Carries(Text(d), content)
  BY DEF Prints
<1>2. \A i \in DOMAIN d : ToSet(d[i]) \subseteq LinesOf(d)
  BY Zenon DEF LinesOf
<1>3. 1 \in DOMAIN d
  <2>1. Len(d) \in Nat \ {0} /\ DOMAIN d = 1..Len(d)
    BY <1>1
  <2> QED BY <2>1
<1>4. ASSUME NEW l \in LinesOf(d), l.kind \in Branded PROVE l.marker = m
  <2>1. PICK i \in DOMAIN d : l \in ToSet(d[i])
    BY Zenon DEF LinesOf
  <2>2. l \in ToSet(content) \cup FurnitureOf(m)
    BY <1>1, <2>1
  <2>3. l.kind \in Furniture
    BY <1>4 DEF Branded, Furniture
  <2>4. l \notin ToSet(content)
    <3>1. ASSUME l \in ToSet(content) PROVE FALSE
      <4>1. PICK k \in 1..Len(content) : content[k] = l
        BY <3>1 DEF ToSet
      <4> QED BY <2>3, <4>1 DEF Unfurnished
    <3> QED BY <3>1
  <2> QED BY <1>4, <2>2, <2>4, FurnitureKinds
<1>5. /\ Marked(ToSet(d[1]), m) /\ \E l \in ToSet(d[1]) : l.kind \in Bannered
  BY <1>1, <1>3 DEF Continuous
<1>6. Marked(LinesOf(d), m) /\ \E l \in LinesOf(d) : l.kind \in Bannered
  BY <1>2, <1>3, <1>5 DEF Marked
<1>7. Text(d) \in Seq(LinesOf(d))
  <2>1. \A i \in DOMAIN d : d[i] \in Seq(LinesOf(d))
    <3>1. ASSUME NEW i \in DOMAIN d PROVE d[i] \in Seq(LinesOf(d))
      <4>1. d[i] \in Seq(C \cup FurnitureOf(m))
        BY <1>1
      <4>2. \A k \in 1..Len(d[i]) : d[i][k] \in LinesOf(d)
        BY <1>2, <4>1 DEF ToSet
      <4> QED BY <4>1, <4>2
    <3> QED BY <3>1
  <2>2. d \in Seq(Seq(LinesOf(d)))
    BY <1>1, <2>1
  <2> QED BY <2>2, FlattenType DEF Text
<1>8. PICK at : Carried(Text(d), content, at)
  BY <1>1 DEF Carries
<1>9. ToSet(content) \subseteq LinesOf(d)
  <2>1. ASSUME NEW k \in 1..Len(content) PROVE content[k] \in LinesOf(d)
    <3>1. at[k] \in 1..Len(Text(d)) /\ Text(d)[at[k]] = content[k]
      BY <1>8 DEF Carried
    <3>2. Text(d)[at[k]] \in LinesOf(d)
      BY <1>7, <3>1
    <3> QED BY <3>1, <3>2
  <2> QED BY <2>1 DEF ToSet
<1>10. ~ Scanned(d)
  <2>1. 1 \in 1..Len(content)
    <3>1. Len(content) \in Nat \ {0}
      OBVIOUS
    <3> QED BY <3>1
  <2>2. at[1] \in 1..Len(Text(d))
    BY <1>8, <2>1 DEF Carried
  <2>3. Text(d) # <<>>
    BY <2>2
  <2> QED BY <2>3 DEF Scanned
<1>11. Text(d) \in Seq(LinesOf(d)) /\ content \in Seq(LinesOf(d))
  <2>1. \A k \in 1..Len(content) : content[k] \in LinesOf(d)
    BY <1>9 DEF ToSet
  <2> QED BY <1>7, <2>1
<1> QED
  BY <1>4, <1>6, <1>9, <1>10, <1>11

\* The header lines of a bank statement.
BankHeaderOf(s, H) ==
  /\ H["statement_id"] = Entry("statement_id", s.id)
  /\ H["account_id"] = Entry("account_id", s.account)
  /\ H["user_id"] = Entry("user_id", s.user)
  /\ H["period_start"] = Entry("period_start", s.start)
  /\ H["period_end"] = Entry("period_end", s.end)
  /\ H["base_currency"] = Entry("base_currency", "USD")
  /\ H["opening_balance"] = Entry("opening_balance", s.opening)
  /\ H["closing_balance"] = Entry("closing_balance", s.closing)
  /\ H["transaction_count"] = Entry("transaction_count", Len(s.rows))

LEMMA BankParses ==
  ASSUME NEW s, NEW R, s.rows \in Seq(R), s.rows # <<>>
  PROVE  \E H : /\ BankHeaderOf(s, H)
               /\ Parse(RenderBank(s)) = BankOutcome(H, Rows("TRANSACTIONS", s.rows))
<1> DEFINE c == BankContent(s)
           d == RenderBank(s)
           lines == Text(d)
           H == RequireHeaderMap(lines)
<1>1. PICK n \in Nat : n = Len(s.rows)
  OBVIOUS
<1>2. /\ c \in Seq(ToSet(c)) /\ Len(c) = 13 + n
      /\ c[1] = Section("HEADER")
      /\ c[2] = Entry("statement_id", s.id) /\ c[3] = Entry("account_id", s.account)
      /\ c[4] = Entry("user_id", s.user) /\ c[5] = Entry("period_start", s.start)
      /\ c[6] = Entry("period_end", s.end) /\ c[7] = Entry("base_currency", "USD")
      /\ c[8] = Entry("opening_balance", s.opening)
      /\ c[9] = Entry("closing_balance", s.closing)
      /\ c[10] = Entry("transaction_count", n)
      /\ c[11] = Section("TRANSACTIONS") /\ c[12] = Columns("TRANSACTIONS")
      /\ \A i \in 1..n : c[12 + i] = Row("TRANSACTIONS", s.rows[i])
      /\ c[13 + n] = Section("END")
      /\ Sections(c) = {1, 11, 13 + n}
      /\ Unfurnished(c)
  <2> HIDE DEF c
  <2> QED BY <1>1, BankContentIs, Zenon DEF c
<1>3. d = Paginate(BANK_MARKER, c)
  BY Zenon DEF RenderBank, BankContent, BankEntries
<1> HIDE DEF c, d
<1>4. c # <<>>
  BY <1>2
<1>5. Prints(d, BANK_MARKER, ToSet(c), c)
  BY <1>2, <1>3, <1>4, PaginatePrints
<1>6. PICK S : lines \in Seq(S) /\ c \in Seq(S)
  BY <1>2, <1>4, <1>5, PrintsDetect
<1>7. /\ ~ Scanned(d)
      /\ \A l \in LinesOf(d) : l.kind \in Branded => l.marker = BANK_MARKER
      /\ Marked(LinesOf(d), BANK_MARKER)
      /\ \E l \in LinesOf(d) : l.kind \in Bannered
      /\ ToSet(c) \subseteq LinesOf(d)
  BY <1>2, <1>4, <1>5, PrintsDetect
<1>8. Continuous(d, BANK_MARKER) /\ Carries(lines, c)
  BY <1>5 DEF Prints
<1>9. DetectFormat(d) = BANK_MARKER
  <2>1. ~ Marked(LinesOf(d), BROKERAGE_MARKER)
    BY <1>7 DEF Marked, BANK_MARKER, BROKERAGE_MARKER
  <2>2. Section("HEADER") \in LinesOf(d) /\ Section("TRANSACTIONS") \in LinesOf(d)
    <3>1. 1 \in 1..Len(c) /\ 11 \in 1..Len(c)
      BY <1>2
    <3>2. c[1] \in ToSet(c) /\ c[11] \in ToSet(c)
      BY <3>1 DEF ToSet
    <3> QED BY <1>2, <1>7, <3>2
  <2>3. Sectioned(LinesOf(d), {"HEADER", "TRANSACTIONS"})
    BY <2>2 DEF Sectioned
  <2>4. ~ (\A l \in LinesOf(d) : l.kind \notin Bannered)
    BY <1>7
  <2> QED BY <1>7, <2>1, <2>3, <2>4, Zenon DEF DetectFormat
<1> HIDE DEF lines
<1>10. Parse(d) = ParseBank(d)
  <2>1. BANK_MARKER # "unknown"
    BY DEF BANK_MARKER
  <2> QED BY <1>7, <1>8, <1>9, <2>1, Zenon DEF Parse
<1>11. \A k \in 1..Len(c) : c[k].kind = "section" => k = 1 \/ k = 11 \/ k = 13 + n
  BY <1>2 DEF Sections
<1>12. SectionAt(c, "HEADER", 1, 11)
  <2>1. 1 \in 1..Len(c) /\ 11 \in 1..Len(c)
    BY <1>2
  <2>2. c[11].kind = "section" /\ c[11] # Section("HEADER")
    BY <1>2 DEF Section
  <2>3. ASSUME NEW k \in 1..Len(c), c[k] = Section("HEADER") PROVE k = 1
    <3>1. k = 1 \/ k = 11 \/ k = 13 + n
      BY <1>11, <2>3 DEF Section
    <3> QED BY <1>2, <2>3, <3>1 DEF Section
  <2>4. ASSUME NEW k \in 1..Len(c), 1 < k, k < 11 PROVE c[k].kind \notin Furniture \cup {"section"}
    <3>1. c[k].kind \notin Furniture
      BY <1>2 DEF Unfurnished
    <3>2. c[k].kind # "section"
      BY <1>11, <2>4
    <3> QED BY <3>1, <3>2
  <2> QED BY <1>2, <2>1, <2>2, <2>3, <2>4 DEF SectionAt
<1>13. TableAt(c, "TRANSACTIONS", 11, s.rows)
  <2>1. 11 \in 1..Len(c) /\ 13 + n \in 1..Len(c) /\ 11 < 13 + n
    BY <1>2
  <2>2. c[13 + n].kind = "section" /\ c[13 + n] # Section("TRANSACTIONS")
    BY <1>2 DEF Section
  <2>3. ASSUME NEW k \in 1..Len(c), c[k] = Section("TRANSACTIONS") PROVE k = 11
    <3>1. k = 1 \/ k = 11 \/ k = 13 + n
      BY <1>11, <2>3 DEF Section
    <3> QED BY <1>2, <2>3, <3>1 DEF Section
  <2>4. ASSUME NEW k \in 1..Len(c), 11 < k, k < 13 + n
        PROVE  c[k].kind \notin Furniture \cup {"section"}
    <3>1. c[k].kind \notin Furniture
      BY <1>2 DEF Unfurnished
    <3>2. c[k].kind # "section"
      BY <1>11, <2>4
    <3> QED BY <3>1, <3>2
  <2>5. SectionAt(c, "TRANSACTIONS", 11, 13 + n)
    BY <1>2, <2>1, <2>2, <2>3, <2>4 DEF SectionAt
  <2>6. 11 + Len(s.rows) + 2 = 13 + n
    BY <1>1
  <2>7. ASSUME NEW i \in 1..Len(s.rows) PROVE c[11 + 1 + i] = Row("TRANSACTIONS", s.rows[i])
    BY <1>1, <1>2
  <2>8. c[11 + 1] = Columns("TRANSACTIONS")
    BY <1>2
  <2> QED BY <2>5, <2>6, <2>7, <2>8 DEF TableAt
<1>14. HasTable(lines, "TRANSACTIONS") /\ TableRows(lines, "TRANSACTIONS") = Rows("TRANSACTIONS", s.rows)
  <2>1. 11 \in Nat /\ s.rows \in Seq(R)
    OBVIOUS
  <2> QED BY ONLY <1>6, <1>8, <1>13, <2>1, TableRead
<1>15. \A j \in 2..10 : /\ c[j].key \in DOMAIN H /\ H[c[j].key] = c[j]
  <2>1. ASSUME NEW k \in 2..10
        PROVE  k = 2 \/ k = 3 \/ k = 4 \/ k = 5 \/ k = 6 \/ k = 7 \/ k = 8 \/ k = 9 \/ k = 10
    OBVIOUS
  <2>2. /\ c[2].key = "statement_id" /\ c[3].key = "account_id" /\ c[4].key = "user_id"
        /\ c[5].key = "period_start" /\ c[6].key = "period_end" /\ c[7].key = "base_currency"
        /\ c[8].key = "opening_balance" /\ c[9].key = "closing_balance"
        /\ c[10].key = "transaction_count"
    BY <1>2 DEF Entry
  <2>3. ASSUME NEW j \in 2..10
        PROVE  /\ c[j].kind = "entry"
               /\ \A k \in 2..10 : c[k].kind = "entry" /\ c[k].key = c[j].key => k = j
    <3>1. c[j].kind = "entry"
      <4>1. /\ c[2].kind = "entry" /\ c[3].kind = "entry" /\ c[4].kind = "entry"
            /\ c[5].kind = "entry" /\ c[6].kind = "entry" /\ c[7].kind = "entry"
            /\ c[8].kind = "entry" /\ c[9].kind = "entry" /\ c[10].kind = "entry"
        BY <1>2 DEF Entry
      <4> QED BY <2>1, <4>1
    <3>2. ASSUME NEW k \in 2..10, c[k].key = c[j].key PROVE k = j
      BY <2>1, <2>2, <3>2
    <3> QED BY <3>1, <3>2
  <2>4. ASSUME NEW j \in 2..10 PROVE c[j].key \in DOMAIN H /\ H[c[j].key] = c[j]
    <3>0. (1 + 1)..(11 - 1) = 2..10
      OBVIOUS
    <3>1. OnlyEntry(c, 1, 11, j)
      BY <2>3, <3>0, Zenon DEF OnlyEntry
    <3> QED BY ONLY <1>6, <1>8, <1>12, <3>1, HeaderRead DEF H
  <2> QED BY <2>4
<1>16. BankHeaders \subseteq DOMAIN H /\ BankHeaderOf(s, H)
  <2> HIDE DEF H
  <2>1. /\ 2 \in 2..10 /\ 3 \in 2..10 /\ 4 \in 2..10 /\ 5 \in 2..10 /\ 6 \in 2..10
        /\ 7 \in 2..10 /\ 8 \in 2..10 /\ 9 \in 2..10 /\ 10 \in 2..10
    OBVIOUS
  <2>2. "statement_id" \in DOMAIN H /\ H["statement_id"] = Entry("statement_id", s.id)
    <3>1. c[2] = Entry("statement_id", s.id)
      BY <1>2, Zenon
    <3>2. c[2].key = "statement_id"
      BY ONLY <3>1 DEF Entry
    <3> QED BY <1>15, <2>1, <3>1, <3>2, Zenon
  <2>3. "account_id" \in DOMAIN H /\ H["account_id"] = Entry("account_id", s.account)
    <3>1. c[3] = Entry("account_id", s.account)
      BY <1>2, Zenon
    <3>2. c[3].key = "account_id"
      BY ONLY <3>1 DEF Entry
    <3> QED BY <1>15, <2>1, <3>1, <3>2, Zenon
  <2>4. "user_id" \in DOMAIN H /\ H["user_id"] = Entry("user_id", s.user)
    <3>1. c[4] = Entry("user_id", s.user)
      BY <1>2, Zenon
    <3>2. c[4].key = "user_id"
      BY ONLY <3>1 DEF Entry
    <3> QED BY <1>15, <2>1, <3>1, <3>2, Zenon
  <2>5. "period_start" \in DOMAIN H /\ H["period_start"] = Entry("period_start", s.start)
    <3>1. c[5] = Entry("period_start", s.start)
      BY <1>2, Zenon
    <3>2. c[5].key = "period_start"
      BY ONLY <3>1 DEF Entry
    <3> QED BY <1>15, <2>1, <3>1, <3>2, Zenon
  <2>6. "period_end" \in DOMAIN H /\ H["period_end"] = Entry("period_end", s.end)
    <3>1. c[6] = Entry("period_end", s.end)
      BY <1>2, Zenon
    <3>2. c[6].key = "period_end"
      BY ONLY <3>1 DEF Entry
    <3> QED BY <1>15, <2>1, <3>1, <3>2, Zenon
  <2>7. "base_currency" \in DOMAIN H /\ H["base_currency"] = Entry("base_currency", "USD")
    <3>1. c[7] = Entry("base_currency", "USD")
      BY <1>2, Zenon
    <3>2. c[7].key = "base_currency"
      BY ONLY <3>1 DEF Entry
    <3> QED BY <1>15, <2>1, <3>1, <3>2, Zenon
  <2>8. "opening_balance" \in DOMAIN H /\ H["opening_balance"] = Entry("opening_balance", s.opening)
    <3>1. c[8] = Entry("opening_balance", s.opening)
      BY <1>2, Zenon
    <3>2. c[8].key = "opening_balance"
      BY ONLY <3>1 DEF Entry
    <3> QED BY <1>15, <2>1, <3>1, <3>2, Zenon
  <2>9. "closing_balance" \in DOMAIN H /\ H["closing_balance"] = Entry("closing_balance", s.closing)
    <3>1. c[9] = Entry("closing_balance", s.closing)
      BY <1>2, Zenon
    <3>2. c[9].key = "closing_balance"
      BY ONLY <3>1 DEF Entry
    <3> QED BY <1>15, <2>1, <3>1, <3>2, Zenon
  <2>10. "transaction_count" \in DOMAIN H /\ H["transaction_count"] = Entry("transaction_count", n)
    <3>1. c[10] = Entry("transaction_count", n)
      BY <1>2, Zenon
    <3>2. c[10].key = "transaction_count"
      BY ONLY <3>1 DEF Entry
    <3> QED BY <1>15, <2>1, <3>1, <3>2, Zenon
  <2> QED BY <1>1, <2>2, <2>3, <2>4, <2>5, <2>6, <2>7, <2>8, <2>9, <2>10
          DEF BankHeaders, CommonHeaders, BankHeaderOf
<1>17. ParseBank(d) = BankOutcome(H, TableRows(lines, "TRANSACTIONS"))
  BY <1>14, <1>16, ParseBankIs, Zenon DEF H, lines
<1>18. ParseBank(d) = BankOutcome(H, Rows("TRANSACTIONS", s.rows))
  BY <1>14, <1>17, Zenon
<1> HIDE DEF H
<1> QED
  BY <1>10, <1>16, <1>18, Zenon DEF d

LEMMA BankReads ==
  ASSUME NEW s, NEW R, s.rows \in Seq(R), s.rows # <<>>,
         s = [id |-> s.id, account |-> s.account, user |-> s.user, start |-> s.start,
              end |-> s.end, opening |-> s.opening, closing |-> s.closing, rows |-> s.rows],
         \A i \in 1..Len(s.rows) :
           BankRowFault(Row("TRANSACTIONS", s.rows[i]),
                        IF i = 1 THEN s.opening ELSE s.rows[i - 1].balance, FALSE) = "none",
         s.rows[Len(s.rows)].balance = s.closing
  PROVE  Parse(RenderBank(s)) = Parsed(s)
<1>1. PICK H : /\ BankHeaderOf(s, H)
               /\ Parse(RenderBank(s)) = BankOutcome(H, Rows("TRANSACTIONS", s.rows))
  BY BankParses, Zenon
<1>2. PICK n \in Nat : n = Len(s.rows) /\ DOMAIN s.rows = 1..n /\ n # 0
  OBVIOUS
<1> DEFINE listed == Rows("TRANSACTIONS", s.rows)
<1>3. /\ Cells(listed) = s.rows /\ DOMAIN listed = 1..n /\ Len(listed) = n
      /\ \A i \in 1..n : listed[i] = Row("TRANSACTIONS", s.rows[i])
  BY <1>2, CellsOfRows
<1>4. \A k \in BankHeaders : H[k].fault = "none"
  BY <1>1 DEF BankHeaderOf, Entry, BankHeaders, CommonHeaders
<1>5. /\ H["statement_id"].value = s.id /\ H["account_id"].value = s.account
      /\ H["user_id"].value = s.user /\ H["period_start"].value = s.start
      /\ H["period_end"].value = s.end /\ H["opening_balance"].value = s.opening
      /\ H["closing_balance"].value = s.closing /\ H["transaction_count"].value = n
  BY <1>1, <1>2 DEF BankHeaderOf, Entry
<1> HIDE DEF listed
<1>6. \A i \in 1..n : Fits(listed[i], "TRANSACTIONS")
  BY <1>3 DEF Fits, Row
<1>7. ASSUME NEW i \in 1..n PROVE BankFaultAt(listed, H["opening_balance"], i) = "none"
  <2>1. H["opening_balance"].fault = "none"
    BY <1>4 DEF BankHeaders
  <2>2. H["opening_balance"].fault # "nan"
    BY <2>1
  <2>3. CASE i = 1
    BY <1>2, <1>3, <1>5, <2>2, <2>3 DEF BankFaultAt
  <2>4. CASE i # 1
    <3>1. i - 1 \in 1..n
      BY <2>4
    <3>2. listed[i - 1].cells = s.rows[i - 1]
      BY <1>3, <3>1 DEF Row
    <3> QED BY <1>2, <1>3, <2>4, <3>2 DEF BankFaultAt
  <2> QED BY <2>3, <2>4
<1>8. BankTableFault(listed, H["opening_balance"]) = "none"
  <2> DEFINE fitting == {i \in DOMAIN listed : \A j \in 1..i : Fits(listed[j], "TRANSACTIONS")}
  <2>1. fitting = DOMAIN listed
    <3>1. ASSUME NEW i \in 1..n, NEW j \in 1..i PROVE Fits(listed[j], "TRANSACTIONS")
      <4>1. j \in 1..n
        OBVIOUS
      <4> QED BY <1>6, <4>1
    <3> QED BY <1>3, <3>1, Zenon
  <2>2. {i \in fitting : BankFaultAt(listed, H["opening_balance"], i) # "none"} = {}
    BY <1>3, <1>7, <2>1, Zenon
  <2> QED BY <2>1, <2>2, Zenon DEF BankTableFault
<1>9. ~ BankClosingFails(listed, H["opening_balance"], H["closing_balance"])
  <2>1. H["opening_balance"].fault = "none" /\ H["closing_balance"].fault = "none"
    BY <1>4 DEF BankHeaders
  <2>2. n \in 1..n /\ listed # <<>>
    BY <1>2, <1>3
  <2>3. listed[n].cells = s.rows[n]
    BY <1>3, <2>2 DEF Row
  <2> QED BY <1>2, <1>3, <1>5, <2>1, <2>2, <2>3 DEF BankClosingFails
<1>10. IdentityFault(H, BankKeys) = "none"
  <2>1. BankKeys \in Seq({"account_id", "user_id"})
    BY DEF BankKeys
  <2>2. \A k \in {"account_id", "user_id"} \cup {"period_start", "period_end", "base_currency"} :
          H[k].fault = "none"
    BY <1>4 DEF BankHeaders, CommonHeaders
  <2> QED BY ONLY <2>1, <2>2, IdentityIsRead
<1>11. BankRead(H, listed) = s
  BY <1>3, <1>5, Zenon DEF BankRead
<1>12. BankOutcome(H, listed) = Parsed(s)
  <2>1. H["transaction_count"].fault = "none"
    BY <1>4 DEF BankHeaders
  <2>2. \A l \in {H["opening_balance"], H["closing_balance"], H["base_currency"]} :
          l.fault \notin Caught
    BY <1>4 DEF BankHeaders, CommonHeaders, Caught
  <2> QED BY <1>3, <1>5, <1>8, <1>9, <1>10, <1>11, <2>1, <2>2, Zenon DEF BankOutcome
<1> QED
  BY <1>1, <1>12, Zenon DEF listed
LEMMA LeastOf ==
  ASSUME NEW T \in SUBSET Nat, T # {}
  PROVE  Min(T) \in T
<1>1. PICK m \in T : \A n \in T : m <= n
  BY LeastNatural
<1> QED
  BY <1>1, Zenon DEF Min

\* The page a row of a bank statement is attributed to shows the row.
LEMMA BankPlaces ==
  ASSUME NEW s, NEW R, s.rows \in Seq(R),
         \A i, j \in 1..Len(s.rows) : s.rows[i].id = s.rows[j].id => i = j,
         NEW i \in 1..Len(s.rows)
  PROVE  Row("TRANSACTIONS", s.rows[i])
           \in ToSet(RenderBank(s)[LineSourcePage(RenderBank(s), s.rows[i].id)])
<1> DEFINE c == BankContent(s)
           d == RenderBank(s)
           id == s.rows[i].id
           line == Row("TRANSACTIONS", s.rows[i])
           shown == {p \in DOMAIN d : \E l \in ToSet(d[p]) : l.kind = "row" /\ l.cells.id = id}
<1>1. PICK n \in Nat : n = Len(s.rows)
  OBVIOUS
<1>2. /\ c \in Seq(ToSet(c)) /\ Len(c) = 13 + n
      /\ c[1] = Section("HEADER")
      /\ c[2] = Entry("statement_id", s.id) /\ c[3] = Entry("account_id", s.account)
      /\ c[4] = Entry("user_id", s.user) /\ c[5] = Entry("period_start", s.start)
      /\ c[6] = Entry("period_end", s.end) /\ c[7] = Entry("base_currency", "USD")
      /\ c[8] = Entry("opening_balance", s.opening)
      /\ c[9] = Entry("closing_balance", s.closing)
      /\ c[10] = Entry("transaction_count", n)
      /\ c[11] = Section("TRANSACTIONS") /\ c[12] = Columns("TRANSACTIONS")
      /\ \A k \in 1..n : c[12 + k] = Row("TRANSACTIONS", s.rows[k])
      /\ c[13 + n] = Section("END")
      /\ Unfurnished(c)
  <2> HIDE DEF c
  <2> QED BY <1>1, BankContentIs, Zenon DEF c
<1>3. d = Paginate(BANK_MARKER, c)
  BY Zenon DEF RenderBank, BankContent, BankEntries
<1> HIDE DEF c, d
<1>4. c # <<>>
  BY <1>2
<1>5. Prints(d, BANK_MARKER, ToSet(c), c)
  BY <1>2, <1>3, <1>4, PaginatePrints
<1>6. ToSet(c) \subseteq LinesOf(d)
  BY <1>2, <1>4, <1>5, PrintsDetect
<1>7. line.kind = "row" /\ line.cells = s.rows[i]
  BY DEF Row
<1>8. line \in ToSet(c)
  <2>1. 12 + i \in 1..Len(c) /\ c[12 + i] = line
    BY <1>1, <1>2
  <2> QED BY <2>1 DEF ToSet
<1> HIDE DEF line
<1>9. shown # {}
  <2>1. PICK p \in DOMAIN d : line \in ToSet(d[p])
    BY <1>6, <1>8, Zenon DEF LinesOf
  <2> QED BY <1>7, <2>1
<1>10. shown \in SUBSET Nat
  <2>1. DOMAIN d = 1..Len(d) /\ Len(d) \in Nat
    BY <1>5 DEF Prints
  <2> QED BY <2>1
<1>11. LineSourcePage(d, id) = Min(shown)
  BY <1>9, Zenon DEF LineSourcePage
<1>12. Min(shown) \in shown
  <2> HIDE DEF shown
  <2> QED BY <1>9, <1>10, LeastOf
<1>13. PICK p \in DOMAIN d : /\ p = LineSourcePage(d, id)
                             /\ \E l \in ToSet(d[p]) : l.kind = "row" /\ l.cells.id = id
  BY <1>11, <1>12, Zenon
<1>14. PICK l \in ToSet(d[p]) : l.kind = "row" /\ l.cells.id = id
  BY <1>13
<1>15. l \in ToSet(c)
  <2>1. l \in ToSet(c) \cup FurnitureOf(BANK_MARKER)
    BY <1>5, <1>14 DEF Prints
  <2>2. l \notin FurnitureOf(BANK_MARKER)
    <3>1. "row" \notin Furniture
      BY DEF Furniture
    <3> QED BY <1>14, <3>1, FurnitureKinds
  <2> QED BY <2>1, <2>2
<1>16. PICK k \in 1..(13 + n) : l = c[k]
  BY <1>2, <1>15 DEF ToSet
<1>17. \E j \in 1..n : l = Row("TRANSACTIONS", s.rows[j])
  <2>1. ASSUME k < 13 \/ k = 13 + n PROVE FALSE
    <3>1. k = 1 \/ k = 2 \/ k = 3 \/ k = 4 \/ k = 5 \/ k = 6 \/ k = 7 \/ k = 8 \/ k = 9 \/ k = 10
          \/ k = 11 \/ k = 12 \/ k = 13 + n
      BY <2>1
    <3>2. /\ c[1].kind = "section" /\ c[2].kind = "entry" /\ c[3].kind = "entry"
          /\ c[4].kind = "entry" /\ c[5].kind = "entry" /\ c[6].kind = "entry"
          /\ c[7].kind = "entry" /\ c[8].kind = "entry" /\ c[9].kind = "entry"
          /\ c[10].kind = "entry" /\ c[11].kind = "section" /\ c[12].kind = "columns"
          /\ c[13 + n].kind = "section"
      BY <1>2 DEF Entry, Section, Columns
    <3> QED BY <1>14, <1>16, <3>1, <3>2
  <2>2. k - 12 \in 1..n /\ 12 + (k - 12) = k
    BY <2>1
  <2>3. c[12 + (k - 12)] = Row("TRANSACTIONS", s.rows[k - 12])
    BY <1>2, <2>2
  <2>4. l = Row("TRANSACTIONS", s.rows[k - 12])
    BY <1>16, <2>2, <2>3
  <2> QED BY <2>2, <2>4
<1>18. PICK j \in 1..n : l = Row("TRANSACTIONS", s.rows[j])
  BY <1>17
<1>19. l.cells = s.rows[j]
  BY <1>18 DEF Row
<1>20. j = i
  BY <1>1, <1>14, <1>19
<1>21. l = line
  BY <1>18, <1>20, Zenon DEF line
<1> QED
  BY <1>13, <1>14, <1>21, Zenon DEF d, line

---------------------------------------------------------------------------
(* A brokerage statement as it is printed.                                 *)

Begins(c, d) == Len(c) <= Len(d) /\ \A k \in 1..Len(c) : d[k] = c[k]

LEMMA BeginsOn ==
  ASSUME NEW c, NEW d, NEW e, Len(c) \in Nat, Len(d) \in Nat, Len(e) \in Nat,
         Begins(c, d), Begins(d, e)
  PROVE  Begins(c, e)
<1>1. /\ Len(c) <= Len(d) /\ \A k \in 1..Len(c) : d[k] = c[k]
      /\ Len(d) <= Len(e) /\ \A k \in 1..Len(d) : e[k] = d[k]
  BY DEF Begins
<1>2. ASSUME NEW k \in 1..Len(c) PROVE e[k] = c[k]
  <2>1. k \in 1..Len(d)
    BY <1>1
  <2> QED BY <1>1, <2>1
<1>3. Len(c) <= Len(e)
  BY <1>1
<1> QED
  BY <1>2, <1>3 DEF Begins

\* A table among other sections.
LEMMA TableStays ==
  ASSUME NEW S, NEW c, NEW name, NEW records, NEW d, TableJoined(S, c, name, records, d),
         Len(c) \in Nat, Len(records) \in Nat,
         NEW f, Len(f) \in Nat, Begins(d, f), Unfurnished(f),
         NEW next \in Sections(f), next = Len(d) + 1, f[next] # Section(name),
         \A k \in Sections(f) : f[k] = Section(name) => k = Len(c) + 1,
         \A k \in Sections(f) : k <= Len(c) + 1 \/ next <= k
  PROVE  TableAt(f, name, Len(c) + 1, records)
<1>1. PICK m \in Nat, n \in Nat : m = Len(c) /\ n = Len(records)
  OBVIOUS
<1>2. /\ Len(d) = m + 2 + n
      /\ d[m + 1] = Section(name) /\ d[m + 2] = Columns(name)
      /\ \A i \in 1..n : d[m + 2 + i] = Row(name, records[i])
  BY <1>1 DEF TableJoined
<1>3. next = m + 3 + n /\ next \in 1..Len(f) /\ f[next].kind = "section"
  BY <1>1, <1>2 DEF Sections
<1>4. \A k \in 1..(m + 2 + n) : f[k] = d[k] /\ k \in 1..Len(f)
  BY <1>1, <1>2, <1>3 DEF Begins
<1>5. f[m + 1] = Section(name) /\ m + 1 \in 1..Len(f)
  BY <1>2, <1>4
<1>6. f[m + 2] = Columns(name)
  BY <1>2, <1>4
<1>7. ASSUME NEW i \in 1..n PROVE f[m + 2 + i] = Row(name, records[i])
  BY <1>2, <1>4
<1>8. ASSUME NEW k \in 1..Len(f), f[k] = Section(name) PROVE k = m + 1
  <2>1. k \in Sections(f)
    BY <1>8 DEF Sections, Section
  <2> QED BY <1>1, <1>8, <2>1
<1>9. ASSUME NEW k \in 1..Len(f), m + 1 < k, k < m + 3 + n
      PROVE  f[k].kind \notin Furniture \cup {"section"}
  <2>1. f[k].kind \notin Furniture
    BY DEF Unfurnished
  <2>2. k \notin Sections(f)
    BY <1>1, <1>3, <1>9
  <2>3. f[k].kind # "section"
    BY <2>2 DEF Sections
  <2> QED BY <2>1, <2>3
<1>10. SectionAt(f, name, m + 1, m + 3 + n)
  <2>1. m + 1 < m + 3 + n /\ m + 3 + n \in 1..Len(f)
    BY <1>3
  <2>2. f[m + 3 + n].kind = "section" /\ f[m + 3 + n] # Section(name)
    BY <1>3
  <2> QED BY <1>5, <1>8, <1>9, <2>1, <2>2 DEF SectionAt
<1>11. (m + 1) + Len(records) + 2 = m + 3 + n
  BY <1>1
<1>12. f[(m + 1) + 1] = Columns(name)
  BY <1>6
<1>13. ASSUME NEW i \in 1..Len(records) PROVE f[(m + 1) + 1 + i] = Row(name, records[i])
  BY <1>1, <1>7
<1>14. TableAt(f, name, m + 1, records)
  BY <1>10, <1>11, <1>12, <1>13 DEF TableAt
<1> QED
  BY <1>1, <1>14

BrokerageEntries(s) == <<Entry("portfolio_id", s.account), Entry("taxable", TRUE)>>
PrintedLots(s) == [i \in DOMAIN s.lots |-> LotCells(s.lots[i])]
SummaryEntries(s) == [i \in DOMAIN Summary |-> Entry(Summary[i], s.realized[Summary[i]])]
BrokerageContent(s) ==
  <<Section("HEADER")>> \o Identity(s) \o BrokerageEntries(s)
    \o Table("HOLDINGS", s.holdings) \o Table("TAX_LOTS", PrintedLots(s))
    \o Table("SALES", s.sales) \o Table("DIVIDENDS", s.dividends)
    \o Table("PURCHASES", s.purchases) \o <<Section("REALIZED_SUMMARY")>>
    \o SummaryEntries(s) \o <<Section("END")>>

LEMMA SummaryIs ==
  ASSUME NEW s
  PROVE  /\ SummaryEntries(s) \in Seq(ToSet(SummaryEntries(s))) /\ Len(SummaryEntries(s)) = 7
         /\ \A i \in 1..7 : SummaryEntries(s)[i] = Entry(Summary[i], s.realized[Summary[i]])
<1> DEFINE t == SummaryEntries(s)
<1>1. DOMAIN Summary = 1..7
  BY DEF Summary
<1>2. t = [i \in 1..7 |-> Entry(Summary[i], s.realized[Summary[i]])]
  BY <1>1, Zenon DEF SummaryEntries
<1> HIDE DEF t
<1>3. \A i \in 1..7 : t[i] = Entry(Summary[i], s.realized[Summary[i]])
  BY <1>2, Zenon
<1>4. t \in Seq({t[i] : i \in 1..7}) /\ Len(t) = 7
  BY <1>2
<1>5. t \in Seq(ToSet(t))
  <2>1. \A i \in 1..Len(t) : t[i] \in ToSet(t)
    BY <1>4 DEF ToSet
  <2> QED BY <1>4, <2>1
<1> QED
  BY <1>3, <1>4, <1>5 DEF t

LEMMA LinesAre ==
  ASSUME NEW S, NEW c \in Seq(S)
  PROVE  c \in Seq(ToSet(c)) /\ Len(c) \in Nat
<1>1. \A i \in 1..Len(c) : c[i] \in ToSet(c)
  BY DEF ToSet
<1> QED
  BY <1>1

\* Some lines, and the marker of a further section after them.
Marks(c, name, all) ==
  /\ all \in Seq(ToSet(all)) /\ Len(all) \in Nat /\ Unfurnished(all)
  /\ Begins(c, all) /\ Len(c) < Len(all)
  /\ all[Len(c) + 1] = Section(name)
  /\ Sections(all) = Sections(c) \cup {Len(c) + 1}

LEMMA BeginsAt ==
  ASSUME NEW c, NEW d, Begins(c, d), NEW k \in 1..Len(c)
  PROVE  d[k] = c[k]
BY DEF Begins

LEMMA MarkStays ==
  ASSUME NEW c, NEW name, NEW d, Marks(c, name, d), Len(c) \in Nat, NEW f, Begins(d, f)
  PROVE  f[Len(c) + 1] = Section(name)
<1>1. /\ d[Len(c) + 1] = Section(name) /\ Len(d) \in Nat /\ Len(c) < Len(d)
  BY DEF Marks
<1>2. Len(c) + 1 \in 1..Len(d)
  BY <1>1
<1> QED
  BY <1>1, <1>2, BeginsAt

LEMMA NextTable ==
  ASSUME NEW c, c \in Seq(ToSet(c)), Unfurnished(c), NEW name, NEW R, NEW records \in Seq(R)
  PROVE  LET all == c \o Table(name, records)
         IN  /\ Marks(c, name, all) /\ TableJoined(ToSet(c), c, name, records, all)
             /\ Len(all) = Len(c) + 2 + Len(records)
<1> DEFINE all == c \o Table(name, records)
<1>1. TableJoined(ToSet(c), c, name, records, all)
  BY TableJoins
<1> HIDE DEF all
<1>2. Len(c) \in Nat /\ Len(records) \in Nat
  OBVIOUS
<1>3. all \in Seq(ToSet(all)) /\ Len(all) \in Nat
  <2>1. PICK S : all \in Seq(S)
    BY <1>1, Zenon DEF TableJoined
  <2> QED BY <2>1, LinesAre
<1>4. /\ Len(all) = Len(c) + 2 + Len(records) /\ \A k \in 1..Len(c) : all[k] = c[k]
      /\ all[Len(c) + 1] = Section(name)
      /\ Sections(all) = Sections(c) \cup {Len(c) + 1} /\ Unfurnished(all)
  BY <1>1, Zenon DEF TableJoined
<1>5. Begins(c, all) /\ Len(c) < Len(all)
  BY <1>2, <1>4 DEF Begins
<1> QED
  BY <1>1, <1>3, <1>4, <1>5, Zenon DEF Marks, all

LEMMA NextMarker ==
  ASSUME NEW c, c \in Seq(ToSet(c)), Unfurnished(c), NEW name
  PROVE  LET all == c \o <<Section(name)>>
         IN  Marks(c, name, all) /\ Len(all) = Len(c) + 1
<1> DEFINE all == c \o <<Section(name)>>
           S == ToSet(c) \cup {Section(name)}
<1>1. c \in Seq(S) /\ Section(name) \in S
  OBVIOUS
<1> HIDE DEF S
<1>2. /\ all \in Seq(S) /\ Len(all) = Len(c) + 1
      /\ \A k \in 1..Len(c) : all[k] = c[k]
      /\ all[Len(c) + 1] = Section(name)
      /\ Sections(all) = Sections(c) \cup {Len(c) + 1}
      /\ Unfurnished(all)
  BY <1>1, MarkerJoins
<1> HIDE DEF all
<1>3. all \in Seq(ToSet(all)) /\ Len(all) \in Nat
  BY <1>2, LinesAre
<1>4. Begins(c, all) /\ Len(c) < Len(all)
  BY <1>2 DEF Begins
<1> QED
  BY <1>2, <1>3, <1>4, Zenon DEF Marks, all

\* A brokerage statement as its sections lie in its content.
SummaryAt(s, c, a) ==
  /\ SectionAt(c, "REALIZED_SUMMARY", a, a + 8)
  /\ \A i \in 1..7 : c[a + i] = Entry(Summary[i], s.realized[Summary[i]])
BrokerageLies(s, c) ==
  /\ c \in Seq(ToSet(c)) /\ c # <<>> /\ Unfurnished(c)
  /\ c[2] = Entry("statement_id", s.id) /\ c[3] = Entry("account_id", s.account)
  /\ c[4] = Entry("user_id", s.user) /\ c[5] = Entry("period_start", s.start)
  /\ c[6] = Entry("period_end", s.end) /\ c[7] = Entry("base_currency", "USD")
  /\ c[8] = Entry("portfolio_id", s.account) /\ c[9] = Entry("taxable", TRUE)
  /\ SectionAt(c, "HEADER", 1, 10)
  /\ \E a \in Nat : TableAt(c, "HOLDINGS", a, s.holdings)
  /\ \E a \in Nat : TableAt(c, "TAX_LOTS", a, PrintedLots(s))
  /\ \E a \in Nat : TableAt(c, "SALES", a, s.sales)
  /\ \E a \in Nat : TableAt(c, "DIVIDENDS", a, s.dividends)
  /\ \E a \in Nat : TableAt(c, "PURCHASES", a, s.purchases)
  /\ \E a \in Nat : SummaryAt(s, c, a)

LEMMA BrokerageContentLies ==
  ASSUME NEW s, NEW R, s.holdings \in Seq(R), PrintedLots(s) \in Seq(R), s.sales \in Seq(R),
         s.dividends \in Seq(R), s.purchases \in Seq(R)
  PROVE  BrokerageLies(s, BrokerageContent(s))
<1> DEFINE E == BrokerageEntries(s)
           sum == SummaryEntries(s)
           c1 == <<Section("HEADER")>> \o Identity(s) \o E
           c2 == c1 \o Table("HOLDINGS", s.holdings)
           c3 == c2 \o Table("TAX_LOTS", PrintedLots(s))
           c4 == c3 \o Table("SALES", s.sales)
           c5 == c4 \o Table("DIVIDENDS", s.dividends)
           c6 == c5 \o Table("PURCHASES", s.purchases)
           c7 == c6 \o <<Section("REALIZED_SUMMARY")>>
           c8 == c7 \o sum
           c9 == c8 \o <<Section("END")>>
<1>0. c9 = BrokerageContent(s)
  BY Zenon DEF BrokerageContent
<1>1. /\ c1 \in Seq(ToSet(c1)) /\ Len(c1) = 9 /\ c1[1] = Section("HEADER")
      /\ c1[2] = Entry("statement_id", s.id) /\ c1[3] = Entry("account_id", s.account)
      /\ c1[4] = Entry("user_id", s.user) /\ c1[5] = Entry("period_start", s.start)
      /\ c1[6] = Entry("period_end", s.end) /\ c1[7] = Entry("base_currency", "USD")
      /\ c1[8] = Entry("portfolio_id", s.account) /\ c1[9] = Entry("taxable", TRUE)
      /\ Sections(c1) = {1} /\ Unfurnished(c1)
  <2> DEFINE U == {Entry("portfolio_id", s.account), Entry("taxable", TRUE)}
  <2>1. E \in Seq(U)
    BY DEF BrokerageEntries
  <2>2. Len(E) = 2 /\ E[1] = Entry("portfolio_id", s.account) /\ E[2] = Entry("taxable", TRUE)
    BY DEF BrokerageEntries
  <2>3. \A k \in 1..Len(E) : E[k].kind = "entry"
    <3>1. \A k \in 1..2 : k = 1 \/ k = 2
      OBVIOUS
    <3> HIDE DEF E
    <3> QED BY <2>2, <3>1 DEF Entry
  <2> HIDE DEF U, E
  <2>4. PICK T :
          /\ c1 \in Seq(T) /\ Len(c1) = 7 + Len(E)
          /\ c1[1] = Section("HEADER")
          /\ c1[2] = Entry("statement_id", s.id) /\ c1[3] = Entry("account_id", s.account)
          /\ c1[4] = Entry("user_id", s.user) /\ c1[5] = Entry("period_start", s.start)
          /\ c1[6] = Entry("period_end", s.end) /\ c1[7] = Entry("base_currency", "USD")
          /\ \A k \in 1..Len(E) : c1[7 + k] = E[k]
          /\ Sections(c1) = {1}
          /\ Unfurnished(c1)
    BY <2>1, <2>3, HeadIs
  <2> HIDE DEF c1
  <2>5. c1[8] = E[1] /\ c1[9] = E[2] /\ Len(c1) = 9
    <3>1. 1 \in 1..Len(E) /\ 2 \in 1..Len(E)
      BY <2>2
    <3>2. c1[7 + 1] = E[1] /\ c1[7 + 2] = E[2]
      BY ONLY <2>4, <3>1
    <3>3. Len(c1) = 7 + Len(E)
      BY <2>4
    <3>4. 7 + 1 = 8 /\ 7 + 2 = 9
      BY ONLY TRUE
    <3> QED BY <2>2, <3>2, <3>3, <3>4, Zenon
  <2>6. c1 \in Seq(ToSet(c1))
    BY <2>4, LinesAre
  <2>7. c1[8] = Entry("portfolio_id", s.account) /\ c1[9] = Entry("taxable", TRUE)
    BY <2>2, <2>5, Zenon
  <2> QED BY <2>4, <2>5, <2>6, <2>7, Zenon
<1> HIDE DEF E, c1
<1>2. /\ Marks(c1, "HOLDINGS", c2) /\ TableJoined(ToSet(c1), c1, "HOLDINGS", s.holdings, c2)
      /\ Len(c2) = Len(c1) + 2 + Len(s.holdings)
  <2>1. c1 \in Seq(ToSet(c1)) /\ Unfurnished(c1)
    BY <1>1
  <2> QED BY <2>1, NextTable
<1> HIDE DEF c2
<1>3. /\ Marks(c2, "TAX_LOTS", c3) /\ TableJoined(ToSet(c2), c2, "TAX_LOTS", PrintedLots(s), c3)
      /\ Len(c3) = Len(c2) + 2 + Len(PrintedLots(s))
  <2>1. c2 \in Seq(ToSet(c2)) /\ Unfurnished(c2)
    BY <1>2 DEF Marks
  <2> QED BY <2>1, NextTable
<1> HIDE DEF c3
<1>4. /\ Marks(c3, "SALES", c4) /\ TableJoined(ToSet(c3), c3, "SALES", s.sales, c4)
      /\ Len(c4) = Len(c3) + 2 + Len(s.sales)
  <2>1. c3 \in Seq(ToSet(c3)) /\ Unfurnished(c3)
    BY <1>3 DEF Marks
  <2> QED BY <2>1, NextTable
<1> HIDE DEF c4
<1>5. /\ Marks(c4, "DIVIDENDS", c5) /\ TableJoined(ToSet(c4), c4, "DIVIDENDS", s.dividends, c5)
      /\ Len(c5) = Len(c4) + 2 + Len(s.dividends)
  <2>1. c4 \in Seq(ToSet(c4)) /\ Unfurnished(c4)
    BY <1>4 DEF Marks
  <2> QED BY <2>1, NextTable
<1> HIDE DEF c5
<1>6. /\ Marks(c5, "PURCHASES", c6) /\ TableJoined(ToSet(c5), c5, "PURCHASES", s.purchases, c6)
      /\ Len(c6) = Len(c5) + 2 + Len(s.purchases)
  <2>1. c5 \in Seq(ToSet(c5)) /\ Unfurnished(c5)
    BY <1>5 DEF Marks
  <2> QED BY <2>1, NextTable
<1> HIDE DEF c6
<1>7. Marks(c6, "REALIZED_SUMMARY", c7) /\ Len(c7) = Len(c6) + 1
  <2>1. c6 \in Seq(ToSet(c6)) /\ Unfurnished(c6)
    BY <1>6 DEF Marks
  <2> QED BY <2>1, NextMarker
<1> HIDE DEF c7
<1>8. /\ sum \in Seq(ToSet(sum)) /\ Len(sum) = 7
      /\ \A i \in 1..7 : sum[i] = Entry(Summary[i], s.realized[Summary[i]])
  BY SummaryIs
<1> HIDE DEF sum
<1>9. /\ c8 \in Seq(ToSet(c8)) /\ Len(c8) = Len(c7) + 7
      /\ Begins(c7, c8)
      /\ \A k \in 1..7 : c8[Len(c7) + k] = sum[k]
      /\ Sections(c8) = Sections(c7) /\ Unfurnished(c8)
  <2> DEFINE T == ToSet(c7) \cup ToSet(sum)
  <2>1. c7 \in Seq(ToSet(c7)) /\ Unfurnished(c7) /\ Len(c7) \in Nat
    BY <1>7 DEF Marks
  <2>2. c7 \in Seq(T) /\ sum \in Seq(T)
    BY <1>8, <2>1
  <2>3. \A k \in 1..Len(sum) : sum[k].kind = "entry"
    BY <1>8 DEF Entry
  <2> HIDE DEF T
  <2>4. /\ c8 \in Seq(T) /\ Len(c8) = Len(c7) + Len(sum)
        /\ \A k \in 1..Len(c7) : c8[k] = c7[k]
        /\ \A k \in 1..Len(sum) : c8[Len(c7) + k] = sum[k]
        /\ Sections(c8) = Sections(c7)
        /\ Unfurnished(c8)
    BY <2>1, <2>2, <2>3, EntriesJoin
  <2> HIDE DEF c8
  <2>5. c8 \in Seq(ToSet(c8))
    BY <2>4, LinesAre
  <2>6. Begins(c7, c8)
    BY <1>8, <2>1, <2>4 DEF Begins
  <2> QED BY <1>8, <2>4, <2>5, <2>6
<1> HIDE DEF c8
<1>10. Marks(c8, "END", c9) /\ Len(c9) = Len(c8) + 1
  BY <1>9, NextMarker
<1> HIDE DEF c9
<1>11. /\ Len(c1) \in Nat /\ Len(c2) \in Nat /\ Len(c3) \in Nat /\ Len(c4) \in Nat
       /\ Len(c5) \in Nat /\ Len(c6) \in Nat /\ Len(c7) \in Nat /\ Len(c8) \in Nat
       /\ Len(c9) \in Nat
       /\ Len(s.holdings) \in Nat /\ Len(PrintedLots(s)) \in Nat /\ Len(s.sales) \in Nat
       /\ Len(s.dividends) \in Nat /\ Len(s.purchases) \in Nat
  <2>1. Len(c1) \in Nat /\ Len(c8) \in Nat
    BY <1>1, <1>9, LinesAre
  <2>2. /\ Len(c2) \in Nat /\ Len(c3) \in Nat /\ Len(c4) \in Nat /\ Len(c5) \in Nat
        /\ Len(c6) \in Nat /\ Len(c7) \in Nat /\ Len(c9) \in Nat
    BY <1>2, <1>3, <1>4, <1>5, <1>6, <1>7, <1>10, Zenon DEF Marks
  <2>3. /\ Len(s.holdings) \in Nat /\ Len(PrintedLots(s)) \in Nat /\ Len(s.sales) \in Nat
        /\ Len(s.dividends) \in Nat /\ Len(s.purchases) \in Nat
    OBVIOUS
  <2> QED BY <2>1, <2>2, <2>3
<1>12. /\ Begins(c8, c9) /\ Begins(c7, c9) /\ Begins(c6, c9) /\ Begins(c5, c9)
       /\ Begins(c4, c9) /\ Begins(c3, c9) /\ Begins(c2, c9) /\ Begins(c1, c9)
  <2>1. Begins(c8, c9)
    BY <1>10 DEF Marks
  <2>2. Begins(c7, c9)
    BY <1>9, <1>11, <2>1, BeginsOn
  <2>3. Begins(c6, c9)
    BY <1>7, <1>11, <2>2, BeginsOn DEF Marks
  <2>4. Begins(c5, c9)
    BY <1>6, <1>11, <2>3, BeginsOn DEF Marks
  <2>5. Begins(c4, c9)
    BY <1>5, <1>11, <2>4, BeginsOn DEF Marks
  <2>6. Begins(c3, c9)
    BY <1>4, <1>11, <2>5, BeginsOn DEF Marks
  <2>7. Begins(c2, c9)
    BY <1>3, <1>11, <2>6, BeginsOn DEF Marks
  <2>8. Begins(c1, c9)
    BY <1>2, <1>11, <2>7, BeginsOn DEF Marks
  <2> QED BY <2>1, <2>2, <2>3, <2>4, <2>5, <2>6, <2>7, <2>8
<1>13. PICK q1 \in Nat, q2 \in Nat, q3 \in Nat, q4 \in Nat, q5 \in Nat, q6 \in Nat, q7 \in Nat :
         /\ q1 = Len(c1) + 1 /\ q2 = Len(c2) + 1 /\ q3 = Len(c3) + 1 /\ q4 = Len(c4) + 1
         /\ q5 = Len(c5) + 1 /\ q6 = Len(c6) + 1 /\ q7 = Len(c8) + 1
  <2>1. /\ Len(c1) + 1 \in Nat /\ Len(c2) + 1 \in Nat /\ Len(c3) + 1 \in Nat
        /\ Len(c4) + 1 \in Nat /\ Len(c5) + 1 \in Nat /\ Len(c6) + 1 \in Nat
        /\ Len(c8) + 1 \in Nat
    <3>1. \A x \in Nat : x + 1 \in Nat
      OBVIOUS
    <3> QED BY ONLY <1>11, <3>1, Zenon
  <2> QED BY <2>1, Zenon
<1>14. /\ q1 = 10 /\ q1 < q2 /\ q2 < q3 /\ q3 < q4 /\ q4 < q5 /\ q5 < q6 /\ q7 = q6 + 8
       /\ Len(c9) = q7 /\ Len(c7) = q6 /\ Len(c8) = q6 + 7
  <2>1. /\ Len(c1) = 9
        /\ Len(c2) = Len(c1) + 2 + Len(s.holdings) /\ Len(c3) = Len(c2) + 2 + Len(PrintedLots(s))
        /\ Len(c4) = Len(c3) + 2 + Len(s.sales) /\ Len(c5) = Len(c4) + 2 + Len(s.dividends)
        /\ Len(c6) = Len(c5) + 2 + Len(s.purchases) /\ Len(c7) = Len(c6) + 1
        /\ Len(c8) = Len(c7) + 7 /\ Len(c9) = Len(c8) + 1
    BY <1>1, <1>2, <1>3, <1>4, <1>5, <1>6, <1>7, <1>9, <1>10
  <2>2. PICK l1 \in Nat, l2 \in Nat, l3 \in Nat, l4 \in Nat, l5 \in Nat, l6 \in Nat,
             l7 \in Nat, l8 \in Nat, l9 \in Nat :
          /\ l1 = Len(c1) /\ l2 = Len(c2) /\ l3 = Len(c3) /\ l4 = Len(c4) /\ l5 = Len(c5)
          /\ l6 = Len(c6) /\ l7 = Len(c7) /\ l8 = Len(c8) /\ l9 = Len(c9)
    BY <1>11, Zenon
  <2>3. PICK n1 \in Nat, n2 \in Nat, n3 \in Nat, n4 \in Nat, n5 \in Nat :
          /\ n1 = Len(s.holdings) /\ n2 = Len(PrintedLots(s)) /\ n3 = Len(s.sales)
          /\ n4 = Len(s.dividends) /\ n5 = Len(s.purchases)
    BY <1>11, Zenon
  <2>4. /\ l1 = 9 /\ l2 = l1 + 2 + n1 /\ l3 = l2 + 2 + n2 /\ l4 = l3 + 2 + n3
        /\ l5 = l4 + 2 + n4 /\ l6 = l5 + 2 + n5 /\ l7 = l6 + 1 /\ l8 = l7 + 7 /\ l9 = l8 + 1
    BY <2>1, <2>2, <2>3, Zenon
  <2>5. /\ q1 = l1 + 1 /\ q2 = l2 + 1 /\ q3 = l3 + 1 /\ q4 = l4 + 1 /\ q5 = l5 + 1
        /\ q6 = l6 + 1 /\ q7 = l8 + 1
    BY <1>13, <2>2, Zenon
  <2>6. /\ q1 = 10 /\ q1 < q2 /\ q2 < q3 /\ q3 < q4 /\ q4 < q5 /\ q5 < q6 /\ q7 = q6 + 8
        /\ l9 = q7
    BY ONLY <2>4, <2>5
  <2>7. Len(c7) = q6 /\ Len(c8) = q6 + 7
    <3>1. l7 = q6 /\ l8 = q6 + 7
      BY ONLY <2>4, <2>5
    <3> QED BY <2>2, <3>1, Zenon
  <2> QED BY <2>2, <2>6, <2>7, Zenon
<1>15. Sections(c9) = {1, q1, q2, q3, q4, q5, q6, q7}
  <2>1. /\ Sections(c2) = Sections(c1) \cup {q1} /\ Sections(c3) = Sections(c2) \cup {q2}
        /\ Sections(c4) = Sections(c3) \cup {q3} /\ Sections(c5) = Sections(c4) \cup {q4}
        /\ Sections(c6) = Sections(c5) \cup {q5} /\ Sections(c7) = Sections(c6) \cup {q6}
        /\ Sections(c9) = Sections(c8) \cup {q7}
    BY <1>2, <1>3, <1>4, <1>5, <1>6, <1>7, <1>10, <1>13, Zenon DEF Marks
  <2> QED BY ONLY <1>1, <1>9, <2>1
<1>16. /\ c9[1] = Section("HEADER") /\ c9[q1] = Section("HOLDINGS")
       /\ c9[q2] = Section("TAX_LOTS") /\ c9[q3] = Section("SALES")
       /\ c9[q4] = Section("DIVIDENDS") /\ c9[q5] = Section("PURCHASES")
       /\ c9[q6] = Section("REALIZED_SUMMARY") /\ c9[q7] = Section("END")
  <2>1. c9[1] = Section("HEADER")
    <3>1. 1 \in 1..Len(c1) /\ Begins(c1, c9)
      BY <1>1, <1>12
    <3>2. \A k \in 1..Len(c1) : c9[k] = c1[k]
      BY <3>1, BeginsAt, Zenon
    <3>3. c9[1] = c1[1]
      BY <3>1, <3>2
    <3> QED BY <1>1, <3>3
  <2>2. c9[q1] = Section("HOLDINGS")
    <3>1. c9[Len(c1) + 1] = c9[q1] /\ Begins(c2, c9) /\ Len(c1) \in Nat
      BY <1>11, <1>12, <1>13, Zenon
    <3> QED BY <1>2, <3>1, MarkStays, Zenon
  <2>3. c9[q2] = Section("TAX_LOTS")
    <3>1. c9[Len(c2) + 1] = c9[q2] /\ Begins(c3, c9) /\ Len(c2) \in Nat
      BY <1>11, <1>12, <1>13, Zenon
    <3> QED BY <1>3, <3>1, MarkStays, Zenon
  <2>4. c9[q3] = Section("SALES")
    <3>1. c9[Len(c3) + 1] = c9[q3] /\ Begins(c4, c9) /\ Len(c3) \in Nat
      BY <1>11, <1>12, <1>13, Zenon
    <3> QED BY <1>4, <3>1, MarkStays, Zenon
  <2>5. c9[q4] = Section("DIVIDENDS")
    <3>1. c9[Len(c4) + 1] = c9[q4] /\ Begins(c5, c9) /\ Len(c4) \in Nat
      BY <1>11, <1>12, <1>13, Zenon
    <3> QED BY <1>5, <3>1, MarkStays, Zenon
  <2>6. c9[q5] = Section("PURCHASES")
    <3>1. c9[Len(c5) + 1] = c9[q5] /\ Begins(c6, c9) /\ Len(c5) \in Nat
      BY <1>11, <1>12, <1>13, Zenon
    <3> QED BY <1>6, <3>1, MarkStays, Zenon
  <2>7. c9[q6] = Section("REALIZED_SUMMARY")
    <3>1. c9[Len(c6) + 1] = c9[q6] /\ Begins(c7, c9) /\ Len(c6) \in Nat
      BY <1>11, <1>12, <1>13, Zenon
    <3> QED BY <1>7, <3>1, MarkStays, Zenon
  <2>8. c9[q7] = Section("END")
    BY <1>10, <1>13 DEF Marks
  <2> QED BY <2>1, <2>2, <2>3, <2>4, <2>5, <2>6, <2>7, <2>8
<1>17. \A x, y : x # y => Section(x) # Section(y)
  <2>1. \A x : Section(x).name = x
    BY DEF Section
  <2> QED BY <2>1
<1>18. Unfurnished(c9) /\ c9 \in Seq(ToSet(c9))
  BY <1>10 DEF Marks
<1>19. TableAt(c9, "HOLDINGS", q1, s.holdings)
  <2>1. /\ q2 \in Sections(c9) /\ c9[q2] # Section("HOLDINGS")
        /\ \A k \in Sections(c9) : c9[k] = Section("HOLDINGS") => k = q1
        /\ \A k \in Sections(c9) : k <= q1 \/ q2 <= k
    BY <1>14, <1>15, <1>16, <1>17
  <2> QED BY <1>2, <1>11, <1>12, <1>13, <1>18, <2>1, TableStays, Zenon
<1>20. TableAt(c9, "TAX_LOTS", q2, PrintedLots(s))
  <2>1. /\ q3 \in Sections(c9) /\ c9[q3] # Section("TAX_LOTS")
        /\ \A k \in Sections(c9) : c9[k] = Section("TAX_LOTS") => k = q2
        /\ \A k \in Sections(c9) : k <= q2 \/ q3 <= k
    BY <1>14, <1>15, <1>16, <1>17
  <2> QED BY <1>3, <1>11, <1>12, <1>13, <1>18, <2>1, TableStays, Zenon
<1>21. TableAt(c9, "SALES", q3, s.sales)
  <2>1. /\ q4 \in Sections(c9) /\ c9[q4] # Section("SALES")
        /\ \A k \in Sections(c9) : c9[k] = Section("SALES") => k = q3
        /\ \A k \in Sections(c9) : k <= q3 \/ q4 <= k
    BY <1>14, <1>15, <1>16, <1>17
  <2> QED BY <1>4, <1>11, <1>12, <1>13, <1>18, <2>1, TableStays, Zenon
<1>22. TableAt(c9, "DIVIDENDS", q4, s.dividends)
  <2>1. /\ q5 \in Sections(c9) /\ c9[q5] # Section("DIVIDENDS")
        /\ \A k \in Sections(c9) : c9[k] = Section("DIVIDENDS") => k = q4
        /\ \A k \in Sections(c9) : k <= q4 \/ q5 <= k
    BY <1>14, <1>15, <1>16, <1>17
  <2> QED BY <1>5, <1>11, <1>12, <1>13, <1>18, <2>1, TableStays, Zenon
<1>23. TableAt(c9, "PURCHASES", q5, s.purchases)
  <2>1. /\ q6 \in Sections(c9) /\ c9[q6] # Section("PURCHASES")
        /\ \A k \in Sections(c9) : c9[k] = Section("PURCHASES") => k = q5
        /\ \A k \in Sections(c9) : k <= q5 \/ q6 <= k
    BY <1>14, <1>15, <1>16, <1>17
  <2> QED BY <1>6, <1>11, <1>12, <1>13, <1>18, <2>1, TableStays, Zenon
<1>24. ASSUME NEW k \in 1..Len(c9), k \notin Sections(c9)
       PROVE  c9[k].kind \notin Furniture \cup {"section"}
  BY <1>18, <1>24 DEF Sections, Unfurnished
<1>25. ASSUME NEW k \in 1..Len(c9), NEW name, c9[k] = Section(name)
       PROVE  k \in Sections(c9)
  BY <1>25 DEF Sections, Section
<1>26. SummaryAt(s, c9, q6)
  <2>1. q6 \in 1..Len(c9) /\ q6 + 8 \in 1..Len(c9) /\ q6 < q6 + 8
    BY <1>14
  <2>2. c9[q6 + 8].kind = "section" /\ c9[q6 + 8] # Section("REALIZED_SUMMARY")
    <3>1. q6 + 8 = q7 /\ q7 \in Sections(c9)
      BY <1>14, <1>15
    <3>2. c9[q7].kind = "section"
      BY <3>1 DEF Sections
    <3> QED BY <1>16, <1>17, <3>1, <3>2
  <2>3. ASSUME NEW k \in 1..Len(c9), c9[k] = Section("REALIZED_SUMMARY") PROVE k = q6
    BY <1>15, <1>16, <1>17, <1>25, <2>3
  <2>4. ASSUME NEW k \in 1..Len(c9), q6 < k, k < q6 + 8
        PROVE  c9[k].kind \notin Furniture \cup {"section"}
    <3>1. k \notin Sections(c9)
      BY <1>14, <1>15, <2>4
    <3> QED BY <1>24, <3>1
  <2>5. SectionAt(c9, "REALIZED_SUMMARY", q6, q6 + 8)
    BY <1>16, <2>1, <2>2, <2>3, <2>4 DEF SectionAt
  <2>6. ASSUME NEW i \in 1..7 PROVE c9[q6 + i] = Entry(Summary[i], s.realized[Summary[i]])
    <3>1. Len(c7) + i = q6 + i /\ q6 + i \in 1..Len(c8)
      <4>1. q6 + i \in 1..(q6 + 7)
        BY ONLY q6 \in Nat, i \in 1..7
      <4> QED BY <1>14, <4>1, Zenon
    <3>2. c8[q6 + i] = sum[i]
      BY <1>9, <3>1
    <3>3. c9[q6 + i] = c8[q6 + i]
      BY <1>12, <3>1 DEF Begins
    <3> QED BY <1>8, <3>2, <3>3
  <2> QED BY <2>5, <2>6 DEF SummaryAt
<1>27. SectionAt(c9, "HEADER", 1, 10)
  <2>1. 1 \in 1..Len(c9) /\ 10 \in 1..Len(c9)
    BY <1>14
  <2>2. c9[10].kind = "section" /\ c9[10] # Section("HEADER")
    <3>1. 10 \in Sections(c9)
      BY <1>14, <1>15
    <3>2. c9[10].kind = "section"
      BY <3>1 DEF Sections
    <3> QED BY <1>14, <1>16, <1>17, <3>2
  <2>3. ASSUME NEW k \in 1..Len(c9), c9[k] = Section("HEADER") PROVE k = 1
    BY <1>15, <1>16, <1>17, <1>25, <2>3
  <2>4. ASSUME NEW k \in 1..Len(c9), 1 < k, k < 10
        PROVE  c9[k].kind \notin Furniture \cup {"section"}
    <3>1. k \notin Sections(c9)
      BY <1>14, <1>15, <2>4
    <3> QED BY <1>24, <3>1
  <2> QED BY <1>16, <2>1, <2>2, <2>3, <2>4 DEF SectionAt
<1>28. /\ c9[2] = c1[2] /\ c9[3] = c1[3] /\ c9[4] = c1[4] /\ c9[5] = c1[5] /\ c9[6] = c1[6]
       /\ c9[7] = c1[7] /\ c9[8] = c1[8] /\ c9[9] = c1[9]
  <2>1. \A k \in 1..9 : c9[k] = c1[k]
    <3>1. ASSUME NEW k \in 1..9 PROVE c9[k] = c1[k]
      <4>1. Begins(c1, c9) /\ k \in 1..Len(c1)
        BY <1>1, <1>12
      <4> QED BY <4>1, BeginsAt, Zenon
    <3> QED BY <3>1
  <2> QED BY <2>1
<1>29. c9 # <<>>
  BY <1>14, <1>18
<1> QED
  BY <1>0, <1>1, <1>18, <1>19, <1>20, <1>21, <1>22, <1>23, <1>26, <1>27, <1>28, <1>29, Zenon
     DEF BrokerageLies

---------------------------------------------------------------------------
(* A brokerage statement as it is read.                                    *)

Periods == {"st_gains", "st_losses", "st_net", "lt_gains", "lt_losses", "lt_net",
            "combined_net"}

LEMMA RealizedIs ==
  ASSUME NEW sales
  PROVE  Realized(sales) = [k \in Periods |-> Realized(sales)[k]]
<1> DEFINE Add(period, Keep(_)) ==
             FoldLeft(LAMBDA sum, s : IF s.period = period /\ Keep(s.result)
                                      THEN sum + s.result ELSE sum, 0, sales)
           stg == Add("SHORT_TERM", LAMBDA r : r > 0)
           stl == Add("SHORT_TERM", LAMBDA r : r < 0)
           ltg == Add("LONG_TERM", LAMBDA r : r > 0)
           ltl == Add("LONG_TERM", LAMBDA r : r < 0)
           all == stg + stl + ltg + ltl
           sts == stg + stl
           lts == ltg + ltl
<1>1. Realized(sales) =
        [st_gains |-> stg, st_losses |-> stl, st_net |-> sts,
         lt_gains |-> ltg, lt_losses |-> ltl, lt_net |-> lts,
         combined_net |-> all]
  BY Zenon DEF Realized
<1> HIDE DEF stg, stl, ltg, ltl, all, sts, lts
<1> DEFINE r == [st_gains |-> stg, st_losses |-> stl, st_net |-> sts,
                 lt_gains |-> ltg, lt_losses |-> ltl, lt_net |-> lts,
                 combined_net |-> all]
<1>2. r = [k \in Periods |-> r[k]]
  <2>1. DOMAIN r = Periods
    BY DEF Periods
  <2>2. r = [k \in DOMAIN r |-> r[k]]
    OBVIOUS
  <2> HIDE DEF r
  <2> QED BY <2>1, <2>2, Zenon
<1> QED
  BY <1>1, <1>2, Zenon

\* The summary is read as it was printed.
LEMMA SummaryRead ==
  ASSUME NEW S, NEW lines \in Seq(S), NEW content \in Seq(S), Carries(lines, content),
         NEW s, NEW a \in Nat, SummaryAt(s, content, a),
         s.realized = [k \in Periods |-> s.realized[k]]
  PROVE  /\ [k \in DOMAIN ParseRealized(lines) |-> ParseRealized(lines)[k].value] = s.realized
         /\ \A k \in DOMAIN ParseRealized(lines) : ParseRealized(lines)[k].fault = "none"
<1> DEFINE shown == SectionRows(lines, "REALIZED_SUMMARY")
<1>1. /\ Len(shown) = 7 /\ DOMAIN shown = 1..7
      /\ \A i \in 1..7 : shown[i] = Entry(Summary[i], s.realized[Summary[i]])
  <2>0. PICK b : b = a + 8
    OBVIOUS
  <2>1. SectionAt(content, "REALIZED_SUMMARY", a, b)
    BY <2>0, Zenon DEF SummaryAt
  <2>2. shown = SubSeq(content, a + 1, b - 1)
    BY <2>1, SectionRowsAre
  <2>3. PICK y \in Nat : y = b /\ a < y /\ y <= Len(content) /\ y - a - 1 = 7
    BY <2>0, <2>1 DEF SectionAt
  <2>4. /\ SubSeq(content, a + 1, y - 1) \in Seq(S)
        /\ Len(SubSeq(content, a + 1, y - 1)) = y - a - 1
        /\ \A k \in 1..Len(SubSeq(content, a + 1, y - 1)) :
             SubSeq(content, a + 1, y - 1)[k] = content[a + k]
    BY <2>3, SubSeqIs
  <2> HIDE DEF shown
  <2>5. shown \in Seq(S) /\ Len(shown) = 7 /\ \A k \in 1..7 : shown[k] = content[a + k]
    BY <2>2, <2>3, <2>4
  <2>6. \A i \in 1..7 : content[a + i] = Entry(Summary[i], s.realized[Summary[i]])
    BY Zenon DEF SummaryAt
  <2>7. DOMAIN shown = 1..7
    BY <2>5
  <2> QED BY <2>5, <2>6, <2>7
<1> HIDE DEF shown
<1>2. /\ \A i \in 1..7 : Summary[i] \in Periods
      /\ \A i, j \in 1..7 : Summary[i] = Summary[j] => i = j
      /\ \A k \in Periods : \E i \in 1..7 : Summary[i] = k
  <2>1. /\ Summary[1] = "st_gains" /\ Summary[2] = "st_losses" /\ Summary[3] = "st_net"
        /\ Summary[4] = "lt_gains" /\ Summary[5] = "lt_losses" /\ Summary[6] = "lt_net"
        /\ Summary[7] = "combined_net"
    BY DEF Summary
  <2>2. \A i \in 1..7 : i = 1 \/ i = 2 \/ i = 3 \/ i = 4 \/ i = 5 \/ i = 6 \/ i = 7
    OBVIOUS
  <2>3. /\ 1 \in 1..7 /\ 2 \in 1..7 /\ 3 \in 1..7 /\ 4 \in 1..7 /\ 5 \in 1..7 /\ 6 \in 1..7
        /\ 7 \in 1..7
    OBVIOUS
  <2>4. \A k \in Periods : \E i \in 1..7 : Summary[i] = k
    BY <2>1, <2>3, Zenon DEF Periods
  <2>5. \A i \in 1..7 : Summary[i] \in Periods
    BY <2>1, <2>2, Zenon DEF Periods
  <2>6. ASSUME NEW i \in 1..7, NEW j \in 1..7, Summary[i] = Summary[j] PROVE i = j
    BY <2>1, <2>2, <2>6
  <2> QED BY <2>4, <2>5, <2>6
<1>3. \A i \in 1..7 : /\ shown[i].kind = "entry" /\ shown[i].key = Summary[i]
                      /\ shown[i].value = s.realized[Summary[i]]
                      /\ shown[i].fault = "none"
  BY <1>1 DEF Entry
<1> DEFINE at(k) == {i \in DOMAIN shown : shown[i].kind = "entry" /\ shown[i].key = k}
           keys == {shown[i].key : i \in {j \in DOMAIN shown : shown[j].kind = "entry"}}
<1>4. ParseRealized(lines) = [k \in keys |-> shown[Max(at(k))]]
  BY Zenon DEF ParseRealized, shown
<1>5. keys = Periods
  <2>1. ASSUME NEW k \in Periods PROVE k \in keys
    BY <1>1, <1>2, <1>3
  <2>2. ASSUME NEW k \in keys PROVE k \in Periods
    BY <1>1, <1>2, <1>3
  <2> QED BY <2>1, <2>2
<1>6. ASSUME NEW k \in Periods 
      PROVE  shown[Max(at(k))].value = s.realized[k] /\ shown[Max(at(k))].fault = "none"
  <2>1. PICK i \in 1..7 : Summary[i] = k
    BY <1>2
  <2>2. at(k) = {i}
    BY <1>1, <1>2, <1>3, <2>1
  <2>3. Max({i}) = i
    <3>1. i \in Int
      OBVIOUS
    <3> QED BY ONLY <3>1, OneOf
  <2> HIDE DEF at
  <2>4. Max(at(k)) = i
    BY <2>2, <2>3, Zenon
  <2> QED BY <1>3, <2>1, <2>4
<1> HIDE DEF at, keys
<1> DEFINE P == ParseRealized(lines)
<1>7. DOMAIN P = Periods /\ \A k \in Periods : P[k] = shown[Max(at(k))]
  BY <1>4, <1>5, Zenon
<1> HIDE DEF P
<1>8. [k \in DOMAIN P |-> P[k].value] = [k \in Periods |-> s.realized[k]]
  BY <1>6, <1>7, Zenon
<1>9. \A k \in DOMAIN P : P[k].fault = "none"
  BY <1>6, <1>7, Zenon
<1> QED
  BY <1>8, <1>9, Zenon DEF P
ReadBack(s) ==
  [id |-> s.id, account |-> s.account, user |-> s.user, start |-> s.start, end |-> s.end,
   holdings |-> s.holdings, lots |-> PrintedLots(s), sales |-> s.sales,
   dividends |-> s.dividends, purchases |-> s.purchases, realized |-> s.realized]

Shows(lines, c) == \E S : lines \in Seq(S) /\ c \in Seq(S) /\ Carries(lines, c)
Listing(records) == \E R : records \in Seq(R)
ReadsAs(lines, name, records) ==
  HasTable(lines, name) /\ TableRows(lines, name) = Rows(name, records)
Stands(c, name, records) == \E a \in Nat : TableAt(c, name, a, records)

LEMMA TableShown ==
  ASSUME NEW lines, NEW c, Shows(lines, c), NEW name, NEW records, Listing(records),
         Stands(c, name, records)
  PROVE  ReadsAs(lines, name, records)
<1>1. PICK S : lines \in Seq(S) /\ c \in Seq(S) /\ Carries(lines, c)
  BY DEF Shows
<1>2. PICK R : records \in Seq(R)
  BY DEF Listing
<1>3. PICK a \in Nat : TableAt(c, name, a, records)
  BY DEF Stands
<1> QED
  BY <1>1, <1>2, <1>3, TableRead DEF ReadsAs

\* Records the parser accepts as they are printed.
Readable(name, records) ==
  \A i \in DOMAIN records : /\ name = "TAX_LOTS" => LotReadable(records[i])
                            /\ name = "SALES" => SaleReconciles(records[i])

LEMMA TableHasNoFault ==
  ASSUME NEW lines, NEW name, NEW records, Listing(records), ReadsAs(lines, name, records),
         Readable(name, records)
  PROVE  BookFault(lines, name) = "none"
<1>1. PICK R : records \in Seq(R)
  BY DEF Listing
<1>2. PICK n \in Nat : n = Len(records) /\ DOMAIN records = 1..n
  BY <1>1
<1> DEFINE listed == Rows(name, records)
<1>3. DOMAIN listed = 1..n /\ \A i \in 1..n : listed[i] = Row(name, records[i])
  BY <1>1, <1>2, CellsOfRows
<1> HIDE DEF listed
<1>4. ASSUME NEW i \in 1..n PROVE Fits(listed[i], name) /\ BookRowFault(listed[i]) = "none"
  <2>1. listed[i] = Row(name, records[i])
    BY <1>3
  <2>2. /\ listed[i].kind = "row" /\ listed[i].of = name /\ listed[i].cells = records[i]
        /\ listed[i].fault = "none"
    BY ONLY <2>1 DEF Row
  <2>3. Fits(listed[i], name)
    BY <2>2 DEF Fits
  <2>4. /\ name = "TAX_LOTS" => LotReadable(listed[i].cells)
        /\ name = "SALES" => SaleReconciles(listed[i].cells)
    BY <1>2, <2>2, Zenon DEF Readable
  <2>5. Conversion(listed[i].fault) = "none" /\ listed[i].fault # "nan"
    BY <2>2 DEF Conversion
  <2> QED BY <2>2, <2>3, <2>4, <2>5, Zenon DEF BookRowFault
<1> DEFINE fitting == {i \in DOMAIN listed : \A j \in 1..i : Fits(listed[j], name)}
<1>5. fitting = DOMAIN listed
  <2>1. ASSUME NEW i \in 1..n, NEW j \in 1..i PROVE Fits(listed[j], name)
    <3>1. j \in 1..n
      OBVIOUS
    <3> QED BY <1>4, <3>1
  <2> QED BY <1>3, <2>1, Zenon
<1>6. {i \in fitting : BookRowFault(listed[i]) # "none"} = {}
  BY <1>3, <1>4, <1>5, Zenon
<1>7. BookTableFault(listed, name) = "none"
  BY <1>5, <1>6, Zenon DEF BookTableFault
<1> QED
  BY <1>7, Zenon DEF BookFault, ReadsAs, listed

LEMMA BrokerageReads ==
  ASSUME NEW s, NEW R, s.holdings \in Seq(R), PrintedLots(s) \in Seq(R), s.sales \in Seq(R),
         s.dividends \in Seq(R), s.purchases \in Seq(R),
         \A i \in DOMAIN PrintedLots(s) : LotReadable(PrintedLots(s)[i]),
         \A i \in DOMAIN s.sales : SaleReconciles(s.sales[i]),
         s.realized = Realized(s.sales)
  PROVE  Parse(RenderBrokerage(s)) = Parsed(ReadBack(s))
<1> DEFINE c == BrokerageContent(s)
           d == RenderBrokerage(s)
           lines == Text(d)
           H == RequireHeaderMap(lines)
<1>1. BrokerageLies(s, c)
  BY BrokerageContentLies
<1>2. d = Paginate(BROKERAGE_MARKER, c)
  BY Zenon DEF RenderBrokerage, BrokerageContent, BrokerageEntries, PrintedLots, SummaryEntries
<1> HIDE DEF c, d
<1>3. c \in Seq(ToSet(c)) /\ c # <<>> /\ Unfurnished(c)
  BY <1>1 DEF BrokerageLies
<1>4. Prints(d, BROKERAGE_MARKER, ToSet(c), c)
  BY <1>2, <1>3, PaginatePrints
<1>5. PICK S : lines \in Seq(S) /\ c \in Seq(S)
  BY <1>3, <1>4, PrintsDetect
<1>6. /\ ~ Scanned(d)
      /\ \A l \in LinesOf(d) : l.kind \in Branded => l.marker = BROKERAGE_MARKER
      /\ Marked(LinesOf(d), BROKERAGE_MARKER)
      /\ \E l \in LinesOf(d) : l.kind \in Bannered
      /\ ToSet(c) \subseteq LinesOf(d)
  BY <1>3, <1>4, PrintsDetect
<1>7. Continuous(d, BROKERAGE_MARKER) /\ Carries(lines, c)
  BY <1>4 DEF Prints
<1>8. SectionAt(c, "HEADER", 1, 10)
  BY <1>1, Zenon DEF BrokerageLies
<1>9. PICK h, lots, sales, div, buys, a :
        /\ h \in Nat /\ TableAt(c, "HOLDINGS", h, s.holdings)
        /\ lots \in Nat /\ TableAt(c, "TAX_LOTS", lots, PrintedLots(s))
        /\ sales \in Nat /\ TableAt(c, "SALES", sales, s.sales)
        /\ div \in Nat /\ TableAt(c, "DIVIDENDS", div, s.dividends)
        /\ buys \in Nat /\ TableAt(c, "PURCHASES", buys, s.purchases)
        /\ a \in Nat /\ SummaryAt(s, c, a)
  BY <1>1, Zenon DEF BrokerageLies
<1>10. DetectFormat(d) = BROKERAGE_MARKER
  <2>1. ~ Marked(LinesOf(d), BANK_MARKER)
    BY <1>6 DEF Marked, BANK_MARKER, BROKERAGE_MARKER
  <2>2. \A k \in 1..Len(c) : c[k] \in LinesOf(d)
    BY <1>6 DEF ToSet
  <2>3. Section("HEADER") \in LinesOf(d)
    BY <1>8, <2>2, Zenon DEF SectionAt
  <2>4. Section("TAX_LOTS") \in LinesOf(d)
    BY <1>9, <2>2, Zenon DEF SectionAt, TableAt
  <2>5. Sectioned(LinesOf(d), {"HEADER", "TAX_LOTS"})
    BY <2>3, <2>4 DEF Sectioned
  <2>6. ~ (\A l \in LinesOf(d) : l.kind \notin Bannered)
    BY <1>6
  <2> QED BY <1>6, <2>1, <2>5, <2>6, Zenon DEF DetectFormat
<1> HIDE DEF lines
<1>11. Parse(d) = ParseBrokerage(d)
  <2>1. BROKERAGE_MARKER # "unknown" /\ BROKERAGE_MARKER # BANK_MARKER
    BY DEF BROKERAGE_MARKER, BANK_MARKER
  <2> QED BY <1>6, <1>7, <1>10, <2>1, Zenon DEF Parse
<1>12. ReadsAs(lines, "HOLDINGS", s.holdings)
  <2>1. Shows(lines, c) /\ Listing(s.holdings) /\ Stands(c, "HOLDINGS", s.holdings)
    BY <1>5, <1>7, <1>9, Zenon DEF Shows, Listing, Stands
  <2> QED BY ONLY <2>1, TableShown, Zenon
<1>13. ReadsAs(lines, "TAX_LOTS", PrintedLots(s))
  <2>1. Shows(lines, c) /\ Listing(PrintedLots(s)) /\ Stands(c, "TAX_LOTS", PrintedLots(s))
    BY <1>5, <1>7, <1>9, Zenon DEF Shows, Listing, Stands
  <2> QED BY ONLY <2>1, TableShown, Zenon
<1>14. ReadsAs(lines, "SALES", s.sales)
  <2>1. Shows(lines, c) /\ Listing(s.sales) /\ Stands(c, "SALES", s.sales)
    BY <1>5, <1>7, <1>9, Zenon DEF Shows, Listing, Stands
  <2> QED BY ONLY <2>1, TableShown, Zenon
<1>15. ReadsAs(lines, "DIVIDENDS", s.dividends)
  <2>1. Shows(lines, c) /\ Listing(s.dividends) /\ Stands(c, "DIVIDENDS", s.dividends)
    BY <1>5, <1>7, <1>9, Zenon DEF Shows, Listing, Stands
  <2> QED BY ONLY <2>1, TableShown, Zenon
<1>16. ReadsAs(lines, "PURCHASES", s.purchases)
  <2>1. Shows(lines, c) /\ Listing(s.purchases) /\ Stands(c, "PURCHASES", s.purchases)
    BY <1>5, <1>7, <1>9, Zenon DEF Shows, Listing, Stands
  <2> QED BY ONLY <2>1, TableShown, Zenon
<1>17. BookFault(lines, "HOLDINGS") = "none" /\ BookFault(lines, "TAX_LOTS") = "none"
       /\ BookFault(lines, "SALES") = "none" /\ BookFault(lines, "DIVIDENDS") = "none"
       /\ BookFault(lines, "PURCHASES") = "none"
  <2>1. /\ "HOLDINGS" \notin {"TAX_LOTS", "SALES"} /\ "DIVIDENDS" \notin {"TAX_LOTS", "SALES"}
        /\ "PURCHASES" \notin {"TAX_LOTS", "SALES"} /\ "TAX_LOTS" # "SALES"
    OBVIOUS
  <2>2. /\ Readable("HOLDINGS", s.holdings) /\ Readable("TAX_LOTS", PrintedLots(s))
        /\ Readable("SALES", s.sales) /\ Readable("DIVIDENDS", s.dividends)
        /\ Readable("PURCHASES", s.purchases)
    BY <2>1, Zenon DEF Readable
  <2>3. /\ Listing(s.holdings) /\ Listing(PrintedLots(s)) /\ Listing(s.sales)
        /\ Listing(s.dividends) /\ Listing(s.purchases)
    BY Zenon DEF Listing
  <2> QED BY ONLY <1>12, <1>13, <1>14, <1>15, <1>16, <2>2, <2>3, TableHasNoFault, Zenon
<1>18. /\ [k \in DOMAIN ParseRealized(lines) |-> ParseRealized(lines)[k].value] = s.realized
       /\ \A k \in DOMAIN ParseRealized(lines) : ParseRealized(lines)[k].fault = "none"
  <2>1. s.realized = [k \in Periods |-> s.realized[k]]
    BY RealizedIs, Zenon
  <2> QED BY ONLY <1>5, <1>7, <1>9, <2>1, SummaryRead
<1>19. /\ c[2] = Entry("statement_id", s.id) /\ c[3] = Entry("account_id", s.account)
       /\ c[4] = Entry("user_id", s.user) /\ c[5] = Entry("period_start", s.start)
       /\ c[6] = Entry("period_end", s.end) /\ c[7] = Entry("base_currency", "USD")
       /\ c[8] = Entry("portfolio_id", s.account) /\ c[9] = Entry("taxable", TRUE)
  BY <1>1, Zenon DEF BrokerageLies
<1>20. \A j \in 2..9 : /\ c[j].key \in DOMAIN H /\ H[c[j].key] = c[j]
  <2>1. ASSUME NEW k \in 2..9
        PROVE  k = 2 \/ k = 3 \/ k = 4 \/ k = 5 \/ k = 6 \/ k = 7 \/ k = 8 \/ k = 9
    OBVIOUS
  <2>2. /\ c[2].key = "statement_id" /\ c[3].key = "account_id" /\ c[4].key = "user_id"
        /\ c[5].key = "period_start" /\ c[6].key = "period_end" /\ c[7].key = "base_currency"
        /\ c[8].key = "portfolio_id" /\ c[9].key = "taxable"
    BY <1>19 DEF Entry
  <2>3. ASSUME NEW j \in 2..9
        PROVE  /\ c[j].kind = "entry"
               /\ \A k \in 2..9 : c[k].kind = "entry" /\ c[k].key = c[j].key => k = j
    <3>1. c[j].kind = "entry"
      <4>1. /\ c[2].kind = "entry" /\ c[3].kind = "entry" /\ c[4].kind = "entry"
            /\ c[5].kind = "entry" /\ c[6].kind = "entry" /\ c[7].kind = "entry"
            /\ c[8].kind = "entry" /\ c[9].kind = "entry"
        BY <1>19 DEF Entry
      <4> QED BY <2>1, <4>1
    <3>2. ASSUME NEW k \in 2..9, c[k].key = c[j].key PROVE k = j
      BY <2>1, <2>2, <3>2
    <3> QED BY <3>1, <3>2
  <2>4. ASSUME NEW j \in 2..9 PROVE c[j].key \in DOMAIN H /\ H[c[j].key] = c[j]
    <3>0. (1 + 1)..(10 - 1) = 2..9
      OBVIOUS
    <3>1. OnlyEntry(c, 1, 10, j)
      BY <2>3, <3>0, Zenon DEF OnlyEntry
    <3> QED BY ONLY <1>5, <1>7, <1>8, <3>1, HeaderRead DEF H
  <2> QED BY <2>4
<1> HIDE DEF H
<1>21. /\ BrokerageHeaders \subseteq DOMAIN H
       /\ \A k \in BrokerageHeaders : H[k].fault = "none"
       /\ H["statement_id"].value = s.id /\ H["account_id"].value = s.account
       /\ H["user_id"].value = s.user /\ H["period_start"].value = s.start
       /\ H["period_end"].value = s.end
  <2>1. /\ 2 \in 2..9 /\ 3 \in 2..9 /\ 4 \in 2..9 /\ 5 \in 2..9 /\ 6 \in 2..9
        /\ 7 \in 2..9 /\ 8 \in 2..9 /\ 9 \in 2..9
    OBVIOUS
  <2>2. "statement_id" \in DOMAIN H /\ H["statement_id"] = Entry("statement_id", s.id)
    <3>1. c[2] = Entry("statement_id", s.id)
      BY <1>19, Zenon
    <3>2. c[2].key = "statement_id"
      BY ONLY <3>1 DEF Entry
    <3> QED BY <1>20, <2>1, <3>1, <3>2, Zenon
  <2>3. "account_id" \in DOMAIN H /\ H["account_id"] = Entry("account_id", s.account)
    <3>1. c[3] = Entry("account_id", s.account)
      BY <1>19, Zenon
    <3>2. c[3].key = "account_id"
      BY ONLY <3>1 DEF Entry
    <3> QED BY <1>20, <2>1, <3>1, <3>2, Zenon
  <2>4. "user_id" \in DOMAIN H /\ H["user_id"] = Entry("user_id", s.user)
    <3>1. c[4] = Entry("user_id", s.user)
      BY <1>19, Zenon
    <3>2. c[4].key = "user_id"
      BY ONLY <3>1 DEF Entry
    <3> QED BY <1>20, <2>1, <3>1, <3>2, Zenon
  <2>5. "period_start" \in DOMAIN H /\ H["period_start"] = Entry("period_start", s.start)
    <3>1. c[5] = Entry("period_start", s.start)
      BY <1>19, Zenon
    <3>2. c[5].key = "period_start"
      BY ONLY <3>1 DEF Entry
    <3> QED BY <1>20, <2>1, <3>1, <3>2, Zenon
  <2>6. "period_end" \in DOMAIN H /\ H["period_end"] = Entry("period_end", s.end)
    <3>1. c[6] = Entry("period_end", s.end)
      BY <1>19, Zenon
    <3>2. c[6].key = "period_end"
      BY ONLY <3>1 DEF Entry
    <3> QED BY <1>20, <2>1, <3>1, <3>2, Zenon
  <2>7. "base_currency" \in DOMAIN H /\ H["base_currency"] = Entry("base_currency", "USD")
    <3>1. c[7] = Entry("base_currency", "USD")
      BY <1>19, Zenon
    <3>2. c[7].key = "base_currency"
      BY ONLY <3>1 DEF Entry
    <3> QED BY <1>20, <2>1, <3>1, <3>2, Zenon
  <2>8. "portfolio_id" \in DOMAIN H /\ H["portfolio_id"] = Entry("portfolio_id", s.account)
    <3>1. c[8] = Entry("portfolio_id", s.account)
      BY <1>19, Zenon
    <3>2. c[8].key = "portfolio_id"
      BY ONLY <3>1 DEF Entry
    <3> QED BY <1>20, <2>1, <3>1, <3>2, Zenon
  <2>9. "taxable" \in DOMAIN H /\ H["taxable"] = Entry("taxable", TRUE)
    <3>1. c[9] = Entry("taxable", TRUE)
      BY <1>19, Zenon
    <3>2. c[9].key = "taxable"
      BY ONLY <3>1 DEF Entry
    <3> QED BY <1>20, <2>1, <3>1, <3>2, Zenon
  <2> HIDE DEF H
  <2> QED BY <2>2, <2>3, <2>4, <2>5, <2>6, <2>7, <2>8, <2>9
          DEF BrokerageHeaders, CommonHeaders, Entry
<1>22. ParseBrokerage(d) = BookOutcome(H, lines)
  BY <1>21, ParseBrokerageIs, Zenon DEF H, lines
<1>23. {i \in DOMAIN Tables : BookFault(lines, Tables[i]) # "none"} = {}
  <2>1. ASSUME NEW i \in DOMAIN Tables PROVE BookFault(lines, Tables[i]) = "none"
    <3>1. i = 1 \/ i = 2 \/ i = 3 \/ i = 4 \/ i = 5
      BY DEF Tables
    <3>2. /\ Tables[1] = "HOLDINGS" /\ Tables[2] = "TAX_LOTS" /\ Tables[3] = "SALES"
          /\ Tables[4] = "DIVIDENDS" /\ Tables[5] = "PURCHASES"
      BY DEF Tables
    <3> QED BY <1>17, <3>1, <3>2, Zenon
  <2> QED BY <2>1, Zenon
<1>24. /\ Cells(TableRows(lines, "HOLDINGS")) = s.holdings
       /\ Cells(TableRows(lines, "TAX_LOTS")) = PrintedLots(s)
       /\ Cells(TableRows(lines, "SALES")) = s.sales
       /\ Cells(TableRows(lines, "DIVIDENDS")) = s.dividends
       /\ Cells(TableRows(lines, "PURCHASES")) = s.purchases
  <2>1. ASSUME NEW name, NEW records, records \in Seq(R), ReadsAs(lines, name, records)
        PROVE  Cells(TableRows(lines, name)) = records
    BY <2>1, CellsOfRows DEF ReadsAs
  <2> QED BY <1>12, <1>13, <1>14, <1>15, <1>16, <2>1, Zenon
<1>25. RealizedAgrees(ParseRealized(lines), Cells(TableRows(lines, "SALES")))
  BY <1>18, <1>24, Zenon DEF RealizedAgrees
<1>26. IdentityFault(H, BookKeys) = "none"
  <2> DEFINE K == {"account_id", "portfolio_id", "user_id"}
  <2>1. BookKeys \in Seq(K)
    BY DEF BookKeys
  <2>2. \A k \in K \cup {"period_start", "period_end", "base_currency"} : H[k].fault = "none"
    <3> HIDE DEF H
    <3> QED BY <1>21 DEF BrokerageHeaders, CommonHeaders
  <2> HIDE DEF K, H
  <2> QED BY ONLY <2>1, <2>2, IdentityIsRead
<1> HIDE DEF H
<1>27. BookRead(H, lines) = ReadBack(s)
  BY <1>18, <1>21, <1>24, Zenon DEF BookRead, ReadBack
<1>28. BookOutcome(H, lines) = Parsed(ReadBack(s))
  BY <1>23, <1>25, <1>26, <1>27, Zenon DEF BookOutcome
<1> QED
  BY <1>11, <1>22, <1>28, Zenon DEF d
---------------------------------------------------------------------------
(* The balances of a statement.                                            *)

LEMMA HalfEvenIsPositive ==
  ASSUME NEW x \in Int, NEW unit \in Nat \ {0}, x >= unit
  PROVE  HalfEven(x, unit) \in Int /\ HalfEven(x, unit) > 0
<1>1. x \div unit \in Int /\ x \div unit >= 1
  BY SMT
<1> QED
  BY <1>1, SMT DEF HalfEven

\* A row moves the balance in its direction, and by its amount if that is in
\* dollars.
LEMMA SignedIs ==
  ASSUME NEW row \in Posted
  PROVE  /\ Signed(row) \in Int
         /\ row.dir = "CREDIT" => Signed(row) > 0
         /\ row.dir = "DEBIT" => Signed(row) < 0
         /\ row.ccy = "USD" => Signed(row) \in {row.amount, -row.amount}
<1>1. row.amount \in Int /\ row.amount > 0 /\ row.dir \in Directions
  BY SMT DEF Posted
<1>2. ToUsd(row) \in Int /\ ToUsd(row) > 0 /\ (row.ccy = "USD" => ToUsd(row) = row.amount)
  <2>1. PICK a \in Int, b \in Int, c \in Int :
          a = row.amount /\ b = row.amount * 127 /\ c = row.amount * 1085
    BY <1>1, SMT
  <2>2. b >= 100 /\ c >= 1000
    BY <1>1, <2>1, SMT
  <2>3. /\ HalfEven(b, 100) \in Int /\ HalfEven(b, 100) > 0
        /\ HalfEven(c, 1000) \in Int /\ HalfEven(c, 1000) > 0
    BY <2>2, HalfEvenIsPositive, SMT
  <2>4. /\ row.ccy = "USD" => ToUsd(row) = row.amount
        /\ row.ccy = "GBP" => ToUsd(row) = HalfEven(row.amount * 127, 100)
        /\ row.ccy # "USD" /\ row.ccy # "GBP" => ToUsd(row) = HalfEven(row.amount * 1085, 1000)
    BY SMT DEF ToUsd
  <2>5. CASE row.ccy = "USD"
    BY <1>1, <2>4, <2>5
  <2>6. CASE row.ccy = "GBP"
    <3>1. ToUsd(row) = HalfEven(b, 100)
      BY <2>1, <2>4, <2>6, Zenon
    <3> QED BY <2>3, <2>6, <3>1
  <2>7. CASE row.ccy # "USD" /\ row.ccy # "GBP"
    <3>1. ToUsd(row) = HalfEven(c, 1000)
      BY <2>1, <2>4, <2>7
    <3> QED BY <2>3, <2>7, <3>1
  <2> QED BY <2>5, <2>6, <2>7
<1>3. PICK v \in Int : v = ToUsd(row)
  BY <1>2
<1>4. Signed(row) = IF row.dir = "CREDIT" THEN v ELSE -v
  BY <1>3, Zenon DEF Signed
<1> QED
  BY <1>1, <1>2, <1>3, <1>4 DEF Directions

\* A row whose balance is that before it moved by the row passes every check of
\* the parser.
LEMMA RowReads ==
  ASSUME NEW row \in Posted, NEW previous \in Int, row.balance = previous + Signed(row)
  PROVE  BankRowFault(Row("TRANSACTIONS", row), previous, FALSE) = "none"
<1>1. /\ row.amount \in Int /\ row.amount > 0 /\ row.dir \in Directions
      /\ row.balance \in Int
  BY SMT DEF Posted
<1> DEFINE l == Row("TRANSACTIONS", row)
<1>2. l.cells = row /\ Conversion(l.fault) = "none" /\ CellFault(l) = "none"
  <2>1. l.cells = row /\ l.fault = "none"
    BY DEF Row
  <2> HIDE DEF l
  <2>2. Conversion(l.fault) = "none"
    BY <2>1 DEF Conversion
  <2> QED BY <1>1, <2>1, <2>2, SMT DEF CellFault
<1>3. PICK d \in Int : d = Signed(row)
  BY SignedIs
<1>4. row.balance - previous = d
  BY <1>1, <1>3
<1>5. /\ row.dir = "CREDIT" => d > 0
      /\ row.dir = "DEBIT" => d < 0
      /\ row.ccy = "USD" => d \in {row.amount, -row.amount}
  BY <1>3, SignedIs, Zenon
<1>6. ~ BalanceFails(row, previous)
  BY <1>1, <1>4, <1>5, SMT DEF BalanceFails
<1> QED
  BY <1>2, <1>6, Zenon DEF BankRowFault

\* Each of the first n rows moves the balance of the row before it.
Ledger(rs, opening, n) ==
  \A i \in 1..n : rs[i].balance = (IF i = 1 THEN opening ELSE rs[i - 1].balance) + Signed(rs[i])

OwnIds(rs) == \A i, j \in DOMAIN rs : rs[i].id = rs[j].id => i = j

Balanced(s) ==
  /\ s.rows # <<>> /\ OwnIds(s.rows)
  /\ Ledger(s.rows, s.opening, Len(s.rows))
  /\ s.closing = Last(s.rows).balance

\* The ledgers balance: that of the month in work as far as it is posted, and
\* those of the statements.
LedgersBalance ==
  /\ stage = "balance" => OwnIds(rows) /\ Ledger(rows, Opening, posted)
  /\ \A k \in DOMAIN statements : Balanced(statements[k])

\* No row of a balanced statement is refused.
LEMMA RowsRead ==
  ASSUME NEW s \in BankStatement, Balanced(s)
  PROVE  /\ s.rows \in Seq(Posted) /\ s.rows # <<>> /\ s.closing \in Int
         /\ s = [id |-> s.id, account |-> s.account, user |-> s.user, start |-> s.start,
                 end |-> s.end, opening |-> s.opening, closing |-> s.closing, rows |-> s.rows]
         /\ \A i \in 1..Len(s.rows) :
              BankRowFault(Row("TRANSACTIONS", s.rows[i]),
                           IF i = 1 THEN s.opening ELSE s.rows[i - 1].balance, FALSE) = "none"
         /\ s.rows[Len(s.rows)].balance = s.closing
<1>1. /\ s.rows \in Seq(Posted) /\ s.opening \in Int /\ s.closing \in Int
      /\ s = [id |-> s.id, account |-> s.account, user |-> s.user, start |-> s.start,
              end |-> s.end, opening |-> s.opening, closing |-> s.closing, rows |-> s.rows]
  BY DEF BankStatement
<1>2. /\ s.rows # <<>> /\ OwnIds(s.rows) /\ Ledger(s.rows, s.opening, Len(s.rows))
      /\ s.closing = Last(s.rows).balance
  BY DEF Balanced
<1>3. PICK n \in Nat : n = Len(s.rows) /\ DOMAIN s.rows = 1..n
  BY <1>1
<1>4. \A i \in 1..n : s.rows[i] \in Posted /\ s.rows[i].balance \in Int
  <2>1. \A i \in 1..n : s.rows[i] \in Posted
    BY <1>1, <1>3
  <2>2. \A r \in Posted : r.balance \in Int
    BY SMT DEF Posted
  <2> QED BY <2>1, <2>2, Zenon
<1>5. ASSUME NEW i \in 1..n
      PROVE  BankRowFault(Row("TRANSACTIONS", s.rows[i]),
                           IF i = 1 THEN s.opening ELSE s.rows[i - 1].balance, FALSE) = "none"
  <2> DEFINE previous == IF i = 1 THEN s.opening ELSE s.rows[i - 1].balance
  <2>1. previous \in Int
    <3>1. i # 1 => i - 1 \in 1..n
      BY <1>3
    <3> QED BY <1>1, <1>4, <3>1, Zenon
  <2>2. s.rows[i].balance = previous + Signed(s.rows[i])
    BY <1>2, <1>3, Zenon DEF Ledger
  <2> HIDE DEF previous
  <2>3. BankRowFault(Row("TRANSACTIONS", s.rows[i]), previous, FALSE) = "none"
    BY <1>4, <2>1, <2>2, RowReads
  <2> QED BY <2>3 DEF previous
<1>6. s.rows[Len(s.rows)].balance = s.closing
  BY <1>2, Zenon DEF Last
<1> QED
  BY <1>1, <1>2, <1>3, <1>5, <1>6, Zenon

\* A balanced statement is read as it was generated, and its rows are found on
\* a page that shows them.
LEMMA BalancedReads ==
  ASSUME NEW s \in BankStatement, Balanced(s)
  PROVE  /\ Parse(RenderBank(s)) = Parsed(s)
         /\ \A i \in DOMAIN s.rows :
              Row("TRANSACTIONS", s.rows[i])
                \in ToSet(RenderBank(s)[LineSourcePage(RenderBank(s), s.rows[i].id)])
<1>1. /\ s.rows \in Seq(Posted) /\ s.rows # <<>>
      /\ s = [id |-> s.id, account |-> s.account, user |-> s.user, start |-> s.start,
              end |-> s.end, opening |-> s.opening, closing |-> s.closing, rows |-> s.rows]
      /\ \A i \in 1..Len(s.rows) :
           BankRowFault(Row("TRANSACTIONS", s.rows[i]),
                           IF i = 1 THEN s.opening ELSE s.rows[i - 1].balance, FALSE) = "none"
      /\ s.rows[Len(s.rows)].balance = s.closing
  BY RowsRead
<1>2. Parse(RenderBank(s)) = Parsed(s)
  BY ONLY <1>1, BankReads
<1>3. DOMAIN s.rows = 1..Len(s.rows)
  BY <1>1
<1>4. ASSUME NEW i \in DOMAIN s.rows
      PROVE  Row("TRANSACTIONS", s.rows[i])
               \in ToSet(RenderBank(s)[LineSourcePage(RenderBank(s), s.rows[i].id)])
  <2>1. \A j, k \in 1..Len(s.rows) : s.rows[j].id = s.rows[k].id => j = k
    BY <1>3, Zenon DEF Balanced, OwnIds
  <2>2. i \in 1..Len(s.rows)
    BY <1>3
  <2> QED BY ONLY <1>1, <2>1, <2>2, BankPlaces
<1> QED
  BY <1>2, <1>4, Zenon

\* Sorted rows keep the identities they were numbered with.
LEMMA SortedIds ==
  ASSUME NEW u \in Users, NEW p \in Span, NEW all \in Seq(Dated(p))
  PROVE  OwnIds(Sorted(Numbered(u, p, all)))
<1> DEFINE N == Numbered(u, p, all)
           R == {N[i] : i \in DOMAIN all}
           sorted == Sorted(N)
<1>1. Orderable(N) /\ Len(N) = Len(all) /\ N \in Seq(PostedIn(p))
  BY NumberedRows
<1>2. \A i \in DOMAIN all : N[i].id = <<"TXN", u, MonthOf(p.start), i>>
  BY DEF Numbered
<1> HIDE DEF N
<1>3. PICK n \in Nat : n = Len(all) /\ n = Len(N) /\ DOMAIN all = 1..n /\ DOMAIN N = 1..n
  BY <1>1
<1>4. N \in Seq(R)
  BY <1>1, <1>3
<1>5. /\ sorted \in Seq(R) /\ Len(sorted) = Len(N)
      /\ \A k, l \in 1..Len(N) : k < l => Precedes(sorted[k], sorted[l])
  <2> HIDE DEF R
  <2> QED BY <1>1, <1>4, SortedRows
<1> HIDE DEF sorted
<1>6. DOMAIN sorted = 1..n /\ \A k \in 1..n : sorted[k] \in R
  BY <1>3, <1>5
<1>7. ASSUME NEW k \in 1..n, NEW l \in 1..n, sorted[k].id = sorted[l].id
      PROVE  sorted[k] = sorted[l]
  <2>1. PICK i \in 1..n, j \in 1..n : sorted[k] = N[i] /\ sorted[l] = N[j]
    BY <1>3, <1>6
  <2>2. i = j
    BY <1>2, <1>3, <1>7, <2>1
  <2> QED BY <2>1, <2>2
<1>8. ASSUME NEW k \in 1..n PROVE ~ Precedes(sorted[k], sorted[k])
  <2>1. PICK i \in DOMAIN N : sorted[k] = N[i]
    BY <1>3, <1>6
  <2> QED BY <1>1, <2>1, PrecedesIsTotal
<1>9. ASSUME NEW k \in 1..n, NEW l \in 1..n, sorted[k].id = sorted[l].id
      PROVE  k = l
  <2>1. ~ Precedes(sorted[k], sorted[l]) /\ ~ Precedes(sorted[l], sorted[k])
    BY <1>7, <1>8, <1>9, Zenon
  <2>2. ~ (k < l) /\ ~ (l < k)
    BY <1>3, <1>5, <2>1, Zenon
  <2> QED BY <2>2
<1> QED
  BY <1>6, <1>9, Zenon DEF OwnIds, sorted, N

LEMMA LedgersAtSort ==
  ASSUME Kept, LedgersBalance, InjectAndSort
  PROVE  LedgersBalance'
<1> DEFINE all == rows \o Anomalies(Period, index)
<1>1. /\ stage = "fill" /\ posted' = 0 /\ rows' = Sorted(Numbered(user, Period, all))
      /\ statements' = statements
  BY DEF InjectAndSort
<1>2. Period \in Span /\ index \in Nat /\ user \in Users
  BY PeriodIs DEF Kept, GeneratorType
<1>3. all \in Seq(Dated(Period))
  <2>1. rows \in Seq(Dated(Period))
    BY <1>1 DEF Kept, MonthInWork
  <2>2. Anomalies(Period, index) \in Seq(Dated(Period))
    BY <1>2, AnomalyRows
  <2> QED BY <2>1, <2>2, SMT
<1> HIDE DEF all
<1>4. OwnIds(rows')
  BY <1>1, <1>2, <1>3, SortedIds, Zenon
<1>5. Ledger(rows', Opening', posted')
  BY <1>1 DEF Ledger
<1> QED
  BY <1>1, <1>4, <1>5, Zenon DEF LedgersBalance, OwnIds, Ledger

LEMMA LedgersAtBalance ==
  ASSUME Kept, LedgersBalance, BalanceRow
  PROVE  LedgersBalance'
<1> DEFINE running == IF posted = 0 THEN Opening ELSE rows[posted].balance
<1>1. PICK k : k = posted + 1
  OBVIOUS
<1> DEFINE row == [rows[k] EXCEPT !.balance = running + Signed(rows[k])]
<1>2. /\ stage = "balance" /\ posted < Len(rows) /\ posted' = k
      /\ rows' = [rows EXCEPT ![k] = row]
      /\ index' = index /\ user' = user /\ statements' = statements
  BY <1>1 DEF BalanceRow
<1>3. Opening' = Opening
  BY <1>2 DEF Opening, FirstOpening
<1>4. PICK n \in Nat : n = Len(rows) /\ DOMAIN rows = 1..n /\ \A i \in 1..n : rows[i] \in Posted
  BY <1>2 DEF Kept, MonthInWork, PostedIn
<1>5. posted \in Nat /\ k \in 1..n /\ k \in Nat /\ k - 1 = posted
  BY <1>1, <1>2, <1>4 DEF Kept, GeneratorType
<1>6. OwnIds(rows) /\ Ledger(rows, Opening, posted)
  BY <1>2 DEF LedgersBalance
<1>7. /\ row.id = rows[k].id /\ row.balance = running + Signed(rows[k])
      /\ Signed(row) = Signed(rows[k])
  <2>1. /\ row.id = rows[k].id /\ row.amount = rows[k].amount /\ row.ccy = rows[k].ccy
        /\ row.dir = rows[k].dir /\ row.balance = running + Signed(rows[k])
    <3>1. rows[k] \in Posted
      BY <1>4, <1>5
    <3> HIDE DEF running
    <3> QED BY <3>1 DEF Posted
  <2> HIDE DEF row
  <2>2. ToUsd(row) = ToUsd(rows[k])
    BY <2>1 DEF ToUsd
  <2> QED BY <2>1, <2>2 DEF Signed
<1> HIDE DEF row
<1>8. /\ DOMAIN rows' = 1..n /\ rows'[k] = row /\ \A i \in 1..n : i # k => rows'[i] = rows[i]
  BY <1>2, <1>4, <1>5
<1>9. OwnIds(rows')
  <2>1. \A i \in 1..n : rows'[i].id = rows[i].id
    BY <1>7, <1>8, Zenon
  <2> QED BY <1>4, <1>6, <1>8, <2>1, Zenon DEF OwnIds
<1>10. Ledger(rows', Opening', posted')
  <2>1. ASSUME NEW i \in 1..k
        PROVE  rows'[i].balance
                 = (IF i = 1 THEN Opening ELSE rows'[i - 1].balance) + Signed(rows'[i])
    <3>1. CASE i = k
      <4>1. running = IF i = 1 THEN Opening ELSE rows'[i - 1].balance
        <5>1. i = 1 <=> posted = 0
          BY <1>1, <1>5, <3>1
        <5>2. i # 1 => i - 1 = posted /\ rows'[i - 1] = rows[posted]
          <6>1. i # 1 => i - 1 \in 1..n /\ i - 1 # k
            BY <1>4, <1>5, <3>1
          <6> QED BY <1>5, <1>8, <3>1, <6>1, Zenon
        <5> QED BY <5>1, <5>2, Zenon
      <4> HIDE DEF running
      <4> QED BY <1>7, <1>8, <3>1, <4>1, <1>5, Zenon
    <3>2. CASE i # k
      <4>1. /\ i \in 1..posted /\ i \in 1..n /\ rows'[i] = rows[i]
            /\ i # 1 => i - 1 \in 1..n /\ i - 1 # k
        BY <1>1, <1>4, <1>5, <1>8, <3>2
      <4>2. i # 1 => rows'[i - 1] = rows[i - 1]
        BY <1>8, <4>1, Zenon
      <4>3. rows[i].balance = (IF i = 1 THEN Opening ELSE rows[i - 1].balance) + Signed(rows[i])
        BY <1>6, <4>1, Zenon DEF Ledger
      <4> QED BY <4>1, <4>2, <4>3, Zenon
    <3> QED BY <3>1, <3>2, Zenon
  <2> QED BY <1>2, <1>3, <2>1, Zenon DEF Ledger
<1> QED
  BY <1>2, <1>9, <1>10, Zenon DEF LedgersBalance, OwnIds, Ledger

LEMMA LedgersAtFinish ==
  ASSUME Kept, LedgersBalance, FinishMonth
  PROVE  LedgersBalance'
<1> DEFINE s == Statement(user, Period, rows, Opening)
<1>1. /\ stage = "balance" /\ posted = Len(rows) /\ stage' # "balance"
      /\ statements' = Append(statements, s) \/ statements' = <<>>
  BY DEF FinishMonth
<1>2. Balanced(s)
  <2>1. OwnIds(rows) /\ Ledger(rows, Opening, Len(rows)) /\ rows # <<>>
    BY <1>1 DEF LedgersBalance, Kept, MonthInWork
  <2>2. s.rows = rows /\ s.opening = Opening /\ s.closing = Last(rows).balance
    BY DEF Statement
  <2> HIDE DEF s
  <2> QED BY <2>1, <2>2, Zenon DEF Balanced
<1>3. statements \in Seq(BankStatement) /\ \A k \in DOMAIN statements : Balanced(statements[k])
  BY DEF Kept, GeneratorType, LedgersBalance
<1> HIDE DEF s
<1>4. \A k \in DOMAIN statements' : Balanced(statements'[k])
  <2>1. CASE statements' = Append(statements, s)
    <3>1. /\ Len(statements) \in Nat /\ DOMAIN Append(statements, s) = 1..(Len(statements) + 1)
          /\ \A k \in 1..Len(statements) : Append(statements, s)[k] = statements[k]
          /\ Append(statements, s)[Len(statements) + 1] = s
          /\ DOMAIN statements = 1..Len(statements)
      BY <1>3
    <3>2. ASSUME NEW k \in 1..(Len(statements) + 1)
          PROVE  k \in 1..Len(statements) \/ k = Len(statements) + 1
      BY <3>1
    <3> QED BY <1>2, <1>3, <2>1, <3>1, <3>2, Zenon
  <2>2. CASE statements' = <<>>
    BY <2>2
  <2> QED BY <1>1, <2>1, <2>2
<1> QED
  BY <1>1, <1>4, Zenon DEF LedgersBalance, Balanced, OwnIds, Ledger

LEMMA LedgersStep ==
  ASSUME Kept, LedgersBalance, Generate
  PROVE  LedgersBalance'
<1>1. ASSUME statements' = statements, stage' # "balance" PROVE LedgersBalance'
  BY <1>1 DEF LedgersBalance
<1>2. CASE StartMonth
  BY <1>1, <1>2 DEF StartMonth
<1>3. CASE Fill
  BY <1>1, <1>3 DEF Fill
<1>4. CASE InjectAndSort
  BY <1>4, LedgersAtSort
<1>5. CASE BalanceRow
  BY <1>5, LedgersAtBalance
<1>6. CASE FinishMonth
  BY <1>6, LedgersAtFinish
<1> QED
  BY <1>2, <1>3, <1>4, <1>5, <1>6 DEF Generate

---------------------------------------------------------------------------
(* The books as they are printed.                                          *)

LEMMA CurrentLists ==
  ASSUME NEW book, NEW day, NEW made, made = CurrentBook(book, day)
  PROVE  /\ DOMAIN made.sales = DOMAIN book.sales
         /\ made.dividends = [i \in DOMAIN book.dividends |-> made.dividends[i]]
         /\ made.purchases = [i \in DOMAIN book.purchases |-> made.purchases[i]]
<1> DEFINE lots == [i \in DOMAIN book.lots |-> MovedLot(book.lots[i], day)]
           Sold(i) == [book.sales[i] EXCEPT !.acquired = Shift(@, day), !.sold = Shift(@, day)]
           sales == [i \in DOMAIN book.sales |-> Sold(i)]
           Bought(i) == PatchedPurchase(MovedEvent(book.purchases[i], day), book.wash, day)
           purchases == [i \in DOMAIN book.purchases |-> Bought(i)]
           Paid(i) == PatchedDividend(MovedEvent(book.dividends[i], day), purchases)
           dividends == [i \in DOMAIN book.dividends |-> Paid(i)]
           current == [symbols |-> book.symbols, wash |-> book.wash, lots |-> lots,
                       sales |-> sales, purchases |-> purchases, dividends |-> dividends]
<1>1. made = current
  BY Zenon DEF CurrentBook, MovedLot, MovedEvent
<1> HIDE DEF Sold, Bought, Paid
<1>2. DOMAIN sales = DOMAIN book.sales
  OBVIOUS
<1>3. purchases = [i \in DOMAIN book.purchases |-> purchases[i]]
  OBVIOUS
<1> HIDE DEF purchases
<1>4. dividends = [i \in DOMAIN book.dividends |-> dividends[i]]
  OBVIOUS
<1> HIDE DEF lots, sales, dividends
<1>5. /\ current.sales = sales /\ current.purchases = purchases
      /\ current.dividends = dividends
  OBVIOUS
<1> HIDE DEF current
<1> QED
  BY <1>1, <1>2, <1>3, <1>4, <1>5, Zenon

LEMMA MappedIsSeq ==
  ASSUME NEW n \in Nat, NEW f, f = [i \in 1..n |-> f[i]], NEW R, \A i \in 1..n : f[i] \in R
  PROVE  f \in Seq(R)
OBVIOUS

LEMMA SeqWiden ==
  ASSUME NEW X, NEW f, f \in Seq(X), NEW R, ToSet(f) \subseteq R
  PROVE  f \in Seq(R)
<1>1. PICK n \in Nat : n = Len(f) /\ DOMAIN f = 1..n /\ f = [i \in 1..n |-> f[i]]
  OBVIOUS
<1>2. \A i \in 1..n : f[i] \in R
  BY <1>1, Zenon DEF ToSet
<1> QED
  BY ONLY n \in Nat, <1>1, <1>2, MappedIsSeq

\* The lists of a book, of either day.
Lists(book) ==
  /\ book.symbols \in Seq(STRING)
  /\ \E n \in Nat : DOMAIN book.lots = 1..n
                    /\ \A i \in 1..n : /\ book.lots[i].symbol \in STRING
                                       /\ book.lots[i].unit \in Int /\ book.lots[i].qty \in Int
  /\ \E n \in Nat : DOMAIN book.sales = 1..n
  /\ Listing(book.dividends) /\ Listing(book.purchases)

LEMMA HistoricalLists ==
  ASSUME NEW p \in Portfolios
  PROVE  Lists(Books[p])
<1> DEFINE book == Books[p]
<1>1. /\ book.symbols \in Seq(STRING) /\ book.lots \in Seq(BookLots)
      /\ book.sales \in Seq(BookSales) /\ book.dividends \in Seq(BookDividends)
      /\ book.purchases \in Seq(BookPurchases)
  BY BookIs DEF BookRecords
<1> HIDE DEF book
<1>2. PICK n \in Nat : DOMAIN book.lots = 1..n /\ \A i \in 1..n : book.lots[i] \in BookLots
  BY <1>1
<1>3. \A l \in BookLots : l.symbol \in STRING /\ l.unit \in Int /\ l.qty \in Int
  BY SMT DEF BookLots
<1>4. \E k \in Nat : DOMAIN book.sales = 1..k
  BY <1>1
<1>5. Listing(book.dividends) /\ Listing(book.purchases)
  BY <1>1, Zenon DEF Listing
<1> QED
  BY <1>1, <1>2, <1>3, <1>4, <1>5, Zenon DEF Lists, book

LEMMA MovedLists ==
  ASSUME NEW p \in Portfolios, NEW day
  PROVE  Lists(CurrentBook(Books[p], day))
<1> DEFINE old == Books[p]
           book == CurrentBook(old, day)
<1>1. /\ old.symbols \in Seq(STRING) /\ old.lots \in Seq(BookLots)
      /\ old.sales \in Seq(BookSales) /\ old.dividends \in Seq(BookDividends)
      /\ old.purchases \in Seq(BookPurchases)
  BY BookIs DEF BookRecords
<1> HIDE DEF old
<1>2. PICK made : made = book
  OBVIOUS
<1> HIDE DEF book
<1>3. /\ made.symbols = old.symbols /\ DOMAIN made.lots = DOMAIN old.lots
      /\ \A i \in DOMAIN old.lots : made.lots[i] = MovedLot(old.lots[i], day)
  <2>1. made = CurrentBook(old, day)
    BY <1>2 DEF book
  <2> QED BY ONLY <2>1, CurrentBookIs
<1>4. /\ DOMAIN made.sales = DOMAIN old.sales
      /\ made.dividends = [i \in DOMAIN old.dividends |-> made.dividends[i]]
      /\ made.purchases = [i \in DOMAIN old.purchases |-> made.purchases[i]]
  <2>1. made = CurrentBook(old, day)
    BY <1>2 DEF book
  <2> QED BY ONLY <2>1, CurrentLists
<1>5. PICK n \in Nat : DOMAIN old.lots = 1..n /\ \A i \in 1..n : old.lots[i] \in BookLots
  BY <1>1
<1>6. ASSUME NEW l \in BookLots
      PROVE  LET m == MovedLot(l, day)
             IN  m.symbol \in STRING /\ m.unit \in Int /\ m.qty \in Int
  BY SMT DEF BookLots, MovedLot
<1>7. \A i \in 1..n : /\ made.lots[i].symbol \in STRING
                      /\ made.lots[i].unit \in Int /\ made.lots[i].qty \in Int
  BY <1>3, <1>5, <1>6, Zenon
<1>8. \E k \in Nat : DOMAIN made.sales = 1..k
  BY <1>1, <1>4
<1>9. Listing(made.dividends)
  <2>1. PICK k \in Nat : DOMAIN old.dividends = 1..k
    BY <1>1
  <2>2. PICK f : f = made.dividends /\ f = [i \in 1..k |-> f[i]]
    BY <1>4, <2>1, Zenon
  <2>3. f \in Seq({f[i] : i \in 1..k})
    BY <2>2
  <2> QED BY <2>2, <2>3, Zenon DEF Listing
<1>10. Listing(made.purchases)
  <2>1. PICK k \in Nat : DOMAIN old.purchases = 1..k
    BY <1>1
  <2>2. PICK f : f = made.purchases /\ f = [i \in 1..k |-> f[i]]
    BY <1>4, <2>1, Zenon
  <2>3. f \in Seq({f[i] : i \in 1..k})
    BY <2>2
  <2> QED BY <2>2, <2>3, Zenon DEF Listing
<1>11. Lists(made)
  BY <1>1, <1>3, <1>5, <1>7, <1>8, <1>9, <1>10, Zenon DEF Lists
<1> QED
  BY <1>2, <1>11 DEF book, old

\* A rounded amount is the amount to half a cent.
LEMMA HalfEvenIsNear ==
  ASSUME NEW x \in Int
  PROVE  100 * HalfEven(x, 100) - x \in (-50)..50
<1>1. PICK q \in Int, r \in 0..99 : q = x \div 100 /\ r = x % 100 /\ x = 100 * q + r
  BY SMT
<1>2. HalfEven(x, 100) = IF 2 * r < 100 \/ (2 * r = 100 /\ q % 2 = 0) THEN q ELSE q + 1
  BY <1>1, Zenon DEF HalfEven
<1>3. \/ HalfEven(x, 100) = q /\ 2 * r <= 100
      \/ HalfEven(x, 100) = q + 1 /\ 2 * r >= 100
  <2>1. r \in Int
    BY <1>1
  <2>2. CASE 2 * r < 100
    BY <1>2, <2>1, <2>2, SMT
  <2>3. CASE 2 * r > 100
    BY <1>2, <2>1, <2>3, SMT
  <2>4. CASE 2 * r = 100
    BY <1>2, <2>1, <2>4, SMT
  <2> QED BY <2>1, <2>2, <2>3, <2>4, SMT
<1> QED
  BY <1>1, <1>3, SMT

\* What a printed lot keeps of its specification.
LEMMA LotIsPrinted ==
  ASSUME NEW l, l.unit \in Int, l.qty \in Int
  PROVE  LET lot == LotSpec(l)  printed == LotCells(lot)
         IN  /\ LotReadable(printed) /\ printed.id = lot.id
             /\ Near(printed.basis, lot.basis)
<1> DEFINE lot == LotSpec(l)
           printed == LotCells(lot)
<1>1. PICK b \in Int : b = IF l.unit = NoAmount THEN NoAmount ELSE l.unit * l.qty
  BY SMT DEF NoAmount
<1>2. lot = [id |-> l.id, symbol |-> l.symbol, acquired |-> l.acquired, qty |-> l.qty,
             unit |-> l.unit, basis |-> b, missing |-> l.unit = NoAmount]
  BY <1>1, Zenon DEF LotSpec
<1> DEFINE cents == IF b = NoAmount THEN b ELSE HalfEven(b, 100)
<1>3. /\ lot.basis = b /\ lot.unit = l.unit /\ lot.id = l.id
      /\ lot.missing = (l.unit = NoAmount)
  BY <1>2
<1>4. printed = [lot EXCEPT !.basis = cents]
  BY <1>3, Zenon DEF LotCells
<1> HIDE DEF cents
<1>5. /\ printed.basis = cents /\ printed.id = l.id /\ printed.unit = l.unit
      /\ printed.missing = (l.unit = NoAmount)
  BY <1>2, <1>4
<1> HIDE DEF lot, printed
<1>6. LotReadable(printed)
  BY <1>5, Zenon DEF LotReadable
<1>7. Near(cents, b)
  <2>1. 100 * HalfEven(b, 100) - b \in (-50)..50
    BY HalfEvenIsNear
  <2> QED BY <2>1, Zenon DEF Near, cents
<1> QED
  BY <1>3, <1>5, <1>6, <1>7, Zenon DEF lot, printed

LEMMA SaleIsReconciled ==
  ASSUME NEW s
  PROVE  SaleReconciles(SaleSpec(s))
<1> DEFINE proceeds == HalfEven(s.qty * s.price, 100)
           basis == HalfEven(s.qty * s.unit, 100)
           sale == SaleSpec(s)
<1>1. sale = [id |-> s.id, symbol |-> s.symbol, acquired |-> s.acquired, sold |-> s.sold,
              qty |-> s.qty, price |-> s.price, proceeds |-> proceeds, basis |-> basis,
              result |-> proceeds - basis, period |-> s.period]
  BY Zenon DEF SaleSpec
<1> HIDE DEF basis, sale
<1>2. /\ sale.qty = s.qty /\ sale.price = s.price /\ sale.proceeds = proceeds
      /\ sale.result = proceeds - basis /\ sale.basis = basis
  <2> HIDE DEF proceeds
  <2> QED BY <1>1
<1>3. SaleReconciles(sale)
  BY <1>2, Zenon DEF SaleReconciles
<1> QED
  BY <1>3 DEF sale

\* The statement of a book.
BookStatement(p, day, book, start) ==
  [id |-> <<"BRK", p, day>>, account |-> p, user |-> p, start |-> start, end |-> day,
   holdings |-> HoldingsFromLots(book.symbols, [i \in DOMAIN book.lots |-> LotSpec(book.lots[i])]),
   lots |-> [i \in DOMAIN book.lots |-> LotSpec(book.lots[i])],
   sales |-> [i \in DOMAIN book.sales |-> SaleSpec(book.sales[i])],
   dividends |-> book.dividends, purchases |-> book.purchases,
   realized |-> Realized([i \in DOMAIN book.sales |-> SaleSpec(book.sales[i])])]

LEMMA SpecIsStatement ==
  ASSUME NEW p \in Portfolios, NEW day, NEW current
  PROVE  \E end, book, start : /\ Lists(book)
                               /\ BrokerageSpec(p, day, current) = BookStatement(p, end, book, start)
<1> DEFINE end == IF current THEN day ELSE HistoricalDay
           book == IF current THEN CurrentBook(Books[p], day) ELSE Books[p]
           start == Shift(HistoricalDay - 166, end)
<1>1. Lists(book)
  <2>1. Lists(CurrentBook(Books[p], day)) /\ Lists(Books[p])
    BY MovedLists, HistoricalLists
  <2> QED BY <2>1, Zenon
<1>2. BrokerageSpec(p, day, current) = BookStatement(p, end, book, start)
  BY Zenon DEF BrokerageSpec, AssembleSpec, BookStatement
<1> HIDE DEF end, book, start
<1> QED
  BY <1>1, <1>2, Zenon

\* A brokerage statement as it is read agrees with the one generated: all but
\* the basis of the lots, and that to half a cent.
Agrees(read, s) ==
  /\ [read EXCEPT !.lots = <<>>] = [s EXCEPT !.lots = <<>>]
  /\ Len(read.lots) = Len(s.lots)
  /\ \A i \in DOMAIN read.lots :
       read.lots[i].id = s.lots[i].id /\ Near(read.lots[i].basis, s.lots[i].basis)

\* The records of the tables of a brokerage statement.
Tabled(s, R) ==
  /\ s.holdings \in Seq(R) /\ PrintedLots(s) \in Seq(R) /\ s.sales \in Seq(R)
  /\ s.dividends \in Seq(R) /\ s.purchases \in Seq(R)

LEMMA BookReads ==
  ASSUME NEW p, NEW day, NEW book, NEW start, Lists(book), NEW s,
         s = BookStatement(p, day, book, start)
  PROVE  /\ ~ IsBank(s)
         /\ Parse(RenderBrokerage(s)) = Parsed(ReadBack(s))
         /\ Agrees(ReadBack(s), s)
         /\ \E R : Tabled(s, R)
<1> DEFINE Lot(i) == LotSpec(book.lots[i])
           Sale(i) == SaleSpec(book.sales[i])
           lots == [i \in DOMAIN book.lots |-> Lot(i)]
           sales == [i \in DOMAIN book.sales |-> Sale(i)]
           holdings == HoldingsFromLots(book.symbols, lots)
           id == <<"BRK", p, day>>
           whole == [id |-> id, account |-> p, user |-> p, start |-> start, end |-> day,
                     holdings |-> holdings, lots |-> lots, sales |-> sales,
                     dividends |-> book.dividends, purchases |-> book.purchases,
                     realized |-> Realized(sales)]
<1>1. PICK n \in Nat, m \in Nat :
        /\ DOMAIN book.lots = 1..n /\ DOMAIN book.sales = 1..m
        /\ \A i \in 1..n : /\ book.lots[i].symbol \in STRING
                           /\ book.lots[i].unit \in Int /\ book.lots[i].qty \in Int
  BY Zenon DEF Lists
<1>2. book.symbols \in Seq(STRING) /\ Listing(book.dividends) /\ Listing(book.purchases)
  BY Zenon DEF Lists
<1>3. s = whole
  BY Zenon DEF BookStatement
<1> HIDE DEF Lot, Sale
<1>4. /\ DOMAIN lots = 1..n /\ \A i \in 1..n : lots[i] = Lot(i)
      /\ lots = [i \in 1..n |-> lots[i]]
  BY <1>1
<1>5. /\ DOMAIN sales = 1..m /\ \A i \in 1..m : sales[i] = Sale(i)
      /\ sales = [i \in 1..m |-> sales[i]]
  BY <1>1
<1> HIDE DEF lots, sales, holdings, id
<1>6. /\ s.holdings = holdings /\ s.lots = lots /\ s.sales = sales
      /\ s.dividends = book.dividends /\ s.purchases = book.purchases
      /\ s.realized = Realized(sales) /\ s.id = id /\ s.account = p /\ s.user = p
      /\ s.start = start /\ s.end = day /\ "rows" \notin DOMAIN s
  BY <1>3
<1>7. Listing(holdings)
  <2> DEFINE named == [i \in DOMAIN lots |-> lots[i].symbol]
             all == AllListed(book.symbols, named)
             Holding(i) == [id |-> all[i], qty |-> HeldOf(all[i], lots)]
             held == [i \in DOMAIN all |-> Holding(i)]
  <2>1. holdings = held
    BY HoldingsAre, Zenon DEF holdings
  <2>2. \A i \in 1..n : lots[i].symbol \in STRING
    <3>1. \A l : LotSpec(l).symbol = l.symbol
      BY DEF LotSpec
    <3> QED BY <1>1, <1>4, <3>1, Zenon DEF Lot
  <2>3. DOMAIN named = 1..n /\ \A i \in 1..n : named[i] \in STRING
    BY <1>4, <2>2
  <2> HIDE DEF named
  <2>4. all \in Seq(STRING)
    <3>1. n \in Nat
      OBVIOUS
    <3> QED BY ONLY <1>2, <2>3, <3>1, AllListedIs
  <2> HIDE DEF all, Holding
  <2>5. PICK k \in Nat : DOMAIN all = 1..k
    BY <2>4
  <2>6. PICK f : f = held /\ f = [i \in 1..k |-> f[i]]
    BY <2>5
  <2>7. f \in Seq({f[i] : i \in 1..k})
    BY <2>6
  <2> HIDE DEF held
  <2> QED BY <2>1, <2>6, <2>7, Zenon DEF Listing
<1>8. Listing(sales)
  <2>1. PICK f : f = sales /\ f = [i \in 1..m |-> f[i]]
    BY <1>5, Zenon
  <2>2. f \in Seq({f[i] : i \in 1..m})
    BY <2>1
  <2> QED BY <2>1, <2>2, Zenon DEF Listing
<1> DEFINE Cents(i) == LotCells(s.lots[i])
           printed == PrintedLots(s)
<1>9. /\ DOMAIN printed = 1..n /\ \A i \in 1..n : printed[i] = LotCells(lots[i])
      /\ printed = [i \in 1..n |-> printed[i]]
  <2>1. printed = [i \in 1..n |-> Cents(i)]
    BY <1>4, <1>6, Zenon DEF PrintedLots
  <2>2. \A i \in 1..n : Cents(i) = LotCells(lots[i])
    BY <1>6, Zenon
  <2> HIDE DEF Cents, printed
  <2>3. /\ DOMAIN printed = 1..n /\ \A i \in 1..n : printed[i] = Cents(i)
        /\ printed = [i \in 1..n |-> printed[i]]
    BY <2>1
  <2> QED BY <2>2, <2>3, Zenon
<1> HIDE DEF printed
<1>10. Listing(printed)
  <2>1. PICK f : f = printed /\ f = [i \in 1..n |-> f[i]]
    BY <1>9, Zenon
  <2>2. f \in Seq({f[i] : i \in 1..n})
    BY <2>1
  <2> QED BY <2>1, <2>2, Zenon DEF Listing
<1>11. \A i \in 1..n : /\ LotReadable(printed[i]) /\ printed[i].id = lots[i].id
                       /\ Near(printed[i].basis, lots[i].basis)
  <2> SUFFICES ASSUME NEW i \in 1..n
               PROVE  /\ LotReadable(printed[i]) /\ printed[i].id = lots[i].id
                      /\ Near(printed[i].basis, lots[i].basis)
    BY Zenon
  <2>1. PICK l : l = book.lots[i]
    OBVIOUS
  <2>2. l.unit \in Int /\ l.qty \in Int
    BY <1>1, <2>1
  <2>3. lots[i] = LotSpec(l) /\ printed[i] = LotCells(LotSpec(l))
    BY <1>4, <1>9, <2>1, Zenon DEF Lot
  <2>4. /\ LotReadable(LotCells(LotSpec(l))) /\ LotCells(LotSpec(l)).id = LotSpec(l).id
        /\ Near(LotCells(LotSpec(l)).basis, LotSpec(l).basis)
    BY <2>2, LotIsPrinted, Zenon
  <2> QED BY <2>3, <2>4, Zenon
<1>12. \A i \in 1..m : SaleReconciles(sales[i])
  BY <1>5, SaleIsReconciled, Zenon DEF Sale
<1>13. Parse(RenderBrokerage(s)) = Parsed(ReadBack(s)) /\ \E R : Tabled(s, R)
  <2>1. PICK R1, R2, R3, R4, R5 :
          /\ holdings \in Seq(R1) /\ printed \in Seq(R2) /\ sales \in Seq(R3)
          /\ book.dividends \in Seq(R4) /\ book.purchases \in Seq(R5)
    BY <1>2, <1>7, <1>8, <1>10, Zenon DEF Listing
  <2> DEFINE R == ToSet(holdings) \cup ToSet(printed) \cup ToSet(sales)
                    \cup ToSet(book.dividends) \cup ToSet(book.purchases)
  <2>2. /\ ToSet(holdings) \subseteq R /\ ToSet(printed) \subseteq R /\ ToSet(sales) \subseteq R
        /\ ToSet(book.dividends) \subseteq R /\ ToSet(book.purchases) \subseteq R
    OBVIOUS
  <2> HIDE DEF R
  <2>3. holdings \in Seq(R)
    BY ONLY <2>1, <2>2, SeqWiden
  <2>4. printed \in Seq(R)
    BY ONLY <2>1, <2>2, SeqWiden
  <2>5. sales \in Seq(R)
    BY ONLY <2>1, <2>2, SeqWiden
  <2>6. book.dividends \in Seq(R)
    BY ONLY <2>1, <2>2, SeqWiden
  <2>7. book.purchases \in Seq(R)
    BY ONLY <2>1, <2>2, SeqWiden
  <2>8. /\ s.holdings \in Seq(R) /\ PrintedLots(s) \in Seq(R) /\ s.sales \in Seq(R)
        /\ s.dividends \in Seq(R) /\ s.purchases \in Seq(R)
    BY <1>6, <2>3, <2>4, <2>5, <2>6, <2>7, Zenon DEF printed
  <2>9. \A i \in DOMAIN PrintedLots(s) : LotReadable(PrintedLots(s)[i])
    BY <1>9, <1>11, Zenon DEF printed
  <2>10. \A i \in DOMAIN s.sales : SaleReconciles(s.sales[i])
    BY <1>5, <1>6, <1>12, Zenon
  <2>11. s.realized = Realized(s.sales)
    BY <1>6, Zenon
  <2>12. Parse(RenderBrokerage(s)) = Parsed(ReadBack(s))
    BY ONLY <2>8, <2>9, <2>10, <2>11, BrokerageReads
  <2> QED BY <2>8, <2>12, Zenon DEF Tabled
<1>14. ReadBack(s) = [id |-> id, account |-> p, user |-> p, start |-> start, end |-> day,
                      holdings |-> holdings, lots |-> printed, sales |-> sales,
                      dividends |-> book.dividends, purchases |-> book.purchases,
                      realized |-> Realized(sales)]
  BY <1>6, Zenon DEF ReadBack, printed
<1>15. Agrees(ReadBack(s), s)
  <2> DEFINE read == ReadBack(s)
  <2>1. [read EXCEPT !.lots = <<>>] = [s EXCEPT !.lots = <<>>] /\ read.lots = printed
    BY <1>3, <1>14
  <2>2. Len(printed) = Len(lots)
    BY <1>4, <1>9
  <2> HIDE DEF read
  <2> QED BY <1>6, <1>9, <1>11, <2>1, <2>2, Zenon DEF Agrees, read
<1> QED
  BY <1>6, <1>13, <1>15, Zenon DEF IsBank

---------------------------------------------------------------------------
(* What is printed is read back.                                           *)

\* The file of a statement that suffered nothing is the statement as printed,
\* and an outcome is what the parser makes of the file.
FilesAre ==
  /\ IsBank(spec) => spec \in BankStatement /\ Balanced(spec)
  /\ spec # None /\ harm = "none" =>
       doc = IF IsBank(spec) THEN RenderBank(spec) ELSE RenderBrokerage(spec)
  /\ outcome # None => spec # None /\ outcome = Parse(doc)

RoundTripInv == GeneratedInv /\ LedgersBalance /\ FilesAre

LEMMA NoneIsNoBank == ~ IsBank(None)
BY DEF IsBank, None

LEMMA LedgersStutter ==
  ASSUME LedgersBalance, UNCHANGED generator
  PROVE  LedgersBalance'
<1>1. /\ stage' = stage /\ rows' = rows /\ posted' = posted /\ statements' = statements
      /\ user' = user /\ index' = index
  BY DEF generator
<1>2. Opening' = Opening
  BY <1>1 DEF Opening, FirstOpening
<1> QED
  BY <1>1, <1>2 DEF LedgersBalance

LEMMA LedgersKept ==
  ASSUME Kept, LedgersBalance, [Next]_vars
  PROVE  LedgersBalance'
<1>1. CASE Generating
  BY <1>1, LedgersStep DEF Generating
<1>2. CASE UNCHANGED generator
  BY <1>2, LedgersStutter
<1> QED
  BY <1>1, <1>2 DEF Next, PrintBank, PrintBrokerage, Suffer, ReadStatement, vars

LEMMA FilesAtPrintBank ==
  ASSUME Kept, LedgersBalance, FilesAre, PrintBank
  PROVE  FilesAre'
<1>1. PICK i \in DOMAIN statements : spec' = statements[i] /\ doc' = RenderBank(statements[i])
  BY DEF PrintBank
<1>2. spec = None /\ outcome' = outcome
  BY DEF PrintBank
<1>3. statements[i] \in BankStatement /\ Balanced(statements[i]) /\ IsBank(statements[i])
  BY StatementsAreBank DEF Kept, GeneratorType, LedgersBalance
<1>4. outcome' = None
  BY <1>2, Zenon DEF FilesAre
<1> QED
  BY <1>1, <1>3, <1>4, Zenon DEF FilesAre, IsBank, Balanced, OwnIds, Ledger

LEMMA FilesAtPrintBrokerage ==
  ASSUME FilesAre, PrintBrokerage
  PROVE  FilesAre'
<1>1. PICK p \in Portfolios : spec' = BrokerageSpec(p, asOf, asOf # HISTORICAL)
  BY DEF PrintBrokerage
<1>2. doc' = RenderBrokerage(spec') /\ spec = None /\ outcome' = outcome
  BY DEF PrintBrokerage
<1>3. ~ IsBank(spec')
  <2>1. PICK day, book, start :
          Lists(book) /\ BrokerageSpec(p, asOf, asOf # HISTORICAL) = BookStatement(p, day, book, start)
    BY SpecIsStatement, Zenon
  <2>2. ~ IsBank(BookStatement(p, day, book, start))
    BY <2>1, BookReads, Zenon
  <2> QED BY <1>1, <2>1, <2>2, Zenon
<1>4. outcome' = None
  BY <1>2, Zenon DEF FilesAre
<1> QED
  BY <1>2, <1>3, <1>4, Zenon DEF FilesAre, IsBank

LEMMA FilesStep ==
  ASSUME Kept, LedgersBalance, FilesAre, [Next]_vars
  PROVE  FilesAre'
<1>1. ASSUME spec' = spec, doc' = doc, harm' = harm, outcome' = outcome PROVE FilesAre'
  BY <1>1 DEF FilesAre, IsBank
<1>2. CASE Generating
  BY <1>1, <1>2 DEF Generating
<1>3. CASE PrintBank
  BY <1>3, FilesAtPrintBank
<1>4. CASE PrintBrokerage
  BY <1>4, FilesAtPrintBrokerage
<1>5. CASE Suffer
  <2>1. spec' = spec /\ outcome' = None /\ harm' \in Harms
    BY <1>5 DEF Suffer
  <2>2. harm' # "none"
    BY <2>1, HarmsAssumption
  <2> QED BY <2>1, <2>2 DEF FilesAre, IsBank
<1>6. CASE ReadStatement
  <2>1. spec' = spec /\ doc' = doc /\ harm' = harm /\ spec # None /\ outcome' = Parse(doc)
    BY <1>6 DEF ReadStatement
  <2> QED BY <2>1 DEF FilesAre, IsBank
<1>7. CASE UNCHANGED vars
  BY <1>1, <1>7 DEF vars
<1> QED
  BY <1>2, <1>3, <1>4, <1>5, <1>6, <1>7 DEF Next

LEMMA ParsedIs ==
  ASSUME NEW statement
  PROVE  Parsed(statement).status = "parsed" /\ Parsed(statement).statement = statement
BY DEF Parsed

LEMMA RoundTripHolds ==
  ASSUME Printed, FilesAre
  PROVE  RoundTrip
<1> SUFFICES ASSUME outcome # None, harm = "none"
             PROVE  RoundTrip
  BY Zenon DEF RoundTrip
<1>1. /\ spec # None /\ outcome = Parse(doc)
      /\ doc = IF IsBank(spec) THEN RenderBank(spec) ELSE RenderBrokerage(spec)
  BY Zenon DEF FilesAre
<1>2. CASE IsBank(spec)
  <2>1. /\ Parse(RenderBank(spec)) = Parsed(spec)
        /\ \A i \in DOMAIN spec.rows :
             Row("TRANSACTIONS", spec.rows[i])
               \in ToSet(RenderBank(spec)[LineSourcePage(RenderBank(spec), spec.rows[i].id)])
    <3>1. spec \in BankStatement /\ Balanced(spec)
      BY <1>2, Zenon DEF FilesAre
    <3> QED BY ONLY <3>1, BalancedReads
  <2>2. doc = RenderBank(spec)
    BY <1>1, <1>2, Zenon
  <2>3. outcome.status = "parsed" /\ outcome.statement = spec
    BY <1>1, <2>1, <2>2, ParsedIs, Zenon
  <2> QED BY <1>2, <2>1, <2>2, <2>3, Zenon DEF RoundTrip
<1>3. CASE ~ IsBank(spec)
  <2>1. PICK p \in Portfolios : spec = BrokerageSpec(p, asOf, asOf # HISTORICAL)
    BY <1>1, <1>3, Zenon DEF Printed
  <2>2. PICK day, book, start :
          Lists(book) /\ BrokerageSpec(p, asOf, asOf # HISTORICAL) = BookStatement(p, day, book, start)
    BY SpecIsStatement, Zenon
  <2>3. Parse(RenderBrokerage(spec)) = Parsed(ReadBack(spec)) /\ Agrees(ReadBack(spec), spec)
    <3>1. PICK s : s = spec
      OBVIOUS
    <3>2. s = BookStatement(p, day, book, start)
      BY <2>1, <2>2, <3>1, Zenon
    <3>3. Parse(RenderBrokerage(s)) = Parsed(ReadBack(s)) /\ Agrees(ReadBack(s), s)
      BY <2>2, <3>2, BookReads, Zenon
    <3> QED BY <3>1, <3>3, Zenon
  <2>4. outcome.status = "parsed" /\ outcome.statement = ReadBack(spec)
    BY <1>1, <1>3, <2>3, ParsedIs, Zenon
  <2> QED BY <1>3, <2>3, <2>4, Zenon DEF RoundTrip, Agrees
<1> QED
  BY <1>2, <1>3

LEMMA RoundTripStarts ==
  ASSUME Init
  PROVE  RoundTripInv
<1>1. LedgersBalance
  BY DEF Init, GeneratorInit, LedgersBalance
<1>2. FilesAre
  BY NoneIsNoBank, Zenon DEF Init, FilesAre
<1> QED
  BY <1>1, <1>2, GeneratedStarts, Zenon DEF RoundTripInv

LEMMA RoundTripStep ==
  ASSUME RoundTripInv, [Next]_vars
  PROVE  RoundTripInv'
<1>1. GeneratedInv /\ LedgersBalance /\ FilesAre
  BY Zenon DEF RoundTripInv
<1>2. Kept
  BY <1>1, Zenon DEF GeneratedInv, Kept
<1>3. GeneratedInv' /\ LedgersBalance' /\ FilesAre'
  BY <1>1, <1>2, GeneratedStep, LedgersKept, FilesStep
<1> QED
  BY <1>3, Zenon DEF RoundTripInv

\* An unharmed statement reads back as it was generated, the basis of each lot
\* to the cent, and each bank row is attributed to a page that shows it
\* (render_bank_pdf and parse_bank_pdf, render_brokerage_pdf and
\* parse_brokerage_pdf): for every page size, every as-of date and every book.
THEOREM RoundTripAlways == Spec => []RoundTrip
<1>1. Init => RoundTripInv
  BY RoundTripStarts
<1>2. RoundTripInv /\ [Next]_vars => RoundTripInv'
  BY RoundTripStep
<1>3. RoundTripInv => RoundTrip
  <2> SUFFICES ASSUME RoundTripInv PROVE RoundTrip
    OBVIOUS
  <2>1. Printed /\ FilesAre
    BY Zenon DEF RoundTripInv, GeneratedInv
  <2> QED BY <2>1, RoundTripHolds
<1> QED
  BY <1>1, <1>2, <1>3, PTL DEF Spec
---------------------------------------------------------------------------
(* What a file may hold and raise no exception but for its closing balance: *)
(* nothing wrong with a value that is not looked for, and a count of rows, *)
(* if any, that is not zero.                                               *)

Shaped(l) ==
  /\ l.kind = "row" => l = [kind |-> "row", of |-> l.of, cells |-> l.cells, fault |-> l.fault]
  /\ l.kind = "entry" =>
       l = [kind |-> "entry", key |-> l.key, value |-> l.value, fault |-> l.fault]

Sound(l) ==
  /\ Shaped(l)
  /\ l.kind \in {"row", "entry"} => l.fault \in Caught \cup {"none"}
  /\ l.kind = "entry" /\ l.key = "transaction_count" =>
       l.value \in Nat \ {0} /\ l.fault = "none"

SoundFile(d) == \E T : d \in Seq(Seq(T)) /\ \A l \in T : Sound(l)
SoundLines(c) == \E T : c \in Seq(T) /\ \A l \in T : Sound(l)

LEMMA FurnitureIsSound ==
  ASSUME NEW m, NEW l \in FurnitureOf(m)
  PROVE  Sound(l)
<1>1. l.kind \in Furniture
  BY FurnitureKinds
<1> QED
  BY <1>1 DEF Sound, Shaped, Furniture

LEMMA SoundBoth ==
  ASSUME NEW c, NEW d, SoundLines(c), SoundLines(d)
  PROVE  SoundLines(c \o d)
<1>1. PICK T : c \in Seq(T) /\ \A l \in T : Sound(l)
  BY Zenon DEF SoundLines
<1>2. PICK U : d \in Seq(U) /\ \A l \in U : Sound(l)
  BY Zenon DEF SoundLines
<1>3. c \in Seq(T \cup U) /\ d \in Seq(T \cup U)
  BY <1>1, <1>2
<1>4. c \o d \in Seq(T \cup U)
  BY ONLY <1>3, ConcatIs
<1>5. \A l \in T \cup U : Sound(l)
  BY <1>1, <1>2, Zenon
<1> QED
  BY <1>4, <1>5, Zenon DEF SoundLines

LEMMA SoundEntry ==
  ASSUME NEW key, NEW value, key = "transaction_count" => value \in Nat \ {0}
  PROVE  Sound(Entry(key, value))
<1> DEFINE l == Entry(key, value)
<1>1. l.kind = "entry" /\ l.key = key /\ l.value = value /\ l.fault = "none"
  BY DEF Entry
<1>2. l = [kind |-> "entry", key |-> l.key, value |-> l.value, fault |-> l.fault]
  BY <1>1, Zenon DEF Entry
<1> HIDE DEF l
<1>3. Sound(l)
  BY <1>1, <1>2 DEF Sound, Shaped
<1> QED
  BY <1>3 DEF l

LEMMA SoundRow ==
  ASSUME NEW name, NEW cells
  PROVE  Sound(Row(name, cells))
<1> DEFINE l == Row(name, cells)
<1>1. l.kind = "row" /\ l.fault = "none"
  BY DEF Row
<1>2. l = [kind |-> "row", of |-> l.of, cells |-> l.cells, fault |-> l.fault]
  BY DEF Row
<1> HIDE DEF l
<1>3. Sound(l)
  BY <1>1, <1>2 DEF Sound, Shaped
<1> QED
  BY <1>3 DEF l

LEMMA SoundSection ==
  ASSUME NEW name
  PROVE  Sound(Section(name)) /\ SoundLines(<<Section(name)>>)
<1> DEFINE T == {Section(name)}
<1>1. Sound(Section(name))
  BY DEF Sound, Shaped, Section
<1>2. <<Section(name)>> \in Seq(T)
  OBVIOUS
<1>3. \A l \in T : Sound(l)
  BY <1>1
<1> HIDE DEF T
<1> QED
  BY <1>1, <1>2, <1>3, Zenon DEF SoundLines

LEMMA SoundTable ==
  ASSUME NEW name, NEW R, NEW records, records \in Seq(R)
  PROVE  SoundLines(Table(name, records))
<1> DEFINE head == <<Section(name), Columns(name)>>
           body == Rows(name, records)
<1>1. PICK n \in Nat : n = Len(records) /\ DOMAIN records = 1..n
  OBVIOUS
<1>2. SoundLines(head)
  <2> DEFINE T == {Section(name), Columns(name)}
  <2>1. head \in Seq(T)
    OBVIOUS
  <2>2. Sound(Section(name)) /\ Sound(Columns(name))
    BY DEF Sound, Shaped, Section, Columns
  <2>3. \A l \in T : Sound(l)
    BY <2>2
  <2> HIDE DEF head, T
  <2> QED BY <2>1, <2>3, Zenon DEF SoundLines
<1>3. SoundLines(body)
  <2> DEFINE T == {Row(name, records[i]) : i \in 1..n}
  <2>1. body = [i \in 1..n |-> Row(name, records[i])]
    BY <1>1, Zenon DEF Rows
  <2>2. body \in Seq(T)
    <3> HIDE DEF body
    <3> QED BY <1>1, <2>1
  <2>3. ASSUME NEW i \in 1..n PROVE Sound(Row(name, records[i]))
    BY SoundRow
  <2>4. \A l \in T : Sound(l)
    BY <2>3
  <2> HIDE DEF body, T
  <2> QED BY <2>2, <2>4, Zenon DEF SoundLines
<1>4. Table(name, records) = head \o body
  BY Zenon DEF Table
<1> HIDE DEF head, body
<1> QED
  BY <1>2, <1>3, <1>4, SoundBoth

LEMMA BookIsSound ==
  ASSUME NEW s, NEW R, Tabled(s, R)
  PROVE  SoundLines(BrokerageContent(s))
<1>1. SoundLines(Identity(s))
  <2> DEFINE T == {Entry("statement_id", s.id), Entry("account_id", s.account),
                   Entry("user_id", s.user), Entry("period_start", s.start),
                   Entry("period_end", s.end), Entry("base_currency", "USD")}
  <2>1. Identity(s) \in Seq(T)
    BY DEF Identity
  <2>2. /\ Sound(Entry("statement_id", s.id)) /\ Sound(Entry("account_id", s.account))
        /\ Sound(Entry("user_id", s.user)) /\ Sound(Entry("period_start", s.start))
        /\ Sound(Entry("period_end", s.end)) /\ Sound(Entry("base_currency", "USD"))
    BY SoundEntry
  <2>3. \A l \in T : Sound(l)
    BY <2>2
  <2> HIDE DEF T
  <2> QED BY <2>1, <2>3, Zenon DEF SoundLines
<1>2. SoundLines(BrokerageEntries(s))
  <2> DEFINE T == {Entry("portfolio_id", s.account), Entry("taxable", TRUE)}
  <2>1. BrokerageEntries(s) \in Seq(T)
    BY DEF BrokerageEntries
  <2>2. Sound(Entry("portfolio_id", s.account)) /\ Sound(Entry("taxable", TRUE))
    BY SoundEntry
  <2>3. \A l \in T : Sound(l)
    BY <2>2
  <2> HIDE DEF T
  <2> QED BY <2>1, <2>3, Zenon DEF SoundLines
<1>3. SoundLines(SummaryEntries(s))
  <2> DEFINE c == SummaryEntries(s)
  <2>1. /\ c \in Seq(ToSet(c)) /\ Len(c) = 7
        /\ \A i \in 1..7 : c[i] = Entry(Summary[i], s.realized[Summary[i]])
    BY SummaryIs
  <2>2. ASSUME NEW i \in 1..7 PROVE Summary[i] # "transaction_count"
    <3>1. i = 1 \/ i = 2 \/ i = 3 \/ i = 4 \/ i = 5 \/ i = 6 \/ i = 7
      OBVIOUS
    <3> QED BY <3>1 DEF Summary
  <2>3. \A i \in 1..7 : Sound(Entry(Summary[i], s.realized[Summary[i]]))
    BY <2>2, SoundEntry, Zenon
  <2> HIDE DEF c
  <2>4. DOMAIN c = 1..7
    BY <2>1
  <2>5. \A l \in ToSet(c) : Sound(l)
    BY <2>1, <2>3, <2>4, Zenon DEF ToSet
  <2> QED BY <2>1, <2>5, Zenon DEF SoundLines, c
<1>4. /\ SoundLines(Table("HOLDINGS", s.holdings))
      /\ SoundLines(Table("TAX_LOTS", PrintedLots(s)))
      /\ SoundLines(Table("SALES", s.sales))
      /\ SoundLines(Table("DIVIDENDS", s.dividends))
      /\ SoundLines(Table("PURCHASES", s.purchases))
  <2>1. /\ s.holdings \in Seq(R) /\ PrintedLots(s) \in Seq(R) /\ s.sales \in Seq(R)
        /\ s.dividends \in Seq(R) /\ s.purchases \in Seq(R)
    BY Zenon DEF Tabled
  <2> QED BY ONLY <2>1, SoundTable
<1>5. /\ SoundLines(<<Section("HEADER")>>) /\ SoundLines(<<Section("REALIZED_SUMMARY")>>)
      /\ SoundLines(<<Section("END")>>)
  BY SoundSection
<1> QED
  BY ONLY <1>1, <1>2, <1>3, <1>4, <1>5, SoundBoth, Zenon DEF BrokerageContent

\* A sequence with one element changed.
Put(s, k, x) == [s EXCEPT ![k] = x]

LEMMA ChangedAt ==
  ASSUME NEW S, NEW s, NEW k, NEW x, s \in Seq(S), k \in 1..Len(s), x \in S
  PROVE  Put(s, k, x) \in Seq(S)
BY DEF Put

LEMMA StampIsLast ==
  ASSUME NEW page, NEW m, NEW body, Len(body) \in Nat, NEW i, NEW n, Framed(page, m, body, i, n)
  PROVE  page[Len(page)].kind = "stamp"
<1>1. PICK b \in Nat : b = Len(body)
  OBVIOUS
<1>2. Len(page) = b + 4 /\ page[b + 4] = StampLine(i, n, m)
  BY <1>1, Zenon DEF Framed
<1>3. StampLine(i, n, m).kind = "stamp"
  BY DEF StampLine
<1> QED
  BY <1>2, <1>3

---------------------------------------------------------------------------
(* What a harmed file may hold.                                            *)

\* A row of which a cell may be misread, as another value or as one that is
\* looked for.
LEMMA CellHarmIs ==
  ASSUME NEW d \in CellHarms
  PROVE  \E p \in Harmable :
           \/ \E key \in DOMAIN doc[p[1]][p[2]].cells : \E value : d = Cell(p, key, value)
           \/ \E f \in Caught : d = Page(p[1], [doc[p[1]] EXCEPT ![p[2]].fault = f])
<1>0. PICK W : W = WrongRows(Caught)
  OBVIOUS
<1>1. CASE d \in W
  <2>1. PICK p \in Harmable : d \in Wrong(p[1], p[2], RowFaults(doc[p[1]][p[2]].of) \cap Caught)
    BY <1>0, <1>1, Zenon DEF WrongRows
  <2>2. \E f \in Caught : d = Page(p[1], [doc[p[1]] EXCEPT ![p[2]].fault = f])
    BY <2>1, Zenon DEF Wrong
  <2> QED BY <2>2
<1>2. CASE d \notin W
  <2>1. PICK p \in Harmable :
          \/ d \in Misread(p, {"amount", "balance", "proceeds", "result", "qty"}, LAMBDA v : v + 1)
          \/ d \in Misread(p, {"dir"}, LAMBDA v : IF v = "DEBIT" THEN "CREDIT" ELSE "DEBIT")
          \/ d \in Misread(p, {"period"}, LAMBDA v : IF v = "SHORT_TERM" THEN "LONG_TERM"
                                                    ELSE "SHORT_TERM")
    <3> DEFINE M(p) ==
          Misread(p, {"amount", "balance", "proceeds", "result", "qty"}, LAMBDA v : v + 1)
            \cup Misread(p, {"dir"}, LAMBDA v : IF v = "DEBIT" THEN "CREDIT" ELSE "DEBIT")
            \cup Misread(p, {"period"}, LAMBDA v : IF v = "SHORT_TERM" THEN "LONG_TERM"
                                                   ELSE "SHORT_TERM")
    <3>1. CellHarms = W \cup UNION {M(p) : p \in Harmable}
      BY <1>0, Zenon DEF CellHarms
    <3>2. \A p : M(p) = Misread(p, {"amount", "balance", "proceeds", "result", "qty"},
                                LAMBDA v : v + 1)
                   \cup Misread(p, {"dir"}, LAMBDA v : IF v = "DEBIT" THEN "CREDIT" ELSE "DEBIT")
                   \cup Misread(p, {"period"}, LAMBDA v : IF v = "SHORT_TERM" THEN "LONG_TERM"
                                                          ELSE "SHORT_TERM")
      BY Zenon
    <3> HIDE DEF M
    <3>4. d \in UNION {M(p) : p \in Harmable}
      BY <1>2, <3>1
    <3>5. PICK p \in Harmable : d \in M(p)
      BY <3>4
    <3> QED BY <3>2, <3>5, Zenon
  <2> DEFINE cells == doc[p[1]][p[2]].cells
  <2>2. \/ \E key \in {"amount", "balance", "proceeds", "result", "qty"} \cap DOMAIN cells :
             d = Cell(p, key, cells[key] + 1)
        \/ \E key \in {"dir"} \cap DOMAIN cells :
             d = Cell(p, key, IF cells[key] = "DEBIT" THEN "CREDIT" ELSE "DEBIT")
        \/ \E key \in {"period"} \cap DOMAIN cells :
             d = Cell(p, key, IF cells[key] = "SHORT_TERM" THEN "LONG_TERM" ELSE "SHORT_TERM")
    BY <2>1 DEF Misread
  <2> HIDE DEF cells
  <2>3. \E key \in DOMAIN cells : \E value : d = Cell(p, key, value)
    <3>1. CASE \E key \in {"amount", "balance", "proceeds", "result", "qty"} \cap DOMAIN cells :
                 d = Cell(p, key, cells[key] + 1)
      BY <3>1
    <3>2. CASE \E key \in {"dir"} \cap DOMAIN cells :
                 d = Cell(p, key, IF cells[key] = "DEBIT" THEN "CREDIT" ELSE "DEBIT")
      BY <3>2
    <3>3. CASE \E key \in {"period"} \cap DOMAIN cells :
             d = Cell(p, key, IF cells[key] = "SHORT_TERM" THEN "LONG_TERM" ELSE "SHORT_TERM")
      BY <3>3
    <3> QED BY <2>2, <3>1, <3>2, <3>3
  <2> QED BY <2>3 DEF cells
<1> QED
  BY <1>1, <1>2


LEMMA RemovedIs ==
  ASSUME NEW S, NEW s, NEW i, s \in Seq(S), i \in 1..Len(s)
  PROVE  RemoveAt(s, i) \in Seq(S)
<1>1. SubSeq(s, 1, i - 1) \in Seq(S) /\ SubSeq(s, i + 1, Len(s)) \in Seq(S)
  OBVIOUS
<1>2. SubSeq(s, 1, i - 1) \o SubSeq(s, i + 1, Len(s)) \in Seq(S)
  BY ONLY <1>1, ConcatIs
<1> QED
  BY <1>2, Zenon DEF RemoveAt

LEMMA InsertedIs ==
  ASSUME NEW S, NEW s, NEW i, NEW x, s \in Seq(S), i \in 1..Len(s), x \in S
  PROVE  InsertAt(s, i, x) \in Seq(S)
<1>1. SubSeq(s, 1, i - 1) \in Seq(S) /\ SubSeq(s, i, Len(s)) \in Seq(S) /\ <<x>> \in Seq(S)
  OBVIOUS
<1>2. SubSeq(s, 1, i - 1) \o <<x>> \in Seq(S)
  BY ONLY <1>1, ConcatIs
<1>3. (SubSeq(s, 1, i - 1) \o <<x>>) \o SubSeq(s, i, Len(s)) \in Seq(S)
  BY ONLY <1>1, <1>2, ConcatIs
<1> QED
  BY <1>3, Zenon DEF InsertAt

LEMMA ExchangedIs ==
  ASSUME NEW S, NEW s, NEW i, NEW j, s \in Seq(S), i \in 1..Len(s), j \in 1..Len(s)
  PROVE  [s EXCEPT ![i] = s[j], ![j] = s[i]] \in Seq(S)
<1>1. s[i] \in S /\ s[j] \in S
  OBVIOUS
<1> QED
  BY <1>1

LEMMA SoundIn ==
  ASSUME NEW T, NEW d, d \in Seq(Seq(T)), \A l \in T : Sound(l)
  PROVE  SoundFile(d)
BY Zenon DEF SoundFile

\* One line of one page changed.
LEMMA SoundWith ==
  ASSUME NEW d, NEW i, NEW j, NEW x, SoundFile(d), i \in 1..Len(d), j \in 1..Len(d[i]), Sound(x)
  PROVE  SoundFile(Put(d, i, Put(d[i], j, x)))
<1>1. PICK T : d \in Seq(Seq(T)) /\ \A l \in T : Sound(l)
  BY Zenon DEF SoundFile
<1> DEFINE U == T \cup {x}
<1>2. \A l \in U : Sound(l)
  BY <1>1
<1>3. d \in Seq(Seq(U)) /\ x \in U
  <2>1. Seq(T) \subseteq Seq(U)
    OBVIOUS
  <2> HIDE DEF U
  <2>2. \A k \in 1..Len(d) : d[k] \in Seq(U)
    BY <1>1, <2>1
  <2> QED BY <1>1, <2>2 DEF U
<1> HIDE DEF U
<1>4. d[i] \in Seq(U)
  BY <1>3
<1>5. Put(d[i], j, x) \in Seq(U)
  BY <1>3, <1>4, ChangedAt
<1>6. Put(d, i, Put(d[i], j, x)) \in Seq(Seq(U))
  BY ONLY <1>3, <1>5, i \in 1..Len(d), ChangedAt
<1> QED
  BY <1>2, <1>6, SoundIn

\* A page of other lines of the file.
LEMMA SoundPage ==
  ASSUME NEW T, NEW d, NEW i, NEW lines, d \in Seq(Seq(T)), \A l \in T : Sound(l),
         i \in 1..Len(d), lines \in Seq(T)
  PROVE  SoundFile([d EXCEPT ![i] = lines])
<1>1. Put(d, i, lines) \in Seq(Seq(T))
  BY ONLY d \in Seq(Seq(T)), i \in 1..Len(d), lines \in Seq(T), ChangedAt
<1>2. SoundFile(Put(d, i, lines))
  BY <1>1, SoundIn
<1> QED
  BY <1>2, Zenon DEF Put

LEMMA SoundPages ==
  ASSUME SoundFile(doc), NEW d \in PageHarms
  PROVE  SoundFile(d)
<1>1. PICK T : doc \in Seq(Seq(T)) /\ \A l \in T : Sound(l)
  BY Zenon DEF SoundFile
<1>2. PICK n \in Nat : n = Len(doc) /\ Pages = 1..n
  BY <1>1 DEF Pages
<1>3. \A k \in 1..n : doc[k] \in Seq(T)
  BY <1>1, <1>2
<1>4. CASE \E k \in 1..n : d = LosePage(k)
  <2>1. d \in Seq(Seq(T))
    BY <1>1, <1>2, <1>4, RemovedIs DEF LosePage
  <2> QED BY <1>1, <2>1, SoundIn
<1>5. CASE \E k \in 1..n : d = DoublePage(k)
  <2>1. d \in Seq(Seq(T))
    BY <1>1, <1>2, <1>3, <1>5, InsertedIs DEF DoublePage
  <2> QED BY <1>1, <2>1, SoundIn
<1>6. CASE \E k \in 1..n : k # n /\ d = SwapPages(k, k + 1)
  <2>1. PICK k \in 1..n : k # n /\ d = SwapPages(k, k + 1)
    BY <1>6
  <2>2. PICK l \in 1..n : l = k + 1
    BY <2>1
  <2>3. d = [doc EXCEPT ![k] = doc[l], ![l] = doc[k]]
    BY <2>1, <2>2, Zenon DEF SwapPages
  <2>4. d \in Seq(Seq(T))
    BY <1>1, <1>2, <2>3, ExchangedIs
  <2> QED BY <1>1, <2>4, SoundIn
<1> QED
  BY <1>2, <1>4, <1>5, <1>6 DEF PageHarms

\* Where a row may suffer, and what is after it.
LEMMA HarmableIs ==
  ASSUME NEW p \in Harmable
  PROVE  /\ p[1] \in 1..Len(doc) /\ p[2] \in DOMAIN doc[p[1]]
         /\ doc[p[1]][p[2]].kind = "row"
BY DEF Harmable, Places, Pages

Ended(d) == \A i \in 1..Len(d) : d[i][Len(d[i])].kind = "stamp"

LEMMA SoundRows ==
  ASSUME SoundFile(doc), Ended(doc), NEW d \in RowHarms
  PROVE  SoundFile(d)
<1>1. PICK T : doc \in Seq(Seq(T)) /\ \A l \in T : Sound(l)
  BY Zenon DEF SoundFile
<1>2. PICK p \in Harmable : d = LoseRow(p) \/ d = DoubleRow(p) \/ d = SwapRows(p)
  BY DEF RowHarms
<1>3. PICK i, j : i = p[1] /\ j = p[2]
  OBVIOUS
<1>4. i \in 1..Len(doc) /\ j \in DOMAIN doc[i] /\ doc[i][j].kind = "row"
  BY <1>2, <1>3, HarmableIs
<1>5. PICK page : page = doc[i]
  OBVIOUS
<1>6. page \in Seq(T) /\ j \in 1..Len(page)
  BY <1>1, <1>4, <1>5
<1>7. PICK k \in 1..Len(page) : k = j + 1
  <2>1. page[Len(page)].kind = "stamp" /\ page[j].kind = "row"
    BY <1>4, <1>5 DEF Ended
  <2>2. Len(page) # j
    BY <2>1
  <2> QED BY <1>6, <2>2
<1>8. \/ d = [doc EXCEPT ![i] = RemoveAt(page, j)]
      \/ d = [doc EXCEPT ![i] = InsertAt(page, j, page[j])]
      \/ d = [doc EXCEPT ![i] = [page EXCEPT ![j] = page[k], ![k] = page[j]]]
  BY <1>2, <1>3, <1>5, <1>7, Zenon DEF LoseRow, DoubleRow, SwapRows, Page
<1>9. page[j] \in T
  BY <1>6
<1>10. /\ RemoveAt(page, j) \in Seq(T) /\ InsertAt(page, j, page[j]) \in Seq(T)
       /\ [page EXCEPT ![j] = page[k], ![k] = page[j]] \in Seq(T)
  BY <1>6, <1>7, <1>9, RemovedIs, InsertedIs, ExchangedIs
<1>11. PICK lines : lines \in Seq(T) /\ d = [doc EXCEPT ![i] = lines]
  BY <1>8, <1>10, Zenon
<1>12. SoundFile([doc EXCEPT ![i] = lines])
  BY ONLY <1>1, <1>4, <1>11, SoundPage
<1> QED
  BY <1>11, <1>12, Zenon

\* A row of which a cell was misread, and a row or an entry, but for the count,
\* of which the value is wrong in a way that is looked for.
LEMMA CellIsSound ==
  ASSUME NEW l, Sound(l), l.kind = "row", NEW key, key \in DOMAIN l.cells, NEW value
  PROVE  Sound([l EXCEPT !.cells[key] = value])
<1> DEFINE cells == [l.cells EXCEPT ![key] = value]
           new == [l EXCEPT !.cells = cells]
<1>1. l = [kind |-> "row", of |-> l.of, cells |-> l.cells, fault |-> l.fault]
  BY Zenon DEF Sound, Shaped
<1>2. new = [kind |-> "row", of |-> l.of, cells |-> cells, fault |-> l.fault]
  <2> HIDE DEF cells
  <2>1. PICK owner, old, f : owner = l.of /\ old = l.cells /\ f = l.fault
    OBVIOUS
  <2>2. l = [kind |-> "row", of |-> owner, cells |-> old, fault |-> f]
    BY <1>1, <2>1
  <2> QED BY <2>1, <2>2
<1>3. new.kind = "row" /\ new.of = l.of /\ new.cells = cells /\ new.fault = l.fault
  <2> HIDE DEF cells, new
  <2> QED BY <1>2
<1>4. Sound(new)
  <2> HIDE DEF cells, new
  <2>1. l.fault \in Caught \cup {"none"}
    BY DEF Sound
  <2> QED BY <1>2, <1>3, <2>1 DEF Sound, Shaped
<1>5. [l EXCEPT !.cells[key] = value] = new
  BY Zenon
<1> QED
  BY <1>4, <1>5, Zenon

LEMMA FaultIsSound ==
  ASSUME NEW l, Sound(l), NEW f \in Caught,
         l.kind = "row" \/ (l.kind = "entry" /\ l.key # "transaction_count")
  PROVE  Sound([l EXCEPT !.fault = f])
<1> DEFINE new == [l EXCEPT !.fault = f]
<1>1. CASE l.kind = "row"
  <2>1. PICK owner, cells, old : l = [kind |-> "row", of |-> owner, cells |-> cells, fault |-> old]
    BY <1>1, Zenon DEF Sound, Shaped
  <2>2. new = [kind |-> "row", of |-> owner, cells |-> cells, fault |-> f]
    BY <2>1
  <2> HIDE DEF new
  <2>3. new.kind = "row" /\ new.of = owner /\ new.cells = cells /\ new.fault = f
    BY <2>2
  <2> QED BY <2>2, <2>3 DEF Sound, Shaped
<1>2. CASE l.kind = "entry"
  <2>1. PICK key, value, old :
          l = [kind |-> "entry", key |-> key, value |-> value, fault |-> old]
    BY <1>2, Zenon DEF Sound, Shaped
  <2>2. new = [kind |-> "entry", key |-> key, value |-> value, fault |-> f]
    BY <2>1
  <2>3. key # "transaction_count"
    BY <1>2, <2>1
  <2> HIDE DEF new
  <2>4. new.kind = "entry" /\ new.key = key /\ new.value = value /\ new.fault = f
    BY <2>2
  <2> QED BY <2>2, <2>3, <2>4 DEF Sound, Shaped
<1> HIDE DEF new
<1> QED
  BY <1>1, <1>2 DEF new

LEMMA SoundCells ==
  ASSUME SoundFile(doc), NEW d \in CellHarms
  PROVE  SoundFile(d)
<1>1. PICK T : doc \in Seq(Seq(T)) /\ \A l \in T : Sound(l)
  BY Zenon DEF SoundFile
<1>2. PICK p \in Harmable :
        \/ \E key \in DOMAIN doc[p[1]][p[2]].cells : \E value : d = Cell(p, key, value)
        \/ \E f \in Caught : d = Page(p[1], [doc[p[1]] EXCEPT ![p[2]].fault = f])
  BY CellHarmIs
<1>3. PICK i, j : i = p[1] /\ j = p[2]
  OBVIOUS
<1>4. i \in 1..Len(doc) /\ j \in DOMAIN doc[i] /\ doc[i][j].kind = "row"
  BY <1>2, <1>3, HarmableIs
<1>5. PICK l : l = doc[i][j]
  OBVIOUS
<1>6. l \in T /\ Sound(l) /\ j \in 1..Len(doc[i]) /\ l.kind = "row"
  <2>1. doc[i] \in Seq(T)
    BY <1>1, <1>4
  <2> QED BY <1>1, <1>4, <1>5, <2>1
<1>7. \E x : Sound(x) /\ d = Put(doc, i, Put(doc[i], j, x))
  <2>1. CASE \E key \in DOMAIN doc[p[1]][p[2]].cells : \E value : d = Cell(p, key, value)
    <3>1. PICK key, value : key \in DOMAIN l.cells /\ d = Cell(p, key, value)
      BY <1>3, <1>5, <2>1
    <3> DEFINE new == [doc[i][j] EXCEPT !.cells[key] = value]
    <3>2. d = [doc EXCEPT ![i] = [doc[i] EXCEPT ![j].cells[key] = value]]
      BY <1>3, <3>1, Zenon DEF Cell, Page
    <3>3. d = [doc EXCEPT ![i] = [doc[i] EXCEPT ![j] = new]]
      BY <3>2, Zenon
    <3>4. Sound([l EXCEPT !.cells[key] = value])
      BY ONLY <1>6, <3>1, CellIsSound
    <3>5. Sound(new)
      BY <1>5, <3>4, Zenon
    <3> HIDE DEF new
    <3> QED BY <3>3, <3>5, Zenon DEF Put
  <2>2. CASE \E f \in Caught : d = Page(p[1], [doc[p[1]] EXCEPT ![p[2]].fault = f])
    <3>1. PICK f \in Caught : d = Page(p[1], [doc[p[1]] EXCEPT ![p[2]].fault = f])
      BY <2>2
    <3> DEFINE new == [doc[i][j] EXCEPT !.fault = f]
    <3>2. d = [doc EXCEPT ![i] = [doc[i] EXCEPT ![j].fault = f]]
      BY <1>3, <3>1, Zenon DEF Page
    <3>3. d = [doc EXCEPT ![i] = [doc[i] EXCEPT ![j] = new]]
      BY <3>2, Zenon
    <3>4. Sound([l EXCEPT !.fault = f])
      BY ONLY <1>6, f \in Caught, FaultIsSound
    <3>5. Sound(new)
      BY <1>5, <3>4, Zenon
    <3> HIDE DEF new
    <3> QED BY <3>3, <3>5, Zenon DEF Put
  <2> QED BY <1>2, <2>1, <2>2
<1> QED
  BY <1>4, <1>6, <1>7, SoundWith

\* An entry of the first page.
LEMMA EntryIs ==
  ASSUME SoundFile(doc), NEW keys, NEW j \in Entries(keys), doc # <<>>
  PROVE  /\ 1 \in 1..Len(doc) /\ j \in 1..Len(doc[1]) /\ Sound(doc[1][j])
         /\ doc[1][j].kind = "entry" /\ doc[1][j].key \in keys
<1>1. PICK T : doc \in Seq(Seq(T)) /\ \A l \in T : Sound(l)
  BY Zenon DEF SoundFile
<1>2. 1 \in 1..Len(doc)
  BY <1>1
<1>3. PICK page : page = doc[1]
  OBVIOUS
<1>4. page \in Seq(T)
  BY <1>1, <1>2, <1>3
<1>5. j \in DOMAIN page /\ page[j].kind = "entry" /\ page[j].key \in keys
  BY <1>3 DEF Entries
<1>6. j \in 1..Len(page) /\ Sound(page[j])
  BY <1>1, <1>4, <1>5
<1> QED
  BY <1>2, <1>3, <1>5, <1>6, Zenon

\* One with another number.
LEMMA MisreadIsSound ==
  ASSUME NEW l, Sound(l), l.kind = "entry"
  PROVE  Sound([l EXCEPT !.value = @ + 1])
<1>1. PICK key, value, f : l = [kind |-> "entry", key |-> key, value |-> value, fault |-> f]
  BY Zenon DEF Sound, Shaped
<1> DEFINE new == [kind |-> "entry", key |-> key, value |-> value + 1, fault |-> f]
<1>2. [l EXCEPT !.value = @ + 1] = new
  BY <1>1
<1>3. l.key = key /\ l.value = value /\ l.fault = f
  BY <1>1
<1>4. f \in Caught \cup {"none"} /\ (key = "transaction_count" => value \in Nat \ {0} /\ f = "none")
  BY <1>3 DEF Sound
<1>5. key = "transaction_count" => value + 1 \in Nat \ {0}
  BY <1>4
<1>6. new.kind = "entry" /\ new.key = key /\ new.value = value + 1 /\ new.fault = f
  OBVIOUS
<1>7. Sound(new)
  <2>1. Shaped(new)
    BY <1>6, Zenon DEF Shaped
  <2> HIDE DEF new
  <2> QED BY <1>4, <1>5, <1>6, <2>1 DEF Sound
<1> HIDE DEF new
<1> QED
  BY <1>2, <1>7

\* An entry of which a value is wrong in a way that is looked for.
LEMMA WrongEntryIs ==
  ASSUME NEW d \in WrongEntries(Caught)
  PROVE  \E keys : \E j \in Entries(keys) : \E f \in Caught :
           doc[1][j].key # "transaction_count" /\ d = Page(1, [doc[1] EXCEPT ![j].fault = f])
<1> DEFINE keys == BankHeaders \cup BrokerageHeaders \cup ToSet(Summary)
<1>1. PICK j \in Entries(keys) : d \in Wrong(1, j, EntryFaults(doc[1][j].key) \cap Caught)
  BY Zenon DEF WrongEntries
<1> HIDE DEF keys
<1>2. PICK f \in EntryFaults(doc[1][j].key) \cap Caught :
        d = Page(1, [doc[1] EXCEPT ![j].fault = f])
  BY <1>1, Zenon DEF Wrong
<1>3. doc[1][j].key # "transaction_count"
  <2>1. PICK key : key = doc[1][j].key
    OBVIOUS
  <2>2. SUFFICES ASSUME key = "transaction_count" PROVE FALSE
    BY <2>1
  <2>3. EntryFaults(key) = {"integer"}
    BY <2>2 DEF EntryFaults
  <2> QED BY <1>2, <2>1, <2>3 DEF Caught
<1> QED
  BY <1>1, <1>2, <1>3

LEMMA SoundHeaders ==
  ASSUME SoundFile(doc), doc # <<>>, NEW d \in HeaderHarms \cup ClosingHarms
  PROVE  SoundFile(d)
<1>1. PICK T : doc \in Seq(Seq(T)) /\ \A l \in T : Sound(l)
  BY Zenon DEF SoundFile
<1>2. \/ d \in WrongEntries(Caught)
      \/ \E keys : \E j \in Entries(keys) : d = LoseEntry(j) \/ d = MisreadEntry(j)
  BY Zenon DEF HeaderHarms, ClosingHarms
<1>3. ASSUME NEW j, NEW x, j \in 1..Len(doc[1]), 1 \in 1..Len(doc), Sound(x),
             d = Page(1, [doc[1] EXCEPT ![j] = x])
      PROVE  SoundFile(d)
  <2>1. d = Put(doc, 1, Put(doc[1], j, x))
    BY <1>3, Zenon DEF Page, Put
  <2>2. SoundFile(Put(doc, 1, Put(doc[1], j, x)))
    BY ONLY <1>3, SoundFile(doc), SoundWith
  <2> QED BY <2>1, <2>2, Zenon
<1>4. CASE d \in WrongEntries(Caught)
  <2>1. PICK keys : \E j \in Entries(keys) : \E f \in Caught :
          doc[1][j].key # "transaction_count" /\ d = Page(1, [doc[1] EXCEPT ![j].fault = f])
    BY <1>4, WrongEntryIs
  <2>2. PICK j \in Entries(keys) : \E f \in Caught :
          doc[1][j].key # "transaction_count" /\ d = Page(1, [doc[1] EXCEPT ![j].fault = f])
    BY <2>1
  <2>3. PICK f \in Caught :
          doc[1][j].key # "transaction_count" /\ d = Page(1, [doc[1] EXCEPT ![j].fault = f])
    BY <2>2
  <2>4. /\ 1 \in 1..Len(doc) /\ j \in 1..Len(doc[1]) /\ Sound(doc[1][j])
        /\ doc[1][j].kind = "entry"
    BY EntryIs
  <2>5. Sound([doc[1][j] EXCEPT !.fault = f])
    BY ONLY <2>3, <2>4, FaultIsSound
  <2>6. d = Page(1, [doc[1] EXCEPT ![j] = [doc[1][j] EXCEPT !.fault = f]])
    BY <2>3, Zenon
  <2> QED BY ONLY <1>3, <2>4, <2>5, <2>6
<1>5. CASE \E keys : \E j \in Entries(keys) : d = LoseEntry(j) \/ d = MisreadEntry(j)
  <2>1. PICK keys : \E j \in Entries(keys) : d = LoseEntry(j) \/ d = MisreadEntry(j)
    BY <1>5
  <2>2. PICK j \in Entries(keys) : d = LoseEntry(j) \/ d = MisreadEntry(j)
    BY <2>1
  <2>3. /\ 1 \in 1..Len(doc) /\ j \in 1..Len(doc[1]) /\ Sound(doc[1][j])
        /\ doc[1][j].kind = "entry"
    BY EntryIs
  <2>4. CASE d = LoseEntry(j)
    <3>1. doc[1] \in Seq(T)
      BY <1>1, <2>3
    <3>2. RemoveAt(doc[1], j) \in Seq(T)
      BY <2>3, <3>1, RemovedIs
    <3>3. SoundFile([doc EXCEPT ![1] = RemoveAt(doc[1], j)])
      BY ONLY <1>1, <2>3, <3>2, SoundPage
    <3> QED BY <2>4, <3>3, Zenon DEF LoseEntry, Page
  <2>5. CASE d = MisreadEntry(j)
    <3>1. d = Page(1, [doc[1] EXCEPT ![j] = [doc[1][j] EXCEPT !.value = @ + 1]])
      BY <2>5, Zenon DEF MisreadEntry
    <3>2. Sound([doc[1][j] EXCEPT !.value = @ + 1])
      BY ONLY <2>3, MisreadIsSound
    <3> QED BY ONLY <1>3, <2>3, <3>1, <3>2
  <2> QED BY <2>2, <2>4, <2>5
<1> QED
  BY <1>2, <1>4, <1>5

\* Whatever a file suffers, but for a value that is not looked for, it raises an
\* exception only for its closing balance.
LEMMA HarmedIsSound ==
  ASSUME SoundFile(doc), doc # <<>>, Ended(doc), NEW kind \in Harms, kind # "uncaught",
         NEW d \in Harmed(kind)
  PROVE  SoundFile(d)
<1>1. kind \in {"page", "row", "cell", "header", "closing", "scan"}
  BY HarmsAssumption
<1>2. CASE kind = "page"
  BY <1>2, SoundPages DEF Harmed
<1>3. CASE kind = "row"
  BY <1>3, SoundRows DEF Harmed
<1>4. CASE kind = "cell"
  BY <1>4, SoundCells DEF Harmed
<1>5. CASE kind = "header"
  BY <1>5, SoundHeaders DEF Harmed
<1>6. CASE kind = "closing"
  BY <1>6, SoundHeaders DEF Harmed
<1>7. CASE kind = "scan"
  <2>1. d = [i \in Pages |-> <<>>]
    BY <1>7 DEF Harmed
  <2>2. PICK T : doc \in Seq(Seq(T)) /\ \A l \in T : Sound(l)
    BY Zenon DEF SoundFile
  <2>3. PICK n \in Nat : Pages = 1..n
    BY <2>2 DEF Pages
  <2>4. d \in Seq(Seq(T))
    BY <2>1, <2>3
  <2> QED BY <2>2, <2>4, SoundIn
<1> QED
  BY <1>1, <1>2, <1>3, <1>4, <1>5, <1>6, <1>7

---------------------------------------------------------------------------
(* A file as it is printed.                                                *)

\* Printed lines that are sound make a sound file, whose pages end with a stamp.
LEMMA SoundPrints ==
  ASSUME NEW T, NEW m, NEW lines, lines \in Seq(T), lines # <<>>, \A l \in T : Sound(l)
  PROVE  /\ SoundFile(Paginate(m, lines)) /\ Paginate(m, lines) # <<>>
         /\ Ended(Paginate(m, lines))
<1> DEFINE d == Paginate(m, lines)
           U == T \cup FurnitureOf(m)
<1>1. Prints(d, m, T, lines)
  BY PaginatePrints
<1>2. d \in Seq(Seq(U)) /\ d # <<>>
  BY <1>1, Zenon DEF Prints
<1>3. \A l \in U : Sound(l)
  BY FurnitureIsSound
<1>4. PICK n \in Nat \ {0} :
        /\ n = (Len(lines) + PageRows - 1) \div PageRows
        /\ d = [i \in 1..n |-> PageOf(m, SubSeq(lines, CutAt(lines, n, i - 1) + 1,
                                                CutAt(lines, n, i)), i, n)]
  BY PagesAre
<1>5. \A i \in 1..n : /\ CutAt(lines, n, i - 1) \in Nat /\ CutAt(lines, n, i) \in Nat
                      /\ CutAt(lines, n, i - 1) <= CutAt(lines, n, i)
                      /\ CutAt(lines, n, i) <= Len(lines)
  BY <1>4, Cuts
<1>6. Len(d) = n
  BY <1>4
<1>7. ASSUME NEW i \in 1..n PROVE d[i][Len(d[i])].kind = "stamp"
  <2>1. PICK a \in Nat, b \in Nat :
          a = CutAt(lines, n, i - 1) /\ b = CutAt(lines, n, i) /\ a <= b /\ b <= Len(lines)
    BY <1>5
  <2>2. PICK body : body = SubSeq(lines, a + 1, b)
    OBVIOUS
  <2>3. body \in Seq(T)
    BY <2>1, <2>2, SubSeqJoin
  <2>4. d[i] = PageOf(m, body, i, n)
    BY <1>4, <2>1, <2>2
  <2> HIDE DEF d
  <2>5. i \in Nat /\ n \in Nat
    OBVIOUS
  <2>6. Framed(PageOf(m, body, i, n), m, body, i, n)
    BY ONLY <2>3, <2>5, PageIs
  <2>7. Framed(d[i], m, body, i, n) /\ Len(body) \in Nat
    BY <2>3, <2>4, <2>6
  <2>8. PICK page : page = d[i]
    OBVIOUS
  <2>9. Framed(page, m, body, i, n)
    BY <2>7, <2>8, Zenon
  <2>10. page[Len(page)].kind = "stamp"
    BY ONLY <2>7, <2>9, StampIsLast
  <2> QED BY <2>8, <2>10, Zenon
<1> HIDE DEF d, U
<1>8. Ended(d)
  BY <1>6, <1>7 DEF Ended
<1>9. SoundFile(d)
  BY <1>2, <1>3, SoundIn
<1> QED
  BY <1>2, <1>8, <1>9 DEF d

LEMMA BankIsSound ==
  ASSUME NEW s, NEW R, s.rows \in Seq(R), s.rows # <<>>
  PROVE  \A l \in ToSet(BankContent(s)) : Sound(l)
<1> DEFINE c == BankContent(s)
<1>1. PICK n \in Nat \ {0} : n = Len(s.rows)
  OBVIOUS
<1>2. /\ c \in Seq(ToSet(c)) /\ Len(c) = 13 + n
      /\ c[1] = Section("HEADER")
      /\ c[2] = Entry("statement_id", s.id) /\ c[3] = Entry("account_id", s.account)
      /\ c[4] = Entry("user_id", s.user) /\ c[5] = Entry("period_start", s.start)
      /\ c[6] = Entry("period_end", s.end) /\ c[7] = Entry("base_currency", "USD")
      /\ c[8] = Entry("opening_balance", s.opening)
      /\ c[9] = Entry("closing_balance", s.closing)
      /\ c[10] = Entry("transaction_count", n)
      /\ c[11] = Section("TRANSACTIONS") /\ c[12] = Columns("TRANSACTIONS")
      /\ \A i \in 1..n : c[12 + i] = Row("TRANSACTIONS", s.rows[i])
      /\ c[13 + n] = Section("END")
  <2> HIDE DEF c
  <2> QED BY <1>1, BankContentIs, Zenon DEF c
<1> HIDE DEF c
<1>3. \A name : Sound(Section(name)) /\ Sound(Columns(name))
  <2>1. ASSUME NEW name PROVE Sound(Section(name)) /\ Sound(Columns(name))
    BY DEF Sound, Shaped, Section, Columns
  <2> QED BY <2>1
<1>4. \A key, value : key # "transaction_count" => Sound(Entry(key, value))
  BY SoundEntry, Zenon
<1>5. Sound(Entry("transaction_count", n))
  BY SoundEntry
<1>6. ASSUME NEW i \in 1..n PROVE Sound(Row("TRANSACTIONS", s.rows[i]))
  BY SoundRow
<1>7. ASSUME NEW k \in 1..(13 + n) PROVE Sound(c[k])
  <2>1. CASE k \in 13..(12 + n)
    <3>1. PICK i \in 1..n : i = k - 12
      BY <2>1
    <3>2. 12 + i = k
      BY <3>1
    <3> QED BY <1>2, <1>6, <3>2, Zenon
  <2>2. CASE k \notin 13..(12 + n)
    <3>1. \/ k = 1 \/ k = 2 \/ k = 3 \/ k = 4 \/ k = 5 \/ k = 6 \/ k = 7 \/ k = 8 \/ k = 9
          \/ k = 10 \/ k = 11 \/ k = 12 \/ k = 13 + n
      BY <2>2
    <3>2. Sound(c[1]) /\ Sound(c[11]) /\ Sound(c[12]) /\ Sound(c[13 + n]) /\ Sound(c[10])
      BY <1>2, <1>3, <1>5, Zenon
    <3>3. /\ Sound(c[2]) /\ Sound(c[3]) /\ Sound(c[4]) /\ Sound(c[5]) /\ Sound(c[6])
          /\ Sound(c[7]) /\ Sound(c[8]) /\ Sound(c[9])
      BY <1>2, <1>4
    <3> QED BY <3>1, <3>2, <3>3, Zenon
  <2> QED BY <2>1, <2>2
<1>8. \A l \in ToSet(c) : Sound(l)
  <2>1. DOMAIN c = 1..(13 + n)
    BY <1>2
  <2> QED BY <1>7, <2>1 DEF ToSet
<1> QED
  BY <1>8 DEF c

LEMMA BankFileIs ==
  ASSUME NEW s, NEW R, s.rows \in Seq(R), s.rows # <<>>
  PROVE  SoundFile(RenderBank(s)) /\ RenderBank(s) # <<>> /\ Ended(RenderBank(s))
<1> DEFINE c == BankContent(s)
<1>1. RenderBank(s) = Paginate(BANK_MARKER, c)
  BY Zenon DEF RenderBank, BankContent, BankEntries
<1>2. \A l \in ToSet(c) : Sound(l)
  BY BankIsSound
<1>3. c \in Seq(ToSet(c)) /\ Len(c) = 13 + Len(s.rows)
  BY BankContentIs
<1> HIDE DEF c
<1>4. c # <<>>
  BY <1>3
<1>5. /\ SoundFile(Paginate(BANK_MARKER, c)) /\ Paginate(BANK_MARKER, c) # <<>>
      /\ Ended(Paginate(BANK_MARKER, c))
  BY ONLY <1>2, <1>3, <1>4, SoundPrints
<1> QED
  BY <1>1, <1>5, Zenon

LEMMA BookFileIs ==
  ASSUME NEW s, NEW R, Tabled(s, R)
  PROVE  /\ SoundFile(RenderBrokerage(s)) /\ RenderBrokerage(s) # <<>>
         /\ Ended(RenderBrokerage(s))
<1>1. PICK c : c = BrokerageContent(s)
  OBVIOUS
<1>2. PICK T : c \in Seq(T) /\ \A l \in T : Sound(l)
  <2>1. SoundLines(c)
    BY <1>1, BookIsSound, Zenon
  <2> QED BY <2>1, Zenon DEF SoundLines
<1>3. c # <<>>
  <2>1. BrokerageLies(s, c)
    BY <1>1, BrokerageContentLies, Zenon DEF Tabled
  <2> QED BY <2>1, Zenon DEF BrokerageLies
<1>4. PICK d : d = RenderBrokerage(s)
  OBVIOUS
<1>5. d = Paginate(BROKERAGE_MARKER, c)
  BY <1>1, <1>4, Zenon DEF RenderBrokerage, BrokerageContent, BrokerageEntries, SummaryEntries, PrintedLots
<1>6. SoundFile(d) /\ d # <<>> /\ Ended(d)
  BY <1>2, <1>3, <1>5, SoundPrints
<1> QED
  BY <1>4, <1>6, Zenon

---------------------------------------------------------------------------
(* What raises an exception.                                               *)

\* The flattened pages hold the lines of every page.
LEMMA FlattenHolds ==
  ASSUME NEW S, NEW d \in Seq(Seq(S)), NEW i \in 1..Len(d), NEW x \in ToSet(d[i])
  PROVE  x \in ToSet(FlattenSeq(d))
<1> DEFINE Holds(t) == \A k \in 1..Len(t) : ToSet(t[k]) \subseteq ToSet(FlattenSeq(t))
           T == {n \in Nat : \A t \in Seq(Seq(S)) : Len(t) = n => Holds(t)}
<1>1. 0 \in T
  <2>1. ASSUME NEW t \in Seq(Seq(S)), Len(t) = 0 PROVE Holds(t)
    BY <2>1
  <2> HIDE DEF Holds
  <2> QED BY <2>1
<1>2. ASSUME NEW n \in Nat, n \in T PROVE n + 1 \in T
  <2>1. ASSUME NEW t \in Seq(Seq(S)), Len(t) = n + 1 PROVE Holds(t)
    <3> DEFINE front == SubSeq(t, 1, n)
               last == t[n + 1]
    <3>1. /\ front \in Seq(Seq(S)) /\ Len(front) = n /\ t = Append(front, last)
          /\ last \in Seq(S) /\ \A k \in 1..n : front[k] = t[k]
      <4>1. front \in Seq(Seq(S)) /\ Len(front) = n /\ \A k \in 1..n : front[k] = t[k]
        BY <2>1
      <4>2. last \in Seq(S)
        BY <2>1
      <4>3. t = Append(front, last)
        BY <2>1
      <4> QED BY <4>1, <4>2, <4>3
    <3> HIDE DEF front, last
    <3>2. Holds(front)
      <4> HIDE DEF Holds
      <4> QED BY <1>2, <3>1
    <3>3. FlattenSeq(t) = FlattenSeq(front) \o last /\ FlattenSeq(front) \in Seq(S)
      BY <3>1, FlattenAppend
    <3>4. PICK whole : whole = FlattenSeq(front)
      OBVIOUS
    <3>5. /\ Len(whole) \in Nat /\ Len(last) \in Nat /\ Len(whole \o last) = Len(whole) + Len(last)
          /\ whole \o last \in Seq(S)
          /\ \A k \in 1..Len(whole) : (whole \o last)[k] = whole[k]
          /\ \A k \in 1..Len(last) : (whole \o last)[Len(whole) + k] = last[k]
      <4>1. whole \in Seq(S) /\ last \in Seq(S)
        BY <3>1, <3>3, <3>4
      <4> QED BY ONLY <4>1, ConcatIs
    <3>6. PICK both : both = whole \o last
      OBVIOUS
    <3>7. ToSet(whole) \subseteq ToSet(both) /\ ToSet(last) \subseteq ToSet(both)
      <4>1. ASSUME NEW k \in 1..Len(whole) PROVE whole[k] \in ToSet(both)
        <5>1. k \in 1..Len(both) /\ both[k] = whole[k] /\ both \in Seq(S)
          BY <3>5, <3>6
        <5> QED BY <5>1 DEF ToSet
      <4>2. ASSUME NEW k \in 1..Len(last) PROVE last[k] \in ToSet(both)
        <5>1. PICK l \in Nat : l = Len(whole) + k
          BY <3>5
        <5>2. l \in 1..Len(both) /\ both[l] = last[k] /\ both \in Seq(S)
          BY <3>5, <3>6, <5>1
        <5> QED BY <5>2 DEF ToSet
      <4>3. whole \in Seq(S) /\ last \in Seq(S)
        BY <3>1, <3>3, <3>4
      <4>4. DOMAIN whole = 1..Len(whole) /\ DOMAIN last = 1..Len(last)
        BY <4>3
      <4> QED BY <4>1, <4>2, <4>4, Zenon DEF ToSet
    <3>8. ASSUME NEW k \in 1..Len(t) PROVE ToSet(t[k]) \subseteq ToSet(FlattenSeq(t))
      <4>1. FlattenSeq(t) = both
        BY <3>3, <3>4, <3>6, Zenon
      <4>2. CASE k \in 1..n
        <5>1. ToSet(front[k]) \subseteq ToSet(whole)
          BY <3>1, <3>2, <3>4, <4>2
        <5> QED BY <3>1, <3>7, <4>1, <4>2, <5>1
      <4>3. CASE k \notin 1..n
        <5>1. k = n + 1
          BY <2>1, <4>3
        <5> QED BY <3>7, <4>1, <5>1 DEF last
      <4> QED BY <4>2, <4>3
    <3> QED BY <3>8
  <2> HIDE DEF Holds
  <2> QED BY <2>1
<1>3. Nat \subseteq T
  <2> HIDE DEF T
  <2> QED BY <1>1, <1>2, SetInduction
<1>4. Holds(d)
  <2> HIDE DEF Holds
  <2> QED BY <1>3
<1> QED
  BY <1>4

\* The largest and the least of the places of a sequence.
LEMMA LargestOf ==
  ASSUME NEW T, NEW len \in Nat, T \subseteq 1..len, T # {}
  PROVE  Max(T) \in T
BY MaxIs

\* An entry that was read is one of the lines.
LEMMA HeaderIsLine ==
  ASSUME NEW T, NEW lines \in Seq(T), NEW k \in DOMAIN RequireHeaderMap(lines),
         NEW h \in 1..Len(lines), lines[h] = Section("HEADER")
  PROVE  /\ RequireHeaderMap(lines)[k] \in T /\ RequireHeaderMap(lines)[k].kind = "entry"
         /\ RequireHeaderMap(lines)[k].key = k
<1>1. PICK len \in Nat : len = Len(lines) /\ DOMAIN lines = 1..len
  OBVIOUS
<1> DEFINE starts == StartsOf(lines, "HEADER")
           from == Min(starts)
           ends == EndsOf(lines, "HEADER", from)
           to == Min(ends)
<1>2. starts \subseteq 1..len /\ starts # {}
  BY <1>1 DEF StartsOf
<1>3. from \in 1..len
  <2> HIDE DEF starts
  <2>1. Min(starts) \in starts
    BY <1>2, LeastOf
  <2> QED BY <1>2, <2>1
<1>4. ends \subseteq 1..(len + 1) /\ len + 1 \in ends
  BY <1>1, <1>3 DEF EndsOf
<1>5. to \in 1..(len + 1)
  <2> HIDE DEF ends
  <2>1. Min(ends) \in ends
    BY <1>4, LeastOf
  <2> QED BY <1>4, <2>1
<1>6. RequireHeaderMap(lines) = HeaderBetween(lines, from, to)
  BY Zenon DEF RequireHeaderMap, HeaderBetween, StartsOf, EndsOf
<1> HIDE DEF starts, from, ends, to
<1> DEFINE within == (from + 1)..(to - 1)
           same == {i \in within : lines[i].kind = "entry" /\ lines[i].key = k}
<1>7. k \in {lines[i].key : i \in {j \in within : lines[j].kind = "entry"}}
      /\ RequireHeaderMap(lines)[k] = lines[Max(same)]
  BY <1>6, Zenon DEF HeaderBetween
<1>8. same # {}
  BY <1>7
<1>9. within \subseteq 1..len
  BY <1>3, <1>5
<1>10. Max(same) \in same
  <2>1. same \subseteq 1..len
    BY <1>9
  <2> HIDE DEF same
  <2> QED BY <1>8, <2>1, LargestOf
<1>11. PICK i : i = Max(same)
  OBVIOUS
<1>12. i \in within /\ lines[i].kind = "entry" /\ lines[i].key = k
  BY <1>10, <1>11
<1>13. i \in 1..len
  BY <1>9, <1>12
<1>14. lines[i] \in T
  BY <1>1, <1>13
<1> HIDE DEF same
<1> QED
  BY <1>7, <1>11, <1>12, <1>14

\* The rows of a section are lines.
LEMMA SectionIsLines ==
  ASSUME NEW T, NEW lines \in Seq(T), NEW name
  PROVE  SectionRows(lines, name) \in Seq(T)
<1>1. PICK len \in Nat : len = Len(lines) /\ DOMAIN lines = 1..len
  OBVIOUS
<1> DEFINE starts == StartsOf(lines, name)
           from == Min(starts)
           ends == EndsOf(lines, name, from)
           to == Min(ends)
           kept == [i \in 1..(to - from - 1) |-> KeptLine(lines[from + i])]
<1>2. SectionRows(lines, name) = IF starts = {} THEN <<>> ELSE FlattenSeq(kept)
  BY Zenon DEF SectionRows, StartsOf, EndsOf, KeptLine
<1>3. CASE starts = {}
  <2>1. <<>> \in Seq(T)
    OBVIOUS
  <2> QED BY <1>2, <1>3, <2>1, Zenon
<1>4. CASE starts # {}
  <2>1. starts \subseteq 1..len
    BY <1>1 DEF StartsOf
  <2>2. from \in 1..len
    <3> HIDE DEF starts
    <3>1. Min(starts) \in starts
      BY <1>4, <2>1, LeastOf
    <3> QED BY <2>1, <3>1
  <2>3. ends \subseteq 1..(len + 1) /\ len + 1 \in ends
    BY <1>1, <2>2 DEF EndsOf
  <2>4. to \in 1..(len + 1)
    <3> HIDE DEF ends
    <3>1. Min(ends) \in ends
      BY <2>3, LeastOf
    <3> QED BY <2>3, <3>1
  <2>5. from < to
    <3>1. \A e \in ends : from < e
      BY <1>1, <2>2 DEF EndsOf
    <3> HIDE DEF ends
    <3>2. Min(ends) \in ends
      BY <2>3, LeastOf
    <3> QED BY <3>1, <3>2
  <2> HIDE DEF starts, from, ends, to
  <2>6. PICK m \in Nat : m = to - from - 1
    BY <2>2, <2>4, <2>5
  <2>7. ASSUME NEW i \in 1..m PROVE KeptLine(lines[from + i]) \in Seq(T)
    <3>1. from + i \in 1..len
      BY <2>2, <2>4, <2>6
    <3>2. lines[from + i] \in T
      BY <1>1, <3>1
    <3> QED BY <3>2 DEF KeptLine
  <2>8. kept \in Seq(Seq(T))
    <3>1. kept = [i \in 1..m |-> KeptLine(lines[from + i])]
      BY <2>6
    <3> HIDE DEF kept
    <3> QED BY <2>7, <3>1
  <2> HIDE DEF kept
  <2>9. FlattenSeq(kept) \in Seq(T)
    BY <2>8, FlattenType
  <2> QED BY <1>2, <1>4, <2>9, Zenon
<1> QED
  BY <1>3, <1>4

\* So are those of a table.
LEMMA RowsAreLines ==
  ASSUME NEW T, NEW lines \in Seq(T), NEW name, HasTable(lines, name)
  PROVE  TableRows(lines, name) \in Seq(T)
<1>1. SectionRows(lines, name) \in Seq(T)
  BY SectionIsLines
<1>2. SectionRows(lines, name) # <<>>
  BY Zenon DEF HasTable
<1>3. Tail(SectionRows(lines, name)) \in Seq(T)
  BY <1>1, <1>2, HeadTailProperties
<1> QED
  BY <1>3, Zenon DEF TableRows

\* A value wrong in a way that is looked for raises no exception.
Judged(f) == f \in Caught \cup {"none"}

LEMMA JudgedConverts ==
  ASSUME NEW f, Judged(f)
  PROVE  Conversion(f) # "crashed"
BY Zenon DEF Judged, Conversion

LEMMA BankRowHolds ==
  ASSUME NEW l, NEW previous, NEW nan, Judged(l.fault), ~ nan
  PROVE  BankRowFault(l, previous, nan) # "crashed"
<1>1. Conversion(l.fault) # "crashed"
  BY JudgedConverts
<1>2. CellFault(l) # "crashed"
  BY <1>1, Zenon DEF CellFault
<1> QED
  BY <1>1, <1>2, Zenon DEF BankRowFault

LEMMA BookRowHolds ==
  ASSUME NEW l, Judged(l.fault)
  PROVE  BookRowFault(l) # "crashed"
<1>1. Conversion(l.fault) # "crashed"
  BY JudgedConverts
<1> QED
  BY <1>1, Zenon DEF BookRowFault

LEMMA BankTableHolds ==
  ASSUME NEW T, NEW listed \in Seq(T), \A l \in T : Sound(l), NEW opening, opening.fault # "nan"
  PROVE  BankTableFault(listed, opening) # "crashed"
<1> DEFINE fitting == {i \in DOMAIN listed : \A j \in 1..i : Fits(listed[j], "TRANSACTIONS")}
           faulty == {i \in fitting : BankFaultAt(listed, opening, i) # "none"}
<1>1. BankTableFault(listed, opening) =
        IF faulty # {} THEN BankFaultAt(listed, opening, Min(faulty))
        ELSE IF fitting # DOMAIN listed THEN "refused" ELSE "none"
  BY Zenon DEF BankTableFault
<1>2. ASSUME NEW i \in fitting PROVE BankFaultAt(listed, opening, i) # "crashed"
  <2>1. i \in 1..Len(listed) /\ Fits(listed[i], "TRANSACTIONS")
    OBVIOUS
  <2>2. Sound(listed[i])
    BY <2>1
  <2>3. Judged(listed[i].fault)
    BY <2>1, <2>2 DEF Fits, Sound, Judged
  <2>4. BankRowFault(listed[i], opening.value, opening.fault = "nan") # "crashed"
    BY <2>3, BankRowHolds
  <2>5. BankRowFault(listed[i], listed[i - 1].cells.balance, FALSE) # "crashed"
    BY <2>3, BankRowHolds
  <2> QED BY <2>4, <2>5, Zenon DEF BankFaultAt
<1>3. faulty # {} => Min(faulty) \in faulty
  <2>1. faulty \in SUBSET Nat
    OBVIOUS
  <2> HIDE DEF faulty
  <2> QED BY <2>1, LeastOf
<1>4. \A i \in faulty : i \in fitting
  OBVIOUS
<1> HIDE DEF fitting, faulty
<1> QED
  BY <1>1, <1>2, <1>3, <1>4

LEMMA BookTableHolds ==
  ASSUME NEW T, NEW listed \in Seq(T), \A l \in T : Sound(l), NEW name
  PROVE  BookTableFault(listed, name) # "crashed"
<1> DEFINE fitting == {i \in DOMAIN listed : \A j \in 1..i : Fits(listed[j], name)}
           faulty == {i \in fitting : BookRowFault(listed[i]) # "none"}
<1>1. BookTableFault(listed, name) =
        IF faulty # {} THEN BookRowFault(listed[Min(faulty)])
        ELSE IF fitting # DOMAIN listed THEN "refused" ELSE "none"
  BY Zenon DEF BookTableFault
<1>2. ASSUME NEW i \in fitting PROVE BookRowFault(listed[i]) # "crashed"
  <2>1. i \in 1..Len(listed) /\ Fits(listed[i], name)
    OBVIOUS
  <2>2. Sound(listed[i])
    BY <2>1
  <2>3. Judged(listed[i].fault)
    BY <2>1, <2>2 DEF Fits, Sound, Judged
  <2> QED BY <2>3, BookRowHolds
<1>3. faulty # {} => Min(faulty) \in faulty
  <2>1. faulty \in SUBSET Nat
    OBVIOUS
  <2> HIDE DEF faulty
  <2> QED BY <2>1, LeastOf
<1>4. \A i \in faulty : i \in fitting
  OBVIOUS
<1> HIDE DEF fitting, faulty
<1> QED
  BY <1>1, <1>2, <1>3, <1>4

LEMMA IdentityHolds ==
  ASSUME NEW H, NEW ids, NEW K, ids \in Seq(K),
         \A k \in K \cup {"period_start", "period_end", "base_currency"} : Judged(H[k].fault)
  PROVE  IdentityFault(H, ids) # "crashed"
<1> DEFINE last == <<"period_start", "period_end", "base_currency">>
           All == K \cup {"period_start", "period_end", "base_currency"}
           keys == ids \o last
           faulty == {i \in DOMAIN keys : H[keys[i]].fault # "none"}
<1>1. last \in Seq(All) /\ ids \in Seq(All)
  OBVIOUS
<1> HIDE DEF All, last
<1>2. ids \o last \in Seq(All)
  BY ONLY <1>1, ConcatIs
<1>3. \A i \in DOMAIN keys : i \in Nat /\ keys[i] \in All
  BY <1>2
<1>4. IdentityFault(H, ids) =
        IF faulty = {} THEN "none" ELSE Conversion(H[keys[Min(faulty)]].fault)
  BY Zenon DEF IdentityFault, last
<1>5. faulty # {} => Min(faulty) \in faulty
  <2>1. faulty \in SUBSET Nat
    <3> HIDE DEF keys
    <3> QED BY <1>3
  <2> HIDE DEF faulty
  <2> QED BY <2>1, LeastOf
<1>6. \A i \in faulty : Judged(H[keys[i]].fault)
  <2> HIDE DEF keys
  <2> QED BY <1>3 DEF All
<1> HIDE DEF keys, faulty
<1> QED
  BY <1>4, <1>5, <1>6, JudgedConverts

\* A file of which the format is known has a header, whose entries are sound if
\* the file is.
LEMMA HeaderIsSound ==
  ASSUME NEW T, NEW d \in Seq(Seq(T)), \A l \in T : Sound(l), DetectFormat(d) # "unknown",
         NEW k \in DOMAIN RequireHeaderMap(Text(d))
  PROVE  /\ Judged(RequireHeaderMap(Text(d))[k].fault)
         /\ k = "transaction_count" => /\ RequireHeaderMap(Text(d))[k].value \in Nat \ {0}
                                       /\ RequireHeaderMap(Text(d))[k].fault = "none"
<1>1. PICK lines : lines = Text(d)
  OBVIOUS
<1>2. lines \in Seq(T)
  BY <1>1, FlattenType DEF Text
<1>3. PICK h \in 1..Len(lines) : lines[h] = Section("HEADER")
  <2>1. Sectioned(LinesOf(d), {"HEADER", "TRANSACTIONS"})
          \/ Sectioned(LinesOf(d), {"HEADER", "TAX_LOTS"})
    BY Zenon DEF DetectFormat
  <2>2. Section("HEADER") \in LinesOf(d)
    BY <2>1 DEF Sectioned
  <2>3. PICK i \in DOMAIN d : Section("HEADER") \in ToSet(d[i])
    BY <2>2, Zenon DEF LinesOf
  <2>4. Section("HEADER") \in ToSet(lines)
    <3>1. i \in 1..Len(d)
      OBVIOUS
    <3>2. PICK x : x = Section("HEADER")
      OBVIOUS
    <3>3. x \in ToSet(FlattenSeq(d))
      BY <2>3, <3>1, <3>2, FlattenHolds
    <3> QED BY <1>1, <3>2, <3>3, Zenon DEF Text
  <2>5. DOMAIN lines = 1..Len(lines)
    BY <1>2
  <2> QED BY <2>4, <2>5, Zenon DEF ToSet
<1>4. PICK l : l = RequireHeaderMap(lines)[k]
  OBVIOUS
<1>5. l \in T /\ l.kind = "entry" /\ l.key = k
  BY <1>1, <1>2, <1>3, <1>4, HeaderIsLine
<1>6. Sound(l)
  BY <1>5
<1>7. Judged(l.fault) /\ (k = "transaction_count" => l.value \in Nat \ {0} /\ l.fault = "none")
  BY <1>5, <1>6 DEF Sound, Judged
<1> QED
  BY <1>1, <1>4, <1>7, Zenon

\* The parser of brokerage statements raises no exception on a sound file.
LEMMA BookParserHolds ==
  ASSUME NEW d, SoundFile(d), DetectFormat(d) # "unknown"
  PROVE  ParseBrokerage(d).status # "crashed"
<1>1. PICK T : d \in Seq(Seq(T)) /\ \A l \in T : Sound(l)
  BY Zenon DEF SoundFile
<1>2. PICK lines, H : lines = Text(d) /\ H = RequireHeaderMap(lines)
  OBVIOUS
<1>3. lines \in Seq(T)
  BY <1>1, <1>2, FlattenType DEF Text
<1>4. ASSUME NEW name PROVE BookFault(lines, name) # "crashed"
  <2>1. CASE HasTable(lines, name)
    <3>1. TableRows(lines, name) \in Seq(T)
      BY <1>3, <2>1, RowsAreLines
    <3>2. BookTableFault(TableRows(lines, name), name) # "crashed"
      BY <1>1, <3>1, BookTableHolds
    <3> QED BY <2>1, <3>2, Zenon DEF BookFault
  <2>2. CASE ~ HasTable(lines, name)
    BY <2>2, Zenon DEF BookFault
  <2> QED BY <2>1, <2>2
<1>5. SUFFICES ASSUME BrokerageHeaders \subseteq DOMAIN H, ParseBrokerage(d) = BookOutcome(H, lines)
               PROVE  ParseBrokerage(d).status # "crashed"
  <2>1. Refused.status # "crashed"
    BY DEF Refused
  <2> QED BY <1>2, <2>1, ParseBrokerageIs, Zenon
<1>6. IdentityFault(H, BookKeys) # "crashed"
  <2> DEFINE K == {"account_id", "portfolio_id", "user_id"}
  <2>1. BookKeys \in Seq(K)
    BY DEF BookKeys
  <2>2. K \cup {"period_start", "period_end", "base_currency"} \subseteq BrokerageHeaders
    BY DEF BrokerageHeaders, CommonHeaders
  <2> HIDE DEF K
  <2>3. \A k \in K \cup {"period_start", "period_end", "base_currency"} : Judged(H[k].fault)
    BY <1>1, <1>2, <1>5, <2>2, HeaderIsSound
  <2> QED BY <2>1, <2>3, IdentityHolds
<1>7. \A statement : Parsed(statement).status # "crashed"
  BY DEF Parsed
<1>8. Refused.status # "crashed"
  BY DEF Refused
<1>9. ASSUME NEW f, f # "crashed" PROVE [status |-> f].status # "crashed"
  BY <1>9
<1>10. BookOutcome(H, lines).status # "crashed"
  BY <1>4, <1>6, <1>7, <1>8, <1>9, Zenon DEF BookOutcome
<1> QED
  BY <1>5, <1>10, Zenon

\* A sound file raises an exception only for its closing balance.
LEMMA CrashesByClosing ==
  ASSUME NEW d, SoundFile(d), Parse(d).status = "crashed"
  PROVE  RequireHeaderMap(Text(d))["closing_balance"].value
           # Last(TableRows(Text(d), "TRANSACTIONS")).cells.balance
<1>1. PICK T : d \in Seq(Seq(T)) /\ \A l \in T : Sound(l)
  BY Zenon DEF SoundFile
<1>2. PICK lines, H : lines = Text(d) /\ H = RequireHeaderMap(lines)
  OBVIOUS
<1>3. lines \in Seq(T)
  BY <1>1, <1>2, FlattenType DEF Text
<1>4. \A statement : Parsed(statement).status # "crashed"
  BY DEF Parsed
<1>5. Refused.status # "crashed"
  BY DEF Refused
<1>6. DetectFormat(d) # "unknown" /\ ParseBank(d).status = "crashed"
  BY <1>5, BookParserHolds, Zenon DEF Parse
<1>7. PICK listed : listed = TableRows(lines, "TRANSACTIONS")
  OBVIOUS
<1>8. /\ BankHeaders \subseteq DOMAIN H /\ HasTable(lines, "TRANSACTIONS")
      /\ BankOutcome(H, listed).status = "crashed"
  BY <1>2, <1>5, <1>6, <1>7, ParseBankIs, Zenon
<1>9. listed \in Seq(T)
  BY <1>3, <1>7, <1>8, RowsAreLines
<1>10. ASSUME NEW k \in BankHeaders
       PROVE  /\ Judged(H[k].fault)
              /\ k = "transaction_count" => H[k].value \in Nat \ {0} /\ H[k].fault = "none"
  BY <1>1, <1>2, <1>6, <1>8, HeaderIsSound
<1>11. /\ H["transaction_count"].value \in Nat \ {0} /\ H["transaction_count"].fault = "none"
       /\ H["opening_balance"].fault # "nan" /\ H["closing_balance"].fault # "nan"
  <2>1. "transaction_count" \in BankHeaders /\ "opening_balance" \in BankHeaders
        /\ "closing_balance" \in BankHeaders
    BY DEF BankHeaders
  <2>2. ~ Judged("nan")
    BY DEF Judged, Caught
  <2> QED BY <1>10, <2>1, <2>2
<1>12. BankTableFault(listed, H["opening_balance"]) # "crashed"
  <2>1. PICK opening : opening = H["opening_balance"]
    OBVIOUS
  <2>2. opening.fault # "nan"
    BY <1>11, <2>1
  <2>3. BankTableFault(listed, opening) # "crashed"
    BY <1>1, <1>9, <2>2, BankTableHolds
  <2> QED BY <2>1, <2>3, Zenon
<1>13. IdentityFault(H, BankKeys) # "crashed"
  <2> DEFINE K == {"account_id", "user_id"}
  <2>1. BankKeys \in Seq(K)
    BY DEF BankKeys
  <2>2. K \cup {"period_start", "period_end", "base_currency"} \subseteq BankHeaders
    BY DEF BankHeaders, CommonHeaders
  <2> HIDE DEF K
  <2>3. \A k \in K \cup {"period_start", "period_end", "base_currency"} : Judged(H[k].fault)
    BY <1>10, <2>2
  <2> QED BY <2>1, <2>3, IdentityHolds
<1>14. ASSUME NEW f, f # "crashed" PROVE [status |-> f].status # "crashed"
  BY <1>14
<1>15. /\ Len(listed) = H["transaction_count"].value
       /\ BankClosingFails(listed, H["opening_balance"], H["closing_balance"])
  BY <1>4, <1>5, <1>8, <1>11, <1>12, <1>13, <1>14, Zenon DEF BankOutcome
<1>16. listed # <<>>
  BY <1>11, <1>15
<1>17. listed[Len(listed)].cells.balance # H["closing_balance"].value
  BY <1>11, <1>15, <1>16, Zenon DEF BankClosingFails
<1>18. Last(listed) = listed[Len(listed)]
  BY Zenon DEF Last
<1> QED
  BY <1>2, <1>7, <1>17, <1>18, Zenon

---------------------------------------------------------------------------
(* A malformed statement is refused, but for what is not looked for.       *)

\* A statement that can be printed, and its file.
Printable(s) ==
  /\ s # None
  /\ IsBank(s) => s \in BankStatement /\ Balanced(s)
  /\ ~ IsBank(s) => \E p \in Portfolios : \E day, current : s = BrokerageSpec(p, day, current)
FileOf(s, d) == d = IF IsBank(s) THEN RenderBank(s) ELSE RenderBrokerage(s)

LEMMA FileIs ==
  ASSUME NEW s, NEW d, Printable(s), FileOf(s, d)
  PROVE  SoundFile(d) /\ d # <<>> /\ Ended(d)
<1>1. CASE IsBank(s)
  <2>1. s \in BankStatement /\ Balanced(s) /\ d = RenderBank(s)
    BY <1>1, Zenon DEF Printable, FileOf
  <2>2. s.rows \in Seq(Posted) /\ s.rows # <<>>
    BY <2>1, RowsRead, Zenon
  <2>3. SoundFile(RenderBank(s)) /\ RenderBank(s) # <<>> /\ Ended(RenderBank(s))
    BY ONLY <2>2, BankFileIs
  <2> QED BY <2>1, <2>3, Zenon
<1>2. CASE ~ IsBank(s)
  <2>1. PICK p \in Portfolios : \E day, current : s = BrokerageSpec(p, day, current)
    BY <1>2, Zenon DEF Printable
  <2>2. PICK day, current : s = BrokerageSpec(p, day, current)
    BY <2>1, Zenon
  <2>3. PICK end, book, start : Lists(book) /\ s = BookStatement(p, end, book, start)
    <3>1. PICK end, book, start :
            Lists(book) /\ BrokerageSpec(p, day, current) = BookStatement(p, end, book, start)
      BY SpecIsStatement, Zenon
    <3> QED BY <2>2, <3>1, Zenon
  <2>4. PICK R : Tabled(s, R)
    BY <2>3, BookReads, Zenon
  <2>5. d = RenderBrokerage(s)
    BY <1>2, Zenon DEF FileOf
  <2>6. /\ SoundFile(RenderBrokerage(s)) /\ RenderBrokerage(s) # <<>>
        /\ Ended(RenderBrokerage(s))
    BY ONLY <2>4, BookFileIs
  <2> QED BY <2>5, <2>6, Zenon
<1> QED
  BY <1>1, <1>2

\* A file is sound, but for a value that is not looked for.
HarmedFiles ==
  /\ spec = None => harm = "none"
  /\ spec # None /\ harm # "uncaught" => SoundFile(doc)

MalformedInv == RoundTripInv /\ HarmedFiles

LEMMA PrintableIs ==
  ASSUME Printed, FilesAre, spec # None, harm = "none"
  PROVE  Printable(spec) /\ FileOf(spec, doc)
<1>1. IsBank(spec) => spec \in BankStatement /\ Balanced(spec)
  BY Zenon DEF FilesAre
<1>2. FileOf(spec, doc)
  BY Zenon DEF FilesAre, FileOf
<1>3. ~ IsBank(spec) => \E p \in Portfolios : spec = BrokerageSpec(p, asOf, asOf # HISTORICAL)
  BY Zenon DEF Printed
<1>4. ~ IsBank(spec) =>
        \E p \in Portfolios : \E day, current : spec = BrokerageSpec(p, day, current)
  BY <1>3, Zenon
<1> QED
  BY <1>1, <1>2, <1>4, Zenon DEF Printable

LEMMA HarmedAtPrintBank ==
  ASSUME Kept, LedgersBalance, HarmedFiles, PrintBank
  PROVE  HarmedFiles'
<1>1. PICK i \in DOMAIN statements : spec' = statements[i] /\ doc' = RenderBank(statements[i])
  BY DEF PrintBank
<1>2. spec = None /\ harm' = harm
  BY DEF PrintBank
<1>3. PICK s, d : s = statements[i] /\ d = RenderBank(statements[i])
  OBVIOUS
<1>4. s \in BankStatement /\ Balanced(s) /\ IsBank(s)
  BY <1>3, StatementsAreBank DEF Kept, GeneratorType, LedgersBalance
<1>5. s # None
  BY <1>4, NoneIsNoBank, Zenon
<1>6. Printable(s) /\ FileOf(s, d)
  BY <1>3, <1>4, <1>5, Zenon DEF Printable, FileOf
<1>7. SoundFile(d)
  BY <1>6, FileIs
<1>8. harm' = "none" /\ spec' = s /\ doc' = d
  BY <1>1, <1>2, <1>3, Zenon DEF HarmedFiles
<1> QED
  BY <1>5, <1>7, <1>8 DEF HarmedFiles

LEMMA HarmedAtPrintBrokerage ==
  ASSUME HarmedFiles, PrintBrokerage
  PROVE  HarmedFiles'
<1>1. PICK p \in Portfolios : spec' = BrokerageSpec(p, asOf, asOf # HISTORICAL)
  BY DEF PrintBrokerage
<1>2. doc' = RenderBrokerage(spec') /\ spec = None /\ harm' = harm
  BY DEF PrintBrokerage
<1>3. PICK s, d : s = BrokerageSpec(p, asOf, asOf # HISTORICAL) /\ d = RenderBrokerage(s)
  OBVIOUS
<1>4. ~ IsBank(s)
  <2>1. PICK day, book, start :
          Lists(book) /\ BrokerageSpec(p, asOf, asOf # HISTORICAL) = BookStatement(p, day, book, start)
    BY SpecIsStatement, Zenon
  <2>2. s = BookStatement(p, day, book, start)
    BY <1>3, <2>1, Zenon
  <2> QED BY <2>1, <2>2, BookReads, Zenon
<1>5. harm' = "none" /\ spec' = s /\ doc' = d
  BY <1>1, <1>2, <1>3, Zenon DEF HarmedFiles
<1>6. CASE s = None
  BY <1>5, <1>6 DEF HarmedFiles
<1>7. CASE s # None
  <2>1. Printable(s) /\ FileOf(s, d)
    BY <1>3, <1>4, <1>7, Zenon DEF Printable, FileOf
  <2>2. SoundFile(d)
    BY <2>1, FileIs
  <2> QED BY <1>5, <1>7, <2>2 DEF HarmedFiles
<1> QED
  BY <1>6, <1>7

LEMMA HarmedAtSuffer ==
  ASSUME Printed, FilesAre, HarmedFiles, Suffer
  PROVE  HarmedFiles'
<1>1. PICK kind \in Harms : doc' \in Harmed(kind) /\ harm' = kind
  BY DEF Suffer
<1>2. spec # None /\ harm = "none" /\ spec' = spec
  BY DEF Suffer
<1>3. Printable(spec) /\ FileOf(spec, doc)
  BY <1>2, PrintableIs
<1>4. PICK d : d = doc'
  OBVIOUS
<1>5. kind # "uncaught" => SoundFile(d)
  <2>1. SoundFile(doc) /\ doc # <<>> /\ Ended(doc)
    BY <1>3, FileIs, Zenon
  <2> QED BY <1>1, <1>4, <2>1, HarmedIsSound
<1> QED
  BY <1>1, <1>2, <1>4, <1>5 DEF HarmedFiles

LEMMA HarmedStep ==
  ASSUME RoundTripInv, HarmedFiles, [Next]_vars
  PROVE  HarmedFiles'
<1>1. Printed /\ FilesAre /\ LedgersBalance /\ Kept
  BY Zenon DEF RoundTripInv, GeneratedInv, Kept
<1>2. ASSUME spec' = spec, doc' = doc, harm' = harm PROVE HarmedFiles'
  BY <1>2 DEF HarmedFiles
<1>3. CASE PrintBank
  BY <1>1, <1>3, HarmedAtPrintBank
<1>4. CASE PrintBrokerage
  BY <1>4, HarmedAtPrintBrokerage
<1>5. CASE Suffer
  BY <1>1, <1>5, HarmedAtSuffer
<1>6. CASE Generating \/ ReadStatement \/ UNCHANGED vars
  BY <1>2, <1>6 DEF Generating, ReadStatement, vars
<1> QED
  BY <1>3, <1>4, <1>5, <1>6 DEF Next

LEMMA MalformedHolds ==
  ASSUME FilesAre, HarmedFiles
  PROVE  MalformedIsRefused
<1>1. None.status = "none"
  BY DEF None
<1>2. outcome # None => spec # None /\ outcome = Parse(doc)
  BY Zenon DEF FilesAre
<1>3. ASSUME outcome.status = "crashed", harm # "uncaught" PROVE ClosingDiffers
  <2>1. outcome # None
    BY <1>1, <1>3
  <2>2. SoundFile(doc) /\ Parse(doc).status = "crashed"
    BY <1>2, <1>3, <2>1, Zenon DEF HarmedFiles
  <2>3. RequireHeaderMap(Text(doc))["closing_balance"].value
          # Last(TableRows(Text(doc), "TRANSACTIONS")).cells.balance
    BY ONLY <2>2, CrashesByClosing
  <2> QED BY <2>3, Zenon DEF ClosingDiffers
<1> QED
  BY <1>3, Zenon DEF MalformedIsRefused

\* A malformed statement is refused with a code, never with an exception the
\* callers do not know, but for a closing balance that is not that of the last
\* row, whose message raises NameError, and for a value wrong in a way that its
\* conversion does not look for, such as a day that does not exist (parse_bank_pdf,
\* parse_brokerage_pdf and the row parsers they call): for every page size, every
\* as-of date, every book and every choice of the rows that suffer.
THEOREM MalformedAlways == Spec => []MalformedIsRefused
<1>1. Init => MalformedInv
  <2> SUFFICES ASSUME Init PROVE MalformedInv
    OBVIOUS
  <2>3. RoundTripInv
    BY RoundTripStarts
  <2>4. HarmedFiles
    BY DEF Init, HarmedFiles
  <2> QED BY <2>3, <2>4, Zenon DEF MalformedInv
<1>2. MalformedInv /\ [Next]_vars => MalformedInv'
  <2> SUFFICES ASSUME MalformedInv, [Next]_vars PROVE MalformedInv'
    OBVIOUS
  <2>1. RoundTripInv /\ HarmedFiles
    BY Zenon DEF MalformedInv
  <2>2. RoundTripInv'
    BY <2>1, RoundTripStep
  <2>3. HarmedFiles'
    BY <2>1, HarmedStep
  <2> QED BY <2>2, <2>3, Zenon DEF MalformedInv
<1>3. MalformedInv => MalformedIsRefused
  <2> SUFFICES ASSUME MalformedInv PROVE MalformedIsRefused
    OBVIOUS
  <2>1. FilesAre /\ HarmedFiles
    BY Zenon DEF MalformedInv, RoundTripInv
  <2> QED BY <2>1, MalformedHolds
<1> QED
  BY <1>1, <1>2, <1>3, PTL DEF Spec
=============================================================================
