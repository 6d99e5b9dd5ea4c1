------------------------ MODULE StatementStoreProofs ------------------------
(***************************************************************************)
(* The safety of StatementStore, for every value of its constants.  Core   *)
(* relates what a seed has taken out and put in to the rows it found;      *)
(* Data says what the stored documents are; Form what is answered and what *)
(* is left of a batch.                                                     *)
(***************************************************************************)
EXTENDS StatementStore, FiniteSetTheorems, WellFoundedInduction, TLAPS

---------------------------------------------------------------------------
(* Sessions: idle, or a record of these fields.                            *)

IsRecord(r, F) == r = [f \in F |-> r[f]]
UploadFields == {"pc", "todo", "path", "dataset", "minus", "plus"}
SeedFields == {"pc", "dataset", "asOf", "todo", "plus", "minus", "old", "candidates",
               "portfolios", "raced", "late"}
Fields(s) == IF s = Seed THEN SeedFields ELSE UploadFields
Steps(s) == IF s = Seed THEN {"ingest", "rows", "delete", "portfolios", "purge", "failed"}
            ELSE {"ingest", "rows"}

Shape(s) == tx[s] = Idle \/ (IsRecord(tx[s], Fields(s)) /\ tx[s].pc \in Steps(s))
Shapes == tx = [s \in Sessions |-> tx[s]] /\ \A s \in Sessions : Shape(s)

\* What a step leaves alone: the other sessions, and fields of one.
Others(s) == \A r \in Sessions \ {s} : tx'[r] = tx[r]
Keeps(s, F) == \A f \in F : tx'[s][f] = tx[s][f]

LEMMA InitShapes == Init => Shapes
BY DEF Init, Shapes, Shape

LEMMA IdleStep == Idle.pc = "idle"
BY DEF Idle

LEMMA Busy ==
  ASSUME Shapes, NEW s \in Sessions, tx[s].pc # "idle"
  PROVE IsRecord(tx[s], Fields(s)) /\ tx[s].pc \in Steps(s)
BY IdleStep DEF Shapes, Shape

LEMMA ShapesStep ==
  ASSUME Shapes, NEW s \in Sessions, tx' = [r \in Sessions |-> tx'[r]], Others(s),
         tx'[s] = Idle \/ (IsRecord(tx'[s], Fields(s)) /\ tx'[s].pc \in Steps(s))
  PROVE Shapes'
BY DEF Shapes, Shape, Others

LEMMA Reassigned ==
  ASSUME Shapes, NEW s \in Sessions, NEW v, tx' = [tx EXCEPT ![s] = v]
  PROVE tx' = [r \in Sessions |-> tx'[r]] /\ Others(s) /\ tx'[s] = v
BY DEF Shapes, Others

LEMMA Unchanged == ASSUME Shapes, UNCHANGED tx PROVE Shapes' /\ \A s \in Sessions : tx'[s] = tx[s]
BY DEF Shapes, Shape

LEMMA StepFields == \A s : {"pc", "todo", "plus", "minus", "dataset"} \subseteq Fields(s)
BY DEF Fields, SeedFields, UploadFields

\* The portfolio the seed looks at, and its trades.
Checked == CHOOSE p \in tx[Seed].portfolios : TRUE
TradesOf(p) == {x \in Of(db, "trade") : x.r = <<"account", p>>}

LEMMA StoreEffect ==
  ASSUME Shapes, NEW s \in Sessions, Store(s)
  PROVE /\ Shapes' /\ Others(s) /\ db' = db
        /\ tx[s].pc = "ingest" /\ tx[s].todo # <<>>
        /\ ~Has(Visible(s), "statement", Head(tx[s].todo).id)
        /\ tx'[s].pc = "rows"
        /\ tx'[s].plus = tx[s].plus \cup {StatementRow(Head(tx[s].todo), tx[s].dataset)}
        /\ Keeps(s, Fields(s) \ {"pc", "plus"})
<1> DEFINE v1 == tx[s].plus \cup {StatementRow(Head(tx[s].todo), tx[s].dataset)}
<1>1. /\ tx' = [tx EXCEPT ![s].pc = "rows", ![s].plus = v1]
      /\ db' = db
      /\ tx[s].pc = "ingest" /\ tx[s].todo # <<>>
      /\ ~Has(Visible(s), "statement", Head(tx[s].todo).id)
  BY DEF Store
<1>2. tx[s] = [f \in Fields(s) |-> tx[s][f]]
  BY <1>1, Busy DEF IsRecord
<1>3. tx = [r \in Sessions |-> tx[r]]
  BY DEF Shapes
<1> HIDE DEF v1
<1>4. tx' = [r \in Sessions |-> tx'[r]] /\ Others(s)
  BY <1>1, <1>2, <1>3 DEF Others
<1>5. /\ tx'[s] = [f \in Fields(s) |-> tx'[s][f]]
      /\ tx'[s].pc = "rows"
      /\ tx'[s].plus = v1
      /\ Keeps(s, Fields(s) \ {"pc", "plus"})
  BY <1>1, <1>2, <1>3, StepFields DEF Keeps
<1>6. tx'[s].pc \in Steps(s)
  BY <1>5 DEF Steps
<1>7. Shapes'
  BY <1>3, <1>4, <1>5, <1>6, ShapesStep DEF IsRecord
<1> QED
  BY <1>1, <1>4, <1>5, <1>7 DEF v1

LEMMA AddRowsEffect ==
  ASSUME Shapes, NEW s \in Sessions, AddRows(s)
  PROVE /\ Shapes' /\ Others(s) /\ db' = db
        /\ tx[s].pc = "rows"
        /\ tx'[s].pc = "ingest"
        /\ tx'[s].todo = Tail(tx[s].todo)
        /\ tx'[s].plus = tx[s].plus \cup DocumentRows(Head(tx[s].todo), Visible(s))
        /\ Keeps(s, Fields(s) \ {"pc", "todo", "plus"})
<1> DEFINE v1 == Tail(tx[s].todo)
           v2 == tx[s].plus \cup DocumentRows(Head(tx[s].todo), Visible(s))
<1>1. /\ tx' = [tx EXCEPT ![s].pc = "ingest", ![s].todo = v1, ![s].plus = v2]
      /\ db' = db
      /\ tx[s].pc = "rows"
  BY DEF AddRows
<1>2. tx[s] = [f \in Fields(s) |-> tx[s][f]]
  BY <1>1, Busy DEF IsRecord
<1>3. tx = [r \in Sessions |-> tx[r]]
  BY DEF Shapes
<1> HIDE DEF v1, v2
<1>4. tx' = [r \in Sessions |-> tx'[r]] /\ Others(s)
  BY <1>1, <1>2, <1>3 DEF Others
<1>5. /\ tx'[s] = [f \in Fields(s) |-> tx'[s][f]]
      /\ tx'[s].pc = "ingest"
      /\ tx'[s].todo = v1
      /\ tx'[s].plus = v2
      /\ Keeps(s, Fields(s) \ {"pc", "todo", "plus"})
  BY <1>1, <1>2, <1>3, StepFields DEF Keeps
<1>6. tx'[s].pc \in Steps(s)
  BY <1>5 DEF Steps
<1>7. Shapes'
  BY <1>3, <1>4, <1>5, <1>6, ShapesStep DEF IsRecord
<1> QED
  BY <1>1, <1>4, <1>5, <1>7 DEF v1, v2

LEMMA SeedReuseEffect ==
  ASSUME Shapes, Reuse(Seed)
  PROVE /\ Shapes' /\ Others(Seed) /\ db' = db
        /\ tx[Seed].pc = "ingest" /\ tx[Seed].todo # <<>>
        /\ Has(Visible(Seed), "statement", Head(tx[Seed].todo).id)
        /\ tx'[Seed].todo = Tail(tx[Seed].todo)
        /\ Keeps(Seed, Fields(Seed) \ {"todo"})
<1> DEFINE v0 == Tail(tx[Seed].todo)
<1>1. /\ tx' = [tx EXCEPT ![Seed].todo = v0]
      /\ db' = db
      /\ tx[Seed].pc = "ingest" /\ tx[Seed].todo # <<>>
      /\ Has(Visible(Seed), "statement", Head(tx[Seed].todo).id)
  BY DEF Reuse
<1>2. tx[Seed] = [f \in Fields(Seed) |-> tx[Seed][f]]
  BY <1>1, Busy DEF IsRecord, Sessions
<1>3. tx = [r \in Sessions |-> tx[r]] /\ Seed \in Sessions
  BY DEF Shapes, Sessions
<1> HIDE DEF v0
<1>4. tx' = [r \in Sessions |-> tx'[r]] /\ Others(Seed)
  BY <1>1, <1>2, <1>3 DEF Others
<1>5. /\ tx'[Seed] = [f \in Fields(Seed) |-> tx'[Seed][f]]
      /\ tx'[Seed].todo = v0
      /\ Keeps(Seed, Fields(Seed) \ {"todo"})
  BY <1>1, <1>2, <1>3, StepFields DEF Keeps
<1>6. tx'[Seed].pc \in Steps(Seed)
  BY <1>1, <1>5, StepFields DEF Keeps, Steps
<1>7. Shapes'
  BY <1>3, <1>4, <1>5, <1>6, ShapesStep DEF IsRecord
<1> QED
  BY <1>1, <1>4, <1>5, <1>7 DEF v0

LEMMA PurgeEffect ==
  ASSUME Shapes, PurgeTrades
  PROVE /\ Shapes' /\ Others(Seed) /\ db' = db
        /\ tx[Seed].pc = "purge"
        /\ tx'[Seed].pc = "portfolios"
        /\ tx'[Seed].portfolios = tx[Seed].portfolios \ {Checked}
        /\ tx'[Seed].minus = tx[Seed].minus \cup TradesOf(Checked)
        /\ Keeps(Seed, Fields(Seed) \ {"pc", "portfolios", "minus"})
<1> DEFINE v1 == tx[Seed].portfolios \ {Checked}
           v2 == tx[Seed].minus \cup TradesOf(Checked)
<1>1. /\ tx' = [tx EXCEPT ![Seed].pc = "portfolios", ![Seed].portfolios = v1, ![Seed].minus = v2]
      /\ db' = db
      /\ tx[Seed].pc = "purge"
  BY DEF PurgeTrades, Checked, TradesOf
<1>2. tx[Seed] = [f \in Fields(Seed) |-> tx[Seed][f]]
  BY <1>1, Busy DEF IsRecord, Sessions
<1>3. tx = [r \in Sessions |-> tx[r]] /\ Seed \in Sessions
  BY DEF Shapes, Sessions
<1> HIDE DEF v1, v2
<1>4. tx' = [r \in Sessions |-> tx'[r]] /\ Others(Seed)
  BY <1>1, <1>2, <1>3 DEF Others
<1>5. /\ tx'[Seed] = [f \in Fields(Seed) |-> tx'[Seed][f]]
      /\ tx'[Seed].pc = "portfolios"
      /\ tx'[Seed].portfolios = v1
      /\ tx'[Seed].minus = v2
      /\ Keeps(Seed, Fields(Seed) \ {"pc", "portfolios", "minus"})
  BY <1>1, <1>2, <1>3, StepFields DEF Keeps, Fields, SeedFields
<1>6. tx'[Seed].pc \in Steps(Seed)
  BY <1>5 DEF Steps
<1>7. Shapes'
  BY <1>3, <1>4, <1>5, <1>6, ShapesStep DEF IsRecord
<1> QED
  BY <1>1, <1>4, <1>5, <1>7 DEF v1, v2

LEMMA DeleteStatementsEffect ==
  ASSUME Shapes, DeleteStatements
  PROVE /\ Shapes' /\ Others(Seed) /\ db' = db
        /\ tx[Seed].pc = "portfolios" /\ tx[Seed].portfolios = {}
        /\ tx'[Seed].pc = "ingest"
        /\ tx'[Seed].minus = tx[Seed].minus \cup tx[Seed].old
        /\ Keeps(Seed, Fields(Seed) \ {"pc", "minus"})
<1> DEFINE v1 == tx[Seed].minus \cup tx[Seed].old
<1>1. /\ tx' = [tx EXCEPT ![Seed].pc = "ingest", ![Seed].minus = v1]
      /\ db' = db
      /\ tx[Seed].pc = "portfolios" /\ tx[Seed].portfolios = {}
  BY DEF DeleteStatements
<1>2. tx[Seed] = [f \in Fields(Seed) |-> tx[Seed][f]]
  BY <1>1, Busy DEF IsRecord, Sessions
<1>3. tx = [r \in Sessions |-> tx[r]] /\ Seed \in Sessions
  BY DEF Shapes, Sessions
<1> HIDE DEF v1
<1>4. tx' = [r \in Sessions |-> tx'[r]] /\ Others(Seed)
  BY <1>1, <1>2, <1>3 DEF Others
<1>5. /\ tx'[Seed] = [f \in Fields(Seed) |-> tx'[Seed][f]]
      /\ tx'[Seed].pc = "ingest"
      /\ tx'[Seed].minus = v1
      /\ Keeps(Seed, Fields(Seed) \ {"pc", "minus"})
  BY <1>1, <1>2, <1>3, StepFields DEF Keeps
<1>6. tx'[Seed].pc \in Steps(Seed)
  BY <1>5 DEF Steps
<1>7. Shapes'
  BY <1>3, <1>4, <1>5, <1>6, ShapesStep DEF IsRecord
<1> QED
  BY <1>1, <1>4, <1>5, <1>7 DEF v1

LEMMA DeleteEffect ==
  ASSUME Shapes, Delete
  PROVE /\ Shapes' /\ Others(Seed) /\ db' = db
        /\ tx[Seed].pc = "delete"
        /\ \/ /\ Dangling(db \ DeletedRows(db, tx[Seed].old, tx[Seed].candidates))
              /\ tx'[Seed].pc = "failed"
              /\ Keeps(Seed, SeedFields \ {"pc"})
           \/ /\ ~Dangling(db \ DeletedRows(db, tx[Seed].old, tx[Seed].candidates))
              /\ tx'[Seed].pc = "portfolios"
              /\ tx'[Seed].minus = DeletedRows(db, tx[Seed].old, tx[Seed].candidates)
              /\ Keeps(Seed, SeedFields \ {"pc", "minus"})
<1>1. /\ tx' = IF Dangling(db \ DeletedRows(db, tx[Seed].old, tx[Seed].candidates)) THEN [tx EXCEPT ![Seed].pc = "failed"]
             ELSE [tx EXCEPT ![Seed].pc = "portfolios", ![Seed].minus = DeletedRows(db, tx[Seed].old, tx[Seed].candidates)]
      /\ db' = db
      /\ tx[Seed].pc = "delete"
  BY DEF Delete
<1>2. tx[Seed] = [f \in SeedFields |-> tx[Seed][f]]
  BY <1>1, Busy DEF IsRecord, Sessions, Fields
<1>3. tx = [r \in Sessions |-> tx[r]] /\ Seed \in Sessions
  BY DEF Shapes, Sessions
<1>4. {"pc", "todo", "plus", "minus", "dataset", "portfolios"} \subseteq SeedFields
  BY DEF SeedFields
<1>5. CASE Dangling(db \ DeletedRows(db, tx[Seed].old, tx[Seed].candidates))
  <2>1. tx' = [tx EXCEPT ![Seed].pc = "failed"]
    BY <1>1, <1>5
  <2>2. tx' = [r \in Sessions |-> tx'[r]] /\ Others(Seed)
    BY <2>1, <1>2, <1>3 DEF Others
  <2>3. /\ tx'[Seed] = [f \in SeedFields |-> tx'[Seed][f]]
        /\ tx'[Seed].pc = "failed"
        /\ Keeps(Seed, SeedFields \ {"pc"})
    BY <2>1, <1>2, <1>3, <1>4 DEF Keeps
  <2>4. tx'[Seed].pc \in Steps(Seed)
    BY <2>3 DEF Steps
  <2>5. Shapes'
    BY <1>3, <2>2, <2>3, <2>4, ShapesStep DEF IsRecord, Fields
  <2> QED
    BY <1>1, <1>5, <2>2, <2>3, <2>5
<1>6. CASE ~Dangling(db \ DeletedRows(db, tx[Seed].old, tx[Seed].candidates))
  <2>1. tx' = [tx EXCEPT ![Seed].pc = "portfolios", ![Seed].minus = DeletedRows(db, tx[Seed].old, tx[Seed].candidates)]
    BY <1>1, <1>6
  <2>2. tx' = [r \in Sessions |-> tx'[r]] /\ Others(Seed)
    BY <2>1, <1>2, <1>3 DEF Others
  <2>3. /\ tx'[Seed] = [f \in SeedFields |-> tx'[Seed][f]]
        /\ tx'[Seed].pc = "portfolios"
        /\ tx'[Seed].minus = DeletedRows(db, tx[Seed].old, tx[Seed].candidates)
        /\ Keeps(Seed, SeedFields \ {"pc", "minus"})
    BY <2>1, <1>2, <1>3, <1>4 DEF Keeps
  <2>4. tx'[Seed].pc \in Steps(Seed)
    BY <2>3 DEF Steps
  <2>5. Shapes'
    BY <1>3, <2>2, <2>3, <2>4, ShapesStep DEF IsRecord, Fields
  <2> QED
    BY <1>1, <1>6, <2>2, <2>3, <2>5
<1> QED
  BY <1>5, <1>6

LEMMA CheckEffect ==
  ASSUME Shapes, CheckPortfolio
  PROVE /\ Shapes' /\ Others(Seed) /\ db' = db
        /\ tx[Seed].pc = "portfolios" /\ tx[Seed].portfolios # {}
        /\ \/ /\ UploadRemains(Checked, tx[Seed].old)
              /\ tx'[Seed].portfolios = tx[Seed].portfolios \ {Checked}
              /\ Keeps(Seed, SeedFields \ {"portfolios"})
           \/ /\ ~UploadRemains(Checked, tx[Seed].old)
              /\ tx'[Seed].pc = "purge"
              /\ Keeps(Seed, SeedFields \ {"pc"})
<1>1. /\ tx' = IF UploadRemains(Checked, tx[Seed].old) THEN [tx EXCEPT ![Seed].portfolios = tx[Seed].portfolios \ {Checked}]
             ELSE [tx EXCEPT ![Seed].pc = "purge"]
      /\ db' = db
      /\ tx[Seed].pc = "portfolios" /\ tx[Seed].portfolios # {}
  BY DEF CheckPortfolio, Checked
<1>2. tx[Seed] = [f \in SeedFields |-> tx[Seed][f]]
  BY <1>1, Busy DEF IsRecord, Sessions, Fields
<1>3. tx = [r \in Sessions |-> tx[r]] /\ Seed \in Sessions
  BY DEF Shapes, Sessions
<1>4. {"pc", "todo", "plus", "minus", "dataset", "portfolios"} \subseteq SeedFields
  BY DEF SeedFields
<1>5. CASE UploadRemains(Checked, tx[Seed].old)
  <2>1. tx' = [tx EXCEPT ![Seed].portfolios = tx[Seed].portfolios \ {Checked}]
    BY <1>1, <1>5
  <2>2. tx' = [r \in Sessions |-> tx'[r]] /\ Others(Seed)
    BY <2>1, <1>2, <1>3 DEF Others
  <2>3. /\ tx'[Seed] = [f \in SeedFields |-> tx'[Seed][f]]
        /\ tx'[Seed].portfolios = tx[Seed].portfolios \ {Checked}
        /\ Keeps(Seed, SeedFields \ {"portfolios"})
    BY <2>1, <1>2, <1>3, <1>4 DEF Keeps
  <2>4. tx'[Seed].pc \in Steps(Seed)
    BY <2>3, <1>1, <1>4 DEF Keeps, Steps
  <2>5. Shapes'
    BY <1>3, <2>2, <2>3, <2>4, ShapesStep DEF IsRecord, Fields
  <2> QED
    BY <1>1, <1>5, <2>2, <2>3, <2>5
<1>6. CASE ~UploadRemains(Checked, tx[Seed].old)
  <2>1. tx' = [tx EXCEPT ![Seed].pc = "purge"]
    BY <1>1, <1>6
  <2>2. tx' = [r \in Sessions |-> tx'[r]] /\ Others(Seed)
    BY <2>1, <1>2, <1>3 DEF Others
  <2>3. /\ tx'[Seed] = [f \in SeedFields |-> tx'[Seed][f]]
        /\ tx'[Seed].pc = "purge"
        /\ Keeps(Seed, SeedFields \ {"pc"})
    BY <2>1, <1>2, <1>3, <1>4 DEF Keeps
  <2>4. tx'[Seed].pc \in Steps(Seed)
    BY <2>3 DEF Steps
  <2>5. Shapes'
    BY <1>3, <2>2, <2>3, <2>4, ShapesStep DEF IsRecord, Fields
  <2> QED
    BY <1>1, <1>6, <2>2, <2>3, <2>5
<1> QED
  BY <1>5, <1>6

LEMMA EndsShapes ==
  ASSUME Shapes, NEW s \in Sessions, tx' = [tx EXCEPT ![s] = Idle]
  PROVE Shapes' /\ Others(s) /\ tx'[s] = Idle
<1>1. tx' = [r \in Sessions |-> tx'[r]] /\ Others(s) /\ tx'[s] = Idle
  BY Reassigned
<1> QED
  BY <1>1, ShapesStep

LEMMA PostEffect ==
  ASSUME Shapes, NEW u \in Uploaders, Post(u)
  PROVE /\ Shapes' /\ Others(u) /\ db' = db
        /\ \/ tx'[u] = tx[u]
           \/ tx'[u].pc = "ingest" /\ tx'[u].plus = {} /\ tx'[u].minus = {} /\ tx'[u].dataset = Uploaded
<1> DEFINE f == Head(queue[u])
<1> DEFINE open == [pc |-> "ingest", todo |-> <<f.doc>>, path |-> f.name,
                    dataset |-> Uploaded, minus |-> {}, plus |-> {}]
<1>1. (tx' = tx \/ tx' = [tx EXCEPT ![u] = open]) /\ db' = db
  BY DEF Post
<1>2. u \in Sessions /\ Fields(u) = UploadFields
  BY StoreAssumption DEF Sessions, Fields
<1>3. CASE tx' = tx
  BY <1>1, <1>2, <1>3, Unchanged DEF Others
<1>4. CASE tx' = [tx EXCEPT ![u] = open]
  <2>1. IsRecord(open, UploadFields)
    BY DEF IsRecord, UploadFields
  <2>2. open.pc = "ingest" /\ open.plus = {} /\ open.minus = {} /\ open.dataset = Uploaded
    OBVIOUS
  <2> HIDE DEF open
  <2>3. tx' = [r \in Sessions |-> tx'[r]] /\ Others(u) /\ tx'[u] = open
    BY <1>2, <1>4, Reassigned
  <2>4. tx'[u].pc \in Steps(u)
    BY <2>2, <2>3 DEF Steps
  <2> QED
    BY <1>1, <1>2, <2>1, <2>2, <2>3, <2>4, ShapesStep
<1> QED
  BY <1>1, <1>3, <1>4

\* What the seed has noticed of a commit by somebody else.
SeedNotices(added) ==
  IF tx[Seed].pc = "idle" THEN tx'[Seed] = tx[Seed]
  ELSE /\ Keeps(Seed, SeedFields \ {"raced", "late"})
       /\ tx'[Seed].raced = TRUE
       /\ tx'[Seed].late = tx[Seed].late \cup (IF tx[Seed].pc = "purge" THEN added ELSE {})

LEMMA NoticedShape ==
  ASSUME Shapes, NEW added, NEW n, n = Noticed(added)
  PROVE /\ n = [r \in Sessions |-> n[r]]
        /\ \A r \in Sessions \ {Seed} : n[r] = tx[r]
        /\ IF tx[Seed].pc = "idle" THEN n[Seed] = tx[Seed]
           ELSE /\ IsRecord(n[Seed], Fields(Seed)) /\ n[Seed].pc \in Steps(Seed)
                /\ \A f \in SeedFields \ {"raced", "late"} : n[Seed][f] = tx[Seed][f]
                /\ n[Seed].raced = TRUE
                /\ n[Seed].late = tx[Seed].late \cup (IF tx[Seed].pc = "purge" THEN added ELSE {})
<1>1. tx = [r \in Sessions |-> tx[r]] /\ Seed \in Sessions
  BY DEF Shapes, Sessions
<1>2. CASE tx[Seed].pc = "idle"
  BY <1>1, <1>2 DEF Noticed
<1>3. CASE tx[Seed].pc # "idle"
  <2> DEFINE new == tx[Seed].late \cup (IF tx[Seed].pc = "purge" THEN added ELSE {})
  <2>1. n = [tx EXCEPT ![Seed].raced = TRUE, ![Seed].late = new]
    BY <1>3 DEF Noticed
  <2>2. tx[Seed] = [f \in SeedFields |-> tx[Seed][f]] /\ tx[Seed].pc \in Steps(Seed)
    BY <1>1, <1>3, Busy DEF IsRecord, Fields
  <2>3. {"pc", "raced", "late"} \subseteq SeedFields
    BY DEF SeedFields
  <2> HIDE DEF new
  <2>4. n = [r \in Sessions |-> n[r]] /\ \A r \in Sessions \ {Seed} : n[r] = tx[r]
    BY <1>1, <2>1, <2>2
  <2>5. /\ n[Seed] = [f \in SeedFields |-> n[Seed][f]]
        /\ n[Seed].raced = TRUE /\ n[Seed].late = new
        /\ \A f \in SeedFields \ {"raced", "late"} : n[Seed][f] = tx[Seed][f]
    BY <1>1, <2>1, <2>2, <2>3
  <2>6. n[Seed].pc = tx[Seed].pc
    BY <2>3, <2>5
  <2> QED
    BY <1>3, <2>2, <2>4, <2>5, <2>6 DEF IsRecord, Fields, new
<1> QED
  BY <1>2, <1>3

LEMMA ProposeEffect ==
  ASSUME Shapes, Propose
  PROVE /\ Shapes' /\ \A r \in Sessions \ {Seed} : tx'[r] = tx[r]
        /\ \E lot \in Of(db, "lot") :
             LET c == Row("candidate", lot.k, <<"lot", lot.k>>, <<>>) IN
             /\ ~Has(db, "candidate", lot.k)
             /\ tx[Seed].pc # "idle" => lot \notin tx[Seed].minus
             /\ db' = db \cup {c} /\ SeedNotices({c})
<1>1. PICK lot \in Of(db, "lot") :
        LET c == Row("candidate", lot.k, <<"lot", lot.k>>, <<>>) IN
        /\ ~Has(db, "candidate", lot.k)
        /\ tx[Seed].pc # "idle" => lot \notin tx[Seed].minus
        /\ db' = db \cup {c} /\ tx' = Noticed({c})
  BY Zenon DEF Propose
<1> DEFINE c == Row("candidate", lot.k, <<"lot", lot.k>>, <<>>)
<1>2. tx' = Noticed({c}) /\ db' = db \cup {c}
  BY <1>1
<1> HIDE DEF c
<1> DEFINE n == Noticed({c})
<1>3. /\ n = [r \in Sessions |-> n[r]]
      /\ \A r \in Sessions \ {Seed} : n[r] = tx[r]
      /\ IF tx[Seed].pc = "idle" THEN n[Seed] = tx[Seed]
         ELSE /\ IsRecord(n[Seed], Fields(Seed)) /\ n[Seed].pc \in Steps(Seed)
              /\ \A f \in SeedFields \ {"raced", "late"} : n[Seed][f] = tx[Seed][f]
              /\ n[Seed].raced = TRUE
              /\ n[Seed].late = tx[Seed].late \cup (IF tx[Seed].pc = "purge" THEN {c} ELSE {})
  BY NoticedShape
<1> HIDE DEF n
<1>7. tx' = n
  BY <1>2 DEF n
<1>4. Seed \in Sessions /\ (tx[Seed].pc = "idle" => tx[Seed] = Idle)
  <2>1. Seed \in Sessions
    BY DEF Sessions
  <2>2. Shape(Seed)
    BY <2>1 DEF Shapes
  <2>3. tx[Seed].pc = "idle" => tx[Seed].pc \notin Steps(Seed)
    BY DEF Steps
  <2> QED
    BY <2>1, <2>2, <2>3 DEF Shape
<1>5. Shapes'
  BY <1>3, <1>7, <1>4, ShapesStep DEF Others
<1>6. SeedNotices({c})
  BY <1>3, <1>7 DEF SeedNotices, Keeps
<1> QED
  BY <1>1, <1>2, <1>3, <1>7, <1>5, <1>6 DEF c

LEMMA CommitUploadEffect ==
  ASSUME Shapes, NEW u \in Uploaders, CommitUpload(u)
  PROVE /\ Shapes' /\ tx'[u] = Idle /\ tx[u].pc = "ingest" /\ tx[u].todo = <<>>
        /\ \A r \in Sessions \ {u, Seed} : tx'[r] = tx[r]
        /\ \/ db' = db /\ tx'[Seed] = tx[Seed]
           \/ ~Conflict(u) /\ db' = Visible(u) /\ SeedNotices(tx[u].plus)
<1>1. /\ tx[u].pc = "ingest" /\ tx[u].todo = <<>>
      /\ \/ db' = db /\ tx' = [tx EXCEPT ![u] = Idle]
         \/ ~Conflict(u) /\ db' = Visible(u) /\ tx' = [Noticed(tx[u].plus) EXCEPT ![u] = Idle]
  BY DEF CommitUpload
<1>2. u \in Sessions /\ Seed \in Sessions /\ u # Seed
  BY StoreAssumption DEF Sessions
<1>3. CASE db' = db /\ tx' = [tx EXCEPT ![u] = Idle]
  BY <1>1, <1>2, <1>3, EndsShapes DEF Others
<1>4. CASE ~Conflict(u) /\ db' = Visible(u) /\ tx' = [Noticed(tx[u].plus) EXCEPT ![u] = Idle]
  <2> DEFINE n == Noticed(tx[u].plus)
  <2>1. /\ n = [r \in Sessions |-> n[r]]
        /\ \A r \in Sessions \ {Seed} : n[r] = tx[r]
        /\ IF tx[Seed].pc = "idle" THEN n[Seed] = tx[Seed]
           ELSE /\ IsRecord(n[Seed], Fields(Seed)) /\ n[Seed].pc \in Steps(Seed)
                /\ \A f \in SeedFields \ {"raced", "late"} : n[Seed][f] = tx[Seed][f]
                /\ n[Seed].raced = TRUE
                /\ n[Seed].late = tx[Seed].late \cup (IF tx[Seed].pc = "purge" THEN tx[u].plus ELSE {})
    BY NoticedShape
  <2>2. tx' = [n EXCEPT ![u] = Idle]
    BY <1>4
  <2> HIDE DEF n
  <2>3. /\ tx' = [r \in Sessions |-> tx'[r]] /\ tx'[u] = Idle /\ tx'[Seed] = n[Seed]
        /\ \A r \in Sessions \ {u, Seed} : tx'[r] = tx[r]
    BY <2>1, <2>2, <1>2
  <2>4. \A r \in Sessions : Shape(r)
    BY DEF Shapes
  <2>5. Shape(Seed)'
    <3>1. CASE tx[Seed].pc = "idle"
      BY <2>1, <2>3, <2>4, <3>1, <1>2 DEF Shape
    <3>2. CASE tx[Seed].pc # "idle"
      BY <2>1, <2>3, <3>2 DEF Shape
    <3> QED
      BY <3>1, <3>2
  <2>6. \A r \in Sessions : Shape(r)'
    <3> TAKE r \in Sessions
    <3>1. CASE r = u
      BY <2>3, <3>1 DEF Shape
    <3>2. CASE r = Seed
      BY <2>5, <3>2
    <3>3. CASE r \notin {u, Seed}
      BY <2>3, <2>4, <3>3 DEF Shape
    <3> QED
      BY <3>1, <3>2, <3>3
  <2>7. Shapes'
    BY <2>3, <2>6 DEF Shapes
  <2>8. SeedNotices(tx[u].plus)
    BY <2>1, <2>3 DEF SeedNotices, Keeps
  <2> QED
    BY <1>1, <1>4, <2>3, <2>7, <2>8
<1> QED
  BY <1>1, <1>3, <1>4

LEMMA StartSeedEffect ==
  ASSUME Shapes, StartSeed
  PROVE /\ Shapes' /\ Others(Seed) /\ db' = db
        /\ tx[Seed].pc = "idle"
        /\ \E ds \in DOMAIN Generated :
             /\ tx'[Seed].dataset = ds[1] /\ tx'[Seed].asOf = ds[2] /\ tx'[Seed].todo = Generated[ds]
        /\ tx'[Seed].pc = IF Replaceable(db) = {} THEN "ingest" ELSE "delete"
        /\ tx'[Seed].plus = {x \in ReferenceRows : ~Has(db, x.t, x.k)} /\ tx'[Seed].minus = {}
        /\ tx'[Seed].old = Replaceable(db) /\ tx'[Seed].late = {} /\ tx'[Seed].raced = FALSE
        /\ tx'[Seed].candidates = Referring(db, "candidate", Belonging(db, "lot", Replaceable(db)))
        /\ tx'[Seed].portfolios = {x.r[2] : x \in {st \in Replaceable(db) : st.v[2] = BrokerageFormat}}
<1> DEFINE old == Replaceable(db)
           lots == Belonging(db, "lot", old)
           portfolios == {x.r[2] : x \in {st \in old : st.v[2] = BrokerageFormat}}
           reference == {x \in ReferenceRows : ~Has(db, x.t, x.k)}
           candidates == Referring(db, "candidate", lots)
           started(ds) == [pc |-> IF old = {} THEN "ingest" ELSE "delete",
             dataset |-> ds[1], asOf |-> ds[2], todo |-> Generated[ds],
             plus |-> reference, minus |-> {},
             old |-> old, candidates |-> candidates,
             portfolios |-> portfolios, raced |-> FALSE, late |-> {}]
<1>1. PICK ds \in DOMAIN Generated : tx' = [tx EXCEPT ![Seed] = started(ds)]
  BY Zenon DEF StartSeed
<1>2. tx[Seed].pc = "idle" /\ db' = db /\ Seed \in Sessions
  BY DEF StartSeed, Sessions
<1> HIDE DEF old, portfolios, reference, candidates
<1>3. IsRecord(started(ds), Fields(Seed)) /\ started(ds).pc \in Steps(Seed)
  BY DEF IsRecord, Fields, SeedFields, Steps
<1>4. /\ started(ds).pc = (IF old = {} THEN "ingest" ELSE "delete")
      /\ started(ds).dataset = ds[1] /\ started(ds).asOf = ds[2] /\ started(ds).todo = Generated[ds]
      /\ started(ds).plus = reference /\ started(ds).minus = {} /\ started(ds).old = old
      /\ started(ds).late = {} /\ started(ds).candidates = candidates
      /\ started(ds).portfolios = portfolios /\ started(ds).raced = FALSE
  OBVIOUS
<1> HIDE DEF started
<1>5. tx' = [r \in Sessions |-> tx'[r]] /\ Others(Seed) /\ tx'[Seed] = started(ds)
  BY <1>1, <1>2, Reassigned
<1>6. Shapes'
  BY <1>2, <1>3, <1>5, ShapesStep
<1> QED
  BY <1>2, <1>4, <1>5, <1>6 DEF old, portfolios, reference, candidates, lots

LEMMA CommitSeedEffect ==
  ASSUME Shapes, CommitSeed
  PROVE /\ Shapes' /\ Others(Seed) /\ tx[Seed].pc = "ingest" /\ tx[Seed].todo = <<>>
        /\ LET minus == tx[Seed].minus \cup {x \in Of(db, "state") : ReplacedState(x)}
               plus == tx[Seed].plus \cup LabelRows \cup {StateRow}
           IN \/ /\ Taken(db \ minus, plus) \/ Dangling((db \ minus) \cup plus)
                 /\ db' = db /\ tx'[Seed].pc = "failed" /\ Keeps(Seed, SeedFields \ {"pc"})
              \/ /\ ~Taken(db \ minus, plus) /\ ~Dangling((db \ minus) \cup plus)
                 /\ db' = (db \ minus) \cup plus /\ tx'[Seed] = Idle
<1> DEFINE minus == tx[Seed].minus \cup {x \in Of(db, "state") : ReplacedState(x)}
           plus == tx[Seed].plus \cup LabelRows \cup {StateRow}
           done == Finished[Seed]
           next == (db \ minus) \cup plus
<1>1. tx = [r \in Sessions |-> tx[r]] /\ Seed \in Sessions
  BY DEF Shapes, Sessions
<1>2. /\ tx[Seed].pc = "ingest" /\ tx[Seed].todo = <<>>
      /\ IF Taken(db \ done.minus, done.plus) \/ Dangling((db \ done.minus) \cup done.plus)
         THEN db' = db /\ tx' = [tx EXCEPT ![Seed].pc = "failed"]
         ELSE db' = (db \ done.minus) \cup done.plus /\ tx' = [tx EXCEPT ![Seed] = Idle]
  BY DEF CommitSeed
<1>3. tx[Seed] = [f \in SeedFields |-> tx[Seed][f]]
  BY <1>1, <1>2, Busy DEF IsRecord, Fields
<1>4. {"pc", "plus", "minus"} \subseteq SeedFields
  BY DEF SeedFields
<1>5. Finished = [tx EXCEPT ![Seed].minus = minus, ![Seed].plus = plus]
  BY DEF Finished
<1> HIDE DEF minus, plus
<1>6. done.minus = minus /\ done.plus = plus
  BY <1>1, <1>3, <1>4, <1>5
<1> HIDE DEF done
<1>7. CASE Taken(db \ minus, plus) \/ Dangling(next)
  <2>1. tx' = [tx EXCEPT ![Seed].pc = "failed"] /\ db' = db
    BY <1>2, <1>6, <1>7
  <2>2. tx' = [r \in Sessions |-> tx'[r]] /\ Others(Seed)
    BY <1>1, <1>3, <2>1 DEF Others
  <2>3. /\ tx'[Seed] = [f \in SeedFields |-> tx'[Seed][f]]
        /\ tx'[Seed].pc = "failed" /\ Keeps(Seed, SeedFields \ {"pc"})
    BY <1>1, <1>3, <1>4, <2>1 DEF Keeps
  <2>4. tx'[Seed].pc \in Steps(Seed)
    BY <2>3 DEF Steps
  <2>5. Shapes'
    BY <1>1, <2>2, <2>3, <2>4, ShapesStep DEF IsRecord, Fields
  <2> QED
    BY <1>2, <1>7, <2>1, <2>2, <2>3, <2>5 DEF minus, plus
<1>8. CASE ~Taken(db \ minus, plus) /\ ~Dangling(next)
  <2>1. tx' = [tx EXCEPT ![Seed] = Idle] /\ db' = next
    BY <1>2, <1>6, <1>8
  <2>2. Shapes' /\ Others(Seed) /\ tx'[Seed] = Idle
    BY <1>1, <2>1, EndsShapes
  <2> QED
    BY <1>2, <1>8, <2>1, <2>2 DEF minus, plus
<1> QED
  BY <1>7, <1>8

---------------------------------------------------------------------------
(* Rows. The tables, and what a row of each refers to.                     *)

Tables == {"statement", "txn", "lot", "trade", "holding", "asset", "mapping", "candidate", "label",
           "state", "account", "profile", "manifest"}

Shaped(x) ==
  /\ x.t \in Tables
  /\ x.t \in {"statement", "trade", "profile", "manifest"} => x.r = <<"account", x.r[2]>>
  /\ x.t \in {"txn", "lot", "holding"} => x.r = <<"statement", x.v[1]>>
  /\ x.t = "candidate" => x.r = <<"lot", x.k>>
  /\ x.t = "label" => x.r = <<"txn", x.k>>

OneKey(rows) == \A x, y \in Of(rows, "statement") : x.k = y.k => x = y

\* A trade's own statement; an uploaded one that protects its portfolio.
Anchored(x, rows) ==
  \E st \in Of(rows, "statement") : st.k = x.v[1] /\ st.r = x.r /\ st.v[2] = BrokerageFormat
Protected(x, rows) ==
  \E st \in Of(rows, "statement") : st.r = x.r /\ st.v[1] = Uploaded /\ st.v[2] = BrokerageFormat

Rows ==
  /\ \A x \in db : Shaped(x)
  /\ OneKey(db)
  /\ \A x \in Of(db, "trade") : Anchored(x, db) \/ Protected(x, db)

\* What a session has added: its documents' rows, the trades with their statement.
Added(r) ==
  r.pc \notin {"idle", "failed"} =>
    /\ \A x \in r.plus : Shaped(x) /\ x.t \notin {"state", "candidate", "label"}
    /\ OneKey(r.plus)
    /\ \A x \in Of(r.plus, "trade") : Anchored(x, r.plus)
    /\ r.pc = "rows" => StatementRow(Head(r.todo), r.dataset) \in r.plus

\* An upload deletes nothing, and its statement is marked as uploaded.
Uploading(r) ==
  r.pc # "idle" =>
    /\ r.dataset = Uploaded /\ r.minus = {}
    /\ \A x \in Of(r.plus, "statement") : x.v[1] = Uploaded

\* A trade of a statement that is being replaced, or committed too late to be seen.
Gone(x) == x \in tx[Seed].late \/ \E st \in tx[Seed].old : st.k = x.v[1]

\* What the seed deletes.
Marked(x) ==
  \/ x \in tx[Seed].old
  \/ x.t \in {"lot", "txn", "holding"} /\ \E st \in tx[Seed].old : x.r = <<"statement", st.k>>
  \/ x.t \in {"candidate", "label"}
  \/ x.t = "trade" /\ Gone(x)

\* The trades of a statement being replaced are deleted, or are still to be
\* looked at, or an upload protects their portfolio.
Settled(st) ==
  \/ st.r[2] \in tx[Seed].portfolios
  \/ UploadRemains(st.r[2], tx[Seed].old)
  \/ \A x \in Of(db, "trade") : x.r = st.r /\ x.v[1] = st.k => x \in tx[Seed].minus

Replacing ==
  tx[Seed].pc \notin {"idle", "failed"} =>
    /\ tx[Seed].old = Replaceable(db)
    /\ \A x \in tx[Seed].minus : Marked(x)
    /\ tx[Seed].pc = "delete" => tx[Seed].minus = {} /\ \A x \in tx[Seed].candidates : x.t = "candidate"
    /\ tx[Seed].pc = "purge" => \A x \in TradesOf(Checked) : Gone(x)
    /\ \A st \in tx[Seed].old : st.v[2] = BrokerageFormat => Settled(st)
    /\ tx[Seed].pc \in {"ingest", "rows"} =>
         tx[Seed].portfolios = {} /\ tx[Seed].old \subseteq tx[Seed].minus

Core ==
  /\ Shapes /\ Rows /\ Replacing
  /\ \A s \in Sessions : Added(tx[s])
  /\ \A u \in Uploaders : Uploading(tx[u])

---------------------------------------------------------------------------
(* The rows of a document.                                                 *)

LEMMA RowFields ==
  \A t, k, r, v : LET x == Row(t, k, r, v) IN x.t = t /\ x.k = k /\ x.r = r /\ x.v = v
BY DEF Row

LEMMA OfMembers == \A rows, t, x : x \in Of(rows, t) <=> x \in rows /\ x.t = t
BY DEF Of

LEMMA StatementFields ==
  \A doc, dataset :
    LET x == StatementRow(doc, dataset) IN
    /\ x.t = "statement" /\ x.k = doc.id /\ x.r = <<"account", doc.account>>
    /\ x.v = <<dataset, doc.format, doc.version>>
    /\ Shaped(x)
<1> TAKE doc, dataset
<1> DEFINE x == StatementRow(doc, dataset)
<1>1. /\ x.t = "statement" /\ x.k = doc.id /\ x.r = <<"account", doc.account>>
      /\ x.v = <<dataset, doc.format, doc.version>>
  BY DEF StatementRow, Row
<1> HIDE DEF x
<1>2. Shaped(x)
  BY <1>1 DEF Shaped, Tables
<1> QED
  BY <1>1, <1>2 DEF x

LEMMA DocumentRowsShape ==
  ASSUME NEW doc, NEW seen, NEW x \in DocumentRows(doc, seen)
  PROVE /\ Shaped(x) /\ x.t \in {"txn", "lot", "trade", "holding", "asset", "mapping"}
        /\ x.t = "trade" => Brokerage(doc) /\ x.r = <<"account", doc.account>> /\ x.v = <<doc.id>>
<1>1. CASE x \in OwnedRows(doc, seen)
  <2>1. PICK k : x = Row(RowTable(doc), k, <<"statement", doc.id>>, <<doc.id>>)
    BY <1>1 DEF OwnedRows
  <2>2. x.t \in {"txn", "lot"} /\ x.r = <<"statement", doc.id>> /\ x.v = <<doc.id>>
    BY <2>1 DEF Row, RowTable
  <2> QED
    BY <2>2 DEF Shaped, Tables
<1>2. CASE Brokerage(doc) /\ x \in TradeRows(doc, seen)
  <2>1. PICK k : x = Row("trade", k, <<"account", doc.account>>, <<doc.id>>)
    BY <1>2 DEF TradeRows
  <2>2. x.t = "trade" /\ x.r = <<"account", doc.account>> /\ x.v = <<doc.id>>
    BY <2>1 DEF Row
  <2> QED
    BY <1>2, <2>2 DEF Shaped, Tables
<1>3. CASE x \in HoldingRows(doc)
  <2>1. PICK k : x = Row("holding", k, <<"statement", doc.id>>, <<doc.id>>)
    BY <1>3 DEF HoldingRows
  <2>2. x.t = "holding" /\ x.r = <<"statement", doc.id>> /\ x.v = <<doc.id>>
    BY <2>1 DEF Row
  <2> QED
    BY <2>2 DEF Shaped, Tables
<1>4. CASE \E a \in doc.assets : x \in UpsertAsset(a, seen)
  <2>1. x.t \in {"asset", "mapping"}
    BY <1>4 DEF UpsertAsset, MappingRows, Row
  <2> QED
    BY <2>1 DEF Shaped, Tables
<1> QED
  BY <1>1, <1>2, <1>3, <1>4 DEF DocumentRows

LEMMA ReferenceRowsShape ==
  ASSUME NEW x \in ReferenceRows
  PROVE Shaped(x) /\ x.t \in {"account", "profile", "manifest"}
<1>1. PICK a \in Accounts :
        x \in {Row("account", a, None, <<>>), Row("profile", a, <<"account", a>>, <<>>),
               Row("manifest", a, <<"account", a>>, <<>>)}
  BY DEF ReferenceRows
<1>2. \/ x.t = "account"
      \/ x.t \in {"profile", "manifest"} /\ x.r = <<"account", a>>
  BY <1>1 DEF Row
<1> QED
  BY <1>2 DEF Shaped, Tables

LEMMA LabelRowsShape ==
  ASSUME NEW x \in LabelRows \cup {StateRow}
  PROVE Shaped(x) /\ x.t \in {"label", "state"}
<1>1. \/ \E k : x = Row("label", k, <<"txn", k>>, <<>>)
      \/ x = Row("state", tx[Seed].dataset, None, <<tx[Seed].asOf>>)
  BY DEF LabelRows, StateRow
<1>2. \/ x.t = "label" /\ x.r = <<"txn", x.k>>
      \/ x.t = "state"
  BY <1>1 DEF Row
<1> QED
  BY <1>2 DEF Shaped, Tables

---------------------------------------------------------------------------
(* What a session adds.                                                    *)

LEMMA MoreAnchored ==
  ASSUME NEW x, NEW rows, NEW more, rows \subseteq more
  PROVE (Anchored(x, rows) => Anchored(x, more)) /\ (Protected(x, rows) => Protected(x, more))
BY OfMembers DEF Anchored, Protected

LEMMA StoreAdded ==
  ASSUME Shapes, NEW s \in Sessions, Store(s), Added(tx[s])
  PROVE Added(tx'[s])
<1> DEFINE row == StatementRow(Head(tx[s].todo), tx[s].dataset)
<1>1. /\ tx[s].pc = "ingest" /\ tx'[s].pc = "rows"
      /\ ~Has(Visible(s), "statement", Head(tx[s].todo).id)
      /\ tx'[s].plus = tx[s].plus \cup {row}
      /\ tx'[s].todo = tx[s].todo /\ tx'[s].dataset = tx[s].dataset
  BY StoreEffect, StepFields DEF Keeps
<1>2. row.t = "statement" /\ row.k = Head(tx[s].todo).id /\ Shaped(row)
  BY StatementFields
<1>3. \A x \in Of(tx[s].plus, "statement") : x.k # row.k
  BY <1>1, <1>2, OfMembers DEF Has, Visible
<1> HIDE DEF row
<1>4. /\ \A x \in tx[s].plus : Shaped(x) /\ x.t \notin {"state", "candidate", "label"}
      /\ OneKey(tx[s].plus)
      /\ \A x \in Of(tx[s].plus, "trade") : Anchored(x, tx[s].plus)
  BY <1>1 DEF Added
<1>5. \A x \in tx'[s].plus : Shaped(x) /\ x.t \notin {"state", "candidate", "label"}
  BY <1>1, <1>2, <1>4
<1>6. OneKey(tx'[s].plus)
  BY <1>1, <1>3, <1>4, OfMembers DEF OneKey
<1>7. \A x \in Of(tx'[s].plus, "trade") : Anchored(x, tx'[s].plus)
  BY <1>1, <1>2, <1>4, OfMembers, MoreAnchored
<1>8. StatementRow(Head(tx'[s].todo), tx'[s].dataset) \in tx'[s].plus
  BY <1>1 DEF row
<1> QED
  BY <1>5, <1>6, <1>7, <1>8 DEF Added

LEMMA AddRowsAdded ==
  ASSUME Shapes, NEW s \in Sessions, AddRows(s), Added(tx[s])
  PROVE Added(tx'[s])
<1> DEFINE doc == Head(tx[s].todo)
           row == StatementRow(doc, tx[s].dataset)
           new == DocumentRows(doc, Visible(s))
<1>1. tx[s].pc = "rows" /\ tx'[s].pc = "ingest" /\ tx'[s].plus = tx[s].plus \cup new
  BY AddRowsEffect
<1>2. row.t = "statement" /\ row.k = doc.id /\ row.r = <<"account", doc.account>> /\ row.v[2] = doc.format
  BY StatementFields
<1>3. \A x \in new :
        /\ Shaped(x) /\ x.t \in {"txn", "lot", "trade", "holding", "asset", "mapping"}
        /\ x.t = "trade" => Brokerage(doc) /\ x.r = <<"account", doc.account>> /\ x.v = <<doc.id>>
  BY DocumentRowsShape
<1>4. /\ \A x \in tx[s].plus : Shaped(x) /\ x.t \notin {"state", "candidate", "label"}
      /\ OneKey(tx[s].plus)
      /\ \A x \in Of(tx[s].plus, "trade") : Anchored(x, tx[s].plus)
      /\ row \in tx[s].plus
  BY <1>1 DEF Added
<1> HIDE DEF new, row
<1>5. \A x \in Of(new, "trade") : Anchored(x, tx[s].plus)
  <2> TAKE x \in Of(new, "trade")
  <2>1. Brokerage(doc) /\ x.r = <<"account", doc.account>> /\ x.v = <<doc.id>>
    BY <1>3, OfMembers
  <2>2. row.k = x.v[1] /\ row.r = x.r /\ row.v[2] = BrokerageFormat /\ row \in Of(tx[s].plus, "statement")
    BY <1>2, <1>4, <2>1, OfMembers DEF Brokerage
  <2> QED
    BY <2>2 DEF Anchored
<1>6. \A x \in tx'[s].plus : Shaped(x) /\ x.t \notin {"state", "candidate", "label"}
  BY <1>1, <1>3, <1>4
<1>7. Of(tx'[s].plus, "statement") = Of(tx[s].plus, "statement")
  BY <1>1, <1>3 DEF Of
<1>8. OneKey(tx'[s].plus)
  BY <1>4, <1>7 DEF OneKey
<1>9. \A x \in Of(tx'[s].plus, "trade") : Anchored(x, tx'[s].plus)
  BY <1>1, <1>4, <1>5, OfMembers, MoreAnchored
<1> QED
  BY <1>1, <1>6, <1>8, <1>9 DEF Added

LEMMA SameAdded ==
  ASSUME NEW s \in Sessions, Added(tx[s]), Keeps(s, {"plus", "dataset"}),
         tx[s].pc \notin {"idle", "failed"}, tx'[s].pc # "rows"
  PROVE Added(tx'[s])
BY DEF Added, Keeps

LEMMA IdleAdded == Added(Idle)
BY IdleStep DEF Added

\* The fields of the seed that the steps of its replacement do not touch.
LEMMA SeedLeaves ==
  /\ {"plus", "dataset", "asOf", "old", "raced", "late", "candidates"} \subseteq
       SeedFields \ {"pc", "todo", "portfolios", "minus"}
  /\ Fields(Seed) = SeedFields
BY DEF SeedFields, Fields

LEMMA ReplacementAdded ==
  ASSUME Shapes, Added(tx[Seed]),
         Reuse(Seed) \/ PurgeTrades \/ DeleteStatements \/ Delete \/ CheckPortfolio
  PROVE Others(Seed) /\ Added(tx'[Seed])
<1>0. Seed \in Sessions
  BY DEF Sessions
<1>1. CASE Reuse(Seed)
  <2>1. tx[Seed].pc = "ingest" /\ Keeps(Seed, Fields(Seed) \ {"todo"}) /\ Others(Seed)
    BY <1>1, SeedReuseEffect
  <2>2. tx'[Seed].pc = "ingest" /\ Keeps(Seed, {"plus", "dataset"})
    BY <2>1, StepFields DEF Keeps
  <2> QED
    BY <1>0, <2>1, <2>2, SameAdded
<1>2. CASE PurgeTrades
  <2>1. /\ tx[Seed].pc = "purge" /\ tx'[Seed].pc = "portfolios" /\ Others(Seed)
        /\ Keeps(Seed, Fields(Seed) \ {"pc", "portfolios", "minus"})
    BY <1>2, PurgeEffect
  <2>2. Keeps(Seed, {"plus", "dataset"})
    BY <2>1, StepFields DEF Keeps
  <2> QED
    BY <1>0, <2>1, <2>2, SameAdded
<1>3. CASE DeleteStatements
  <2>1. /\ tx[Seed].pc = "portfolios" /\ tx'[Seed].pc = "ingest" /\ Others(Seed)
        /\ Keeps(Seed, Fields(Seed) \ {"pc", "minus"})
    BY <1>3, DeleteStatementsEffect
  <2>2. Keeps(Seed, {"plus", "dataset"})
    BY <2>1, StepFields DEF Keeps
  <2> QED
    BY <1>0, <2>1, <2>2, SameAdded
<1>4. CASE Delete
  <2>1. /\ tx[Seed].pc = "delete" /\ tx'[Seed].pc \in {"failed", "portfolios"} /\ Others(Seed)
        /\ Keeps(Seed, SeedFields \ {"pc", "minus"})
    BY <1>4, DeleteEffect DEF Keeps
  <2>2. Keeps(Seed, {"plus", "dataset"})
    BY <2>1, StepFields, SeedLeaves DEF Keeps
  <2> QED
    BY <1>0, <2>1, <2>2, SameAdded
<1>5. CASE CheckPortfolio
  <2>1. /\ tx[Seed].pc = "portfolios" /\ Others(Seed)
        /\ \/ Keeps(Seed, SeedFields \ {"portfolios"})
           \/ tx'[Seed].pc = "purge" /\ Keeps(Seed, SeedFields \ {"pc"})
    BY <1>5, CheckEffect
  <2>2. Keeps(Seed, {"plus", "dataset"}) /\ tx'[Seed].pc \in {"portfolios", "purge"}
    BY <2>1, StepFields, SeedLeaves DEF Keeps
  <2> QED
    BY <1>0, <2>1, <2>2, SameAdded
<1> QED
  BY <1>1, <1>2, <1>3, <1>4, <1>5

---------------------------------------------------------------------------
(* What the seed replaces.                                                 *)

LEMMA SamePortfolios ==
  ASSUME tx'[Seed].portfolios = tx[Seed].portfolios, db' = db
  PROVE Checked' = Checked /\ TradesOf(Checked)' = TradesOf(Checked)
<1>1. Checked' = Checked
  BY DEF Checked
<1> QED
  BY <1>1 DEF TradesOf, Of

LEMMA SameGone ==
  ASSUME Keeps(Seed, {"old", "late"})
  PROVE \A x : (Gone(x)' <=> Gone(x)) /\ (Marked(x)' <=> Marked(x))
BY DEF Keeps, Gone, Marked

LEMMA SameSettled ==
  ASSUME Keeps(Seed, {"old", "minus", "portfolios"}), db' = db
  PROVE \A st : Settled(st)' <=> Settled(st)
BY DEF Keeps, Settled, UploadRemains, Of

Frame == {"old", "minus", "candidates", "portfolios", "late"}

LEMMA SameReplacing ==
  ASSUME Replacing, db' = db, Keeps(Seed, Frame),
         tx'[Seed].pc = tx[Seed].pc \/ {tx'[Seed].pc, tx[Seed].pc} \subseteq {"ingest", "rows"}
  PROVE Replacing'
<1> SUFFICES ASSUME tx'[Seed].pc \notin {"idle", "failed"} PROVE Replacing'
  BY DEF Replacing
<1>1. /\ tx'[Seed].old = tx[Seed].old /\ tx'[Seed].minus = tx[Seed].minus
      /\ tx'[Seed].candidates = tx[Seed].candidates /\ tx'[Seed].portfolios = tx[Seed].portfolios
      /\ Keeps(Seed, {"old", "late"}) /\ Keeps(Seed, {"old", "minus", "portfolios"})
  BY DEF Keeps, Frame
<1>2. /\ tx[Seed].old = Replaceable(db)
      /\ \A x \in tx[Seed].minus : Marked(x)
      /\ tx[Seed].pc = "delete" => tx[Seed].minus = {} /\ \A x \in tx[Seed].candidates : x.t = "candidate"
      /\ tx[Seed].pc = "purge" => \A x \in TradesOf(Checked) : Gone(x)
      /\ \A st \in tx[Seed].old : st.v[2] = BrokerageFormat => Settled(st)
      /\ tx[Seed].pc \in {"ingest", "rows"} =>
           tx[Seed].portfolios = {} /\ tx[Seed].old \subseteq tx[Seed].minus
  BY DEF Replacing
<1>3. Replaceable(db)' = Replaceable(db)
  BY DEF Replaceable, Of
<1>4. \A x \in tx'[Seed].minus : Marked(x)'
  BY <1>1, <1>2, SameGone
<1>5. tx'[Seed].pc = "purge" => \A x \in TradesOf(Checked)' : Gone(x)'
  BY <1>1, <1>2, SameGone, SamePortfolios
<1>6. \A st \in tx'[Seed].old : st.v[2] = BrokerageFormat => Settled(st)'
  BY <1>1, <1>2, SameSettled
<1> QED
  BY <1>1, <1>2, <1>3, <1>4, <1>5, <1>6 DEF Replacing

\* Rows that others add while the seed is in progress.
LEMMA GrowsReplacing ==
  ASSUME Shapes, Replacing, NEW added, db' = db \cup added, SeedNotices(added),
         \A x \in Of(added, "statement") : x.v[1] = Uploaded,
         \A x \in Of(added, "trade"), st \in Of(db, "statement") : x.v[1] # st.k
  PROVE Replacing'
<1> SUFFICES ASSUME tx'[Seed].pc \notin {"idle", "failed"} PROVE Replacing'
  BY DEF Replacing
<1>0. Seed \in Sessions /\ tx[Seed].pc # "idle"
  BY DEF SeedNotices, Sessions
<1>1. /\ tx'[Seed].old = tx[Seed].old /\ tx'[Seed].minus = tx[Seed].minus
      /\ tx'[Seed].candidates = tx[Seed].candidates /\ tx'[Seed].portfolios = tx[Seed].portfolios
      /\ tx'[Seed].pc = tx[Seed].pc
      /\ tx'[Seed].late = tx[Seed].late \cup (IF tx[Seed].pc = "purge" THEN added ELSE {})
  BY <1>0 DEF SeedNotices, Keeps, SeedFields
<1>2. /\ tx[Seed].old = Replaceable(db)
      /\ \A x \in tx[Seed].minus : Marked(x)
      /\ tx[Seed].pc = "delete" => tx[Seed].minus = {} /\ \A x \in tx[Seed].candidates : x.t = "candidate"
      /\ tx[Seed].pc = "purge" => \A x \in TradesOf(Checked) : Gone(x)
      /\ \A st \in tx[Seed].old : st.v[2] = BrokerageFormat => Settled(st)
      /\ tx[Seed].pc \in {"ingest", "rows"} =>
           tx[Seed].portfolios = {} /\ tx[Seed].old \subseteq tx[Seed].minus
  BY <1>1 DEF Replacing
<1>3. Replaceable(db)' = Replaceable(db)
  BY DEF Replaceable, Of
<1>4. \A x : (Gone(x) => Gone(x)') /\ (Marked(x) => Marked(x)')
  BY <1>1 DEF Gone, Marked
<1>5. tx'[Seed].pc = "purge" => \A x \in TradesOf(Checked)' : Gone(x)'
  <2> SUFFICES ASSUME tx[Seed].pc = "purge", NEW x \in TradesOf(Checked)' PROVE Gone(x)'
    BY <1>1
  <2>1. Checked' = Checked
    BY <1>1 DEF Checked
  <2>2. x \in TradesOf(Checked) \/ x \in added
    BY <2>1 DEF TradesOf, Of
  <2>3. CASE x \in TradesOf(Checked)
    BY <1>2, <1>4, <2>3
  <2>4. CASE x \in added
    BY <1>1, <2>4 DEF Gone
  <2> QED
    BY <2>2, <2>3, <2>4
<1>6. \A st \in tx[Seed].old : Settled(st) => Settled(st)'
  <2> TAKE st \in tx[Seed].old
  <2>1. st \in Of(db, "statement")
    BY <1>2 DEF Replaceable
  <2>2. CASE UploadRemains(st.r[2], tx[Seed].old)
    <3>1. UploadRemains(st.r[2], tx[Seed].old)'
      BY <1>1, <2>2 DEF UploadRemains, Of
    <3> QED
      BY <1>1, <3>1 DEF Settled, UploadRemains
  <2>3. CASE \A x \in Of(db, "trade") : x.r = st.r /\ x.v[1] = st.k => x \in tx[Seed].minus
    <3>1. \A x \in Of(db', "trade") : x.r = st.r /\ x.v[1] = st.k => x \in tx'[Seed].minus
      BY <1>1, <2>1, <2>3, OfMembers
    <3> QED
      BY <3>1 DEF Settled
  <2> QED
    BY <1>1, <2>2, <2>3 DEF Settled
<1>7. (\A x \in tx'[Seed].minus : Marked(x)') /\ \A st \in tx'[Seed].old : st.v[2] = BrokerageFormat => Settled(st)'
  BY <1>1, <1>2, <1>4, <1>6
<1> QED
  BY <1>1, <1>2, <1>3, <1>5, <1>7 DEF Replacing

LEMMA StartReplacing ==
  ASSUME Shapes, StartSeed
  PROVE Replacing' /\ Added(tx'[Seed])
<1>1. /\ db' = db
      /\ tx'[Seed].pc = IF Replaceable(db) = {} THEN "ingest" ELSE "delete"
      /\ tx'[Seed].plus = {x \in ReferenceRows : ~Has(db, x.t, x.k)} /\ tx'[Seed].minus = {}
      /\ tx'[Seed].old = Replaceable(db) /\ tx'[Seed].late = {}
      /\ tx'[Seed].candidates = Referring(db, "candidate", Belonging(db, "lot", Replaceable(db)))
      /\ tx'[Seed].portfolios = {x.r[2] : x \in {st \in Replaceable(db) : st.v[2] = BrokerageFormat}}
  BY StartSeedEffect
<1>2. Replaceable(db)' = Replaceable(db)
  BY <1>1 DEF Replaceable, Of
<1>3. \A x \in tx'[Seed].candidates : x.t = "candidate"
  BY <1>1, OfMembers DEF Referring
<1>4. \A st \in tx'[Seed].old : st.v[2] = BrokerageFormat => Settled(st)'
  BY <1>1 DEF Settled
<1>5. tx'[Seed].pc \in {"ingest", "delete"}
      /\ (tx'[Seed].pc = "ingest" => tx'[Seed].old = {} /\ tx'[Seed].portfolios = {})
  BY <1>1
<1>6. Replacing'
  BY <1>1, <1>2, <1>3, <1>4, <1>5 DEF Replacing
<1>7. \A x \in tx'[Seed].plus : Shaped(x) /\ x.t \in {"account", "profile", "manifest"}
  BY <1>1, ReferenceRowsShape
<1>8. Added(tx'[Seed])
  BY <1>5, <1>7, OfMembers DEF Added, OneKey
<1> QED
  BY <1>6, <1>8

LEMMA DeleteReplacing ==
  ASSUME Shapes, Replacing, \A x \in db : Shaped(x), Delete
  PROVE Replacing'
<1> DEFINE gone == DeletedRows(db, tx[Seed].old, tx[Seed].candidates)
<1>1. /\ db' = db /\ tx[Seed].pc = "delete"
      /\ \/ tx'[Seed].pc = "failed"
         \/ /\ tx'[Seed].pc = "portfolios" /\ tx'[Seed].minus = gone
            /\ Keeps(Seed, SeedFields \ {"pc", "minus"})
  BY DeleteEffect
<1>2. CASE tx'[Seed].pc = "failed"
  BY <1>2 DEF Replacing
<1>3. CASE /\ tx'[Seed].pc = "portfolios" /\ tx'[Seed].minus = gone
           /\ Keeps(Seed, SeedFields \ {"pc", "minus"})
  <2>1. /\ tx'[Seed].old = tx[Seed].old /\ tx'[Seed].portfolios = tx[Seed].portfolios
        /\ tx'[Seed].candidates = tx[Seed].candidates
    BY <1>3 DEF Keeps, SeedFields
  <2>2. /\ tx[Seed].old = Replaceable(db)
        /\ tx[Seed].minus = {} /\ \A x \in tx[Seed].candidates : x.t = "candidate"
        /\ \A st \in tx[Seed].old : st.v[2] = BrokerageFormat => Settled(st)
    BY <1>1 DEF Replacing
  <2>3. Replaceable(db)' = Replaceable(db)
    BY <1>1 DEF Replaceable, Of
  <2>4. \A x \in gone :
          \/ x.t \in {"lot", "txn", "holding"} /\ \E st \in tx[Seed].old : x.r = <<"statement", st.k>>
          \/ x.t \in {"candidate", "label"}
    BY <2>2, OfMembers DEF DeletedRows, Belonging, Referring
  <2> HIDE DEF gone
  <2>5. \A x \in tx'[Seed].minus : Marked(x)'
    BY <1>3, <2>1, <2>4 DEF Marked
  <2>6. \A st \in tx[Seed].old : Settled(st) => Settled(st)'
    <3> SUFFICES ASSUME NEW st \in tx[Seed].old, Settled(st) PROVE Settled(st)'
      OBVIOUS
    <3>1. CASE st.r[2] \in tx[Seed].portfolios
      BY <2>1, <3>1 DEF Settled
    <3>2. CASE UploadRemains(st.r[2], tx[Seed].old)
      BY <1>1, <2>1, <3>2 DEF Settled, UploadRemains, Of
    <3>3. CASE \A x \in Of(db, "trade") : x.r = st.r /\ x.v[1] = st.k => x \in tx[Seed].minus
      <4>1. \A x \in Of(db', "trade") : ~(x.r = st.r /\ x.v[1] = st.k)
        BY <1>1, <2>2, <3>3
      <4> QED
        BY <4>1 DEF Settled
    <3> QED
      BY <3>1, <3>2, <3>3 DEF Settled
  <2> QED
    BY <1>1, <1>3, <2>1, <2>2, <2>3, <2>5, <2>6 DEF Replacing
<1> QED
  BY <1>1, <1>2, <1>3

LEMMA CheckReplacing ==
  ASSUME Shapes, Rows, Replacing, CheckPortfolio
  PROVE Replacing'
<1>1. /\ db' = db /\ tx[Seed].pc = "portfolios" /\ tx[Seed].portfolios # {}
      /\ \/ /\ UploadRemains(Checked, tx[Seed].old)
            /\ tx'[Seed].portfolios = tx[Seed].portfolios \ {Checked}
            /\ Keeps(Seed, SeedFields \ {"portfolios"})
         \/ /\ ~UploadRemains(Checked, tx[Seed].old)
            /\ tx'[Seed].pc = "purge" /\ Keeps(Seed, SeedFields \ {"pc"})
  BY CheckEffect
<1>2. /\ tx[Seed].old = Replaceable(db)
      /\ \A x \in tx[Seed].minus : Marked(x)
      /\ \A st \in tx[Seed].old : st.v[2] = BrokerageFormat => Settled(st)
  BY <1>1 DEF Replacing
<1>3. Replaceable(db)' = Replaceable(db)
  BY <1>1 DEF Replaceable, Of
<1>4. /\ tx'[Seed].old = tx[Seed].old /\ tx'[Seed].minus = tx[Seed].minus
      /\ Keeps(Seed, {"old", "late"})
  BY <1>1 DEF Keeps, SeedFields
<1>5. \A x \in tx'[Seed].minus : Marked(x)'
  BY <1>2, <1>4, SameGone
<1>6. CASE /\ UploadRemains(Checked, tx[Seed].old)
           /\ tx'[Seed].portfolios = tx[Seed].portfolios \ {Checked}
           /\ Keeps(Seed, SeedFields \ {"portfolios"})
  <2>1. tx'[Seed].pc = "portfolios"
    BY <1>1, <1>6, StepFields DEF Keeps, SeedFields
  <2>2. \A st \in tx[Seed].old : Settled(st) => Settled(st)'
    BY <1>1, <1>4, <1>6 DEF Settled, UploadRemains, Of
  <2> QED
    BY <1>2, <1>3, <1>4, <1>5, <2>1, <2>2 DEF Replacing
<1>7. CASE /\ ~UploadRemains(Checked, tx[Seed].old)
           /\ tx'[Seed].pc = "purge" /\ Keeps(Seed, SeedFields \ {"pc"})
  <2>1. Keeps(Seed, {"old", "minus", "portfolios"}) /\ tx'[Seed].portfolios = tx[Seed].portfolios
    BY <1>7 DEF Keeps, SeedFields
  <2>2. \A st \in tx[Seed].old : Settled(st) => Settled(st)'
    BY <1>1, <2>1, SameSettled
  <2>3. \A x \in TradesOf(Checked) : Gone(x)
    <3> TAKE x \in TradesOf(Checked)
    <3>1. x \in Of(db, "trade") /\ x.r = <<"account", Checked>>
      BY DEF TradesOf
    <3>2. \A st \in Of(db, "statement") :
            st.r = x.r /\ st.v[2] = BrokerageFormat => st.v[1] # Uploaded
      BY <1>2, <1>7, <3>1 DEF UploadRemains, Replaceable
    <3>3. PICK st \in Of(db, "statement") : st.k = x.v[1] /\ st.r = x.r /\ st.v[2] = BrokerageFormat
      BY <3>1, <3>2 DEF Rows, Anchored, Protected
    <3>4. st \in tx[Seed].old
      BY <1>2, <3>2, <3>3 DEF Replaceable
    <3> QED
      BY <3>3, <3>4 DEF Gone
  <2>4. \A x \in TradesOf(Checked)' : Gone(x)'
    BY <1>1, <1>4, <2>1, <2>3, SameGone, SamePortfolios
  <2> QED
    BY <1>2, <1>3, <1>4, <1>5, <1>7, <2>2, <2>4 DEF Replacing
<1> QED
  BY <1>1, <1>6, <1>7

LEMMA PurgeReplacing ==
  ASSUME Shapes, \A x \in db : Shaped(x), Replacing, PurgeTrades
  PROVE Replacing'
<1>1. /\ db' = db /\ tx[Seed].pc = "purge" /\ tx'[Seed].pc = "portfolios"
      /\ tx'[Seed].portfolios = tx[Seed].portfolios \ {Checked}
      /\ tx'[Seed].minus = tx[Seed].minus \cup TradesOf(Checked)
      /\ Keeps(Seed, Fields(Seed) \ {"pc", "portfolios", "minus"})
  BY PurgeEffect
<1>2. /\ tx[Seed].old = Replaceable(db)
      /\ \A x \in tx[Seed].minus : Marked(x)
      /\ \A x \in TradesOf(Checked) : Gone(x)
      /\ \A st \in tx[Seed].old : st.v[2] = BrokerageFormat => Settled(st)
  BY <1>1 DEF Replacing
<1>3. Replaceable(db)' = Replaceable(db)
  BY <1>1 DEF Replaceable, Of
<1>4. tx'[Seed].old = tx[Seed].old /\ Keeps(Seed, {"old", "late"})
  BY <1>1 DEF Keeps, SeedFields, Fields
<1>5. \A x \in TradesOf(Checked) : Marked(x)
  BY <1>2, OfMembers DEF TradesOf, Marked
<1>6. \A x \in tx'[Seed].minus : Marked(x)'
  BY <1>1, <1>2, <1>4, <1>5, SameGone
<1>7. \A st \in tx[Seed].old : Settled(st) => Settled(st)'
  <2> SUFFICES ASSUME NEW st \in tx[Seed].old, Settled(st) PROVE Settled(st)'
    OBVIOUS
  <2>1. CASE st.r[2] \in tx[Seed].portfolios
    <3>1. CASE st.r[2] = Checked
      <4>1. st.r = <<"account", Checked>>
        BY <1>2, <3>1, OfMembers DEF Replaceable, Shaped
      <4>2. \A x \in Of(db', "trade") : x.r = st.r => x \in tx'[Seed].minus
        BY <1>1, <4>1 DEF TradesOf
      <4> QED
        BY <4>2 DEF Settled
    <3>2. CASE st.r[2] # Checked
      BY <1>1, <2>1, <3>2 DEF Settled
    <3> QED
      BY <3>1, <3>2
  <2>2. CASE UploadRemains(st.r[2], tx[Seed].old)
    BY <1>1, <1>4, <2>2 DEF Settled, UploadRemains, Of
  <2>3. CASE \A x \in Of(db, "trade") : x.r = st.r /\ x.v[1] = st.k => x \in tx[Seed].minus
    BY <1>1, <2>3 DEF Settled
  <2> QED
    BY <2>1, <2>2, <2>3 DEF Settled
<1> QED
  BY <1>1, <1>2, <1>3, <1>4, <1>6, <1>7 DEF Replacing

LEMMA DeleteStatementsReplacing ==
  ASSUME Shapes, Replacing, DeleteStatements
  PROVE Replacing'
<1>1. /\ db' = db /\ tx[Seed].pc = "portfolios" /\ tx[Seed].portfolios = {}
      /\ tx'[Seed].pc = "ingest"
      /\ tx'[Seed].minus = tx[Seed].minus \cup tx[Seed].old
      /\ Keeps(Seed, Fields(Seed) \ {"pc", "minus"})
  BY DeleteStatementsEffect
<1>2. /\ tx[Seed].old = Replaceable(db)
      /\ \A x \in tx[Seed].minus : Marked(x)
      /\ \A st \in tx[Seed].old : st.v[2] = BrokerageFormat => Settled(st)
  BY <1>1 DEF Replacing
<1>3. Replaceable(db)' = Replaceable(db)
  BY <1>1 DEF Replaceable, Of
<1>4. tx'[Seed].old = tx[Seed].old /\ tx'[Seed].portfolios = tx[Seed].portfolios /\ Keeps(Seed, {"old", "late"})
  BY <1>1 DEF Keeps, SeedFields, Fields
<1>5. \A x \in tx[Seed].old : Marked(x)
  BY DEF Marked
<1>6. \A x \in tx'[Seed].minus : Marked(x)'
  BY <1>1, <1>2, <1>4, <1>5, SameGone
<1>7. \A st \in tx[Seed].old : Settled(st) => Settled(st)'
  BY <1>1, <1>4 DEF Settled, UploadRemains, Of
<1> QED
  BY <1>1, <1>2, <1>3, <1>4, <1>6, <1>7 DEF Replacing

---------------------------------------------------------------------------
(* The rows of the database.                                               *)

\* Rows joined to others that have none of their keys.
LEMMA JoinedKeys ==
  ASSUME NEW rows, NEW plus, OneKey(rows), OneKey(plus), ~Taken(rows, plus)
  PROVE OneKey(rows \cup plus)
BY OfMembers DEF OneKey, Taken

LEMMA SameRows == ASSUME Rows, db' = db PROVE Rows'
BY DEF Rows, OneKey, Anchored, Protected, Of

LEMMA UploadRows ==
  ASSUME Core, NEW u \in Uploaders, CommitUpload(u)
  PROVE Rows' /\ Replacing'
<1>1. /\ tx[u].pc = "ingest"
      /\ \/ db' = db /\ tx'[Seed] = tx[Seed]
         \/ ~Conflict(u) /\ db' = Visible(u) /\ SeedNotices(tx[u].plus)
  BY CommitUploadEffect DEF Core
<1>2. CASE db' = db /\ tx'[Seed] = tx[Seed]
  <2>1. Rows'
    BY <1>2, SameRows DEF Core
  <2>2. Replacing'
    BY <1>2, SameReplacing DEF Core, Keeps
  <2> QED
    BY <2>1, <2>2
<1>3. CASE ~Conflict(u) /\ db' = Visible(u) /\ SeedNotices(tx[u].plus)
  <2> DEFINE plus == tx[u].plus
  <2>1. tx[u].minus = {} /\ \A x \in Of(plus, "statement") : x.v[1] = Uploaded
    BY <1>1 DEF Core, Uploading
  <2>2. /\ \A x \in plus : Shaped(x)
        /\ OneKey(plus) /\ \A x \in Of(plus, "trade") : Anchored(x, plus)
    BY <1>1 DEF Core, Added, Sessions
  <2>3. db' = db \cup plus /\ ~Taken(db, plus)
    BY <1>3, <2>1 DEF Visible, Conflict
  <2>4. Rows
    BY DEF Core
  <2>5. OneKey(db')
    BY <2>2, <2>3, <2>4, JoinedKeys DEF Rows
  <2>6. \A x \in Of(db', "trade") : Anchored(x, db') \/ Protected(x, db')
    BY <2>2, <2>3, <2>4, OfMembers, MoreAnchored DEF Rows
  <2>7. Rows'
    BY <2>2, <2>3, <2>4, <2>5, <2>6 DEF Rows
  <2>8. \A x \in Of(plus, "trade"), st \in Of(db, "statement") : x.v[1] # st.k
    BY <2>2, <2>3, OfMembers DEF Anchored, Taken
  <2>9. Replacing'
    BY <1>3, <2>1, <2>3, <2>8, GrowsReplacing DEF Core
  <2> QED
    BY <2>7, <2>9
<1> QED
  BY <1>1, <1>2, <1>3

LEMMA ProposeRows ==
  ASSUME Core, Propose
  PROVE Rows' /\ Replacing'
<1>1. PICK lot \in Of(db, "lot") :
        LET c == Row("candidate", lot.k, <<"lot", lot.k>>, <<>>) IN
        db' = db \cup {c} /\ SeedNotices({c})
  BY ProposeEffect DEF Core
<1> DEFINE c == Row("candidate", lot.k, <<"lot", lot.k>>, <<>>)
<1>2. db' = db \cup {c} /\ SeedNotices({c})
  BY <1>1
<1>3. c.t = "candidate" /\ Shaped(c)
  BY RowFields DEF Shaped, Tables
<1> HIDE DEF c
<1>4. Of(db', "statement") = Of(db, "statement") /\ Of(db', "trade") = Of(db, "trade")
  BY <1>2, <1>3 DEF Of
<1>5. Rows'
  BY <1>2, <1>3, <1>4 DEF Core, Rows, OneKey, Anchored, Protected
<1>6. Of({c}, "statement") = {} /\ Of({c}, "trade") = {}
  BY <1>3 DEF Of
<1>7. Replacing'
  BY <1>2, <1>6, GrowsReplacing DEF Core
<1> QED
  BY <1>5, <1>7

\* The rows that a seed commits.
SeedMinus == tx[Seed].minus \cup {x \in Of(db, "state") : ReplacedState(x)}
SeedPlus == tx[Seed].plus \cup LabelRows \cup {StateRow}

\* Nothing uploaded is among the rows that the seed deletes.
LEMMA UploadsStay ==
  ASSUME Core, tx[Seed].pc \notin {"idle", "failed"}, NEW x \in db, x \in SeedMinus
  PROVE /\ ~(x.t = "statement" /\ x.v[1] = Uploaded)
        /\ InsertedByUpload(x, db) => x.t = "trade" /\ x \in tx[Seed].late
<1>1. tx[Seed].old = Replaceable(db) /\ \A y \in tx[Seed].minus : Marked(y)
  BY DEF Core, Replacing
<1>2. Marked(x) \/ x.t = "state"
  BY <1>1, OfMembers DEF SeedMinus
<1>3. \A st \in tx[Seed].old : st \in Of(db, "statement") /\ st.v[1] # Uploaded
  BY <1>1 DEF Replaceable
<1>4. ~(x.t = "statement" /\ x.v[1] = Uploaded)
  BY <1>2, <1>3 DEF Marked
<1>5. ASSUME InsertedByUpload(x, db) PROVE x.t = "trade" /\ x \in tx[Seed].late
  <2>1. PICK st \in Of(db, "statement") : st.k = x.v[1] /\ st.v[1] = Uploaded
    BY <1>5 DEF InsertedByUpload
  <2>2. \A old \in tx[Seed].old : old.k # x.v[1]
    BY <1>3, <2>1 DEF Core, Rows, OneKey
  <2>3. x.t \in {"txn", "lot", "trade", "holding"}
    BY <1>5 DEF InsertedByUpload
  <2>4. x.t \in {"txn", "lot", "holding"} => x.r = <<"statement", x.v[1]>>
    BY DEF Core, Rows, Shaped
  <2>5. x \notin tx[Seed].old
    BY <1>3, <2>3, OfMembers
  <2> QED
    BY <1>2, <2>2, <2>3, <2>4, <2>5 DEF Marked, Gone
<1> QED
  BY <1>4, <1>5

LEMMA CommitSeedRows ==
  ASSUME Core, CommitSeed
  PROVE Rows' /\ Replacing'
<1>1. /\ tx[Seed].pc = "ingest"
      /\ \/ db' = db /\ tx'[Seed].pc = "failed"
         \/ /\ ~Taken(db \ SeedMinus, SeedPlus)
            /\ db' = (db \ SeedMinus) \cup SeedPlus /\ tx'[Seed] = Idle
  BY CommitSeedEffect DEF Core, SeedMinus, SeedPlus
<1>2. Replacing'
  BY <1>1, IdleStep DEF Replacing
<1>3. CASE db' = db
  BY <1>2, <1>3, SameRows DEF Core
<1>4. CASE ~Taken(db \ SeedMinus, SeedPlus) /\ db' = (db \ SeedMinus) \cup SeedPlus
  <2> DEFINE plus == tx[Seed].plus
             rest == LabelRows \cup {StateRow}
  <2>1. /\ \A x \in plus : Shaped(x)
        /\ OneKey(plus) /\ \A x \in Of(plus, "trade") : Anchored(x, plus)
    BY <1>1 DEF Core, Added, Sessions
  <2>2. \A x \in rest : Shaped(x) /\ x.t \in {"label", "state"}
    BY LabelRowsShape
  <2> HIDE DEF rest
  <2>3. SeedPlus = plus \cup rest
    BY DEF SeedPlus, rest
  <2>4. Of(SeedPlus, "statement") = Of(plus, "statement") /\ Of(SeedPlus, "trade") = Of(plus, "trade")
    BY <2>2, <2>3 DEF Of
  <2>5. Rows
    BY DEF Core
  <2>6. OneKey(db')
    <3>1. OneKey(SeedPlus) /\ OneKey(db \ SeedMinus)
      BY <2>1, <2>4, <2>5, OfMembers DEF Rows, OneKey
    <3> QED
      BY <1>4, <3>1, JoinedKeys
  <2>7. \A x \in Of(SeedPlus, "trade") : Anchored(x, db')
    BY <1>4, <2>1, <2>3, <2>4, MoreAnchored
  <2>8. \A x \in Of(db \ SeedMinus, "trade") : Protected(x, db')
    <3> TAKE x \in Of(db \ SeedMinus, "trade")
    <3>1. x \in Of(db, "trade") /\ x \notin tx[Seed].minus
      BY OfMembers DEF SeedMinus
    <3>2. \A st \in Of(db, "statement") : st.v[1] = Uploaded => st \in Of(db', "statement")
      BY <1>1, <1>4, UploadsStay, OfMembers
    <3>3. CASE Protected(x, db)
      BY <3>2, <3>3 DEF Protected
    <3>4. CASE Anchored(x, db)
      <4>1. PICK st \in Of(db, "statement") : st.k = x.v[1] /\ st.r = x.r /\ st.v[2] = BrokerageFormat
        BY <3>4 DEF Anchored
      <4>2. CASE st.v[1] = Uploaded
        BY <3>2, <4>1, <4>2 DEF Protected
      <4>3. CASE st.v[1] # Uploaded
        <5>1. /\ tx[Seed].old = Replaceable(db) /\ tx[Seed].portfolios = {}
              /\ \A y \in tx[Seed].old : y.v[2] = BrokerageFormat => Settled(y)
          BY <1>1 DEF Core, Replacing
        <5>2. Settled(st)
          BY <4>1, <4>3, <5>1 DEF Replaceable
        <5>3. UploadRemains(st.r[2], tx[Seed].old)
          BY <3>1, <4>1, <5>1, <5>2 DEF Settled
        <5>4. PICK up \in Of(db, "statement") :
                up.r = <<"account", st.r[2]>> /\ up.v[2] = BrokerageFormat /\ up.v[1] = Uploaded
          BY <5>3 DEF UploadRemains
        <5>5. st.r = <<"account", st.r[2]>>
          BY <2>5, OfMembers DEF Rows, Shaped
        <5> QED
          BY <3>2, <4>1, <5>4, <5>5 DEF Protected
      <4> QED
        BY <4>2, <4>3
    <3> QED
      BY <2>5, <3>1, <3>3, <3>4 DEF Rows
  <2>9. \A x \in db' : Shaped(x)
    BY <1>4, <2>1, <2>2, <2>3, <2>5 DEF Rows
  <2>10. \A x \in Of(db', "trade") : Anchored(x, db') \/ Protected(x, db')
    BY <1>4, <2>7, <2>8, OfMembers
  <2> QED
    BY <1>2, <2>6, <2>9, <2>10 DEF Rows
<1> QED
  BY <1>1, <1>2, <1>3, <1>4

---------------------------------------------------------------------------
(* The invariant.                                                          *)

LEMMA InitCore == Init => Core
<1> SUFFICES ASSUME Init PROVE Core
  OBVIOUS
<1>1. db = {} /\ Shapes /\ \A s \in Sessions : tx[s] = Idle
  BY InitShapes DEF Init
<1>2. Rows
  BY <1>1, OfMembers DEF Rows, OneKey
<1>3. Replacing
  BY <1>1, IdleStep DEF Replacing, Sessions
<1>4. (\A s \in Sessions : Added(tx[s])) /\ \A u \in Uploaders : Uploading(tx[u])
  BY <1>1, IdleStep, IdleAdded DEF Uploading, Sessions
<1> QED
  BY <1>1, <1>2, <1>3, <1>4 DEF Core

\* A step of one session that commits nothing.
LEMMA SessionStep ==
  ASSUME Core, NEW s \in Sessions, Shapes', Others(s), db' = db, Added(tx'[s]),
         s \in Uploaders => Uploading(tx'[s]), s = Seed => Replacing'
  PROVE Core'
<1>1. Rows'
  BY SameRows DEF Core
<1>2. Replacing'
  <2>1. CASE s = Seed
    BY <2>1
  <2>2. CASE s # Seed
    <3>1. tx'[Seed] = tx[Seed]
      BY <2>2 DEF Others, Sessions
    <3> QED
      BY <3>1, SameReplacing DEF Core, Keeps
  <2> QED
    BY <2>1, <2>2
<1>3. \A r \in Sessions : Added(tx'[r])
  BY DEF Core, Others
<1>4. \A u \in Uploaders : Uploading(tx'[u])
  BY DEF Core, Others, Sessions
<1> QED
  BY <1>1, <1>2, <1>3, <1>4 DEF Core

LEMMA UploadingUnlike ==
  /\ \A u \in Uploaders : u # Seed /\ u \in Sessions
  /\ \A s \in Sessions : s # Seed => s \in Uploaders
BY StoreAssumption DEF Sessions

LEMMA StoreCore == ASSUME Core, NEW s \in Sessions, Store(s) PROVE Core'
<1>1. /\ Shapes' /\ Others(s) /\ db' = db /\ tx[s].pc = "ingest" /\ tx'[s].pc = "rows"
      /\ tx'[s].plus = tx[s].plus \cup {StatementRow(Head(tx[s].todo), tx[s].dataset)}
      /\ Keeps(s, Fields(s) \ {"pc", "plus"})
  BY StoreEffect DEF Core
<1>2. Added(tx'[s])
  BY StoreAdded DEF Core
<1>3. ASSUME s \in Uploaders PROVE Uploading(tx'[s])
  <2>1. tx'[s].dataset = tx[s].dataset /\ tx'[s].minus = tx[s].minus
    BY <1>1, StepFields DEF Keeps
  <2>2. /\ tx[s].dataset = Uploaded /\ tx[s].minus = {}
        /\ \A x \in Of(tx[s].plus, "statement") : x.v[1] = Uploaded
    BY <1>1, <1>3 DEF Core, Uploading
  <2>3. StatementRow(Head(tx[s].todo), tx[s].dataset).v[1] = Uploaded
    BY <2>2, StatementFields
  <2> QED
    BY <1>1, <2>1, <2>2, <2>3, OfMembers DEF Uploading
<1>4. ASSUME s = Seed PROVE Replacing'
  <2>1. Keeps(Seed, Frame)
    BY <1>1, <1>4 DEF Keeps, Fields, SeedFields, Frame
  <2> QED
    BY <1>1, <1>4, <2>1, SameReplacing DEF Core
<1> QED
  BY <1>1, <1>2, <1>3, <1>4, SessionStep

LEMMA AddRowsCore == ASSUME Core, NEW s \in Sessions, AddRows(s) PROVE Core'
<1>1. /\ Shapes' /\ Others(s) /\ db' = db /\ tx[s].pc = "rows" /\ tx'[s].pc = "ingest"
      /\ tx'[s].plus = tx[s].plus \cup DocumentRows(Head(tx[s].todo), Visible(s))
      /\ Keeps(s, Fields(s) \ {"pc", "todo", "plus"})
  BY AddRowsEffect DEF Core
<1>2. Added(tx'[s])
  BY AddRowsAdded DEF Core
<1>3. ASSUME s \in Uploaders PROVE Uploading(tx'[s])
  <2>1. tx'[s].dataset = tx[s].dataset /\ tx'[s].minus = tx[s].minus
    BY <1>1, StepFields DEF Keeps
  <2>2. /\ tx[s].dataset = Uploaded /\ tx[s].minus = {}
        /\ \A x \in Of(tx[s].plus, "statement") : x.v[1] = Uploaded
    BY <1>1, <1>3 DEF Core, Uploading
  <2>3. Of(tx'[s].plus, "statement") = Of(tx[s].plus, "statement")
    BY <1>1, DocumentRowsShape DEF Of
  <2> QED
    BY <2>1, <2>2, <2>3 DEF Uploading
<1>4. ASSUME s = Seed PROVE Replacing'
  <2>1. Keeps(Seed, Frame)
    BY <1>1, <1>4 DEF Keeps, Fields, SeedFields, Frame
  <2> QED
    BY <1>1, <1>4, <2>1, SameReplacing DEF Core
<1> QED
  BY <1>1, <1>2, <1>3, <1>4, SessionStep

LEMMA EndsCore ==
  ASSUME Core, NEW s \in Sessions, tx' = [tx EXCEPT ![s] = Idle], db' = db
  PROVE Core'
<1>1. Shapes' /\ Others(s) /\ tx'[s] = Idle
  BY EndsShapes DEF Core
<1>2. Added(tx'[s]) /\ Uploading(tx'[s])
  BY <1>1, IdleAdded, IdleStep DEF Uploading
<1>3. s = Seed => Replacing'
  BY <1>1, IdleStep DEF Replacing
<1> QED
  BY <1>1, <1>2, <1>3, SessionStep

LEMMA ReuseCore == ASSUME Core, NEW s \in Sessions, Reuse(s) PROVE Core'
<1>1. CASE s = Seed
  <2>1. /\ Shapes' /\ Others(Seed) /\ db' = db /\ tx[Seed].pc = "ingest"
        /\ Keeps(Seed, Fields(Seed) \ {"todo"})
    BY <1>1, SeedReuseEffect DEF Core
  <2>2. Keeps(Seed, Frame) /\ tx'[Seed].pc = tx[Seed].pc
    BY <2>1 DEF Keeps, Fields, SeedFields, Frame
  <2>3. Added(tx'[Seed]) /\ Replacing'
    BY <1>1, <2>1, <2>2, ReplacementAdded, SameReplacing DEF Core, Sessions
  <2> QED
    BY <1>1, <2>1, <2>3, UploadingUnlike, SessionStep
<1>2. CASE s # Seed
  BY <1>2, EndsCore DEF Reuse
<1> QED
  BY <1>1, <1>2

LEMMA CrashCore == ASSUME Core, NEW s \in Sessions, Crash(s) PROVE Core'
BY EndsCore DEF Crash

LEMMA PostCore == ASSUME Core, NEW u \in Uploaders, Post(u) PROVE Core'
<1>1. /\ Shapes' /\ Others(u) /\ db' = db
      /\ \/ tx'[u] = tx[u]
         \/ tx'[u].pc = "ingest" /\ tx'[u].plus = {} /\ tx'[u].minus = {} /\ tx'[u].dataset = Uploaded
  BY PostEffect DEF Core
<1>2. Added(tx'[u]) /\ Uploading(tx'[u])
  <2>1. CASE tx'[u] = tx[u]
    BY <2>1, UploadingUnlike DEF Core
  <2>2. CASE tx'[u].pc = "ingest" /\ tx'[u].plus = {} /\ tx'[u].minus = {} /\ tx'[u].dataset = Uploaded
    BY <2>2, OfMembers DEF Added, Uploading, OneKey
  <2> QED
    BY <1>1, <2>1, <2>2
<1> QED
  BY <1>1, <1>2, UploadingUnlike, SessionStep

LEMMA SeedStepCore ==
  ASSUME Core, StartSeed \/ Delete \/ CheckPortfolio \/ PurgeTrades \/ DeleteStatements
  PROVE Core'
<1>1. Seed \in Sessions /\ Seed \notin Uploaders /\ Shapes /\ Replacing /\ Rows /\ Added(tx[Seed])
      /\ \A x \in db : Shaped(x)
  BY StoreAssumption DEF Sessions, Core, Rows
<1>2. Shapes' /\ Others(Seed) /\ db' = db /\ Added(tx'[Seed]) /\ Replacing'
  <2>1. CASE StartSeed
    BY <1>1, <2>1, StartSeedEffect, StartReplacing
  <2>2. CASE Delete
    BY <1>1, <2>2, DeleteEffect, DeleteReplacing, ReplacementAdded
  <2>3. CASE CheckPortfolio
    BY <1>1, <2>3, CheckEffect, CheckReplacing, ReplacementAdded
  <2>4. CASE PurgeTrades
    BY <1>1, <2>4, PurgeEffect, PurgeReplacing, ReplacementAdded
  <2>5. CASE DeleteStatements
    BY <1>1, <2>5, DeleteStatementsEffect, DeleteStatementsReplacing, ReplacementAdded
  <2> QED
    BY <2>1, <2>2, <2>3, <2>4, <2>5
<1> QED
  BY <1>1, <1>2, SessionStep

\* Commits by others leave the seed's own rows alone.
LEMMA NoticesAdded ==
  ASSUME Shapes, Added(tx[Seed]), NEW added, SeedNotices(added)
  PROVE Added(tx'[Seed])
<1>1. CASE tx[Seed].pc = "idle"
  BY <1>1 DEF SeedNotices
<1>2. CASE tx[Seed].pc # "idle"
  <2>1. /\ tx'[Seed].pc = tx[Seed].pc /\ tx'[Seed].plus = tx[Seed].plus
        /\ tx'[Seed].todo = tx[Seed].todo /\ tx'[Seed].dataset = tx[Seed].dataset
    BY <1>2 DEF SeedNotices, Keeps, SeedFields
  <2> QED
    BY <2>1 DEF Added
<1> QED
  BY <1>1, <1>2

LEMMA CommitUploadCore == ASSUME Core, NEW u \in Uploaders, CommitUpload(u) PROVE Core'
<1>1. /\ Shapes' /\ tx'[u] = Idle /\ \A r \in Sessions \ {u, Seed} : tx'[r] = tx[r]
      /\ tx'[Seed] = tx[Seed] \/ SeedNotices(tx[u].plus)
  BY CommitUploadEffect DEF Core
<1>2. Rows' /\ Replacing'
  BY UploadRows
<1>3. Added(tx'[Seed])
  <2>1. Shapes /\ Added(tx[Seed])
    BY DEF Core, Sessions
  <2> QED
    BY <1>1, <2>1, NoticesAdded
<1>4. \A r \in Sessions : Added(tx'[r])
  BY <1>1, <1>3, IdleAdded DEF Core
<1>5. \A r \in Uploaders : Uploading(tx'[r])
  BY <1>1, UploadingUnlike, IdleStep DEF Core, Uploading
<1> QED
  BY <1>1, <1>2, <1>4, <1>5 DEF Core

LEMMA ProposeCore == ASSUME Core, Propose PROVE Core'
<1>1. /\ Shapes' /\ \A r \in Sessions \ {Seed} : tx'[r] = tx[r]
      /\ \E added : SeedNotices(added)
  BY ProposeEffect DEF Core
<1>2. Rows' /\ Replacing'
  BY ProposeRows
<1>3. Added(tx'[Seed])
  <2>1. Shapes /\ Added(tx[Seed])
    BY DEF Core, Sessions
  <2> QED
    BY <1>1, <2>1, NoticesAdded
<1>4. \A r \in Sessions : Added(tx'[r])
  BY <1>1, <1>3 DEF Core
<1>5. \A r \in Uploaders : Uploading(tx'[r])
  BY <1>1, UploadingUnlike DEF Core
<1> QED
  BY <1>1, <1>2, <1>4, <1>5 DEF Core

LEMMA CommitSeedCore == ASSUME Core, CommitSeed PROVE Core'
<1>1. /\ Shapes' /\ Others(Seed)
      /\ tx'[Seed].pc = "failed" \/ tx'[Seed] = Idle
  BY CommitSeedEffect DEF Core
<1>2. Rows' /\ Replacing'
  BY CommitSeedRows
<1>3. Added(tx'[Seed])
  BY <1>1, IdleAdded DEF Added
<1>4. \A r \in Sessions : Added(tx'[r])
  BY <1>1, <1>3 DEF Core, Others
<1>5. \A r \in Uploaders : Uploading(tx'[r])
  BY <1>1, UploadingUnlike DEF Core, Others
<1> QED
  BY <1>1, <1>2, <1>4, <1>5 DEF Core

LEMMA StillCore == ASSUME Core, UNCHANGED <<db, tx>> PROVE Core'
<1>1. db' = db /\ tx' = tx
  OBVIOUS
<1>2. Shapes' /\ Rows'
  BY <1>1, SameRows, Unchanged DEF Core
<1>3. Replacing'
  BY <1>1, SameReplacing DEF Core, Keeps
<1> QED
  BY <1>1, <1>2, <1>3 DEF Core

LEMMA NextCore == Core /\ [Next]_vars => Core'
<1> SUFFICES ASSUME Core, [Next]_vars PROVE Core'
  OBVIOUS
<1>1. ASSUME NEW u \in Uploaders, Submit(u) PROVE Core'
  BY <1>1, StillCore DEF Submit
<1>2. ASSUME NEW u \in Uploaders, Post(u) \/ CommitUpload(u) PROVE Core'
  BY <1>2, PostCore, CommitUploadCore
<1>3. ASSUME NEW s \in Sessions, Reuse(s) \/ Store(s) \/ AddRows(s) \/ Crash(s) PROVE Core'
  BY <1>3, ReuseCore, StoreCore, AddRowsCore, CrashCore
<1>4. CASE Propose
  BY <1>4, ProposeCore
<1>5. CASE StartSeed \/ Delete \/ CheckPortfolio \/ PurgeTrades \/ DeleteStatements
  BY <1>5, SeedStepCore
<1>6. CASE CommitSeed
  BY <1>6, CommitSeedCore
<1>7. CASE SeedFails
  BY <1>7, EndsCore DEF SeedFails, Sessions
<1>8. CASE UNCHANGED vars
  BY <1>8, StillCore DEF vars
<1> QED
  BY <1>1, <1>2, <1>3, <1>4, <1>5, <1>6, <1>7, <1>8 DEF Next

\* What a seed has deleted, added and has still to look at accounts for the rows
\* it found, whatever uploads commit meanwhile (replace.py 37-109).
THEOREM CoreAlways == Spec => []Core
<1>1. Init => Core
  BY InitCore
<1>2. Core /\ [Next]_vars => Core'
  BY NextCore
<1> QED
  BY <1>1, <1>2, PTL DEF Spec

\* A trade whose statement is gone has an uploaded brokerage statement in its
\* portfolio (replace.py 92-106): no replaced dataset leaves its trades behind.
THEOREM NothingLeftBehind == Spec => []NoTradeLeftBehind
<1>1. Core => NoTradeLeftBehind
  BY OfMembers DEF Core, Rows, NoTradeLeftBehind, Anchored, Protected, Has
<1> QED
  BY <1>1, CoreAlways, PTL

LEMMA OnlyTheSeedRemoves ==
  ASSUME Core, Next, NEW x \in db \ db'
  PROVE tx[Seed].pc \notin {"idle", "failed"} /\ x \in SeedMinus
<1>1. CASE \E u \in Uploaders : CommitUpload(u)
  <2>1. PICK u \in Uploaders : CommitUpload(u)
    BY <1>1
  <2>2. db' = db \/ db' = Visible(u)
    BY <2>1 DEF CommitUpload
  <2>3. tx[u].minus = {}
    BY <2>1 DEF CommitUpload, Core, Uploading
  <2> QED
    BY <2>2, <2>3 DEF Visible
<1>2. CASE Propose
  <2>1. db \subseteq db'
    BY <1>2 DEF Propose
  <2> QED
    BY <2>1
<1>3. CASE CommitSeed
  <2>1. /\ tx[Seed].pc = "ingest"
        /\ db' = db \/ db' = (db \ SeedMinus) \cup SeedPlus
    BY <1>3, CommitSeedEffect DEF Core, SeedMinus, SeedPlus
  <2> QED
    BY <2>1
<1>4. CASE ~(\E u \in Uploaders : CommitUpload(u)) /\ ~Propose /\ ~CommitSeed
  <2>1. db' = db
    BY <1>4 DEF Next, Submit, Post, Reuse, Store, AddRows, Crash, StartSeed, Delete, CheckPortfolio,
      PurgeTrades, DeleteStatements, SeedFails
  <2> QED
    BY <2>1
<1> QED
  BY <1>1, <1>2, <1>3, <1>4

\* A step removes no uploaded statement and no row inserted for one, but for the
\* trades of an upload that commits between the check of its portfolio and the
\* deletes (replace.py 92-106).
THEOREM UploadsSpared == Spec => SeedSparesUploads
<1>1. Core /\ [Next]_vars =>
        [\A x \in db \ db' :
           /\ ~(x.t = "statement" /\ x.v[1] = Uploaded)
           /\ InsertedByUpload(x, db) => x.t = "trade" /\ x \in tx[Seed].late]_vars
  <2> SUFFICES ASSUME Core, Next, NEW x \in db \ db'
               PROVE /\ ~(x.t = "statement" /\ x.v[1] = Uploaded)
                     /\ InsertedByUpload(x, db) => x.t = "trade" /\ x \in tx[Seed].late
    OBVIOUS
  <2> QED
    BY OnlyTheSeedRemoves, UploadsStay
<1> QED
  BY <1>1, CoreAlways, PTL DEF Spec, SeedSparesUploads

---------------------------------------------------------------------------
(* The dataset in the database, and the one that the seed in progress      *)
(* loads.                                                                  *)

StoredIn(doc, rows) ==
  /\ \A k \in doc.rows : Has(rows, RowTable(doc), k)
  /\ \A k \in doc.trades : Has(rows, "trade", k)
Whole(ds, rows) ==
  /\ \A i \in DOMAIN Generated[ds] : Has(rows, "statement", Generated[ds][i].id)
  /\ \A st \in Replaceable(rows) :
       \E i \in DOMAIN Generated[ds] : Version(st, Generated[ds][i]) /\ StoredIn(Generated[ds][i], rows)

OneDataset ==
  /\ \A x, y \in Of(db, "state") : x = y
  /\ Of(db, "state") = {} => Replaceable(db) = {}
  /\ \A x \in Of(db, "state") :
       <<x.k, x.v[1]>> \in DOMAIN Generated /\ Whole(<<x.k, x.v[1]>>, db)

Dataset == <<tx[Seed].dataset, tx[Seed].asOf>>
Among(list, doc) == \E j \in 1..Len(list) : list[j] = doc
Ready(st, ds) ==
  \E i \in DOMAIN Generated[ds] :
     /\ st = StatementRow(Generated[ds][i], tx[Seed].dataset)
     /\ \/ StoredIn(Generated[ds][i], Visible(Seed))
        \/ tx[Seed].pc = "rows" /\ Generated[ds][i] = Head(tx[Seed].todo)

Loading ==
  tx[Seed].pc \notin {"idle", "failed"} =>
    /\ Dataset \in DOMAIN Generated /\ tx[Seed].todo \in Seq(Documents)
    /\ tx[Seed].pc \notin {"ingest", "rows"} =>
         tx[Seed].todo = Generated[Dataset] /\ Of(tx[Seed].plus, "statement") = {}
    /\ tx[Seed].pc = "rows" => tx[Seed].todo # <<>>
    /\ \A j \in 1..Len(tx[Seed].todo) : \E i \in DOMAIN Generated[Dataset] : tx[Seed].todo[j] = Generated[Dataset][i]
    /\ \A i \in DOMAIN Generated[Dataset] :
         Among(tx[Seed].todo, Generated[Dataset][i]) \/ Has(Visible(Seed), "statement", Generated[Dataset][i].id)
    /\ \A st \in Of(tx[Seed].plus, "statement") : Ready(st, Dataset)

\* More rows keep what is stored.
LEMMA MoreStored ==
  ASSUME NEW rows, NEW more, NEW T, T \in {"txn", "lot", "trade", "statement"},
         Of(rows, T) \subseteq more
  PROVE \A k : Has(rows, T, k) => Has(more, T, k)
BY OfMembers DEF Has

LEMMA StoredMore ==
  ASSUME NEW rows, NEW more, \A x \in rows : x.t \in {"txn", "lot", "trade"} => x \in more, NEW doc, StoredIn(doc, rows)
  PROVE StoredIn(doc, more)
<1>1. RowTable(doc) \in {"txn", "lot"}
  BY DEF RowTable
<1> QED
  BY <1>1 DEF StoredIn, Has

\* The head of a list of documents, and the rest.
LEMMA FirstAndRest ==
  ASSUME NEW list \in Seq(Documents), list # <<>>
  PROVE /\ Tail(list) \in Seq(Documents) /\ 1 \in 1..Len(list) /\ list[1] = Head(list)
        /\ \A j \in 1..Len(Tail(list)) : j + 1 \in 1..Len(list) /\ Tail(list)[j] = list[j + 1]
        /\ \A doc : Among(list, doc) => doc = Head(list) \/ Among(Tail(list), doc)
<1>1. /\ Tail(list) \in Seq(Documents) /\ 1 \in 1..Len(list) /\ list[1] = Head(list)
      /\ \A j \in 1..Len(Tail(list)) : j + 1 \in 1..Len(list) /\ Tail(list)[j] = list[j + 1]
      /\ \A j \in 1..Len(list) : j = 1 \/ (j - 1 \in 1..Len(Tail(list)) /\ Tail(list)[j - 1] = list[j])
  OBVIOUS
<1> QED
  BY <1>1 DEF Among

LEMMA FreshLoading ==
  ASSUME Dataset' \in DOMAIN Generated, tx'[Seed].todo = Generated[Dataset'], Of(tx'[Seed].plus, "statement") = {},
         tx'[Seed].pc # "rows"
  PROVE Loading'
<1>1. Generated[Dataset'] \in Seq(Documents)
  BY GeneratedAssumption
<1>2. DOMAIN Generated[Dataset'] = 1..Len(Generated[Dataset'])
  BY <1>1
<1> QED
  BY <1>1, <1>2 DEF Loading, Among

LEMMA StartLoading == ASSUME Shapes, StartSeed PROVE Loading'
<1>1. PICK ds \in DOMAIN Generated :
        tx'[Seed].dataset = ds[1] /\ tx'[Seed].asOf = ds[2] /\ tx'[Seed].todo = Generated[ds]
  BY StartSeedEffect
<1>2. Dataset' = ds
  BY <1>1, GeneratedAssumption DEF Dataset
<1>3. tx'[Seed].plus \subseteq ReferenceRows /\ tx'[Seed].pc # "rows"
  BY StartSeedEffect
<1>4. Of(tx'[Seed].plus, "statement") = {}
  BY <1>3, ReferenceRowsShape DEF Of
<1> QED
  BY <1>1, <1>2, <1>3, <1>4, FreshLoading

LEMMA ReplacementLoading ==
  ASSUME Shapes, Loading, PurgeTrades \/ DeleteStatements \/ Delete \/ CheckPortfolio
  PROVE Loading'
<1>1. /\ tx[Seed].pc \in {"delete", "portfolios", "purge"} /\ tx'[Seed].pc # "rows"
      /\ Keeps(Seed, {"todo", "plus", "dataset", "asOf"})
  <2>1. CASE PurgeTrades
    BY <2>1, PurgeEffect DEF Keeps, Fields, SeedFields
  <2>2. CASE DeleteStatements
    BY <2>2, DeleteStatementsEffect DEF Keeps, Fields, SeedFields
  <2>3. CASE Delete
    BY <2>3, DeleteEffect DEF Keeps, SeedFields
  <2>4. CASE CheckPortfolio
    BY <2>4, CheckEffect DEF Keeps, SeedFields
  <2> QED
    BY <2>1, <2>2, <2>3, <2>4
<1>2. tx'[Seed].todo = tx[Seed].todo /\ tx'[Seed].plus = tx[Seed].plus /\ Dataset' = Dataset
  BY <1>1 DEF Keeps, Dataset
<1>3. Dataset \in DOMAIN Generated /\ tx[Seed].todo = Generated[Dataset] /\ Of(tx[Seed].plus, "statement") = {}
  BY <1>1 DEF Loading
<1> QED
  BY <1>1, <1>2, <1>3, FreshLoading

\* The seed in progress sees more rows, and has as many to load.
LEMMA MoreLoading ==
  ASSUME Loading, Keeps(Seed, {"pc", "todo", "plus", "dataset", "asOf"}),
         \A x \in Visible(Seed) : x \in Visible(Seed)'
  PROVE Loading'
<1>1. /\ tx'[Seed].todo = tx[Seed].todo /\ tx'[Seed].plus = tx[Seed].plus /\ Dataset' = Dataset
      /\ tx'[Seed].dataset = tx[Seed].dataset /\ tx'[Seed].pc = tx[Seed].pc
  BY DEF Keeps, Dataset
<1>3. \A k : Has(Visible(Seed), "statement", k) => Has(Visible(Seed)', "statement", k)
  BY DEF Has
<1>4. \A doc : StoredIn(doc, Visible(Seed)) => StoredIn(doc, Visible(Seed)')
  BY StoredMore
<1>5. \A st : Ready(st, Dataset) => Ready(st, Dataset)'
  BY <1>1, <1>4 DEF Ready
<1> QED
  BY <1>1, <1>3, <1>5 DEF Loading

LEMMA ReuseLoading == ASSUME Shapes, Loading, Reuse(Seed) PROVE Loading'
<1> DEFINE docs == Generated[Dataset]
           doc == Head(tx[Seed].todo)
<1>1. /\ tx[Seed].pc = "ingest" /\ tx[Seed].todo # <<>> /\ tx'[Seed].todo = Tail(tx[Seed].todo)
      /\ Has(Visible(Seed), "statement", doc.id) /\ db' = db
      /\ Keeps(Seed, {"pc", "plus", "minus", "dataset", "asOf"})
  BY SeedReuseEffect DEF Keeps, Fields, SeedFields
<1>2. /\ tx'[Seed].plus = tx[Seed].plus /\ tx'[Seed].minus = tx[Seed].minus /\ Dataset' = Dataset
      /\ tx'[Seed].dataset = tx[Seed].dataset /\ tx'[Seed].pc = "ingest"
  BY <1>1 DEF Keeps, Dataset
<1>3. Visible(Seed)' = Visible(Seed)
  BY <1>1, <1>2 DEF Visible
<1>4. /\ Dataset \in DOMAIN Generated /\ tx[Seed].todo \in Seq(Documents)
      /\ \A j \in 1..Len(tx[Seed].todo) : \E i \in DOMAIN docs : tx[Seed].todo[j] = docs[i]
      /\ \A i \in DOMAIN docs : Among(tx[Seed].todo, docs[i]) \/ Has(Visible(Seed), "statement", docs[i].id)
      /\ \A st \in Of(tx[Seed].plus, "statement") : Ready(st, Dataset)
  BY <1>1 DEF Loading
<1>5. /\ Tail(tx[Seed].todo) \in Seq(Documents) /\ tx[Seed].todo[1] = doc
      /\ \A j \in 1..Len(Tail(tx[Seed].todo)) :
           j + 1 \in 1..Len(tx[Seed].todo) /\ Tail(tx[Seed].todo)[j] = tx[Seed].todo[j + 1]
      /\ \A d : Among(tx[Seed].todo, d) => d = doc \/ Among(Tail(tx[Seed].todo), d)
  BY <1>1, <1>4, FirstAndRest
<1>7. \A i \in DOMAIN docs : Among(tx'[Seed].todo, docs[i]) \/ Has(Visible(Seed)', "statement", docs[i].id)
  BY <1>1, <1>3, <1>4, <1>5
<1>8. \A j \in 1..Len(tx'[Seed].todo) : \E i \in DOMAIN docs : tx'[Seed].todo[j] = docs[i]
  BY <1>1, <1>4, <1>5
<1>9. \A st : Ready(st, Dataset) => Ready(st, Dataset)'
  BY <1>1, <1>2, <1>3 DEF Ready
<1> HIDE DEF docs, doc
<1>10. \A st \in Of(tx'[Seed].plus, "statement") : Ready(st, Dataset)'
  BY <1>2, <1>4, <1>9
<1> QED
  BY <1>1, <1>2, <1>4, <1>5, <1>7, <1>8, <1>10 DEF Loading, docs

LEMMA StoreLoading == ASSUME Shapes, Loading, Store(Seed) PROVE Loading'
<1> DEFINE docs == Generated[Dataset]
           doc == Head(tx[Seed].todo)
           row == StatementRow(doc, tx[Seed].dataset)
<1>0. Seed \in Sessions
  BY DEF Sessions
<1>1. /\ tx[Seed].pc = "ingest" /\ tx[Seed].todo # <<>> /\ tx'[Seed].pc = "rows"
      /\ tx'[Seed].plus = tx[Seed].plus \cup {row} /\ db' = db
      /\ Keeps(Seed, {"todo", "minus", "dataset", "asOf"})
  BY <1>0, StoreEffect DEF Keeps, Fields, SeedFields
<1>2. /\ tx'[Seed].todo = tx[Seed].todo /\ tx'[Seed].minus = tx[Seed].minus /\ Dataset' = Dataset
      /\ tx'[Seed].dataset = tx[Seed].dataset
  BY <1>1 DEF Keeps, Dataset
<1>3. \A x \in Visible(Seed) : x \in Visible(Seed)'
  BY <1>1, <1>2 DEF Visible
<1>4. /\ Dataset \in DOMAIN Generated /\ tx[Seed].todo \in Seq(Documents)
      /\ \A j \in 1..Len(tx[Seed].todo) : \E i \in DOMAIN docs : tx[Seed].todo[j] = docs[i]
      /\ \A i \in DOMAIN docs : Among(tx[Seed].todo, docs[i]) \/ Has(Visible(Seed), "statement", docs[i].id)
      /\ \A st \in Of(tx[Seed].plus, "statement") : Ready(st, Dataset)
  BY <1>1 DEF Loading
<1>6. \A i \in DOMAIN docs : Among(tx'[Seed].todo, docs[i]) \/ Has(Visible(Seed)', "statement", docs[i].id)
  BY <1>2, <1>3, <1>4 DEF Has
<1>7. \A d : StoredIn(d, Visible(Seed)) => StoredIn(d, Visible(Seed)')
  BY <1>3, StoredMore
<1>8. \A st : Ready(st, Dataset) => Ready(st, Dataset)'
  BY <1>1, <1>2, <1>7 DEF Ready
<1>9. \A st : st = row => Ready(st, Dataset)'
  <2>1. PICK i \in DOMAIN docs : doc = docs[i]
    BY <1>1, <1>4, FirstAndRest
  <2> QED
    BY <1>1, <1>2, <2>1 DEF Ready
<1> HIDE DEF docs, doc, row
<1>10. \A st \in Of(tx'[Seed].plus, "statement") : Ready(st, Dataset)'
  BY <1>1, <1>4, <1>8, <1>9, OfMembers
<1> QED
  BY <1>1, <1>2, <1>4, <1>6, <1>10 DEF Loading, docs

\* A document is stored once its rows are added.
LEMMA DocumentStored ==
  ASSUME NEW doc \in Documents, NEW seen, NEW more, seen \cup DocumentRows(doc, seen) \subseteq more
  PROVE StoredIn(doc, more)
<1>1. \A k \in doc.rows : Has(more, RowTable(doc), k)
  <2> TAKE k \in doc.rows
  <2>1. CASE Has(seen, RowTable(doc), k)
    BY <2>1 DEF Has
  <2>2. CASE ~Has(seen, RowTable(doc), k)
    <3> DEFINE x == Row(RowTable(doc), k, <<"statement", doc.id>>, <<doc.id>>)
    <3>1. x \in OwnedRows(doc, seen)
      BY <2>2 DEF OwnedRows
    <3>2. x \in more /\ x.t = RowTable(doc) /\ x.k = k
      BY <3>1 DEF DocumentRows, Row
    <3> QED
      BY <3>2 DEF Has
  <2> QED
    BY <2>1, <2>2
<1>2. \A k \in doc.trades : Has(more, "trade", k)
  <2> TAKE k \in doc.trades
  <2>1. CASE Has(seen, "trade", k)
    BY <2>1 DEF Has
  <2>2. CASE ~Has(seen, "trade", k)
    <3> DEFINE x == Row("trade", k, <<"account", doc.account>>, <<doc.id>>)
    <3>1. x \in TradeRows(doc, seen) /\ Brokerage(doc)
      BY <2>2, GeneratedAssumption DEF TradeRows
    <3>2. x \in more /\ x.t = "trade" /\ x.k = k
      BY <3>1 DEF DocumentRows, Row
    <3> QED
      BY <3>2 DEF Has
  <2> QED
    BY <2>1, <2>2
<1> QED
  BY <1>1, <1>2 DEF StoredIn

LEMMA AddRowsLoading == ASSUME Core, Loading, AddRows(Seed) PROVE Loading'
<1> DEFINE docs == Generated[Dataset]
           doc == Head(tx[Seed].todo)
           new == DocumentRows(doc, Visible(Seed))
<1>0. Seed \in Sessions /\ Shapes /\ Added(tx[Seed])
  BY DEF Sessions, Core
<1>1. /\ tx[Seed].pc = "rows" /\ tx'[Seed].pc = "ingest"
      /\ tx'[Seed].todo = Tail(tx[Seed].todo)
      /\ tx'[Seed].plus = tx[Seed].plus \cup new /\ db' = db
      /\ Keeps(Seed, {"minus", "dataset", "asOf"})
  BY <1>0, AddRowsEffect DEF Keeps, Fields, SeedFields
<1>2. tx'[Seed].minus = tx[Seed].minus /\ Dataset' = Dataset /\ tx'[Seed].dataset = tx[Seed].dataset
  BY <1>1 DEF Keeps, Dataset
<1>3. Visible(Seed)' = Visible(Seed) \cup new
  BY <1>1, <1>2 DEF Visible
<1>4. /\ Dataset \in DOMAIN Generated /\ tx[Seed].todo \in Seq(Documents) /\ tx[Seed].todo # <<>>
      /\ \A j \in 1..Len(tx[Seed].todo) : \E i \in DOMAIN docs : tx[Seed].todo[j] = docs[i]
      /\ \A i \in DOMAIN docs : Among(tx[Seed].todo, docs[i]) \/ Has(Visible(Seed), "statement", docs[i].id)
      /\ \A st \in Of(tx[Seed].plus, "statement") : Ready(st, Dataset)
  BY <1>1 DEF Loading
<1>5. /\ Tail(tx[Seed].todo) \in Seq(Documents) /\ tx[Seed].todo[1] = doc
      /\ \A j \in 1..Len(Tail(tx[Seed].todo)) :
           j + 1 \in 1..Len(tx[Seed].todo) /\ Tail(tx[Seed].todo)[j] = tx[Seed].todo[j + 1]
      /\ \A d : Among(tx[Seed].todo, d) => d = doc \/ Among(Tail(tx[Seed].todo), d)
  BY <1>4, FirstAndRest
<1>7. Has(Visible(Seed), "statement", doc.id)
  BY <1>0, <1>1, StatementFields DEF Added, Has, Visible
<1>8. \A i \in DOMAIN docs : Among(tx'[Seed].todo, docs[i]) \/ Has(Visible(Seed)', "statement", docs[i].id)
  BY <1>1, <1>3, <1>4, <1>5, <1>7 DEF Has
<1>9. \A j \in 1..Len(tx'[Seed].todo) : \E i \in DOMAIN docs : tx'[Seed].todo[j] = docs[i]
  BY <1>1, <1>4, <1>5
<1>10. doc \in Documents
  BY <1>4, <1>5
<1>11. StoredIn(doc, Visible(Seed)')
  BY <1>3, <1>10, DocumentStored
<1>12. \A d : StoredIn(d, Visible(Seed)) => StoredIn(d, Visible(Seed)')
  BY <1>3, StoredMore
<1>13. \A st : Ready(st, Dataset) => Ready(st, Dataset)'
  BY <1>2, <1>11, <1>12 DEF Ready
<1>14. Of(tx'[Seed].plus, "statement") = Of(tx[Seed].plus, "statement")
  BY <1>1, DocumentRowsShape DEF Of
<1> HIDE DEF docs, doc, new
<1>15. \A st \in Of(tx'[Seed].plus, "statement") : Ready(st, Dataset)'
  BY <1>4, <1>13, <1>14
<1> QED
  BY <1>1, <1>2, <1>4, <1>5, <1>8, <1>9, <1>15 DEF Loading, docs

---------------------------------------------------------------------------
(* The dataset in the database.                                            *)

\* Others add no state, and no generated statement.
LEMMA MoreDataset ==
  ASSUME OneDataset, NEW added, db' = db \cup added, Of(added, "state") = {},
         \A x \in Of(added, "statement") : x.v[1] = Uploaded
  PROVE OneDataset'
<1>1. Of(db', "state") = Of(db, "state") /\ Replaceable(db') = Replaceable(db)
  BY DEF Of, Replaceable
<1>2. \A k : Has(db, "statement", k) => Has(db', "statement", k)
  BY DEF Has
<1>3. \A doc : StoredIn(doc, db) => StoredIn(doc, db')
  BY StoredMore
<1>4. \A ds : Whole(ds, db) => Whole(ds, db')
  BY <1>1, <1>2, <1>3 DEF Whole
<1> QED
  BY <1>1, <1>4 DEF OneDataset

LEMMA SameDataset == ASSUME OneDataset, db' = db PROVE OneDataset'
BY DEF OneDataset, Whole, Of, Replaceable, StoredIn

LEMMA NoticesLoading ==
  ASSUME Shapes, Loading, NEW added, db' = db \cup added, SeedNotices(added)
  PROVE Loading'
<1>1. CASE tx[Seed].pc = "idle"
  BY <1>1 DEF SeedNotices, Loading
<1>2. CASE tx[Seed].pc # "idle"
  <2>1. Keeps(Seed, {"pc", "todo", "plus", "minus", "dataset", "asOf"})
    BY <1>2 DEF SeedNotices, Keeps, SeedFields
  <2>2. \A x \in Visible(Seed) : x \in Visible(Seed)'
    BY <2>1 DEF Visible, Keeps
  <2>3. Keeps(Seed, {"pc", "todo", "plus", "dataset", "asOf"})
    BY <2>1 DEF Keeps
  <2> QED
    BY <2>2, <2>3, MoreLoading
<1> QED
  BY <1>1, <1>2

LEMMA SameLoading == ASSUME Loading, db' = db, tx'[Seed] = tx[Seed] PROVE Loading'
<1>1. Visible(Seed)' = Visible(Seed)
  BY DEF Visible
<1> QED
  BY <1>1, MoreLoading DEF Keeps

Data == Core /\ OneDataset /\ Loading

LEMMA UploadDataset == ASSUME Data, NEW u \in Uploaders, CommitUpload(u) PROVE OneDataset' /\ Loading'
<1>1. /\ tx[u].pc = "ingest" /\ Shapes
      /\ \/ db' = db /\ tx'[Seed] = tx[Seed]
         \/ db' = Visible(u) /\ SeedNotices(tx[u].plus)
  BY CommitUploadEffect DEF Data, Core
<1>2. CASE db' = db /\ tx'[Seed] = tx[Seed]
  BY <1>2, SameDataset, SameLoading DEF Data
<1>3. CASE db' = Visible(u) /\ SeedNotices(tx[u].plus)
  <2>1. tx[u].minus = {} /\ \A x \in Of(tx[u].plus, "statement") : x.v[1] = Uploaded
    BY <1>1 DEF Data, Core, Uploading
  <2>2. db' = db \cup tx[u].plus
    BY <1>3, <2>1 DEF Visible
  <2>3. Of(tx[u].plus, "state") = {}
    BY <1>1, OfMembers DEF Data, Core, Added, Sessions
  <2> QED
    BY <1>1, <1>3, <2>1, <2>2, <2>3, MoreDataset, NoticesLoading DEF Data
<1> QED
  BY <1>1, <1>2, <1>3

LEMMA ProposeDataset == ASSUME Data, Propose PROVE OneDataset' /\ Loading'
<1>1. PICK lot \in Of(db, "lot") :
        LET c == Row("candidate", lot.k, <<"lot", lot.k>>, <<>>) IN
        db' = db \cup {c} /\ SeedNotices({c})
  BY ProposeEffect DEF Data, Core
<1> DEFINE c == Row("candidate", lot.k, <<"lot", lot.k>>, <<>>)
<1>2. db' = db \cup {c} /\ SeedNotices({c})
  BY <1>1
<1>3. c.t = "candidate"
  BY RowFields
<1> HIDE DEF c
<1>4. Of({c}, "state") = {} /\ Of({c}, "statement") = {}
  BY <1>3 DEF Of
<1> QED
  BY <1>2, <1>4, MoreDataset, NoticesLoading DEF Data, Core

LEMMA CommitSeedDataset == ASSUME Data, CommitSeed PROVE OneDataset' /\ Loading'
<1>1. /\ tx[Seed].pc = "ingest" /\ tx[Seed].todo = <<>>
      /\ \/ db' = db /\ tx'[Seed].pc = "failed"
         \/ /\ db' = (db \ SeedMinus) \cup SeedPlus /\ tx'[Seed] = Idle
  BY CommitSeedEffect DEF Data, Core, SeedMinus, SeedPlus
<1>2. Loading'
  BY <1>1, IdleStep DEF Loading
<1>3. CASE db' = db
  BY <1>2, <1>3, SameDataset DEF Data
<1>4. CASE db' = (db \ SeedMinus) \cup SeedPlus
  <2> DEFINE docs == Generated[Dataset]
             plus == tx[Seed].plus
             rest == LabelRows \cup {StateRow}
  <2>1. /\ Dataset \in DOMAIN Generated
        /\ \A i \in DOMAIN docs : Has(Visible(Seed), "statement", docs[i].id)
        /\ \A st \in Of(plus, "statement") : Ready(st, Dataset)
    BY <1>1 DEF Data, Loading, Among
  <2>2. \A x \in LabelRows : x.t = "label"
    <3> TAKE x \in LabelRows
    <3>1. PICK k : x = Row("label", k, <<"txn", k>>, <<>>)
      BY DEF LabelRows
    <3> QED
      BY <3>1 DEF Row
  <2>3. StateRow.t = "state" /\ StateRow.k = tx[Seed].dataset /\ StateRow.v = <<tx[Seed].asOf>>
    BY RowFields DEF StateRow
  <2>4. \A x \in plus : x.t # "state"
    BY <1>1 DEF Data, Core, Added, Sessions
  <2>5. \A x \in Of(db, "state") : x \in SeedMinus
    <3> TAKE x \in Of(db, "state")
    <3>1. <<x.k, x.v[1]>> \in DOMAIN Generated
      BY DEF Data, OneDataset
    <3>2. x.k \in {"historical", "current"}
      BY <3>1, GeneratedAssumption
    <3> QED
      BY <3>2 DEF SeedMinus, ReplacedState
  <2> HIDE DEF plus, docs
  <2>6. Of(db', "state") = {StateRow}
    BY <1>4, <2>2, <2>3, <2>4, <2>5 DEF Of, SeedPlus, plus
  <2>7. <<StateRow.k, StateRow.v[1]>> = Dataset
    BY <2>3 DEF Dataset
  <2>8. \A x \in Visible(Seed) : x.t # "state" => x \in db'
    BY <1>4 DEF Visible, SeedMinus, SeedPlus, Of
  <2>9. \A k : Has(Visible(Seed), "statement", k) => Has(db', "statement", k)
    BY <2>8 DEF Has
  <2>10. \A doc : StoredIn(doc, Visible(Seed)) => StoredIn(doc, db')
    BY <2>8, StoredMore
  <2>11. Replaceable(db) \subseteq SeedMinus
    BY <1>1 DEF Data, Core, Replacing, SeedMinus
  <2>12. \A st \in Replaceable(db') : st \in Of(plus, "statement")
    BY <1>4, <2>2, <2>3, <2>11, OfMembers DEF Replaceable, SeedPlus, plus
  <2>13. \A st \in Replaceable(db') :
           \E i \in DOMAIN docs : Version(st, docs[i]) /\ StoredIn(docs[i], db')
    <3> TAKE st \in Replaceable(db')
    <3>1. Ready(st, Dataset)
      BY <2>1, <2>12
    <3>2. PICK i \in DOMAIN docs :
            st = StatementRow(docs[i], tx[Seed].dataset) /\ StoredIn(docs[i], Visible(Seed))
      BY <1>1, <3>1 DEF Ready, docs
    <3>3. Version(st, docs[i])
      BY <3>2, StatementFields DEF Version
    <3> QED
      BY <2>10, <3>2, <3>3
  <2>14. Whole(Dataset, db')
    BY <2>1, <2>9, <2>13 DEF Whole, docs
  <2>15. \A x \in Of(db', "state") : <<x.k, x.v[1]>> = Dataset
    BY <2>6, <2>7
  <2>16. \A x \in Of(db', "state") : <<x.k, x.v[1]>> \in DOMAIN Generated /\ Whole(<<x.k, x.v[1]>>, db')
    BY <2>1, <2>14, <2>15
  <2>17. Of(db', "state") # {} /\ \A x, y \in Of(db', "state") : x = y
    BY <2>6
  <2> QED
    BY <1>2, <2>16, <2>17 DEF OneDataset
<1> QED
  BY <1>1, <1>3, <1>4

LEMMA QuietDataset ==
  ASSUME Data, NEW s \in Sessions, db' = db, Others(s), s # Seed \/ tx'[Seed] = Idle
  PROVE OneDataset' /\ Loading'
<1>1. CASE s # Seed
  BY <1>1, SameDataset, SameLoading DEF Data, Others, Sessions
<1>2. CASE tx'[Seed] = Idle
  BY <1>2, SameDataset, IdleStep DEF Data, Loading
<1> QED
  BY <1>1, <1>2

LEMMA SessionDataset ==
  ASSUME Data, NEW s \in Sessions, Reuse(s) \/ Store(s) \/ AddRows(s) \/ Crash(s)
  PROVE OneDataset' /\ Loading'
<1>1. Shapes
  BY DEF Data, Core
<1>2. db' = db
  BY DEF Reuse, Store, AddRows, Crash
<1>3. CASE Crash(s) \/ (Reuse(s) /\ s # Seed)
  <2>1. tx' = [tx EXCEPT ![s] = Idle]
    BY <1>3 DEF Crash, Reuse
  <2> QED
    BY <1>1, <1>2, <2>1, EndsShapes, QuietDataset
<1>4. CASE (Store(s) \/ AddRows(s)) /\ s # Seed
  BY <1>1, <1>2, <1>4, StoreEffect, AddRowsEffect, QuietDataset
<1>5. CASE s = Seed /\ (Reuse(s) \/ Store(s) \/ AddRows(s))
  BY <1>1, <1>2, <1>5, SameDataset, ReuseLoading, StoreLoading, AddRowsLoading DEF Data
<1> QED
  BY <1>3, <1>4, <1>5

LEMMA NextData == Data /\ [Next]_vars => Data'
<1> SUFFICES ASSUME Data, [Next]_vars PROVE OneDataset' /\ Loading'
  BY NextCore DEF Data
<1>0. Shapes /\ OneDataset /\ Loading
  BY DEF Data, Core
<1>1. ASSUME NEW u \in Uploaders, Submit(u) PROVE OneDataset' /\ Loading'
  BY <1>0, <1>1, SameDataset, SameLoading DEF Submit
<1>2. ASSUME NEW u \in Uploaders, Post(u) PROVE OneDataset' /\ Loading'
  BY <1>0, <1>2, PostEffect, QuietDataset, UploadingUnlike
<1>3. ASSUME NEW u \in Uploaders, CommitUpload(u) PROVE OneDataset' /\ Loading'
  BY <1>3, UploadDataset
<1>4. ASSUME NEW s \in Sessions, Reuse(s) \/ Store(s) \/ AddRows(s) \/ Crash(s) PROVE OneDataset' /\ Loading'
  BY <1>4, SessionDataset
<1>5. CASE Propose
  BY <1>5, ProposeDataset
<1>6. CASE StartSeed
  BY <1>0, <1>6, StartSeedEffect, StartLoading, SameDataset
<1>7. CASE Delete \/ CheckPortfolio \/ PurgeTrades \/ DeleteStatements
  <2>1. db' = db
    BY <1>7 DEF Delete, CheckPortfolio, PurgeTrades, DeleteStatements
  <2> QED
    BY <1>0, <1>7, <2>1, ReplacementLoading, SameDataset
<1>8. CASE CommitSeed
  BY <1>8, CommitSeedDataset
<1>9. CASE SeedFails
  <2>1. tx' = [tx EXCEPT ![Seed] = Idle] /\ db' = db /\ Seed \in Sessions
    BY <1>9 DEF SeedFails, Sessions
  <2> QED
    BY <1>0, <2>1, EndsShapes, QuietDataset
<1>10. CASE UNCHANGED vars
  <2>1. db' = db /\ tx'[Seed] = tx[Seed]
    BY <1>10 DEF vars
  <2> QED
    BY <1>0, <2>1, SameDataset, SameLoading
<1> QED
  BY <1>1, <1>2, <1>3, <1>4, <1>5, <1>6, <1>7, <1>8, <1>9, <1>10 DEF Next

LEMMA InitData == Init => Data
<1> SUFFICES ASSUME Init PROVE OneDataset /\ Loading
  BY InitCore DEF Data
<1>1. db = {} /\ tx[Seed] = Idle
  BY DEF Init, Sessions
<1> QED
  BY <1>1, IdleStep DEF OneDataset, Loading, Of, Replaceable

\* The generated statements in the database are one dataset, the one whose date
\* the state records, with the rows of every document (generate.py 375-416).
THEOREM DatasetIsWhole == Spec => []SeedIsWhole
<1>1. Init => Data
  BY InitData
<1>2. Data /\ [Next]_vars => Data'
  BY NextData
<1>3. Data => SeedIsWhole
  <2> SUFFICES ASSUME Data PROVE SeedIsWhole
    OBVIOUS
  <2> DEFINE State == Of(db, "state")
  <2>1. /\ \A x, y \in State : x = y
        /\ State = {} => Replaceable(db) = {}
        /\ \A x \in State : Whole(<<x.k, x.v[1]>>, db)
    BY DEF Data, OneDataset
  <2>2. Cardinality(State) <= 1
    <3>1. CASE State = {}
      BY <3>1, FS_EmptySet
    <3>2. CASE State # {}
      <4>1. PICK x \in State : TRUE
        BY <3>2
      <4>2. State = {x}
        BY <2>1, <4>1
      <4>3. Cardinality({x}) = 1
        BY FS_Singleton
      <4> QED
        BY <4>2, <4>3
    <3> QED
      BY <3>1, <3>2
  <2> HIDE DEF State
  <2>3. ASSUME NEW x \in State
        PROVE LET docs == {Generated[<<x.k, x.v[1]>>][i] : i \in DOMAIN Generated[<<x.k, x.v[1]>>]} IN
              /\ \A doc \in docs : Has(db, "statement", doc.id)
              /\ \A st \in Replaceable(db) : \E doc \in docs : Version(st, doc) /\ Stored(doc)
    BY <2>1 DEF Whole, StoredIn, Stored
  <2> QED
    BY <2>1, <2>2, <2>3 DEF SeedIsWhole, State
<1> QED
  BY <1>1, <1>2, <1>3, PTL DEF Spec

---------------------------------------------------------------------------
(* The files that the form keeps: the first acceptable one of each name,   *)
(* in the order of selection.                                              *)

Good(selected) == {i \in 1..Len(selected) : Collectable(selected[i])}
Kept(selected) ==
  {i \in Good(selected) : \A j \in Good(selected) : j < i => selected[j].folded # selected[i].folded}
Rank(selected, i) == Cardinality({j \in Kept(selected) : j <= i})
Picked(selected, n) == CHOOSE i \in Kept(selected) : Rank(selected, i) = n
Names(selected) == {f.folded : f \in {f \in {selected[i] : i \in DOMAIN selected} : Collectable(f)}}

LEMMA CollectPicked ==
  \A selected : Collect(selected) = [n \in 1..Cardinality(Kept(selected)) |-> selected[Picked(selected, n)]]
BY DEF Collect, Kept, Good, Picked, Rank

LEMMA KeptFinite ==
  ASSUME NEW selected \in Seq(Files)
  PROVE /\ Kept(selected) \in SUBSET (1..Len(selected)) /\ IsFiniteSet(Kept(selected))
        /\ Cardinality(Kept(selected)) \in Nat
<1>1. Kept(selected) \in SUBSET (1..Len(selected)) /\ Len(selected) \in Int
  BY DEF Kept, Good
<1>2. IsFiniteSet(1..Len(selected))
  BY <1>1, FS_Interval
<1> QED
  BY <1>1, <1>2, FS_Subset, FS_CardinalityType

LEMMA LeastOf ==
  ASSUME NEW S \in SUBSET Nat, S # {}
  PROVE \E m \in S : \A k \in S : m <= k
<1>1. \E m \in S : \A k \in S : ~(<<k, m>> \in OpToRel(<, Nat))
  BY NatLessThanWellFounded, WFMin, Zenon
<1>2. PICK m \in S : \A k \in S : ~(k < m)
  BY <1>1, Zenon DEF OpToRel
<1> QED
  BY <1>2

\* Each rank from the first to the last is that of a file that is kept.
LEMMA EveryRank ==
  ASSUME NEW selected \in Seq(Files)
  PROVE /\ \A i \in Kept(selected) : Rank(selected, i) \in 1..Cardinality(Kept(selected))
        /\ \A i, j \in Kept(selected) : Rank(selected, i) = Rank(selected, j) => i = j
        /\ \A n \in 1..Cardinality(Kept(selected)) : \E i \in Kept(selected) : Rank(selected, i) = n
<1> DEFINE K == Kept(selected)
           Upto(i) == {j \in K : j <= i}
           N == Cardinality(K)
<1>1. K \in SUBSET (1..Len(selected)) /\ IsFiniteSet(K) /\ N \in Nat /\ Len(selected) \in Nat
  BY KeptFinite
<1>2. \A i : Rank(selected, i) = Cardinality(Upto(i))
  BY DEF Rank
<1> HIDE DEF K
<1>0. \A i \in K : i \in Nat
  BY <1>1
<1>3. \A i \in K : IsFiniteSet(Upto(i)) /\ Cardinality(Upto(i)) \in Nat /\ Cardinality(Upto(i)) <= N
  <2> TAKE i \in K
  <2>1. Upto(i) \in SUBSET K
    OBVIOUS
  <2> HIDE DEF Upto
  <2> QED
    BY <1>1, <2>1, FS_Subset, FS_CardinalityType
<1>4. \A i \in K : Cardinality(Upto(i)) # 0
  <2> TAKE i \in K
  <2>1. i \in Upto(i)
    BY <1>1
  <2> HIDE DEF Upto
  <2> QED
    BY <1>3, <2>1, FS_EmptySet
<1>5. ASSUME NEW i \in K, NEW j \in K, i < j PROVE Cardinality(Upto(i)) # Cardinality(Upto(j))
  <2>1. Upto(i) \in SUBSET Upto(j) /\ j \in Upto(j) /\ j \notin Upto(i)
    BY <1>0, <1>5
  <2> HIDE DEF Upto
  <2> QED
    BY <1>3, <2>1, FS_Subset
<1>6. \A i, j \in K : Cardinality(Upto(i)) = Cardinality(Upto(j)) => i = j
  <2> TAKE i, j \in K
  <2>1. i < j \/ j < i \/ i = j
    BY <1>1
  <2> QED
    BY <1>5, <2>1
<1>7. \A i \in K : Cardinality(Upto(i)) \in 1..N
  <2> HIDE DEF Upto, N
  <2> QED
    BY <1>1, <1>3, <1>4
<1> DEFINE f == [i \in K |-> Cardinality(Upto(i))]
<1>8. f \in Injection(K, 1..N)
  <2>1. f \in [K -> 1..N]
    BY <1>7
  <2>2. IsInjective(f)
    BY <1>6 DEF IsInjective
  <2> QED
    BY <2>1, <2>2 DEF Injection
<1>9. IsFiniteSet(1..N) /\ Cardinality(1..N) = N
  BY <1>1, FS_Interval
<1>10. f \in Surjection(K, 1..N)
  <2> HIDE DEF f, N
  <2>1. Cardinality(K) = Cardinality(1..N)
    BY <1>9 DEF N
  <2> QED
    BY <1>8, <1>9, <2>1, FS_Injection
<1>11. \A n \in 1..N : \E i \in K : Cardinality(Upto(i)) = n
  BY <1>10 DEF Surjection
<1> QED
  BY <1>2, <1>6, <1>7, <1>11 DEF K

\* What the form posts: the files kept, each once.
LEMMA Posted ==
  ASSUME NEW selected \in Seq(Files)
  PROVE /\ Collect(selected) \in Seq(Files)
        /\ Len(Collect(selected)) = Cardinality(Kept(selected))
        /\ \A n \in 1..Len(Collect(selected)) :
             \E i \in Kept(selected) : Collect(selected)[n] = selected[i]
        /\ \A i \in Kept(selected) :
             \E n \in 1..Len(Collect(selected)) : Collect(selected)[n] = selected[i]
<1> DEFINE K == Kept(selected)
           N == Cardinality(K)
           C == Collect(selected)
<1>1. N \in Nat /\ K \subseteq 1..Len(selected)
  BY KeptFinite
<1>2. \A n \in 1..N : Picked(selected, n) \in K /\ Rank(selected, Picked(selected, n)) = n
  BY EveryRank DEF Picked
<1>3. C = [n \in 1..N |-> selected[Picked(selected, n)]]
  BY CollectPicked
<1>4. \A i \in K : Rank(selected, i) \in 1..N /\ Picked(selected, Rank(selected, i)) = i
  BY <1>2, EveryRank
<1> HIDE DEF K, N, C
<1>5. C \in Seq(Files) /\ Len(C) = N
  <2>1. \A i \in K : selected[i] \in Files
    BY <1>1
  <2> QED
    <3>1. \A n \in 1..N : selected[Picked(selected, n)] \in Files
      BY <1>2, <2>1
    <3>2. C \in [1..N -> Files]
      BY <1>3, <3>1
    <3> QED
      BY <1>1, <3>2
<1>6. \A n \in 1..N : C[n] = selected[Picked(selected, n)]
  BY <1>3
<1> QED
  BY <1>2, <1>4, <1>5, <1>6 DEF K, N, C

\* One file is kept of each acceptable name.
LEMMA KeptNames ==
  ASSUME NEW selected \in Seq(Files)
  PROVE /\ {selected[i].folded : i \in Kept(selected)} = Names(selected)
        /\ Cardinality(Names(selected)) = Cardinality(Kept(selected))
<1> DEFINE K == Kept(selected)
           f == [i \in K |-> selected[i].folded]
<1>1. K \subseteq Nat /\ K \subseteq Good(selected) /\ IsFiniteSet(K) /\ Good(selected) \subseteq Nat
  BY KeptFinite DEF Kept, Good
<1>2. \A i, j \in K : selected[i].folded = selected[j].folded => i = j
  BY <1>1 DEF Kept
<1>3. DOMAIN selected = 1..Len(selected)
  OBVIOUS
<1>4. Names(selected) = {selected[i].folded : i \in Good(selected)}
  BY <1>3 DEF Names, Good
<1>5. ASSUME NEW g \in Good(selected) PROVE \E i \in K : selected[i].folded = selected[g].folded
  <2> DEFINE Same == {i \in Good(selected) : selected[i].folded = selected[g].folded}
  <2>1. Same \in SUBSET Nat /\ Same # {}
    BY <1>1
  <2>2. PICK m \in Same : \A k \in Same : m <= k
    <3> HIDE DEF Same
    <3> QED
      BY <2>1, LeastOf
  <2>3. \A j \in Good(selected) : j < m => selected[j].folded # selected[m].folded
    BY <1>1, <2>2
  <2> QED
    BY <2>2, <2>3 DEF Kept
<1>6. {selected[i].folded : i \in K} = Names(selected)
  BY <1>1, <1>4, <1>5
<1>7. f \in Injection(K, Names(selected)) /\ f \in Surjection(K, Names(selected))
  <2>1. f \in [K -> Names(selected)]
    BY <1>6
  <2>2. IsInjective(f)
    BY <1>2 DEF IsInjective
  <2>3. \A t \in Names(selected) : \E i \in K : f[i] = t
    BY <1>6
  <2> QED
    BY <2>1, <2>2, <2>3 DEF Injection, Surjection
<1>8. Cardinality(Names(selected)) = Cardinality(K)
  <2> HIDE DEF K, f
  <2> QED
    BY <1>1, <1>7, FS_Surjection
<1> QED
  BY <1>6, <1>8

---------------------------------------------------------------------------
(* The form: what is answered and what is still to post are the files kept,*)
(* in order.                                                               *)

Reports == {f.folded : f \in Files} \X {"failed", "duplicate", "ingested"}

Progress(posted, answered, left) ==
  /\ Len(answered) + Len(left) = Len(posted)
  /\ \A i \in 1..Len(answered) : answered[i][1] = posted[i].folded
  /\ \A i \in 1..Len(left) : left[i] = posted[Len(answered) + i]
Posting(u) == Progress(Collect(batch[u]), report[u], queue[u])

Form ==
  /\ batch \in [Uploaders -> Batches \cup {<<>>}]
  /\ report \in [Uploaders -> Seq(Reports)] /\ queue \in [Uploaders -> Seq(Files)]
  /\ \A u \in Uploaders : Posting(u) /\ (tx[u].pc # "idle" => queue[u] # <<>>)

LEMMA BatchFiles == \A selected \in Batches \cup {<<>>} : selected \in Seq(Files)
<1>1. <<>> \in Seq(Files)
  OBVIOUS
<1> QED
  BY <1>1, BatchesAssumption

LEMMA NothingPosted == Collect(<<>>) \in Seq(Files) /\ Len(Collect(<<>>)) = 0
<1>1. Kept(<<>>) = {}
  BY DEF Kept, Good
<1>2. Cardinality(Kept(<<>>)) = 0
  BY <1>1, FS_EmptySet
<1> QED
  BY <1>2, BatchFiles, Posted

LEMMA InitForm == Init => Form
<1> SUFFICES ASSUME Init PROVE Form
  OBVIOUS
<1>1. /\ batch = [u \in Uploaders |-> <<>>] /\ report = [u \in Uploaders |-> <<>>]
      /\ queue = [u \in Uploaders |-> <<>>] /\ \A u \in Uploaders : tx[u] = Idle
  BY UploadingUnlike DEF Init
<1>2. batch \in [Uploaders -> Batches \cup {<<>>}] /\ report \in [Uploaders -> Seq(Reports)] /\ queue \in [Uploaders -> Seq(Files)]
  BY <1>1
<1>3. \A u \in Uploaders : Posting(u)
  BY <1>1, NothingPosted DEF Posting, Progress
<1> QED
  BY <1>1, <1>2, <1>3, IdleStep DEF Form

LEMMA SubmitForm == ASSUME Form, NEW u \in Uploaders, Submit(u) PROVE Form'
<1>1. PICK selected \in Batches :
        batch' = [batch EXCEPT ![u] = selected] /\ queue' = [queue EXCEPT ![u] = Collect(selected)]
  BY DEF Submit
<1>2. report' = [report EXCEPT ![u] = <<>>] /\ tx' = tx /\ queue[u] = <<>>
  BY DEF Submit
<1>3. Collect(selected) \in Seq(Files) /\ <<>> \in Seq(Reports)
  BY BatchFiles, Posted
<1>4. batch' \in [Uploaders -> Batches \cup {<<>>}] /\ report' \in [Uploaders -> Seq(Reports)] /\ queue' \in [Uploaders -> Seq(Files)]
  BY <1>1, <1>2, <1>3 DEF Form
<1>5. batch'[u] = selected /\ queue'[u] = Collect(selected) /\ report'[u] = <<>> /\ tx[u].pc = "idle"
  BY <1>1, <1>2 DEF Form
<1>6. Posting(u)'
  BY <1>3, <1>5 DEF Posting, Progress
<1>7. \A v \in Uploaders \ {u} : batch'[v] = batch[v] /\ queue'[v] = queue[v] /\ report'[v] = report[v]
  BY <1>1, <1>2 DEF Form
<1>8. \A v \in Uploaders \ {u} : Posting(v)'
  BY <1>7 DEF Form, Posting
<1>9. \A v \in Uploaders : tx'[v].pc # "idle" => queue'[v] # <<>>
  BY <1>2, <1>5, <1>7 DEF Form
<1> QED
  BY <1>4, <1>6, <1>8, <1>9 DEF Form

LEMMA OneAnswered ==
  ASSUME NEW p \in Seq(Files), NEW r \in Seq(Reports), NEW q \in Seq(Files), q # <<>>,
         NEW e \in Reports, e[1] = q[1].folded, Progress(p, r, q)
  PROVE Progress(p, Append(r, e), Tail(q))
<1>1. Len(r) \in Nat /\ Len(q) \in Nat /\ Len(q) # 0
  OBVIOUS
<1>2. /\ Len(r) + Len(q) = Len(p)
      /\ \A i \in 1..Len(r) : r[i][1] = p[i].folded
      /\ \A i \in 1..Len(q) : q[i] = p[Len(r) + i]
  BY DEF Progress
<1>3. Len(Append(r, e)) = Len(r) + 1 /\ Len(Tail(q)) = Len(q) - 1
  OBVIOUS
<1>4. (\A i \in 1..Len(r) : Append(r, e)[i] = r[i]) /\ Append(r, e)[Len(r) + 1] = e
  OBVIOUS
<1>5. \A i \in 1..Len(Tail(q)) : i + 1 \in 1..Len(q) /\ Tail(q)[i] = q[i + 1]
  OBVIOUS
<1>6. q[1] = p[Len(r) + 1]
  BY <1>1, <1>2
<1>7. \A i \in 1..Len(r) + 1 : Append(r, e)[i][1] = p[i].folded
  BY <1>1, <1>2, <1>4, <1>6
<1>8. ASSUME NEW i \in 1..Len(Tail(q)) PROVE Tail(q)[i] = p[Len(r) + 1 + i]
  <2>1. Tail(q)[i] = p[Len(r) + (i + 1)]
    BY <1>2, <1>5
  <2>2. Len(r) + (i + 1) = Len(r) + 1 + i
    BY <1>1
  <2> QED
    BY <2>1, <2>2
<1> QED
  BY <1>1, <1>2, <1>3, <1>7, <1>8 DEF Progress

LEMMA ListOf == ASSUME NEW S, NEW n \in Nat, NEW f \in [1..n -> S] PROVE f \in Seq(S) /\ Len(f) = n
OBVIOUS

\* names are those of the files of p, in order.
NamesAre(names, p) == DOMAIN names = 1..Len(p) /\ \A n \in 1..Len(p) : names[n] = p[n].folded
\* list holds the names of the files of p that follow the first m.
NamesFrom(list, p, m) == \A i \in 1..Len(list) : list[i] = p[m + i].folded

LEMMA JoinedLists ==
  \A S : \A a, w \in Seq(S) :
    /\ DOMAIN (a \o w) = 1..(Len(a) + Len(w))
    /\ \A i \in 1..Len(a) : (a \o w)[i] = a[i]
    /\ \A i \in 1..Len(w) : (a \o w)[Len(a) + i] = w[i]
<1> TAKE S
<1> TAKE a, w \in Seq(S)
<1> QED
  OBVIOUS

LEMMA JoinedAt ==
  ASSUME NEW S, NEW a \in Seq(S), NEW w \in Seq(S), NEW p, Len(p) \in Nat,
         Len(a) + Len(w) = Len(p),
         NamesFrom(a, p, 0), NamesFrom(w, p, Len(a))
  PROVE NamesAre(a \o w, p)
<1>0. /\ \A i \in 1..Len(a) : a[i] = p[i].folded
      /\ \A i \in 1..Len(w) : w[i] = p[Len(a) + i].folded
  <2>1. \A i \in 1..Len(a) : 0 + i = i
    OBVIOUS
  <2> QED
    BY <2>1 DEF NamesFrom
<1>1. /\ DOMAIN (a \o w) = 1..(Len(a) + Len(w))
      /\ \A i \in 1..Len(a) : (a \o w)[i] = a[i]
      /\ \A i \in 1..Len(w) : (a \o w)[Len(a) + i] = w[i]
  BY JoinedLists
<1>2. Len(a) \in Nat /\ Len(w) \in Nat
  OBVIOUS
<1>3. ASSUME NEW n \in 1..Len(p) PROVE (a \o w)[n] = p[n].folded
  <2>1. CASE n <= Len(a)
    <3>1. n \in 1..Len(a)
      BY <1>2, <2>1
    <3> QED
      BY <1>0, <1>1, <3>1, Zenon
  <2>2. CASE n > Len(a)
    <3>1. PICK i \in 1..Len(w) : n = Len(a) + i
      <4>1. n - Len(a) \in 1..Len(w) /\ n = Len(a) + (n - Len(a))
        BY <1>2, <2>2
      <4> QED
        BY <4>1, Zenon
    <3> QED
      BY <1>0, <1>1, <3>1, Zenon
  <2> QED
    BY <1>2, <2>1, <2>2
<1> QED
  BY <1>1, <1>3 DEF NamesAre

\* The names of what is answered and what is left, joined, are those posted.
LEMMA JoinedNames ==
  ASSUME NEW p \in Seq(Files), NEW r \in Seq(Reports), NEW q \in Seq(Files), Progress(p, r, q),
         NEW names, names = [i \in DOMAIN r |-> r[i][1]] \o [i \in DOMAIN q |-> q[i].folded]
  PROVE NamesAre(names, p)
<1>0. PICK F : F = {f.folded : f \in Files}
  OBVIOUS
<1>11. PICK a : a = [i \in DOMAIN r |-> r[i][1]]
  OBVIOUS
<1>12. PICK w : w = [i \in DOMAIN q |-> q[i].folded]
  OBVIOUS
<1>1. /\ Len(r) \in Nat /\ Len(q) \in Nat /\ Len(p) \in Nat
      /\ DOMAIN r = 1..Len(r) /\ DOMAIN q = 1..Len(q)
  OBVIOUS
<1>2. /\ Len(r) + Len(q) = Len(p)
      /\ \A i \in 1..Len(r) : r[i][1] = p[i].folded
      /\ \A i \in 1..Len(q) : q[i] = p[Len(r) + i]
  BY DEF Progress
<1>3. (\A i \in 1..Len(r) : r[i] \in Reports) /\ \A i \in 1..Len(q) : q[i] \in Files
  OBVIOUS
<1>4. a \in [1..Len(r) -> F] /\ w \in [1..Len(q) -> F]
  BY <1>0, <1>11, <1>12, <1>1, <1>3 DEF Reports
<1>5. (\A i \in 1..Len(r) : a[i] = p[i].folded) /\ \A i \in 1..Len(q) : w[i] = p[Len(r) + i].folded
  BY <1>11, <1>12, <1>1, <1>2
<1>6. names = a \o w
  BY <1>11, <1>12
<1>7. a \in Seq(F) /\ w \in Seq(F) /\ Len(a) = Len(r) /\ Len(w) = Len(q)
  BY <1>1, <1>4, ListOf
<1>8. Len(p) \in Nat /\ Len(a) + Len(w) = Len(p) /\ NamesFrom(a, p, 0) /\ NamesFrom(w, p, Len(a))
  <2>1. \A i \in 1..Len(r) : 0 + i = i
    OBVIOUS
  <2> QED
    BY <1>1, <1>2, <1>5, <1>7, <2>1 DEF NamesFrom
<1>9. NamesAre(a \o w, p)
  BY <1>7, <1>8, JoinedAt
<1> QED
  BY <1>6, <1>9

\* An answer takes the first file that is still to post.
LEMMA AnswerForm ==
  ASSUME Form, NEW u \in Uploaders, NEW status \in {"failed", "duplicate", "ingested"},
         Answer(u, status), queue[u] # <<>>, batch' = batch, tx'[u].pc = "idle",
         \A v \in Uploaders \ {u} : tx'[v] = tx[v]
  PROVE Form'
<1> DEFINE entry == <<Head(queue[u]).folded, status>>
<1>1. report' = [report EXCEPT ![u] = Append(report[u], entry)] /\ queue' = [queue EXCEPT ![u] = Tail(queue[u])]
  BY DEF Answer
<1>2. /\ queue[u] \in Seq(Files) /\ report[u] \in Seq(Reports) /\ Len(queue[u]) \in Nat /\ Len(queue[u]) # 0
      /\ Len(report[u]) \in Nat /\ Head(queue[u]) = queue[u][1] /\ queue[u][1] \in Files
  BY DEF Form
<1>3. entry \in Reports /\ entry[1] = queue[u][1].folded
  BY <1>2 DEF Reports
<1> HIDE DEF entry
<1>4. /\ report' \in [Uploaders -> Seq(Reports)] /\ queue' \in [Uploaders -> Seq(Files)]
      /\ report'[u] = Append(report[u], entry) /\ queue'[u] = Tail(queue[u])
  BY <1>1, <1>2, <1>3 DEF Form
<1>5. \A v \in Uploaders \ {u} : queue'[v] = queue[v] /\ report'[v] = report[v]
  BY <1>1 DEF Form
<1>6. Posting(u)'
  <2>1. Collect(batch[u]) \in Seq(Files)
    BY BatchFiles, Posted DEF Form
  <2>2. Progress(Collect(batch[u]), Append(report[u], entry), Tail(queue[u]))
    BY <1>2, <1>3, <2>1, OneAnswered DEF Form, Posting
  <2> QED
    BY <1>4, <2>2 DEF Posting
<1>7. \A v \in Uploaders \ {u} : Posting(v)'
  BY <1>5 DEF Form, Posting
<1>8. \A v \in Uploaders : tx'[v].pc # "idle" => queue'[v] # <<>>
  BY <1>5 DEF Form
<1> QED
  BY <1>4, <1>6, <1>7, <1>8 DEF Form

\* Other steps leave the form alone.
LEMMA SameForm ==
  ASSUME Form, UNCHANGED <<batch, report, queue>>,
         \A u \in Uploaders : tx'[u].pc # "idle" => tx[u].pc # "idle" \/ queue[u] # <<>>
  PROVE Form'
<1>1. \A u \in Uploaders : Posting(u)'
  BY DEF Form, Posting
<1> QED
  BY <1>1 DEF Form

LEMMA QuietForm ==
  ASSUME Form, UNCHANGED <<batch, report, queue>>, NEW s \in Sessions, Others(s), tx[s].pc # "idle" \/ s = Seed
  PROVE Form'
<1>1. \A u \in Uploaders : tx'[u].pc # "idle" => tx[u].pc # "idle"
  BY UploadingUnlike DEF Others
<1> QED
  BY <1>1, SameForm

LEMMA NextForm ==
  ASSUME Shapes, Form, [Next]_vars
  PROVE Form'
<1>1. ASSUME NEW u \in Uploaders, Submit(u) PROVE Form'
  BY <1>1, SubmitForm
<1>2. ASSUME NEW u \in Uploaders, Post(u) PROVE Form'
  <2>1. /\ queue[u] # <<>> /\ tx[u].pc = "idle" /\ batch' = batch /\ u \in Sessions
        /\ \/ report' = report /\ queue' = queue
           \/ Answer(u, "failed") /\ tx' = tx
    BY <1>2, UploadingUnlike DEF Post
  <2>2. CASE report' = report /\ queue' = queue
    <3>1. Others(u)
      BY <1>2, PostEffect
    <3>2. \A v \in Uploaders : tx'[v].pc # "idle" => tx[v].pc # "idle" \/ queue[v] # <<>>
      BY <2>1, <3>1, UploadingUnlike DEF Others
    <3> QED
      BY <2>1, <2>2, <3>2, SameForm
  <2>3. CASE Answer(u, "failed") /\ tx' = tx
    BY <2>1, <2>3, AnswerForm
  <2> QED
    BY <2>1, <2>2, <2>3
<1>3. ASSUME NEW u \in Uploaders, CommitUpload(u) PROVE Form'
  <2>1. /\ tx[u].pc # "idle" /\ batch' = batch /\ (Answer(u, "failed") \/ Answer(u, "ingested"))
    BY <1>3 DEF CommitUpload
  <2>2. tx'[u] = Idle /\ \A v \in Uploaders \ {u} : tx'[v] = tx[v]
    BY <1>3, CommitUploadEffect, UploadingUnlike
  <2>3. queue[u] # <<>> /\ tx'[u].pc = "idle"
    BY <2>1, <2>2, IdleStep DEF Form
  <2> QED
    BY <2>1, <2>2, <2>3, AnswerForm
<1>4. ASSUME NEW s \in Sessions, Crash(s) \/ Reuse(s), s # Seed PROVE Form'
  <2>1. /\ s \in Uploaders /\ tx[s].pc # "idle" /\ batch' = batch
        /\ (Answer(s, "failed") \/ Answer(s, "duplicate")) /\ tx' = [tx EXCEPT ![s] = Idle]
    BY <1>4, UploadingUnlike DEF Crash, Reuse
  <2>2. tx'[s] = Idle /\ \A v \in Uploaders \ {s} : tx'[v] = tx[v]
    BY <2>1, EndsShapes, UploadingUnlike DEF Others
  <2>3. queue[s] # <<>> /\ tx'[s].pc = "idle"
    BY <2>1, <2>2, IdleStep DEF Form
  <2> QED
    BY <2>1, <2>2, <2>3, AnswerForm
<1>5. ASSUME NEW s \in Sessions, Store(s) \/ AddRows(s) PROVE Form'
  <2>1. UNCHANGED <<batch, report, queue>> /\ tx[s].pc # "idle"
    BY <1>5 DEF Store, AddRows
  <2> QED
    BY <1>5, <2>1, StoreEffect, AddRowsEffect, QuietForm
<1>6. ASSUME Crash(Seed) \/ Reuse(Seed) \/ SeedFails \/ CommitSeed \/ StartSeed PROVE Form'
  <2>1. UNCHANGED <<batch, report, queue>> /\ Seed \in Sessions
    BY <1>6 DEF Crash, Reuse, SeedFails, CommitSeed, StartSeed, Sessions
  <2>2. Others(Seed)
    <3>1. CASE Crash(Seed) \/ SeedFails
      BY <2>1, <3>1, EndsShapes DEF Crash, SeedFails
    <3>2. CASE Reuse(Seed) \/ CommitSeed \/ StartSeed
      BY <3>2, SeedReuseEffect, CommitSeedEffect, StartSeedEffect
    <3> QED
      BY <1>6, <3>1, <3>2
  <2> QED
    BY <2>1, <2>2, QuietForm
<1>7. ASSUME Delete \/ CheckPortfolio \/ PurgeTrades \/ DeleteStatements PROVE Form'
  <2>1. UNCHANGED <<batch, report, queue>> /\ Seed \in Sessions
    BY <1>7 DEF Delete, CheckPortfolio, PurgeTrades, DeleteStatements, Sessions
  <2>2. Others(Seed)
    BY <1>7, DeleteEffect, CheckEffect, PurgeEffect, DeleteStatementsEffect
  <2> QED
    BY <2>1, <2>2, QuietForm
<1>8. ASSUME Propose PROVE Form'
  <2>1. UNCHANGED <<batch, report, queue>>
    BY <1>8 DEF Propose
  <2>2. Seed \in Sessions /\ Others(Seed)
    BY <1>8, ProposeEffect DEF Others, Sessions
  <2> QED
    BY <2>1, <2>2, QuietForm
<1>9. ASSUME UNCHANGED vars PROVE Form'
  BY <1>9, SameForm DEF vars
<1> QED
  BY <1>1, <1>2, <1>3, <1>4, <1>5, <1>6, <1>7, <1>8, <1>9 DEF Next

\* Each acceptable name is posted or answered once, and what the form keeps is
\* valid for the API (statement_upload.py 15-31, statements.py 22-60).
THEOREM NamesOnce == Spec => []EveryNameOnce
<1>1. Init => Core /\ Form
  BY InitCore, InitForm
<1>2. Core /\ Form /\ [Next]_vars => (Core /\ Form)'
  BY NextCore, NextForm DEF Core
<1>3. Form => EveryNameOnce
  <2> SUFFICES ASSUME Form, NEW u \in Uploaders
               PROVE /\ {NamesOf(u)[i] : i \in DOMAIN NamesOf(u)} = Names(batch[u])
                     /\ Cardinality(DOMAIN NamesOf(u)) = Cardinality(Names(batch[u]))
                     /\ \A i \in DOMAIN queue[u] : Valid(queue[u][i])
    BY DEF EveryNameOnce, Names
  <2>0. batch[u] \in Seq(Files)
    BY BatchFiles DEF Form
  <2>1. PICK p \in Seq(Files), r \in Seq(Reports), q \in Seq(Files) :
          p = Collect(batch[u]) /\ r = report[u] /\ q = queue[u]
    BY <2>0, Posted DEF Form
  <2>8. Progress(p, r, q) /\ Len(p) \in Nat /\ Len(r) \in Nat /\ Len(q) \in Nat
    BY <2>1 DEF Form, Posting
  <2>2. /\ Len(p) = Cardinality(Kept(batch[u]))
        /\ \A n \in 1..Len(p) : \E i \in Kept(batch[u]) : p[n] = batch[u][i]
        /\ \A i \in Kept(batch[u]) : \E n \in 1..Len(p) : p[n] = batch[u][i]
    <3>1. /\ Len(Collect(batch[u])) = Cardinality(Kept(batch[u]))
          /\ \A n \in 1..Len(Collect(batch[u])) :
               \E i \in Kept(batch[u]) : Collect(batch[u])[n] = batch[u][i]
          /\ \A i \in Kept(batch[u]) :
               \E n \in 1..Len(Collect(batch[u])) : Collect(batch[u])[n] = batch[u][i]
      BY <2>0, Posted
    <3> QED
      BY <2>1, <3>1, Zenon
  <2>3. DOMAIN NamesOf(u) = 1..Len(p) /\ \A n \in 1..Len(p) : NamesOf(u)[n] = p[n].folded
    <3>1. PICK names : names = NamesOf(u)
      OBVIOUS
    <3>2. names = [i \in DOMAIN r |-> r[i][1]] \o [i \in DOMAIN q |-> q[i].folded]
      BY <2>1, <3>1 DEF NamesOf
    <3>3. NamesAre(names, p)
      BY <2>8, <3>2, JoinedNames
    <3> QED
      BY <3>1, <3>3 DEF NamesAre
  <2>4. /\ {batch[u][i].folded : i \in Kept(batch[u])} = Names(batch[u])
        /\ Cardinality(Names(batch[u])) = Cardinality(Kept(batch[u]))
    BY <2>0, KeptNames
  <2>5. {NamesOf(u)[n] : n \in DOMAIN NamesOf(u)} = Names(batch[u])
    <3>1. {NamesOf(u)[n] : n \in DOMAIN NamesOf(u)} = {p[n].folded : n \in 1..Len(p)}
      BY <2>3
    <3>2. ASSUME NEW n \in 1..Len(p) PROVE p[n].folded \in {batch[u][i].folded : i \in Kept(batch[u])}
      <4>1. PICK i \in Kept(batch[u]) : p[n] = batch[u][i]
        BY <2>2
      <4> QED
        BY <4>1
    <3>3. ASSUME NEW i \in Kept(batch[u]) PROVE batch[u][i].folded \in {p[n].folded : n \in 1..Len(p)}
      <4>1. PICK n \in 1..Len(p) : p[n] = batch[u][i]
        BY <2>2
      <4> QED
        BY <4>1
    <3> QED
      BY <2>4, <3>1, <3>2, <3>3
  <2>6. Cardinality(DOMAIN NamesOf(u)) = Cardinality(Names(batch[u]))
    <3>1. \A n \in Nat : Cardinality(1..n) = n
      <4> TAKE n \in Nat
      <4>1. Cardinality(1..n) = IF 1 > n THEN 0 ELSE n - 1 + 1
        BY FS_Interval
      <4> QED
        BY <4>1
    <3> QED
      BY <2>8, <2>2, <2>3, <2>4, <3>1
  <2>7. ASSUME NEW i \in DOMAIN queue[u] PROVE Valid(queue[u][i])
    <3>1. i \in 1..Len(q) /\ q[i] \in Files /\ queue[u][i] = q[i]
      BY <2>1
    <3>2. Len(r) + Len(q) = Len(p) /\ q[i] = p[Len(r) + i]
      BY <2>8, <3>1 DEF Progress
    <3>3. Len(r) + i \in 1..Len(p)
      BY <2>8, <3>1, <3>2
    <3>4. \E k \in Kept(batch[u]) : queue[u][i] = batch[u][k]
      BY <2>2, <3>1, <3>2, <3>3
    <3>5. Collectable(queue[u][i])
      BY <3>4 DEF Kept, Good
    <3> QED
      BY <3>1, <3>5, BatchesAssumption DEF Collectable, Valid
  <2> QED
    BY <2>5, <2>6, <2>7
<1> QED
  BY <1>1, <1>2, <1>3, PTL DEF Spec


---------------------------------------------------------------------------
(* References.  Every foreign key of the database holds; a seed that no     *)
(* other commit raced sees a database that does not change, so that what it *)
(* takes out and puts in breaks neither a foreign key nor a unique one.     *)

Known == Documents \cup {f.doc : f \in {g \in Files : g.doc # Unreadable}}
Assets == UNION {doc.assets : doc \in Known}

\* A symbol names one asset: a mapping is unique by provider and symbol.
SymbolsAgree == \A a, b \in Assets : a.symbol = b.symbol => a.canonical = b.canonical

Refers(x) ==
  /\ x.t \in {"asset", "account", "state"} => x.r = None
  /\ x.t = "mapping" => \E a \in Assets : x.k[2] = a.symbol /\ x.r = <<"asset", a.canonical>>
  /\ x.t = "holding" => x.k[1] = x.v[1]

Closed(rows, all) == \A x \in rows : x.r = None \/ Has(all, x.r[1], x.r[2])

Adding(r) == r.pc \notin {"idle", "failed"} => \A x \in r.plus : Refers(x)
\* An upload reads a document of a file of the batch.
Reading(r) == r.pc # "idle" => r.todo \in Seq(Known) /\ (r.pc = "rows" => r.todo # <<>>)

References ==
  /\ \A x \in db : Refers(x)
  /\ Closed(db, db)
  /\ \A s \in Sessions : Adding(tx[s])
  /\ \A u \in Uploaders : Reading(tx[u])

Remaining == db \ tx[Seed].minus
Alone ==
  tx[Seed].pc # "idle" /\ ~tx[Seed].raced =>
    /\ tx[Seed].pc # "failed"
    /\ ~Taken(Remaining, tx[Seed].plus)
    /\ Closed(Remaining, Remaining) /\ Closed(tx[Seed].plus, Visible(Seed))
    /\ \A a \in Accounts : Has(Visible(Seed), "account", a)
    /\ tx[Seed].pc = "delete" =>
         tx[Seed].candidates = Referring(db, "candidate", Belonging(db, "lot", tx[Seed].old))
    /\ tx[Seed].pc \notin {"ingest", "rows"} =>
         \A x \in tx[Seed].plus : x.t \in {"account", "profile", "manifest"}
    /\ tx[Seed].pc # "delete" =>
         \A x \in db, st \in tx[Seed].old :
           x.t \in {"txn", "lot", "holding"} /\ x.r = <<"statement", st.k>> => x \in tx[Seed].minus

LEMMA ClosedMeans == \A rows : Closed(rows, rows) <=> ~Dangling(rows)
BY DEF Closed, Dangling

LEMMA MoreHas == \A rows, more, t, k : rows \subseteq more /\ Has(rows, t, k) => Has(more, t, k)
BY DEF Has

LEMMA MoreClosed ==
  ASSUME NEW rows, NEW all, NEW more, all \subseteq more, Closed(rows, all)
  PROVE Closed(rows, more)
BY MoreHas DEF Closed

LEMMA JoinedClosed ==
  ASSUME NEW a, NEW b, Closed(a, a), Closed(b, a \cup b)
  PROVE Closed(a \cup b, a \cup b)
<1>1. Closed(a, a \cup b)
  BY MoreClosed
<1> QED
  BY <1>1 DEF Closed

\* What a row refers to.
LEMMA Targets ==
  ASSUME NEW x, Shaped(x), Refers(x), x.r # None
  PROVE \/ x.t \in {"statement", "trade", "profile", "manifest"} /\ x.r[1] = "account"
        \/ x.t \in {"txn", "lot", "holding"} /\ x.r[1] = "statement"
        \/ x.t = "candidate" /\ x.r = <<"lot", x.k>> /\ x.r[1] = "lot"
        \/ x.t = "label" /\ x.r = <<"txn", x.k>> /\ x.r[1] = "txn"
        \/ x.t = "mapping" /\ x.r[1] = "asset"
<1>1. x.t \in {"statement", "trade", "profile", "manifest"} => x.r[1] = "account"
  BY DEF Shaped
<1>2. x.t \in {"txn", "lot", "holding"} => x.r[1] = "statement"
  BY DEF Shaped
<1>3. x.t = "mapping" => x.r[1] = "asset"
  BY DEF Refers
<1>4. x.t \in Tables \ {"asset", "account", "state"}
  BY DEF Shaped, Refers
<1> QED
  BY <1>1, <1>2, <1>3, <1>4 DEF Shaped, Tables

\* Rows nothing refers to can go.
LEMMA LeavesClosed ==
  ASSUME NEW rows, NEW gone, NEW plus, Closed(rows, rows \cup plus),
         \A x \in rows : Shaped(x) /\ Refers(x),
         \A x \in gone : x.t \in {"trade", "holding", "candidate", "label", "state"}
  PROVE Closed(rows \ gone, (rows \ gone) \cup plus)
<1> SUFFICES ASSUME NEW x \in rows \ gone, x.r # None PROVE Has((rows \ gone) \cup plus, x.r[1], x.r[2])
  BY DEF Closed
<1>1. PICK y \in rows \cup plus : y.t = x.r[1] /\ y.k = x.r[2]
  BY DEF Closed, Has
<1>2. x.r[1] \in {"account", "statement", "lot", "txn", "asset"}
  BY Targets
<1>3. y \notin gone
  BY <1>1, <1>2
<1> QED
  BY <1>1, <1>3 DEF Has

\* The deletes in their order leave no row that refers to a deleted one.
LEMMA DeleteClosed ==
  ASSUME NEW rows, NEW old, Closed(rows, rows), \A x \in rows : Shaped(x) /\ Refers(x),
         NEW candidates, candidates = Referring(rows, "candidate", Belonging(rows, "lot", old)),
         NEW gone, gone = DeletedRows(rows, old, candidates)
  PROVE Closed(rows \ gone, rows \ gone)
<1> DEFINE lots == Belonging(rows, "lot", old)
           owned == lots \cup Belonging(rows, "txn", old)
<1>1. gone = owned \cup Referring(rows, "candidate", lots) \cup Belonging(rows, "holding", old)
             \cup Referring(rows, "label", owned)
  BY DEF DeletedRows
<1>2. /\ \A t : \A y \in Belonging(rows, t, old) : y \in rows /\ y.t = t
      /\ \A t, parents : \A y \in Referring(rows, t, parents) : y \in rows /\ y.t = t
  BY OfMembers DEF Belonging, Referring
<1>0. /\ \A y \in owned : y.t \in {"lot", "txn"} /\ (y.t = "lot" => y \in lots)
      /\ \A y \in gone : y \in owned \/ y.t \in {"candidate", "holding", "label"}
  BY <1>1, <1>2
<1>3. /\ \A x \in rows, y \in lots : x.t = "candidate" /\ x.r = <<y.t, y.k>> => x \in gone
      /\ \A x \in rows, y \in owned : x.t = "label" /\ x.r = <<y.t, y.k>> => x \in gone
  BY <1>1, OfMembers DEF Referring
<1> HIDE DEF lots, owned
<1> SUFFICES ASSUME NEW x \in rows \ gone, x.r # None PROVE Has(rows \ gone, x.r[1], x.r[2])
  BY DEF Closed
<1>4. PICK y \in rows : y.t = x.r[1] /\ y.k = x.r[2]
  BY DEF Closed, Has
<1>5. ASSUME y \in gone PROVE FALSE
  <2>1. x.r[1] \in {"account", "statement", "lot", "txn", "asset"}
    BY Targets
  <2>2. y \in owned /\ y.t \in {"lot", "txn"}
    BY <1>0, <1>4, <1>5, <2>1
  <2>3. CASE y.t = "lot"
    <3>1. x.t = "candidate" /\ x.r = <<"lot", x.k>>
      BY <1>4, <2>3, Targets
    <3>2. x.r = <<y.t, y.k>> /\ y \in lots
      BY <1>0, <1>4, <2>2, <2>3, <3>1
    <3> QED
      BY <1>3, <3>1, <3>2
  <2>4. CASE y.t = "txn"
    <3>1. x.t = "label" /\ x.r = <<"txn", x.k>>
      BY <1>4, <2>4, Targets
    <3>2. x.r = <<y.t, y.k>>
      BY <1>4, <2>4, <3>1
    <3> QED
      BY <1>3, <2>2, <3>1, <3>2
  <2> QED
    BY <2>2, <2>3, <2>4
<1> QED
  BY <1>4, <1>5 DEF Has

\* The statements go when what belongs to them has gone.
LEMMA StatementsClosed ==
  ASSUME NEW rows, NEW old, Closed(rows, rows), \A x \in rows : Shaped(x) /\ Refers(x),
         \A st \in old : st.t = "statement",
         \A x \in rows, st \in old : ~(x.t \in {"txn", "lot", "holding"} /\ x.r = <<"statement", st.k>>)
  PROVE Closed(rows \ old, rows \ old)
<1> SUFFICES ASSUME NEW x \in rows \ old, x.r # None PROVE Has(rows \ old, x.r[1], x.r[2])
  BY DEF Closed
<1>1. PICK y \in rows : y.t = x.r[1] /\ y.k = x.r[2]
  BY DEF Closed, Has
<1>2. ASSUME y \in old PROVE FALSE
  <2>1. x.t \in {"txn", "lot", "holding"}
    BY <1>1, <1>2, Targets
  <2>2. x.r = <<"statement", x.v[1]>>
    BY <2>1 DEF Shaped
  <2>3. x.r = <<"statement", y.k>>
    BY <1>1, <2>2
  <2> QED
    BY <1>2, <2>1, <2>3
<1> QED
  BY <1>1, <1>2 DEF Has

\* The rows of a document, their keys and what they refer to.
OwnedKind(x, doc, seen) ==
  x.t \in {"txn", "lot"} /\ ~Has(seen, x.t, x.k) /\ x.r = <<"statement", doc.id>>
TradeKind(x, doc, seen) ==
  x.t = "trade" /\ ~Has(seen, x.t, x.k) /\ x.r = <<"account", doc.account>>
HoldingKind(x, doc) ==
  x.t = "holding" /\ x.k[1] = doc.id /\ x.v[1] = doc.id /\ x.r = <<"statement", doc.id>>
AssetKind(x, doc, seen) ==
  \E a \in doc.assets :
    /\ ~Has(seen, "asset", a.canonical)
    /\ \/ x.t = "asset" /\ x.k = a.canonical /\ x.r = None
       \/ /\ x.t = "mapping" /\ x.k[2] = a.symbol /\ x.r = <<"asset", a.canonical>>
          /\ Has(DocumentRows(doc, seen), "asset", a.canonical)

LEMMA DocumentRowsKinds ==
  ASSUME NEW doc, NEW seen, NEW x \in DocumentRows(doc, seen)
  PROVE OwnedKind(x, doc, seen) \/ TradeKind(x, doc, seen) \/ HoldingKind(x, doc) \/ AssetKind(x, doc, seen)
<1>1. CASE x \in OwnedRows(doc, seen)
  <2>1. PICK k : x = Row(RowTable(doc), k, <<"statement", doc.id>>, <<doc.id>>) /\ ~Has(seen, RowTable(doc), k)
    BY <1>1 DEF OwnedRows
  <2>2. x.t = RowTable(doc) /\ x.k = k /\ x.r = <<"statement", doc.id>>
    BY <2>1, RowFields
  <2>3. RowTable(doc) \in {"txn", "lot"}
    BY DEF RowTable
  <2> QED
    BY <2>1, <2>2, <2>3 DEF OwnedKind
<1>2. CASE Brokerage(doc) /\ x \in TradeRows(doc, seen)
  <2>1. PICK k : x = Row("trade", k, <<"account", doc.account>>, <<doc.id>>) /\ ~Has(seen, "trade", k)
    BY <1>2 DEF TradeRows
  <2>2. x.t = "trade" /\ x.k = k /\ x.r = <<"account", doc.account>>
    BY <2>1, RowFields
  <2> QED
    BY <2>1, <2>2 DEF TradeKind
<1>3. CASE x \in HoldingRows(doc)
  <2>1. PICK a \in doc.assets : x = Row("holding", <<doc.id, a.canonical>>, <<"statement", doc.id>>, <<doc.id>>)
    BY <1>3 DEF HoldingRows
  <2>2. x.t = "holding" /\ x.k = <<doc.id, a.canonical>> /\ x.r = <<"statement", doc.id>> /\ x.v = <<doc.id>>
    BY <2>1, RowFields
  <2> QED
    BY <2>2 DEF HoldingKind
<1>4. CASE Brokerage(doc) /\ \E a \in doc.assets : x \in UpsertAsset(a, seen)
  <2>1. PICK a \in doc.assets : x \in UpsertAsset(a, seen)
    BY <1>4
  <2>2. /\ ~Has(seen, "asset", a.canonical)
        /\ x = Row("asset", a.canonical, None, <<>>) \/ x \in MappingRows(a)
    BY <2>1 DEF UpsertAsset
  <2>3. Has(DocumentRows(doc, seen), "asset", a.canonical)
    <3> DEFINE y == Row("asset", a.canonical, None, <<>>)
    <3>1. y \in UpsertAsset(a, seen)
      BY <2>2 DEF UpsertAsset
    <3>2. y \in DocumentRows(doc, seen)
      BY <1>4, <2>1, <3>1 DEF DocumentRows
    <3>3. y.t = "asset" /\ y.k = a.canonical
      BY RowFields
    <3> QED
      BY <3>2, <3>3 DEF Has
  <2>4. CASE x = Row("asset", a.canonical, None, <<>>)
    <3>1. x.t = "asset" /\ x.k = a.canonical /\ x.r = None
      BY <2>4, RowFields
    <3> QED
      BY <2>2, <3>1 DEF AssetKind
  <2>5. CASE x \in MappingRows(a)
    <3>1. PICK p : x = Row("mapping", <<p, a.symbol>>, <<"asset", a.canonical>>, <<>>)
      BY <2>5 DEF MappingRows
    <3>2. x.t = "mapping" /\ x.k = <<p, a.symbol>> /\ x.r = <<"asset", a.canonical>>
      BY <3>1, RowFields
    <3>3. x.k[2] = a.symbol
      BY <3>2
    <3> QED
      BY <2>2, <2>3, <3>2, <3>3 DEF AssetKind
  <2> QED
    BY <2>2, <2>4, <2>5
<1> QED
  BY <1>1, <1>2, <1>3, <1>4 DEF DocumentRows

LEMMA DocumentRowsRefer ==
  ASSUME NEW doc \in Known, NEW seen, NEW x \in DocumentRows(doc, seen)
  PROVE Refers(x)
<1>1. doc.assets \subseteq Assets
  BY DEF Assets
<1>2. CASE AssetKind(x, doc, seen)
  BY <1>1, <1>2 DEF AssetKind, Refers
<1> QED
  BY <1>2, DocumentRowsKinds DEF OwnedKind, TradeKind, HoldingKind, Refers

LEMMA DocumentRowsClosed ==
  ASSUME NEW doc, NEW seen, Has(seen, "statement", doc.id), Has(seen, "account", doc.account)
  PROVE Closed(DocumentRows(doc, seen), seen \cup DocumentRows(doc, seen))
<1> SUFFICES ASSUME NEW x \in DocumentRows(doc, seen), x.r # None
             PROVE Has(seen \cup DocumentRows(doc, seen), x.r[1], x.r[2])
  BY DEF Closed
<1>1. \/ x.r = <<"statement", doc.id>> \/ x.r = <<"account", doc.account>>
      \/ \E a \in doc.assets : x.r = <<"asset", a.canonical>> /\ Has(DocumentRows(doc, seen), "asset", a.canonical)
  BY DocumentRowsKinds DEF OwnedKind, TradeKind, HoldingKind, AssetKind
<1>2. \A t, k : Has(seen, t, k) \/ Has(DocumentRows(doc, seen), t, k) => Has(seen \cup DocumentRows(doc, seen), t, k)
  BY DEF Has
<1> QED
  BY <1>1, <1>2

\* None of its keys is there, if its statement's is not.
LEMMA DocumentRowsFree ==
  ASSUME SymbolsAgree, NEW doc \in Known, NEW seen, NEW rows, rows \subseteq seen,
         \A x \in rows : Shaped(x) /\ Refers(x), Closed(rows, rows), ~Has(rows, "statement", doc.id)
  PROVE ~Taken(rows, DocumentRows(doc, seen))
<1> SUFFICES ASSUME NEW x \in DocumentRows(doc, seen), NEW y \in rows, x.t = y.t, x.k = y.k PROVE FALSE
  BY DEF Taken
<1>1. \A t, k : Has(rows, t, k) => Has(seen, t, k)
  BY MoreHas
<1>2. Has(seen, x.t, x.k)
  BY DEF Has
<1>3. CASE OwnedKind(x, doc, seen) \/ TradeKind(x, doc, seen)
  BY <1>2, <1>3 DEF OwnedKind, TradeKind
<1>4. CASE HoldingKind(x, doc)
  <2>1. y.t = "holding" /\ y.r = <<"statement", y.v[1]>> /\ y.v[1] = doc.id
    BY <1>4 DEF HoldingKind, Shaped, Refers
  <2>2. y.r # None /\ y.r[1] = "statement" /\ y.r[2] = doc.id
    BY <2>1 DEF None
  <2> QED
    BY <2>2 DEF Closed
<1>5. CASE AssetKind(x, doc, seen)
  <2>1. PICK a \in doc.assets :
          /\ ~Has(seen, "asset", a.canonical)
          /\ (x.t = "asset" /\ x.k = a.canonical) \/ (x.t = "mapping" /\ x.k[2] = a.symbol)
    BY <1>5 DEF AssetKind
  <2>2. CASE x.t = "asset" /\ x.k = a.canonical
    BY <1>2, <2>1, <2>2
  <2>3. CASE x.t = "mapping" /\ x.k[2] = a.symbol
    <3>1. PICK b \in Assets : y.k[2] = b.symbol /\ y.r = <<"asset", b.canonical>>
      BY <2>3 DEF Refers
    <3>2. a \in Assets
      BY DEF Assets
    <3>3. a.canonical = b.canonical
      BY <2>3, <3>1, <3>2 DEF SymbolsAgree
    <3>4. y.r # None /\ y.r[1] = "asset" /\ y.r[2] = a.canonical
      BY <3>1, <3>3 DEF None
    <3> QED
      BY <1>1, <2>1, <3>4 DEF Closed
  <2> QED
    BY <2>1, <2>2, <2>3
<1> QED
  BY <1>3, <1>4, <1>5, DocumentRowsKinds

LEMMA OtherRowsRefer ==
  /\ \A x \in ReferenceRows : Refers(x)
  /\ \A x \in LabelRows \cup {StateRow} : Refers(x)
  /\ \A doc, dataset : Refers(StatementRow(doc, dataset))
<1>1. ASSUME NEW x \in ReferenceRows PROVE Refers(x)
  <2>1. PICK a \in Accounts :
          x \in {Row("account", a, None, <<>>), Row("profile", a, <<"account", a>>, <<>>),
                 Row("manifest", a, <<"account", a>>, <<>>)}
    BY DEF ReferenceRows
  <2>2. x.t \in {"profile", "manifest"} \/ (x.t = "account" /\ x.r = None)
    BY <2>1 DEF Row
  <2> QED
    BY <2>2 DEF Refers
<1>2. ASSUME NEW x \in LabelRows \cup {StateRow} PROVE Refers(x)
  <2>1. \/ \E k : x = Row("label", k, <<"txn", k>>, <<>>)
        \/ x = Row("state", tx[Seed].dataset, None, <<tx[Seed].asOf>>)
    BY DEF LabelRows, StateRow
  <2>2. x.t = "label" \/ (x.t = "state" /\ x.r = None)
    BY <2>1 DEF Row
  <2> QED
    BY <2>2 DEF Refers
<1>3. \A doc, dataset : StatementRow(doc, dataset).t = "statement"
  BY StatementFields
<1>4. \A x : x.t = "statement" => Refers(x)
  BY DEF Refers
<1> QED
  BY <1>1, <1>2, <1>3, <1>4

---------------------------------------------------------------------------
(* Every reference of the database holds.                                   *)

LEMMA SessionReferences ==
  ASSUME References, NEW s \in Sessions, Others(s), db' = db, Adding(tx'[s]),
         s \in Uploaders => Reading(tx'[s])
  PROVE References'
<1>1. \A r \in Sessions : Adding(tx'[r])
  BY DEF References, Others
<1>2. \A u \in Uploaders : Reading(tx'[u])
  BY UploadingUnlike DEF References, Others
<1> QED
  BY <1>1, <1>2 DEF References

LEMMA IdleReads == Adding(Idle) /\ Reading(Idle)
BY IdleStep DEF Adding, Reading

LEMMA EndsReferences ==
  ASSUME Shapes, References, NEW s \in Sessions, tx' = [tx EXCEPT ![s] = Idle], db' = db
  PROVE References'
BY EndsShapes, IdleReads, SessionReferences

\* The replacement adds nothing.
LEMMA ReplacementPlus ==
  ASSUME Shapes, Reuse(Seed) \/ PurgeTrades \/ DeleteStatements \/ Delete \/ CheckPortfolio
  PROVE /\ Others(Seed) /\ db' = db /\ tx'[Seed].plus = tx[Seed].plus
        /\ tx[Seed].pc \notin {"idle", "failed"}
<1>1. CASE Reuse(Seed)
  BY <1>1, SeedReuseEffect, StepFields DEF Keeps
<1>2. CASE PurgeTrades
  BY <1>2, PurgeEffect, StepFields DEF Keeps
<1>3. CASE DeleteStatements
  BY <1>3, DeleteStatementsEffect, StepFields DEF Keeps
<1>4. CASE Delete
  BY <1>4, DeleteEffect, SeedLeaves DEF Keeps
<1>5. CASE CheckPortfolio
  BY <1>5, CheckEffect, SeedLeaves DEF Keeps
<1> QED
  BY <1>1, <1>2, <1>3, <1>4, <1>5

\* What is read next is known.
LEMMA NextKnown ==
  ASSUME Shapes, Loading, References, NEW s \in Sessions, tx[s].pc = "rows"
  PROVE Head(tx[s].todo) \in Known /\ (s \in Uploaders => Tail(tx[s].todo) \in Seq(Known))
<1>1. CASE s = Seed
  <2>1. tx[s].todo \in Seq(Documents) /\ tx[s].todo # <<>>
    BY <1>1 DEF Loading
  <2>2. Head(tx[s].todo) \in Documents
    BY <2>1
  <2> QED
    BY <1>1, <2>2, UploadingUnlike DEF Known
<1>2. CASE s \in Uploaders
  <2>1. tx[s].todo \in Seq(Known) /\ tx[s].todo # <<>>
    BY <1>2 DEF References, Reading
  <2> QED
    BY <2>1
<1> QED
  BY <1>1, <1>2, UploadingUnlike

LEMMA StoreReferences == ASSUME Shapes, References, NEW s \in Sessions, Store(s) PROVE References'
<1>1. /\ Others(s) /\ db' = db /\ tx[s].pc = "ingest" /\ tx[s].todo # <<>> /\ tx'[s].pc = "rows"
      /\ tx'[s].plus = tx[s].plus \cup {StatementRow(Head(tx[s].todo), tx[s].dataset)}
      /\ tx'[s].todo = tx[s].todo
  BY StoreEffect, StepFields DEF Keeps
<1>2. Adding(tx'[s])
  BY <1>1, OtherRowsRefer DEF References, Adding
<1>3. s \in Uploaders => Reading(tx'[s])
  BY <1>1 DEF References, Reading
<1> QED
  BY <1>1, <1>2, <1>3, SessionReferences

LEMMA AddRowsReferences == ASSUME Shapes, Loading, References, NEW s \in Sessions, AddRows(s) PROVE References'
<1>1. /\ Others(s) /\ db' = db /\ tx[s].pc = "rows" /\ tx'[s].pc = "ingest"
      /\ tx'[s].plus = tx[s].plus \cup DocumentRows(Head(tx[s].todo), Visible(s))
      /\ tx'[s].todo = Tail(tx[s].todo)
  BY AddRowsEffect
<1>2. Head(tx[s].todo) \in Known /\ (s \in Uploaders => Tail(tx[s].todo) \in Seq(Known))
  BY <1>1, NextKnown
<1>3. Adding(tx'[s])
  BY <1>1, <1>2, DocumentRowsRefer DEF References, Adding
<1>4. s \in Uploaders => Reading(tx'[s])
  BY <1>1, <1>2 DEF Reading
<1> QED
  BY <1>1, <1>3, <1>4, SessionReferences

LEMMA PostReferences == ASSUME Shapes, Form, References, NEW u \in Uploaders, Post(u) PROVE References'
<1>1. Others(u) /\ db' = db /\ u \in Sessions
  BY PostEffect, UploadingUnlike
<1> DEFINE f == Head(queue[u])
<1>2. /\ queue[u] # <<>>
      /\ \/ tx' = [tx EXCEPT ![u] = [pc |-> "ingest", todo |-> <<f.doc>>, path |-> f.name,
                                     dataset |-> Uploaded, minus |-> {}, plus |-> {}]] /\ f.doc # Unreadable
         \/ tx' = tx
  BY DEF Post
<1>3. f \in Files
  BY <1>2 DEF Form
<1> HIDE DEF f
<1>4. CASE tx' = tx
  BY <1>1, <1>4, SessionReferences DEF References
<1>5. CASE tx' # tx
  <2>1. tx'[u].todo = <<f.doc>> /\ tx'[u].plus = {} /\ tx'[u].pc = "ingest" /\ f.doc # Unreadable
    BY <1>1, <1>2, <1>5 DEF Shapes
  <2>2. <<f.doc>> \in Seq(Known)
    BY <1>3, <2>1 DEF Known
  <2> QED
    BY <1>1, <2>1, <2>2, SessionReferences DEF Adding, Reading
<1> QED
  BY <1>4, <1>5

LEMMA NoticesReferences ==
  ASSUME Adding(tx[Seed]), NEW added, SeedNotices(added)
  PROVE Adding(tx'[Seed])
BY DEF Adding, SeedNotices, Keeps, SeedFields

LEMMA CommitUploadReferences == ASSUME Core, References, NEW u \in Uploaders, CommitUpload(u) PROVE References'
<1>1. /\ tx'[u] = Idle /\ tx[u].pc = "ingest" /\ u \in Sessions /\ u # Seed
      /\ \A r \in Sessions \ {u, Seed} : tx'[r] = tx[r]
      /\ \/ db' = db /\ tx'[Seed] = tx[Seed]
         \/ ~Conflict(u) /\ db' = Visible(u) /\ SeedNotices(tx[u].plus)
  BY CommitUploadEffect, UploadingUnlike DEF Core
<1>2. Adding(tx'[Seed])
  BY <1>1, NoticesReferences DEF References, Sessions
<1>3. \A r \in Sessions : Adding(tx'[r])
  BY <1>1, <1>2, IdleReads DEF References
<1>4. \A v \in Uploaders : Reading(tx'[v])
  BY <1>1, IdleReads, UploadingUnlike DEF References
<1>5. CASE db' = db
  BY <1>3, <1>4, <1>5 DEF References
<1>6. CASE ~Conflict(u) /\ db' = Visible(u)
  <2>1. \A x \in db' : x \in db \/ x \in tx[u].plus
    BY <1>6 DEF Visible
  <2>2. \A x \in db' : Refers(x)
    BY <1>1, <2>1 DEF References, Adding
  <2>3. Closed(db', db')
    BY <1>6, ClosedMeans DEF Conflict
  <2> QED
    BY <1>3, <1>4, <2>2, <2>3 DEF References
<1> QED
  BY <1>1, <1>5, <1>6

LEMMA ProposeReferences == ASSUME Core, References, Propose PROVE References'
<1>1. PICK lot \in Of(db, "lot") :
        LET c == Row("candidate", lot.k, <<"lot", lot.k>>, <<>>) IN
        db' = db \cup {c} /\ SeedNotices({c})
  BY ProposeEffect DEF Core
<1> DEFINE c == Row("candidate", lot.k, <<"lot", lot.k>>, <<>>)
<1>2. db' = db \cup {c} /\ SeedNotices({c})
  BY <1>1
<1>3. c.t = "candidate" /\ c.r = <<"lot", lot.k>>
  BY RowFields
<1> HIDE DEF c
<1>4. Refers(c)
  BY <1>3 DEF Refers
<1>5. c.r[1] = "lot" /\ c.r[2] = lot.k /\ Has(db, "lot", lot.k)
  BY <1>3, OfMembers DEF Has
<1>6. Closed({c}, db \cup {c})
  BY <1>5, MoreHas DEF Closed
<1>7. Closed(db', db')
  BY <1>2, <1>6, JoinedClosed DEF References
<1>8. \A r \in Sessions \ {Seed} : tx'[r] = tx[r]
  BY ProposeEffect DEF Core
<1>9. Adding(tx'[Seed])
  BY <1>2, NoticesReferences DEF References, Sessions
<1>10. \A r \in Sessions : Adding(tx'[r])
  BY <1>8, <1>9 DEF References
<1>11. \A u \in Uploaders : Reading(tx'[u])
  BY <1>8, UploadingUnlike DEF References
<1> QED
  BY <1>2, <1>4, <1>7, <1>10, <1>11 DEF References

LEMMA CommitSeedReferences == ASSUME Core, References, CommitSeed PROVE References'
<1> DEFINE minus == tx[Seed].minus \cup {x \in Of(db, "state") : ReplacedState(x)}
           plus == tx[Seed].plus \cup LabelRows \cup {StateRow}
<1>1. /\ Others(Seed) /\ tx[Seed].pc = "ingest" /\ Seed \in Sessions
      /\ \/ db' = db /\ tx'[Seed].pc = "failed"
         \/ ~Dangling((db \ minus) \cup plus) /\ db' = (db \ minus) \cup plus /\ tx'[Seed] = Idle
  BY CommitSeedEffect DEF Core, Sessions
<1>2. \A x \in plus : Refers(x)
  BY <1>1, OtherRowsRefer DEF References, Adding
<1> HIDE DEF minus, plus
<1>3. Adding(tx'[Seed]) /\ Seed \notin Uploaders
  BY <1>1, IdleReads, UploadingUnlike DEF Adding
<1>4. CASE db' = db
  BY <1>1, <1>3, <1>4, SessionReferences
<1>5. CASE ~Dangling((db \ minus) \cup plus) /\ db' = (db \ minus) \cup plus
  <2>1. Closed(db', db')
    BY <1>5, ClosedMeans
  <2>2. \A x \in db' : Refers(x)
    BY <1>2, <1>5 DEF References
  <2>3. \A r \in Sessions : Adding(tx'[r])
    BY <1>1, <1>3 DEF References, Others
  <2>4. \A u \in Uploaders : Reading(tx'[u])
    BY <1>1, UploadingUnlike DEF References, Others
  <2> QED
    BY <2>1, <2>2, <2>3, <2>4 DEF References
<1> QED
  BY <1>1, <1>4, <1>5

LEMMA NextReferences ==
  ASSUME Core, Form, Loading, References, [Next]_vars
  PROVE References'
<1>0. Shapes /\ Seed \in Sessions /\ Seed \notin Uploaders
  BY UploadingUnlike DEF Core, Sessions
<1>1. ASSUME NEW u \in Uploaders, Submit(u) PROVE References'
  BY <1>1 DEF Submit, References
<1>2. ASSUME NEW u \in Uploaders, Post(u) PROVE References'
  BY <1>0, <1>2, PostReferences
<1>3. ASSUME NEW u \in Uploaders, CommitUpload(u) PROVE References'
  BY <1>3, CommitUploadReferences
<1>4. ASSUME NEW s \in Sessions, Crash(s) \/ (Reuse(s) /\ s # Seed) PROVE References'
  <2>1. tx' = [tx EXCEPT ![s] = Idle] /\ db' = db
    BY <1>4 DEF Crash, Reuse
  <2> QED
    BY <1>0, <2>1, EndsReferences
<1>5. ASSUME NEW s \in Sessions, Store(s) \/ AddRows(s) PROVE References'
  BY <1>0, <1>5, StoreReferences, AddRowsReferences
<1>6. CASE Propose
  BY <1>6, ProposeReferences
<1>7. CASE Reuse(Seed) \/ PurgeTrades \/ DeleteStatements \/ Delete \/ CheckPortfolio
  <2>1. Others(Seed) /\ db' = db /\ tx'[Seed].plus = tx[Seed].plus /\ tx[Seed].pc \notin {"idle", "failed"}
    BY <1>0, <1>7, ReplacementPlus
  <2>2. Adding(tx'[Seed])
    BY <1>0, <2>1 DEF References, Adding
  <2> QED
    BY <1>0, <2>1, <2>2, SessionReferences
<1>8. CASE StartSeed
  <2>1. Others(Seed) /\ db' = db /\ tx'[Seed].plus \subseteq ReferenceRows
    BY <1>0, <1>8, StartSeedEffect
  <2>2. Adding(tx'[Seed])
    BY <2>1, OtherRowsRefer DEF Adding
  <2> QED
    BY <1>0, <2>1, <2>2, SessionReferences
<1>9. CASE CommitSeed
  BY <1>9, CommitSeedReferences
<1>10. CASE SeedFails
  <2>1. tx' = [tx EXCEPT ![Seed] = Idle] /\ db' = db
    BY <1>10 DEF SeedFails
  <2> QED
    BY <1>0, <2>1, EndsReferences
<1>11. CASE UNCHANGED vars
  BY <1>11 DEF vars, References
<1> QED
  BY <1>1, <1>2, <1>3, <1>4, <1>5, <1>6, <1>7, <1>8, <1>9, <1>10, <1>11 DEF Next

LEMMA InitReferences == Init => References
<1> SUFFICES ASSUME Init PROVE References
  OBVIOUS
<1>1. db = {} /\ \A s \in Sessions : tx[s] = Idle
  BY DEF Init
<1> QED
  BY <1>1, IdleReads, UploadingUnlike DEF References, Closed

---------------------------------------------------------------------------
(* A seed that nothing raced.                                               *)

LEMMA KeptAlone ==
  ASSUME Alone, db' = db, Keeps(Seed, {"pc", "raced", "plus", "minus", "old", "candidates"})
  PROVE Alone'
BY DEF Alone, Keeps, Remaining, Visible, Closed, Taken, Has, Referring, Belonging, Of

LEMMA SameAlone == ASSUME Alone, db' = db, tx'[Seed] = tx[Seed] PROVE Alone'
BY KeptAlone DEF Keeps

LEMMA EndsAlone == ASSUME tx'[Seed] = Idle PROVE Alone'
BY IdleStep DEF Alone

LEMMA NoticesAlone == ASSUME NEW added, SeedNotices(added) PROVE Alone'
<1>1. CASE tx[Seed].pc = "idle"
  BY <1>1 DEF SeedNotices, Alone
<1>2. CASE tx[Seed].pc # "idle"
  BY <1>2 DEF SeedNotices, Alone
<1> QED
  BY <1>1, <1>2

\* The rows there are, those seen, and those deleted.
LEMMA SeedRows ==
  ASSUME Core, References, tx[Seed].pc \notin {"idle", "failed"}
  PROVE /\ \A x \in db : Shaped(x) /\ Refers(x)
        /\ \A x \in tx[Seed].plus : Shaped(x) /\ Refers(x) /\ x.t \notin {"state", "candidate", "label"}
        /\ \A st \in tx[Seed].old : st.t = "statement"
        /\ \A x \in tx[Seed].minus : x.t \in {"statement", "lot", "txn", "holding", "candidate", "label", "trade"}
<1>1. Seed \in Sessions
  BY DEF Sessions
<1>2. \A x \in db : Shaped(x) /\ Refers(x)
  BY DEF Core, Rows, References
<1>3. \A x \in tx[Seed].plus : Shaped(x) /\ Refers(x) /\ x.t \notin {"state", "candidate", "label"}
  BY <1>1 DEF Core, Added, References, Adding
<1>4. tx[Seed].old = Replaceable(db) /\ \A x \in tx[Seed].minus : Marked(x)
  BY DEF Core, Replacing
<1>5. \A st \in tx[Seed].old : st.t = "statement"
  BY <1>4, OfMembers DEF Replaceable
<1>6. \A x \in tx[Seed].minus : x.t \in {"statement", "lot", "txn", "holding", "candidate", "label", "trade"}
  BY <1>4, <1>5 DEF Marked
<1> QED
  BY <1>2, <1>3, <1>5, <1>6

\* It takes more out, and adds nothing.
LEMMA FewerAlone ==
  ASSUME Core, References, Alone, tx[Seed].pc \in {"delete", "portfolios", "purge"}, db' = db,
         Keeps(Seed, {"raced", "plus", "old"}),
         NEW gone, tx'[Seed].minus = tx[Seed].minus \cup gone, \A x \in gone : x.t # "account",
         tx'[Seed].pc \in {"portfolios", "purge", "ingest"},
         ~tx[Seed].raced =>
           /\ Closed(Remaining \ gone, Remaining \ gone)
           /\ \A x \in db, st \in tx[Seed].old :
                x.t \in {"txn", "lot", "holding"} /\ x.r = <<"statement", st.k>> => x \in tx'[Seed].minus
  PROVE Alone'
<1>1. tx'[Seed].raced = tx[Seed].raced /\ tx'[Seed].plus = tx[Seed].plus /\ tx'[Seed].old = tx[Seed].old
  BY DEF Keeps
<1> SUFFICES ASSUME ~tx[Seed].raced PROVE Alone'
  BY <1>1 DEF Alone
<1> DEFINE plus == tx[Seed].plus
<1>2. Remaining' = Remaining \ gone /\ Visible(Seed)' = (Remaining \ gone) \cup plus /\ Visible(Seed) = Remaining \cup plus
  BY <1>1 DEF Remaining, Visible
<1>3. /\ ~Taken(Remaining, plus) /\ Closed(plus, Visible(Seed))
      /\ \A a \in Accounts : Has(Visible(Seed), "account", a)
      /\ \A x \in plus : x.t \in {"account", "profile", "manifest"}
  BY DEF Alone
<1>4. \A k : Has(Visible(Seed), "account", k) => Has(Visible(Seed)', "account", k)
  BY <1>2 DEF Has
<1>5. \A x \in plus : x.r = None \/ x.r[1] = "account"
  BY <1>3, SeedRows, Targets
<1>6. Closed(plus, Visible(Seed)')
  BY <1>3, <1>4, <1>5 DEF Closed
<1>7. ~Taken(Remaining', plus)
  BY <1>2, <1>3 DEF Taken
<1>8. \A a \in Accounts : Has(Visible(Seed)', "account", a)
  BY <1>3, <1>4
<1>9. Closed(Remaining', Remaining')
  BY <1>2
<1> QED
  BY <1>1, <1>3, <1>6, <1>7, <1>8, <1>9 DEF Alone

LEMMA DeleteAlone == ASSUME Core, References, Alone, Delete PROVE Alone'
<1> DEFINE gone == DeletedRows(db, tx[Seed].old, tx[Seed].candidates)
<1>1. /\ db' = db /\ tx[Seed].pc = "delete"
      /\ Keeps(Seed, {"raced", "plus", "old"})
      /\ \/ Dangling(db \ gone) /\ tx'[Seed].pc = "failed"
         \/ tx'[Seed].pc = "portfolios" /\ tx'[Seed].minus = gone
  BY DeleteEffect, SeedLeaves DEF Core, Keeps
<1>2. tx[Seed].minus = {}
  BY <1>1 DEF Core, Replacing
<1>3. \A x \in db : Shaped(x) /\ Refers(x)
  BY <1>1, SeedRows
<1>4. CASE ~tx[Seed].raced
  <2>1. tx[Seed].candidates = Referring(db, "candidate", Belonging(db, "lot", tx[Seed].old))
    BY <1>1, <1>4 DEF Alone
  <2>2. Closed(db \ gone, db \ gone)
    BY <1>3, <2>1, DeleteClosed DEF References
  <2>3. tx'[Seed].pc = "portfolios" /\ tx'[Seed].minus = gone
    BY <1>1, <2>2, ClosedMeans
  <2>4. \A x \in gone : x.t # "account"
    BY <2>1, OfMembers DEF DeletedRows, Belonging, Referring
  <2>5. ASSUME NEW x \in db, NEW st \in tx[Seed].old,
               x.t \in {"txn", "lot", "holding"}, x.r = <<"statement", st.k>>
        PROVE x \in gone
    <3>1. x \in Belonging(db, x.t, tx[Seed].old)
      BY <2>5, OfMembers DEF Belonging
    <3> QED
      BY <2>5, <3>1 DEF DeletedRows
  <2>6. Remaining \ gone = db \ gone /\ tx[Seed].minus \cup gone = gone
    BY <1>2 DEF Remaining
  <2> HIDE DEF gone
  <2> QED
    BY <1>1, <2>2, <2>3, <2>4, <2>5, <2>6, FewerAlone
<1>5. CASE tx[Seed].raced
  <2>1. tx'[Seed].raced
    BY <1>1, <1>5 DEF Keeps
  <2> QED
    BY <2>1 DEF Alone
<1> QED
  BY <1>4, <1>5

LEMMA CheckAlone == ASSUME Core, References, Alone, CheckPortfolio PROVE Alone'
<1>1. /\ db' = db /\ tx[Seed].pc = "portfolios" /\ tx'[Seed].pc \in {"portfolios", "purge"}
      /\ Keeps(Seed, {"raced", "plus", "old"}) /\ tx'[Seed].minus = tx[Seed].minus
  BY CheckEffect DEF Core, Keeps, SeedFields
<1>2. PICK gone : gone = {}
  OBVIOUS
<1>3. tx'[Seed].minus = tx[Seed].minus \cup gone /\ Remaining \ gone = Remaining /\ \A x \in gone : x.t # "account"
  BY <1>1, <1>2
<1>4. ~tx[Seed].raced =>
        /\ Closed(Remaining \ gone, Remaining \ gone)
        /\ \A x \in db, st \in tx[Seed].old :
             x.t \in {"txn", "lot", "holding"} /\ x.r = <<"statement", st.k>> => x \in tx'[Seed].minus
  BY <1>1, <1>3 DEF Alone
<1> QED
  BY <1>1, <1>3, <1>4, FewerAlone

LEMMA PurgeAlone == ASSUME Core, References, Alone, PurgeTrades PROVE Alone'
<1>1. /\ db' = db /\ tx[Seed].pc = "purge" /\ tx'[Seed].pc = "portfolios"
      /\ Keeps(Seed, {"raced", "plus", "old"}) /\ tx'[Seed].minus = tx[Seed].minus \cup TradesOf(Checked)
  BY PurgeEffect DEF Core, Keeps, Fields, SeedFields
<1>2. \A x \in TradesOf(Checked) : x.t = "trade"
  BY OfMembers DEF TradesOf
<1>3. \A x \in Remaining : Shaped(x) /\ Refers(x)
  BY <1>1, SeedRows DEF Remaining
<1>4. ASSUME ~tx[Seed].raced PROVE Closed(Remaining \ TradesOf(Checked), Remaining \ TradesOf(Checked))
  <2>1. Closed(Remaining, Remaining \cup {})
    BY <1>1, <1>4, MoreClosed DEF Alone
  <2>2. Closed(Remaining \ TradesOf(Checked), (Remaining \ TradesOf(Checked)) \cup {})
    BY <1>2, <1>3, <2>1, LeavesClosed
  <2>3. (Remaining \ TradesOf(Checked)) \cup {} = Remaining \ TradesOf(Checked)
    OBVIOUS
  <2> QED
    BY <2>2, <2>3
<1>5. ~tx[Seed].raced =>
        \A x \in db, st \in tx[Seed].old :
          x.t \in {"txn", "lot", "holding"} /\ x.r = <<"statement", st.k>> => x \in tx'[Seed].minus
  BY <1>1 DEF Alone
<1> QED
  BY <1>1, <1>2, <1>4, <1>5, FewerAlone

LEMMA DeleteStatementsAlone == ASSUME Core, References, Alone, DeleteStatements PROVE Alone'
<1>1. /\ db' = db /\ tx[Seed].pc = "portfolios" /\ tx'[Seed].pc = "ingest"
      /\ Keeps(Seed, {"raced", "plus", "old"}) /\ tx'[Seed].minus = tx[Seed].minus \cup tx[Seed].old
  BY DeleteStatementsEffect DEF Core, Keeps, Fields, SeedFields
<1>2. \A x \in Remaining : Shaped(x) /\ Refers(x) /\ x \in db /\ x \notin tx[Seed].minus
  BY <1>1, SeedRows DEF Remaining
<1>3. \A st \in tx[Seed].old : st.t = "statement"
  BY <1>1, SeedRows
<1>4. ASSUME ~tx[Seed].raced PROVE Closed(Remaining \ tx[Seed].old, Remaining \ tx[Seed].old)
  <2>1. /\ Closed(Remaining, Remaining)
        /\ \A x \in Remaining, st \in tx[Seed].old : ~(x.t \in {"txn", "lot", "holding"} /\ x.r = <<"statement", st.k>>)
    BY <1>1, <1>2, <1>4 DEF Alone
  <2> QED
    BY <1>2, <1>3, <2>1, StatementsClosed
<1>5. ~tx[Seed].raced =>
        \A x \in db, st \in tx[Seed].old :
          x.t \in {"txn", "lot", "holding"} /\ x.r = <<"statement", st.k>> => x \in tx'[Seed].minus
  BY <1>1 DEF Alone
<1> QED
  BY <1>1, <1>3, <1>4, <1>5, FewerAlone

LEMMA StartAlone == ASSUME Core, References, StartSeed PROVE Alone'
<1>1. /\ db' = db
      /\ tx'[Seed].pc = IF Replaceable(db) = {} THEN "ingest" ELSE "delete"
      /\ tx'[Seed].plus = {x \in ReferenceRows : ~Has(db, x.t, x.k)} /\ tx'[Seed].minus = {}
      /\ tx'[Seed].old = Replaceable(db)
      /\ tx'[Seed].candidates = Referring(db, "candidate", Belonging(db, "lot", Replaceable(db)))
  BY StartSeedEffect DEF Core
<1> DEFINE plus == tx'[Seed].plus
<1>2. Remaining' = db /\ Visible(Seed)' = db \cup plus
  BY <1>1 DEF Remaining, Visible
<1>3. ~Taken(db, plus)
  BY <1>1 DEF Taken, Has
<1>4. ASSUME NEW a \in Accounts PROVE Has(db \cup plus, "account", a)
  <2> DEFINE x == Row("account", a, None, <<>>)
  <2>1. x \in ReferenceRows /\ x.t = "account" /\ x.k = a
    BY RowFields DEF ReferenceRows
  <2> HIDE DEF x
  <2>2. x \in plus \/ Has(db, "account", a)
    BY <1>1, <2>1
  <2> QED
    BY <2>1, <2>2 DEF Has
<1>5. ASSUME NEW x \in plus, x.r # None PROVE Has(db \cup plus, x.r[1], x.r[2])
  <2>1. PICK a \in Accounts :
          x \in {Row("account", a, None, <<>>), Row("profile", a, <<"account", a>>, <<>>),
                 Row("manifest", a, <<"account", a>>, <<>>)}
    BY <1>1 DEF ReferenceRows
  <2>2. x.r = <<"account", a>>
    BY <1>5, <2>1 DEF Row
  <2>3. x.r[1] = "account" /\ x.r[2] = a
    BY <2>2
  <2> QED
    BY <1>4, <2>3
<1>6. \A x \in plus : x.t \in {"account", "profile", "manifest"}
  BY <1>1, ReferenceRowsShape
<1> HIDE DEF plus
<1>7. Closed(plus, db \cup plus)
  BY <1>5 DEF Closed
<1>8. /\ tx'[Seed].pc \in {"ingest", "delete"}
      /\ tx'[Seed].pc # "delete" => tx'[Seed].old = {}
  BY <1>1
<1>9. Referring(db', "candidate", Belonging(db', "lot", tx'[Seed].old)) = tx'[Seed].candidates
  BY <1>1
<1> QED
  BY <1>1, <1>2, <1>3, <1>4, <1>6, <1>7, <1>8, <1>9 DEF Alone, References, plus

\* It adds rows whose keys nothing has, and whose references are there.
LEMMA MoreAlone ==
  ASSUME Alone, tx[Seed].pc \in {"ingest", "rows"}, tx'[Seed].pc \in {"ingest", "rows"}, db' = db,
         Keeps(Seed, {"raced", "minus", "old"}), NEW new, tx'[Seed].plus = tx[Seed].plus \cup new,
         ~tx[Seed].raced => ~Taken(Remaining, new) /\ Closed(new, Visible(Seed) \cup new)
  PROVE Alone'
<1>1. tx'[Seed].raced = tx[Seed].raced /\ tx'[Seed].minus = tx[Seed].minus /\ tx'[Seed].old = tx[Seed].old
  BY DEF Keeps
<1> SUFFICES ASSUME ~tx[Seed].raced PROVE Alone'
  BY <1>1 DEF Alone
<1>2. Remaining' = Remaining /\ Visible(Seed)' = Visible(Seed) \cup new
  BY <1>1 DEF Remaining, Visible
<1>3. /\ ~Taken(Remaining, tx[Seed].plus) /\ Closed(Remaining, Remaining)
      /\ Closed(tx[Seed].plus, Visible(Seed))
      /\ \A a \in Accounts : Has(Visible(Seed), "account", a)
      /\ \A x \in db, st \in tx[Seed].old :
           x.t \in {"txn", "lot", "holding"} /\ x.r = <<"statement", st.k>> => x \in tx[Seed].minus
  BY DEF Alone
<1>4. ~Taken(Remaining', tx'[Seed].plus)
  BY <1>2, <1>3 DEF Taken
<1>5. Closed(tx[Seed].plus, Visible(Seed) \cup new)
  BY <1>3, MoreClosed
<1>6. Closed(tx'[Seed].plus, Visible(Seed)')
  BY <1>2, <1>5 DEF Closed
<1>7. \A a \in Accounts : Has(Visible(Seed)', "account", a)
  BY <1>2, <1>3, MoreHas
<1> QED
  BY <1>1, <1>2, <1>3, <1>4, <1>6, <1>7 DEF Alone

LEMMA ReuseAlone == ASSUME Core, Alone, Reuse(Seed) PROVE Alone'
<1>1. db' = db /\ Keeps(Seed, {"pc", "raced", "plus", "minus", "old", "candidates"})
  BY SeedReuseEffect DEF Core, Keeps, Fields, SeedFields
<1> QED
  BY <1>1, KeptAlone

LEMMA StoreAlone == ASSUME Core, Loading, Alone, Store(Seed) PROVE Alone'
<1> DEFINE doc == Head(tx[Seed].todo)
           st == StatementRow(doc, tx[Seed].dataset)
<1>1. /\ db' = db /\ tx[Seed].pc = "ingest" /\ tx[Seed].todo # <<>> /\ tx'[Seed].pc = "rows"
      /\ ~Has(Visible(Seed), "statement", doc.id)
      /\ tx'[Seed].plus = tx[Seed].plus \cup {st}
      /\ Keeps(Seed, {"raced", "minus", "old"})
  BY StoreEffect DEF Core, Keeps, Fields, SeedFields, Sessions
<1>2. st.t = "statement" /\ st.k = doc.id /\ st.r = <<"account", doc.account>>
  BY StatementFields
<1>3. doc.account \in Accounts
  <2>1. tx[Seed].todo \in Seq(Documents)
    BY <1>1 DEF Loading
  <2>2. doc \in Documents
    BY <1>1, <2>1
  <2> QED
    BY <2>2, GeneratedAssumption
<1> HIDE DEF st, doc
<1>4. ASSUME ~tx[Seed].raced PROVE ~Taken(Remaining, {st}) /\ Closed({st}, Visible(Seed) \cup {st})
  <2>1. Has(Visible(Seed), "account", doc.account)
    BY <1>1, <1>3, <1>4 DEF Alone
  <2>2. st.r[1] = "account" /\ st.r[2] = doc.account
    BY <1>2
  <2>3. Closed({st}, Visible(Seed) \cup {st})
    BY <2>1, <2>2, MoreHas DEF Closed
  <2>4. ~Taken(Remaining, {st})
    BY <1>1, <1>2 DEF Taken, Has, Remaining, Visible
  <2> QED
    BY <2>3, <2>4
<1> QED
  BY <1>1, <1>4, MoreAlone

LEMMA AddRowsAlone == ASSUME SymbolsAgree, Core, Loading, References, Alone, AddRows(Seed) PROVE Alone'
<1> DEFINE doc == Head(tx[Seed].todo)
           new == DocumentRows(doc, Visible(Seed))
<1>0. Seed \in Sessions /\ Shapes
  BY DEF Core, Sessions
<1>1. /\ db' = db /\ tx[Seed].pc = "rows" /\ tx'[Seed].pc = "ingest"
      /\ tx'[Seed].plus = tx[Seed].plus \cup new
      /\ Keeps(Seed, {"raced", "minus", "old"})
  BY <1>0, AddRowsEffect DEF Keeps, Fields, SeedFields
<1>2. doc \in Known /\ doc.account \in Accounts
  <2>1. tx[Seed].todo \in Seq(Documents) /\ tx[Seed].todo # <<>>
    BY <1>1 DEF Loading
  <2>2. doc \in Documents
    BY <2>1
  <2> QED
    BY <2>2, GeneratedAssumption DEF Known
<1>3. StatementRow(doc, tx[Seed].dataset) \in tx[Seed].plus
  BY <1>0, <1>1 DEF Core, Added
<1> HIDE DEF doc
<1>4. \E st \in tx[Seed].plus : st.t = "statement" /\ st.k = doc.id
  BY <1>3, StatementFields
<1>5. \A x \in Remaining : Shaped(x) /\ Refers(x)
  BY <1>1, SeedRows DEF Remaining
<1>6. Remaining \subseteq Visible(Seed) /\ tx[Seed].plus \subseteq Visible(Seed)
  BY DEF Remaining, Visible
<1>7. ASSUME ~tx[Seed].raced PROVE ~Taken(Remaining, new) /\ Closed(new, Visible(Seed) \cup new)
  <2>1. /\ ~Taken(Remaining, tx[Seed].plus) /\ Closed(Remaining, Remaining)
        /\ Has(Visible(Seed), "account", doc.account)
    BY <1>1, <1>2, <1>7 DEF Alone
  <2>2. ~Has(Remaining, "statement", doc.id)
    BY <1>4, <2>1 DEF Taken, Has
  <2>3. Has(Visible(Seed), "statement", doc.id)
    BY <1>4, <1>6 DEF Has
  <2>4. ~Taken(Remaining, new)
    BY <1>2, <1>5, <1>6, <2>1, <2>2, DocumentRowsFree
  <2>5. Closed(new, Visible(Seed) \cup new)
    BY <2>1, <2>3, DocumentRowsClosed
  <2> QED
    BY <2>4, <2>5
<1> HIDE DEF new
<1> QED
  BY <1>1, <1>7, MoreAlone

\* What is added to close the seed: labels of transactions there are, and its state.
LEMMA ClosingRows ==
  ASSUME NEW x \in LabelRows \cup {StateRow}
  PROVE \/ /\ x.t = "label" /\ ~Has(Visible(Seed), "label", x.k)
           /\ x.r = <<"txn", x.k>> /\ Has(Visible(Seed), "txn", x.k)
        \/ x.t = "state" /\ x.k = tx[Seed].dataset /\ x.r = None
<1>1. CASE x \in LabelRows
  <2>1. PICK y \in Labelled : x = Row("label", y.k, <<"txn", y.k>>, <<>>)
    BY <1>1 DEF LabelRows
  <2>2. x.t = "label" /\ x.k = y.k /\ x.r = <<"txn", y.k>>
    BY <2>1, RowFields
  <2>3. y \in Visible(Seed) /\ y.t = "txn" /\ ~Has(Visible(Seed), "label", y.k)
    BY <2>1, OfMembers DEF Labelled
  <2> QED
    BY <2>2, <2>3 DEF Has
<1>2. CASE x = StateRow
  BY <1>2, RowFields DEF StateRow
<1> QED
  BY <1>1, <1>2

\* A seed that nothing raced can commit.
LEMMA CommitsAlone ==
  ASSUME Core, Loading, References, Alone, tx[Seed].pc = "ingest", ~tx[Seed].raced,
         NEW states, states = {x \in Of(db, "state") : ReplacedState(x)},
         NEW closing, closing = LabelRows \cup {StateRow}
  PROVE /\ ~Taken(Remaining \ states, tx[Seed].plus \cup closing)
        /\ ~Dangling((Remaining \ states) \cup (tx[Seed].plus \cup closing))
<1> DEFINE plus == tx[Seed].plus
           next == (Remaining \ states) \cup (plus \cup closing)
<1>1. ~Taken(Remaining, plus) /\ Closed(Remaining, Remaining) /\ Closed(plus, Visible(Seed))
  BY DEF Alone
<1>2. /\ \A x \in db : Shaped(x) /\ Refers(x)
      /\ \A x \in plus : Shaped(x) /\ Refers(x) /\ x.t \notin {"state", "candidate", "label"}
  BY SeedRows
<1>3. Visible(Seed) = Remaining \cup plus
  BY DEF Visible, Remaining
<1>4. \A x \in states : x.t = "state"
  BY OfMembers
<1>5. \A x \in closing : \/ /\ x.t = "label" /\ ~Has(Visible(Seed), "label", x.k)
                            /\ x.r = <<"txn", x.k>> /\ Has(Visible(Seed), "txn", x.k)
                         \/ x.t = "state" /\ x.k = tx[Seed].dataset /\ x.r = None
  BY ClosingRows
<1>6. tx[Seed].dataset \in {"historical", "current"}
  <2>1. Dataset \in DOMAIN Generated
    BY DEF Loading
  <2>2. Dataset[1] = tx[Seed].dataset
    BY DEF Dataset
  <2> QED
    BY <2>1, <2>2, GeneratedAssumption
<1>7. \A y \in db : y.t = "state" /\ y.k = tx[Seed].dataset => y \in states
  BY <1>6, OfMembers DEF ReplacedState
<1> HIDE DEF plus
<1>8. ~Taken(Remaining \ states, plus \cup closing)
  <2> SUFFICES ASSUME NEW x \in plus \cup closing, NEW y \in Remaining \ states, x.t = y.t, x.k = y.k PROVE FALSE
    BY DEF Taken
  <2>1. CASE x \in plus
    BY <1>1, <2>1 DEF Taken
  <2>2. CASE x \in closing /\ x.t = "label"
    BY <1>3, <1>5, <2>2 DEF Has
  <2>3. CASE x \in closing /\ x.t = "state"
    BY <1>5, <1>7, <2>3 DEF Remaining
  <2> QED
    BY <1>5, <2>1, <2>2, <2>3
<1>9. Closed(Visible(Seed), Visible(Seed) \cup closing)
  BY <1>1, <1>3, JoinedClosed, MoreClosed
<1>10. \A x \in Visible(Seed) : Shaped(x) /\ Refers(x)
  BY <1>2, <1>3 DEF Remaining
<1>11. Closed(Visible(Seed) \ states, (Visible(Seed) \ states) \cup closing)
  BY <1>4, <1>9, <1>10, LeavesClosed
<1>12. (Visible(Seed) \ states) \cup closing = next /\ next = (Visible(Seed) \ states) \cup closing
  BY <1>2, <1>3, <1>4
<1>13. \A k : Has(Visible(Seed), "txn", k) => Has(next, "txn", k)
  BY <1>4, <1>12 DEF Has
<1> HIDE DEF next
<1>14. Closed(closing, next)
  <2> SUFFICES ASSUME NEW x \in closing, x.r # None PROVE Has(next, x.r[1], x.r[2])
    BY DEF Closed
  <2>1. x.r = <<"txn", x.k>> /\ Has(Visible(Seed), "txn", x.k)
    BY <1>5
  <2>2. x.r[1] = "txn" /\ x.r[2] = x.k
    BY <2>1
  <2> QED
    BY <1>13, <2>1, <2>2
<1>15. Closed(next, next)
  BY <1>11, <1>12, <1>14 DEF Closed
<1> QED
  BY <1>8, <1>15, ClosedMeans DEF next, plus

LEMMA CommitSeedAlone == ASSUME Core, Loading, References, Alone, CommitSeed PROVE Alone'
<1>1. PICK states, closing :
        states = {x \in Of(db, "state") : ReplacedState(x)} /\ closing = LabelRows \cup {StateRow}
  OBVIOUS
<1> DEFINE minus == tx[Seed].minus \cup states
           plus == tx[Seed].plus \cup closing
<1>2. /\ tx[Seed].pc = "ingest"
      /\ \/ /\ Taken(db \ minus, plus) \/ Dangling((db \ minus) \cup plus)
            /\ Keeps(Seed, SeedFields \ {"pc"})
         \/ tx'[Seed] = Idle
  <2>1. plus = tx[Seed].plus \cup LabelRows \cup {StateRow}
    BY <1>1
  <2> QED
    BY <1>1, <2>1, CommitSeedEffect DEF Core
<1>3. db \ minus = Remaining \ states
  BY DEF Remaining
<1>4. CASE tx'[Seed] = Idle
  BY <1>4, EndsAlone
<1>5. CASE tx[Seed].raced /\ Keeps(Seed, SeedFields \ {"pc"})
  <2>1. tx'[Seed].raced
    BY <1>5, SeedLeaves DEF Keeps
  <2> QED
    BY <2>1 DEF Alone
<1>6. CASE ~tx[Seed].raced
  <2>1. ~Taken(db \ minus, plus) /\ ~Dangling((db \ minus) \cup plus)
    BY <1>1, <1>2, <1>3, <1>6, CommitsAlone
  <2> QED
    BY <1>2, <1>4, <2>1
<1> QED
  BY <1>2, <1>4, <1>5, <1>6

LEMMA NextAlone ==
  ASSUME SymbolsAgree, Core, Loading, References, Alone, [Next]_vars
  PROVE Alone'
<1>0. Shapes /\ Seed \in Sessions /\ Seed \notin Uploaders
  BY UploadingUnlike DEF Core, Sessions
<1>1. ASSUME NEW u \in Uploaders, Submit(u) PROVE Alone'
  BY <1>1, SameAlone DEF Submit
<1>2. ASSUME NEW u \in Uploaders, Post(u) PROVE Alone'
  <2>1. db' = db /\ tx'[Seed] = tx[Seed]
    BY <1>0, <1>2, PostEffect DEF Others
  <2> QED
    BY <2>1, SameAlone
<1>3. ASSUME NEW u \in Uploaders, CommitUpload(u) PROVE Alone'
  <2>1. (db' = db /\ tx'[Seed] = tx[Seed]) \/ SeedNotices(tx[u].plus)
    BY <1>0, <1>3, CommitUploadEffect
  <2> QED
    BY <2>1, SameAlone, NoticesAlone
<1>4. ASSUME NEW s \in Sessions, Crash(s) \/ (Reuse(s) /\ s # Seed) PROVE Alone'
  <2>1. tx' = [tx EXCEPT ![s] = Idle] /\ db' = db
    BY <1>4 DEF Crash, Reuse
  <2>2. Others(s) /\ tx'[s] = Idle
    BY <1>0, <2>1, EndsShapes
  <2>3. tx'[Seed] = Idle \/ tx'[Seed] = tx[Seed]
    BY <1>0, <2>2 DEF Others
  <2> QED
    BY <2>1, <2>3, SameAlone, EndsAlone
<1>5. ASSUME NEW s \in Sessions, Store(s) \/ AddRows(s), s # Seed PROVE Alone'
  <2>1. db' = db /\ tx'[Seed] = tx[Seed]
    BY <1>0, <1>5, StoreEffect, AddRowsEffect DEF Others
  <2> QED
    BY <2>1, SameAlone
<1>6. CASE Propose
  BY <1>0, <1>6, ProposeEffect, NoticesAlone
<1>7. CASE Reuse(Seed) \/ Store(Seed) \/ AddRows(Seed)
  BY <1>7, ReuseAlone, StoreAlone, AddRowsAlone
<1>8. CASE StartSeed \/ Delete \/ CheckPortfolio \/ PurgeTrades \/ DeleteStatements
  BY <1>8, StartAlone, DeleteAlone, CheckAlone, PurgeAlone, DeleteStatementsAlone
<1>9. CASE CommitSeed
  BY <1>9, CommitSeedAlone
<1>10. CASE SeedFails
  <2>1. tx' = [tx EXCEPT ![Seed] = Idle]
    BY <1>10 DEF SeedFails
  <2> QED
    BY <1>0, <2>1, EndsShapes, EndsAlone
<1>11. CASE UNCHANGED vars
  BY <1>11, SameAlone DEF vars
<1> QED
  BY <1>1, <1>2, <1>3, <1>4, <1>5, <1>6, <1>7, <1>8, <1>9, <1>10, <1>11 DEF Next

\* A seed that fails was raced by another commit, if the documents of the
\* generators and of the users give a symbol to one asset (generate.py 375-416,
\* ingestion.py 349-380).
THEOREM FailsOnlyRaced == SymbolsAgree => (Spec => []SeedFailsOnlyInARace)
<1> SUFFICES ASSUME SymbolsAgree PROVE Spec => []SeedFailsOnlyInARace
  OBVIOUS
<1> DEFINE AInv == Data /\ Form /\ References /\ Alone
<1>1. Init => AInv
  <2> SUFFICES ASSUME Init PROVE Alone
    BY InitData, InitForm, InitReferences
  <2>1. tx[Seed] = Idle
    BY DEF Init, Sessions
  <2> QED
    BY <2>1, IdleStep DEF Alone
<1>2. AInv /\ [Next]_vars => AInv'
  <2> SUFFICES ASSUME AInv, [Next]_vars PROVE AInv'
    OBVIOUS
  <2>1. Core /\ Shapes /\ Loading
    BY DEF Data, Core
  <2>2. Data' /\ Form' /\ References' /\ Alone'
    BY <2>1, NextData, NextForm, NextReferences, NextAlone
  <2> QED
    BY <2>2
<1>3. AInv => SeedFailsOnlyInARace
  BY DEF Alone, SeedFailsOnlyInARace
<1> QED
  BY <1>1, <1>2, <1>3, PTL DEF Spec
===========================================================================
