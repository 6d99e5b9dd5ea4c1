--------------------------- MODULE StatementStore ---------------------------
(***************************************************************************)
(* Statements in PostgreSQL: the upload form and POST /api/statements,     *)
(* the ingestor both use, and the demo seed (app.demo_data.generate),      *)
(* which replaces the generated statements in one transaction.             *)
(*                                                                         *)
(* The database is one set of rows [t, k, r, v]: table, unique key, the    *)
(* <<table, key>> a foreign key refers to, and the values the code         *)
(* selects on.  A session sees the committed rows of the moment it reads   *)
(* (READ COMMITTED) less those it deleted plus those it added; it commits  *)
(* them together or not at all.  Several uploads may be in progress, and   *)
(* one seed.  Files live outside the transaction.                          *)
(***************************************************************************)
EXTENDS Naturals, Sequences, FiniteSets

CONSTANTS Uploaders,      \* users at the upload form
          Seed,           \* the session of the seed command
          Accounts,       \* the accounts the seed creates
          Generated,      \* [ <<dataset, as-of>> -> sequence of documents ]
          Batches,        \* what a user may select: sequences of files
          MaxSeeds,       \* bound: seed commands
          MaxSubmissions, \* bound: submissions of the form, per user
          MaxBytes        \* 10 MB, in the unit of File.size

ASSUME StoreAssumption == /\ Seed \notin Uploaders
                          /\ MaxSeeds \in Nat /\ MaxSubmissions \in Nat

VARIABLES db, files,             \* committed rows; stored files, path -> document
          tx,                    \* open session of every upload and of the seed
          batch, queue, report,  \* per user: selected files, still to post, results
          seeds, submissions     \* commands and submissions left

vars == <<db, files, tx, batch, queue, report, seeds, submissions>>

Sessions == Uploaders \cup {Seed}
None == <<>>
Row(t, k, r, v) == [t |-> t, k |-> k, r |-> r, v |-> v]
Of(rows, table) == {x \in rows : x.t = table}
Has(rows, table, key) == \E x \in rows : x.t = table /\ x.k = key

------------------------------------------------------------------------------
(* The upload form. A file: [name, folded, suffix, magic, size, type, doc]. *)

Unreadable == [id |-> "unreadable"]

(* What the form gets and how it posts it (streamlit_app.py 632-650, 395):  *)
(* a file that begins as a PDF is not empty, and all are posted as PDFs.    *)
Files == UNION {{selected[i] : i \in DOMAIN selected} : selected \in Batches}

ASSUME BatchesAssumption ==
  /\ Batches \subseteq Seq(Files)
  /\ \A f \in Files : f.type = "application/pdf" /\ (f.magic => f.size > 0)

Collectable(f) == f.suffix = ".pdf" /\ f.magic /\ f.size <= MaxBytes

ShadowingCollect(selected) ==
  LET First(i) == \A j \in 1..(i-1) : selected[j].folded # selected[i].folded
      Kept == {i \in 1..Len(selected) : First(i) /\ Collectable(selected[i])}
  IN [n \in 1..Cardinality(Kept) |->
        selected[CHOOSE i \in Kept : Cardinality({j \in Kept : j <= i}) = n]]

Collect(selected) ==
  LET Good == {i \in 1..Len(selected) : Collectable(selected[i])}
      Kept == {i \in Good : \A j \in Good : j < i => selected[j].folded # selected[i].folded}
  IN [n \in 1..Cardinality(Kept) |->
        selected[CHOOSE i \in Kept : Cardinality({j \in Kept : j <= i}) = n]]

(* The API builds its file object without a name: no extension to check.    *)
Valid(f) == f.magic /\ f.size > 0 /\ f.size <= MaxBytes /\ f.type = "application/pdf"

------------------------------------------------------------------------------
(* Documents: [id, format, account, rows, trades, assets].                  *)

Idle == [pc |-> "idle"]
Uploaded == "uploaded"

BrokerageFormat == "SYNTHETIC_BROKERAGE_V1"
Brokerage(doc) == doc.format = BrokerageFormat

(* The generators write one of two datasets at a date: documents of the     *)
(* accounts that the seed creates.  Only brokerage statements have trades.  *)
Documents == UNION {{Generated[ds][i] : i \in DOMAIN Generated[ds]} : ds \in DOMAIN Generated}

ASSUME GeneratedAssumption ==
  /\ \A ds \in DOMAIN Generated :
       /\ ds = <<ds[1], ds[2]>> /\ ds[1] \in {"historical", "current"}
       /\ Generated[ds] \in Seq(Documents)
  /\ \A doc \in Documents : doc.account \in Accounts /\ (Brokerage(doc) \/ doc.trades = {})

RowTable(doc) == IF Brokerage(doc) THEN "lot" ELSE "txn"

StatementRow(doc, dataset) ==
  Row("statement", doc.id, <<"account", doc.account>>, <<dataset, doc.format, doc.version>>)

(* Bank transactions and lots belong to their statement, trades (sales,     *)
(* dividends, purchases) to the portfolio.  The value of a row names the    *)
(* statement that inserted it; the code keeps no such column for trades.    *)
OwnedRows(doc, seen) ==
  {Row(RowTable(doc), k, <<"statement", doc.id>>, <<doc.id>>) :
     k \in {k \in doc.rows : ~Has(seen, RowTable(doc), k)}}
TradeRows(doc, seen) ==
  {Row("trade", k, <<"account", doc.account>>, <<doc.id>>) :
     k \in {k \in doc.trades : ~Has(seen, "trade", k)}}
HoldingRows(doc) ==
  {Row("holding", <<doc.id, a.canonical>>, <<"statement", doc.id>>, <<doc.id>>) : a \in doc.assets}

QuoteProvider(a) == IF a.class = "CRYPTO" THEN "coingecko" ELSE "alpha_vantage"
MappingRows(a) ==
  {Row("mapping", <<p, a.symbol>>, <<"asset", a.canonical>>, <<>>) : p \in {QuoteProvider(a), "alpaca"}}

UpsertAsset(a, seen) ==
  IF Has(seen, "asset", a.canonical) THEN {}
  ELSE {Row("asset", a.canonical, None, <<>>)} \cup MappingRows(a)

DocumentRows(doc, seen) ==
  OwnedRows(doc, seen) \cup
  IF Brokerage(doc)
  THEN TradeRows(doc, seen) \cup HoldingRows(doc) \cup UNION {UpsertAsset(a, seen) : a \in doc.assets}
  ELSE {}

------------------------------------------------------------------------------
(* Sessions.                                                                *)

Visible(s) == (db \ tx[s].minus) \cup tx[s].plus

Taken(rows, plus) == \E x \in plus, y \in rows : x.t = y.t /\ x.k = y.k
Dangling(rows) == \E x \in rows : x.r # None /\ ~Has(rows, x.r[1], x.r[2])
Conflict(s) ==
  \/ Taken(db \ tx[s].minus, tx[s].plus)
  \/ Dangling(Visible(s))

(* Somebody else's commit seen by the seed in progress (read by properties).*)
Noticed(added) ==
  IF tx[Seed].pc = "idle" THEN tx
  ELSE [tx EXCEPT ![Seed].raced = TRUE,
                  ![Seed].late = @ \cup (IF tx[Seed].pc = "purge" THEN added ELSE {})]

Init ==
  /\ db = {} /\ files = <<>>
  /\ tx = [s \in Sessions |-> Idle]
  /\ batch = [u \in Uploaders |-> <<>>]
  /\ queue = [u \in Uploaders |-> <<>>]
  /\ report = [u \in Uploaders |-> <<>>]
  /\ seeds = MaxSeeds
  /\ submissions = [u \in Uploaders |-> MaxSubmissions]

Submit(u) ==
  /\ queue[u] = <<>> /\ submissions[u] > 0
  /\ \E selected \in Batches :
       /\ batch' = [batch EXCEPT ![u] = selected]
       /\ queue' = [queue EXCEPT ![u] = Collect(selected)]
  /\ report' = [report EXCEPT ![u] = <<>>]
  /\ submissions' = [submissions EXCEPT ![u] = @ - 1]
  /\ UNCHANGED <<db, files, tx, seeds>>

Answer(u, status) ==
  /\ report' = [report EXCEPT ![u] = Append(@, <<Head(queue[u]).folded, status>>)]
  /\ queue' = [queue EXCEPT ![u] = Tail(@)]

(* Validation and parsing; a refused file is answered 400.                  *)
Post(u) ==
  /\ queue[u] # <<>> /\ tx[u].pc = "idle"
  /\ LET f == Head(queue[u]) IN
       IF Valid(f) /\ f.doc # Unreadable
       THEN /\ tx' = [tx EXCEPT ![u] = [pc |-> "ingest", todo |-> <<f.doc>>, path |-> f.name,
                                        dataset |-> Uploaded, minus |-> {}, plus |-> {}]]
            /\ UNCHANGED <<report, queue>>
       ELSE Answer(u, "failed") /\ UNCHANGED tx
  /\ UNCHANGED <<db, files, batch, seeds, submissions>>

Path(s, doc) == IF s = Seed THEN doc.id ELSE tx[s].path
Keep(path, doc) == [p \in DOMAIN files \cup {path} |-> IF p = path THEN doc ELSE files[p]]

(* An external id that is there already: nothing is stored, "duplicate".    *)
Reuse(s) ==
  /\ tx[s].pc = "ingest" /\ tx[s].todo # <<>>
  /\ Has(Visible(s), "statement", Head(tx[s].todo).id)
  /\ IF s = Seed
     THEN tx' = [tx EXCEPT ![s].todo = Tail(@)] /\ UNCHANGED <<report, queue>>
     ELSE tx' = [tx EXCEPT ![s] = Idle] /\ Answer(s, "duplicate")
  /\ UNCHANGED <<db, files, batch, seeds, submissions>>

Store(s) ==
  /\ tx[s].pc = "ingest" /\ tx[s].todo # <<>>
  /\ LET doc == Head(tx[s].todo) IN
       /\ ~Has(Visible(s), "statement", doc.id)
       /\ files' = Keep(Path(s, doc), doc)
       /\ tx' = [tx EXCEPT ![s].pc = "rows", ![s].plus = @ \cup {StatementRow(doc, tx[s].dataset)}]
  /\ UNCHANGED <<db, batch, queue, report, seeds, submissions>>

(* Every row is looked up by its external id and skipped when it is there.  *)
AddRows(s) ==
  /\ tx[s].pc = "rows"
  /\ tx' = [tx EXCEPT ![s].plus = @ \cup DocumentRows(Head(tx[s].todo), Visible(s)),
                      ![s].todo = Tail(@), ![s].pc = "ingest"]
  /\ UNCHANGED <<db, files, batch, queue, report, seeds, submissions>>

CommitUpload(u) ==
  /\ u \in Uploaders /\ tx[u].pc = "ingest" /\ tx[u].todo = <<>>
  /\ IF Conflict(u)
     THEN db' = db /\ Answer(u, "failed") /\ tx' = [tx EXCEPT ![u] = Idle]
     ELSE db' = Visible(u) /\ Answer(u, "ingested")
          /\ tx' = [Noticed(tx[u].plus) EXCEPT ![u] = Idle]
  /\ UNCHANGED <<files, batch, seeds, submissions>>

(* The analysis adds candidates; one on a row the seed has deleted waits.   *)
Propose ==
  \E lot \in Of(db, "lot") :
    /\ ~Has(db, "candidate", lot.k)
    /\ tx[Seed].pc # "idle" => lot \notin tx[Seed].minus
    /\ LET c == Row("candidate", lot.k, <<"lot", lot.k>>, <<>>) IN
         db' = db \cup {c} /\ tx' = Noticed({c})
    /\ UNCHANGED <<files, batch, queue, report, seeds, submissions>>

------------------------------------------------------------------------------
(* The seed: reference rows, the replacement, the documents, labels, state. *)

ReferenceRows ==
  UNION {{Row("account", a, None, <<>>), Row("profile", a, <<"account", a>>, <<>>),
          Row("manifest", a, <<"account", a>>, <<>>)} : a \in Accounts}

Replaceable(rows) == {x \in Of(rows, "statement") : x.v[1] # Uploaded}
Belonging(rows, table, statements) ==
  {x \in Of(rows, table) : \E st \in statements : x.r = <<"statement", st.k>>}
Referring(rows, table, parents) ==
  {x \in Of(rows, table) : \E y \in parents : x.r = <<y.t, y.k>>}

StartSeed ==
  /\ tx[Seed].pc = "idle" /\ seeds > 0
  /\ seeds' = seeds - 1
  /\ \E ds \in DOMAIN Generated :
       LET old == Replaceable(db)
           lots == Belonging(db, "lot", old)
           portfolios == {x.r[2] : x \in {st \in old : st.v[2] = BrokerageFormat}}
       IN tx' = [tx EXCEPT ![Seed] =
            [pc |-> IF old = {} THEN "ingest" ELSE "delete",
             dataset |-> ds[1], asOf |-> ds[2], todo |-> Generated[ds],
             plus |-> {x \in ReferenceRows : ~Has(db, x.t, x.k)}, minus |-> {},
             old |-> old, candidates |-> Referring(db, "candidate", lots),
             portfolios |-> portfolios, raced |-> FALSE, late |-> {}]]
  /\ UNCHANGED <<db, files, batch, queue, report, submissions>>

ForgetfulDeletedRows(rows, old, candidates) ==
  LET owned == Belonging(rows, "lot", old) \cup Belonging(rows, "txn", old)
  IN owned \cup candidates \cup Belonging(rows, "holding", old)

(* Candidates (with their evaluations, preparations, orders and conflict    *)
(* identities) by the ids collected, labels and scores by transaction.      *)
DeletedRows(rows, old, candidates) ==
  LET owned == Belonging(rows, "lot", old) \cup Belonging(rows, "txn", old)
  IN owned \cup candidates \cup Belonging(rows, "holding", old) \cup Referring(rows, "label", owned)

Delete ==
  /\ tx[Seed].pc = "delete"
  /\ LET gone == DeletedRows(db, tx[Seed].old, tx[Seed].candidates) IN
       tx' = IF Dangling(db \ gone) THEN [tx EXCEPT ![Seed].pc = "failed"]
             ELSE [tx EXCEPT ![Seed].pc = "portfolios", ![Seed].minus = gone]
  /\ UNCHANGED <<db, files, batch, queue, report, seeds, submissions>>

NothingRemains(p, old) == FALSE
AnyRemains(p, old) == \E st \in Of(db, "statement") : st.v[1] = Uploaded /\ st \notin old

UploadRemains(p, old) ==
  \E st \in Of(db, "statement") : /\ st.r = <<"account", p>> /\ st.v[2] = BrokerageFormat
                                  /\ st.v[1] = Uploaded /\ st \notin old

(* The trades of a portfolio without an uploaded brokerage statement.       *)
CheckPortfolio ==
  /\ tx[Seed].pc = "portfolios" /\ tx[Seed].portfolios # {}
  /\ LET p == CHOOSE p \in tx[Seed].portfolios : TRUE IN
       tx' = IF UploadRemains(p, tx[Seed].old)
             THEN [tx EXCEPT ![Seed].portfolios = @ \ {p}]
             ELSE [tx EXCEPT ![Seed].pc = "purge"]
  /\ UNCHANGED <<db, files, batch, queue, report, seeds, submissions>>

PurgeTrades ==
  /\ tx[Seed].pc = "purge"
  /\ LET p == CHOOSE p \in tx[Seed].portfolios : TRUE IN
       tx' = [tx EXCEPT ![Seed].pc = "portfolios", ![Seed].portfolios = @ \ {p},
                        ![Seed].minus = @ \cup {x \in Of(db, "trade") : x.r = <<"account", p>>}]
  /\ UNCHANGED <<db, files, batch, queue, report, seeds, submissions>>

DeleteStatements ==
  /\ tx[Seed].pc = "portfolios" /\ tx[Seed].portfolios = {}
  /\ tx' = [tx EXCEPT ![Seed].pc = "ingest", ![Seed].minus = @ \cup tx[Seed].old]
  /\ UNCHANGED <<db, files, batch, queue, report, seeds, submissions>>

Labelled == {x \in Of(Visible(Seed), "txn") : ~Has(Visible(Seed), "label", x.k)}
LabelRows == {Row("label", x.k, <<"txn", x.k>>, <<>>) : x \in Labelled}

(* The other dataset's state goes, this one's is set to the new date.       *)
StateRow == Row("state", tx[Seed].dataset, None, <<tx[Seed].asOf>>)

OwnState(x) == x.k = tx[Seed].dataset

(* One of the two is updated, the other deleted.                            *)
ReplacedState(x) == x.k \in {"historical", "current"}

Finished ==
  [tx EXCEPT ![Seed].minus = @ \cup {x \in Of(db, "state") : ReplacedState(x)},
             ![Seed].plus = @ \cup LabelRows \cup {StateRow}]

CommitSeed ==
  /\ tx[Seed].pc = "ingest" /\ tx[Seed].todo = <<>>
  /\ LET done == Finished[Seed]
         next == (db \ done.minus) \cup done.plus
     IN IF Taken(db \ done.minus, done.plus) \/ Dangling(next)
        THEN db' = db /\ tx' = [tx EXCEPT ![Seed].pc = "failed"]
        ELSE db' = next /\ tx' = [tx EXCEPT ![Seed] = Idle]
  /\ UNCHANGED <<files, batch, queue, report, seeds, submissions>>

SeedFails ==
  /\ tx[Seed].pc = "failed"
  /\ tx' = [tx EXCEPT ![Seed] = Idle]
  /\ UNCHANGED <<db, files, batch, queue, report, seeds, submissions>>

(* The process stops: the transaction is rolled back, the files remain.     *)
Crash(s) ==
  /\ tx[s].pc # "idle"
  /\ tx' = [tx EXCEPT ![s] = Idle]
  /\ IF s = Seed THEN UNCHANGED <<report, queue>> ELSE Answer(s, "failed")
  /\ UNCHANGED <<db, files, batch, seeds, submissions>>

Next ==
  \/ \E u \in Uploaders : Submit(u) \/ Post(u) \/ CommitUpload(u)
  \/ \E s \in Sessions : Reuse(s) \/ Store(s) \/ AddRows(s) \/ Crash(s)
  \/ Propose
  \/ StartSeed \/ Delete \/ CheckPortfolio \/ PurgeTrades \/ DeleteStatements
  \/ CommitSeed \/ SeedFails

Spec == Init /\ [][Next]_vars

------------------------------------------------------------------------------
(* Properties.                                                              *)

Rooted(x) == x.r = None \/ Has(db, x.r[1], x.r[2])

(* The rows of the database keep their shape and refer to rows that exist.  *)
TypeOK ==
  /\ \A x \in db : DOMAIN x = {"t", "k", "r", "v"} /\ Rooted(x)
  /\ \A x \in db, y \in db : x.t = y.t /\ x.k = y.k => x = y
  /\ \A s \in Sessions : tx[s].pc \in {"idle", "ingest", "rows", "delete", "portfolios", "purge", "failed"}
  /\ seeds \in 0..MaxSeeds /\ submissions \in [Uploaders -> 0..MaxSubmissions]

InsertedByUpload(x, rows) ==
  /\ x.t \in {"txn", "lot", "trade", "holding"}
  /\ \E st \in Of(rows, "statement") : st.k = x.v[1] /\ st.v[1] = Uploaded

(* A seed removes nothing that an uploaded statement inserted, nor the      *)
(* statement: the trades, which the code deletes by portfolio, included,    *)
(* unless the upload committed between the check of that portfolio and its  *)
(* deletes (replace.py 92-106).                                             *)
SeedSparesUploads ==
  [][\A x \in db \ db' :
       /\ ~(x.t = "statement" /\ x.v[1] = Uploaded)
       /\ InsertedByUpload(x, db) => x.t = "trade" /\ x \in tx[Seed].late]_vars

(* A seed that fails was raced by another commit: run alone, its deletes    *)
(* and inserts break no foreign key and no unique key, whatever was         *)
(* uploaded, seeded and proposed before it (generate.py 375-416).           *)
SeedFailsOnlyInARace == tx[Seed].pc = "failed" => tx[Seed].raced

Stored(doc) ==
  /\ \A k \in doc.rows : Has(db, RowTable(doc), k)
  /\ \A k \in doc.trades : Has(db, "trade", k)

Version(st, doc) == st.k = doc.id /\ st.v[3] = doc.version

(* The generated statements in the database are one dataset, the one whose  *)
(* date DemoDatasetState records and the analysis uses as its clock; each   *)
(* of its documents is there, and complete when the seed stored it          *)
(* (generate.py 375-416).                                                   *)
SeedIsWhole ==
  LET State == Of(db, "state") IN
  /\ Cardinality(State) <= 1
  /\ State = {} => Replaceable(db) = {}
  /\ \A x \in State :
       LET docs == {Generated[<<x.k, x.v[1]>>][i] : i \in DOMAIN Generated[<<x.k, x.v[1]>>]} IN
       /\ \A doc \in docs : Has(db, "statement", doc.id)
       /\ \A st \in Replaceable(db) : \E doc \in docs : Version(st, doc) /\ Stored(doc)

(* A trade inserted by a statement that is gone is there only because an    *)
(* upload protects its portfolio: a replaced dataset leaves no sale,        *)
(* purchase or dividend with its old dates behind, which the next one would *)
(* skip as known, for the wash-sale checks to read (replace.py 92-106).     *)
NoTradeLeftBehind ==
  \A x \in Of(db, "trade") :
    \/ Has(db, "statement", x.v[1])
    \/ \E st \in Of(db, "statement") : st.r = x.r /\ st.v[1] = Uploaded /\ st.v[2] = BrokerageFormat

(* Of the files selected under one name, the first acceptable one is posted *)
(* or answered, once: a rejected file does not shadow a good one            *)
(* (statement_upload.py 15-31), and nothing the form keeps is refused by    *)
(* the validation of the API but an unreadable document (statements.py 22). *)
NamesOf(u) == [i \in DOMAIN report[u] |-> report[u][i][1]] \o [i \in DOMAIN queue[u] |-> queue[u][i].folded]
EveryNameOnce ==
  \A u \in Uploaders :
    LET names == NamesOf(u)
        good == {f \in {batch[u][i] : i \in DOMAIN batch[u]} : Collectable(f)}
    IN /\ {names[i] : i \in DOMAIN names} = {f.folded : f \in good}
       /\ Cardinality(DOMAIN names) = Cardinality({f.folded : f \in good})
       /\ \A i \in DOMAIN queue[u] : Valid(queue[u][i])
==============================================================================
