# Tax-loss harvesting: TLA+ models and proofs

This directory specifies the tax-loss harvesting demo in TLA+, model-checks it
on small instances with TLC and proves theorems about it with TLAPS. The
reference is the code under `src/`; `PROJECT.json` maps every definition to the
lines it stands for.

## 1. The system

A FastAPI service (with a Streamlit page, an agent layer, a WhatsApp webhook and
an MCP server in front of the same services) reads synthetic bank and brokerage
statements into PostgreSQL, looks for tax lots whose sale would realise a useful
loss, ranks them against the user's gains, and lets the user sell a chosen lot
in an Alpaca *paper* account.

| Part | State | Operations | Talks to | What makes it hard |
|---|---|---|---|---|
| Paper execution (`services/paper_execution.py`) | `execution_preparations`, `paper_orders` | prepare, confirm, refresh | gates, broker, clock | reads before awaits, an external order inside a transaction, retries, expiry |
| Gates and ranking (`services/harvesting.py`, `freshness.py`, `quote_freshness.py`, `portfolio.py`) | `harvesting_candidates`, `evaluations` | persist, evaluate, recheck, rank, select | providers, conflicts | what is asked first is judged last; rounding against a target |
| Analysis run (`services/analysis.py`) | `analysis_runs`, `portfolio_analysis_locks` | run, evaluate pending, rank | gates, windows, agents | idempotency keys, a lock per portfolio, failure between portfolios |
| Conflict identities (`services/conflicts.py`) | `candidate_conflict_identities` | upsert, resolve expired | gates | the same fingerprint met by two runs, rows read without a lock |
| Conversations (`services/orchestrator_sessions.py`, `agents/runner.py`) and WhatsApp (`api/whatsapp.py`, `services/whatsapp.py`) | `agent_conversation_sessions`, messages, `demo_sessions` | start, resume, reset, close, append, trim, deliver | agents | one ACTIVE conversation, turns that overlap a reset, redeliveries |
| Rolling windows (`adapters/*window*`) | observations, quote, metadata | put, prune, read, sync | broker, quotes | several writes without one transaction, two stores |
| Statements: generators and seed (`demo_data/`), parsers, ingestion, upload | statements, rows, files, dataset state | generate, print, parse, ingest, replace | storage, FX | a file's way through two formats; a replacement that races uploads and analyses |
| Paper account seeding and sync, queries, statistics, UI, MCP, jobs, deployment | none of their own | scripts, reads, formatting, I/O | | |

What makes each correct, in one line each: a candidate is sold at most once and
the books never say more than the broker did; a lot is not approved over a
purchase or a price nobody looked at; the target is met and never overstepped; a
run is created once per key and releases what it locked; a conflict is counted
once per evaluation and resolving one undoes nothing; a user's conversation
keeps its newest items and every message is answered; a window has no hole; a
statement reads back as it was generated, and a dataset is replaced whole,
without touching what users uploaded.

## 2. Modules

| Module | Models | Extends |
|---|---|---|
| `PaperSale` | abstract promise of the sell workflow: offer, place once, record once | |
| `PaperExecution` | `PaperExecutionService`, its transactions and the broker | |
| `PaperExecutionProofs` | proofs: types, the invariant, the safety theorems, that it implements `PaperSale`, the recorded fills and the lots of sequential use | `PaperExecution` |
| `AnalysisRun`, `AnalysisRunProofs` | the analysis service: runs, portfolio locks, candidates, evaluations; its theorems | |
| `ConflictIdentities`, `ConflictIdentitiesProofs` | `ConflictService` in the transactions of concurrent runs; its theorems | |
| `CandidateGates` | the gates of one evaluation and the world they look at | |
| `LotSelection`, `LotSelectionProofs` | the ranking and selection against the target; its theorems | `DecimalCents` |
| `RollingWindow` | the sync of one asset's window over both stores | |
| `GatesAndWindowProofs` | theorems of the two providers' consumers: the gates and the window | `CandidateGates`, `RollingWindow` |
| `Conversation`, `ConversationProofs` | conversations of a demo session, API requests or WhatsApp deliveries; its theorems | |
| `BankGenerator`, `BrokerageGenerator` | the generators of the synthetic statements | `DecimalCents` |
| `StatementText` | the documents as text: both writers and both parsers | `DecimalCents` |
| `DemoStatements`, `DemoStatementsProofs` | a statement from its generation to its reading; its theorems | the generators and `StatementText` |
| `StatementStore`, `StatementStoreProofs` | upload form, ingestion, demo seed and replacement over the database; its theorems | |
| `DecimalCents` | half-even rounding | |
| `MC...` | the instances for TLC | the module they are named after |

### PaperExecution

*State.* `prep[c]` is the `execution_preparations` row of candidate `c` (its
`candidate_id` is unique) as committed; `orders[r]` the `paper_orders` row that
confirm `r` inserted; `evals[c]` the stored evaluations; `broker[r]` the order
confirm `r` made the broker accept; `position` the account's quantity;
`rowLock[c]` the request whose open transaction has updated the row. A request
has a step `pc`, its arguments `req` (with the instant it read from the clock),
the row it loaded `copy`, the quantity of its snapshot `sellQty` and what it
learnt from the broker `reply`. Tokens and row ids are named by the request that
made them, so they are unique by construction, as `secrets.token_urlsafe` and
`uuid4` are taken to be.

| Code | Actions |
|---|---|
| `prepare` | `PrepareRecheck` (load, gates), `PrepareRead` (reload, existing row, snapshot, validation), `PrepareCommit` (insert or update), `PrepareConflict` (unique `candidate_id`) |
| `confirm` | `ConfirmRead` (row checks), `ConfirmExpire` (EXPIRED is committed before the error), `ConfirmRecheck` (gates, immutable keys, validation), `ConfirmReserve` (flush), `ConfirmSubmit` (broker), `ConfirmCommit` (insert, CONFIRMED, commit), `ConfirmConflict` (unique `client_order_id`) |
| `refresh` | `RefreshRead` (rows), `RefreshAsk` (`get_order`), `RefreshCommit` |
| an exception, a dropped connection | `Refuse`, `Crash`: the transaction rolls back, the broker's state does not |
| environment | `Tick`, `BrokerFill`, `BrokerClose` |

Three mechanisms of the ORM and the database carry the interesting behaviour and
are modelled by what they do. Rows stay as first loaded (identity map); an
UPDATE writes only the columns the request changed (`Merge`), so two updates of
one row mix; and a flush locks the row without showing its values to others
(`rowLock`, `FlushReservation`). An update of a locked row waits.

Gates whose inputs nothing in this workflow changes (tax status, basis, quotes,
wash sales, risk, replacement) are one refusal that may happen at any time
(`Refuse`); `CandidateGates` models them. The position gates and the
previously-executed gate are modelled here. Quantities are small whole numbers.

### AnalysisRun

*State.* A run is named by its idempotency key, which is unique for the user.
`run[k]` is its status in `analysis_runs`; `lock` the ACTIVE rows of
`portfolio_analysis_locks`; `cand[k][l]` the status of the candidate the run
made of lot `l`; `evaluation[k][l]` the candidate's latest evaluation, with
whether the ranking selected it. A request has a step `pc` and a record `job` of
what it was asked and has loaded: the portfolios left, the one at work, the
candidates in hand, what it flushed and did not commit (`draft`), whether a
portfolio failed, the run status it saw, the status a recheck loaded (`was`). The
ORM sends an UPDATE only of a column that changed, so a recheck that approves
what it loaded as approved writes an evaluation and no status, and waits for no
row (`Decided`).

| Code | Actions |
|---|---|
| `run_ml_analysis`, start | `ProposeReuse`, `ProposeTakeOver`, `ProposeNew` (lookup), `ProposeInsert` (unique key), `ProposeStart` (RUNNING) |
| `_propose_portfolio_candidates` | `ProposeLock` (flush of the lock), `ProposePersist` (candidates, commit), `ProposeFail` (an exception, noted and passed over) |
| `run_ml_analysis`, end | `ProposeFinish` (FAILED if a portfolio failed) |
| `run_analysis`, `complete_analysis_via_agents` | `Answer`: the same request goes on to the evaluation |
| `evaluate_pending_candidates` | `EvaluateCall` (target), `EvaluateRead` (status, portfolios), `EvaluateFinish` (COMPLETED) |
| `_evaluate_and_rank_portfolio` | `EvaluatePending`, `EvaluateCheck`, `EvaluateStore`, `EvaluateCommit`; `RankRead`, `RankCommit` (ranks, lock released) |
| `evaluate_candidate`, and `recheck_approved` of the paper workflow | `ReevaluateCall`, `ReevaluateStore` |
| a deadlock, an exception, the end of the process | `BreakDeadlock`, `Crash` |

The gates' verdict is any one, since quotes and positions move between two
evaluations; of the four outcomes the three that exclude a candidate are one
(`REJECTED`), because no transition leaves any of them. What the ranking selects
is any set of the candidates it read (`LotSelection` says which). The anomaly
scores touch no state of the run, and a conflict on their unique index is one of
the exceptions of `Crash`. The repository's data gives each user one brokerage
portfolio; the code loops over any number and is modelled so.

`Exclusive` is the set of keys on whose run two requests never work at the same
time (the callers retry only after the earlier call ended or died); of the other
runs nothing is assumed, and they race beside these. `Kinds` selects who calls.

### ConflictIdentities

*State.* `identity[f]` is the row of fingerprint `f` (lot, whether it was
rejected before or after the wash-sale gate, the end of the window); `evals[r]`
what run `r` has committed about each lot; `today` the day on which processes
start. A run's `job` has the clock of its process, its as-of date, the rows
`resolve_expired` loaded, and the rows and evaluations it has written and not
committed.

*Actions.* `ResolveRead`, `ResolveRow`, `ResolveCommit` (`resolve_expired`:
loaded without a lock, updated row by row, committed before the evaluation);
`Approve`, `Reject`, `Found`, `NotFound`, `Insert`, `InsertConflict` (`upsert`
with its `FOR UPDATE`, and the unique fingerprint), `Commit` (one transaction
for a portfolio); `Start`, `NextDay`, `BreakDeadlock`, `Crash`. A written row
stays locked to the end of its transaction; an UPDATE writes the changed columns
over the row as committed last. A lot's window is the wash-sale one or, of a coin,
its own (`WindowOf`). `supersede` has no caller.

### CandidateGates and LotSelection

`CandidateGates` takes one lot through `evaluate_candidate`: `Fetch` (the
quote), `List` (the broker's answers, the statement whose period ends last),
`Decide` (the gates of `_apply_gates` in their order, the first that fails gives
the code). In between, `Tick`, `Buy` and `Upload` go on. A day has three ticks,
before, in and after its session. `bought` is everything the user bought;
`Listed` what any statement shows, which is all the wash-sale gate can see. What
the database and the providers answer about the lot and its asset is a record of
`Facts`, in the check a sound one and one for each flaw. `WashWindow` and
`CryptoWindow` are two settings: the gate of a coin looks at the second
(`GateWindow`), the coverage of the history at the first, whatever the asset. The calendar's failure,
the market clock, 24-hour assets and as-of dates in the past are modelled;
scores and texts are not.

`LotSelection` starts where every approved lot is known. Each step meets the
best ranked lot: `Skip`, `Take` (capacity by lot and mirrored position, the
needed quantity as a rounded quotient, the loss quantized), `Stop`. Quantities
and amounts are integers in units of 1/`Precision`, so the two roundings are
exact; a loss per share is less than a unit of rounding, as the code's 28 digits
make it, and `PrecisionAssumption` asks only that there is a unit. `Approved` asks for a positive quantity and a loss, which the gates do.

### RollingWindow

One asset's observations, quote and metadata in a store (`backend`), and the
syncs of several analyses: `ReadMeta`, `FetchPrices` (from the saved as-of less the
overlap), `PutObservation` one by one, `GetQuote`, `StoreQuote`, `AdvanceMeta`,
each its own transaction, any of which may `Fail`; `NextDay`; `Expire` (DynamoDB
deletes past the ttl when it likes). The ttl of an observation runs from the clock
of its analysis, between the as-of date and today; that of the metadata from the
as-of date. The provider publishes an observation at
most `Delay` days late, and the model assumes `Delay <= Overlap + 1`: a later
observation would be missed, and nothing in the code would notice.

### Conversation

`status`, `items` (of each conversation), `demo` (whether the sender's demo
session exists), and processes that run one request or one delivery each:
`Lookup`, `Start`, `Existing` (the unique index on ACTIVE conversations and what
follows it), `CloseRead`, `CloseCommit`, `Turn`, `Flush`, `Commit`,
`RetainRead`, `RetainDelete`, `Said`, `FallBack` (the model's turn failed while
it was recorded: the fixed routes run it again), `CreateDemo`, `InsertDemo`,
`Deliver`, `NextMessage`, `Send`, `TimeOut`, `Fail`. An item is its
`created_at`. The signature checks of the webhook, prompts and tools are left
out.

### Statements

`BankGenerator` and `BrokerageGenerator` build specifications: calendar months,
recurring and daily rows, the filler loop one pass a step, three anomalies a
month, the balances row by row; the two books with their rounding and the shift
of their dates. The whole generation is arithmetic on days and cents, the texts
of descriptions are left out. `StatementText` prints a specification as pages of
lines and parses it again: markers, page stamps, headers, sections, columns,
rows, reconciliation, and an outcome that is parsed, refused (`ParseError`) or
crashed (any other exception). A row or an entry carries a `fault` when one of its
values cannot be converted; `Caught` are those that a conversion looks for (no
number, date or currency), the others (a day or a time that does not exist, a word
outside its enumeration, an id, a count, NaN) raise what the caller does not
expect, or pass where nothing looks at them. `DemoStatements` runs generation,
printing, a harm on the way (`Suffer`) and reading.

`StatementStore` has one set of rows `db` with their keys, references and the
values the code selects on, `files` outside the transaction, and sessions with
what they added and deleted. Uploaders: `Submit` (the form's collection of a
batch), `Post` (validation, parsing), `Reuse` (known external id), `Store`,
`AddRows` (each row skipped when it is known), `CommitUpload`. The seed:
`StartSeed`, `Delete`, `CheckPortfolio`, `PurgeTrades`, `DeleteStatements`, the
same ingestion, `CommitSeed` or `SeedFails`. The analysis adds candidates
(`Propose`). `Crash` ends any of them. One seed runs at a time: it is a command
a person runs.

## 3. Runs

| Run | Question | Bounds |
|---|---|---|
| `paper_races` | does anything four requests on one candidate do, with crashes, expiry and partial fills, break the safety of the sale or its refinement of `PaperSale`, or leave a request waiting for ever? | 1 candidate, 4 requests all in flight, 2 ticks, time to live 1, broker returns known orders |
| `paper_sequential` | without concurrency, is a lot sold once? | 2 candidates of one lot, 6 requests one at a time, frozen clock |
| `analysis_races` | what holds of runs, locks and candidates when requests of two runs work at the same time, on one of the runs side by side, portfolios fail and requests die? | 2 keys of one day (one exclusive), 2 portfolios with a lot each, 3 requests (analyses and rechecks), failures and deaths |
| `analysis_liveness` | does every request end, and is the run finished? | 1 key, 1 portfolio with 2 lots, 2 requests (analyses, evaluations, rechecks), no faults |
| `identities` | are identities exact when runs insert, count and resolve them at once, and does resolving undo anything? | 3 runs, 2 lots (one conflict with a window, one without), 2 days, window 0, crashes |
| `gates` | can an approval overlook a purchase or rest on a superseded price? | 3 days, the second without a session; wash-sale window and allowance of a day, crypto window of two; 1 purchase, 2 of 4 statements; 20 sets of facts |
| `selection` | is the target met, with what is owned, largest losses first? | 3 lots of 2 symbols, 3 quantities, 2 bases, 2 prices, every target of two results |
| `windows` | do interleaved and failing syncs leave a hole, or make a quote younger? | 2 sessions, 3 syncs, 4 days; window 2, overlap 1, delay 2, ttl 2; both stores |
| `conversation` | retention, resets and answers under concurrent turns and redeliveries | 2 processes, 3 requests or a batch of 3 messages, retention 2, 1 fault |
| `statements` | does a generated statement read back as it was, and a harmed one not? | 6 as-of dates, 2 users, up to 12 months, both books with 5 and 3 of their lots; every harm on 12 rows of one date |
| `statements_malformed` | is every malformed statement refused with a code? No | as `statements`, one date, a misread closing balance |
| `store` | does a replacement leave one whole dataset and spare uploads? | 2 uploaders with a batch each of 4, 2 seeds of 3 datasets, candidates, crashes |

*Why these bounds.* Four paper requests are the smallest number that holds what
matters at once: a prepare, two confirms of its token and a second prepare; two
prepares of an expired row and the confirms of both tokens. Two ticks with a
time to live of one let a preparation expire, be prepared again and be confirmed
in time or too late; lots of two let an order fill in parts. In
`paper_sequential` the account holds a second lot of the symbol, so that the
position alone would not stop a second sale. Three analysis requests are a run's
proposal or evaluation that dies, its retry, and another run or a recheck beside
them; two lots let evaluators lock rows in opposite orders, two portfolios let a
run die between them. Three requests on one run that is not exclusive are one
that proposes or takes it over, one that decides a candidate and one more that
would still write; the liveness needs the two that meet. A caller that only
proposes leaves what an analysis leaves that dies before it evaluates, and one
that only evaluates is among the `Kinds` of `analysis_liveness` alone, to keep
the other run small: what it does there an analysis does that finds the run's
candidates, except on a run without any, which it completes (section 5); that a
finished run stays so is proved with it too. A broker that rejects a known
client id (`Resubmit`) does less than one that returns the order, so the safety
of `paper_races` covers it. Three runs of `identities` are an inserter, one that
waits for it, and a resolver; with the clocks of two days and a window of no day
an identity is over on the second. The six as-of dates are the historical
fixtures, the default date, days at the start of a month, a Monday early in a
short month, and two dates between which the end of the filler loop is decided.
The harms change, lose, double or exchange pages and rows, cells and headers, or
make a value one that cannot be converted. The twelve rows are, of a bank
statement, the first and last ones, those around the turn of a page and one
between two rows in a foreign currency, where no sum checks the balance; of a
brokerage statement, rows of each of its tables, sales among them.

`CHECK_DEADLOCK` is off where a behaviour really ends: after an outcome of
`statements`, and when requests, syncs and seeds are used up. In the other runs
an action (`Idle`, `Ranked`, `Decided`) stutters when all is done, so that a
request which waits for ever is a deadlock.

*Symmetry* is used for interchangeable requests of `analysis_races`, runs of
`identities` and sessions of `windows`, never with a liveness property.

*Fairness.* `PaperExecution` and `AnalysisRun` (`FairSpec`): weak fairness of
each request's own steps. The event loop resumes a coroutine whose database or
provider call has come back, and those calls have time limits, so they end or
raise. Nothing is assumed of callers, the clock, the broker or crashes. The
database aborts one transaction of a circle of row locks (`BreakDeadlock`), as
PostgreSQL does after its deadlock timeout. `Conversation`: weak fairness of the
processes' steps together, and Meta delivers again what was not accepted;
faults are finitely many. `DemoStatements`: weak fairness of the generator, a
loop of one process; it is written out as a formula over its variables
(`FairSpec`) because evaluating ENABLED of whole months is slow.

Each property of a run has a mutant: a plausible error in one mapped definition
(a fresh id for a row prepared again, a commit in place of a flush, a select
without its lock, an overlap left out, a purge of all portfolios, ...) under
which the run finds the property violated. Some properties are conjunctions of
parts that belong together, such as `CompletedIsDone`, `GeneratedIsConsistent`,
`RetentionHolds` and `EvaluationsCount`; their parts have names and comments of
their own. Type invariants (`TypeOK`) document every module; the ones of
`PaperExecution`, `AnalysisRun` and `RollingWindow` are proved, as are the types
inside the invariants of `ConflictIdentities` and `Conversation`.

## 4. What is proved

Every theorem holds for all values of the constants that the module's named
assumption allows, and for every interleaving, crash and answer the model has.
Where a theorem needs more, its statement says so: `OneAtATime`,
`MaxAge < 4` and `SymbolsAgree` are conditions on the constants that the
instances of the run satisfy, and the code's callers, settings or documents in
the sense given below.

| Module | Theorem | Statement |
|---|---|---|
| `PaperExecutionProofs` | `TypeCorrect` | `Spec => []TypeOK` |
| | `SoldAtMostOnce` | `Spec => []OneSalePerCandidate` |
| | `RecordsAreReal` | `Spec => []RecordedSaleIsReal` |
| | `ConfirmedIsRecorded` | `Spec => []NoConfirmationWithoutOrder` |
| | `SalesHaveConsent` | `Spec => []SaleHasConsent` |
| | `Refinement` | `Spec => SaleSpec` |
| | `FillsAreReal` | `Spec => []FillNotOverstated` |
| | `LotsSoldOnce` | `OneAtATime => (Spec => []LotSoldOnce)` |
| `AnalysisRunProofs` | `TypeCorrect` | `Spec => []TypeOK` |
| | `LocksExclude` | `Spec => []LockIsExclusive` |
| | `WorkFollowsStart` | `Spec => []WorkIsStarted` |
| | `DecisionsExplained` | `Spec => []DecisionIsExplained` |
| | `PendingStaysLocked` | `Spec => []PendingIsLocked` (of the runs in `Exclusive`) |
| | `CompletedStaysDone` | `Spec => []CompletedIsDone` (of the runs in `Exclusive`) |
| | `FinishedRunsSettle` | `Spec => RunSettles` |
| | `RejectionsSettle` | `Spec => RejectionSettles` |
| | `OneRunAtATime` | `Spec => []OneRunDecides` (of the runs in `Exclusive`) |
| `ConflictIdentitiesProofs` | `Counted` | `Spec => []EvaluationsCount` |
| | `NothingIsForgotten` | `Spec => HistoryIsKept` |
| | `ResolvingIsSafe` | `Spec => ResolvingUndoesNothing` |
| `GatesAndWindowProofs` | `NothingIsHidden` | `Spec => []NoHiddenPurchase` |
| | `PriceStaysCurrent` | `MaxAge < 4 => (Spec => []PriceIsCurrent)` |
| | `WindowTypes` | `WindowSpec => []WindowTypeOK` |
| | `WindowIsComplete` | `WindowSpec => []WindowComplete` |
| | `FreshIsAnswered` | `WindowSpec => []FreshMeansAnswered` |
| `LotSelectionProofs` | `SelectionIsOwned` | `Spec => []SelectedIsOwned` |
| | `TargetMet` | `Spec => []TargetIsMet` |
| | `LargestSoldFirst` | `Spec => []LargestFirst` |
| `ConversationProofs` | `FreshAfterReset` | `Spec => []ResetIsFresh` |
| | `DenialsExplained` | `Spec => []DeniedOnlyByAClose` |
| | `RetentionKept` | `Spec => []RetentionHolds` |
| `StatementStoreProofs` | `UploadsSpared` | `Spec => SeedSparesUploads` |
| | `NothingLeftBehind` | `Spec => []NoTradeLeftBehind` |
| | `DatasetIsWhole` | `Spec => []SeedIsWhole` |
| | `NamesOnce` | `Spec => []EveryNameOnce` |
| | `FailsOnlyRaced` | `SymbolsAgree => (Spec => []SeedFailsOnlyInARace)` |
| `DemoStatementsProofs` | `GeneratedIsConsistentAlways` | `Spec => []GeneratedIsConsistent` |
| | `RoundTripAlways` | `Spec => []RoundTrip` |
| | `MalformedAlways` | `Spec => []MalformedIsRefused` |

*PaperExecution.* None of the properties is inductive: that a second submission
finds the first order depends on what the submitting request loaded long before.
`IInv` adds what carries it. The id of a preparation row never changes once it
exists (`RowsStay`); every request past its read holds that id (`HoldInv`);
every broker order and every recorded order of the candidate carries it
(`BrokerInv`, `OrderInv`), and ids tell candidates apart (`RowInv`). So the
client order id of two submissions of a candidate is the same, the broker knows
the second one, and the unique index refuses the second row. Consent is kept the
same way. The proof of a step first shows what no step undoes (`Stays`), from
which the invariants of everything that did not move follow by the `...Kept`
lemmas; what remains is the request that moved. `IInv`, and the
invariants of fills and lots below, were checked by TLC on the instances of
`paper_races` and `paper_sequential` before they were proved.

*Fills and lots.* A recorded fill was an answer of the broker, and the broker's
own count only grows up to the quantity it was asked for: `QInv` carries the
quantities from the snapshot through the row and the order, `FInv` says that a
recorded fill, and an answer a request still holds, is at most the broker's
present one. That a lot is sold once is false in general (section 5), and
`OneAtATime` names what makes it true: no two requests in flight, no crash
between the broker's answer and the commit, and a broker that reports no order
as PENDING_CANCEL, a status that is none of the four the gate looks at. `SInv`
then says that every open or filled order of the broker is recorded with a status
the gate sees, so a second confirm of the lot is refused. TLC finds `LotSoldOnce`
violated when any of the three is dropped.

*AnalysisRun*, first of all runs, exclusive or not, and with faults. `CallFramed` and
`StepFramed` show that an action writes no other request's record and keeps it
typed; `Writes` lists the actions that change a row. `LockInv` strengthens the
exclusive lock by what a flush that is not committed yet contributes; `WorkInv`
strengthens the start by what requests hold. `DecisionIsExplained` needs to know
what a recheck loaded (`RecheckInv`: a decided status, of a candidate that has an
evaluation), since it may leave the status as it is. `RunSettles` and
`RejectionSettles` are action properties of all runs: they name the
requests whose earlier view of a run or candidate lets them still write
(`AtWork`, `Deciding`), and say that after these nobody does. Their proofs go
through every action that writes a run or a candidate; what a recheck writes
over a rejection is excluded because it loaded something else.

On the runs of `Exclusive` (callers that retry only after the earlier call ended
or died) `AloneInv` adds that one request at a time has loaded anything of the
run, whatever races on the others; so what it holds is what is stored and its
writes are based on the present status. The lemma `LocksDecide` and
`OneRunAtATime` add what the exclusive lock and the one that outlives its holder
are for together: pending candidates of a portfolio belong to one such run of
the period, so one run decides them. That a run is in `Exclusive` is an
assumption on the callers and not guaranteed by the code: a chat gives all
analyses of a user the same key (`runner.py:137`). Of a run that is not,
`PendingIsLocked` and `CompletedIsDone` do not hold.

*ConflictIdentities.* The count of a row and the evaluations that name it change
in one commit, but between the write and the commit other runs insert, count and
resolve. The invariant says what an open transaction holds: a row it wrote is
written by no other (`WrittenByOne`), has a count one above the committed row
for exactly the lot whose evaluation it made (`Evaluating`), and a resolver has
changed nothing but the status of rows that exist and are over (`Resolving`).
`CommitAdds` shows that a commit adds one element to the rejections of each row
it wrote and none elsewhere, and the finite-set theorems turn that into the
count. `ResolvingUndoesNothing` is about the rows `resolve_expired` loaded and
writes back later: since `Resolving` compares with the row as committed last, not
with the one that was loaded, a resolution takes back nothing; it may well
resolve a conflict that was met again in between, whose window is over too.

*RollingWindow.* The invariant describes each sync by what it has still to
store; the metadata advance only when nothing is left, and the overlap covers
what was not published at the saved as-of.

*CandidateGates.* An approval has passed the coverage gate, so the wash-sale
window before the as-of date lies within one statement's period, whose purchases
are among the rows the gate of the asset read as far as its own window reaches:
`NoHiddenPurchase` is about what the two windows share (`CoveredWindow`), for any
two. The price of an approval is current when the
freshness limit is shorter than four ticks, the time from before one session to
the middle of the next: the limit of the code is fifteen minutes by default. With
a limit of days a price of the last session would pass for one of the next.

*LotSelection.* Every approved lot has a positive loss per share, and the
rounded quotient of what is left and that loss exceeds no quantity whose product
does (`RoundedQuotient`). The invariant says how far the target is met by the
lots taken, as sums over finite sets, and that every lot passed over is unusable
or was met when nothing was left. `Sum` is a recursive function on sets; its
equations (`SumAdds`, `SumStep`, ...) are proved by smallest counterexample:
a family of subsets of a finite set has a minimal member (`SmallestSet`, from the
library's well-founded ordering of finite sets), and removing an element from it
gives a smaller one. No induction theorem with an operator parameter is needed.

*Conversation.* `ConvInv` says, for each step of a request, which conversations
may be ACTIVE beside those a reset knew, and that an empty second read follows a
close. For the retention, `KeepInv` says that what a conversation holds besides
its newest items is older than all of these, that these are then as many as the
limit, that rows not yet committed are held by nobody, and that rows about to be
deleted are none of the newest; `BoundInv` that without the rows about to be
deleted a conversation is within the limit, or somebody has still to read it.
That late commits with earlier `created_at` do no harm is `NewestOfAll`; how many
rows the query for the oldest returns is `FirstCardinality`, again by smallest
counterexample. Both invariants were checked by TLC on the instance of the run
first. The bound holds while no step failed; the rest, and that a retention never
takes one of the newest, holds through failures and redeliveries.

*StatementStore.* `Core` follows the seed through its transaction: what it deletes
is what it found replaceable and what hangs on that (`Marked`), the trades of a
statement being replaced are deleted, or their portfolio is still to be looked
at, or an upload protects it (`Settled`), and a trade that an upload commits
between the check and the purge is in `late`. From that follow what a step may
remove (`UploadsSpared`) and what no replacement leaves (`NothingLeftBehind`).
`Data` adds which documents the stored statements come from: outside a seed the
generated rows are the dataset that the state names (`OneDataset`), inside one
every document is ingested with its rows or still to be (`Loading`); a row
skipped because it is known is one the transaction sees, and the unique keys
refuse a commit that would see another. `Form` says that the answers and the
files left to post, joined, are the files kept, in order; that each name is kept
once is arithmetic on ranks (`EveryRank`, by smallest counterexample). Two
assumptions name what the theorems need of the data: `GeneratedAssumption`
(finite lists of documents of seeded accounts, and only brokerage statements with
trades) and `BatchesAssumption` (the uploader posts PDFs, and a file that begins
as one is not empty). TLC evaluates both in `store`, where it also checked the
invariants first.

That a seed fails only in a race needs all foreign keys: `References` says that
every row of the database refers to one that is there, and what the rows in
progress refer to. While nothing else commits the seed sees a database that does
not change, and `Alone` says of each of its steps that what remains after the
deletes is closed under the references (`DeleteClosed`, `StatementsClosed`: the
order of the deletes), that what it adds refers to rows it sees, and that no key
it adds is one that remains (`DocumentRowsFree`). The mappings are why
`SymbolsAgree` is needed: they are unique by provider and symbol, and
`_upsert_asset` looks an asset up by its canonical id alone.

*DemoStatements.* `GeneratedIsConsistent` says of finished statements what the
generator establishes row by row, so `GeneratedInv` describes the month in work
at each stage: its rows are posted within the period from `Regular` on, the
filler loop and the anomalies keep that, the sort permutes them, and the balances
follow row by row from the opening (`MonthInWork`); the statements made so far
are in order and continue each other (`Chain`), and the loop over more months
stops only with enough rows or at a year (`EnoughWhenDone`). TLC checked
`GeneratedInv` on the instance of the run before it was proved. Most of the work is
arithmetic that no step shows. The month of a day exists and is unique
(`MonthOfDay`, from the lengths of months); the periods of the code, historical
or counted back over the turn of a year, are consecutive (`HistoricalPeriods`,
`CurrentPeriods`); a concatenation of days contains nothing but their rows
(`FlattenSeq`); the sort, stated by the place of each row, is a permutation in
order (`SortedRows`); the last purchase of a symbol is the one whose date the
code's loop keeps (`FoldLast`). Induction over sequences is by sets: a property
is the set of naturals that have it, a first-order object that needs no operator
parameter (`SetInduction`). Two assumptions name what is asked of the data:
`GeneratorAssumption` (as-of dates from December of the year 1 on, since the code
asks the calendar for the year before) and `BookAssumption` (records of the right
shape, income and purchases in the year up to the historical day, a purchase for
each reinvested dividend). TLC evaluates both on the books of the code.

`RoundTrip` joins the generators to the parsers, and its argument has two halves.
What a parser needs of a specification is carried through the generator: each
row's balance differs from the one before by its signed amount, the first from
the opening, the ids are as distinct as the numbers the sort is strict on
(`LedgersBalance`), and the records of a book print without loss (`LotIsPrinted`,
`SaleIsReconciled`). The other half is about lines. A printed file carries its
content in order between page furniture (`Carried`, `PaginatePrints`), so
filtering the furniture out returns the content (`KeptIsContent`), the first
section marker of a name after the format line is where its table starts
(`SectionLies`, `NextTable`), the rows up to the next marker are the records that
were printed (`TableRead`), a header entry is found once (`HeaderRead`), and the
page number of a row's source is a page that shows it. `BankReads` and
`BrokerageReads` put these together, and `FilesAre` says that the file, the
specification and the outcome belong to each other. The kinds of harm are those
of `HarmsAssumption`.

`MalformedIsRefused` is about the same files once they have suffered. That no
exception escapes but for the two cases is a fact about lines: a line is `Sound`
if its kind determines its fields, its fault is one that a conversion looks for,
and its count of rows, if it is that entry, is not zero; a file of sound lines,
whatever their order and however many are lost, doubled or misread, is parsed,
refused, or crashes on its closing balance (`CrashesByClosing`). The writers print
sound lines (`BankFileIs`, `BookFileIs`), and every harm but the values of
`Uncaught` keeps them sound (`HarmedIsSound`). `HarmedFiles` is what
`MalformedInv` adds to the invariant of `RoundTrip`. That the code does raise
there is not a theorem but what the run `statements_malformed` shows.

Model-checked only: that a harmed file which is read at all is read as it was
written (`ReadAsWritten`: not a theorem for every book, as a lost sale whose result
is zero changes no sum that is compared); and liveness
(`RequestsEnd`, `WorkEnds`, `EveryMessageAnswered`, `GenerationEnds`), which the
prover cannot reach, as it cannot ENABLED.

## 5. Where the code and its documentation disagree, or may surprise

The models do what the code does, so their properties hold with these included
or exclude them by name. Of the sale:

- A part-filled, cancelled order does not count as an execution:
  `_previously_executed` (`harvesting.py:612`) looks at four statuses, and the
  comment above the call speaks of *any filled paper order for this lot*.
- Two candidates of one lot that are confirmed together are both sold: the gate
  (`harvesting.py:603`) reads committed orders and nothing locks the lot until
  the commit. `LotSoldOnce` is checked one request at a time for that reason.
- The recheck drops the selected quantity (`paper_execution.py:309`): it stores
  an evaluation without `selected_quantity`, prepare reads the latest one, and
  the whole lot is offered.
- A token can end up bound to another demo session (`paper_execution.py:138`):
  two concurrent prepares of an expired row write their changed columns over
  each other.
- `expires_at` of a demo session is stored and never read.

Of the analysis and the gates:

- A duplicate key can fail the run it joins (`analysis.py:133`): while the
  creator has no candidates yet, a second request takes the run over, meets the
  run's own lock and marks the run FAILED; its lock stays.
- A failed portfolio takes the others with it (`analysis.py:242`): the exception
  is caught per portfolio, but a FAILED run is never evaluated.
- Requests that work on one run at the same time break three things. The ranking
  can write on a rejection that a recheck stored meanwhile (`analysis.py:470`,
  `analysis.py:500`), where `REQUIREMENTS_MATRIX.md:61` says *never ranked*. A
  rejection can become an approval: of two evaluators that loaded an undecided
  candidate the second checks the transition against what it loaded
  (`harvesting.py:230`), though `ALLOWED_TRANSITIONS` has none out of REJECTED.
  And a run can be completed, over FAILED or without candidates that were
  committed meanwhile (`analysis.py:307`), so `CompletedIsDone` speaks of the
  runs in `Exclusive` only. What does hold of such requests is in `RunSettles`,
  `RejectionSettles` and `DecisionIsExplained`. A rejected candidate can also
  have an approving latest evaluation: a recheck that loaded it as approved and
  approves it again writes no status (`harvesting.py:256`).
- The 20-day allowance for demo statements has no effect on approvals: coverage
  needs a statement that reaches the as-of date anyway.
- The coverage gate assumes that a statement is complete for its period, and asks
  for the wash-sale window also where the asset is a coin
  (`harvesting.py:425-430`): with a longer `crypto_repurchase_window_days`
  (`harvesting.py:502`; by default both are 30), a purchase of that coin on an
  earlier day that no statement shows is overlooked. `NoHiddenPurchase` leaves
  those days out.
- Each lot is weighed against the portfolio as it is: two sales within the risk
  profile may together breach it, and two lots of one symbol each get the whole
  mirrored position.
- `rank` counts skipped lots, so ranks have gaps; one branch of the selection
  (`Exact` from `Capped`) is unreachable, which `TakenIsOwned` shows.
- The window is part of a conflict's fingerprint: a conflict that persists has a
  new identity on the next as-of date, one without a window is never resolved,
  and `last_seen_at` may go back when processes have different clocks.

Of the statements, windows and conversations:

- The filler loop of the bank generator (`bank_generator.py:218`) has no end for
  a period of one or two days without a day to post on, such as one that ends on
  2026-08-01. `GenerationEnds` states exactly when.
- The matrix promises stable codes for malformed statements. A closing balance
  that differs raises NameError (`bank.py:157`): run `statements_malformed`. So
  do, with ValueError or decimal's own exception, the values no conversion looks
  for: an ISO-shaped day that does not exist (`common.py:91`), a time
  (`bank.py:107`), a direction, type or other word (`bank.py:102`, `bank.py:144`),
  the number of transactions (`bank.py:86`), the ids (`bank.py:163`) and NaN among
  amounts and balances (`bank.py:100`). `MalformedIsRefused` says that there are
  no others.
- The tables of holdings, lots, dividends and purchases of a brokerage statement
  have no count and no sum: a row of theirs that is lost, doubled, exchanged or
  misread, even as NaN, is accepted. `ReadAsWritten` is about bank statements, and
  the sales and the realized summary of brokerage ones (`Checkable`).
- The balance of a row in a foreign currency is compared only by whether it rises
  or falls (`bank.py:118`), so one that is misread before another such row can be
  accepted. `ReadAsWritten` leaves these out (`BalanceChecked`).
- Bills are posted on fixed days, so a period of fewer than eight days has rows
  after its end; `DatedInPeriod` leaves such periods out.
- An upload that commits while the seed is between its check of a portfolio and
  the purge (`replace.py:94`) loses its trades; `SeedSparesUploads` excludes
  that case.
- Two documents that give one symbol different canonical ids (`ETF:SPY` and
  `EQUITY:SPY`, say) cannot both be stored: the asset is looked up by its
  canonical id (`ingestion.py:336`) and the mapping is unique by symbol, so the
  second one fails, be it an upload or the whole seed. `SymbolsAgree` excludes it.
- A repeated delivery of a WhatsApp batch answers the earlier messages again,
  and `runner.py:137` gives every analysis a user asks for in a chat the same
  key (`orch-{user_id}`).
- An observation published later than the overlap allows is never fetched, and
  `price_risk_from_window` has no caller.

## 6. Not modelled, and what is left

Prompts, tool schemas, statistics, anomaly scores, formatting, layout,
deployment, migrations and the reads of `QueryService` and the MCP server keep
no state that another part decides on. The text extraction of a PDF and the
regular expressions of single cells are abstract: a document is its lines of
cells. Rates of Frankfurter are constants. `supersede`, `pop_item`,
`clear_session` and the queries over observations have no caller. Tokens and ids
are taken to be unique. Two remarks on the environment: the Alpaca adapter
rejects a client id it knows and the test double returns the order, so both are
modelled (`Resubmit`); and with the historical clock an instant is the same in
all requests, so a preparation never expires (`Frozen`).

Left to do, in this order: the scripts that seed and sync the paper account
(client ids computed from quantities, a person who runs them twice); the
composition of `AnalysisRun` and `PaperExecution` over one candidate, where a
recheck of the sale races a re-evaluation.
