---------------------------- MODULE AnalysisRun ----------------------------
(***************************************************************************)
(* The analysis of a user's brokerage portfolios (src/app/services/        *)
(* analysis.py): run_ml_analysis proposes the tax lots of every portfolio  *)
(* as pending candidates of a run, evaluate_pending_candidates decides and *)
(* ranks them, evaluate_candidate decides one again.                       *)
(*                                                                         *)
(* A request runs several transactions (READ COMMITTED) one after another  *)
(* and awaits providers inside them.  A portfolio's proposal, evaluation   *)
(* and ranking are a transaction each; what a request loaded stays as it   *)
(* was read; a flush locks the rows it wrote until the commit.             *)
(***************************************************************************)
EXTENDS FiniteSets

CONSTANTS
  Keys,         \* idempotency keys of one user, each names one run
  Period,       \* as_of_period of a key
  Portfolios,   \* the user's brokerage portfolios
  Lots,         \* their tax lots
  PortfolioOf,  \* the portfolio of a lot
  Requests,     \* bound: the requests of a behaviour
  Kinds,        \* what the callers ask for
  Exclusive,    \* keys whose run no two requests work on at a time
  Faults        \* TRUE: providers and the database may fail, requests may die

RequestKinds == {"propose", "analyse", "evaluate", "reevaluate"}

ASSUME ConstantsAssumption ==
  /\ Keys # {}
  /\ Portfolios # {}
  /\ Lots # {}
  /\ PortfolioOf \in [Lots -> Portfolios]
  /\ Kinds \subseteq RequestKinds
  /\ Exclusive \subseteq Keys
  /\ Faults \in BOOLEAN

VARIABLES
  run,         \* analysis_runs: status of the run of a key, or "NONE"
  lock,        \* portfolio_analysis_locks: the ACTIVE rows
  cand,        \* harvesting_candidates: status of a run's lot, or "NONE"
  evaluation,  \* the latest row of evaluations of a candidate
  pc,          \* next step of a request
  job          \* what it was asked and what it loaded

vars == <<run, lock, cand, evaluation, pc, job>>

---------------------------------------------------------------------------
(* Rows.                                                                   *)

Finished  == {"COMPLETED", "FAILED"}
RunStatus == {"NONE", "PENDING", "RUNNING"} \cup Finished

\* REJECTED stands for BELOW_THRESHOLD and NOT_EXECUTABLE as well: none of the
\* three has a transition out of it.
Verdicts        == {"APPROVED", "REJECTED"}
CandidateStatus == {"NONE", "PENDING"} \cup Verdicts

Lock == [portfolio: Portfolios, run: Keys]

\* The latest evaluation is the last one stored: the container's clock is
\* fixed, so evaluated_at only makes ties.
Evaluation   == [status: {"NONE"} \cup Verdicts, ranked: BOOLEAN]
NoEvaluation == [status |-> "NONE", ranked |-> FALSE]

\* The evaluations a transaction has flushed and not committed.
Draft   == [Lots -> {"NONE"} \cup Verdicts]
NoDraft == [l \in Lots |-> "NONE"]

\* todo: portfolios left; at: the one being worked on; work: candidates left;
\* lot: the candidate at the gates; failed: a portfolio's proposal failed;
\* saw, was: the status of the run and of a rechecked candidate as loaded.
Job == [kind: {"none"} \cup RequestKinds, key: Keys, todo: SUBSET Portfolios,
        at: Portfolios, work: SUBSET Lots, lot: Lots, draft: Draft,
        failed: BOOLEAN, saw: RunStatus, was: CandidateStatus]
NoJob == [kind |-> "none", key |-> CHOOSE k \in Keys : TRUE, todo |-> {},
          at |-> CHOOSE p \in Portfolios : TRUE, work |-> {},
          lot |-> CHOOSE l \in Lots : TRUE, draft |-> NoDraft,
          failed |-> FALSE, saw |-> "NONE", was |-> "NONE"]
Asked(kind, k) == [NoJob EXCEPT !.kind = kind, !.key = k]

Steps == {"p_insert", "p_start", "p_lock", "p_persist",
          "e_read", "e_portfolio", "e_lot", "e_gate",
          "e_rank", "e_select", "r_store"}
InFlight == {q \in Requests : pc[q] \in Steps}

Over(k) == run[k] \in Finished

Mine(p) == {l \in Lots : PortfolioOf[l] = p}
Proposed(k) == {l \in Lots : cand[k][l] # "NONE"}

\* The requests of some runs are kept apart; those of the others race.
Free(k) == k \in Exclusive => \A r \in InFlight : job[r].key # k

\* transition(): what the loaded status of a candidate allows.
CanTransition(s) == s \in {"PENDING", "APPROVED"}

\* candidate.status = status.value: an UPDATE is sent only if the verdict is
\* not the status that was loaded, and overwrites what it has become since.
DecidedOnce(now, was, v) == IF now = "PENDING" THEN v ELSE now
AlwaysWritten(now, was, v) == v
Decided(now, was, v) == IF v = was THEN now ELSE v

---------------------------------------------------------------------------
Init ==
  /\ run = [k \in Keys |-> "NONE"]
  /\ lock = {}
  /\ cand = [k \in Keys |-> [l \in Lots |-> "NONE"]]
  /\ evaluation = [k \in Keys |-> [l \in Lots |-> NoEvaluation]]
  /\ pc = [q \in Requests |-> "idle"]
  /\ job = [q \in Requests |-> NoJob]

Go(q, step, j) ==
  /\ pc' = [pc EXCEPT ![q] = step]
  /\ job' = [job EXCEPT ![q] = j]

\* The request ends; a transaction it left open is rolled back.
End(q) == Go(q, "done", NoJob)

\* What follows a proposal that answered with status s: the callers that
\* evaluate stop on FAILED, run_analysis on COMPLETED too.
NeverEvaluate(kind, s) == {"done"}
AfterProposal(kind, s) ==
  {n \in {"done", "e_read"} :
     /\ kind = "propose" \/ s = "FAILED" => n = "done"
     /\ n = "done" => kind = "propose" \/ s \in Finished}

Answer(q, kind, k, s) ==
  \E n \in AfterProposal(kind, s) :
    IF n = "done" THEN End(q) ELSE Go(q, n, Asked(kind, k))

---------------------------------------------------------------------------
(* run_ml_analysis.                                                        *)

Called(q, kind, k) ==
  /\ pc[q] = "idle"
  /\ kind \in Kinds \cap {"propose", "analyse"}
  /\ Free(k)

\* The key has a run that is over or has candidates: it is the answer.
ProposeReuse(q, kind, k) ==
  /\ Called(q, kind, k)
  /\ run[k] # "NONE"
  /\ Over(k) \/ Proposed(k) # {}
  /\ Answer(q, kind, k, run[k])
  /\ UNCHANGED <<run, lock, cand, evaluation>>

\* A run with no candidates yet is taken over, whoever else is at work on it.
ProposeTakeOver(q, kind, k) ==
  /\ Called(q, kind, k)
  /\ run[k] # "NONE"
  /\ ~Over(k)
  /\ Proposed(k) = {}
  /\ Go(q, "p_start", [Asked(kind, k) EXCEPT !.saw = run[k]])
  /\ UNCHANGED <<run, lock, cand, evaluation>>

ProposeNew(q, kind, k) ==
  /\ Called(q, kind, k)
  /\ run[k] = "NONE"
  /\ Go(q, "p_insert", Asked(kind, k))
  /\ UNCHANGED <<run, lock, cand, evaluation>>

\* The key is unique: the loser of the race answers with the winner's run.
ProposeInsert(q) ==
  LET k == job[q].key IN
  /\ pc[q] = "p_insert"
  /\ IF run[k] = "NONE"
     THEN /\ run' = [run EXCEPT ![k] = "PENDING"]
          /\ Go(q, "p_start", [job[q] EXCEPT !.saw = "PENDING"])
     ELSE /\ Answer(q, job[q].kind, k, run[k])
          /\ UNCHANGED run
  /\ UNCHANGED <<lock, cand, evaluation>>

\* The UPDATE is sent only if the loaded status differs, and overwrites
\* whatever the status has become since.
Running(now, saw) == IF saw = "RUNNING" THEN now ELSE "RUNNING"

ProposeStart(q) ==
  LET k == job[q].key IN
  /\ pc[q] = "p_start"
  /\ run' = [run EXCEPT ![k] = Running(@, job[q].saw)]
  /\ Go(q, "p_lock", [job[q] EXCEPT !.saw = "NONE", !.todo = Portfolios])
  /\ UNCHANGED <<lock, cand, evaluation>>

\* Rows that the partial unique index sets against a new one of run k.
NoRival(p, k) == {}
OwnRival(p, k) == {x \in lock : x.portfolio = p /\ x.run = k}
Rivals(p, k) == {x \in lock : x.portfolio = p /\ Period[x.run] = Period[k]}

\* An INSERT waits for another that is not committed yet.
BeingLocked(p, k) ==
  \E r \in Requests : /\ pc[r] = "p_persist"
                      /\ job[r].at = p
                      /\ Period[job[r].key] = Period[k]

ProposeLock(q, p) ==
  /\ pc[q] = "p_lock"
  /\ p \in job[q].todo
  /\ ~BeingLocked(p, job[q].key)
  /\ IF Rivals(p, job[q].key) = {}
     THEN Go(q, "p_persist", [job[q] EXCEPT !.todo = @ \ {p}, !.at = p])
     ELSE Go(q, "p_lock", [job[q] EXCEPT !.todo = @ \ {p}, !.failed = TRUE])
  /\ UNCHANGED <<run, lock, cand, evaluation>>

\* The lock and the pending candidates are committed together.
ProposePersist(q) ==
  LET k == job[q].key  p == job[q].at IN
  /\ pc[q] = "p_persist"
  /\ lock' = lock \cup {[portfolio |-> p, run |-> k]}
  /\ cand' = [cand EXCEPT ![k] = [l \in Lots |->
                IF l \in Mine(p) /\ @[l] = "NONE" THEN "PENDING" ELSE @[l]]]
  /\ Go(q, "p_lock", [job[q] EXCEPT !.at = NoJob.at])
  /\ UNCHANGED <<run, evaluation>>

\* Any exception in a portfolio's transaction is noted and the loop goes on.
ProposeFail(q) ==
  /\ Faults
  /\ pc[q] = "p_persist"
  /\ Go(q, "p_lock", [job[q] EXCEPT !.at = NoJob.at, !.failed = TRUE])
  /\ UNCHANGED <<run, lock, cand, evaluation>>

\* The scores are written and the run fails if a portfolio did.
ProposeFinish(q) ==
  LET k == job[q].key IN
  /\ pc[q] = "p_lock"
  /\ job[q].todo = {}
  /\ run' = [run EXCEPT ![k] = IF job[q].failed THEN "FAILED" ELSE @]
  /\ Answer(q, job[q].kind, k, run'[k])
  /\ UNCHANGED <<lock, cand, evaluation>>

---------------------------------------------------------------------------
(* evaluate_pending_candidates.                                            *)

\* The portfolios of the run's candidates, or all when it has none.
FirstScope(k) ==
  IF Proposed(k) = {} THEN Portfolios
  ELSE {CHOOSE p \in Portfolios : Mine(p) \cap Proposed(k) # {}}
Scope(k) ==
  IF Proposed(k) = {} THEN Portfolios ELSE {PortfolioOf[l] : l \in Proposed(k)}

\* Any run can be named by its id; without one the latest run is chosen,
\* RUNNING before the others.
EvaluateCall(q, k) ==
  /\ pc[q] = "idle"
  /\ "evaluate" \in Kinds
  /\ run[k] # "NONE"
  /\ Free(k)
  /\ Go(q, "e_read", Asked("evaluate", k))
  /\ UNCHANGED <<run, lock, cand, evaluation>>

EvaluateAnyway(q) ==
  /\ pc[q] = "e_read"
  /\ Go(q, "e_portfolio", [job[q] EXCEPT !.todo = Scope(job[q].key)])
  /\ UNCHANGED <<run, lock, cand, evaluation>>
EvaluateRead(q) ==
  LET k == job[q].key IN
  /\ pc[q] = "e_read"
  /\ IF Over(k)
     THEN End(q)
     ELSE Go(q, "e_portfolio", [job[q] EXCEPT !.todo = Scope(k)])
  /\ UNCHANGED <<run, lock, cand, evaluation>>

EvaluatePending(q, p) ==
  LET k == job[q].key IN
  /\ pc[q] = "e_portfolio"
  /\ p \in job[q].todo
  /\ Go(q, "e_lot", [job[q] EXCEPT !.todo = @ \ {p}, !.at = p,
                       !.work = {l \in Mine(p) : cand[k][l] = "PENDING"}])
  /\ UNCHANGED <<run, lock, cand, evaluation>>

\* A candidate that was evaluated since it was loaded is passed over.
EvaluateCheck(q, l) ==
  LET j == [job[q] EXCEPT !.work = @ \ {l}] IN
  /\ pc[q] = "e_lot"
  /\ l \in job[q].work
  /\ IF evaluation[j.key][l] # NoEvaluation
     THEN Go(q, "e_lot", j)
     ELSE Go(q, "e_gate", [j EXCEPT !.lot = l])
  /\ UNCHANGED <<run, lock, cand, evaluation>>

\* r's transaction has written the candidate's row.
HoldsRow(r, k, l) ==
  pc[r] \in Steps /\ job[r].key = k /\ job[r].draft[l] # "NONE"
RowFree(q, k, l) == \A r \in Requests \ {q} : ~HoldsRow(r, k, l)

\* The gates answered: the evaluation and the status are flushed.
EvaluateStore(q, v) ==
  LET l == job[q].lot IN
  /\ pc[q] = "e_gate"
  /\ RowFree(q, job[q].key, l)
  /\ Go(q, "e_lot", [job[q] EXCEPT !.draft[l] = v, !.lot = NoJob.lot])
  /\ UNCHANGED <<run, lock, cand, evaluation>>

Stored(q) == {l \in Lots : job[q].draft[l] # "NONE"}

EvaluateCommit(q) ==
  LET k == job[q].key  d == job[q].draft IN
  /\ pc[q] = "e_lot"
  /\ job[q].work = {}
  /\ cand' = [cand EXCEPT ![k] = [l \in Lots |->
                IF l \in Stored(q) THEN Decided(@[l], "PENDING", d[l])
                ELSE @[l]]]
  /\ evaluation' = [evaluation EXCEPT ![k] = [l \in Lots |->
                IF l \in Stored(q) THEN [status |-> d[l], ranked |-> FALSE]
                ELSE @[l]]]
  /\ Go(q, "e_rank", [job[q] EXCEPT !.draft = NoDraft])
  /\ UNCHANGED <<run, lock>>

Approved(k) == {l \in Lots : cand[k][l] = "APPROVED"}

RankRead(q) ==
  /\ pc[q] = "e_rank"
  /\ Go(q, "e_select", [job[q] EXCEPT
          !.work = Approved(job[q].key) \cap Mine(job[q].at)])
  /\ UNCHANGED <<run, lock, cand, evaluation>>

\* What is selected against the target is marked on the latest evaluation, and
\* the run's lock of the portfolio is released.
RunLocks(p, k) == {x \in lock : x.run = k}
Released(p, k) == OwnRival(p, k)
RankCommit(q, chosen) ==
  LET k == job[q].key  p == job[q].at IN
  /\ pc[q] = "e_select"
  /\ chosen \subseteq job[q].work
  /\ evaluation' = [evaluation EXCEPT ![k] = [l \in Lots |->
                IF l \in chosen THEN [@[l] EXCEPT !.ranked = TRUE] ELSE @[l]]]
  /\ lock' = lock \ Released(p, k)
  /\ Go(q, "e_portfolio", [job[q] EXCEPT !.work = {}, !.at = NoJob.at])
  /\ UNCHANGED <<run, cand>>

\* Unconditional: nothing is read again before the run is COMPLETED.
EvaluateFinish(q) ==
  /\ pc[q] = "e_portfolio"
  /\ job[q].todo = {}
  /\ run' = [run EXCEPT ![job[q].key] = "COMPLETED"]
  /\ End(q)
  /\ UNCHANGED <<lock, cand, evaluation>>

---------------------------------------------------------------------------
(* evaluate_candidate, which prepare and confirm use as a recheck too.     *)

ReevaluateCall(q, k, l) ==
  /\ pc[q] = "idle"
  /\ "reevaluate" \in Kinds
  /\ cand[k][l] # "NONE"
  /\ Free(k)
  /\ IF CanTransition(cand[k][l])
     THEN Go(q, "r_store", [Asked("reevaluate", k) EXCEPT
                              !.lot = l, !.was = cand[k][l]])
     ELSE End(q)
  /\ UNCHANGED <<run, lock, cand, evaluation>>

\* The row is waited for only if it is written.
ReevaluateStore(q, v) ==
  LET k == job[q].key  l == job[q].lot IN
  /\ pc[q] = "r_store"
  /\ v # job[q].was => RowFree(q, k, l)
  /\ cand' = [cand EXCEPT ![k][l] = Decided(@, job[q].was, v)]
  /\ evaluation' = [evaluation EXCEPT ![k][l] =
                      [status |-> v, ranked |-> FALSE]]
  /\ End(q)
  /\ UNCHANGED <<run, lock>>

---------------------------------------------------------------------------
(* What ends a request early.                                              *)

\* A recheck holds no row while it waits: it is in no circle.
WaitsFor(q, r) ==
  /\ q # r
  /\ pc[q] = "e_gate"
  /\ HoldsRow(r, job[q].key, job[q].lot)

\* The database breaks a circle of row locks by aborting one transaction, and
\* nothing in the evaluation catches that.
BreakDeadlock(q) ==
  /\ pc[q] = "e_gate"
  /\ \E S \in SUBSET Requests :
       q \in S /\ \A a \in S : \E b \in S : WaitsFor(a, b)
  /\ End(q)
  /\ UNCHANGED <<run, lock, cand, evaluation>>

\* An exception outside the proposal loop, or the process ends.
Crash(q) ==
  /\ Faults
  /\ pc[q] \in Steps
  /\ End(q)
  /\ UNCHANGED <<run, lock, cand, evaluation>>

---------------------------------------------------------------------------
Call(q) ==
  \/ \E k \in Keys, kind \in {"propose", "analyse"} :
       \/ ProposeReuse(q, kind, k)
       \/ ProposeTakeOver(q, kind, k)
       \/ ProposeNew(q, kind, k)
  \/ \E k \in Keys : EvaluateCall(q, k)
  \/ \E k \in Keys, l \in Lots : ReevaluateCall(q, k, l)

Step(q) ==
  \/ ProposeInsert(q)
  \/ ProposeStart(q)
  \/ \E p \in Portfolios : ProposeLock(q, p) \/ EvaluatePending(q, p)
  \/ ProposePersist(q)
  \/ ProposeFinish(q)
  \/ EvaluateRead(q)
  \/ \E l \in Lots : EvaluateCheck(q, l)
  \/ \E v \in Verdicts : EvaluateStore(q, v) \/ ReevaluateStore(q, v)
  \/ EvaluateCommit(q)
  \/ RankRead(q)
  \/ \E chosen \in SUBSET Lots : RankCommit(q, chosen)
  \/ EvaluateFinish(q)
  \/ BreakDeadlock(q)

\* Nothing is in flight: the system may stay as it is.
Idle == InFlight = {} /\ UNCHANGED vars

Next ==
  \/ \E q \in Requests : Call(q) \/ Step(q) \/ ProposeFail(q) \/ Crash(q)
  \/ Idle

Spec == Init /\ [][Next]_vars

\* A request that can go on does: the event loop resumes it, and its database
\* and provider calls end or raise.  Nobody is obliged to call.
FairSpec == Spec /\ \A q \in Requests : WF_vars(Step(q))

---------------------------------------------------------------------------
(* Properties.                                                             *)

\* Every row and request keeps its type.
TypeOK ==
  /\ run \in [Keys -> RunStatus]
  /\ lock \in SUBSET Lock
  /\ cand \in [Keys -> [Lots -> CandidateStatus]]
  /\ evaluation \in [Keys -> [Lots -> Evaluation]]
  /\ pc \in [Requests -> {"idle", "done"} \cup Steps]
  /\ job \in [Requests -> Job]

\* "Prevent two active analyses per portfolio + as_of period": whatever is
\* duplicated, raced or lost, two ACTIVE locks never coexist.
LockIsExclusive ==
  \A x, y \in lock :
    /\ x.portfolio = y.portfolio
    /\ Period[x.run] = Period[y.run]
    => x = y

\* A portfolio with undecided candidates is locked by their run, so that the
\* lock outlives a proposer or evaluator that dies half-way, however the runs
\* of the same day race next to it.
PendingIsLocked ==
  \A k \in Exclusive, l \in Lots :
    cand[k][l] = "PENDING" =>
      [portfolio |-> PortfolioOf[l], run |-> k] \in lock

\* What the two are for: no two runs of a period ever have undecided
\* candidates of one portfolio, not even after a crash between two steps.
OneRunDecides ==
  \A j, k \in Exclusive, a, b \in Lots :
    /\ Period[j] = Period[k]
    /\ PortfolioOf[a] = PortfolioOf[b]
    /\ cand[j][a] = "PENDING"
    /\ cand[k][b] = "PENDING"
    => j = k

\* "Persist analysis run before work": candidates and locks belong to a run
\* whose start was committed, and no retry takes it back to PENDING.
WorkIsStarted ==
  \A k \in Keys :
    Proposed(k) # {} \/ (\E x \in lock : x.run = k) =>
      run[k] \notin {"NONE", "PENDING"}

\* However evaluators and rechecks race, a candidate that counts as approved
\* is approved by its latest evaluation, and one has an evaluation exactly if
\* it is decided.  (A rejected one may have an approving evaluation: a recheck
\* that loaded it as approved does not write its status.)
DecisionIsExplained ==
  \A k \in Keys, l \in Lots :
    /\ cand[k][l] = "APPROVED" => evaluation[k][l].status = "APPROVED"
    /\ cand[k][l] \in Verdicts <=> evaluation[k][l].status # "NONE"

\* "Eval must persist statuses before the user can see them": a COMPLETED run
\* has no undecided candidate.
CompletedIsEvaluated ==
  \A k \in Exclusive, l \in Lots :
    run[k] = "COMPLETED" => cand[k][l] # "PENDING"

\* A COMPLETED run holds no portfolio any more (of those that have lots).
CompletedIsReleased ==
  \A x \in lock :
    /\ x.run \in Exclusive
    /\ Mine(x.portfolio) # {}
    => run[x.run] # "COMPLETED"

\* A COMPLETED run is over: it has decided all its candidates and released its
\* portfolios (the end of evaluate_pending_candidates).
CompletedIsDone == CompletedIsEvaluated /\ CompletedIsReleased

\* A request that may still write the run's status or propose for it.
AtWork(k) ==
  \E q \in InFlight :
    job[q].key = k /\ pc[q] \notin {"p_insert", "e_read", "r_store"}

\* A request that loaded the candidate while it was undecided.
Deciding(k, l) ==
  \E q \in InFlight :
    /\ job[q].key = k
    /\ \/ pc[q] = "e_gate" /\ job[q].lot = l
       \/ job[q].draft[l] # "NONE"
       \/ pc[q] = "r_store" /\ job[q].lot = l /\ job[q].was = "PENDING"

RunSettled(k) == Over(k) /\ ~AtWork(k)
RejectionSettled(k, l) == cand[k][l] = "REJECTED" /\ ~Deciding(k, l)

\* A finished run is reopened, finished otherwise or given candidates only by
\* requests that were at work on it when it finished: once they are gone, no
\* retry, evaluation or recheck, however they race, touches it again.
RunSettles ==
  [][\A k \in Keys :
       RunSettled(k) => /\ RunSettled(k)'
                        /\ run'[k] = run[k]
                        /\ Proposed(k)' = Proposed(k)]_vars

\* A rejection is taken back only by a request that loaded the candidate before
\* its first decision: once those are gone it is final, whatever rechecks race
\* with the one that rejected it.
RejectionSettles ==
  [][\A k \in Keys, l \in Lots :
       RejectionSettled(k, l) => RejectionSettled(k, l)']_vars

\* No request waits for ever, for a row, a lock or another request.
RequestsEnd == \A q \in Requests : q \in InFlight ~> pc[q] = "done"

\* Without failures a run that was started is finished, even when two requests
\* with its key work on it at the same time.
RunsFinish == \A k \in Keys : run[k] = "PENDING" ~> run[k] \in Finished

\* Requests and runs come to an end (run_analysis).
WorkEnds == RequestsEnd /\ RunsFinish

=============================================================================
