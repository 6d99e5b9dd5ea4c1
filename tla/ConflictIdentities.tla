-------------------------- MODULE ConflictIdentities ------------------------
(***************************************************************************)
(* The identities of conflicts across analysis runs (src/app/services/     *)
(* conflicts.py, called from analysis.py and harvesting.py): a rejected    *)
(* lot is recorded under a fingerprint; the identity of a fingerprint that *)
(* was met before is counted up instead, and a run first resolves those    *)
(* whose window is over.                                                   *)
(*                                                                         *)
(* Runs of different as-of dates, and rechecks, work on one portfolio at   *)
(* the same time, from processes whose clocks stand at the day they were   *)
(* started.  PostgreSQL at READ COMMITTED: a written or locked row stays   *)
(* locked to the end of its transaction, an insert waits for another of    *)
(* its unique key.                                                         *)
(***************************************************************************)
EXTENDS Integers, FiniteSets

CONSTANTS
  Runs,      \* bound: the runs and rechecks of a behaviour
  Lots,      \* tax lots of the portfolio
  CodesOf,   \* "early", "late": where in the gates a lot may be rejected
  MaxDay,    \* bound: the days of a behaviour
  WindowOf,  \* wash_sale_window_days or, for a coin, crypto_repurchase_window_days
  Crashes    \* TRUE: a run may die at an await

ASSUME IdentitiesAssumption ==
  /\ IsFiniteSet(Runs) /\ IsFiniteSet(Lots)
  /\ CodesOf \in [Lots -> SUBSET {"early", "late"}]
  /\ MaxDay \in Nat /\ WindowOf \in [Lots -> Nat] /\ Crashes \in BOOLEAN

VARIABLES
  today,     \* the day, for the processes that start
  identity,  \* candidate_conflict_identities: the row of a fingerprint
  evals,     \* evaluations: fingerprint and label of a run's lot
  pc,        \* next step of a run
  job        \* what it was started with and what it has not committed

vars == <<today, identity, evals, pc, job>>

---------------------------------------------------------------------------
(* Rows.                                                                   *)

Days == 0..MaxDay
None == -1

\* The gates up to the reconciliation reject before the wash-sale gate has set
\* a window; those after it reject with the window around the as-of date.
\* canonical_conflict_payload: the window is part of the fingerprint.
WindowEnd(l, asOf) == asOf + WindowOf[l]
Fingerprint(l, code, asOf) ==
  [lot |-> l, code |-> code, end |-> IF code = "late" THEN WindowEnd(l, asOf) ELSE None]
Fingerprints == UNION {{Fingerprint(l, c, d) : c \in CodesOf[l], d \in Days} : l \in Lots}

Status == {"ACTIVE", "RESOLVED"}
NoIdentity == [status |-> "NONE"]
Exists(f) == identity[f] # NoIdentity

NoEval == [label |-> "NONE"]
Approval == [label |-> "approved"]
Conflict(f, label) == [label |-> label, fp |-> f]

\* now: the clock of its process; saw: the rows resolve_expired loaded; at: the
\* lot at the gates and its fingerprint; rows and made: the identities and the
\* evaluations it has written and not committed.
Empty == [x \in {} |-> x]
NoJob == [now |-> 0, asOf |-> 0, saw |-> Empty, lots |-> {},
          at |-> NoEval, rows |-> Empty, made |-> Empty]

Steps == {"read", "resolve", "gates", "upsert", "insert"}

Init ==
  /\ today = 0
  /\ identity = [f \in Fingerprints |-> NoIdentity]
  /\ evals = [r \in Runs |-> [l \in Lots |-> NoEval]]
  /\ pc = [r \in Runs |-> "idle"]
  /\ job = [r \in Runs |-> NoJob]

Go(r, step, j) ==
  /\ pc' = [pc EXCEPT ![r] = step]
  /\ job' = [job EXCEPT ![r] = j]

Put(g, x, v) == [y \in DOMAIN g \cup {x} |-> IF y = x THEN v ELSE g[y]]

\* Locks of other transactions: on rows that exist, and on a key being inserted.
Written(r, f) == f \in DOMAIN job[r].rows
Held(r, f) == \E s \in Runs \ {r} : Written(s, f)

---------------------------------------------------------------------------
(* Days pass and runs start, also to take up lots that a failed one left.  *)

NextDay ==
  /\ today < MaxDay
  /\ today' = today + 1
  /\ UNCHANGED <<identity, evals, pc, job>>

\* run_ml_analysis resolves first; a recheck and a retried evaluation do not.
\* A process may have been started, and its data generated, on an earlier day.
Start(r, now, asOf) ==
  /\ pc[r] = "idle"
  /\ now <= today
  /\ asOf <= today
  /\ \E step \in {"read", "gates"} :
       Go(r, step, [NoJob EXCEPT !.now = now, !.asOf = asOf, !.lots = Lots])
  /\ UNCHANGED <<today, identity, evals>>

---------------------------------------------------------------------------
(* resolve_expired.                                                        *)

Over(f, now) == f.end # None /\ f.end < now

Expired(now) ==
  {f \in Fingerprints : Exists(f) /\ identity[f].status = "ACTIVE" /\ Over(f, now)}

ResolveRead(r) ==
  /\ pc[r] = "read"
  /\ Go(r, "resolve",
        [job[r] EXCEPT !.saw = [f \in Expired(job[r].now) |-> identity[f]]])
  /\ UNCHANGED <<today, identity, evals>>

\* An UPDATE of the columns that changed, whatever was loaded of the others.
AsLoaded(row, loaded) == [loaded EXCEPT !.status = "RESOLVED"]
Resolved(row, loaded) == [row EXCEPT !.status = "RESOLVED"]

ResolveRow(r, f) ==
  LET saw == job[r].saw IN
  /\ pc[r] = "resolve"
  /\ f \in DOMAIN saw
  /\ ~Held(r, f)
  /\ Go(r, "resolve",
        [job[r] EXCEPT !.saw = [g \in DOMAIN saw \ {f} |-> saw[g]],
                       !.rows = Put(@, f, Resolved(identity[f], saw[f]))])
  /\ UNCHANGED <<today, identity, evals>>

Stored(r) == [f \in Fingerprints |->
                IF Written(r, f) THEN job[r].rows[f] ELSE identity[f]]

ResolveCommit(r) ==
  /\ pc[r] = "resolve"
  /\ DOMAIN job[r].saw = {}
  /\ identity' = Stored(r)
  /\ Go(r, "gates", [job[r] EXCEPT !.rows = Empty])
  /\ UNCHANGED <<today, evals>>

---------------------------------------------------------------------------
(* evaluate_candidate, lot after lot in one transaction; upsert.           *)

Approve(r, l) ==
  /\ pc[r] = "gates"
  /\ l \in job[r].lots
  /\ Go(r, "gates", [job[r] EXCEPT !.lots = @ \ {l}, !.made = Put(@, l, Approval)])
  /\ UNCHANGED <<today, identity, evals>>

Reject(r, l, code) ==
  /\ pc[r] = "gates"
  /\ l \in job[r].lots
  /\ Go(r, "upsert", [job[r] EXCEPT !.at = Fingerprint(l, code, job[r].asOf)])
  /\ UNCHANGED <<today, identity, evals>>

Write(r, row, label) ==
  LET f == job[r].at IN
  /\ Go(r, "gates",
        [job[r] EXCEPT !.at = NoEval, !.lots = @ \ {f.lot},
                       !.rows = Put(@, f, [row EXCEPT !.latest = <<r, f.lot>>]),
                       !.made = Put(@, f.lot, Conflict(f, label))])
  /\ UNCHANGED <<today, identity, evals>>

\* SELECT ... FOR UPDATE waits for the row and reads it as committed last.
NotLocked(r, f) == FALSE
RowLocked(r, f) == Held(r, f)

FirstAgain(row, now) ==
  [row EXCEPT !.first = now, !.last = now, !.count = @ + 1, !.status = "ACTIVE"]
Bumped(row, now) == [row EXCEPT !.last = now, !.count = @ + 1, !.status = "ACTIVE"]
Fresh(now) == [count |-> 1, first |-> now, last |-> now, status |-> "ACTIVE",
               latest |-> <<>>]

Found(r) ==
  LET f == job[r].at IN
  /\ pc[r] = "upsert"
  /\ Exists(f)
  /\ ~RowLocked(r, f)
  /\ Write(r, Bumped(identity[f], job[r].now), "STILL_ACTIVE")

NotFound(r) ==
  /\ pc[r] = "upsert"
  /\ ~Exists(job[r].at)
  /\ Go(r, "insert", job[r])
  /\ UNCHANGED <<today, identity, evals>>

\* uq_conflict_fingerprint
Unique(f) == Exists(f)

Insert(r) ==
  LET f == job[r].at IN
  /\ pc[r] = "insert"
  /\ ~Unique(f)
  /\ ~Held(r, f)
  /\ Write(r, Fresh(job[r].now), "NEW")

\* The transaction is rolled back; another run may take up its lots.
Abandon(r) == Go(r, "done", NoJob) /\ UNCHANGED <<today, identity, evals>>

InsertConflict(r) ==
  /\ pc[r] = "insert"
  /\ Unique(job[r].at)
  /\ Abandon(r)

Commit(r) ==
  /\ pc[r] = "gates"
  /\ job[r].lots = {}
  /\ identity' = Stored(r)
  /\ evals' = [evals EXCEPT ![r] = job[r].made]
  /\ Go(r, "done", NoJob)
  /\ UNCHANGED today

---------------------------------------------------------------------------
(* What ends a transaction early.                                          *)

Wants(r) ==
  IF pc[r] = "resolve" THEN DOMAIN job[r].saw
  ELSE IF pc[r] \in {"upsert", "insert"} THEN {job[r].at}
  ELSE {}
WaitsFor(r, s) == r # s /\ \E f \in Wants(r) : Written(s, f)

\* The database aborts a transaction of a circle, and nothing catches that.
BreakDeadlock(r) ==
  /\ \E S \in SUBSET Runs : r \in S /\ \A a \in S : \E b \in S : WaitsFor(a, b)
  /\ Abandon(r)

Crash(r) ==
  /\ Crashes
  /\ pc[r] \in Steps
  /\ Abandon(r)

Step(r) ==
  \/ ResolveRead(r)
  \/ \E f \in Fingerprints : ResolveRow(r, f)
  \/ ResolveCommit(r)
  \/ \E l \in Lots : Approve(r, l)
  \/ \E l \in Lots : \E code \in CodesOf[l] : Reject(r, l, code)
  \/ Found(r)
  \/ NotFound(r)
  \/ Insert(r)
  \/ InsertConflict(r)
  \/ Commit(r)
  \/ BreakDeadlock(r)

Idle == (\A r \in Runs : pc[r] = "done") /\ UNCHANGED vars

Next ==
  \/ NextDay
  \/ \E r \in Runs : \/ \E now, asOf \in Days : Start(r, now, asOf)
                     \/ Step(r)
                     \/ Crash(r)
  \/ Idle

Spec == Init /\ [][Next]_vars

---------------------------------------------------------------------------
(* Properties.                                                             *)

Rejections(f) ==
  {x \in Runs \X Lots : LET e == evals[x[1]][x[2]] IN
                         e.label \in {"NEW", "STILL_ACTIVE"} /\ e.fp = f}

\* Rows and steps keep their types.
TypeOK ==
  /\ today \in Days
  /\ \A f \in Fingerprints : Exists(f) =>
       /\ identity[f].count \in Nat
       /\ identity[f].first \in Days /\ identity[f].last \in Days
       /\ identity[f].status \in Status
       /\ identity[f].latest \in Runs \X Lots
  /\ pc \in [Runs -> {"idle", "done"} \cup Steps]

\* "Transactional upsert": an identity has been counted up once for each
\* evaluation that names it, whoever evaluated at the same time, was rolled
\* back or resolved it in between, and there is none without an evaluation.
CountIsExact ==
  \A f \in Fingerprints :
    (IF Exists(f) THEN identity[f].count ELSE 0) = Cardinality(Rejections(f))

\* One of the evaluations of a conflict calls it NEW and the others call it
\* STILL_ACTIVE.
NewOnce ==
  \A f \in Fingerprints :
    Exists(f) =>
      Cardinality({x \in Rejections(f) : evals[x[1]][x[2]].label = "NEW"}) = 1

\* Each evaluation of a conflict counts once, and one of them as its first
\* (ConflictService.upsert).
EvaluationsCount == CountIsExact /\ NewOnce

\* "Preserve first_seen", "resolve not delete": a conflict that was recorded
\* stays recorded since the same day, and its count never goes back.
HistoryIsKept ==
  [][\A f \in Fingerprints :
       Exists(f) => /\ identity'[f] # NoIdentity
                    /\ identity'[f].first = identity[f].first
                    /\ identity'[f].count >= identity[f].count]_vars

\* A run resolves rows it has loaded without a lock, and other runs may have
\* counted them up, resolved or re-activated them since: all that it changes is
\* the status, of a conflict whose window is over, and it takes back no count,
\* day or latest evaluation.  A commit that adds an evaluation of a conflict
\* leaves it ACTIVE, whatever resolved it in between (resolve_expired, upsert).
ResolvingUndoesNothing ==
  [][\A f \in Fingerprints :
       IF Rejections(f)' # Rejections(f) THEN identity'[f].status = "ACTIVE"
       ELSE identity'[f] # identity[f] =>
              /\ Exists(f) /\ f.end # None /\ f.end < today
              /\ identity'[f] = [identity[f] EXCEPT !.status = "RESOLVED"]]_vars
=============================================================================
