---------------------- MODULE ConflictIdentitiesProofs ----------------------
(***************************************************************************)
(* The identities of conflicts are exact for any number of runs, rechecks, *)
(* lots and days, with crashes and deadlocks.                              *)
(***************************************************************************)
EXTENDS ConflictIdentities, FiniteSetTheorems, TLAPS

---------------------------------------------------------------------------
(* Types.                                                                  *)

Row == [count : Nat, first : Days, last : Days, status : Status,
        latest : Runs \X Lots]
Made == {Approval} \cup {Conflict(f, x) : f \in Fingerprints, x \in {"NEW", "STILL_ACTIVE"}}
Partial(S, T) == UNION {[D -> T] : D \in SUBSET S}
Job == [now : Days, asOf : Days, saw : Partial(Fingerprints, Row), lots : SUBSET Lots,
        at : Fingerprints \cup {NoEval}, rows : Partial(Fingerprints, Row),
        made : Partial(Lots, Made)]

Types ==
  /\ today \in Days
  /\ identity \in [Fingerprints -> Row \cup {NoIdentity}]
  /\ evals \in [Runs -> [Lots -> Made \cup {NoEval}]]
  /\ pc \in [Runs -> {"idle", "done"} \cup Steps]
  /\ job \in [Runs -> Job]

\* Days are numbers from 0 on.
LEMMA DayFacts == 0 \in Days /\ Days \subseteq Nat /\ None \notin Nat
  BY IdentitiesAssumption DEF Days, None

\* A fingerprint names a lot, and its window ends on a number.
LEMMA FingerprintShape ==
  /\ \A f \in Fingerprints : f.lot \in Lots /\ f.end \in Int
  /\ \A l \in Lots, d \in Days : \A c \in CodesOf[l] :
       Fingerprint(l, c, d) \in Fingerprints /\ Fingerprint(l, c, d).lot = l
  BY DayFacts, IdentitiesAssumption DEF Fingerprints, Fingerprint, WindowEnd, None

\* Adding to or changing a partial function.
LEMMA RowsPut ==
  ASSUME NEW g \in Partial(Fingerprints, Row), NEW x \in Fingerprints, NEW v \in Row
  PROVE  /\ Put(g, x, v) \in Partial(Fingerprints, Row)
         /\ DOMAIN Put(g, x, v) = DOMAIN g \cup {x}
         /\ Put(g, x, v)[x] = v
         /\ \A y \in DOMAIN g : y # x => Put(g, x, v)[y] = g[y]
<1>1. PICK D \in SUBSET Fingerprints : g \in [D -> Row]
  BY DEF Partial
<1>2. Put(g, x, v) \in [D \cup {x} -> Row]
  BY <1>1 DEF Put
<1>3. D \cup {x} \in SUBSET Fingerprints
  BY <1>1
<1> QED
  BY <1>1, <1>2, <1>3 DEF Partial, Put

LEMMA MadePut ==
  ASSUME NEW g \in Partial(Lots, Made), NEW x \in Lots, NEW v \in Made
  PROVE  /\ Put(g, x, v) \in Partial(Lots, Made)
         /\ DOMAIN Put(g, x, v) = DOMAIN g \cup {x}
         /\ Put(g, x, v)[x] = v
         /\ \A y \in DOMAIN g : y # x => Put(g, x, v)[y] = g[y]
<1>1. PICK D \in SUBSET Lots : g \in [D -> Made]
  BY DEF Partial
<1>2. Put(g, x, v) \in [D \cup {x} -> Made]
  BY <1>1 DEF Put
<1>3. D \cup {x} \in SUBSET Lots
  BY <1>1
<1> QED
  BY <1>1, <1>2, <1>3 DEF Partial, Put

\* A value of a partial function is of its range.
LEMMA PartialFacts ==
  ASSUME NEW S, NEW T, NEW g \in Partial(S, T)
  PROVE  DOMAIN g \subseteq S /\ \A x \in DOMAIN g : g[x] \in T
  BY DEF Partial

LEMMA NoJobTyped == NoJob \in Job /\ DOMAIN NoJob.rows = {} /\ DOMAIN NoJob.made = {} /\ NoJob.now = 0
<1>1. \A S, T : Empty \in Partial(S, T) /\ DOMAIN Empty = {}
  <2> SUFFICES ASSUME NEW S, NEW T PROVE Empty \in Partial(S, T) /\ DOMAIN Empty = {}
    OBVIOUS
  <2>1. Empty \in [{} -> T] /\ {} \in SUBSET S
    BY DEF Empty
  <2> QED BY <2>1 DEF Partial
<1> QED BY <1>1, DayFacts DEF NoJob, Job

\* A request that goes on keeps the types of steps and jobs.
LEMMA GoTyped ==
  ASSUME Types, NEW r \in Runs, NEW step \in {"idle", "done"} \cup Steps, NEW j \in Job,
         Go(r, step, j)
  PROVE  /\ pc' \in [Runs -> {"idle", "done"} \cup Steps] /\ pc'[r] = step
         /\ job' \in [Runs -> Job] /\ job'[r] = j
         /\ \A s \in Runs \ {r} : pc'[s] = pc[s] /\ job'[s] = job[s]
  BY DEF Go, Types

\* The parts of a job.
LEMMA JobFacts ==
  ASSUME Types, NEW r \in Runs
  PROVE  /\ job[r] \in Job
         /\ job[r].now \in Days /\ job[r].asOf \in Days /\ job[r].lots \subseteq Lots
         /\ job[r].saw \in Partial(Fingerprints, Row) /\ job[r].rows \in Partial(Fingerprints, Row)
         /\ job[r].made \in Partial(Lots, Made) /\ job[r].at \in Fingerprints \cup {NoEval}
         /\ DOMAIN job[r].rows \subseteq Fingerprints /\ DOMAIN job[r].saw \subseteq Fingerprints
         /\ DOMAIN job[r].made \subseteq Lots
         /\ \A f \in DOMAIN job[r].rows : job[r].rows[f] \in Row
         /\ \A f \in DOMAIN job[r].saw : job[r].saw[f] \in Row
         /\ \A l \in DOMAIN job[r].made : job[r].made[l] \in Made
<1>1. job[r] \in Job
  BY DEF Types
<1>2. /\ job[r].saw \in Partial(Fingerprints, Row) /\ job[r].rows \in Partial(Fingerprints, Row)
      /\ job[r].made \in Partial(Lots, Made)
  BY <1>1 DEF Job
<1> QED
  BY <1>1, <1>2, PartialFacts DEF Job

\* A row that exists is typed.
LEMMA ExistsTyped ==
  ASSUME Types
  PROVE  \A f \in Fingerprints : (Exists(f) => identity[f] \in Row) /\ (identity[f] \in Row => Exists(f))
  BY DEF Types, Exists, Row, Status, NoIdentity

---------------------------------------------------------------------------
(* The invariant.                                                          *)

\* A row is written by one transaction at a time.
WrittenByOne ==
  \A r, s \in Runs : \A f \in Fingerprints : Written(r, f) /\ Written(s, f) => r = s

\* No transaction is open, and a run that will resolve has all lots to do.
Quiet(r) ==
  /\ pc[r] \in {"idle", "done", "read"} => DOMAIN job[r].rows = {} /\ DOMAIN job[r].made = {}
  /\ pc[r] = "read" => job[r].lots = Lots

\* resolve_expired changes rows that exist, whose window is over, in nothing
\* but their status.
Resolving(r) ==
  pc[r] = "resolve" =>
    /\ DOMAIN job[r].made = {} /\ job[r].lots = Lots
    /\ \A f \in DOMAIN job[r].saw : Exists(f) /\ Over(f, job[r].now)
    /\ \A f \in DOMAIN job[r].rows :
         /\ Exists(f) /\ Over(f, job[r].now)
         /\ job[r].rows[f] = [identity[f] EXCEPT !.status = "RESOLVED"]

\* What an evaluation has written and what it will say belong together: a row
\* counted up by one for each lot it rejected.
Label(f) == IF Exists(f) THEN "STILL_ACTIVE" ELSE "NEW"
Before(f) == IF Exists(f) THEN identity[f].count ELSE 0

Evaluating(r) ==
  pc[r] \in {"gates", "upsert", "insert"} =>
    /\ DOMAIN job[r].made = Lots \ job[r].lots
    /\ \A f \in DOMAIN job[r].rows :
         /\ f.lot \in DOMAIN job[r].made
         /\ job[r].made[f.lot] = Conflict(f, Label(f))
         /\ job[r].rows[f].status = "ACTIVE"
         /\ job[r].rows[f].count = Before(f) + 1
         /\ Exists(f) => job[r].rows[f].first = identity[f].first
    /\ \A l \in DOMAIN job[r].made : job[r].made[l] # Approval =>
         job[r].made[l].fp \in DOMAIN job[r].rows /\ job[r].made[l].fp.lot = l
    /\ pc[r] \in {"upsert", "insert"} => job[r].at \in Fingerprints /\ job[r].at.lot \in job[r].lots

\* A run's evaluations are there when it is done, and its day is not to come.
Undecided(r) == pc[r] # "done" => \A l \in Lots : evals[r][l] = NoEval
Clock(r) == job[r].now <= today

RunInv(r) == Quiet(r) /\ Resolving(r) /\ Evaluating(r) /\ Undecided(r) /\ Clock(r)

IInv ==
  /\ Types
  /\ WrittenByOne
  /\ \A r \in Runs : RunInv(r)
  /\ CountIsExact
  /\ NewOnce

\* Nothing is recorded at first.
LEMMA InitInv == Init => IInv
<1> SUFFICES ASSUME Init PROVE IInv
  OBVIOUS
<1>1. Types
  BY NoJobTyped, DayFacts DEF Init, Types
<1>2. \A f \in Fingerprints : ~Exists(f) /\ Rejections(f) = {}
  BY DEF Init, Exists, Rejections, NoEval
<1>3. CountIsExact /\ NewOnce
  BY <1>2, FS_EmptySet DEF CountIsExact, NewOnce
<1>4. WrittenByOne /\ \A r \in Runs : RunInv(r)
  BY NoJobTyped, DayFacts DEF Init, WrittenByOne, Written, RunInv, Quiet, Resolving, Evaluating,
     Undecided, Clock
<1> QED
  BY <1>1, <1>3, <1>4 DEF IInv

---------------------------------------------------------------------------
(* Steps of one run that commit nothing.                                   *)

\* Such a step keeps the invariant when it writes no row of another run and
\* keeps the invariant of its own.
LEMMA LocalStep ==
  ASSUME IInv, NEW r \in Runs, NEW step \in {"idle", "done"} \cup Steps, NEW j \in Job,
         Go(r, step, j), UNCHANGED <<today, identity, evals>>,
         \A f \in DOMAIN j.rows : ~Held(r, f),
         RunInv(r)'
  PROVE  IInv'
<1>1. /\ pc' \in [Runs -> {"idle", "done"} \cup Steps] /\ pc'[r] = step
      /\ job' \in [Runs -> Job] /\ job'[r] = j
      /\ \A s \in Runs \ {r} : pc'[s] = pc[s] /\ job'[s] = job[s]
  BY GoTyped DEF IInv
<1>2. Types'
  BY <1>1 DEF IInv, Types
<1>3. WrittenByOne'
  BY <1>1 DEF IInv, WrittenByOne, Written, Held
<1>4. \A s \in Runs : RunInv(s)'
  <2> SUFFICES ASSUME NEW s \in Runs \ {r} PROVE RunInv(s)'
    OBVIOUS
  <2>1. RunInv(s) /\ pc'[s] = pc[s] /\ job'[s] = job[s]
    BY <1>1 DEF IInv
  <2> QED
    BY <2>1 DEF RunInv, Quiet, Resolving, Evaluating, Undecided, Clock, Exists, Label, Before
<1>5. \A f : Rejections(f)' = Rejections(f) /\ Exists(f)' = Exists(f)
  BY DEF Rejections, Exists
<1>6. CountIsExact' /\ NewOnce'
  BY <1>5 DEF IInv, CountIsExact, NewOnce
<1> QED
  BY <1>2, <1>3, <1>4, <1>6 DEF IInv

\* A run that gives up or dies leaves its job empty.
LEMMA AbandonStep == ASSUME IInv, NEW r \in Runs, pc[r] \in Steps, Abandon(r) PROVE IInv'
<1>1. Go(r, "done", NoJob) /\ UNCHANGED <<today, identity, evals>>
  BY DEF Abandon
<1>2. pc'[r] = "done" /\ job'[r] = NoJob
  BY <1>1, GoTyped, NoJobTyped DEF IInv
<1>3. RunInv(r)'
  BY <1>1, <1>2, NoJobTyped DEF RunInv, Quiet, Resolving, Evaluating, Undecided, Clock, IInv, Types, Days
<1> QED
  BY <1>1, <1>3, NoJobTyped, LocalStep

LEMMA StartStep ==
  ASSUME IInv, NEW r \in Runs, NEW now \in Days, NEW asOf \in Days, Start(r, now, asOf)
  PROVE  IInv'
<1> DEFINE j == [NoJob EXCEPT !.now = now, !.asOf = asOf, !.lots = Lots]
<1>1. j \in Job /\ j.rows = NoJob.rows /\ j.made = NoJob.made /\ j.lots = Lots /\ j.now = now
  BY NoJobTyped DEF Job
<1>2. PICK step \in {"read", "gates"} : Go(r, step, j)
  BY DEF Start
<1>3. step \in Steps
  BY DEF Steps
<1>4. pc'[r] = step /\ job'[r] = j
  BY <1>1, <1>2, <1>3, GoTyped DEF IInv
<1>5. Undecided(r) /\ pc[r] = "idle" /\ now <= today /\ UNCHANGED <<today, identity, evals>>
  BY DEF IInv, RunInv, Start
<1> HIDE DEF j
<1>6. RunInv(r)'
  BY <1>1, <1>4, <1>5, NoJobTyped DEF RunInv, Quiet, Resolving, Evaluating, Undecided, Clock
<1> QED
  BY <1>1, <1>2, <1>3, <1>5, <1>6, NoJobTyped, LocalStep

\* resolve_expired reads rows that exist and are over.
LEMMA ResolveReadStep == ASSUME IInv, NEW r \in Runs, ResolveRead(r) PROVE IInv'
<1> DEFINE saw == [f \in Expired(job[r].now) |-> identity[f]]
           j == [job[r] EXCEPT !.saw = saw]
<1>1. /\ job[r] \in Job /\ RunInv(r) /\ pc[r] = "read" /\ Go(r, "resolve", j)
      /\ UNCHANGED <<today, identity, evals>> /\ "resolve" \in Steps
  BY JobFacts DEF IInv, ResolveRead, Steps
<1>2. \A f \in Expired(job[r].now) : f \in Fingerprints /\ Exists(f) /\ Over(f, job[r].now)
  BY DEF Expired
<1>3. saw \in Partial(Fingerprints, Row) /\ DOMAIN saw = Expired(job[r].now)
  <2>1. saw \in [Expired(job[r].now) -> Row]
    BY <1>2, ExistsTyped DEF IInv
  <2>2. Expired(job[r].now) \in SUBSET Fingerprints
    BY <1>2
  <2> QED
    BY <2>1, <2>2 DEF Partial
<1> HIDE DEF saw
<1>4. /\ j \in Job /\ j.rows = job[r].rows /\ j.made = job[r].made /\ j.saw = saw
      /\ j.now = job[r].now /\ j.lots = job[r].lots
  BY <1>1, <1>3 DEF Job
<1> HIDE DEF j
<1>5. pc'[r] = "resolve" /\ job'[r] = j
  BY <1>1, <1>4, GoTyped DEF IInv
<1>6. DOMAIN job[r].rows = {} /\ DOMAIN job[r].made = {}
  BY <1>1 DEF RunInv, Quiet
<1>7. RunInv(r)'
  BY <1>1, <1>2, <1>3, <1>4, <1>5, <1>6
     DEF RunInv, Quiet, Resolving, Evaluating, Undecided, Clock, Exists
<1> QED
  BY <1>1, <1>4, <1>6, <1>7, LocalStep

\* Resolving a row keeps what was counted in it.
LEMMA ResolveRowStep ==
  ASSUME IInv, NEW r \in Runs, NEW f \in Fingerprints, ResolveRow(r, f)
  PROVE  IInv'
<1> DEFINE saw == [g \in DOMAIN job[r].saw \ {f} |-> job[r].saw[g]]
           rows == Put(job[r].rows, f, Resolved(identity[f], job[r].saw[f]))
           j == [job[r] EXCEPT !.saw = saw, !.rows = rows]
<1>1. /\ job[r] \in Job /\ RunInv(r) /\ pc[r] = "resolve" /\ Go(r, "resolve", j)
      /\ UNCHANGED <<today, identity, evals>> /\ "resolve" \in Steps
      /\ f \in DOMAIN job[r].saw /\ ~Held(r, f)
  BY JobFacts DEF IInv, ResolveRow, Steps
<1>2. Exists(f) /\ Over(f, job[r].now) /\ identity[f] \in Row
  BY <1>1, ExistsTyped DEF RunInv, Resolving, IInv
<1>3. /\ Resolved(identity[f], job[r].saw[f]) \in Row
      /\ Resolved(identity[f], job[r].saw[f]) = [identity[f] EXCEPT !.status = "RESOLVED"]
  BY <1>2 DEF Resolved, Row, Status
<1>4. saw \in Partial(Fingerprints, Row) /\ DOMAIN saw = DOMAIN job[r].saw \ {f}
  <2>1. saw \in [DOMAIN job[r].saw \ {f} -> Row] /\ DOMAIN job[r].saw \ {f} \in SUBSET Fingerprints
    BY JobFacts DEF IInv
  <2> QED BY <2>1 DEF Partial
<1>5. /\ rows \in Partial(Fingerprints, Row) /\ DOMAIN rows = DOMAIN job[r].rows \cup {f}
      /\ rows[f] = Resolved(identity[f], job[r].saw[f])
      /\ \A g \in DOMAIN job[r].rows : g # f => rows[g] = job[r].rows[g]
  <2>1. job[r].rows \in Partial(Fingerprints, Row)
    BY JobFacts DEF IInv
  <2> DEFINE v == Resolved(identity[f], job[r].saw[f])
  <2>2. v \in Row
    BY <1>3
  <2> HIDE DEF v
  <2>3. /\ Put(job[r].rows, f, v) \in Partial(Fingerprints, Row)
        /\ DOMAIN Put(job[r].rows, f, v) = DOMAIN job[r].rows \cup {f}
        /\ Put(job[r].rows, f, v)[f] = v
        /\ \A g \in DOMAIN job[r].rows : g # f => Put(job[r].rows, f, v)[g] = job[r].rows[g]
    BY <2>1, <2>2, RowsPut
  <2> QED BY <2>3 DEF v
<1> HIDE DEF saw, rows
<1>6. /\ j \in Job /\ j.rows = rows /\ j.made = job[r].made /\ j.saw = saw
      /\ j.now = job[r].now /\ j.lots = job[r].lots
  BY <1>1, <1>4, <1>5 DEF Job
<1> HIDE DEF j
<1>7. pc'[r] = "resolve" /\ job'[r] = j
  BY <1>1, <1>6, GoTyped DEF IInv
<1>8. \A g \in DOMAIN rows : ~Held(r, g)
  <2>1. \A g \in DOMAIN job[r].rows : ~Held(r, g)
    BY JobFacts DEF IInv, WrittenByOne, Written, Held
  <2> QED BY <1>1, <1>5, <2>1
<1>9. RunInv(r)'
  <2>1. Resolving(r)'
    BY <1>1, <1>2, <1>3, <1>4, <1>5, <1>6, <1>7 DEF RunInv, Resolving, Exists
  <2> QED
    BY <1>1, <1>6, <1>7, <2>1 DEF RunInv, Quiet, Evaluating, Undecided, Clock
<1> QED
  BY <1>1, <1>6, <1>8, <1>9, LocalStep

\* What the actions at the gates have in common.
LEMMA AtGates ==
  ASSUME IInv, NEW r \in Runs, pc[r] \in {"gates", "upsert", "insert"}
  PROVE  /\ job[r] \in Job /\ Evaluating(r) /\ Undecided(r) /\ Clock(r)
         /\ \A g \in DOMAIN job[r].rows : ~Held(r, g)
         /\ DOMAIN job[r].made = Lots \ job[r].lots
         /\ \A g \in DOMAIN job[r].rows : g.lot \in DOMAIN job[r].made
<1>1. job[r] \in Job /\ RunInv(r) /\ WrittenByOne /\ DOMAIN job[r].rows \subseteq Fingerprints
  BY JobFacts DEF IInv
<1>2. \A g \in DOMAIN job[r].rows : ~Held(r, g)
  BY <1>1 DEF WrittenByOne, Written, Held
<1> QED
  BY <1>1, <1>2 DEF RunInv, Evaluating

\* Going on with the same rows and evaluations.
LEMMA ApproveStep == ASSUME IInv, NEW r \in Runs, NEW l \in Lots, Approve(r, l) PROVE IInv'
<1> DEFINE made == Put(job[r].made, l, Approval)
           j == [job[r] EXCEPT !.lots = @ \ {l}, !.made = made]
<1>1. /\ pc[r] = "gates" /\ l \in job[r].lots /\ Go(r, "gates", j) /\ "gates" \in Steps
      /\ UNCHANGED <<today, identity, evals>>
  BY DEF Approve, Steps
<1>2. /\ job[r] \in Job /\ Evaluating(r) /\ Undecided(r) /\ Clock(r)
      /\ \A g \in DOMAIN job[r].rows : ~Held(r, g)
      /\ DOMAIN job[r].made = Lots \ job[r].lots
      /\ \A g \in DOMAIN job[r].rows : g.lot \in DOMAIN job[r].made
  BY <1>1, AtGates
<1>3. /\ made \in Partial(Lots, Made) /\ DOMAIN made = DOMAIN job[r].made \cup {l}
      /\ made[l] = Approval /\ \A m \in DOMAIN job[r].made : m # l => made[m] = job[r].made[m]
  <2>1. job[r].made \in Partial(Lots, Made) /\ Approval \in Made
    BY JobFacts DEF IInv, Made
  <2> QED BY <2>1, MadePut
<1> HIDE DEF made
<1>4. /\ j \in Job /\ j.rows = job[r].rows /\ j.made = made /\ j.lots = job[r].lots \ {l}
      /\ j.now = job[r].now
  BY <1>2, <1>3 DEF Job
<1> HIDE DEF j
<1>5. pc'[r] = "gates" /\ job'[r] = j
  BY <1>1, <1>4, GoTyped DEF IInv
<1>6. Evaluating(r)'
  <2>1. DOMAIN j.made = Lots \ j.lots
    BY <1>1, <1>2, <1>3, <1>4
  <2>2. \A g \in DOMAIN j.rows : g.lot \in DOMAIN j.made /\ j.made[g.lot] = job[r].made[g.lot]
    BY <1>1, <1>2, <1>3, <1>4
  <2>3. \A m \in DOMAIN j.made : j.made[m] # Approval => m \in DOMAIN job[r].made /\ j.made[m] = job[r].made[m]
    BY <1>3, <1>4
  <2> QED
    BY <1>1, <1>2, <1>4, <1>5, <2>1, <2>2, <2>3 DEF Evaluating, Exists, Label, Before
<1>7. RunInv(r)'
  BY <1>1, <1>2, <1>4, <1>5, <1>6 DEF RunInv, Quiet, Resolving, Undecided, Clock
<1> QED
  BY <1>1, <1>2, <1>4, <1>7, LocalStep

LEMMA RejectStep ==
  ASSUME IInv, NEW r \in Runs, NEW l \in Lots, NEW code \in CodesOf[l], Reject(r, l, code)
  PROVE  IInv'
<1> DEFINE f == Fingerprint(l, code, job[r].asOf)
           j == [job[r] EXCEPT !.at = f]
<1>1. /\ pc[r] = "gates" /\ l \in job[r].lots /\ Go(r, "upsert", j) /\ "upsert" \in Steps
      /\ UNCHANGED <<today, identity, evals>>
  BY DEF Reject, Steps
<1>2. /\ job[r] \in Job /\ Evaluating(r) /\ Undecided(r) /\ Clock(r)
      /\ \A g \in DOMAIN job[r].rows : ~Held(r, g)
  BY <1>1, AtGates
<1>3. f \in Fingerprints /\ f.lot = l
  BY JobFacts, FingerprintShape DEF IInv
<1> HIDE DEF f
<1>4. /\ j \in Job /\ j.rows = job[r].rows /\ j.made = job[r].made /\ j.lots = job[r].lots
      /\ j.now = job[r].now /\ j.at = f
  BY <1>2, <1>3 DEF Job
<1> HIDE DEF j
<1>5. pc'[r] = "upsert" /\ job'[r] = j
  BY <1>1, <1>4, GoTyped DEF IInv
<1>6. Evaluating(r)'
  BY <1>1, <1>2, <1>3, <1>4, <1>5 DEF Evaluating, Exists, Label, Before
<1>7. RunInv(r)'
  BY <1>1, <1>2, <1>4, <1>5, <1>6 DEF RunInv, Quiet, Resolving, Undecided, Clock
<1> QED
  BY <1>1, <1>2, <1>4, <1>7, LocalStep

LEMMA NotFoundStep == ASSUME IInv, NEW r \in Runs, NotFound(r) PROVE IInv'
<1>1. /\ pc[r] = "upsert" /\ Go(r, "insert", job[r]) /\ "insert" \in Steps
      /\ UNCHANGED <<today, identity, evals>>
  BY DEF NotFound, Steps
<1>2. /\ job[r] \in Job /\ Evaluating(r) /\ Undecided(r) /\ Clock(r)
      /\ \A g \in DOMAIN job[r].rows : ~Held(r, g)
  BY <1>1, AtGates
<1>3. pc'[r] = "insert" /\ job'[r] = job[r]
  BY <1>1, <1>2, GoTyped DEF IInv
<1>4. RunInv(r)'
  BY <1>1, <1>2, <1>3
     DEF RunInv, Quiet, Resolving, Evaluating, Undecided, Clock, Exists, Label, Before
<1> QED
  BY <1>1, <1>2, <1>4, LocalStep

\* Writing the row of a fingerprint and the evaluation that names it.
LEMMA WriteStep ==
  ASSUME IInv, NEW r \in Runs, pc[r] \in {"upsert", "insert"}, NEW row, ~Held(r, job[r].at),
         [row EXCEPT !.latest = <<r, job[r].at.lot>>] \in Row,
         row.status = "ACTIVE", row.count = Before(job[r].at) + 1,
         Exists(job[r].at) => row.first = identity[job[r].at].first,
         Write(r, row, Label(job[r].at))
  PROVE  IInv'
<1> DEFINE f == job[r].at
           put == [row EXCEPT !.latest = <<r, f.lot>>]
           rows == Put(job[r].rows, f, put)
           made == Put(job[r].made, f.lot, Conflict(f, Label(f)))
           j == [job[r] EXCEPT !.at = NoEval, !.lots = @ \ {f.lot}, !.rows = rows, !.made = made]
<1>1. Go(r, "gates", j) /\ UNCHANGED <<today, identity, evals>> /\ "gates" \in Steps
  BY DEF Write, Steps
<1>2. /\ job[r] \in Job /\ Evaluating(r) /\ Undecided(r) /\ Clock(r)
      /\ \A g \in DOMAIN job[r].rows : ~Held(r, g)
      /\ DOMAIN job[r].made = Lots \ job[r].lots
      /\ \A g \in DOMAIN job[r].rows : g.lot \in DOMAIN job[r].made
  BY AtGates
<1>3. f \in Fingerprints /\ f.lot \in job[r].lots /\ job[r].lots \subseteq Lots
  BY <1>2, JobFacts DEF Evaluating, IInv
<1>4. /\ put \in Row /\ put.status = "ACTIVE" /\ put.count = Before(f) + 1
      /\ Exists(f) => put.first = identity[f].first
  BY DEF Row
<1> HIDE DEF put
<1>5. /\ rows \in Partial(Fingerprints, Row) /\ DOMAIN rows = DOMAIN job[r].rows \cup {f}
      /\ rows[f] = put /\ \A g \in DOMAIN job[r].rows : g # f => rows[g] = job[r].rows[g]
  <2>1. job[r].rows \in Partial(Fingerprints, Row)
    BY JobFacts DEF IInv
  <2> QED BY <1>3, <1>4, <2>1, RowsPut
<1>6. /\ made \in Partial(Lots, Made) /\ DOMAIN made = DOMAIN job[r].made \cup {f.lot}
      /\ made[f.lot] = Conflict(f, Label(f))
      /\ \A m \in DOMAIN job[r].made : m # f.lot => made[m] = job[r].made[m]
  <2>1. job[r].made \in Partial(Lots, Made) /\ Conflict(f, Label(f)) \in Made /\ f.lot \in Lots
    BY <1>3, JobFacts DEF IInv, Made, Label
  <2> QED BY <2>1, MadePut
<1> HIDE DEF rows, made
<1>7. /\ j \in Job /\ j.rows = rows /\ j.made = made /\ j.lots = job[r].lots \ {f.lot}
      /\ j.now = job[r].now
  BY <1>2, <1>5, <1>6 DEF Job
<1> HIDE DEF j
<1>8. pc'[r] = "gates" /\ job'[r] = j
  BY <1>1, <1>7, GoTyped DEF IInv
<1>9. Evaluating(r)'
  <2>1. DOMAIN j.made = Lots \ j.lots
    BY <1>2, <1>3, <1>6, <1>7
  <2>2. \A g \in DOMAIN job[r].rows : g # f /\ g.lot # f.lot
    BY <1>2, <1>3
  <2>3. Conflict(f, Label(f)).fp = f
    BY DEF Conflict
  <2>4. \A g \in DOMAIN j.rows :
          /\ g.lot \in DOMAIN j.made /\ j.made[g.lot] = Conflict(g, Label(g))
          /\ j.rows[g].status = "ACTIVE" /\ j.rows[g].count = Before(g) + 1
          /\ Exists(g) => j.rows[g].first = identity[g].first
    BY <1>2, <1>4, <1>5, <1>6, <1>7, <2>2 DEF Evaluating
  <2>5. \A l \in DOMAIN j.made : j.made[l] # Approval => j.made[l].fp \in DOMAIN j.rows /\ j.made[l].fp.lot = l
    BY <1>2, <1>5, <1>6, <1>7, <2>3 DEF Evaluating
  <2> QED
    BY <1>1, <1>8, <2>1, <2>4, <2>5 DEF Evaluating, Exists, Label, Before
<1>10. RunInv(r)'
  BY <1>1, <1>2, <1>7, <1>8, <1>9 DEF RunInv, Quiet, Resolving, Undecided, Clock
<1>11. \A g \in DOMAIN j.rows : ~Held(r, g)
  BY <1>2, <1>5, <1>7
<1> QED
  BY <1>1, <1>7, <1>10, <1>11, LocalStep

LEMMA FoundStep == ASSUME IInv, NEW r \in Runs, Found(r) PROVE IInv'
<1> DEFINE f == job[r].at
           row == Bumped(identity[f], job[r].now)
<1>1. /\ pc[r] = "upsert" /\ Exists(f) /\ ~Held(r, f) /\ Write(r, row, "STILL_ACTIVE")
  BY DEF Found, RowLocked
<1>2. f \in Fingerprints /\ f.lot \in Lots /\ job[r].now \in Days
  BY <1>1, AtGates, JobFacts DEF Evaluating, IInv
<1>3. identity[f] \in Row
  BY <1>1, <1>2, ExistsTyped DEF IInv
<1>4. /\ [row EXCEPT !.latest = <<r, f.lot>>] \in Row /\ row.status = "ACTIVE"
      /\ row.count = identity[f].count + 1 /\ row.first = identity[f].first
  <2> DEFINE old == identity[f]
  <2>1. old.count + 1 \in Nat /\ "ACTIVE" \in Status /\ <<r, f.lot>> \in Runs \X Lots
    BY <1>2, <1>3 DEF Row, Status
  <2> HIDE DEF old
  <2>2. row \in Row /\ row.status = "ACTIVE" /\ row.count = old.count + 1 /\ row.first = old.first
    BY <1>2, <1>3, <2>1 DEF Bumped, Row, Status, old
  <2> HIDE DEF row
  <2>3. [row EXCEPT !.latest = <<r, f.lot>>] \in Row
    BY <2>1, <2>2 DEF Row
  <2> QED
    BY <2>2, <2>3 DEF old
<1>5. Before(f) = identity[f].count /\ Label(f) = "STILL_ACTIVE"
  BY <1>1 DEF Before, Label
<1> HIDE DEF row
<1> QED
  BY <1>1, <1>4, <1>5, WriteStep

LEMMA InsertStep == ASSUME IInv, NEW r \in Runs, Insert(r) PROVE IInv'
<1> DEFINE f == job[r].at
           row == Fresh(job[r].now)
<1>1. pc[r] = "insert" /\ ~Exists(f) /\ ~Held(r, f) /\ Write(r, row, "NEW")
  BY DEF Insert, Unique
<1>2. f \in Fingerprints /\ f.lot \in Lots /\ job[r].now \in Days
  BY <1>1, AtGates, JobFacts DEF Evaluating, IInv
<1>3. [row EXCEPT !.latest = <<r, f.lot>>] \in Row /\ row.status = "ACTIVE" /\ row.count = 1
  BY <1>2 DEF Fresh, Row, Status
<1>4. Before(f) = 0 /\ Label(f) = "NEW"
  BY <1>1 DEF Before, Label
<1> HIDE DEF row
<1> QED
  BY <1>1, <1>3, <1>4, WriteStep

---------------------------------------------------------------------------
(* Commits.                                                                *)

\* A commit changes the rows the run has written, and makes none disappear.
LEMMA StoredFacts ==
  ASSUME IInv, NEW r \in Runs, identity' = Stored(r)
  PROVE  /\ identity' \in [Fingerprints -> Row \cup {NoIdentity}]
         /\ \A f \in Fingerprints :
              /\ Written(r, f) => identity'[f] = job[r].rows[f] /\ Exists(f)'
              /\ ~Written(r, f) => identity'[f] = identity[f]
              /\ Exists(f) => Exists(f)'
<1>1. \A f \in Fingerprints : Written(r, f) => job[r].rows[f] \in Row
  BY JobFacts DEF Written, IInv
<1>2. \A x \in Row : x # NoIdentity
  BY DEF Row, Status, NoIdentity
<1> QED
  BY <1>1, <1>2 DEF Stored, IInv, Types, Exists

\* Other runs do not notice: a commit writes none of their rows.
LEMMA OthersStay ==
  ASSUME IInv, NEW r \in Runs, identity' = Stored(r), NEW s \in Runs \ {r},
         pc'[s] = pc[s], job'[s] = job[s], evals'[s] = evals[s], today' = today
  PROVE  RunInv(s)'
<1>1. RunInv(s) /\ DOMAIN job[s].rows \subseteq Fingerprints /\ DOMAIN job[s].saw \subseteq Fingerprints
  BY JobFacts DEF IInv
<1>2. \A f \in DOMAIN job[s].rows : identity'[f] = identity[f]
  BY <1>1, StoredFacts DEF IInv, WrittenByOne, Written
<1>3. \A f \in DOMAIN job[s].saw : Exists(f) => Exists(f)'
  BY <1>1, StoredFacts
<1>4. \A f \in DOMAIN job[s].rows : Exists(f)' = Exists(f) /\ Label(f)' = Label(f) /\ Before(f)' = Before(f)
  BY <1>2 DEF Exists, Label, Before
<1>5. Resolving(s)'
  BY <1>1, <1>2, <1>3, <1>4 DEF RunInv, Resolving
<1>6. Evaluating(s)'
  BY <1>1, <1>2, <1>4 DEF RunInv, Evaluating
<1> QED
  BY <1>1, <1>5, <1>6 DEF RunInv, Quiet, Undecided, Clock

\* The rows are of the runs that go on.
LEMMA WrittenStays ==
  ASSUME IInv, NEW r \in Runs, DOMAIN job'[r].rows = {},
         \A s \in Runs \ {r} : job'[s] = job[s]
  PROVE  WrittenByOne'
  BY DEF IInv, WrittenByOne, Written

LEMMA ResolveCommitStep == ASSUME IInv, NEW r \in Runs, ResolveCommit(r) PROVE IInv'
<1> DEFINE j == [job[r] EXCEPT !.rows = Empty]
<1>1. /\ pc[r] = "resolve" /\ identity' = Stored(r) /\ Go(r, "gates", j)
      /\ UNCHANGED <<today, evals>> /\ "gates" \in Steps /\ job[r] \in Job /\ RunInv(r)
  BY JobFacts DEF ResolveCommit, Steps, IInv
<1>2. Empty \in Partial(Fingerprints, Row) /\ DOMAIN Empty = {}
  BY NoJobTyped DEF NoJob, Job
<1>3. /\ j \in Job /\ j.rows = Empty /\ j.made = job[r].made /\ j.lots = job[r].lots
      /\ j.now = job[r].now
  BY <1>1, <1>2 DEF Job
<1> HIDE DEF j
<1>4. /\ pc' \in [Runs -> {"idle", "done"} \cup Steps] /\ pc'[r] = "gates"
      /\ job' \in [Runs -> Job] /\ job'[r] = j
      /\ \A s \in Runs \ {r} : pc'[s] = pc[s] /\ job'[s] = job[s]
  BY <1>1, <1>3, GoTyped DEF IInv
<1>5. Types'
  BY <1>1, <1>4, StoredFacts DEF IInv, Types
<1>6. WrittenByOne'
  BY <1>2, <1>3, <1>4, WrittenStays
<1>7. RunInv(r)'
  BY <1>1, <1>2, <1>3, <1>4 DEF RunInv, Quiet, Resolving, Evaluating, Undecided, Clock
<1>8. \A s \in Runs : RunInv(s)'
  BY <1>1, <1>4, <1>7, OthersStay
<1>9. \A f \in Fingerprints :
        /\ Exists(f)' = Exists(f) /\ Rejections(f)' = Rejections(f)
        /\ Exists(f) => identity'[f].count = identity[f].count
  <2> SUFFICES ASSUME NEW f \in Fingerprints
               PROVE  /\ Exists(f)' = Exists(f)
                      /\ Exists(f) => identity'[f].count = identity[f].count
    BY <1>1 DEF Rejections
  <2>1. CASE Written(r, f)
    <3>1. /\ Exists(f) /\ identity'[f] = [identity[f] EXCEPT !.status = "RESOLVED"]
          /\ Exists(f)'
      BY <1>1, <2>1, StoredFacts DEF RunInv, Resolving, Written
    <3>2. identity[f] \in Row
      BY <3>1, ExistsTyped DEF IInv
    <3> QED BY <3>1, <3>2 DEF Row
  <2>2. CASE ~Written(r, f)
    BY <1>1, <2>2, StoredFacts DEF Exists
  <2> QED BY <2>1, <2>2
<1>10. CountIsExact'
  BY <1>9 DEF IInv, CountIsExact
<1>11. NewOnce'
  BY <1>1, <1>9 DEF IInv, NewOnce
<1> QED
  BY <1>5, <1>6, <1>8, <1>10, <1>11 DEF IInv

\* An evaluation that is committed adds itself to the rejections of the
\* fingerprints it has written, and to no other.
LEMMA CommitAdds ==
  ASSUME IInv, NEW r \in Runs, Commit(r), NEW f \in Fingerprints
  PROVE  /\ <<r, f.lot>> \notin Rejections(f)
         /\ Written(r, f) =>
              /\ Rejections(f)' = Rejections(f) \cup {<<r, f.lot>>}
              /\ evals'[r][f.lot] = Conflict(f, Label(f))
         /\ ~Written(r, f) => Rejections(f)' = Rejections(f)
<1>1. /\ Evaluating(r) /\ Undecided(r) /\ evals' = [evals EXCEPT ![r] = job[r].made]
      /\ pc[r] = "gates" /\ job[r].lots = {} /\ f.lot \in Lots
      /\ evals \in [Runs -> [Lots -> Made \cup {NoEval}]]
      /\ job[r].made \in Partial(Lots, Made) /\ DOMAIN job[r].made = Lots
  BY AtGates, JobFacts, FingerprintShape DEF Commit, IInv, Types
<1>2. /\ \A s \in Runs \ {r} : evals'[s] = evals[s]
      /\ evals'[r] = job[r].made
      /\ \A l \in Lots : evals[r][l] = NoEval
  BY <1>1 DEF Undecided
<1>3. \A l \in Lots : <<r, l>> \notin Rejections(f)
  BY <1>2 DEF Rejections, NoEval
<1>4. \A l \in Lots : <<r, l>> \in Rejections(f)' <=> (Written(r, f) /\ l = f.lot)
  <2> SUFFICES ASSUME NEW l \in Lots
               PROVE  (/\ evals'[r][l].label \in {"NEW", "STILL_ACTIVE"} /\ evals'[r][l].fp = f)
                      <=> (Written(r, f) /\ l = f.lot)
    BY DEF Rejections
  <2>1. CASE Written(r, f) /\ l = f.lot
    <3>1. evals'[r][l] = Conflict(f, Label(f))
      BY <1>1, <1>2, <2>1 DEF Evaluating, Written
    <3>2. Label(f) \in {"NEW", "STILL_ACTIVE"}
      BY DEF Label
    <3> QED BY <2>1, <3>1, <3>2 DEF Conflict
  <2>2. ASSUME evals'[r][l].label \in {"NEW", "STILL_ACTIVE"}, evals'[r][l].fp = f
        PROVE  Written(r, f) /\ l = f.lot
    BY <1>1, <1>2, <2>2 DEF Evaluating, Written, Approval
  <2> QED BY <2>1, <2>2
<1>5. \A x \in Runs \X Lots : x[1] # r => (x \in Rejections(f)' <=> x \in Rejections(f))
  BY <1>2 DEF Rejections
<1>6. Rejections(f) \subseteq Runs \X Lots /\ Rejections(f)' \subseteq Runs \X Lots
  BY DEF Rejections
<1>7. \A x \in Runs \X Lots : x[1] = r => x = <<r, x[2]>> /\ x[2] \in Lots
  OBVIOUS
<1>8. Written(r, f) => evals'[r][f.lot] = Conflict(f, Label(f))
  BY <1>1, <1>2 DEF Evaluating, Written
<1>9. <<r, f.lot>> \in Runs \X Lots
  BY <1>1
<1>10. \A x \in Runs \X Lots :
         x \in Rejections(f)' <=> (x \in Rejections(f) \/ (Written(r, f) /\ x = <<r, f.lot>>))
  <2> SUFFICES ASSUME NEW x \in Runs \X Lots
               PROVE  x \in Rejections(f)' <=> (x \in Rejections(f) \/ (Written(r, f) /\ x = <<r, f.lot>>))
    OBVIOUS
  <2>1. CASE x[1] = r
    BY <1>3, <1>4, <1>7, <2>1
  <2>2. CASE x[1] # r
    BY <1>5, <2>2
  <2> QED BY <2>1, <2>2
<1> QED
  BY <1>1, <1>3, <1>6, <1>8, <1>9, <1>10

\* There are finitely many rejections.
LEMMA FinitelyMany == \A f : IsFiniteSet(Rejections(f)) /\ IsFiniteSet(Rejections(f)')
<1>1. IsFiniteSet(Runs \X Lots)
  BY IdentitiesAssumption, FS_Product
<1>2. \A f : Rejections(f) \subseteq Runs \X Lots /\ Rejections(f)' \subseteq Runs \X Lots
  BY DEF Rejections
<1> QED
  BY <1>1, <1>2, FS_Subset

\* The evaluations that call a conflict new.
News(f) == {x \in Rejections(f) : evals[x[1]][x[2]].label = "NEW"}

LEMMA CommitCounts ==
  ASSUME IInv, NEW r \in Runs, Commit(r), NEW f \in Fingerprints
  PROVE  /\ (IF Exists(f)' THEN identity'[f].count ELSE 0) = Cardinality(Rejections(f)')
         /\ Exists(f)' => Cardinality(News(f)') = 1
<1>1. /\ identity' = Stored(r) /\ Evaluating(r) /\ Undecided(r) /\ pc[r] = "gates"
      /\ evals' = [evals EXCEPT ![r] = job[r].made]
  BY AtGates DEF Commit
<1>2. /\ Before(f) = Cardinality(Rejections(f))
      /\ Exists(f) => Cardinality(News(f)) = 1
  BY DEF IInv, CountIsExact, NewOnce, Before, News
<1>3. \A x \in Rejections(f) : x \in Runs \X Lots /\ x[1] # r
  BY <1>1 DEF Rejections, Undecided, NoEval
<1>4. \A x \in Rejections(f) : evals'[x[1]][x[2]] = evals[x[1]][x[2]]
  BY <1>1, <1>3 DEF IInv, Types
<1>5. CASE ~Written(r, f)
  <2>1. Rejections(f)' = Rejections(f) /\ identity'[f] = identity[f]
    BY <1>1, <1>5, CommitAdds, StoredFacts
  <2>2. News(f)' = News(f)
    BY <1>4, <2>1 DEF News
  <2> QED
    BY <1>2, <2>1, <2>2 DEF Exists, Before
<1>6. CASE Written(r, f)
  <2> DEFINE new == <<r, f.lot>>
  <2>1. /\ Rejections(f)' = Rejections(f) \cup {new} /\ new \notin Rejections(f)
        /\ evals'[new[1]][new[2]] = Conflict(f, Label(f))
    BY <1>6, CommitAdds
  <2>2. Exists(f)' /\ identity'[f].count = Before(f) + 1
    BY <1>1, <1>6, StoredFacts DEF Evaluating, Written
  <2>3. Cardinality(Rejections(f)') = Cardinality(Rejections(f)) + 1
    BY <2>1, FinitelyMany, FS_AddElement
  <2>4. CASE Exists(f)
    <3>1. evals'[new[1]][new[2]].label = "STILL_ACTIVE"
      BY <2>1, <2>4 DEF Conflict, Label
    <3>2. News(f)' = News(f)
      BY <1>4, <2>1, <3>1 DEF News
    <3> QED
      BY <1>2, <2>2, <2>3, <2>4, <3>2
  <2>5. CASE ~Exists(f)
    <3>1. evals'[new[1]][new[2]].label = "NEW"
      BY <2>1, <2>5 DEF Conflict, Label
    <3>2. Rejections(f) = {}
      BY <1>2, <2>5, FinitelyMany, FS_EmptySet DEF Before
    <3>3. News(f)' = {new}
      BY <2>1, <3>1, <3>2 DEF News
    <3>4. Cardinality({new}) = 1
      BY FS_Singleton
    <3> QED
      BY <1>2, <2>2, <2>3, <3>3, <3>4
  <2> QED
    BY <2>4, <2>5
<1> QED
  BY <1>5, <1>6

LEMMA CommitStep == ASSUME IInv, NEW r \in Runs, Commit(r) PROVE IInv'
<1>1. /\ pc[r] = "gates" /\ job[r].lots = {} /\ identity' = Stored(r)
      /\ evals' = [evals EXCEPT ![r] = job[r].made] /\ Go(r, "done", NoJob) /\ today' = today
      /\ Evaluating(r) /\ DOMAIN job[r].made = Lots
  BY AtGates DEF Commit
<1>2. /\ pc' \in [Runs -> {"idle", "done"} \cup Steps] /\ pc'[r] = "done"
      /\ job' \in [Runs -> Job] /\ job'[r] = NoJob
      /\ \A s \in Runs \ {r} : pc'[s] = pc[s] /\ job'[s] = job[s]
  BY <1>1, NoJobTyped, GoTyped DEF IInv
<1>3. evals' \in [Runs -> [Lots -> Made \cup {NoEval}]] /\ \A s \in Runs \ {r} : evals'[s] = evals[s]
  <2>1. job[r].made \in [Lots -> Made \cup {NoEval}]
    BY <1>1, JobFacts DEF IInv, Partial
  <2> QED BY <1>1, <2>1 DEF IInv, Types
<1>4. Types'
  BY <1>1, <1>2, <1>3, StoredFacts DEF IInv, Types
<1>5. WrittenByOne'
  BY <1>2, NoJobTyped, WrittenStays
<1>6. RunInv(r)'
  BY <1>1, <1>2, NoJobTyped
     DEF RunInv, Quiet, Resolving, Evaluating, Undecided, Clock, IInv, Types, Days
<1>7. \A s \in Runs : RunInv(s)'
  BY <1>1, <1>2, <1>3, <1>6, OthersStay
<1>8. CountIsExact' /\ NewOnce'
  BY CommitCounts DEF CountIsExact, NewOnce, News
<1> QED
  BY <1>4, <1>5, <1>7, <1>8 DEF IInv

---------------------------------------------------------------------------
(* Every step.                                                             *)

LEMMA NextDayStep == ASSUME IInv, NextDay PROVE IInv'
<1>1. /\ today' = today + 1 /\ today < MaxDay /\ UNCHANGED <<identity, evals, pc, job>>
      /\ today \in Days /\ MaxDay \in Nat
  BY IdentitiesAssumption DEF NextDay, IInv, Types
<1>2. today' \in Days /\ today \in Int
  BY <1>1 DEF Days
<1>3. Types' /\ WrittenByOne' /\ CountIsExact' /\ NewOnce'
  BY <1>1, <1>2
     DEF IInv, Types, WrittenByOne, Written, CountIsExact, NewOnce, Rejections, Exists
<1>4. \A r \in Runs : job[r].now \in Int
  <2>1. \A r \in Runs : job[r].now \in Days
    BY JobFacts DEF IInv
  <2>2. \A d \in Days : d \in Int
    BY DayFacts
  <2> QED BY <2>1, <2>2
<1>5. \A r \in Runs : RunInv(r)'
  BY <1>1, <1>2, <1>4
     DEF IInv, RunInv, Quiet, Resolving, Evaluating, Undecided, Clock, Exists, Label, Before
<1> QED
  BY <1>3, <1>5 DEF IInv

LEMMA NextStep == ASSUME IInv, [Next]_vars PROVE IInv'
<1>1. CASE NextDay
  BY <1>1, NextDayStep
<1>2. ASSUME NEW r \in Runs, \E now, asOf \in Days : Start(r, now, asOf) PROVE IInv'
  BY <1>2, StartStep
<1>3. ASSUME NEW r \in Runs, Step(r) PROVE IInv'
  <2>1. CASE ResolveRead(r)
    BY <2>1, ResolveReadStep
  <2>2. CASE \E f \in Fingerprints : ResolveRow(r, f)
    BY <2>2, ResolveRowStep
  <2>3. CASE ResolveCommit(r)
    BY <2>3, ResolveCommitStep
  <2>4. CASE \E l \in Lots : Approve(r, l)
    BY <2>4, ApproveStep
  <2>5. CASE \E l \in Lots : \E code \in CodesOf[l] : Reject(r, l, code)
    BY <2>5, RejectStep
  <2>6. CASE Found(r)
    BY <2>6, FoundStep
  <2>7. CASE NotFound(r)
    BY <2>7, NotFoundStep
  <2>8. CASE Insert(r)
    BY <2>8, InsertStep
  <2>9. CASE InsertConflict(r)
    BY <2>9, AbandonStep DEF InsertConflict, Steps
  <2>10. CASE Commit(r)
    BY <2>10, CommitStep
  <2>11. CASE BreakDeadlock(r)
    <3>1. Wants(r) # {}
      BY <2>11 DEF BreakDeadlock, WaitsFor
    <3>2. pc[r] \in Steps
      BY <3>1 DEF Wants, Steps
    <3> QED BY <2>11, <3>2, AbandonStep DEF BreakDeadlock
  <2> QED
    BY <1>3, <2>1, <2>2, <2>3, <2>4, <2>5, <2>6, <2>7, <2>8, <2>9, <2>10, <2>11 DEF Step
<1>4. ASSUME NEW r \in Runs, Crash(r) PROVE IInv'
  BY <1>4, AbandonStep DEF Crash
<1>5. CASE UNCHANGED vars
  BY <1>5
     DEF vars, IInv, Types, WrittenByOne, Written, RunInv, Quiet, Resolving, Evaluating, Undecided,
         Clock, Exists, Label, Before, CountIsExact, NewOnce, Rejections
<1> QED
  BY <1>1, <1>2, <1>3, <1>4, <1>5 DEF Next, Idle

---------------------------------------------------------------------------
(* Theorems.                                                               *)

\* The rows, what is not committed of them and the evaluations fit together in
\* every state the runs and rechecks can reach.
THEOREM IdentitiesInvariant == Spec => []IInv
  BY InitInv, NextStep, PTL DEF Spec

\* Each committed evaluation of a conflict has been counted once in its row,
\* and exactly one of them is labelled NEW (ConflictService.upsert).
THEOREM Counted == Spec => []EvaluationsCount
<1>1. IInv => EvaluationsCount
  BY DEF IInv, EvaluationsCount
<1> QED
  BY <1>1, IdentitiesInvariant, PTL

\* No step forgets a conflict, the day it was first seen or a count of it.
Kept ==
  \A f \in Fingerprints :
    Exists(f) => /\ identity'[f] # NoIdentity
                 /\ identity'[f].first = identity[f].first
                 /\ identity'[f].count >= identity[f].count

LEMMA StoredKeeps ==
  ASSUME IInv, NEW r \in Runs, identity' = Stored(r), pc[r] \in {"resolve", "gates"}
  PROVE  Kept
<1> SUFFICES ASSUME NEW f \in Fingerprints, Exists(f)
             PROVE  /\ identity'[f] # NoIdentity
                    /\ identity'[f].first = identity[f].first
                    /\ identity'[f].count >= identity[f].count
  BY DEF Kept
<1>1. identity'[f] # NoIdentity
  BY StoredFacts DEF Exists
<1>2. identity[f].count \in Nat
  BY ExistsTyped DEF IInv, Row
<1>3. CASE Written(r, f)
  <2>1. identity'[f] = job[r].rows[f] /\ f \in DOMAIN job[r].rows /\ RunInv(r) /\ identity[f] \in Row
    BY <1>3, StoredFacts, ExistsTyped DEF IInv, Written
  <2>2. CASE pc[r] = "resolve"
    <3>1. identity'[f] = [identity[f] EXCEPT !.status = "RESOLVED"]
      BY <2>1, <2>2 DEF RunInv, Resolving
    <3> QED BY <1>1, <1>2, <2>1, <3>1 DEF Row
  <2>3. CASE pc[r] = "gates"
    BY <1>1, <1>2, <2>1, <2>3 DEF RunInv, Evaluating, Before
  <2> QED BY <2>2, <2>3
<1>4. CASE ~Written(r, f)
  BY <1>1, <1>2, <1>4, StoredFacts
<1> QED
  BY <1>3, <1>4

\* A conflict that was recorded stays recorded, since the day it was first seen,
\* with no count taken back: resolving updates a status, evaluating counts up.
THEOREM NothingIsForgotten == Spec => HistoryIsKept
<1>1. ASSUME IInv, [Next]_vars PROVE Kept \/ UNCHANGED vars
  <2>1. CASE identity' = identity
    <3>1. \A f \in Fingerprints : Exists(f) => identity[f].count \in Nat
      BY <1>1, ExistsTyped DEF IInv, Row
    <3> QED BY <2>1, <3>1 DEF Kept, Exists
  <2>2. ASSUME NEW r \in Runs, ResolveCommit(r) \/ Commit(r) PROVE Kept
    BY <1>1, <2>2, StoredKeeps DEF ResolveCommit, Commit
  <2> QED
    BY <1>1, <2>1, <2>2
       DEF Next, Step, Idle, vars, NextDay, Start, Crash, Abandon, ResolveRead, ResolveRow, Approve, Reject,
           Found, NotFound, Insert, InsertConflict, BreakDeadlock, Write
<1>2. IInv /\ [Next]_vars => [Kept]_vars
  BY <1>1
<1> QED
  BY <1>2, IdentitiesInvariant, PTL DEF Spec, HistoryIsKept, Kept

\* A step that ends no evaluation changes at most the status of a conflict that
\* is over, and one that ends an evaluation leaves its conflicts active.
Undisturbed ==
  \A f \in Fingerprints :
    IF Rejections(f)' # Rejections(f) THEN identity'[f].status = "ACTIVE"
    ELSE identity'[f] # identity[f] =>
           /\ Exists(f) /\ f.end # None /\ f.end < today
           /\ identity'[f] = [identity[f] EXCEPT !.status = "RESOLVED"]

LEMMA ResolveUndisturbs == ASSUME IInv, NEW r \in Runs, ResolveCommit(r) PROVE Undisturbed
<1> SUFFICES ASSUME NEW f \in Fingerprints
             PROVE  /\ Rejections(f)' = Rejections(f)
                    /\ identity'[f] # identity[f] =>
                         /\ Exists(f) /\ f.end # None /\ f.end < today
                         /\ identity'[f] = [identity[f] EXCEPT !.status = "RESOLVED"]
  BY DEF Undisturbed
<1>1. pc[r] = "resolve" /\ identity' = Stored(r) /\ evals' = evals /\ RunInv(r)
  BY DEF ResolveCommit, IInv
<1>2. Rejections(f)' = Rejections(f)
  BY <1>1 DEF Rejections
<1>3. ASSUME Written(r, f)
      PROVE  /\ Exists(f) /\ f.end # None /\ f.end < today
             /\ identity'[f] = [identity[f] EXCEPT !.status = "RESOLVED"]
  <2>1. f.end \in Int /\ job[r].now \in Int /\ today \in Int
    BY FingerprintShape, JobFacts, DayFacts DEF IInv, Types
  <2>2. /\ Exists(f) /\ Over(f, job[r].now) /\ job[r].now <= today
        /\ job[r].rows[f] = [identity[f] EXCEPT !.status = "RESOLVED"]
    BY <1>1, <1>3 DEF RunInv, Resolving, Written, Clock
  <2>3. identity'[f] = job[r].rows[f]
    BY <1>1, <1>3, StoredFacts
  <2> QED BY <2>1, <2>2, <2>3 DEF Over
<1>4. ~Written(r, f) => identity'[f] = identity[f]
  BY <1>1, StoredFacts
<1> QED
  BY <1>2, <1>3, <1>4

LEMMA CommitUndisturbs == ASSUME IInv, NEW r \in Runs, Commit(r) PROVE Undisturbed
<1> SUFFICES ASSUME NEW f \in Fingerprints
             PROVE  IF Rejections(f)' # Rejections(f) THEN identity'[f].status = "ACTIVE"
                    ELSE identity'[f] = identity[f]
  BY DEF Undisturbed
<1>1. identity' = Stored(r) /\ Evaluating(r) /\ pc[r] = "gates"
  BY AtGates DEF Commit
<1>2. CASE Written(r, f)
  <2>1. Rejections(f)' # Rejections(f)
    BY <1>2, CommitAdds
  <2>2. identity'[f].status = "ACTIVE"
    BY <1>1, <1>2, StoredFacts DEF Evaluating, Written
  <2> QED BY <2>1, <2>2
<1>3. CASE ~Written(r, f)
  BY <1>1, <1>3, CommitAdds, StoredFacts
<1> QED
  BY <1>2, <1>3

\* resolve_expired takes nothing back of what other runs have committed since it
\* loaded the rows, and an evaluation that is committed re-activates what was
\* resolved meanwhile.
THEOREM ResolvingIsSafe == Spec => ResolvingUndoesNothing
<1>1. ASSUME IInv, [Next]_vars PROVE Undisturbed \/ UNCHANGED vars
  <2>1. CASE UNCHANGED <<identity, evals>>
    BY <2>1 DEF Undisturbed, Rejections
  <2>2. ASSUME NEW r \in Runs, ResolveCommit(r) PROVE Undisturbed
    BY <1>1, <2>2, ResolveUndisturbs
  <2>3. ASSUME NEW r \in Runs, Commit(r) PROVE Undisturbed
    BY <1>1, <2>3, CommitUndisturbs
  <2> QED
    BY <1>1, <2>1, <2>2, <2>3
       DEF Next, Step, Idle, vars, NextDay, Start, Crash, Abandon, ResolveRead, ResolveRow, Approve, Reject,
           Found, NotFound, Insert, InsertConflict, BreakDeadlock, Write
<1>2. IInv /\ [Next]_vars => [Undisturbed]_vars
  BY <1>1
<1> QED
  BY <1>2, IdentitiesInvariant, PTL DEF Spec, ResolvingUndoesNothing, Undisturbed
=============================================================================
