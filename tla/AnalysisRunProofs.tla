------------------------- MODULE AnalysisRunProofs -------------------------
(***************************************************************************)
(* Theorems about AnalysisRun.  Whatever requests work on a run at the     *)
(* same time: types, the exclusive lock, the order of the stages and the   *)
(* agreement of decisions and evaluations, and what is final.  Where one   *)
(* request at a time works on a run: its locks and its end.                *)
(***************************************************************************)
EXTENDS AnalysisRun, TLAPS

\* The rows no action of this group touches.
rows == <<run, lock, cand, evaluation>>

\* An idle request's record is well formed, and so is a fresh call's.
LEMMA NoJobTyped ==
  /\ NoJob \in Job
  /\ \A kind \in RequestKinds, k \in Keys : Asked(kind, k) \in Job
  /\ \A kind, k : /\ Asked(kind, k).kind = kind
                  /\ Asked(kind, k).key = k
                  /\ Asked(kind, k).draft = NoDraft
                  /\ Asked(kind, k).work = {}
<1>1. (CHOOSE k \in Keys : TRUE) \in Keys
  BY ConstantsAssumption
<1>2. (CHOOSE p \in Portfolios : TRUE) \in Portfolios
  BY ConstantsAssumption
<1>3. (CHOOSE l \in Lots : TRUE) \in Lots
  BY ConstantsAssumption
<1>4. NoDraft \in Draft
  BY DEF NoDraft, Draft
<1>5. NoJob \in Job
  BY <1>1, <1>2, <1>3, <1>4 DEF NoJob, Job, RunStatus, CandidateStatus
<1>6. \A kind \in RequestKinds, k \in Keys : Asked(kind, k) \in Job
  BY <1>5 DEF Asked, Job
<1>7. \A kind, k : /\ Asked(kind, k).kind = kind
                   /\ Asked(kind, k).key = k
                   /\ Asked(kind, k).draft = NoDraft
                   /\ Asked(kind, k).work = {}
  BY DEF Asked, NoJob
<1> QED BY <1>5, <1>6, <1>7

\* A request that goes on keeps its own and everybody else's record typed.
LEMMA GoTyped ==
  ASSUME TypeOK, NEW q \in Requests, NEW step \in {"idle", "done"} \cup Steps,
         NEW j \in Job, Go(q, step, j)
  PROVE  /\ pc' \in [Requests -> {"idle", "done"} \cup Steps]
         /\ job' \in [Requests -> Job]
         /\ pc'[q] = step
         /\ job'[q] = j
         /\ \A r \in Requests \ {q} : pc'[r] = pc[r] /\ job'[r] = job[r]
BY DEF Go, TypeOK

\* A request that ends keeps everybody else's record.
LEMMA EndTyped ==
  ASSUME TypeOK, NEW q \in Requests, End(q)
  PROVE  /\ pc' \in [Requests -> {"idle", "done"} \cup Steps]
         /\ job' \in [Requests -> Job]
         /\ pc'[q] = "done"
         /\ job'[q] = NoJob
         /\ \A r \in Requests \ {q} : pc'[r] = pc[r] /\ job'[r] = job[r]
BY NoJobTyped, GoTyped DEF End

\* What follows a proposal is the end or the evaluation of the same run.
LEMMA AnswerTyped ==
  ASSUME TypeOK, NEW q \in Requests, NEW kind \in RequestKinds, NEW k \in Keys,
         NEW s, Answer(q, kind, k, s)
  PROVE  /\ pc' \in [Requests -> {"idle", "done"} \cup Steps]
         /\ job' \in [Requests -> Job]
         /\ \/ pc'[q] = "done" /\ job'[q] = NoJob
            \/ pc'[q] = "e_read" /\ job'[q] = Asked(kind, k)
         /\ \A r \in Requests \ {q} : pc'[r] = pc[r] /\ job'[r] = job[r]
<1>1. PICK n \in AfterProposal(kind, s) :
        IF n = "done" THEN End(q) ELSE Go(q, n, Asked(kind, k))
  BY DEF Answer
<1>2. n \in {"done", "e_read"}
  BY <1>1 DEF AfterProposal
<1>3. CASE n = "done"
  BY <1>1, <1>3, EndTyped
<1>4. CASE n = "e_read"
  <2>1. Go(q, "e_read", Asked(kind, k))
    BY <1>1, <1>4
  <2>2. Asked(kind, k) \in Job
    BY NoJobTyped
  <2> QED BY <2>1, <2>2, GoTyped DEF Steps
<1> QED BY <1>2, <1>3, <1>4

---------------------------------------------------------------------------
(* Types.                                                                  *)

\* What every action of request q does to the records of the requests.
Framed(q) ==
  /\ pc' \in [Requests -> {"idle", "done"} \cup Steps]
  /\ job' \in [Requests -> Job]
  /\ \A r \in Requests \ {q} : pc'[r] = pc[r] /\ job'[r] = job[r]

\* A call only writes the record of its own request.
LEMMA CallFramed ==
  ASSUME TypeOK, NEW q \in Requests, Call(q)
  PROVE  Framed(q) /\ UNCHANGED rows
<1>1. ASSUME NEW k \in Keys, NEW kind \in {"propose", "analyse"},
             ProposeReuse(q, kind, k)
      PROVE  Framed(q) /\ UNCHANGED rows
  <2>1. kind \in RequestKinds
    BY DEF RequestKinds
  <2> QED BY <1>1, <2>1, AnswerTyped DEF ProposeReuse, Framed, rows
<1>2. ASSUME NEW k \in Keys, NEW kind \in {"propose", "analyse"},
             ProposeTakeOver(q, kind, k)
      PROVE  Framed(q) /\ UNCHANGED rows
  <2>1. [Asked(kind, k) EXCEPT !.saw = run[k]] \in Job
    <3>1. Asked(kind, k) \in Job
      BY NoJobTyped DEF RequestKinds
    <3>2. run[k] \in RunStatus
      BY DEF TypeOK
    <3> QED BY <3>1, <3>2 DEF Job
  <2> QED BY <1>2, <2>1, GoTyped DEF ProposeTakeOver, Framed, rows, Steps
<1>3. ASSUME NEW k \in Keys, NEW kind \in {"propose", "analyse"},
             ProposeNew(q, kind, k)
      PROVE  Framed(q) /\ UNCHANGED rows
  <2>1. Asked(kind, k) \in Job
    BY NoJobTyped DEF RequestKinds
  <2> QED BY <1>3, <2>1, GoTyped DEF ProposeNew, Framed, rows, Steps
<1>4. ASSUME NEW k \in Keys, EvaluateCall(q, k)
      PROVE  Framed(q) /\ UNCHANGED rows
  <2>1. Asked("evaluate", k) \in Job
    BY NoJobTyped DEF RequestKinds
  <2> QED BY <1>4, <2>1, GoTyped DEF EvaluateCall, Framed, rows, Steps
<1>5. ASSUME NEW k \in Keys, NEW l \in Lots, ReevaluateCall(q, k, l)
      PROVE  Framed(q) /\ UNCHANGED rows
  <2>1. [Asked("reevaluate", k) EXCEPT
                        !.lot = l, !.was = cand[k][l]] \in Job
    <3>1. Asked("reevaluate", k) \in Job
      BY NoJobTyped DEF RequestKinds
    <3>2. cand[k][l] \in CandidateStatus
      BY DEF TypeOK
    <3> QED BY <3>1, <3>2 DEF Job
  <2>2. CASE CanTransition(cand[k][l])
    BY <1>5, <2>1, <2>2, GoTyped DEF ReevaluateCall, Framed, rows, Steps
  <2>3. CASE ~CanTransition(cand[k][l])
    BY <1>5, <2>3, EndTyped DEF ReevaluateCall, Framed, rows
  <2> QED BY <2>2, <2>3
<1> QED
  <2>1. CASE \E k \in Keys, kind \in {"propose", "analyse"} :
               \/ ProposeReuse(q, kind, k)
               \/ ProposeTakeOver(q, kind, k)
               \/ ProposeNew(q, kind, k)
    <3>1. PICK k \in Keys, kind \in {"propose", "analyse"} :
            \/ ProposeReuse(q, kind, k)
            \/ ProposeTakeOver(q, kind, k)
            \/ ProposeNew(q, kind, k)
      BY <2>1
    <3> QED BY <3>1, <1>1, <1>2, <1>3
  <2>2. CASE \E k \in Keys : EvaluateCall(q, k)
    BY <2>2, <1>4
  <2>3. CASE \E k \in Keys, l \in Lots : ReevaluateCall(q, k, l)
    BY <2>3, <1>5
  <2> QED BY <2>1, <2>2, <2>3 DEF Call

\* No action writes another request's record.
LEMMA StepFramed ==
  ASSUME TypeOK, NEW q \in Requests,
         Step(q) \/ ProposeFail(q) \/ Crash(q)
  PROVE  Framed(q)
<1> USE DEF Framed
<1> job[q] \in Job
  BY DEF TypeOK
<1> job[q].key \in Keys /\ job[q].kind \in {"none"} \cup RequestKinds
  BY DEF Job
<1> NoJob \in Job
  BY NoJobTyped
<1>0. ASSUME NEW s, Answer(q, job[q].kind, job[q].key, s)
      PROVE  Framed(q)
  <2>1. PICK n \in AfterProposal(job[q].kind, s) :
          IF n = "done" THEN End(q) ELSE Go(q, n, Asked(job[q].kind, job[q].key))
    BY <1>0 DEF Answer
  <2>2. n \in {"done", "e_read"}
    BY DEF AfterProposal
  <2>3. Asked(job[q].kind, job[q].key) \in Job
    BY DEF Asked, Job
  <2> QED BY <2>1, <2>2, <2>3, EndTyped, GoTyped DEF Steps
<1>1. ASSUME ProposeInsert(q) PROVE Framed(q)
  <2>1. [job[q] EXCEPT !.saw = "PENDING"] \in Job
    BY DEF Job, RunStatus
  <2>2. CASE run[job[q].key] = "NONE"
    BY <1>1, <2>1, <2>2, GoTyped DEF ProposeInsert, Steps
  <2>3. CASE run[job[q].key] # "NONE"
    BY <1>1, <2>3, <1>0 DEF ProposeInsert
  <2> QED BY <2>2, <2>3
<1>2. ASSUME ProposeStart(q) PROVE Framed(q)
  <2>1. [job[q] EXCEPT !.saw = "NONE", !.todo = Portfolios] \in Job
    BY DEF Job, RunStatus
  <2> QED BY <1>2, <2>1, GoTyped DEF ProposeStart, Steps
<1>3. ASSUME NEW p \in Portfolios, ProposeLock(q, p) PROVE Framed(q)
  <2>1. [job[q] EXCEPT !.todo = @ \ {p}, !.at = p] \in Job
    BY DEF Job
  <2>2. [job[q] EXCEPT !.todo = @ \ {p}, !.failed = TRUE] \in Job
    BY DEF Job
  <2> QED BY <1>3, <2>1, <2>2, GoTyped DEF ProposeLock, Steps
<1>4. ASSUME ProposePersist(q) PROVE Framed(q)
  <2>1. [job[q] EXCEPT !.at = NoJob.at] \in Job
    BY DEF Job
  <2> QED BY <1>4, <2>1, GoTyped DEF ProposePersist, Steps
<1>5. ASSUME ProposeFail(q) PROVE Framed(q)
  <2>1. [job[q] EXCEPT !.at = NoJob.at, !.failed = TRUE] \in Job
    BY DEF Job
  <2> QED BY <1>5, <2>1, GoTyped DEF ProposeFail, Steps
<1>6. ASSUME ProposeFinish(q) PROVE Framed(q)
  BY <1>6, <1>0 DEF ProposeFinish
<1>7. ASSUME EvaluateRead(q) PROVE Framed(q)
  <2>1. Scope(job[q].key) \subseteq Portfolios
    BY ConstantsAssumption DEF Scope, Proposed
  <2>2. [job[q] EXCEPT !.todo = Scope(job[q].key)] \in Job
    BY <2>1 DEF Job
  <2>3. CASE Over(job[q].key)
    BY <1>7, <2>3, EndTyped DEF EvaluateRead
  <2>4. CASE ~Over(job[q].key)
    BY <1>7, <2>2, <2>4, GoTyped DEF EvaluateRead, Steps
  <2> QED BY <2>3, <2>4
<1>8. ASSUME NEW p \in Portfolios, EvaluatePending(q, p) PROVE Framed(q)
  <2>1. [job[q] EXCEPT !.todo = @ \ {p}, !.at = p,
           !.work = {l \in Mine(p) : cand[job[q].key][l] = "PENDING"}] \in Job
    BY DEF Job, Mine
  <2> QED BY <1>8, <2>1, GoTyped DEF EvaluatePending, Steps
<1>9. ASSUME NEW l \in Lots, EvaluateCheck(q, l) PROVE Framed(q)
  <2> DEFINE j == [job[q] EXCEPT !.work = @ \ {l}]
  <2>1. j \in Job
    BY DEF Job
  <2>2. [j EXCEPT !.lot = l] \in Job
    BY <2>1 DEF Job
  <2>3. CASE evaluation[j.key][l] # NoEvaluation
    BY <1>9, <2>1, <2>3, GoTyped DEF EvaluateCheck, Steps
  <2>4. CASE evaluation[j.key][l] = NoEvaluation
    BY <1>9, <2>2, <2>4, GoTyped DEF EvaluateCheck, Steps
  <2> QED BY <2>3, <2>4
<1>10. ASSUME NEW v \in Verdicts, EvaluateStore(q, v) PROVE Framed(q)
  <2>1. [job[q] EXCEPT !.draft[job[q].lot] = v, !.lot = NoJob.lot] \in Job
    BY DEF Job, Draft
  <2> QED BY <1>10, <2>1, GoTyped DEF EvaluateStore, Steps
<1>11. ASSUME EvaluateCommit(q) PROVE Framed(q)
  <2>1. [job[q] EXCEPT !.draft = NoDraft] \in Job
    BY DEF Job, Draft, NoDraft
  <2> QED BY <1>11, <2>1, GoTyped DEF EvaluateCommit, Steps
<1>12. ASSUME RankRead(q) PROVE Framed(q)
  <2>1. [job[q] EXCEPT !.work = Approved(job[q].key) \cap Mine(job[q].at)]
          \in Job
    BY DEF Job, Mine, Approved
  <2> QED BY <1>12, <2>1, GoTyped DEF RankRead, Steps
<1>13. ASSUME NEW chosen \in SUBSET Lots, RankCommit(q, chosen)
       PROVE  Framed(q)
  <2>1. [job[q] EXCEPT !.work = {}, !.at = NoJob.at] \in Job
    BY DEF Job
  <2> QED BY <1>13, <2>1, GoTyped DEF RankCommit, Steps
<1>14. ASSUME EvaluateFinish(q) PROVE Framed(q)
  BY <1>14, EndTyped DEF EvaluateFinish
<1>15. ASSUME NEW v \in Verdicts, ReevaluateStore(q, v) PROVE Framed(q)
  BY <1>15, EndTyped DEF ReevaluateStore
<1>16. ASSUME BreakDeadlock(q) \/ Crash(q) PROVE Framed(q)
  BY <1>16, EndTyped DEF BreakDeadlock, Crash
<1> QED BY <1>1, <1>2, <1>3, <1>4, <1>5, <1>6, <1>7, <1>8, <1>9, <1>10,
           <1>11, <1>12, <1>13, <1>14, <1>15, <1>16 DEF Step

\* The actions that write a row.
Writes(q) ==
  \/ ProposeInsert(q)
  \/ ProposeStart(q)
  \/ ProposePersist(q)
  \/ ProposeFinish(q)
  \/ EvaluateCommit(q)
  \/ \E chosen \in SUBSET Lots : RankCommit(q, chosen)
  \/ EvaluateFinish(q)
  \/ \E v \in Verdicts : ReevaluateStore(q, v)

\* Every other action leaves the rows alone.
LEMMA OthersKeepRows ==
  ASSUME NEW q \in Requests, Step(q) \/ ProposeFail(q) \/ Crash(q),
         ~Writes(q)
  PROVE  UNCHANGED rows
BY DEF Step, Writes, rows, ProposeLock, ProposeFail, EvaluateRead,
       EvaluatePending, EvaluateCheck, EvaluateStore, RankRead, BreakDeadlock,
       Crash

\* Rows stay typed.
LEMMA WritesTyped ==
  ASSUME TypeOK, NEW q \in Requests, Writes(q)
  PROVE  /\ run' \in [Keys -> RunStatus]
         /\ lock' \in SUBSET Lock
         /\ cand' \in [Keys -> [Lots -> CandidateStatus]]
         /\ evaluation' \in [Keys -> [Lots -> Evaluation]]
<1> USE DEF TypeOK
<1> DEFINE k == job[q].key
           p == job[q].at
<1>0. /\ job[q] \in Job
      /\ k \in Keys
      /\ p \in Portfolios
      /\ job[q].draft \in Draft
      /\ job[q].lot \in Lots
  BY DEF Job
<1>1. CASE ProposeInsert(q)
  BY <1>1 DEF ProposeInsert, RunStatus
<1>2. CASE ProposeStart(q)
  BY <1>2 DEF ProposeStart, RunStatus, Running
<1>3. CASE ProposePersist(q)
  <2>1. [portfolio |-> p, run |-> k] \in Lock
    BY <1>0 DEF Lock
  <2>2. lock' \in SUBSET Lock
    BY <1>3, <2>1 DEF ProposePersist
  <2>3. [l \in Lots |-> IF l \in Mine(p) /\ cand[k][l] = "NONE"
                        THEN "PENDING" ELSE cand[k][l]]
          \in [Lots -> CandidateStatus]
    BY <1>0 DEF CandidateStatus
  <2>4. cand' \in [Keys -> [Lots -> CandidateStatus]]
    BY <1>3, <2>3 DEF ProposePersist
  <2> QED BY <1>3, <2>2, <2>4 DEF ProposePersist
<1>4. CASE ProposeFinish(q)
  BY <1>4 DEF ProposeFinish, RunStatus, Finished
<1>5. CASE EvaluateCommit(q)
  <2>1. \A l \in Stored(q) : job[q].draft[l] \in Verdicts
    BY <1>0 DEF Stored, Draft
  <2>2. [l \in Lots |-> IF l \in Stored(q)
                        THEN Decided(cand[k][l], "PENDING", job[q].draft[l])
                        ELSE cand[k][l]] \in [Lots -> CandidateStatus]
    BY <1>0, <2>1 DEF CandidateStatus, Decided
  <2>3. cand' \in [Keys -> [Lots -> CandidateStatus]]
    BY <1>5, <2>2 DEF EvaluateCommit
  <2>4. [l \in Lots |-> IF l \in Stored(q)
                        THEN [status |-> job[q].draft[l], ranked |-> FALSE]
                        ELSE evaluation[k][l]] \in [Lots -> Evaluation]
    BY <1>0, <2>1 DEF Evaluation
  <2>5. evaluation' \in [Keys -> [Lots -> Evaluation]]
    BY <1>5, <2>4 DEF EvaluateCommit
  <2> QED BY <1>5, <2>3, <2>5 DEF EvaluateCommit
<1>6. CASE \E chosen \in SUBSET Lots : RankCommit(q, chosen)
  <2>1. PICK chosen \in SUBSET Lots : RankCommit(q, chosen)
    BY <1>6
  <2>2. lock' \in SUBSET Lock
    BY <2>1 DEF RankCommit
  <2>3. [l \in Lots |-> IF l \in chosen
                        THEN [evaluation[k][l] EXCEPT !.ranked = TRUE]
                        ELSE evaluation[k][l]] \in [Lots -> Evaluation]
    <3>1. \A l \in Lots : evaluation[k][l] \in Evaluation
      BY <1>0
    <3>2. \A e \in Evaluation : [e EXCEPT !.ranked = TRUE] \in Evaluation
      BY DEF Evaluation
    <3> QED BY <3>1, <3>2
  <2>4. evaluation' \in [Keys -> [Lots -> Evaluation]]
    BY <2>1, <2>3 DEF RankCommit
  <2> QED BY <2>1, <2>2, <2>4 DEF RankCommit
<1>7. CASE EvaluateFinish(q)
  BY <1>7 DEF EvaluateFinish, RunStatus, Finished
<1>8. CASE \E v \in Verdicts : ReevaluateStore(q, v)
  <2>1. PICK v \in Verdicts : ReevaluateStore(q, v)
    BY <1>8
  <2>2. cand' \in [Keys -> [Lots -> CandidateStatus]]
    BY <1>0, <2>1 DEF ReevaluateStore, CandidateStatus, Decided
  <2>3. [status |-> v, ranked |-> FALSE] \in Evaluation
    BY DEF Evaluation
  <2>4. evaluation' \in [Keys -> [Lots -> Evaluation]]
    BY <1>0, <2>1, <2>3 DEF ReevaluateStore
  <2> QED BY <2>1, <2>2, <2>4 DEF ReevaluateStore
<1> QED BY <1>1, <1>2, <1>3, <1>4, <1>5, <1>6, <1>7, <1>8 DEF Writes

\* Every action of a request keeps the types.
LEMMA TypeStep ==
  ASSUME TypeOK, NEW q \in Requests,
         Call(q) \/ Step(q) \/ ProposeFail(q) \/ Crash(q)
  PROVE  TypeOK' /\ Framed(q)
<1>1. Framed(q)
  BY CallFramed, StepFramed
<1>2. CASE Call(q)
  BY <1>1, <1>2, CallFramed DEF Framed, rows, TypeOK
<1>3. CASE ~Call(q) /\ Writes(q)
  BY <1>1, <1>3, WritesTyped DEF Framed, TypeOK
<1>4. CASE ~Call(q) /\ ~Writes(q)
  BY <1>1, <1>4, OthersKeepRows DEF Framed, rows, TypeOK
<1> QED BY <1>1, <1>2, <1>3, <1>4

\* TypeOK: no interleaving gives a run, candidate, evaluation, lock or request
\* a state the code does not define.
THEOREM TypeCorrect == Spec => []TypeOK
<1>1. Init => TypeOK
  BY NoJobTyped DEF Init, TypeOK, RunStatus, CandidateStatus, NoEvaluation,
     Evaluation
<1>2. TypeOK /\ [Next]_vars => TypeOK'
  <2> SUFFICES ASSUME TypeOK, [Next]_vars PROVE TypeOK'
    OBVIOUS
  <2>1. CASE UNCHANGED vars
    BY <2>1 DEF TypeOK, vars
  <2>2. CASE \E q \in Requests :
               Call(q) \/ Step(q) \/ ProposeFail(q) \/ Crash(q)
    BY <2>2, TypeStep
  <2> QED BY <2>1, <2>2 DEF Next, Idle
<1> QED BY <1>1, <1>2, PTL DEF Spec

---------------------------------------------------------------------------
(* The lock.                                                               *)

\* No lock stands against one that is being inserted, and no two inserts of
\* one portfolio and period are open at the same time.
LockInv ==
  /\ LockIsExclusive
  /\ \A r \in Requests :
       pc[r] = "p_persist" => Rivals(job[r].at, job[r].key) = {}
  /\ \A r, s \in Requests :
       /\ pc[r] = "p_persist"
       /\ pc[s] = "p_persist"
       /\ job[r].at = job[s].at
       /\ Period[job[r].key] = Period[job[s].key]
       => r = s

\* Only ProposeLock opens an insert.
LEMMA OnlyLockInserts ==
  ASSUME TypeOK, NEW q \in Requests,
         Call(q) \/ Step(q) \/ ProposeFail(q) \/ Crash(q),
         pc'[q] = "p_persist"
  PROVE  \E p \in Portfolios : ProposeLock(q, p)
<1>0. q \in DOMAIN pc
  BY DEF TypeOK
<1>1. \A kind, k, s : Answer(q, kind, k, s) => pc'[q] # "p_persist"
  <2> SUFFICES ASSUME NEW kind, NEW k, NEW s, Answer(q, kind, k, s)
               PROVE  pc'[q] # "p_persist"
    OBVIOUS
  <2>1. PICK n \in {"done", "e_read"} :
          IF n = "done" THEN End(q) ELSE Go(q, n, Asked(kind, k))
    BY DEF Answer, AfterProposal
  <2> QED BY <1>0, <2>1 DEF End, Go
<1>2. ~Call(q)
  BY <1>0, <1>1 DEF Call, ProposeReuse, ProposeTakeOver, ProposeNew,
     EvaluateCall, ReevaluateCall, Go, End
<1>3. ~(ProposeFail(q) \/ Crash(q))
  BY <1>0 DEF ProposeFail, Crash, Go, End
<1>4. ~ProposeInsert(q) /\ ~ProposeFinish(q)
  BY <1>0, <1>1 DEF ProposeInsert, ProposeFinish, Go
<1>5. ~ProposeStart(q) /\ ~ProposePersist(q) /\ ~EvaluateRead(q)
  BY <1>0 DEF ProposeStart, ProposePersist, EvaluateRead, Go, End
<1>6. \A p : ~EvaluatePending(q, p)
  BY <1>0 DEF EvaluatePending, Go
<1>7. \A l : ~EvaluateCheck(q, l)
  BY <1>0 DEF EvaluateCheck, Go
<1>8. \A v : ~EvaluateStore(q, v) /\ ~ReevaluateStore(q, v)
  BY <1>0 DEF EvaluateStore, ReevaluateStore, Go, End
<1>9. ~EvaluateCommit(q) /\ ~RankRead(q) /\ ~EvaluateFinish(q)
  BY <1>0 DEF EvaluateCommit, RankRead, EvaluateFinish, Go, End
<1>10. \A chosen : ~RankCommit(q, chosen)
  BY <1>0 DEF RankCommit, Go
<1>11. ~BreakDeadlock(q)
  BY <1>0 DEF BreakDeadlock, Go, End
<1> QED BY <1>2, <1>3, <1>4, <1>5, <1>6, <1>7, <1>8, <1>9, <1>10, <1>11
        DEF Step

\* Every action of a request keeps LockInv.
LEMMA LockStep ==
  ASSUME TypeOK, LockInv, NEW q \in Requests,
         Call(q) \/ Step(q) \/ ProposeFail(q) \/ Crash(q)
  PROVE  LockInv'
<1>1. TypeOK' /\ Framed(q)
  BY TypeStep
<1>2. CASE ProposePersist(q)
  <2> DEFINE x == [portfolio |-> job[q].at, run |-> job[q].key]
  <2>1. /\ pc[q] = "p_persist"
        /\ lock' = lock \cup {x}
        /\ pc'[q] = "p_lock"
    BY <1>2 DEF ProposePersist, Go, TypeOK
  <2>2. \A y \in lock : ~(y.portfolio = x.portfolio
                          /\ Period[y.run] = Period[x.run])
    BY <2>1 DEF LockInv, Rivals
  <2>3. LockIsExclusive'
    BY <2>1, <2>2 DEF LockInv, LockIsExclusive
  <2>4. ASSUME NEW r \in Requests, pc'[r] = "p_persist"
        PROVE  Rivals(job[r].at, job[r].key)' = {}
    <3>1. r # q /\ pc[r] = "p_persist" /\ job'[r] = job[r]
      BY <1>1, <2>1, <2>4 DEF Framed
    <3>2. ~(job[r].at = x.portfolio
            /\ Period[job[r].key] = Period[x.run])
      BY <2>1, <3>1 DEF LockInv
    <3>3. Rivals(job[r].at, job[r].key) = {}
      BY <3>1 DEF LockInv
    <3> QED BY <2>1, <3>1, <3>2, <3>3 DEF Rivals
  <2> QED BY <1>1, <2>1, <2>3, <2>4 DEF LockInv, Framed
<1>3. CASE \E p \in Portfolios : ProposeLock(q, p)
  <2>1. PICK p \in Portfolios : ProposeLock(q, p)
    BY <1>3
  <2>2. /\ ~BeingLocked(p, job[q].key)
        /\ lock' = lock
    BY <2>1 DEF ProposeLock
  <2>3. CASE Rivals(p, job[q].key) = {}
    <3>1. /\ pc'[q] = "p_persist"
          /\ job'[q].at = p
          /\ job'[q].key = job[q].key
      <4>1. Go(q, "p_persist", [job[q] EXCEPT !.todo = @ \ {p}, !.at = p])
        BY <2>1, <2>3 DEF ProposeLock
      <4>2. /\ pc'[q] = "p_persist"
            /\ job'[q] = [job[q] EXCEPT !.todo = @ \ {p}, !.at = p]
        BY <4>1 DEF Go, TypeOK
      <4>3. job[q] \in Job
        BY DEF TypeOK
      <4> QED BY <4>2, <4>3 DEF Job
    <3>2. \A r \in Requests \ {q} :
            ~(/\ pc'[r] = "p_persist"
              /\ job'[r].at = p
              /\ Period[job'[r].key] = Period[job'[q].key])
      BY <1>1, <2>2, <3>1 DEF BeingLocked, Framed
    <3>3. Rivals(job[q].at, job[q].key)' = {}
      BY <2>2, <2>3, <3>1 DEF Rivals
    <3>4. \A r \in Requests \ {q} :
            pc'[r] = "p_persist" => Rivals(job[r].at, job[r].key)' = {}
      BY <1>1, <2>2 DEF LockInv, Framed, Rivals
    <3>5. LockIsExclusive'
      BY <2>2 DEF LockInv, LockIsExclusive
    <3>6. \A r, s \in Requests \ {q} :
            /\ pc'[r] = "p_persist"
            /\ pc'[s] = "p_persist"
            /\ job'[r].at = job'[s].at
            /\ Period[job'[r].key] = Period[job'[s].key]
            => r = s
      BY <1>1 DEF LockInv, Framed
    <3> QED BY <3>1, <3>2, <3>3, <3>4, <3>5, <3>6 DEF LockInv
  <2>4. CASE Rivals(p, job[q].key) # {}
    <3>1. pc'[q] = "p_lock"
      BY <2>1, <2>4 DEF ProposeLock, Go, TypeOK
    <3> QED BY <1>1, <2>2, <3>1 DEF LockInv, LockIsExclusive, Framed, Rivals
  <2> QED BY <2>3, <2>4
<1>4. CASE ~ProposePersist(q) /\ ~\E p \in Portfolios : ProposeLock(q, p)
  <2>1. pc'[q] # "p_persist"
    BY <1>4, OnlyLockInserts
  <2>2. lock' \subseteq lock
    <3>1. CASE Call(q) \/ ~Writes(q)
      BY <3>1, CallFramed, OthersKeepRows DEF rows
    <3>2. CASE Writes(q)
      BY <1>4, <3>2 DEF Writes, ProposeInsert, ProposeStart, ProposeFinish,
         EvaluateCommit, RankCommit, EvaluateFinish, ReevaluateStore
    <3> QED BY <3>1, <3>2
  <2> QED BY <1>1, <2>1, <2>2 DEF LockInv, LockIsExclusive, Framed, Rivals
<1> QED BY <1>2, <1>3, <1>4

\* LockIsExclusive: no portfolio is ever locked by two runs of one period, for
\* any number of requests, keys, crashes and duplicates.
THEOREM LocksExclude == Spec => []LockIsExclusive
<1>1. Init => LockInv
  BY DEF Init, LockInv, LockIsExclusive
<1>2. TypeOK /\ LockInv /\ [Next]_vars => LockInv'
  <2> SUFFICES ASSUME TypeOK, LockInv, [Next]_vars PROVE LockInv'
    OBVIOUS
  <2>1. CASE UNCHANGED vars
    BY <2>1 DEF LockInv, LockIsExclusive, Rivals, vars
  <2>2. CASE \E q \in Requests :
               Call(q) \/ Step(q) \/ ProposeFail(q) \/ Crash(q)
    BY <2>2, LockStep
  <2> QED BY <2>1, <2>2 DEF Next, Idle
<1>3. LockInv => LockIsExclusive
  BY DEF LockInv
<1> QED BY <1>1, <1>2, <1>3, TypeCorrect, PTL DEF Spec

---------------------------------------------------------------------------
(* A run is started before it is worked on.                                *)

Started(k) == run[k] \notin {"NONE", "PENDING"}

\* A proposer past its start works on a started run, one that will skip the
\* UPDATE because it loaded RUNNING has loaded it from a started run, and an
\* evaluator only ever holds candidates that exist.
WorkInv ==
  /\ WorkIsStarted
  /\ \A r \in Requests :
       /\ pc[r] \in {"p_lock", "p_persist"} => Started(job[r].key)
       /\ pc[r] = "p_start" /\ job[r].saw = "RUNNING" => Started(job[r].key)
       /\ job[r].work \cup Stored(r) \subseteq Proposed(job[r].key)
       /\ pc[r] \in {"e_gate", "r_store"} => job[r].lot \in Proposed(job[r].key)

\* A started run stays started.
LEMMA StartedStays ==
  ASSUME TypeOK, NEW q \in Requests,
         Call(q) \/ Step(q) \/ ProposeFail(q) \/ Crash(q),
         NEW k \in Keys, Started(k)
  PROVE  Started(k)'
<1>0. job[q].key \in Keys
  BY DEF TypeOK, Job
<1>1. CASE Call(q) \/ ~Writes(q)
  BY <1>1, CallFramed, OthersKeepRows DEF rows, Started
<1>2. CASE ProposeInsert(q)
  BY <1>0, <1>2 DEF ProposeInsert, TypeOK, Started
<1>3. CASE ProposeStart(q)
  BY <1>0, <1>3 DEF ProposeStart, Running, TypeOK, Started
<1>4. CASE ProposeFinish(q)
  BY <1>0, <1>4 DEF ProposeFinish, TypeOK, Started
<1>5. CASE EvaluateFinish(q)
  BY <1>0, <1>5 DEF EvaluateFinish, TypeOK, Started
<1>6. CASE ProposePersist(q) \/ EvaluateCommit(q)
           \/ (\E chosen \in SUBSET Lots : RankCommit(q, chosen))
           \/ \E v \in Verdicts : ReevaluateStore(q, v)
  BY <1>6 DEF ProposePersist, EvaluateCommit, RankCommit, ReevaluateStore,
     Started
<1> QED BY <1>1, <1>2, <1>3, <1>4, <1>5, <1>6 DEF Writes

\* Candidates are never withdrawn, and only a proposal adds any.
LEMMA ProposedGrows ==
  ASSUME TypeOK, WorkInv, NEW q \in Requests,
         Call(q) \/ Step(q) \/ ProposeFail(q) \/ Crash(q),
         NEW k \in Keys
  PROVE  /\ Proposed(k) \subseteq Proposed(k)'
         /\ ~(ProposePersist(q) /\ k = job[q].key) => Proposed(k)' = Proposed(k)
<1>0. /\ job[q].key \in Keys
      /\ job[q].lot \in Lots
      /\ job[q].draft \in Draft
      /\ \A j \in Keys : cand[j] \in [Lots -> CandidateStatus]
  BY DEF TypeOK, Job
<1>1. CASE cand' = cand
  BY <1>1 DEF Proposed
<1>2. CASE ProposePersist(q)
  BY <1>0, <1>2 DEF ProposePersist, Proposed, TypeOK
<1>3. CASE EvaluateCommit(q)
  <2>1. \A l \in Stored(q) : /\ job[q].draft[l] \in Verdicts
                             /\ cand[job[q].key][l] # "NONE"
    BY <1>0 DEF WorkInv, Stored, Draft, Proposed
  <2>2. \A l \in Lots :
          cand'[k][l] = IF k = job[q].key /\ l \in Stored(q)
                        THEN job[q].draft[l] ELSE cand[k][l]
    BY <1>0, <1>3, <2>1 DEF EvaluateCommit, Decided, Verdicts, TypeOK
  <2> QED BY <1>3, <2>1, <2>2 DEF Proposed, Verdicts
<1>4. CASE \E v \in Verdicts : ReevaluateStore(q, v)
  <2>1. PICK v \in Verdicts : ReevaluateStore(q, v)
    BY <1>4
  <2>2. job[q].lot \in Proposed(job[q].key)
    BY <2>1 DEF WorkInv, ReevaluateStore
  <2>3. \A l \in Lots :
          cand'[k][l] = IF k = job[q].key /\ l = job[q].lot
                        THEN Decided(cand[k][l], job[q].was, v) ELSE cand[k][l]
    BY <1>0, <2>1 DEF ReevaluateStore, TypeOK
  <2> QED BY <2>2, <2>3 DEF Proposed, Verdicts, Decided
<1>5. CASE Call(q) \/ ~Writes(q)
  BY <1>1, <1>5, CallFramed, OthersKeepRows DEF rows
<1>6. CASE ProposeInsert(q) \/ ProposeStart(q) \/ ProposeFinish(q)
           \/ EvaluateFinish(q) \/ \E chosen \in SUBSET Lots : RankCommit(q, chosen)
  BY <1>1, <1>6 DEF ProposeInsert, ProposeStart, ProposeFinish,
     EvaluateFinish, RankCommit
<1> QED BY <1>2, <1>3, <1>4, <1>5, <1>6 DEF Writes

\* What WorkInv asks of the request that acts.
WorkOf(r) ==
  /\ pc[r] \in {"p_lock", "p_persist"} => Started(job[r].key)
  /\ pc[r] = "p_start" /\ job[r].saw = "RUNNING" => Started(job[r].key)
  /\ job[r].work \cup Stored(r) \subseteq Proposed(job[r].key)
  /\ pc[r] \in {"e_gate", "r_store"} => job[r].lot \in Proposed(job[r].key)

\* Candidates in hand exist, and go on existing.
LEMMA HandsStay ==
  ASSUME TypeOK, WorkInv, NEW q \in Requests,
         Call(q) \/ Step(q) \/ ProposeFail(q) \/ Crash(q),
         job'[q].key \in Keys,
         \/ job'[q].work = {} /\ job'[q].draft = NoDraft
         \/ /\ job'[q].key = job[q].key
            /\ job'[q].work \subseteq Proposed(job[q].key)
            /\ job'[q].draft \in {job[q].draft, NoDraft}
  PROVE  (job[q].work \cup Stored(q))' \subseteq Proposed(job[q].key)'
<1>1. job[q].key \in Keys
  BY DEF TypeOK, Job
<1>2. \A k \in Keys, l \in Lots : cand[k][l] # "NONE" => cand'[k][l] # "NONE"
  BY ProposedGrows DEF Proposed
<1>3. job'[q].draft = NoDraft => Stored(q)' = {}
  BY DEF Stored, NoDraft
<1>4. job'[q].draft = job[q].draft => Stored(q)' = Stored(q)
  BY DEF Stored
<1>5. job[q].work \cup Stored(q) \subseteq Proposed(job[q].key)
  BY DEF WorkInv
<1>6. CASE job'[q].work = {} /\ job'[q].draft = NoDraft
  BY <1>3, <1>6 DEF Proposed
<1>7. CASE /\ job'[q].key = job[q].key
           /\ job'[q].work \subseteq Proposed(job[q].key)
           /\ job'[q].draft \in {job[q].draft, NoDraft}
  <2>1. \A l \in Proposed(job[q].key) :
          l \in Lots /\ cand'[job'[q].key][l] # "NONE"
    BY <1>7, <1>1, <1>2 DEF Proposed
  <2>2. Stored(q)' \subseteq Proposed(job[q].key)
    BY <1>7, <1>3, <1>4, <1>5
  <2> QED BY <1>7, <2>1, <2>2 DEF Proposed
<1> QED BY <1>6, <1>7

\* What a request that goes on, ends or answers finds in its record.
LEMMA Moved ==
  ASSUME TypeOK, NEW q \in Requests
  PROVE  /\ job[q] \in Job
         /\ job[q].key \in Keys
         /\ job[q].lot \in Lots
         /\ job[q].at \in Portfolios
         /\ job[q].draft \in Draft
         /\ \A step, j : Go(q, step, j) => pc'[q] = step /\ job'[q] = j
         /\ End(q) => pc'[q] = "done" /\ job'[q] = NoJob
         /\ \A kind, k, s : Answer(q, kind, k, s) =>
              \/ pc'[q] = "done" /\ job'[q] = NoJob
              \/ pc'[q] = "e_read" /\ job'[q] = Asked(kind, k)
         /\ NoJob.key \in Keys /\ NoJob.work = {} /\ NoJob.draft = NoDraft
<1>1. /\ job[q] \in Job
      /\ job[q].key \in Keys
      /\ job[q].lot \in Lots
      /\ job[q].at \in Portfolios
      /\ job[q].draft \in Draft
  BY DEF TypeOK, Job
<1>2. \A step, j : Go(q, step, j) => pc'[q] = step /\ job'[q] = j
  BY DEF Go, TypeOK
<1>3. End(q) => pc'[q] = "done" /\ job'[q] = NoJob
  BY <1>2 DEF End
<1>4. ASSUME NEW kind, NEW k, NEW s, Answer(q, kind, k, s)
      PROVE  \/ pc'[q] = "done" /\ job'[q] = NoJob
             \/ pc'[q] = "e_read" /\ job'[q] = Asked(kind, k)
  <2>1. PICK n \in {"done", "e_read"} :
          IF n = "done" THEN End(q) ELSE Go(q, n, Asked(kind, k))
    BY <1>4 DEF Answer, AfterProposal
  <2> QED BY <2>1, <1>2, <1>3
<1>5. NoJob.key \in Keys /\ NoJob.work = {} /\ NoJob.draft = NoDraft
  BY NoJobTyped DEF Job, NoJob
<1> QED BY <1>1, <1>2, <1>3, <1>4, <1>5

\* A request that is over or only answers has nothing in hand.
LEMMA WorkOfEnded ==
  ASSUME TypeOK, NEW q \in Requests,
         pc'[q] \notin {"p_lock", "p_persist", "p_start", "e_gate", "r_store"},
         job'[q].work = {},
         job'[q].draft = NoDraft
  PROVE  WorkOf(q)'
BY DEF WorkOf, Stored, NoDraft

\* A call keeps its request's part of WorkInv.
LEMMA WorkOfCall ==
  ASSUME TypeOK, WorkInv, NEW q \in Requests, Call(q)
  PROVE  WorkOf(q)'
<1>1. ASSUME NEW k \in Keys, NEW kind, ProposeReuse(q, kind, k)
      PROVE  WorkOf(q)'
  BY <1>1, Moved, NoJobTyped, WorkOfEnded DEF ProposeReuse
<1>2. ASSUME NEW k \in Keys, NEW kind, ProposeTakeOver(q, kind, k)
      PROVE  WorkOf(q)'
  <2>1. /\ pc'[q] = "p_start"
        /\ job'[q] = [Asked(kind, k) EXCEPT !.saw = run[k]]
        /\ run' = run
    BY <1>2, Moved DEF ProposeTakeOver
  <2>2. /\ job'[q].key = k
        /\ job'[q].saw = run[k]
        /\ job'[q].work = {}
        /\ job'[q].draft = NoDraft
    BY <2>1 DEF Asked, NoJob
  <2> QED BY <2>1, <2>2 DEF WorkOf, Stored, NoDraft, Started
<1>3. ASSUME NEW k \in Keys, NEW kind, ProposeNew(q, kind, k)
      PROVE  WorkOf(q)'
  BY <1>3, Moved, NoJobTyped, WorkOfEnded DEF ProposeNew
<1>4. ASSUME NEW k \in Keys, EvaluateCall(q, k) PROVE WorkOf(q)'
  BY <1>4, Moved, NoJobTyped, WorkOfEnded DEF EvaluateCall
<1>5. ASSUME NEW k \in Keys, NEW l \in Lots, ReevaluateCall(q, k, l)
      PROVE  WorkOf(q)'
  <2>1. CASE CanTransition(cand[k][l])
    <3>1. /\ pc'[q] = "r_store"
          /\ job'[q] = [Asked("reevaluate", k) EXCEPT
                        !.lot = l, !.was = cand[k][l]]
          /\ cand' = cand
          /\ cand[k][l] # "NONE"
      BY <1>5, <2>1, Moved DEF ReevaluateCall
    <3>2. /\ job'[q].key = k
          /\ job'[q].lot = l
          /\ job'[q].work = {}
          /\ job'[q].draft = NoDraft
      BY <3>1 DEF Asked, NoJob
    <3> QED BY <3>1, <3>2 DEF WorkOf, Stored, NoDraft, Proposed
  <2>2. CASE ~CanTransition(cand[k][l])
    BY <1>5, <2>2, Moved, WorkOfEnded DEF ReevaluateCall
  <2> QED BY <2>1, <2>2
<1> QED BY <1>1, <1>2, <1>3, <1>4, <1>5 DEF Call

\* A step keeps its request's part of WorkInv.
LEMMA WorkOfStep ==
  ASSUME TypeOK, WorkInv, NEW q \in Requests,
         Step(q) \/ ProposeFail(q) \/ Crash(q)
  PROVE  WorkOf(q)'
<1> DEFINE k == job[q].key
           Hands == (job[q].work \cup Stored(q))' \subseteq Proposed(job[q].key)'
<1>0. /\ job[q] \in Job
      /\ k \in Keys
      /\ job[q].lot \in Lots
      /\ job[q].work \subseteq Proposed(k)
      /\ Stored(q) \subseteq Proposed(k)
      /\ Started(k) => run'[k] \notin {"NONE", "PENDING"}
  <2>1. \A j \in Keys : Started(j) => Started(j)'
    BY StartedStays
  <2> QED BY <2>1, Moved DEF WorkInv, Started
<1>1. CASE ProposeInsert(q)
  <2>1. CASE run[k] = "NONE"
    <3>1. /\ pc'[q] = "p_start"
          /\ job'[q] = [job[q] EXCEPT !.saw = "PENDING"]
      BY <1>1, <2>1, Moved DEF ProposeInsert
    <3>2. /\ job'[q].key = k
          /\ job'[q].saw = "PENDING"
          /\ job'[q].work = job[q].work
          /\ job'[q].draft = job[q].draft
      BY <3>1, <1>0 DEF Job
    <3>3. Hands
      BY <3>2, <1>0, HandsStay
    <3> QED BY <3>1, <3>2, <3>3 DEF WorkOf
  <2>2. CASE run[k] # "NONE"
    BY <1>1, <2>2, Moved, NoJobTyped, WorkOfEnded DEF ProposeInsert
  <2> QED BY <2>1, <2>2
<1>2. CASE ProposeStart(q)
  <2>1. /\ pc'[q] = "p_lock"
        /\ job'[q] = [job[q] EXCEPT !.saw = "NONE", !.todo = Portfolios]
        /\ pc[q] = "p_start"
        /\ run'[k] = Running(run[k], job[q].saw)
    BY <1>0, <1>2, Moved DEF ProposeStart, TypeOK
  <2>2. /\ job'[q].key = k
        /\ job'[q].work = job[q].work
        /\ job'[q].draft = job[q].draft
    BY <2>1, <1>0 DEF Job
  <2>3. run'[k] \notin {"NONE", "PENDING"}
    BY <2>1, <1>0 DEF WorkInv, Started, Running
  <2>4. Hands
    BY <2>2, <1>0, HandsStay
  <2> QED BY <2>1, <2>2, <2>3, <2>4 DEF WorkOf, Started
<1>3. CASE \E p \in Portfolios : ProposeLock(q, p)
  <2>1. PICK p \in Portfolios : ProposeLock(q, p)
    BY <1>3
  <2>2. /\ pc[q] = "p_lock"
        /\ \/ /\ pc'[q] = "p_persist"
              /\ job'[q] = [job[q] EXCEPT !.todo = @ \ {p}, !.at = p]
           \/ /\ pc'[q] = "p_lock"
              /\ job'[q] = [job[q] EXCEPT !.todo = @ \ {p}, !.failed = TRUE]
    BY <2>1, Moved DEF ProposeLock
  <2>3. /\ job'[q].key = k
        /\ job'[q].work = job[q].work
        /\ job'[q].draft = job[q].draft
    BY <2>2, <1>0 DEF Job
  <2>4. run'[k] \notin {"NONE", "PENDING"}
    BY <2>2, <1>0 DEF WorkInv
  <2>5. Hands
    BY <2>3, <1>0, HandsStay
  <2> QED BY <2>2, <2>3, <2>4, <2>5 DEF WorkOf, Started
<1>4. CASE ProposePersist(q) \/ ProposeFail(q)
  <2>1. /\ pc[q] = "p_persist"
        /\ pc'[q] = "p_lock"
        /\ \/ job'[q] = [job[q] EXCEPT !.at = NoJob.at]
           \/ job'[q] = [job[q] EXCEPT !.at = NoJob.at, !.failed = TRUE]
    BY <1>4, Moved DEF ProposePersist, ProposeFail
  <2>2. /\ job'[q].key = k
        /\ job'[q].work = job[q].work
        /\ job'[q].draft = job[q].draft
    BY <2>1, <1>0 DEF Job
  <2>3. run'[k] \notin {"NONE", "PENDING"}
    BY <2>1, <1>0 DEF WorkInv
  <2>4. Hands
    BY <2>2, <1>0, HandsStay
  <2> QED BY <2>1, <2>2, <2>3, <2>4 DEF WorkOf, Started
<1>5. CASE ProposeFinish(q)
  BY <1>5, Moved, NoJobTyped, WorkOfEnded DEF ProposeFinish
<1>6. CASE EvaluateRead(q)
  <2>1. CASE Over(k)
    BY <1>6, <2>1, Moved, WorkOfEnded DEF EvaluateRead
  <2>2. CASE ~Over(k)
    <3>1. /\ pc'[q] = "e_portfolio"
          /\ job'[q] = [job[q] EXCEPT !.todo = Scope(k)]
      BY <1>6, <2>2, Moved DEF EvaluateRead
    <3>2. /\ job'[q].key = k
          /\ job'[q].work = job[q].work
          /\ job'[q].draft = job[q].draft
      BY <3>1, <1>0 DEF Job
    <3>3. Hands
      BY <3>2, <1>0, HandsStay
    <3> QED BY <3>1, <3>3 DEF WorkOf
  <2> QED BY <2>1, <2>2
<1>7. CASE \E p \in Portfolios : EvaluatePending(q, p)
  <2>1. PICK p \in Portfolios : EvaluatePending(q, p)
    BY <1>7
  <2> DEFINE w == {l \in Mine(p) : cand[k][l] = "PENDING"}
  <2>2. /\ pc'[q] = "e_lot"
        /\ job'[q] = [job[q] EXCEPT !.todo = @ \ {p}, !.at = p, !.work = w]
    BY <2>1, Moved DEF EvaluatePending
  <2>3. /\ job'[q].key = k
        /\ job'[q].work = w
        /\ job'[q].draft = job[q].draft
    BY <2>2, <1>0 DEF Job
  <2>4. w \subseteq Proposed(k)
    BY DEF Mine, Proposed
  <2>5. Hands
    BY <2>3, <2>4, <1>0, HandsStay
  <2> QED BY <2>2, <2>5 DEF WorkOf
<1>8. CASE \E l \in Lots : EvaluateCheck(q, l)
  <2>1. PICK l \in Lots : EvaluateCheck(q, l)
    BY <1>8
  <2> DEFINE j == [job[q] EXCEPT !.work = @ \ {l}]
  <2>2. /\ l \in job[q].work
        /\ cand' = cand
        /\ \/ pc'[q] = "e_lot" /\ job'[q] = j
           \/ pc'[q] = "e_gate" /\ job'[q] = [j EXCEPT !.lot = l]
    BY <2>1, Moved DEF EvaluateCheck
  <2>3. /\ job'[q].key = k
        /\ job'[q].work = job[q].work \ {l}
        /\ job'[q].draft = job[q].draft
        /\ pc'[q] = "e_gate" => job'[q].lot = l
    BY <2>2, <1>0 DEF Job
  <2>4. Hands
    BY <2>3, <1>0, HandsStay
  <2>5. pc'[q] = "e_gate" => job'[q].lot \in Proposed(job[q].key)'
    BY <2>2, <2>3, <1>0 DEF Proposed
  <2> QED BY <2>2, <2>4, <2>5 DEF WorkOf
<1>9. CASE \E v \in Verdicts : EvaluateStore(q, v)
  <2>1. PICK v \in Verdicts : EvaluateStore(q, v)
    BY <1>9
  <2>2. /\ pc[q] = "e_gate"
        /\ pc'[q] = "e_lot"
        /\ cand' = cand
        /\ job'[q] = [job[q] EXCEPT !.draft[job[q].lot] = v, !.lot = NoJob.lot]
    BY <2>1, Moved DEF EvaluateStore
  <2>3. /\ job'[q].key = k
        /\ job'[q].work = job[q].work
        /\ job'[q].draft = [job[q].draft EXCEPT ![job[q].lot] = v]
    BY <2>2, <1>0 DEF Job
  <2>4. Stored(q)' \subseteq Stored(q) \cup {job[q].lot}
    BY <2>3, Moved DEF Stored, Draft
  <2>5. job[q].lot \in Proposed(k)
    BY <2>2 DEF WorkInv
  <2>6. Proposed(job[q].key)' = Proposed(k)
    BY <2>2, <2>3 DEF Proposed
  <2> QED BY <2>2, <2>3, <2>4, <2>5, <2>6, <1>0 DEF WorkOf
<1>10. CASE EvaluateCommit(q)
  <2>1. /\ pc'[q] = "e_rank"
        /\ job'[q] = [job[q] EXCEPT !.draft = NoDraft]
    BY <1>10, Moved DEF EvaluateCommit
  <2>2. /\ job'[q].key = k
        /\ job'[q].work = job[q].work
        /\ job'[q].draft = NoDraft
    BY <2>1, <1>0 DEF Job
  <2>3. Hands
    BY <2>2, <1>0, HandsStay
  <2> QED BY <2>1, <2>3 DEF WorkOf
<1>11. CASE RankRead(q)
  <2> DEFINE w == Approved(k) \cap Mine(job[q].at)
  <2>1. /\ pc'[q] = "e_select"
        /\ job'[q] = [job[q] EXCEPT !.work = w]
    BY <1>11, Moved DEF RankRead
  <2>2. /\ job'[q].key = k
        /\ job'[q].work = w
        /\ job'[q].draft = job[q].draft
    BY <2>1, <1>0 DEF Job
  <2>3. w \subseteq Proposed(k)
    BY DEF Approved, Proposed
  <2>4. Hands
    BY <2>2, <2>3, <1>0, HandsStay
  <2> QED BY <2>1, <2>4 DEF WorkOf
<1>12. CASE \E chosen \in SUBSET Lots : RankCommit(q, chosen)
  <2>1. /\ pc'[q] = "e_portfolio"
        /\ job'[q] = [job[q] EXCEPT !.work = {}, !.at = NoJob.at]
    BY <1>12, Moved DEF RankCommit
  <2>2. /\ job'[q].key = k
        /\ job'[q].work = {}
        /\ job'[q].draft = job[q].draft
    BY <2>1, <1>0 DEF Job
  <2>3. Hands
    BY <2>2, <1>0, HandsStay
  <2> QED BY <2>1, <2>3 DEF WorkOf
<1>13. CASE \/ EvaluateFinish(q)
            \/ \E v \in Verdicts : ReevaluateStore(q, v)
            \/ BreakDeadlock(q)
            \/ Crash(q)
  BY <1>13, Moved, WorkOfEnded DEF EvaluateFinish, ReevaluateStore,
     BreakDeadlock, Crash
<1> QED BY <1>1, <1>2, <1>3, <1>4, <1>5, <1>6, <1>7, <1>8, <1>9, <1>10,
           <1>11, <1>12, <1>13 DEF Step

\* Every action of a request keeps WorkInv.
LEMMA WorkStep ==
  ASSUME TypeOK, WorkInv, NEW q \in Requests,
         Call(q) \/ Step(q) \/ ProposeFail(q) \/ Crash(q)
  PROVE  WorkInv'
<1>1. TypeOK' /\ Framed(q)
  BY TypeStep
<1>2. /\ \A k \in Keys : Started(k) => Started(k)'
      /\ \A k \in Keys : Proposed(k) \subseteq Proposed(k)'
      /\ \A k \in Keys : ~(ProposePersist(q) /\ k = job[q].key) =>
           Proposed(k)' = Proposed(k)
  BY StartedStays, ProposedGrows
<1>3. ASSUME NEW r \in Requests PROVE WorkOf(r)'
  <2>1. CASE r = q
    BY <2>1, WorkOfCall, WorkOfStep
  <2>2. CASE r # q
    <3>1. pc'[r] = pc[r] /\ job'[r] = job[r] /\ job[r].key \in Keys
      BY <1>1, <2>2 DEF Framed, TypeOK, Job
    <3>2. WorkOf(r)
      BY DEF WorkInv, WorkOf
    <3> QED BY <1>2, <3>1, <3>2 DEF WorkOf, Started, Stored, Proposed
  <2> QED BY <2>1, <2>2
<1>4. WorkIsStarted'
  <2> SUFFICES ASSUME NEW k \in Keys,
                      Proposed(k)' # {} \/ \E x \in lock' : x.run = k
               PROVE  Started(k)'
    BY DEF WorkIsStarted, Started
  <2>1. CASE ProposePersist(q)
    <3>1. /\ Started(job[q].key)
          /\ lock' = lock \cup {[portfolio |-> job[q].at, run |-> job[q].key]}
      BY <2>1 DEF WorkInv, ProposePersist
    <3>2. CASE k = job[q].key
      BY <1>2, <3>1, <3>2
    <3>3. CASE k # job[q].key
      BY <1>2, <3>1, <3>3 DEF WorkInv, WorkIsStarted, Started
    <3> QED BY <3>2, <3>3
  <2>2. CASE ~ProposePersist(q)
    <3>1. lock' \subseteq lock
      <4>1. CASE Call(q) \/ ~Writes(q)
        BY <4>1, CallFramed, OthersKeepRows DEF rows
      <4>2. CASE Writes(q)
        BY <2>2, <4>2 DEF Writes, ProposeInsert, ProposeStart, ProposeFinish,
           EvaluateCommit, RankCommit, EvaluateFinish, ReevaluateStore
      <4> QED BY <4>1, <4>2
    <3> QED BY <1>2, <2>2, <3>1 DEF WorkInv, WorkIsStarted, Started
  <2> QED BY <2>1, <2>2
<1> QED BY <1>3, <1>4 DEF WorkInv, WorkOf

\* WorkInv is inductive.
LEMMA WorkAlways == Spec => []WorkInv
<1>1. Init => WorkInv
  BY NoJobTyped, Moved DEF Init, WorkInv, WorkIsStarted, Proposed, Stored,
     NoJob, NoDraft
<1>2. TypeOK /\ WorkInv /\ [Next]_vars => WorkInv'
  <2> SUFFICES ASSUME TypeOK, WorkInv, [Next]_vars PROVE WorkInv'
    OBVIOUS
  <2>1. CASE UNCHANGED vars
    BY <2>1 DEF WorkInv, WorkIsStarted, Started, Stored, Proposed, vars
  <2>2. CASE \E q \in Requests :
               Call(q) \/ Step(q) \/ ProposeFail(q) \/ Crash(q)
    BY <2>2, WorkStep
  <2> QED BY <2>1, <2>2 DEF Next, Idle
<1> QED BY <1>1, <1>2, TypeCorrect, PTL DEF Spec

\* WorkIsStarted: no candidate or lock exists for a run whose start is not
\* committed, whichever retry or duplicate takes the run over.
THEOREM WorkFollowsStart == Spec => []WorkIsStarted
<1>1. WorkInv => WorkIsStarted
  BY DEF WorkInv
<1> QED BY <1>1, WorkAlways, PTL

\* The exclusive lock and the lock that outlives its proposer are together what
\* keeps two runs of a period from deciding the candidates of one portfolio.
LEMMA LocksDecide ==
  ASSUME LockIsExclusive, PendingIsLocked
  PROVE  OneRunDecides
<1> SUFFICES ASSUME NEW j \in Exclusive, NEW k \in Exclusive,
                    NEW a \in Lots, NEW b \in Lots,
                    Period[j] = Period[k], PortfolioOf[a] = PortfolioOf[b],
                    cand[j][a] = "PENDING", cand[k][b] = "PENDING"
             PROVE  j = k
  BY DEF OneRunDecides
<1> DEFINE x == [portfolio |-> PortfolioOf[a], run |-> j]
           y == [portfolio |-> PortfolioOf[b], run |-> k]
<1>1. x \in lock /\ y \in lock
  BY DEF PendingIsLocked
<1>2. x = y
  BY <1>1 DEF LockIsExclusive
<1> QED BY <1>2

---------------------------------------------------------------------------
(* Decisions and evaluations.                                              *)

\* A recheck works on what was undecided or approved when it was loaded, and
\* what was approved then is decided now.
RecheckInv ==
  \A r \in Requests :
    pc[r] = "r_store" =>
      /\ job[r].was \in {"PENDING", "APPROVED"}
      /\ job[r].was = "APPROVED" => cand[job[r].key][job[r].lot] \in Verdicts

\* What a commit makes of the candidates and evaluations.
LEMMA StoreWrites ==
  ASSUME TypeOK, WorkInv, RecheckInv, NEW q \in Requests,
         EvaluateCommit(q) \/ \E v \in Verdicts : ReevaluateStore(q, v)
  PROVE  \A j \in Keys, l \in Lots :
           \/ /\ cand'[j][l] = cand[j][l]
              /\ evaluation'[j][l] = evaluation[j][l]
           \/ /\ cand'[j][l] \in Verdicts
              /\ evaluation'[j][l] = [status |-> cand'[j][l], ranked |-> FALSE]
           \/ /\ cand[j][l] \in Verdicts
              /\ cand'[j][l] = cand[j][l]
              /\ evaluation'[j][l] = [status |-> "APPROVED", ranked |-> FALSE]
<1> DEFINE k == job[q].key
           d == job[q].draft
           m == job[q].lot
<1>0. /\ k \in Keys
      /\ d \in Draft
      /\ m \in Lots
      /\ cand \in [Keys -> [Lots -> CandidateStatus]]
      /\ evaluation \in [Keys -> [Lots -> Evaluation]]
  BY Moved DEF TypeOK
<1>1. CASE EvaluateCommit(q)
  <2>1. \A l \in Stored(q) : d[l] \in Verdicts /\ d[l] # "PENDING"
    BY <1>0 DEF Stored, Draft, Verdicts
  <2>2. \A j \in Keys, l \in Lots :
          cand'[j][l] = IF j = k /\ l \in Stored(q) THEN d[l] ELSE cand[j][l]
    BY <1>0, <1>1, <2>1 DEF EvaluateCommit, Decided
  <2>3. \A j \in Keys, l \in Lots :
          evaluation'[j][l] = IF j = k /\ l \in Stored(q)
                              THEN [status |-> d[l], ranked |-> FALSE]
                              ELSE evaluation[j][l]
    BY <1>0, <1>1 DEF EvaluateCommit
  <2>4. ASSUME NEW j \in Keys, NEW l \in Lots, j = k, l \in Stored(q)
        PROVE  /\ cand'[j][l] \in Verdicts
               /\ evaluation'[j][l] = [status |-> cand'[j][l], ranked |-> FALSE]
    <3>1. cand'[j][l] = d[l]
      BY <2>2, <2>4
    <3>2. evaluation'[j][l] = [status |-> d[l], ranked |-> FALSE]
      BY <2>3, <2>4
    <3> QED BY <2>1, <2>4, <3>1, <3>2
  <2>5. ASSUME NEW j \in Keys, NEW l \in Lots, ~(j = k /\ l \in Stored(q))
        PROVE  /\ cand'[j][l] = cand[j][l]
               /\ evaluation'[j][l] = evaluation[j][l]
    BY <2>2, <2>3, <2>5
  <2> QED BY <2>4, <2>5
<1>2. CASE \E v \in Verdicts : ReevaluateStore(q, v)
  <2>1. PICK v \in Verdicts : ReevaluateStore(q, v)
    BY <1>2
  <2>2. /\ job[q].was \in {"PENDING", "APPROVED"}
        /\ job[q].was = "APPROVED" => cand[k][m] \in Verdicts
    BY <2>1 DEF ReevaluateStore, RecheckInv
  <2>3. \A j \in Keys, l \in Lots :
          cand'[j][l] = IF j = k /\ l = m THEN Decided(cand[j][l], job[q].was, v)
                        ELSE cand[j][l]
    BY <1>0, <2>1 DEF ReevaluateStore
  <2>4. \A j \in Keys, l \in Lots :
          evaluation'[j][l] = IF j = k /\ l = m
                              THEN [status |-> v, ranked |-> FALSE]
                              ELSE evaluation[j][l]
    BY <1>0, <2>1 DEF ReevaluateStore
  <2>5. CASE v = job[q].was
    <3>1. v = "APPROVED" /\ cand[k][m] \in Verdicts
      BY <2>2, <2>5 DEF Verdicts
    <3>2. \A j \in Keys, l \in Lots : cand'[j][l] = cand[j][l]
      BY <2>3, <2>5 DEF Decided
    <3> QED BY <2>4, <3>1, <3>2
  <2>6. CASE v # job[q].was
    <3>1. \A j \in Keys, l \in Lots :
            cand'[j][l] = IF j = k /\ l = m THEN v ELSE cand[j][l]
      BY <2>3, <2>6 DEF Decided
    <3>2. ASSUME NEW j \in Keys, NEW l \in Lots, j = k, l = m
          PROVE  /\ cand'[j][l] = v
                 /\ evaluation'[j][l] = [status |-> v, ranked |-> FALSE]
      BY <2>4, <3>1, <3>2
    <3>3. ASSUME NEW j \in Keys, NEW l \in Lots, ~(j = k /\ l = m)
          PROVE  /\ cand'[j][l] = cand[j][l]
                 /\ evaluation'[j][l] = evaluation[j][l]
      BY <2>4, <3>1, <3>3
    <3> QED BY <3>2, <3>3
  <2> QED BY <2>5, <2>6
<1> QED BY <1>1, <1>2

\* What the other actions make of them.
LEMMA OthersKeepDecisions ==
  ASSUME TypeOK, NEW q \in Requests,
         Call(q) \/ Step(q) \/ ProposeFail(q) \/ Crash(q),
         ~EvaluateCommit(q), ~\E v \in Verdicts : ReevaluateStore(q, v)
  PROVE  \A j \in Keys, l \in Lots :
           /\ \/ cand'[j][l] = cand[j][l]
              \/ cand[j][l] = "NONE" /\ cand'[j][l] = "PENDING"
           /\ evaluation'[j][l].status = evaluation[j][l].status
<1>0. /\ job[q].key \in Keys
      /\ cand \in [Keys -> [Lots -> CandidateStatus]]
      /\ evaluation \in [Keys -> [Lots -> Evaluation]]
  BY Moved DEF TypeOK
<1>1. CASE cand' = cand /\ evaluation' = evaluation
  BY <1>1
<1>2. CASE ProposePersist(q)
  BY <1>0, <1>2 DEF ProposePersist
<1>3. CASE \E chosen \in SUBSET Lots : RankCommit(q, chosen)
  <2>1. PICK chosen \in SUBSET Lots : RankCommit(q, chosen)
    BY <1>3
  <2>2. ASSUME NEW j \in Keys, NEW l \in Lots
        PROVE  evaluation'[j][l].status = evaluation[j][l].status
    <3>1. evaluation[j][l] \in Evaluation
      BY <1>0
    <3>2. \A e \in Evaluation : [e EXCEPT !.ranked = TRUE].status = e.status
      BY DEF Evaluation
    <3>3. \/ evaluation'[j][l] = evaluation[j][l]
          \/ evaluation'[j][l] = [evaluation[j][l] EXCEPT !.ranked = TRUE]
      BY <1>0, <2>1 DEF RankCommit
    <3> QED BY <3>1, <3>2, <3>3
  <2>3. cand' = cand
    BY <2>1 DEF RankCommit
  <2> QED BY <2>2, <2>3
<1>4. CASE ProposeInsert(q) \/ ProposeStart(q) \/ ProposeFinish(q) \/ EvaluateFinish(q)
  BY <1>1, <1>4 DEF ProposeInsert, ProposeStart, ProposeFinish, EvaluateFinish
<1>5. CASE Call(q) \/ ~Writes(q)
  BY <1>1, <1>5, CallFramed, OthersKeepRows DEF rows
<1> QED BY <1>2, <1>3, <1>4, <1>5 DEF Writes

\* Only a call comes to the storing step of a recheck.
LEMMA OnlyCallsRecheck ==
  ASSUME TypeOK, NEW q \in Requests,
         Call(q) \/ Step(q) \/ ProposeFail(q) \/ Crash(q),
         pc'[q] = "r_store"
  PROVE  \E k \in Keys, l \in Lots :
           /\ ReevaluateCall(q, k, l)
           /\ CanTransition(cand[k][l])
           /\ job'[q].key = k /\ job'[q].lot = l /\ job'[q].was = cand[k][l]
<1>1. ASSUME Step(q) \/ ProposeFail(q) \/ Crash(q) PROVE FALSE
  <2>1. CASE ProposeInsert(q) \/ ProposeFinish(q)
    BY <2>1, Moved DEF ProposeInsert, ProposeFinish
  <2>2. CASE \/ ProposeStart(q) \/ ProposePersist(q) \/ ProposeFail(q) \/ Crash(q)
             \/ EvaluateRead(q) \/ EvaluateCommit(q) \/ RankRead(q)
             \/ EvaluateFinish(q) \/ BreakDeadlock(q)
    BY <2>2, Moved DEF ProposeStart, ProposePersist, ProposeFail, Crash, EvaluateRead,
       EvaluateCommit, RankRead, EvaluateFinish, BreakDeadlock
  <2>3. \A p \in Portfolios : ~ProposeLock(q, p) /\ ~EvaluatePending(q, p)
    BY Moved DEF ProposeLock, EvaluatePending
  <2>4. \A l \in Lots : ~EvaluateCheck(q, l)
    BY Moved DEF EvaluateCheck
  <2>5. \A v \in Verdicts : ~EvaluateStore(q, v) /\ ~ReevaluateStore(q, v)
    BY Moved DEF EvaluateStore, ReevaluateStore
  <2>6. \A chosen \in SUBSET Lots : ~RankCommit(q, chosen)
    BY Moved DEF RankCommit
  <2> QED BY <1>1, <2>1, <2>2, <2>3, <2>4, <2>5, <2>6 DEF Step
<1>2. ~\E k \in Keys, kind \in {"propose", "analyse"} :
         \/ ProposeReuse(q, kind, k)
         \/ ProposeTakeOver(q, kind, k)
         \/ ProposeNew(q, kind, k)
  <2>1. \A k, kind : ~ProposeReuse(q, kind, k)
    BY Moved DEF ProposeReuse
  <2>2. \A k, kind : ~ProposeTakeOver(q, kind, k) /\ ~ProposeNew(q, kind, k)
    BY Moved DEF ProposeTakeOver, ProposeNew
  <2> QED BY <2>1, <2>2
<1>3. ~\E k \in Keys : EvaluateCall(q, k)
  BY Moved DEF EvaluateCall
<1>4. PICK k \in Keys, l \in Lots : ReevaluateCall(q, k, l)
  BY <1>1, <1>2, <1>3 DEF Call
<1>5. /\ CanTransition(cand[k][l])
      /\ job'[q] = [Asked("reevaluate", k) EXCEPT !.lot = l, !.was = cand[k][l]]
  BY <1>4, Moved DEF ReevaluateCall
<1>6. job'[q].key = k /\ job'[q].lot = l /\ job'[q].was = cand[k][l]
  BY <1>5 DEF Asked, NoJob
<1> QED BY <1>4, <1>5, <1>6

\* No action takes a candidate's decision away.
LEMMA DecidedStays ==
  ASSUME TypeOK, WorkInv, RecheckInv, NEW q \in Requests,
         Call(q) \/ Step(q) \/ ProposeFail(q) \/ Crash(q),
         NEW j \in Keys, NEW l \in Lots, cand[j][l] \in Verdicts
  PROVE  cand'[j][l] \in Verdicts
<1>1. CASE EvaluateCommit(q) \/ \E v \in Verdicts : ReevaluateStore(q, v)
  BY <1>1, StoreWrites
<1>2. CASE ~(EvaluateCommit(q) \/ \E v \in Verdicts : ReevaluateStore(q, v))
  BY <1>2, OthersKeepDecisions DEF Verdicts
<1> QED BY <1>1, <1>2

\* Every action of a request keeps RecheckInv and what evaluations explain.
LEMMA ExplainedStep ==
  ASSUME TypeOK, WorkInv, RecheckInv, DecisionIsExplained, NEW q \in Requests,
         Call(q) \/ Step(q) \/ ProposeFail(q) \/ Crash(q)
  PROVE  RecheckInv' /\ DecisionIsExplained'
<1>1. ASSUME NEW r \in Requests, pc'[r] = "r_store"
      PROVE  /\ job'[r].was \in {"PENDING", "APPROVED"}
             /\ job'[r].was = "APPROVED" => cand'[job'[r].key][job'[r].lot] \in Verdicts
  <2>1. CASE r = q
    <3>1. PICK k \in Keys, l \in Lots :
            /\ ReevaluateCall(q, k, l)
            /\ CanTransition(cand[k][l])
            /\ job'[q].key = k /\ job'[q].lot = l /\ job'[q].was = cand[k][l]
      BY <1>1, <2>1, OnlyCallsRecheck
    <3>2. cand' = cand
      BY <3>1 DEF ReevaluateCall
    <3> QED BY <2>1, <3>1, <3>2 DEF CanTransition, Verdicts
  <2>2. CASE r # q
    <3>1. pc[r] = "r_store" /\ job'[r] = job[r]
      BY <1>1, <2>2, TypeStep DEF Framed
    <3>2. job[r].key \in Keys /\ job[r].lot \in Lots
      BY Moved
    <3> QED BY <3>1, <3>2, DecidedStays DEF RecheckInv
  <2> QED BY <2>1, <2>2
<1>2. ASSUME NEW j \in Keys, NEW l \in Lots
      PROVE  /\ cand'[j][l] = "APPROVED" => evaluation'[j][l].status = "APPROVED"
             /\ cand'[j][l] \in Verdicts <=> evaluation'[j][l].status # "NONE"
  <2>0. /\ cand[j][l] = "APPROVED" => evaluation[j][l].status = "APPROVED"
        /\ cand[j][l] \in Verdicts <=> evaluation[j][l].status # "NONE"
    BY DEF DecisionIsExplained
  <2>1. CASE EvaluateCommit(q) \/ \E v \in Verdicts : ReevaluateStore(q, v)
    <3>1. CASE cand'[j][l] = cand[j][l] /\ evaluation'[j][l] = evaluation[j][l]
      BY <2>0, <3>1
    <3>2. CASE /\ cand'[j][l] \in Verdicts
               /\ evaluation'[j][l] = [status |-> cand'[j][l], ranked |-> FALSE]
      BY <3>2 DEF Verdicts
    <3>3. CASE /\ cand[j][l] \in Verdicts
               /\ cand'[j][l] = cand[j][l]
               /\ evaluation'[j][l] = [status |-> "APPROVED", ranked |-> FALSE]
      BY <3>3
    <3> QED BY <2>1, <3>1, <3>2, <3>3, StoreWrites
  <2>2. CASE ~(EvaluateCommit(q) \/ \E v \in Verdicts : ReevaluateStore(q, v))
    BY <2>0, <2>2, OthersKeepDecisions DEF Verdicts
  <2> QED BY <2>1, <2>2
<1> QED BY <1>1, <1>2 DEF RecheckInv, DecisionIsExplained

LEMMA ExplainedAlways == Spec => [](RecheckInv /\ DecisionIsExplained)
<1>1. Init => RecheckInv /\ DecisionIsExplained
  BY DEF Init, RecheckInv, DecisionIsExplained, NoEvaluation, Verdicts
<1>2. TypeOK /\ WorkInv /\ RecheckInv /\ DecisionIsExplained /\ [Next]_vars =>
        (RecheckInv /\ DecisionIsExplained)'
  <2> SUFFICES ASSUME TypeOK, WorkInv, RecheckInv, DecisionIsExplained, [Next]_vars
               PROVE  (RecheckInv /\ DecisionIsExplained)'
    OBVIOUS
  <2>1. CASE UNCHANGED vars
    BY <2>1 DEF RecheckInv, DecisionIsExplained, vars
  <2>2. CASE \E q \in Requests :
               Call(q) \/ Step(q) \/ ProposeFail(q) \/ Crash(q)
    BY <2>2, ExplainedStep
  <2> QED BY <2>1, <2>2 DEF Next, Idle
<1> QED BY <1>1, <1>2, TypeCorrect, WorkAlways, PTL DEF Spec

\* DecisionIsExplained: whatever evaluators and rechecks of one candidate race,
\* and although a recheck that confirms an approval writes an evaluation
\* without a status, an approved candidate's latest evaluation approves it and
\* exactly the decided candidates have one.
THEOREM DecisionsExplained == Spec => []DecisionIsExplained
BY ExplainedAlways, PTL

---------------------------------------------------------------------------
(* The runs on which requests work one at a time (Exclusive).              *)

InPortfolio == {"e_lot", "e_gate", "e_rank", "e_select"}
Evaluating  == {"e_portfolio"} \cup InPortfolio
Proposing   == {"p_start", "p_lock", "p_persist"}

\* The portfolios an evaluator has not done with.
Left(r) == job[r].todo \cup IF pc[r] \in InPortfolio THEN {job[r].at} ELSE {}

\* What request r has in hand is as it was when r read it.
InHand(r) ==
  /\ pc[r] \in Proposing \cup Evaluating => ~Over(job[r].key)
  /\ pc[r] \notin {"e_lot", "e_gate"} => Stored(r) = {}
  /\ pc[r] \in {"e_lot", "e_gate"} =>
       \A l \in job[r].work \cup Stored(r) : cand[job[r].key][l] = "PENDING"
  /\ pc[r] = "e_gate" => cand[job[r].key][job[r].lot] = "PENDING"
  /\ pc[r] = "r_store" => cand[job[r].key][job[r].lot] \in {"PENDING", "APPROVED"}
  /\ pc[r] = "e_select" =>
       \A l \in job[r].work : cand[job[r].key][l] = "APPROVED"

\* What is undecided or locked is left to an evaluator, in a later portfolio or
\* in this one; a portfolio it ranks has nothing undecided.
LeftToDo(r) ==
  /\ pc[r] \in Evaluating =>
       /\ \A l \in Lots : cand[job[r].key][l] = "PENDING" => PortfolioOf[l] \in Left(r)
       /\ \A x \in lock : /\ x.run = job[r].key
                          /\ Mine(x.portfolio) # {}
                          => x.portfolio \in Left(r)
  /\ pc[r] \in {"e_lot", "e_gate"} =>
       \A l \in Mine(job[r].at) :
         cand[job[r].key][l] = "PENDING" =>
           \/ l \in job[r].work \cup Stored(r)
           \/ pc[r] = "e_gate" /\ l = job[r].lot
  /\ pc[r] \in {"e_rank", "e_select"} =>
       \A l \in Mine(job[r].at) : cand[job[r].key][l] # "PENDING"

Alone ==
  \A r, s \in InFlight :
    job[r].key \in Exclusive /\ job[r].key = job[s].key => r = s

\* A lock and the candidates it is for are committed together.
LockedAreProposed == \A x \in lock : Mine(x.portfolio) \subseteq Proposed(x.run)

\* Where nobody rejects a candidate while it is ranked, only approvals are.
RankedAreApproved ==
  \A k \in Exclusive, l \in Lots :
    evaluation[k][l].ranked => evaluation[k][l].status = "APPROVED"

AloneInv ==
  /\ Alone
  /\ LockedAreProposed
  /\ RankedAreApproved
  /\ PendingIsLocked
  /\ CompletedIsDone
  /\ \A r \in InFlight : job[r].key \in Exclusive => InHand(r) /\ LeftToDo(r)

\* The rows of other runs are left alone.
LEMMA OtherRuns ==
  ASSUME TypeOK, NEW q \in Requests,
         Call(q) \/ Step(q) \/ ProposeFail(q) \/ Crash(q)
  PROVE  /\ \A j \in Keys \ {job[q].key} : /\ run'[j] = run[j]
                                           /\ cand'[j] = cand[j]
                                           /\ evaluation'[j] = evaluation[j]
         /\ \A x : x.run # job[q].key => (x \in lock' <=> x \in lock)
<1> USE DEF TypeOK
<1>0. job[q].key \in Keys
  BY Moved
<1>1. CASE Call(q) \/ ~Writes(q)
  BY <1>1, CallFramed, OthersKeepRows DEF rows
<1>2. CASE ProposeInsert(q) \/ ProposeStart(q) \/ ProposeFinish(q) \/ EvaluateFinish(q)
  BY <1>0, <1>2 DEF ProposeInsert, ProposeStart, ProposeFinish, EvaluateFinish
<1>3. CASE ProposePersist(q)
  BY <1>0, <1>3 DEF ProposePersist
<1>4. CASE EvaluateCommit(q)
  BY <1>0, <1>4 DEF EvaluateCommit
<1>5. CASE \E chosen \in SUBSET Lots : RankCommit(q, chosen)
  BY <1>0, <1>5 DEF RankCommit, Released, OwnRival
<1>6. CASE \E v \in Verdicts : ReevaluateStore(q, v)
  BY <1>0, <1>6 DEF ReevaluateStore
<1> QED BY <1>1, <1>2, <1>3, <1>4, <1>5, <1>6 DEF Writes

\* A request that goes on goes on with the same run.
LEMMA RunStays ==
  ASSUME TypeOK, NEW q \in Requests, Step(q) \/ ProposeFail(q) \/ Crash(q)
  PROVE  /\ q \in InFlight
         /\ pc'[q] \in Steps => job'[q].key = job[q].key
<1>0. /\ job[q] \in Job
      /\ \A kind, k : Asked(kind, k).key = k
      /\ "done" \notin Steps
  BY Moved, NoJobTyped DEF Steps
<1>1. q \in InFlight
  <2>1. pc[q] \in Steps
    BY DEF Step, Steps, ProposeInsert, ProposeStart, ProposeLock, ProposePersist,
       ProposeFinish, ProposeFail, EvaluateRead, EvaluatePending, EvaluateCheck,
       EvaluateStore, ReevaluateStore, EvaluateCommit, RankRead, RankCommit,
       EvaluateFinish, BreakDeadlock, WaitsFor, Crash
  <2> QED BY <2>1 DEF InFlight
<1>2. CASE ProposeInsert(q) \/ ProposeFinish(q)
  <2>1. CASE ProposeInsert(q) /\ run[job[q].key] = "NONE"
    <3>1. job'[q] = [job[q] EXCEPT !.saw = "PENDING"]
      BY <2>1, Moved DEF ProposeInsert
    <3> QED BY <1>0, <1>1, <3>1 DEF Job
  <2>2. CASE ProposeInsert(q) /\ run[job[q].key] # "NONE"
    <3>1. Answer(q, job[q].kind, job[q].key, run[job[q].key])
      BY <2>2 DEF ProposeInsert
    <3> QED BY <1>0, <1>1, <3>1, Moved
  <2>3. CASE ProposeFinish(q)
    <3>1. PICK s : Answer(q, job[q].kind, job[q].key, s)
      BY <2>3 DEF ProposeFinish
    <3> QED BY <1>0, <1>1, <3>1, Moved
  <2> QED BY <1>2, <2>1, <2>2, <2>3
<1>3. CASE ProposeStart(q)
  <2>1. job'[q] = [job[q] EXCEPT !.saw = "NONE", !.todo = Portfolios]
    BY <1>3, Moved DEF ProposeStart
  <2> QED BY <1>0, <1>1, <2>1 DEF Job
<1>4. CASE \E p \in Portfolios : ProposeLock(q, p)
  <2>1. PICK p \in Portfolios : ProposeLock(q, p)
    BY <1>4
  <2>2. \/ job'[q] = [job[q] EXCEPT !.todo = @ \ {p}, !.at = p]
        \/ job'[q] = [job[q] EXCEPT !.todo = @ \ {p}, !.failed = TRUE]
    BY <2>1, Moved DEF ProposeLock
  <2> QED BY <1>0, <1>1, <2>2 DEF Job
<1>5. CASE \E p \in Portfolios : EvaluatePending(q, p)
  <2>1. PICK p \in Portfolios : EvaluatePending(q, p)
    BY <1>5
  <2>2. job'[q] = [job[q] EXCEPT !.todo = @ \ {p}, !.at = p,
                     !.work = {l \in Mine(p) : cand[job[q].key][l] = "PENDING"}]
    BY <2>1, Moved DEF EvaluatePending
  <2> QED BY <1>0, <1>1, <2>2 DEF Job
<1>6. CASE ProposePersist(q) \/ ProposeFail(q)
  <2>1. \/ job'[q] = [job[q] EXCEPT !.at = NoJob.at]
        \/ job'[q] = [job[q] EXCEPT !.at = NoJob.at, !.failed = TRUE]
    BY <1>6, Moved DEF ProposePersist, ProposeFail
  <2> QED BY <1>0, <1>1, <2>1 DEF Job
<1>7. CASE EvaluateRead(q)
  <2>1. CASE pc'[q] \in Steps
    <3>1. job'[q] = [job[q] EXCEPT !.todo = Scope(job[q].key)]
      BY <1>0, <1>7, <2>1, Moved DEF EvaluateRead
    <3> QED BY <1>0, <1>1, <3>1 DEF Job
  <2> QED BY <1>1, <2>1
<1>8. CASE \E l \in Lots : EvaluateCheck(q, l)
  <2>1. PICK l \in Lots : EvaluateCheck(q, l)
    BY <1>8
  <2> DEFINE j == [job[q] EXCEPT !.work = @ \ {l}]
  <2>2. \/ pc'[q] = "e_lot" /\ job'[q] = j
        \/ pc'[q] = "e_gate" /\ job'[q] = [j EXCEPT !.lot = l]
    BY <2>1, Moved DEF EvaluateCheck
  <2>3. j \in Job /\ j.key = job[q].key
    BY <1>0 DEF Job
  <2>4. [j EXCEPT !.lot = l].key = j.key
    BY <2>3 DEF Job
  <2> QED BY <1>1, <2>2, <2>3, <2>4
<1>9. CASE \E v \in Verdicts : EvaluateStore(q, v)
  <2>1. PICK v \in Verdicts : EvaluateStore(q, v)
    BY <1>9
  <2>2. job'[q] = [job[q] EXCEPT !.draft[job[q].lot] = v, !.lot = NoJob.lot]
    BY <2>1, Moved DEF EvaluateStore
  <2> QED BY <1>0, <1>1, <2>2 DEF Job
<1>10. CASE EvaluateCommit(q)
  <2>1. job'[q] = [job[q] EXCEPT !.draft = NoDraft]
    BY <1>10, Moved DEF EvaluateCommit
  <2> QED BY <1>0, <1>1, <2>1 DEF Job
<1>11. CASE RankRead(q)
  <2>1. job'[q] = [job[q] EXCEPT !.work = Approved(job[q].key) \cap Mine(job[q].at)]
    BY <1>11, Moved DEF RankRead
  <2> QED BY <1>0, <1>1, <2>1 DEF Job
<1>12. CASE \E chosen \in SUBSET Lots : RankCommit(q, chosen)
  <2>1. job'[q] = [job[q] EXCEPT !.work = {}, !.at = NoJob.at]
    BY <1>12, Moved DEF RankCommit
  <2> QED BY <1>0, <1>1, <2>1 DEF Job
<1>13. CASE \/ EvaluateFinish(q)
            \/ \E v \in Verdicts : ReevaluateStore(q, v)
            \/ BreakDeadlock(q)
            \/ Crash(q)
  BY <1>0, <1>1, <1>13, Moved DEF EvaluateFinish, ReevaluateStore, BreakDeadlock, Crash
<1> QED BY <1>1, <1>2, <1>3, <1>4, <1>5, <1>6, <1>7, <1>8, <1>9, <1>10, <1>11,
           <1>12, <1>13 DEF Step

\* A call waits until nobody works on its run.
LEMMA CallIsFree ==
  ASSUME TypeOK, NEW q \in Requests, Call(q), pc'[q] \in Steps,
         job'[q].key \in Exclusive
  PROVE  /\ pc[q] = "idle"
         /\ \A r \in InFlight : job[r].key # job'[q].key
<1>0. /\ \A kind, k : Asked(kind, k).key = k
      /\ "done" \notin Steps
  BY NoJobTyped DEF Steps
<1>1. ASSUME NEW k \in Keys, Free(k), job'[q].key = k
      PROVE  \A r \in InFlight : job[r].key # job'[q].key
  BY <1>1 DEF Free
<1>2. ASSUME NEW k \in Keys, NEW kind \in {"propose", "analyse"},
             ProposeReuse(q, kind, k) \/ ProposeTakeOver(q, kind, k)
               \/ ProposeNew(q, kind, k)
      PROVE  pc[q] = "idle" /\ Free(k) /\ job'[q].key = k
  <2>1. pc[q] = "idle" /\ Free(k)
    BY <1>2 DEF ProposeReuse, ProposeTakeOver, ProposeNew, Called
  <2>2. CASE ProposeReuse(q, kind, k)
    BY <1>0, <2>1, <2>2, Moved DEF ProposeReuse
  <2>3. CASE ProposeTakeOver(q, kind, k)
    <3>1. job'[q] = [Asked(kind, k) EXCEPT !.saw = run[k]]
      BY <2>3, Moved DEF ProposeTakeOver
    <3> QED BY <2>1, <3>1 DEF Asked, NoJob
  <2>4. CASE ProposeNew(q, kind, k)
    BY <1>0, <2>1, <2>4, Moved DEF ProposeNew
  <2> QED BY <1>2, <2>1, <2>2, <2>3, <2>4
<1>3. ASSUME NEW k \in Keys, EvaluateCall(q, k)
      PROVE  pc[q] = "idle" /\ Free(k) /\ job'[q].key = k
  BY <1>0, <1>3, Moved DEF EvaluateCall
<1>4. ASSUME NEW k \in Keys, NEW l \in Lots, ReevaluateCall(q, k, l)
      PROVE  pc[q] = "idle" /\ Free(k) /\ job'[q].key = k
  <2>1. job'[q] = [Asked("reevaluate", k) EXCEPT
                        !.lot = l, !.was = cand[k][l]]
    BY <1>0, <1>4, Moved DEF ReevaluateCall
  <2> QED BY <1>4, <2>1 DEF ReevaluateCall, Asked, NoJob
<1>5. CASE \E k \in Keys, kind \in {"propose", "analyse"} :
             \/ ProposeReuse(q, kind, k)
             \/ ProposeTakeOver(q, kind, k)
             \/ ProposeNew(q, kind, k)
  <2>1. PICK k \in Keys, kind \in {"propose", "analyse"} :
          \/ ProposeReuse(q, kind, k)
          \/ ProposeTakeOver(q, kind, k)
          \/ ProposeNew(q, kind, k)
    BY <1>5
  <2> QED BY <1>1, <1>2, <2>1
<1>6. CASE \E k \in Keys : EvaluateCall(q, k)
  BY <1>1, <1>3, <1>6
<1>7. CASE \E k \in Keys, l \in Lots : ReevaluateCall(q, k, l)
  BY <1>1, <1>4, <1>7
<1> QED BY <1>5, <1>6, <1>7 DEF Call

\* No two requests come to work on one run.
LEMMA AloneStep ==
  ASSUME TypeOK, Alone, NEW q \in Requests,
         Call(q) \/ Step(q) \/ ProposeFail(q) \/ Crash(q)
  PROVE  Alone'
<1>1. Framed(q)
  BY TypeStep
<1>2. ASSUME pc'[q] \in Steps, job'[q].key \in Exclusive
      PROVE  \A r \in InFlight \ {q} : job[r].key # job'[q].key
  <2>1. CASE Call(q)
    BY <1>2, <2>1, CallIsFree
  <2>2. CASE ~Call(q)
    BY <1>2, <2>2, RunStays DEF Alone
  <2> QED BY <2>1, <2>2
<1>3. \A r \in Requests \ {q} :
        r \in InFlight' => r \in InFlight /\ job'[r] = job[r]
  BY <1>1 DEF InFlight, Framed
<1> QED BY <1>2, <1>3 DEF Alone, InFlight

\* Nobody's work is disturbed by another request.
LEMMA OthersUndisturbed ==
  ASSUME TypeOK, AloneInv, NEW q \in Requests,
         Call(q) \/ Step(q) \/ ProposeFail(q) \/ Crash(q),
         NEW r \in Requests \ {q}, r \in InFlight', job'[r].key \in Exclusive
  PROVE  InHand(r)' /\ LeftToDo(r)'
<1>1. /\ r \in InFlight
      /\ pc'[r] = pc[r] /\ job'[r] = job[r]
      /\ job[r].key \in Keys
  BY TypeStep, Moved DEF Framed, InFlight
<1>2. /\ run'[job[r].key] = run[job[r].key]
      /\ cand'[job[r].key] = cand[job[r].key]
      /\ \A x : x.run = job[r].key => (x \in lock' <=> x \in lock)
  <2>1. CASE Call(q)
    BY <2>1, CallFramed DEF rows
  <2>2. CASE ~Call(q)
    <3>1. job[r].key # job[q].key
      BY <1>1, <2>2, RunStays DEF AloneInv, Alone
    <3> QED BY <1>1, <3>1, OtherRuns
  <2> QED BY <2>1, <2>2
<1>3. InHand(r) /\ LeftToDo(r)
  BY <1>1 DEF AloneInv
<1>4. Stored(r)' = Stored(r) /\ Left(r)' = Left(r) /\ Over(job[r].key)' = Over(job[r].key)
  BY <1>1, <1>2 DEF Stored, Left, Over
<1>5. InHand(r)'
  BY <1>1, <1>2, <1>3, <1>4 DEF InHand
<1>6. LeftToDo(r)'
  BY <1>1, <1>2, <1>3, <1>4 DEF LeftToDo
<1> QED BY <1>5, <1>6

\* A request that only loaded its run's name has nothing in hand yet.
LEMMA FreshInHand ==
  ASSUME NEW q \in Requests, pc'[q] \in {"p_insert", "e_read"},
         job'[q].draft = NoDraft
  PROVE  InHand(q)' /\ LeftToDo(q)'
<1>1. Stored(q)' = {}
  BY DEF Stored, NoDraft
<1>2. pc'[q] \notin Proposing \cup Evaluating \cup {"r_store"}
  BY DEF Proposing, Evaluating, InPortfolio
<1>3. InHand(q)'
  BY <1>1, <1>2 DEF InHand, Evaluating, InPortfolio
<1>4. LeftToDo(q)'
  BY <1>2 DEF LeftToDo, Evaluating, InPortfolio
<1> QED BY <1>3, <1>4

\* A proposer has no candidates in hand.
LEMMA ProposerInHand ==
  ASSUME NEW q \in Requests, pc'[q] \in Proposing,
         Stored(q)' = {}, ~Over(job[q].key)'
  PROVE  InHand(q)' /\ LeftToDo(q)'
<1>1. pc'[q] \notin Evaluating \cup {"r_store"}
  BY DEF Proposing, Evaluating, InPortfolio
<1>2. InHand(q)'
  BY <1>1 DEF InHand, Evaluating, InPortfolio
<1>3. LeftToDo(q)'
  BY <1>1 DEF LeftToDo, Evaluating, InPortfolio
<1> QED BY <1>2, <1>3

\* What a call has in hand is as it is.
LEMMA CallInHand ==
  ASSUME TypeOK, NEW q \in Requests, Call(q), q \in InFlight'
  PROVE  InHand(q)' /\ LeftToDo(q)'
<1>0. /\ UNCHANGED rows
      /\ pc'[q] # "done"
      /\ \A kind, k : Asked(kind, k).draft = NoDraft
  BY CallFramed, NoJobTyped DEF InFlight, Steps
<1>1. ASSUME NEW k \in Keys, NEW kind, ProposeReuse(q, kind, k)
      PROVE  InHand(q)' /\ LeftToDo(q)'
  <2>1. Answer(q, kind, k, run[k])
    BY <1>1 DEF ProposeReuse
  <2> QED BY <1>0, <2>1, Moved, FreshInHand
<1>2. ASSUME NEW k \in Keys, NEW kind, ProposeTakeOver(q, kind, k)
      PROVE  InHand(q)' /\ LeftToDo(q)'
  <2>1. /\ pc'[q] = "p_start"
        /\ job'[q] = [Asked(kind, k) EXCEPT !.saw = run[k]]
        /\ ~Over(k)
    BY <1>2, Moved DEF ProposeTakeOver
  <2>2. job'[q].key = k /\ job'[q].draft = NoDraft
    BY <2>1 DEF Asked, NoJob
  <2>3. ~Over(job[q].key)'
    BY <1>0, <2>1, <2>2 DEF Over, rows
  <2>4. Stored(q)' = {}
    BY <2>2 DEF Stored, NoDraft
  <2> QED BY <2>1, <2>3, <2>4, ProposerInHand DEF Proposing
<1>3. ASSUME NEW k \in Keys, NEW kind, ProposeNew(q, kind, k)
      PROVE  InHand(q)' /\ LeftToDo(q)'
  BY <1>0, <1>3, Moved, FreshInHand DEF ProposeNew
<1>4. ASSUME NEW k \in Keys, EvaluateCall(q, k)
      PROVE  InHand(q)' /\ LeftToDo(q)'
  BY <1>0, <1>4, Moved, FreshInHand DEF EvaluateCall
<1>5. ASSUME NEW k \in Keys, NEW l \in Lots, ReevaluateCall(q, k, l)
      PROVE  InHand(q)' /\ LeftToDo(q)'
  <2>1. /\ pc'[q] = "r_store"
        /\ job'[q] = [Asked("reevaluate", k) EXCEPT
                        !.lot = l, !.was = cand[k][l]]
        /\ cand[k][l] \in {"PENDING", "APPROVED"}
    BY <1>0, <1>5, Moved DEF ReevaluateCall, CanTransition
  <2>2. job'[q].key = k /\ job'[q].lot = l /\ job'[q].draft = NoDraft
    BY <2>1 DEF Asked, NoJob
  <2>3. Stored(q)' = {}
    BY <2>2 DEF Stored, NoDraft
  <2>4. InHand(q)'
    BY <1>0, <2>1, <2>2, <2>3 DEF InHand, Proposing, Evaluating, InPortfolio, rows
  <2>5. LeftToDo(q)'
    BY <2>1 DEF LeftToDo, Evaluating, InPortfolio
  <2> QED BY <2>4, <2>5
<1> QED
  <2>1. CASE \E k \in Keys, kind \in {"propose", "analyse"} :
               \/ ProposeReuse(q, kind, k)
               \/ ProposeTakeOver(q, kind, k)
               \/ ProposeNew(q, kind, k)
    <3>1. PICK k \in Keys, kind \in {"propose", "analyse"} :
            \/ ProposeReuse(q, kind, k)
            \/ ProposeTakeOver(q, kind, k)
            \/ ProposeNew(q, kind, k)
      BY <2>1
    <3> QED BY <3>1, <1>1, <1>2, <1>3
  <2>2. CASE \E k \in Keys : EvaluateCall(q, k)
    BY <2>2, <1>4
  <2>3. CASE \E k \in Keys, l \in Lots : ReevaluateCall(q, k, l)
    BY <2>3, <1>5
  <2> QED BY <2>1, <2>2, <2>3 DEF Call

\* An undecided candidate has no evaluation, ranked or not.
LEMMA PendingHasNone ==
  ASSUME TypeOK, DecisionIsExplained, RankedAreApproved,
         NEW k \in Exclusive, NEW l \in Lots, cand[k][l] = "PENDING"
  PROVE  evaluation[k][l] = NoEvaluation
<1>0. k \in Keys
  BY ConstantsAssumption
<1>1. evaluation[k][l] \in Evaluation
  BY <1>0 DEF TypeOK
<1>2. evaluation[k][l].status = "NONE"
  BY <1>0 DEF DecisionIsExplained, Verdicts
<1>3. ~evaluation[k][l].ranked
  BY <1>2 DEF RankedAreApproved
<1> QED BY <1>1, <1>2, <1>3 DEF Evaluation, NoEvaluation

\* Where a run's candidates and locks are is where its evaluator goes.
LEMMA ScopeIsAll ==
  ASSUME TypeOK, LockedAreProposed, NEW k \in Keys
  PROVE  /\ \A l \in Lots : cand[k][l] = "PENDING" => PortfolioOf[l] \in Scope(k)
         /\ \A x \in lock : /\ x.run = k
                            /\ Mine(x.portfolio) # {}
                            => x.portfolio \in Scope(k)
<1>1. ASSUME NEW l \in Lots, cand[k][l] # "NONE"
      PROVE  PortfolioOf[l] \in Scope(k)
  <2>1. l \in Proposed(k)
    BY <1>1 DEF Proposed
  <2> QED BY <2>1 DEF Scope
<1>2. ASSUME NEW x \in lock, x.run = k, Mine(x.portfolio) # {}
      PROVE  x.portfolio \in Scope(k)
  <2>1. PICK l \in Lots : PortfolioOf[l] = x.portfolio
    BY <1>2 DEF Mine
  <2>2. cand[k][l] # "NONE"
    BY <1>2, <2>1 DEF LockedAreProposed, Mine, Proposed
  <2> QED BY <1>1, <2>1, <2>2
<1> QED BY <1>1, <1>2

\* What a commit or a flush leaves of the drafts.
LEMMA Drafts ==
  ASSUME NEW q \in Requests
  PROVE  /\ job'[q].draft = NoDraft => Stored(q)' = {}
         /\ job'[q].draft = job[q].draft => Stored(q)' = Stored(q)
BY DEF Stored, NoDraft

\* What a request has in hand after a step is as it is, and what it has put
\* aside is done.
LEMMA StepInHand ==
  ASSUME TypeOK, DecisionIsExplained, AloneInv, NEW q \in Requests,
         Step(q) \/ ProposeFail(q) \/ Crash(q), q \in InFlight',
         job[q].key \in Exclusive
  PROVE  InHand(q)' /\ LeftToDo(q)'
<1> DEFINE k == job[q].key
           p == job[q].at
           w == job[q].work
           Goal == InHand(q)' /\ LeftToDo(q)'
<1>0. /\ job[q] \in Job
      /\ k \in Keys /\ p \in Portfolios /\ w \subseteq Lots
      /\ job[q].lot \in Lots /\ job[q].draft \in Draft
      /\ cand \in [Keys -> [Lots -> CandidateStatus]]
      /\ run \in [Keys -> RunStatus]
      /\ InHand(q) /\ LeftToDo(q)
      /\ pc'[q] # "done"
      /\ \A kind, j : Asked(kind, j).draft = NoDraft
      /\ job'[q].draft = NoDraft => Stored(q)' = {}
      /\ job'[q].draft = job[q].draft => Stored(q)' = Stored(q)
  BY RunStays, Moved, NoJobTyped, Drafts DEF AloneInv, TypeOK, Job, InFlight, Steps
<1>1. ASSUME NEW kind, NEW j, NEW s, Answer(q, kind, j, s) PROVE Goal
  BY <1>0, <1>1, Moved, FreshInHand
<1>2. CASE ProposeInsert(q)
  <2>1. CASE run[k] = "NONE"
    <3>1. /\ pc[q] = "p_insert"
          /\ pc'[q] = "p_start"
          /\ job'[q] = [job[q] EXCEPT !.saw = "PENDING"]
          /\ run' = [run EXCEPT ![k] = "PENDING"]
      BY <1>2, <2>1, Moved DEF ProposeInsert
    <3>2. job'[q].key = k /\ job'[q].draft = job[q].draft
      BY <3>1, <1>0 DEF Job
    <3>3. ~Over(job[q].key)'
      BY <1>0, <3>1, <3>2 DEF Over, Finished
    <3>4. Stored(q)' = {}
      BY <1>0, <3>1, <3>2 DEF InHand
    <3> QED BY <3>1, <3>3, <3>4, ProposerInHand DEF Proposing
  <2>2. CASE run[k] # "NONE"
    BY <1>1, <1>2, <2>2 DEF ProposeInsert
  <2> QED BY <2>1, <2>2
<1>3. CASE ProposeStart(q)
  <2>1. /\ pc[q] = "p_start"
        /\ pc'[q] = "p_lock"
        /\ job'[q] = [job[q] EXCEPT !.saw = "NONE", !.todo = Portfolios]
        /\ run' = [run EXCEPT ![k] = Running(@, job[q].saw)]
    BY <1>3, Moved DEF ProposeStart
  <2>2. job'[q].key = k /\ job'[q].draft = job[q].draft
    BY <2>1, <1>0 DEF Job
  <2>3. ~Over(k)
    BY <1>0, <2>1 DEF InHand, Proposing
  <2>4. ~Over(job[q].key)'
    BY <1>0, <2>1, <2>2, <2>3 DEF Over, Finished, Running
  <2>5. Stored(q)' = {}
    BY <1>0, <2>1, <2>2 DEF InHand
  <2> QED BY <2>1, <2>4, <2>5, ProposerInHand DEF Proposing
<1>4. CASE (\E x \in Portfolios : ProposeLock(q, x)) \/ ProposePersist(q) \/ ProposeFail(q)
  <2>1. /\ pc[q] \in {"p_lock", "p_persist"}
        /\ pc'[q] \in {"p_lock", "p_persist"}
        /\ run' = run
    BY <1>4, Moved DEF ProposeLock, ProposePersist, ProposeFail
  <2>2. job'[q].key = k /\ job'[q].draft = job[q].draft
    <3>1. CASE \E x \in Portfolios : ProposeLock(q, x)
      <4>1. PICK x \in Portfolios : ProposeLock(q, x)
        BY <3>1
      <4>2. \/ job'[q] = [job[q] EXCEPT !.todo = @ \ {x}, !.at = x]
            \/ job'[q] = [job[q] EXCEPT !.todo = @ \ {x}, !.failed = TRUE]
        BY <4>1, Moved DEF ProposeLock
      <4> QED BY <1>0, <4>2 DEF Job
    <3>2. CASE ProposePersist(q) \/ ProposeFail(q)
      <4>1. \/ job'[q] = [job[q] EXCEPT !.at = NoJob.at]
            \/ job'[q] = [job[q] EXCEPT !.at = NoJob.at, !.failed = TRUE]
        BY <3>2, Moved DEF ProposePersist, ProposeFail
      <4> QED BY <1>0, <4>1 DEF Job
    <3> QED BY <1>4, <3>1, <3>2
  <2>3. ~Over(job[q].key)'
    BY <1>0, <2>1, <2>2 DEF InHand, Proposing, Over
  <2>4. Stored(q)' = {}
    BY <1>0, <2>1, <2>2 DEF InHand
  <2> QED BY <2>1, <2>3, <2>4, ProposerInHand DEF Proposing
<1>5. CASE ProposeFinish(q)
  <2>1. PICK s : Answer(q, job[q].kind, k, s)
    BY <1>5 DEF ProposeFinish
  <2> QED BY <1>1, <2>1
<1>6. CASE EvaluateRead(q)
  <2>1. /\ pc[q] = "e_read"
        /\ ~Over(k)
        /\ pc'[q] = "e_portfolio"
        /\ job'[q] = [job[q] EXCEPT !.todo = Scope(k)]
        /\ UNCHANGED rows
    BY <1>0, <1>6, Moved DEF EvaluateRead, rows
  <2>2. /\ job'[q].key = k
        /\ job'[q].todo = Scope(k)
        /\ job'[q].draft = job[q].draft
    BY <2>1, <1>0 DEF Job
  <2>3. Stored(q)' = {} /\ ~Over(job[q].key)'
    BY <1>0, <2>1, <2>2 DEF InHand, Over, rows
  <2>4. InHand(q)'
    BY <2>1, <2>3 DEF InHand
  <2>5. Left(q)' = Scope(k)
    BY <2>1, <2>2 DEF Left, InPortfolio
  <2>6. /\ \A l \in Lots : cand[k][l] = "PENDING" => PortfolioOf[l] \in Scope(k)
        /\ \A x \in lock : x.run = k /\ Mine(x.portfolio) # {} => x.portfolio \in Scope(k)
    BY <1>0, ScopeIsAll DEF AloneInv
  <2>7. LeftToDo(q)'
    BY <2>1, <2>2, <2>5, <2>6 DEF LeftToDo, rows
  <2> QED BY <2>4, <2>7
<1>7. CASE \E x \in Portfolios : EvaluatePending(q, x)
  <2>1. PICK x \in Portfolios : EvaluatePending(q, x)
    BY <1>7
  <2> DEFINE pending == {l \in Mine(x) : cand[k][l] = "PENDING"}
  <2>2. /\ pc[q] = "e_portfolio"
        /\ x \in job[q].todo
        /\ pc'[q] = "e_lot"
        /\ job'[q] = [job[q] EXCEPT !.todo = @ \ {x}, !.at = x, !.work = pending]
        /\ UNCHANGED rows
    BY <2>1, Moved DEF EvaluatePending, rows
  <2>3. /\ job'[q].key = k
        /\ job'[q].todo = job[q].todo \ {x}
        /\ job'[q].at = x
        /\ job'[q].work = pending
        /\ job'[q].draft = job[q].draft
    BY <2>2, <1>0 DEF Job
  <2>4. /\ Stored(q)' = {}
        /\ ~Over(job[q].key)'
    BY <1>0, <2>2, <2>3 DEF InHand, Evaluating, Over, rows
  <2>5. InHand(q)'
    BY <2>2, <2>3, <2>4 DEF InHand, rows
  <2>6. Left(q)' = Left(q)
    BY <2>2, <2>3 DEF Left, InPortfolio
  <2>7. /\ \A l \in Lots : cand[k][l] = "PENDING" => PortfolioOf[l] \in Left(q)
        /\ \A y \in lock : y.run = k /\ Mine(y.portfolio) # {} => y.portfolio \in Left(q)
    BY <1>0, <2>2 DEF LeftToDo, Evaluating
  <2>8. \A l \in Mine(x) : cand[k][l] = "PENDING" => l \in pending
    OBVIOUS
  <2> HIDE DEF pending
  <2>9. LeftToDo(q)'
    BY <2>2, <2>3, <2>6, <2>7, <2>8 DEF LeftToDo, rows
  <2> QED BY <2>5, <2>9
<1>8. CASE \E l \in Lots : EvaluateCheck(q, l)
  <2>1. PICK l \in Lots : EvaluateCheck(q, l)
    BY <1>8
  <2> DEFINE j == [job[q] EXCEPT !.work = @ \ {l}]
  <2>2. /\ pc[q] = "e_lot"
        /\ l \in w
        /\ UNCHANGED rows
    BY <2>1 DEF EvaluateCheck, rows
  <2>3. cand[k][l] = "PENDING"
    BY <1>0, <2>2 DEF InHand
  <2>4. evaluation[k][l] = NoEvaluation
    BY <1>0, <2>3, PendingHasNone DEF AloneInv
  <2>5. j \in Job /\ j.key = k /\ j.todo = job[q].todo /\ j.at = p
        /\ j.work = w \ {l} /\ j.draft = job[q].draft
    BY <1>0 DEF Job
  <2>6. pc'[q] = "e_gate" /\ job'[q] = [j EXCEPT !.lot = l]
    BY <2>1, <2>4, <2>5, Moved DEF EvaluateCheck
  <2>7. /\ job'[q].key = k
        /\ job'[q].todo = job[q].todo
        /\ job'[q].at = p
        /\ job'[q].work = w \ {l}
        /\ job'[q].lot = l
        /\ job'[q].draft = job[q].draft
    BY <2>5, <2>6 DEF Job
  <2>8. Stored(q)' = Stored(q) /\ Left(q)' = Left(q) /\ ~Over(job[q].key)'
    BY <1>0, <2>2, <2>6, <2>7 DEF InHand, Evaluating, Left, InPortfolio, Over, rows
  <2>9. InHand(q)'
    BY <1>0, <2>2, <2>3, <2>6, <2>7, <2>8 DEF InHand, rows
  <2>10. LeftToDo(q)'
    BY <1>0, <2>2, <2>6, <2>7, <2>8 DEF LeftToDo, Evaluating, InPortfolio, rows
  <2> QED BY <2>9, <2>10
<1>9. CASE \E v \in Verdicts : EvaluateStore(q, v)
  <2>1. PICK v \in Verdicts : EvaluateStore(q, v)
    BY <1>9
  <2>2. /\ pc[q] = "e_gate"
        /\ pc'[q] = "e_lot"
        /\ job'[q] = [job[q] EXCEPT !.draft[job[q].lot] = v, !.lot = NoJob.lot]
        /\ UNCHANGED rows
    BY <2>1, Moved DEF EvaluateStore, rows
  <2>3. /\ job'[q].key = k
        /\ job'[q].todo = job[q].todo
        /\ job'[q].at = p
        /\ job'[q].work = w
        /\ job'[q].draft = [job[q].draft EXCEPT ![job[q].lot] = v]
    BY <2>2, <1>0 DEF Job
  <2>4. Stored(q)' = Stored(q) \cup {job[q].lot}
    BY <1>0, <2>3 DEF Stored, Draft, Verdicts
  <2>5. Left(q)' = Left(q) /\ ~Over(job[q].key)'
    BY <1>0, <2>2, <2>3 DEF InHand, Evaluating, Left, InPortfolio, Over, rows
  <2>6. InHand(q)'
    BY <1>0, <2>2, <2>3, <2>4, <2>5 DEF InHand, rows
  <2>7. LeftToDo(q)'
    BY <1>0, <2>2, <2>3, <2>4, <2>5 DEF LeftToDo, Evaluating, InPortfolio, rows
  <2> QED BY <2>6, <2>7
<1>10. CASE EvaluateCommit(q)
  <2>1. /\ pc[q] = "e_lot"
        /\ w = {}
        /\ pc'[q] = "e_rank"
        /\ job'[q] = [job[q] EXCEPT !.draft = NoDraft]
        /\ UNCHANGED <<run, lock>>
    BY <1>10, Moved DEF EvaluateCommit
  <2>2. /\ job'[q].key = k
        /\ job'[q].todo = job[q].todo
        /\ job'[q].at = p
        /\ job'[q].draft = NoDraft
    BY <2>1, <1>0 DEF Job
  <2>3. \A l \in Lots : cand'[k][l] = "PENDING" =>
          cand[k][l] = "PENDING" /\ l \notin Stored(q)
    <3>1. \A l \in Stored(q) : job[q].draft[l] # "PENDING"
      BY <1>0 DEF Stored, Draft, Verdicts
    <3>2. \A l \in Lots : cand'[k][l] = IF l \in Stored(q) THEN job[q].draft[l]
                                        ELSE cand[k][l]
      BY <1>0, <1>10, <3>1 DEF EvaluateCommit, Decided
    <3> QED BY <3>1, <3>2
  <2>4. Stored(q)' = {} /\ Left(q)' = Left(q) /\ ~Over(job[q].key)'
    BY <1>0, <2>1, <2>2 DEF InHand, Evaluating, Left, InPortfolio, Over
  <2>5. InHand(q)'
    BY <2>1, <2>4 DEF InHand
  <2>6. LeftToDo(q)'
    BY <1>0, <2>1, <2>2, <2>3, <2>4 DEF LeftToDo, Evaluating, InPortfolio, Mine
  <2> QED BY <2>5, <2>6
<1>11. CASE RankRead(q)
  <2> DEFINE approved == Approved(k) \cap Mine(p)
  <2>1. /\ pc[q] = "e_rank"
        /\ pc'[q] = "e_select"
        /\ job'[q] = [job[q] EXCEPT !.work = approved]
        /\ UNCHANGED rows
    BY <1>11, Moved DEF RankRead, rows
  <2>2. /\ job'[q].key = k
        /\ job'[q].todo = job[q].todo
        /\ job'[q].at = p
        /\ job'[q].work = approved
        /\ job'[q].draft = job[q].draft
    BY <2>1, <1>0 DEF Job
  <2>3. Stored(q)' = {} /\ Left(q)' = Left(q) /\ ~Over(job[q].key)'
    BY <1>0, <2>1, <2>2 DEF InHand, Evaluating, Left, InPortfolio, Over, rows
  <2>4. InHand(q)'
    BY <2>1, <2>2, <2>3 DEF InHand, Approved, rows
  <2>5. LeftToDo(q)'
    BY <1>0, <2>1, <2>2, <2>3 DEF LeftToDo, Evaluating, InPortfolio, rows
  <2> QED BY <2>4, <2>5
<1>12. CASE \E chosen \in SUBSET Lots : RankCommit(q, chosen)
  <2>1. /\ pc[q] = "e_select"
        /\ pc'[q] = "e_portfolio"
        /\ job'[q] = [job[q] EXCEPT !.work = {}, !.at = NoJob.at]
        /\ lock' = lock \ OwnRival(p, k)
        /\ UNCHANGED <<run, cand>>
    BY <1>12, Moved DEF RankCommit, Released
  <2>2. /\ job'[q].key = k
        /\ job'[q].todo = job[q].todo
        /\ job'[q].draft = job[q].draft
    BY <2>1, <1>0 DEF Job
  <2>3. Stored(q)' = {} /\ ~Over(job[q].key)'
    BY <1>0, <2>1, <2>2 DEF InHand, Evaluating, InPortfolio, Over
  <2>4. InHand(q)'
    BY <2>1, <2>3 DEF InHand
  <2>5. Left(q) = job[q].todo \cup {p} /\ Left(q)' = job[q].todo
    BY <2>1, <2>2 DEF Left, InPortfolio
  <2>6. ASSUME NEW l \in Lots, cand'[k][l] = "PENDING"
        PROVE  PortfolioOf[l] \in job[q].todo
    BY <1>0, <2>1, <2>5, <2>6 DEF LeftToDo, Evaluating, InPortfolio, Mine
  <2>7. ASSUME NEW x \in lock', x.run = k, Mine(x.portfolio) # {}
        PROVE  x.portfolio \in job[q].todo
    BY <1>0, <2>1, <2>5, <2>7 DEF LeftToDo, Evaluating, InPortfolio, OwnRival
  <2>8. LeftToDo(q)'
    BY <2>1, <2>2, <2>5, <2>6, <2>7 DEF LeftToDo
  <2> QED BY <2>4, <2>8
<1>13. CASE \/ EvaluateFinish(q)
            \/ \E v \in Verdicts : ReevaluateStore(q, v)
            \/ BreakDeadlock(q)
            \/ Crash(q)
  BY <1>0, <1>13, Moved DEF EvaluateFinish, ReevaluateStore, BreakDeadlock, Crash
<1> QED BY <1>2, <1>3, <1>4, <1>5, <1>6, <1>7, <1>8, <1>9, <1>10, <1>11,
           <1>12, <1>13 DEF Step

\* The candidates a commit decides were undecided, or an approval that is
\* looked at again; nothing becomes undecided but by a proposal.
Settled ==
  \A j \in Keys, l \in Lots :
    /\ cand'[j][l] = "PENDING" => cand[j][l] = "PENDING"
    /\ cand[j][l] = "REJECTED" => cand'[j][l] = "REJECTED"
    /\ cand[j][l] = "APPROVED" => cand'[j][l] \in Verdicts

LEMMA StoreSettles ==
  ASSUME TypeOK, AloneInv, NEW q \in Requests, job[q].key \in Exclusive,
         EvaluateCommit(q) \/ \E v \in Verdicts : ReevaluateStore(q, v)
  PROVE  /\ Settled
         /\ \A j \in Keys, l \in Lots :
              evaluation'[j][l] # evaluation[j][l] => ~evaluation'[j][l].ranked
<1> DEFINE k == job[q].key
<1>0. /\ k \in Keys /\ job[q].lot \in Lots /\ job[q].draft \in Draft
      /\ cand \in [Keys -> [Lots -> CandidateStatus]]
      /\ evaluation \in [Keys -> [Lots -> Evaluation]]
  BY Moved DEF TypeOK
<1>1. InHand(q)
  <2>1. Step(q)
    BY DEF Step
  <2> QED BY <2>1, RunStays DEF AloneInv
<1>2. CASE EvaluateCommit(q)
  <2>1. /\ \A l \in Stored(q) : job[q].draft[l] \in Verdicts
        /\ \A l \in Stored(q) : cand[k][l] = "PENDING"
    BY <1>0, <1>1, <1>2 DEF EvaluateCommit, InHand, Stored, Draft
  <2>2. \A j \in Keys, l \in Lots :
          cand'[j][l] = IF j = k /\ l \in Stored(q) THEN job[q].draft[l] ELSE cand[j][l]
    BY <1>0, <1>2, <2>1 DEF EvaluateCommit, Decided, Verdicts
  <2>3. \A j \in Keys, l \in Lots :
          evaluation'[j][l] = IF j = k /\ l \in Stored(q)
                              THEN [status |-> job[q].draft[l], ranked |-> FALSE]
                              ELSE evaluation[j][l]
    BY <1>0, <1>2 DEF EvaluateCommit
  <2>4. Settled
    BY <2>1, <2>2 DEF Settled, Verdicts
  <2>5. ASSUME NEW j \in Keys, NEW l \in Lots, evaluation'[j][l] # evaluation[j][l]
        PROVE  ~evaluation'[j][l].ranked
    <3>1. evaluation'[j][l] = [status |-> job[q].draft[l], ranked |-> FALSE]
      BY <2>3, <2>5
    <3> QED BY <3>1
  <2> QED BY <2>4, <2>5
<1>3. CASE \E v \in Verdicts : ReevaluateStore(q, v)
  <2>1. PICK v \in Verdicts : ReevaluateStore(q, v)
    BY <1>3
  <2>2. cand[k][job[q].lot] \in {"PENDING", "APPROVED"}
    BY <1>1, <2>1 DEF ReevaluateStore, InHand
  <2>3. \A j \in Keys, l \in Lots :
          cand'[j][l] = IF j = k /\ l = job[q].lot
                        THEN Decided(cand[j][l], job[q].was, v) ELSE cand[j][l]
    BY <1>0, <2>1 DEF ReevaluateStore
  <2>4. \A j \in Keys, l \in Lots :
          evaluation'[j][l] = IF j = k /\ l = job[q].lot
                              THEN [status |-> v, ranked |-> FALSE]
                              ELSE evaluation[j][l]
    BY <1>0, <2>1 DEF ReevaluateStore
  <2>5. Settled
    BY <2>2, <2>3 DEF Settled, Verdicts, Decided
  <2> QED BY <2>4, <2>5
<1> QED BY <1>2, <1>3

\* A proposal adds candidates, the lock they need and nothing else.
LEMMA PersistAdds ==
  ASSUME TypeOK, NEW q \in Requests, ProposePersist(q)
  PROVE  /\ \A j \in Keys, l \in Lots :
              cand'[j][l] = IF j = job[q].key /\ l \in Mine(job[q].at) /\ cand[j][l] = "NONE"
                            THEN "PENDING" ELSE cand[j][l]
         /\ lock' = lock \cup {[portfolio |-> job[q].at, run |-> job[q].key]}
         /\ UNCHANGED <<run, evaluation>>
<1>1. job[q].key \in Keys /\ cand \in [Keys -> [Lots -> CandidateStatus]]
  BY Moved DEF TypeOK
<1> QED BY <1>1 DEF ProposePersist

\* A ranking marks approvals and releases a portfolio with nothing undecided.
LEMMA RankReleases ==
  ASSUME TypeOK, DecisionIsExplained, AloneInv, NEW q \in Requests,
         job[q].key \in Exclusive,
         NEW chosen \in SUBSET Lots, RankCommit(q, chosen)
  PROVE  /\ \A j \in Keys, l \in Lots :
              \/ evaluation'[j][l] = evaluation[j][l]
              \/ evaluation[j][l].status = "APPROVED" /\ evaluation'[j][l].status = "APPROVED"
         /\ \A l \in Mine(job[q].at) : cand[job[q].key][l] # "PENDING"
         /\ lock' = lock \ OwnRival(job[q].at, job[q].key)
         /\ UNCHANGED <<run, cand>>
<1> DEFINE k == job[q].key
<1>1. k \in Keys /\ evaluation \in [Keys -> [Lots -> Evaluation]]
  BY Moved DEF TypeOK
<1>2. InHand(q) /\ LeftToDo(q) /\ pc[q] = "e_select"
  <2>1. Step(q)
    BY DEF Step
  <2> QED BY <2>1, RunStays DEF AloneInv, RankCommit
<1>3. ASSUME NEW l \in chosen PROVE evaluation[k][l].status = "APPROVED"
  <2>1. l \in Lots /\ cand[k][l] = "APPROVED"
    BY <1>2 DEF RankCommit, InHand
  <2> QED BY <1>1, <2>1 DEF DecisionIsExplained, Verdicts
<1>4. ASSUME NEW j \in Keys, NEW l \in Lots
      PROVE  \/ evaluation'[j][l] = evaluation[j][l]
             \/ /\ evaluation[j][l].status = "APPROVED"
                /\ evaluation'[j][l].status = "APPROVED"
  <2>1. CASE j = k /\ l \in chosen
    <3>1. evaluation'[j][l] = [evaluation[j][l] EXCEPT !.ranked = TRUE]
      BY <1>1, <2>1 DEF RankCommit
    <3>2. evaluation[j][l] \in Evaluation
      BY <1>1
    <3> QED BY <1>3, <2>1, <3>1, <3>2 DEF Evaluation
  <2>2. CASE ~(j = k /\ l \in chosen)
    BY <1>1, <2>2 DEF RankCommit
  <2> QED BY <2>1, <2>2
<1> QED BY <1>2, <1>4 DEF RankCommit, Released, LeftToDo

\* What a run's status becomes: nothing that is over is touched, and COMPLETED
\* only when nothing of the run is undecided or locked.
LEMMA RunMoves ==
  ASSUME TypeOK, AloneInv, NEW q \in Requests, job[q].key \in Exclusive,
         Call(q) \/ Step(q) \/ ProposeFail(q) \/ Crash(q), NEW j \in Keys
  PROVE  /\ Over(j) => run'[j] = run[j]
         /\ run'[j] = "COMPLETED" /\ run[j] # "COMPLETED" =>
              /\ \A l \in Lots : cand[j][l] # "PENDING"
              /\ \A x \in lock : Mine(x.portfolio) # {} => x.run # j
              /\ UNCHANGED <<cand, lock>>
<1> DEFINE k == job[q].key
<1>0. k \in Keys /\ run \in [Keys -> RunStatus]
  BY Moved DEF TypeOK
<1>1. CASE run' = run
  BY <1>1
<1>2. ASSUME Step(q) PROVE InHand(q) /\ LeftToDo(q)
  BY <1>2, RunStays DEF AloneInv
<1>3. CASE ProposeInsert(q)
  BY <1>0, <1>3 DEF ProposeInsert, Over, Finished
<1>4. CASE ProposeStart(q)
  <2>1. ~Over(k)
    BY <1>2, <1>4 DEF ProposeStart, InHand, Proposing, Step
  <2> QED BY <1>0, <1>4, <2>1 DEF ProposeStart, Running, Over, Finished
<1>5. CASE ProposeFinish(q)
  <2>1. ~Over(k)
    BY <1>2, <1>5 DEF ProposeFinish, InHand, Proposing, Step
  <2> QED BY <1>0, <1>5, <2>1 DEF ProposeFinish, Over
<1>6. CASE EvaluateFinish(q)
  <2>1. /\ pc[q] = "e_portfolio" /\ job[q].todo = {}
        /\ run' = [run EXCEPT ![k] = "COMPLETED"]
        /\ UNCHANGED <<lock, cand>>
    BY <1>6 DEF EvaluateFinish
  <2>2. Left(q) = {}
    BY <2>1 DEF Left, InPortfolio
  <2>3. ~Over(k) /\ LeftToDo(q)
    BY <1>2, <1>6, <2>1 DEF InHand, Evaluating, Step
  <2>4. /\ \A l \in Lots : cand[k][l] # "PENDING"
        /\ \A x \in lock : Mine(x.portfolio) # {} => x.run # k
    BY <2>1, <2>2, <2>3 DEF LeftToDo, Evaluating
  <2> QED BY <1>0, <2>1, <2>3, <2>4 DEF Over
<1>7. CASE Call(q) \/ ~Writes(q)
  BY <1>1, <1>7, CallFramed, OthersKeepRows DEF rows
<1>8. CASE ProposePersist(q) \/ EvaluateCommit(q)
           \/ (\E chosen \in SUBSET Lots : RankCommit(q, chosen))
           \/ \E v \in Verdicts : ReevaluateStore(q, v)
  BY <1>1, <1>8 DEF ProposePersist, EvaluateCommit, RankCommit, ReevaluateStore
<1> QED BY <1>3, <1>4, <1>5, <1>6, <1>7, <1>8 DEF Writes

\* Only these write candidates, evaluations or locks.
LEMMA RowWriters ==
  ASSUME TypeOK, NEW q \in Requests,
         Call(q) \/ Step(q) \/ ProposeFail(q) \/ Crash(q)
  PROVE  \/ UNCHANGED <<cand, evaluation, lock>>
         \/ ProposePersist(q)
         \/ (EvaluateCommit(q) \/ \E v \in Verdicts : ReevaluateStore(q, v))
              /\ UNCHANGED <<lock, run>>
         \/ \E chosen \in SUBSET Lots : RankCommit(q, chosen)
<1>1. CASE Call(q) \/ ~Writes(q)
  BY <1>1, CallFramed, OthersKeepRows DEF rows
<1> QED BY <1>1 DEF Writes, ProposeInsert, ProposeStart, ProposeFinish, EvaluateFinish,
           EvaluateCommit, ReevaluateStore

\* Every action of a request keeps AloneInv.
LEMMA AloneInvStep ==
  ASSUME TypeOK, WorkInv, DecisionIsExplained, AloneInv, NEW q \in Requests,
         Call(q) \/ Step(q) \/ ProposeFail(q) \/ Crash(q)
  PROVE  AloneInv'
<1> DEFINE k == job[q].key
           p == job[q].at
<1>0. /\ k \in Keys /\ p \in Portfolios
      /\ Exclusive \subseteq Keys
      /\ \A r \in Requests \ {q} : pc'[r] = pc[r] /\ job'[r] = job[r]
  BY Moved, TypeStep, ConstantsAssumption DEF Framed
<1>1. Alone'
  BY AloneStep DEF AloneInv
<1>2. ASSUME NEW r \in InFlight', job'[r].key \in Exclusive
      PROVE  InHand(r)' /\ LeftToDo(r)'
  <2>1. r \in Requests
    BY DEF InFlight
  <2>2. CASE r # q
    BY <1>2, <2>1, <2>2, OthersUndisturbed
  <2>3. CASE r = q /\ Call(q)
    BY <2>3, CallInHand
  <2>4. CASE r = q /\ ~Call(q)
    <3>1. job[q].key \in Exclusive
      BY <1>2, <2>4, RunStays DEF InFlight
    <3> QED BY <2>4, <3>1, StepInHand
  <2> QED BY <2>2, <2>3, <2>4
<1>3. LockedAreProposed'
  <2> SUFFICES ASSUME NEW x \in lock', NEW l \in Mine(x.portfolio)
               PROVE  cand'[x.run][l] # "NONE"
    BY DEF LockedAreProposed, Mine, Proposed
  <2>1. l \in Lots /\ (x \in lock => x.run \in Keys /\ cand[x.run][l] # "NONE")
    BY DEF AloneInv, LockedAreProposed, Mine, Proposed, TypeOK, Lock
  <2>2. CASE x \in lock
    <3>1. Proposed(x.run) \subseteq Proposed(x.run)'
      BY <2>1, <2>2, ProposedGrows
    <3> QED BY <2>1, <2>2, <3>1 DEF Proposed
  <2>3. CASE x \notin lock
    <3>1. ProposePersist(q)
      BY <2>3, RowWriters DEF RankCommit
    <3>2. x = [portfolio |-> p, run |-> k]
      BY <2>3, <3>1, PersistAdds
    <3>3. l \in Mine(p)
      BY <3>2
    <3> QED BY <1>0, <2>1, <3>1, <3>2, <3>3, PersistAdds
  <2> QED BY <2>2, <2>3
<1>4. RankedAreApproved'
  <2> SUFFICES ASSUME NEW j \in Exclusive, NEW l \in Lots, evaluation'[j][l].ranked
               PROVE  evaluation'[j][l].status = "APPROVED"
    BY DEF RankedAreApproved
  <2>1. CASE evaluation'[j][l] = evaluation[j][l]
    BY <2>1 DEF AloneInv, RankedAreApproved
  <2>2. CASE evaluation'[j][l] # evaluation[j][l]
    <3>1. ~UNCHANGED evaluation
      BY <2>2
    <3>2. j \in Keys /\ j = k /\ k \in Exclusive
      BY <1>0, <2>2, OtherRuns
    <3>3. ~ProposePersist(q)
      BY <3>1, PersistAdds
    <3>4. ~(EvaluateCommit(q) \/ \E v \in Verdicts : ReevaluateStore(q, v))
      BY <2>2, <3>2, StoreSettles
    <3>5. PICK chosen \in SUBSET Lots : RankCommit(q, chosen)
      BY <3>1, <3>3, <3>4, RowWriters
    <3> QED BY <2>2, <3>2, <3>5, RankReleases
  <2> QED BY <2>1, <2>2
<1>5. PendingIsLocked'
  <2> SUFFICES ASSUME NEW j \in Exclusive, NEW l \in Lots, cand'[j][l] = "PENDING"
               PROVE  [portfolio |-> PortfolioOf[l], run |-> j] \in lock'
    BY DEF PendingIsLocked
  <2>0. j \in Keys
    BY <1>0
  <2>1. cand[j][l] = "PENDING" => [portfolio |-> PortfolioOf[l], run |-> j] \in lock
    BY DEF AloneInv, PendingIsLocked
  <2>2. CASE j # k \/ UNCHANGED <<cand, lock>>
    BY <2>0, <2>1, <2>2, OtherRuns
  <2>3. CASE j = k /\ ProposePersist(q)
    <3>1. CASE cand[j][l] = "PENDING"
      BY <2>1, <2>3, <3>1, PersistAdds
    <3>2. CASE cand[j][l] # "PENDING"
      <4>1. l \in Mine(p)
        BY <2>0, <2>3, <3>2, PersistAdds
      <4> QED BY <2>3, <4>1, PersistAdds DEF Mine
    <3> QED BY <3>1, <3>2
  <2>4. CASE /\ j = k
             /\ EvaluateCommit(q) \/ \E v \in Verdicts : ReevaluateStore(q, v)
             /\ UNCHANGED lock
    <3>1. cand[j][l] = "PENDING"
      BY <2>0, <2>4, StoreSettles DEF Settled
    <3> QED BY <2>1, <2>4, <3>1
  <2>5. CASE j = k /\ \E chosen \in SUBSET Lots : RankCommit(q, chosen)
    <3>1. /\ \A m \in Mine(p) : cand[k][m] # "PENDING"
          /\ lock' = lock \ OwnRival(p, k)
          /\ cand' = cand
      BY <2>5, RankReleases
    <3>2. PortfolioOf[l] # p
      BY <2>5, <3>1 DEF Mine
    <3> QED BY <2>1, <3>1, <3>2 DEF OwnRival
  <2> QED BY <2>2, <2>3, <2>4, <2>5, RowWriters
<1>6. CompletedIsDone'
  <2> SUFFICES ASSUME NEW j \in Exclusive, run'[j] = "COMPLETED"
               PROVE  /\ \A l \in Lots : cand'[j][l] # "PENDING"
                      /\ \A x \in lock' : Mine(x.portfolio) # {} => x.run # j
    BY DEF CompletedIsDone, CompletedIsEvaluated, CompletedIsReleased
  <2>0. j \in Keys
    BY <1>0
  <2>1. run[j] = "COMPLETED" =>
          /\ \A l \in Lots : cand[j][l] # "PENDING"
          /\ \A x \in lock : Mine(x.portfolio) # {} => x.run # j
    BY DEF AloneInv, CompletedIsDone, CompletedIsEvaluated, CompletedIsReleased
  <2>2. CASE j # k
    <3>1. /\ run'[j] = run[j] /\ cand'[j] = cand[j]
          /\ \A x : x.run = j => (x \in lock' <=> x \in lock)
      BY <2>0, <2>2, OtherRuns
    <3> QED BY <2>1, <3>1
  <2>3. CASE j = k /\ run[j] # "COMPLETED"
    BY <2>0, <2>3, RunMoves
  <2>4. CASE j = k /\ run[j] = "COMPLETED"
    <3>1. CASE UNCHANGED <<cand, lock>>
      BY <2>1, <2>4, <3>1
    <3>2. ~ProposePersist(q)
      <4>1. ASSUME ProposePersist(q) PROVE InHand(q) /\ pc[q] = "p_persist"
        <5>1. Step(q)
          BY <4>1 DEF Step
        <5> QED BY <2>4, <4>1, <5>1, RunStays DEF AloneInv, ProposePersist
      <4> QED BY <2>4, <4>1 DEF InHand, Proposing, Over, Finished
    <3>3. CASE /\ EvaluateCommit(q) \/ \E v \in Verdicts : ReevaluateStore(q, v)
               /\ UNCHANGED lock
      BY <2>0, <2>1, <2>4, <3>3, StoreSettles DEF Settled
    <3>4. CASE \E chosen \in SUBSET Lots : RankCommit(q, chosen)
      BY <2>1, <2>4, <3>4, RankReleases
    <3> QED BY <3>1, <3>2, <3>3, <3>4, RowWriters
  <2> QED BY <2>2, <2>3, <2>4
<1> QED BY <1>1, <1>2, <1>3, <1>4, <1>5, <1>6 DEF AloneInv

\* Nothing is in hand at first.
LEMMA AloneInit == Init => AloneInv
<1> SUFFICES ASSUME Init PROVE AloneInv
  OBVIOUS
<1>1. InFlight = {}
  BY DEF Init, InFlight, Steps
<1>2. Alone /\ LockedAreProposed /\ PendingIsLocked
  BY <1>1, ConstantsAssumption DEF Init, Alone, LockedAreProposed, PendingIsLocked
<1>3. RankedAreApproved
  BY ConstantsAssumption DEF Init, RankedAreApproved, NoEvaluation
<1>4. CompletedIsDone
  BY ConstantsAssumption DEF Init, CompletedIsDone, CompletedIsEvaluated, CompletedIsReleased
<1> QED BY <1>1, <1>2, <1>3, <1>4 DEF AloneInv

\* Where one request at a time works on a run, whatever the others do on other
\* runs and whichever of them die: what is undecided stays locked, what is
\* completed is decided and released, and only approvals are ranked.
LEMMA AloneAlways == Spec => []AloneInv
<1>1. TypeOK /\ WorkInv /\ DecisionIsExplained /\ AloneInv /\ [Next]_vars => AloneInv'
  <2> SUFFICES ASSUME TypeOK, WorkInv, DecisionIsExplained, AloneInv, [Next]_vars
               PROVE  AloneInv'
    OBVIOUS
  <2>1. CASE UNCHANGED vars
    <3>1. UNCHANGED <<run, lock, cand, evaluation, pc, job>>
      BY <2>1 DEF vars
    <3>2. (Alone /\ LockedAreProposed)'
      BY <3>1 DEF AloneInv, Alone, LockedAreProposed, InFlight, Proposed
    <3>3. (RankedAreApproved /\ PendingIsLocked /\ CompletedIsDone)'
      BY <3>1 DEF AloneInv, RankedAreApproved, PendingIsLocked, CompletedIsDone,
         CompletedIsEvaluated, CompletedIsReleased
    <3>4. ASSUME NEW r \in InFlight', job'[r].key \in Exclusive
          PROVE  InHand(r)' /\ LeftToDo(r)'
      <4>1. /\ InHand(r) /\ LeftToDo(r)
            /\ Stored(r)' = Stored(r) /\ Left(r)' = Left(r)
            /\ Over(job[r].key)' = Over(job[r].key)
        BY <3>1, <3>4 DEF AloneInv, InFlight, Stored, Left, Over
      <4>2. InHand(r)'
        BY <3>1, <4>1 DEF InHand
      <4>3. LeftToDo(r)'
        BY <3>1, <4>1 DEF LeftToDo
      <4> QED BY <4>2, <4>3
    <3> QED BY <3>2, <3>3, <3>4 DEF AloneInv
  <2>2. CASE \E q \in Requests :
               Call(q) \/ Step(q) \/ ProposeFail(q) \/ Crash(q)
    BY <2>2, AloneInvStep
  <2> QED BY <2>1, <2>2 DEF Next, Idle
<1> QED
  BY <1>1, AloneInit, TypeCorrect, WorkAlways, DecisionsExplained, PTL DEF Spec

\* PendingIsLocked: an undecided candidate's portfolio is locked by its run,
\* through the death of its proposer or evaluator at any step, and however
\* many requests race on the other runs of the day.
THEOREM PendingStaysLocked == Spec => []PendingIsLocked
<1>1. AloneInv => PendingIsLocked
  BY DEF AloneInv
<1> QED BY <1>1, AloneAlways, PTL

\* CompletedIsDone: a run is COMPLETED when no candidate is undecided and no
\* portfolio with lots is locked, and stays so.
THEOREM CompletedStaysDone == Spec => []CompletedIsDone
<1>1. AloneInv => CompletedIsDone
  BY DEF AloneInv
<1> QED BY <1>1, AloneAlways, PTL

\* OneRunDecides: the locks do what they are for. No two runs of one period,
\* worked on at the same time, have undecided candidates of one portfolio.
THEOREM OneRunAtATime == Spec => []OneRunDecides
<1>1. LockIsExclusive /\ PendingIsLocked => OneRunDecides
  BY LocksDecide
<1> QED BY <1>1, LocksExclude, PendingStaysLocked, PTL

---------------------------------------------------------------------------
(* What is final, whoever works on a run.                                  *)

\* A request that goes on works on the run it worked on, and it was at work.
LEMMA AtWorkBefore ==
  ASSUME TypeOK, NEW q \in Requests,
         Call(q) \/ Step(q) \/ ProposeFail(q) \/ Crash(q),
         NEW k \in Keys, RunSettled(k),
         pc'[q] \in Steps, job'[q].key = k
  PROVE  pc'[q] \in {"p_insert", "e_read", "r_store"}
<1>0. /\ "done" \notin Steps
      /\ \A kind, j : Asked(kind, j).key = j
      /\ run[k] # "NONE" /\ Over(k)
      /\ \A r \in InFlight : job[r].key = k =>
           pc[r] \in {"p_insert", "e_read", "r_store"}
  BY NoJobTyped DEF Steps, RunSettled, AtWork, Over, Finished
<1>1. CASE Call(q)
  <2>1. ASSUME NEW j \in Keys, NEW kind, ProposeTakeOver(q, kind, j) PROVE FALSE
    <3>1. job'[q] = [Asked(kind, j) EXCEPT !.saw = run[j]] /\ ~Over(j)
      BY <2>1, Moved DEF ProposeTakeOver
    <3>2. job'[q].key = j
      BY <3>1 DEF Asked, NoJob
    <3> QED BY <1>0, <3>1, <3>2
  <2>2. ASSUME NEW j \in Keys, NEW kind, ProposeReuse(q, kind, j) \/ ProposeNew(q, kind, j)
        PROVE  pc'[q] \in {"p_insert", "e_read", "r_store", "done"}
    BY <2>2, Moved DEF ProposeReuse, ProposeNew
  <2>3. ASSUME NEW j \in Keys, EvaluateCall(q, j)
        PROVE  pc'[q] \in {"p_insert", "e_read", "r_store", "done"}
    BY <2>3, Moved DEF EvaluateCall
  <2>4. ASSUME NEW j \in Keys, NEW l \in Lots, ReevaluateCall(q, j, l)
        PROVE  pc'[q] \in {"p_insert", "e_read", "r_store", "done"}
    BY <2>4, Moved DEF ReevaluateCall
  <2> QED BY <1>0, <1>1, <2>1, <2>2, <2>3, <2>4 DEF Call
<1>2. CASE Step(q) \/ ProposeFail(q) \/ Crash(q)
  <2>1. q \in InFlight /\ job[q].key = k
    BY <1>2, RunStays
  <2>2. pc[q] \in {"p_insert", "e_read", "r_store"}
    BY <1>0, <2>1
  <2>3. CASE pc[q] = "p_insert"
    <3>1. ProposeInsert(q) \/ Crash(q)
      BY <1>2, <2>3 DEF Step, ProposeStart, ProposeLock, EvaluatePending, ProposePersist,
         ProposeFinish, ProposeFail, EvaluateRead, EvaluateCheck, EvaluateStore,
         ReevaluateStore, EvaluateCommit, RankRead, RankCommit, EvaluateFinish,
         BreakDeadlock, WaitsFor
    <3>2. ~Crash(q)
      BY <1>0, Moved DEF Crash
    <3>3. Answer(q, job[q].kind, k, run[k])
      BY <1>0, <2>1, <3>1, <3>2 DEF ProposeInsert
    <3> QED BY <1>0, <3>3, Moved
  <2>4. CASE pc[q] = "e_read"
    <3>1. EvaluateRead(q) \/ Crash(q)
      BY <1>2, <2>4 DEF Step, ProposeInsert, ProposeStart, ProposeLock, EvaluatePending,
         ProposePersist, ProposeFinish, ProposeFail, EvaluateCheck, EvaluateStore,
         ReevaluateStore, EvaluateCommit, RankRead, RankCommit, EvaluateFinish,
         BreakDeadlock, WaitsFor
    <3>2. pc'[q] = "done"
      BY <1>0, <2>1, <3>1, Moved DEF Crash, EvaluateRead
    <3> QED BY <1>0, <3>2
  <2>5. CASE pc[q] = "r_store"
    <3>1. (\E v \in Verdicts : ReevaluateStore(q, v)) \/ Crash(q)
      BY <1>2, <2>5 DEF Step, ProposeInsert, ProposeStart, ProposeLock, EvaluatePending,
         ProposePersist, ProposeFinish, ProposeFail, EvaluateCheck, EvaluateStore,
         EvaluateRead, EvaluateCommit, RankRead, RankCommit, EvaluateFinish,
         BreakDeadlock, WaitsFor
    <3>2. pc'[q] = "done"
      BY <3>1, Moved DEF Crash, ReevaluateStore
    <3> QED BY <1>0, <3>2
  <2> QED BY <2>2, <2>3, <2>4, <2>5
<1> QED BY <1>1, <1>2

\* No action touches a run that is over and that nobody is at work on.
LEMMA RunSettlesStep ==
  ASSUME TypeOK, WorkInv, NEW q \in Requests,
         Call(q) \/ Step(q) \/ ProposeFail(q) \/ Crash(q),
         NEW k \in Keys, RunSettled(k)
  PROVE  RunSettled(k)' /\ run'[k] = run[k] /\ Proposed(k)' = Proposed(k)
<1>0. /\ Over(k) /\ run[k] # "NONE"
      /\ \A r \in InFlight : job[r].key = k =>
           pc[r] \in {"p_insert", "e_read", "r_store"}
      /\ job[q].key \in Keys
      /\ run \in [Keys -> RunStatus]
  BY Moved DEF RunSettled, AtWork, Over, Finished, TypeOK
<1>1. ~AtWork(k)'
  <2> SUFFICES ASSUME NEW r \in InFlight', job'[r].key = k
               PROVE  pc'[r] \in {"p_insert", "e_read", "r_store"}
    BY DEF AtWork
  <2>1. r \in Requests /\ pc'[r] \in Steps
    BY DEF InFlight
  <2>2. CASE r = q
    BY <2>1, <2>2, AtWorkBefore
  <2>3. CASE r # q
    <3>1. pc'[r] = pc[r] /\ job'[r] = job[r]
      BY <2>1, <2>3, TypeStep DEF Framed
    <3>2. r \in InFlight
      BY <2>1, <3>1 DEF InFlight
    <3> QED BY <1>0, <3>1, <3>2
  <2> QED BY <2>2, <2>3
<1>2. CASE Call(q) \/ ~Writes(q)
  <2>1. UNCHANGED rows
    BY <1>2, CallFramed, OthersKeepRows
  <2> QED BY <1>0, <1>1, <2>1 DEF rows, RunSettled, Over, Proposed
<1>3. CASE Writes(q) /\ ~Call(q) /\ job[q].key # k
  <2>1. run'[k] = run[k] /\ cand'[k] = cand[k]
    BY <1>3, OtherRuns
  <2> QED BY <1>0, <1>1, <2>1 DEF RunSettled, Over, Proposed
<1>4. CASE Writes(q) /\ ~Call(q) /\ job[q].key = k
  <2>1. q \in InFlight
    BY <1>4, RunStays
  <2>2. pc[q] \in {"p_insert", "e_read", "r_store"}
    BY <1>0, <1>4, <2>1
  <2>3. ProposeInsert(q) \/ \E v \in Verdicts : ReevaluateStore(q, v)
    BY <1>4, <2>2 DEF Writes, ProposeStart, ProposePersist, ProposeFinish, EvaluateCommit,
       RankCommit, EvaluateFinish
  <2>4. run' = run
    BY <1>0, <1>4, <2>3 DEF ProposeInsert, ReevaluateStore
  <2>5. ~ProposePersist(q)
    BY <2>2 DEF ProposePersist
  <2> QED BY <1>0, <1>1, <2>4, <2>5, ProposedGrows DEF RunSettled, Over
<1> QED BY <1>2, <1>3, <1>4

\* RunSettles: a finished run that nobody is at work on is never reopened,
\* finished otherwise or given candidates, by any number of racing retries,
\* evaluations and rechecks.
THEOREM FinishedRunsSettle == Spec => RunSettles
<1>1. TypeOK /\ WorkInv /\ [Next]_vars =>
        [\A k \in Keys :
           RunSettled(k) => /\ RunSettled(k)'
                            /\ run'[k] = run[k]
                            /\ Proposed(k)' = Proposed(k)]_vars
  <2> SUFFICES ASSUME TypeOK, WorkInv, NEW q \in Requests,
                      Call(q) \/ Step(q) \/ ProposeFail(q) \/ Crash(q)
               PROVE  \A k \in Keys :
                        RunSettled(k) => /\ RunSettled(k)'
                                         /\ run'[k] = run[k]
                                         /\ Proposed(k)' = Proposed(k)
    BY DEF Next, Idle
  <2> QED BY RunSettlesStep
<1> QED BY <1>1, TypeCorrect, WorkAlways, PTL DEF Spec, RunSettles

\* A request that loaded the candidate undecided.
DecidingBy(r, k, l) ==
  /\ job[r].key = k
  /\ \/ pc[r] = "e_gate" /\ job[r].lot = l
     \/ job[r].draft[l] # "NONE"
     \/ pc[r] = "r_store" /\ job[r].lot = l /\ job[r].was = "PENDING"

\* No request takes up a rejected candidate as undecided.
LEMMA DecidingBefore ==
  ASSUME TypeOK, DecisionIsExplained, NEW q \in Requests,
         Call(q) \/ Step(q) \/ ProposeFail(q) \/ Crash(q),
         NEW k \in Keys, NEW l \in Lots, cand[k][l] = "REJECTED",
         pc'[q] \in Steps, DecidingBy(q, k, l)'
  PROVE  q \in InFlight /\ DecidingBy(q, k, l)
<1>0. /\ "done" \notin Steps
      /\ \A kind, j : Asked(kind, j).draft = NoDraft
      /\ job[q] \in Job /\ job[q].lot \in Lots /\ job[q].draft \in Draft
      /\ NoDraft[l] = "NONE"
      /\ NoJob.draft = NoDraft
  BY Moved, NoJobTyped DEF Steps, NoDraft
<1>1. pc'[q] # "r_store"
  <2> SUFFICES ASSUME pc'[q] = "r_store" PROVE FALSE
    OBVIOUS
  <2>1. PICK j \in Keys, m \in Lots :
          /\ ReevaluateCall(q, j, m)
          /\ CanTransition(cand[j][m])
          /\ job'[q].key = j /\ job'[q].lot = m /\ job'[q].was = cand[j][m]
    BY OnlyCallsRecheck
  <2>2. job'[q] = [Asked("reevaluate", j) EXCEPT !.lot = m, !.was = cand[j][m]]
    BY <1>0, <2>1, Moved DEF ReevaluateCall
  <2>3. job'[q].draft = NoDraft
    BY <2>2 DEF Asked, NoJob
  <2> QED BY <1>0, <2>1, <2>3 DEF DecidingBy
<1>2. ~Call(q)
  <2> SUFFICES ASSUME Call(q) PROVE job'[q].draft[l] = "NONE" /\ pc'[q] # "e_gate"
    BY <1>1 DEF DecidingBy
  <2>1. ASSUME NEW j, NEW kind, ProposeTakeOver(q, kind, j)
        PROVE  job'[q].draft[l] = "NONE" /\ pc'[q] # "e_gate"
    <3>1. /\ job'[q] = [Asked(kind, j) EXCEPT !.saw = run[j]]
          /\ pc'[q] = "p_start"
      BY <2>1, Moved DEF ProposeTakeOver
    <3>2. job'[q].draft = NoDraft
      BY <3>1 DEF Asked, NoJob
    <3> QED BY <1>0, <3>1, <3>2
  <2>2. ASSUME NEW j, NEW kind, ProposeReuse(q, kind, j) \/ ProposeNew(q, kind, j)
        PROVE  job'[q].draft[l] = "NONE" /\ pc'[q] # "e_gate"
    BY <1>0, <2>2, Moved DEF ProposeReuse, ProposeNew
  <2>3. ASSUME NEW j, EvaluateCall(q, j)
        PROVE  job'[q].draft[l] = "NONE" /\ pc'[q] # "e_gate"
    BY <1>0, <2>3, Moved DEF EvaluateCall
  <2>4. ASSUME NEW j, NEW m, ReevaluateCall(q, j, m) PROVE FALSE
    BY <1>0, <1>1, <2>4, Moved DEF ReevaluateCall
  <2> QED BY <2>1, <2>2, <2>3, <2>4 DEF Call
<1>3. q \in InFlight /\ job[q].key = k
  BY <1>2, RunStays DEF DecidingBy
<1>4. CASE \E m \in Lots : EvaluateCheck(q, m)
  <2>1. PICK m \in Lots : EvaluateCheck(q, m)
    BY <1>4
  <2> DEFINE j == [job[q] EXCEPT !.work = @ \ {m}]
  <2>2. j \in Job /\ j.key = k /\ j.draft = job[q].draft
    BY <1>0, <1>3 DEF Job
  <2>3. \/ pc'[q] = "e_lot" /\ job'[q] = j
        \/ /\ pc'[q] = "e_gate" /\ job'[q] = [j EXCEPT !.lot = m]
           /\ evaluation[k][m] = NoEvaluation
    BY <2>1, <2>2, Moved DEF EvaluateCheck
  <2>4. [j EXCEPT !.lot = m].lot = m /\ [j EXCEPT !.lot = m].draft = job[q].draft
    BY <2>2 DEF Job
  <2>5. evaluation[k][l] # NoEvaluation
    BY DEF DecisionIsExplained, Verdicts, NoEvaluation
  <2>6. job[q].draft[l] # "NONE"
    BY <2>2, <2>3, <2>4, <2>5 DEF DecidingBy
  <2> QED BY <1>3, <2>6 DEF DecidingBy
<1>5. CASE \E v \in Verdicts : EvaluateStore(q, v)
  <2>1. PICK v \in Verdicts : EvaluateStore(q, v)
    BY <1>5
  <2>2. /\ pc[q] = "e_gate" /\ pc'[q] = "e_lot"
        /\ job'[q] = [job[q] EXCEPT !.draft[job[q].lot] = v, !.lot = NoJob.lot]
    BY <2>1, Moved DEF EvaluateStore
  <2>3. CASE job[q].lot = l
    BY <1>3, <2>2, <2>3 DEF DecidingBy
  <2>4. CASE job[q].lot # l
    <3>1. job'[q].draft[l] = job[q].draft[l]
      BY <1>0, <2>2, <2>4 DEF Job, Draft
    <3>2. job'[q].draft[l] # "NONE"
      BY <2>2, <1>1 DEF DecidingBy
    <3> QED BY <1>3, <3>1, <3>2 DEF DecidingBy
  <2> QED BY <2>3, <2>4
<1>6. CASE /\ ~\E m \in Lots : EvaluateCheck(q, m)
           /\ ~\E v \in Verdicts : EvaluateStore(q, v)
  <2>1. pc'[q] # "e_gate" /\ job'[q].draft \in {job[q].draft, NoDraft}
    <3>1. CASE ProposeInsert(q)
      <4>1. CASE job'[q] = [job[q] EXCEPT !.saw = "PENDING"] /\ pc'[q] = "p_start"
        BY <1>0, <4>1 DEF Job
      <4>2. CASE Answer(q, job[q].kind, job[q].key, run[job[q].key])
        BY <1>0, <4>2, Moved
      <4> QED BY <3>1, <4>1, <4>2, Moved DEF ProposeInsert
    <3>2. CASE ProposeFinish(q)
      BY <1>0, <3>2, Moved DEF ProposeFinish
    <3>3. CASE ProposeStart(q)
      <4>1. /\ job'[q] = [job[q] EXCEPT !.saw = "NONE", !.todo = Portfolios]
            /\ pc'[q] = "p_lock"
        BY <3>3, Moved DEF ProposeStart
      <4> QED BY <1>0, <4>1 DEF Job
    <3>4. CASE \E p \in Portfolios : ProposeLock(q, p)
      <4>1. PICK p \in Portfolios : ProposeLock(q, p)
        BY <3>4
      <4>2. /\ \/ job'[q] = [job[q] EXCEPT !.todo = @ \ {p}, !.at = p]
               \/ job'[q] = [job[q] EXCEPT !.todo = @ \ {p}, !.failed = TRUE]
            /\ pc'[q] \in {"p_persist", "p_lock"}
        BY <4>1, Moved DEF ProposeLock
      <4> QED BY <1>0, <4>2 DEF Job
    <3>5. CASE \E p \in Portfolios : EvaluatePending(q, p)
      <4>1. PICK p \in Portfolios : EvaluatePending(q, p)
        BY <3>5
      <4>2. /\ job'[q] = [job[q] EXCEPT !.todo = @ \ {p}, !.at = p,
                       !.work = {m \in Mine(p) : cand[job[q].key][m] = "PENDING"}]
            /\ pc'[q] = "e_lot"
        BY <4>1, Moved DEF EvaluatePending
      <4> QED BY <1>0, <4>2 DEF Job
    <3>6. CASE ProposePersist(q) \/ ProposeFail(q)
      <4>1. /\ \/ job'[q] = [job[q] EXCEPT !.at = NoJob.at]
               \/ job'[q] = [job[q] EXCEPT !.at = NoJob.at, !.failed = TRUE]
            /\ pc'[q] = "p_lock"
        BY <3>6, Moved DEF ProposePersist, ProposeFail
      <4> QED BY <1>0, <4>1 DEF Job
    <3>7. CASE EvaluateRead(q)
      <4>1. \/ job'[q] = NoJob /\ pc'[q] = "done"
            \/ /\ job'[q] = [job[q] EXCEPT !.todo = Scope(job[q].key)]
               /\ pc'[q] = "e_portfolio"
        BY <3>7, Moved DEF EvaluateRead
      <4> QED BY <1>0, <4>1 DEF Job
    <3>8. CASE EvaluateCommit(q)
      <4>1. job'[q] = [job[q] EXCEPT !.draft = NoDraft] /\ pc'[q] = "e_rank"
        BY <3>8, Moved DEF EvaluateCommit
      <4> QED BY <1>0, <4>1 DEF Job
    <3>9. CASE RankRead(q)
      <4>1. /\ job'[q] = [job[q] EXCEPT !.work = Approved(job[q].key) \cap Mine(job[q].at)]
            /\ pc'[q] = "e_select"
        BY <3>9, Moved DEF RankRead
      <4> QED BY <1>0, <4>1 DEF Job
    <3>10. CASE \E chosen \in SUBSET Lots : RankCommit(q, chosen)
      <4>1. /\ job'[q] = [job[q] EXCEPT !.work = {}, !.at = NoJob.at]
            /\ pc'[q] = "e_portfolio"
        BY <3>10, Moved DEF RankCommit
      <4> QED BY <1>0, <4>1 DEF Job
    <3>11. CASE \/ EvaluateFinish(q)
                \/ \E v \in Verdicts : ReevaluateStore(q, v)
                \/ BreakDeadlock(q)
                \/ Crash(q)
      BY <1>0, <3>11, Moved DEF EvaluateFinish, ReevaluateStore, BreakDeadlock, Crash
    <3> QED BY <1>2, <1>6, <3>1, <3>2, <3>3, <3>4, <3>5, <3>6, <3>7, <3>8, <3>9, <3>10,
               <3>11 DEF Step
  <2>2. job[q].draft[l] # "NONE"
    BY <1>0, <1>1, <2>1 DEF DecidingBy
  <2> QED BY <1>3, <2>2 DEF DecidingBy
<1> QED BY <1>4, <1>5, <1>6

\* No action takes back a rejection that nobody decides otherwise.
LEMMA RejectionSettlesStep ==
  ASSUME TypeOK, WorkInv, RecheckInv, DecisionIsExplained, NEW q \in Requests,
         Call(q) \/ Step(q) \/ ProposeFail(q) \/ Crash(q),
         NEW k \in Keys, NEW l \in Lots, RejectionSettled(k, l)
  PROVE  RejectionSettled(k, l)'
<1>0. /\ cand[k][l] = "REJECTED"
      /\ \A r \in InFlight : ~DecidingBy(r, k, l)
      /\ job[q].key \in Keys /\ job[q].lot \in Lots /\ job[q].draft \in Draft
      /\ cand \in [Keys -> [Lots -> CandidateStatus]]
  BY Moved DEF RejectionSettled, Deciding, DecidingBy, TypeOK
<1>1. ~Deciding(k, l)'
  <2> SUFFICES ASSUME NEW r \in InFlight', DecidingBy(r, k, l)' PROVE FALSE
    BY DEF Deciding, DecidingBy
  <2>1. r \in Requests /\ pc'[r] \in Steps
    BY DEF InFlight
  <2>2. CASE r = q
    BY <1>0, <2>1, <2>2, DecidingBefore
  <2>3. CASE r # q
    <3>1. pc'[r] = pc[r] /\ job'[r] = job[r]
      BY <2>1, <2>3, TypeStep DEF Framed
    <3>2. r \in InFlight /\ DecidingBy(r, k, l)
      BY <2>1, <3>1 DEF InFlight, DecidingBy
    <3> QED BY <1>0, <3>2
  <2> QED BY <2>2, <2>3
<1>2. cand'[k][l] = "REJECTED"
  <2>1. CASE EvaluateCommit(q)
    <3>1. q \in InFlight
      BY <2>1, RunStays DEF Step
    <3>2. ~(job[q].key = k /\ l \in Stored(q))
      BY <1>0, <3>1 DEF DecidingBy, Stored
    <3> QED BY <1>0, <2>1, <3>2 DEF EvaluateCommit
  <2>2. CASE \E v \in Verdicts : ReevaluateStore(q, v)
    <3>1. PICK v \in Verdicts : ReevaluateStore(q, v)
      BY <2>2
    <3>2. q \in InFlight /\ pc[q] = "r_store"
      BY <3>1, RunStays DEF Step, ReevaluateStore
    <3>3. job[q].was \in {"PENDING", "APPROVED"}
      BY <3>2 DEF RecheckInv
    <3>4. CASE job[q].key = k /\ job[q].lot = l
      <4>1. job[q].was = "APPROVED"
        BY <1>0, <3>2, <3>3, <3>4 DEF DecidingBy
      <4>2. cand'[k][l] = Decided(cand[k][l], "APPROVED", v)
        BY <1>0, <3>1, <3>4, <4>1 DEF ReevaluateStore
      <4> QED BY <1>0, <4>2 DEF Decided, Verdicts
    <3>5. CASE ~(job[q].key = k /\ job[q].lot = l)
      BY <1>0, <3>1, <3>5 DEF ReevaluateStore
    <3> QED BY <3>4, <3>5
  <2>3. CASE ~(EvaluateCommit(q) \/ \E v \in Verdicts : ReevaluateStore(q, v))
    BY <1>0, <2>3, OthersKeepDecisions
  <2> QED BY <2>1, <2>2, <2>3
<1> QED BY <1>1, <1>2 DEF RejectionSettled

\* RejectionSettles: a rejection is final once no request is left that loaded
\* the candidate undecided; rechecks of the approval that was taken back, as
\* many as race, do not restore it.
THEOREM RejectionsSettle == Spec => RejectionSettles
<1>1. TypeOK /\ WorkInv /\ RecheckInv /\ DecisionIsExplained /\ [Next]_vars =>
        [\A k \in Keys, l \in Lots :
           RejectionSettled(k, l) => RejectionSettled(k, l)']_vars
  <2> SUFFICES ASSUME TypeOK, WorkInv, RecheckInv, DecisionIsExplained,
                      NEW q \in Requests,
                      Call(q) \/ Step(q) \/ ProposeFail(q) \/ Crash(q)
               PROVE  \A k \in Keys, l \in Lots :
                        RejectionSettled(k, l) => RejectionSettled(k, l)'
    BY DEF Next, Idle
  <2> QED BY RejectionSettlesStep
<1> QED
  BY <1>1, TypeCorrect, WorkAlways, ExplainedAlways, PTL DEF Spec, RejectionSettles

=============================================================================
