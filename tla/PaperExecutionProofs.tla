------------------------ MODULE PaperExecutionProofs ------------------------
(***************************************************************************)
(* The safety of PaperExecution, for every value of its constants.  The    *)
(* properties hold by one inductive invariant, IInv.  What carries it is   *)
(* that the id of a preparation row never changes: the row, the copies     *)
(* requests loaded, the broker orders and the paper_orders rows of one     *)
(* candidate all name that one id.                                         *)
(***************************************************************************)
EXTENDS PaperExecution, FiniteSetTheorems, TLAPS

---------------------------------------------------------------------------
(* Types: every action keeps them.                                         *)

Requested == [kind: Kind, cand: Candidates, token: 0..N,
              sess: Sessions, now: 0..MaxClock]
Reply == [id: 0..N, old: View, new: View]
Evaluations == [at: 0..N, selected: Nat]

\* The null records are members of their types.
LEMMA NullTypes ==
  /\ NoRow \in PrepRow
  /\ NoOrder \in Order
  /\ NotPlaced \in BrokerOrder
  /\ NoRequest \in Requested
  /\ NoReply \in Reply
<1>1. /\ (CHOOSE s \in Sessions : TRUE) \in Sessions
      /\ (CHOOSE c \in Candidates : TRUE) \in Candidates
  BY ConstantsAssumption
<1>2. N \in Nat /\ MaxClock \in Nat
  BY ConstantsAssumption
<1> QED
  BY <1>1, <1>2 DEF NoRow, PrepRow, PrepStatus, NoOrder, Order, NotPlaced, BrokerOrder,
     NoRequest, Requested, Kind, NoReply, Reply, NoView, View

\* The initial state is well typed.
LEMMA TypeInit == Init => TypeOK
<1> SUFFICES ASSUME Init PROVE TypeOK
  OBVIOUS
<1>1. \A c \in Candidates : [at |-> 0, selected |-> Selected[c]] \in Evaluations
  BY ConstantsAssumption DEF Evaluations
<1> QED
  BY <1>1, NullTypes, ConstantsAssumption
  DEF Init, TypeOK, Requested, Reply, Evaluations

\* The quantity of a snapshot is a number, and so is a stored evaluation one.
LEMMA QuantityType ==
  ASSUME NEW c \in Candidates, NEW e \in Evaluations
  PROVE  Quantity(c, e) \in Nat
BY ConstantsAssumption DEF Quantity, Evaluations

\* Ending a request keeps its variables typed.
LEMMA FinishType ==
  ASSUME TypeOK, NEW r \in Requests, NEW outcome \in {"ok", "failed"},
         Finish(r, outcome)
  PROVE  /\ pc' \in [Requests -> Steps \cup {"idle", "ok", "failed"}]
         /\ req' \in [Requests -> Requested]
         /\ copy' \in [Requests -> PrepRow]
         /\ sellQty' \in [Requests -> Nat]
         /\ reply' \in [Requests -> Reply]
BY NullTypes DEF TypeOK, Finish, Goto, Requested, Reply

\* A rechecked candidate gets a typed evaluation.
LEMMA StoreEvaluationType ==
  ASSUME TypeOK, NEW r \in Requests, StoreEvaluation(r)
  PROVE  evals' \in [Candidates -> SUBSET Evaluations]
<1>1. EvaluatedAt(r) \in 0..N
  BY ConstantsAssumption DEF EvaluatedAt, Requests
<1>2. [at |-> EvaluatedAt(r), selected |-> 0] \in Evaluations
  BY <1>1 DEF Evaluations
<1> QED
  BY <1>2 DEF StoreEvaluation, TypeOK, Evaluations

\* Every remote state maps to statuses of an order row.
LEMMA MappedStatusType ==
  ASSUME NEW state \in RemoteState
  PROVE  MappedStatus(state) \subseteq OrderStatus
BY DEF MappedStatus, RemoteState, OrderStatus

\* A refresh gives a recorded order the status of an order.
LEMMA RefreshedStatusType ==
  ASSUME NEW old \in OrderStatus \cup {"NONE"}, NEW b \in BrokerOrder, NEW q
  PROVE  /\ RefreshedStatus(old, b, q) \in OrderStatus \cup {"NONE"}
         /\ old # "NONE" => RefreshedStatus(old, b, q) \in OrderStatus
BY DEF RefreshedStatus, FillStatus, RemoteState, OrderStatus, BrokerOrder

\* The EXCEPTs that change a field of a row keep the row's type.
LEMMA RowUpdateType ==
  ASSUME NEW c \in Candidates, NEW st \in PrepStatus, NEW u \in BOOLEAN,
         prep \in [Candidates -> PrepRow]
  PROVE  /\ [prep EXCEPT ![c].status = st] \in [Candidates -> PrepRow]
         /\ [prep EXCEPT ![c].status = st, ![c].used = u] \in [Candidates -> PrepRow]
<1>1. prep[c] \in PrepRow
  OBVIOUS
<1>2. /\ [prep[c] EXCEPT !.status = st] \in PrepRow
      /\ [prep[c] EXCEPT !.status = st, !.used = u] \in PrepRow
  BY <1>1 DEF PrepRow
<1>3. /\ [prep EXCEPT ![c].status = st] = [prep EXCEPT ![c] = [prep[c] EXCEPT !.status = st]]
      /\ [prep EXCEPT ![c].status = st, ![c].used = u]
           = [prep EXCEPT ![c] = [prep[c] EXCEPT !.status = st, !.used = u]]
  OBVIOUS
<1> QED
  BY <1>2, <1>3

\* So do the EXCEPTs on an order row.
LEMMA OrderUpdateType ==
  ASSUME NEW o \in Requests, NEW st \in OrderStatus \cup {"NONE"}, NEW f \in Nat,
         orders \in [Requests -> Order]
  PROVE  [orders EXCEPT ![o].status = st, ![o].filled = f] \in [Requests -> Order]
<1>1. [orders[o] EXCEPT !.status = st, !.filled = f] \in Order
  BY DEF Order
<1>2. [orders EXCEPT ![o].status = st, ![o].filled = f]
        = [orders EXCEPT ![o] = [orders[o] EXCEPT !.status = st, !.filled = f]]
  OBVIOUS
<1> QED
  BY <1>1, <1>2

\* The steps of prepare keep the types.
LEMMA PrepareTypes ==
  ASSUME TypeOK, NEW r \in Requests,
         \/ \E c \in Candidates, s \in Sessions : PrepareRecheck(r, c, s)
         \/ PrepareRead(r) \/ PrepareCommit(r) \/ PrepareConflict(r)
  PROVE  TypeOK'
<1> USE ConstantsAssumption DEF ConstantsAssumption
<1>1. ASSUME NEW c \in Candidates, NEW s \in Sessions, PrepareRecheck(r, c, s)
      PROVE  TypeOK'
  <2>1. [kind |-> "prepare", cand |-> c, token |-> r, sess |-> s, now |-> clock]
          \in Requested
    BY DEF Requested, Kind, Requests, TypeOK
  <2>2. req' \in [Requests -> Requested]
    BY <1>1, <2>1 DEF PrepareRecheck, TypeOK, Requested
  <2>3. pc' \in [Requests -> Steps \cup {"idle", "ok", "failed"}]
    BY <1>1 DEF PrepareRecheck, Goto, TypeOK, Steps
  <2> QED
    BY <1>1, <2>2, <2>3 DEF PrepareRecheck, TypeOK, db, world, Requested
<1>2. CASE PrepareRead(r)
  <2> DEFINE c == req[r].cand
             own == [at |-> EvaluatedAt(r), selected |-> 0]
  <2>1. c \in Candidates /\ prep[c] \in PrepRow
    BY DEF TypeOK
  <2>2. own \in Evaluations
    BY DEF EvaluatedAt, Evaluations, Requests
  <2>3. evals[c] \cup {own} \subseteq Evaluations
    BY <2>1, <2>2 DEF TypeOK, Evaluations
  <2>4. \A e \in Latest(evals[c] \cup {own}) : Quantity(c, e) \in Nat
    BY <2>1, <2>3, QuantityType DEF Latest
  <2>5. sellQty' \in [Requests -> Nat]
    <3>1. PICK e \in Latest(evals[c] \cup {own}) :
            sellQty' = [sellQty EXCEPT ![r] = Quantity(c, e)]
      BY <1>2 DEF PrepareRead
    <3> QED
      BY <2>4, <3>1 DEF TypeOK
  <2>6. copy' \in [Requests -> PrepRow]
    BY <1>2, <2>1 DEF PrepareRead, TypeOK
  <2>7. pc' \in [Requests -> Steps \cup {"idle", "ok", "failed"}]
    BY <1>2 DEF PrepareRead, Goto, TypeOK, Steps
  <2> QED
    BY <1>2, <2>5, <2>6, <2>7 DEF PrepareRead, TypeOK, db, world
<1>3. CASE PrepareCommit(r)
  <2> DEFINE c == req[r].cand
  <2>1. /\ c \in Candidates /\ prep[c] \in PrepRow /\ copy[r] \in PrepRow
        /\ req[r].now + TTL \in Nat /\ req[r].sess \in Sessions
        /\ sellQty[r] \in Nat /\ r \in 0..N
    <3>1. req[r] \in Requested /\ copy[r] \in PrepRow /\ sellQty[r] \in Nat
      BY DEF TypeOK, Requested
    <3>2. c \in Candidates /\ req[r].sess \in Sessions /\ req[r].now \in Nat
      BY <3>1 DEF Requested
    <3>3. prep[c] \in PrepRow
      BY <3>2 DEF TypeOK
    <3>4. req[r].now + TTL \in Nat /\ r \in 0..N
      BY <3>2 DEF Requests
    <3> QED
      BY <3>1, <3>2, <3>3, <3>4
  <2>2. NewPreparation(r) \in PrepRow
    BY <2>1 DEF NewPreparation, PrepRow, PrepStatus
  <2>3. Reprepared(r, prep[c]) \in PrepRow
    BY <2>1 DEF Reprepared, PrepRow, PrepStatus, Merge, KeepRowId
  <2>4. prep' \in [Candidates -> PrepRow]
    BY <1>3, <2>2, <2>3 DEF PrepareCommit, TypeOK
  <2>5. evals' \in [Candidates -> SUBSET Evaluations]
    BY <1>3, StoreEvaluationType DEF PrepareCommit
  <2> QED
    BY <1>3, <2>4, <2>5, FinishType
    DEF PrepareCommit, TypeOK, world, Requested, Reply, Evaluations
<1>4. CASE PrepareConflict(r)
  BY <1>4, FinishType DEF PrepareConflict, TypeOK, db, world, Requested, Reply
<1> QED
  BY <1>1, <1>2, <1>3, <1>4

\* The steps of confirm keep the types.
LEMMA ConfirmTypes ==
  ASSUME TypeOK, NEW r \in Requests,
         \/ \E c \in Candidates, t \in Issued, s \in Sessions : ConfirmRead(r, c, t, s)
         \/ ConfirmExpire(r) \/ ConfirmRecheck(r) \/ ConfirmReserve(r)
         \/ ConfirmSubmit(r) \/ ConfirmCommit(r) \/ ConfirmConflict(r)
  PROVE  TypeOK'
<1> USE ConstantsAssumption DEF ConstantsAssumption
<1>1. ASSUME NEW c \in Candidates, NEW t \in Issued, NEW s \in Sessions,
             ConfirmRead(r, c, t, s)
      PROVE  TypeOK'
  <2>1. [kind |-> "confirm", cand |-> c, token |-> t, sess |-> s, now |-> clock]
          \in Requested
    BY DEF Requested, Kind, Requests, TypeOK, Issued
  <2>2. req' \in [Requests -> Requested]
    BY <1>1, <2>1 DEF ConfirmRead, TypeOK, Requested
  <2>3. copy' \in [Requests -> PrepRow]
    BY <1>1 DEF ConfirmRead, TypeOK
  <2>4. pc' \in [Requests -> Steps \cup {"idle", "ok", "failed"}]
    BY <1>1 DEF ConfirmRead, Goto, TypeOK, Steps
  <2>5. sellQty' \in [Requests -> Nat]
    <3>1. \A e \in Latest(evals[c]) : Quantity(c, e) \in Nat
      BY QuantityType DEF Latest, TypeOK, Evaluations
    <3>2. CASE UNCHANGED sellQty
      BY <3>2 DEF TypeOK
    <3>3. CASE \E e \in Latest(evals[c]) :
                 sellQty' = [sellQty EXCEPT ![r] = Quantity(c, e)]
      BY <3>1, <3>3 DEF TypeOK
    <3> QED
      BY <1>1, <3>2, <3>3 DEF ConfirmRead
  <2> QED
    BY <1>1, <2>2, <2>3, <2>4, <2>5 DEF ConfirmRead, TypeOK, db, world, Requested
<1>2. CASE ConfirmExpire(r)
  <2>1. prep' \in [Candidates -> PrepRow]
    <3>1. req[r].cand \in Candidates /\ "EXPIRED" \in PrepStatus
      BY DEF TypeOK, PrepStatus
    <3>2. prep \in [Candidates -> PrepRow]
      BY DEF TypeOK
    <3>3. [prep EXCEPT ![req[r].cand].status = "EXPIRED"] \in [Candidates -> PrepRow]
      BY <3>1, <3>2, RowUpdateType
    <3> QED
      BY <1>2, <3>2, <3>3 DEF ConfirmExpire
  <2> QED
    BY <1>2, <2>1, FinishType DEF ConfirmExpire, TypeOK, world, Requested, Reply
<1>3. CASE ConfirmRecheck(r)
  BY <1>3 DEF ConfirmRecheck, Goto, TypeOK, Steps, db, world
<1>4. CASE ConfirmReserve(r)
  <2>1. rowLock' \in [Candidates -> 0..N]
    BY <1>4 DEF ConfirmReserve, TypeOK, Requests
  <2>2. pc' \in [Requests -> Steps \cup {"idle", "ok", "failed"}]
    BY <1>4 DEF ConfirmReserve, Goto, TypeOK, Steps
  <2> QED
    BY <1>4, <2>1, <2>2 DEF ConfirmReserve, FlushReservation, TypeOK, world
<1>5. CASE ConfirmSubmit(r)
  <2>1. r \in 0..N /\ copy[r] \in PrepRow
    BY DEF Requests, TypeOK
  <2>2. [client |-> ClientOrderId(r), qty |-> copy[r].qty, filled |-> 0,
         state |-> "new"] \in BrokerOrder
    BY <2>1 DEF BrokerOrder, ClientOrderId, PrepRow, RemoteState
  <2>3. broker' \in [Requests -> BrokerOrder]
    BY <1>5, <2>2 DEF ConfirmSubmit, TypeOK
  <2>4. ASSUME NEW b \in Requests, NEW state \in RemoteState, Learn(r, b, state)
        PROVE  reply' \in [Requests -> Reply]
    <3>1. PICK status \in MappedStatus(state) :
            reply' = [reply EXCEPT ![r] =
              [id |-> b, old |-> NoView, new |-> [status |-> status, filled |-> 0]]]
      BY <2>4 DEF Learn
    <3>2. [id |-> b, old |-> NoView, new |-> [status |-> status, filled |-> 0]]
            \in Reply
      BY <3>1, MappedStatusType DEF Reply, View, NoView, Requests
    <3> QED
      BY <3>1, <3>2 DEF TypeOK, Reply
  <2>5. reply' \in [Requests -> Reply]
    <3>1. "new" \in RemoteState
      BY DEF RemoteState
    <3>2. \A b \in Placed : b \in Requests /\ broker[b].state \in RemoteState
      BY DEF Placed, TypeOK, BrokerOrder
    <3> QED
      BY <1>5, <2>4, <3>1, <3>2 DEF ConfirmSubmit
  <2>6. pc' \in [Requests -> Steps \cup {"idle", "ok", "failed"}]
    BY <1>5 DEF ConfirmSubmit, Goto, TypeOK, Steps
  <2> QED
    BY <1>5, <2>3, <2>5, <2>6 DEF ConfirmSubmit, TypeOK, db, Reply
<1>6. CASE ConfirmCommit(r)
  <2>1. copy[r] \in PrepRow /\ reply[r] \in Reply
    BY DEF TypeOK, Reply
  <2>2. [client |-> ClientOrderId(r), provider |-> reply[r].id,
         status |-> reply[r].new.status, filled |-> 0] \in Order
    BY <2>1 DEF Order, ClientOrderId, PrepRow, Reply, View
  <2>3. orders' \in [Requests -> Order]
    BY <1>6, <2>2 DEF ConfirmCommit, TypeOK
  <2>4. prep' \in [Candidates -> PrepRow]
    <3>1. req[r].cand \in Candidates /\ "CONFIRMED" \in PrepStatus
      BY DEF TypeOK, PrepStatus
    <3> QED
      BY <1>6, <3>1, RowUpdateType DEF ConfirmCommit, TypeOK
  <2>5. evals' \in [Candidates -> SUBSET Evaluations]
    BY <1>6, StoreEvaluationType DEF ConfirmCommit
  <2>6. rowLock' \in [Candidates -> 0..N]
    BY <1>6 DEF ConfirmCommit, TypeOK
  <2> QED
    BY <1>6, <2>3, <2>4, <2>5, <2>6, FinishType
    DEF ConfirmCommit, TypeOK, world, Requested, Reply, Evaluations
<1>7. CASE ConfirmConflict(r)
  BY <1>7, FinishType DEF ConfirmConflict, TypeOK, world, Requested, Reply
<1> QED
  BY <1>1, <1>2, <1>3, <1>4, <1>5, <1>6, <1>7

\* What refresh asks the broker is about an order the row names.
LEMMA RefreshTypes ==
  ASSUME TypeOK, NEW r \in Requests,
         pc[r] = "f_ask" => orders[reply[r].id].provider \in Placed,
         \/ \E o \in Requests : RefreshRead(r, o)
         \/ RefreshAsk(r) \/ RefreshCommit(r) \/ Refuse(r) \/ Crash(r)
  PROVE  TypeOK'
<1>1. CASE RefreshCommit(r)
  <2>1. /\ reply[r].old \in View
        /\ reply[r].new \in View
    BY DEF TypeOK
  <2>2. orders' \in [Requests -> Order]
    <3> DEFINE o == reply[r].id
               st == Merge(orders[o].status, reply[r].old.status, reply[r].new.status)
               f == Merge(orders[o].filled, reply[r].old.filled, reply[r].new.filled)
    <3>1. CASE o \in Requests
      <4>1. st \in OrderStatus \cup {"NONE"} /\ f \in Nat
        BY <2>1, <3>1 DEF TypeOK, Order, View, Merge
      <4> QED
        BY <1>1, <3>1, <4>1, OrderUpdateType DEF RefreshCommit, TypeOK
    <3>2. CASE o \notin Requests
      BY <1>1, <3>2 DEF RefreshCommit, TypeOK
    <3> QED
      BY <3>1, <3>2
  <2> QED
    BY <1>1, <2>2, FinishType DEF RefreshCommit, TypeOK, world, Requested, Reply
<1>2. CASE Rollback(r)
  <2>1. rowLock' \in [Candidates -> 0..N]
    BY <1>2, ConstantsAssumption DEF Rollback, ReleaseRow, TypeOK
  <2> QED
    BY <1>2, <2>1, FinishType DEF Rollback, TypeOK, world, Requested, Reply
<1>3. ASSUME NEW o \in Requests, RefreshRead(r, o)
      PROVE  TypeOK'
  <2> DEFINE seen == [status |-> orders[o].status, filled |-> orders[o].filled]
  <2>1. [id |-> o, old |-> seen, new |-> seen] \in Reply
    <3>1. orders[o] \in Order /\ o \in 0..N
      BY DEF TypeOK, Requests
    <3> QED
      BY <3>1 DEF Order, Reply, View
  <2>2. reply' \in [Requests -> Reply]
    BY <1>3, <2>1 DEF RefreshRead, TypeOK, Reply
  <2>3. [NoRequest EXCEPT !.kind = "refresh", !.cand = req[o].cand, !.now = clock]
          \in Requested
    <3>1. req[o].cand \in Candidates /\ clock \in 0..MaxClock
      BY DEF TypeOK
    <3> QED
      BY <3>1, NullTypes DEF Requested, Kind
  <2>4. req' \in [Requests -> Requested]
    BY <1>3, <2>3 DEF RefreshRead, TypeOK, Requested
  <2>5. copy' \in [Requests -> PrepRow]
    BY <1>3 DEF RefreshRead, TypeOK
  <2>6. pc' \in [Requests -> Steps \cup {"idle", "ok", "failed"}]
    BY <1>3 DEF RefreshRead, Goto, TypeOK, Steps
  <2> QED
    BY <1>3, <2>2, <2>4, <2>5, <2>6 DEF RefreshRead, TypeOK, db, world, Requested, Reply
<1>4. CASE RefreshAsk(r)
  <2> DEFINE b == broker[orders[reply[r].id].provider]
             new == [status |-> RefreshedStatus(reply[r].old.status, b, copy[r].qty),
                     filled |-> b.filled]
  <2>1. reply[r] \in Reply /\ b \in BrokerOrder
    BY <1>4 DEF RefreshAsk, Placed, TypeOK, Reply
  <2>2. new \in View
    <3>1. reply[r].old.status \in OrderStatus \cup {"NONE"} /\ b.filled \in Nat
      BY <2>1 DEF Reply, View, BrokerOrder
    <3> QED
      BY <2>1, <3>1, RefreshedStatusType DEF View
  <2>3. [reply[r] EXCEPT !.new = new] \in Reply
    BY <2>1, <2>2 DEF Reply
  <2>4. reply' \in [Requests -> Reply]
    <3>1. CASE UNCHANGED reply
      BY <3>1 DEF TypeOK, Reply
    <3>2. CASE reply' = [reply EXCEPT ![r] = [reply[r] EXCEPT !.new = new]]
      BY <2>3, <3>2 DEF TypeOK, Reply
    <3> QED
      BY <1>4, <3>1, <3>2 DEF RefreshAsk
  <2>5. pc' \in [Requests -> Steps \cup {"idle", "ok", "failed"}]
    BY <1>4 DEF RefreshAsk, Goto, TypeOK, Steps
  <2> QED
    BY <1>4, <2>4, <2>5 DEF RefreshAsk, TypeOK, db, world, Reply
<1> QED
  BY <1>1, <1>2, <1>3, <1>4 DEF Refuse, Crash

\* The clock's and the broker's steps keep the types.
LEMMA WorldTypes ==
  ASSUME TypeOK,
         \/ Tick
         \/ \E b \in Requests, q \in 1..Held : BrokerFill(b, q)
         \/ \E b \in Requests, state \in RemoteState : BrokerClose(b, state)
  PROVE  TypeOK'
<1> USE ConstantsAssumption DEF ConstantsAssumption
<1>1. CASE Tick
  BY <1>1 DEF Tick, TypeOK, db, request
<1>2. ASSUME NEW b \in Requests, NEW q \in 1..Held, BrokerFill(b, q)
      PROVE  TypeOK'
  <2> DEFINE state == IF broker[b].filled + q = broker[b].qty THEN "filled"
                      ELSE "partially_filled"
  <2>1. broker[b] \in BrokerOrder
    BY DEF TypeOK
  <2>2. [broker[b] EXCEPT !.filled = @ + q, !.state = state] \in BrokerOrder
    <3>1. broker[b].filled + q \in Nat /\ state \in RemoteState \cup {"absent"}
      BY <2>1 DEF BrokerOrder, RemoteState
    <3> HIDE DEF state
    <3> QED
      BY <2>1, <3>1 DEF BrokerOrder
  <2>3. broker' = [broker EXCEPT ![b] = [broker[b] EXCEPT !.filled = @ + q, !.state = state]]
    BY <1>2 DEF BrokerFill, TypeOK
  <2>4. broker' \in [Requests -> BrokerOrder]
    BY <2>2, <2>3 DEF TypeOK
  <2>5. position' \in 0..Held
    BY <1>2 DEF BrokerFill, TypeOK
  <2> QED
    BY <1>2, <2>4, <2>5 DEF BrokerFill, TypeOK, db, request
<1>3. ASSUME NEW b \in Requests, NEW state \in RemoteState, BrokerClose(b, state)
      PROVE  TypeOK'
  <2>1. [broker[b] EXCEPT !.state = state] \in BrokerOrder
    <3>1. broker[b] \in BrokerOrder
      BY DEF TypeOK
    <3> QED
      BY <3>1 DEF BrokerOrder
  <2>2. broker' = [broker EXCEPT ![b] = [broker[b] EXCEPT !.state = state]]
    BY <1>3 DEF BrokerClose
  <2>3. broker' \in [Requests -> BrokerOrder]
    BY <2>1, <2>2 DEF TypeOK
  <2> QED
    BY <1>3, <2>3 DEF BrokerClose, TypeOK, db, request
<1> QED
  BY <1>1, <1>2, <1>3

---------------------------------------------------------------------------
(* The invariant.                                                          *)

ConfirmSteps == {"c_expire", "c_recheck", "c_reserve", "c_submit", "c_commit"}
CheckedSteps == ConfirmSteps \ {"c_expire"}
RefreshSteps == {"f_ask", "f_commit"}

\* The request confirms with a token issued for its candidate, in time.
Consent(r) ==
  LET t == req[r].token IN
  /\ req[r].kind = "confirm"
  /\ t \in Issued
  /\ req[t].cand = req[r].cand
  /\ req[r].now < req[t].now + TTL

\* A row and its token come from prepares of the candidate that committed.
RowInv(c) ==
  prep[c].id # 0 =>
    /\ prep[c].id \in Issued
    /\ req[prep[c].id].cand = c
    /\ prep[c].token \in Issued
    /\ req[prep[c].token].cand = c
    /\ prep[c].expires = req[prep[c].token].now + TTL

\* What a request holds between its steps.
HoldInv(r) ==
  /\ pc[r] \in {"p_read", "p_commit"} => req[r].kind = "prepare"
  /\ pc[r] = "p_commit" => copy[r].id \in {0, prep[req[r].cand].id}
  /\ pc[r] \in ConfirmSteps => /\ copy[r].id # 0
                               /\ copy[r].id = prep[req[r].cand].id
  /\ pc[r] \in CheckedSteps => Consent(r)
  /\ pc[r] = "c_commit" => /\ reply[r].id \in Placed
                           /\ broker[reply[r].id].client = copy[r].id
                           /\ reply[r].new.status # "NONE"
  /\ pc[r] \in RefreshSteps => /\ reply[r].id \in Recorded
                               /\ reply[r].old.status # "NONE"
                               /\ reply[r].new.status # "NONE"

\* A broker order carries the id of the preparation of its candidate.
BrokerInv(b) ==
  b \in Placed =>
    /\ pc[b] \in {"c_commit", "ok", "failed"}
    /\ broker[b].client # 0
    /\ broker[b].client = prep[req[b].cand].id
    /\ Consent(b)

\* So does a recorded order, and it names a broker order that carries it too.
OrderInv(o) ==
  o \in Recorded =>
    /\ pc[o] = "ok"
    /\ orders[o].client # 0
    /\ orders[o].client = prep[req[o].cand].id
    /\ orders[o].provider \in Placed
    /\ broker[orders[o].provider].client = orders[o].client

OneRowPerCandidate ==
  \A o, p \in Recorded : req[o].cand = req[p].cand => o = p

IInv ==
  /\ TypeOK
  /\ \A c \in Candidates : RowInv(c)
  /\ \A r \in Requests : HoldInv(r)
  /\ \A b \in Requests : BrokerInv(b)
  /\ \A o \in Requests : OrderInv(o)
  /\ OneSalePerCandidate
  /\ OneRowPerCandidate
  /\ NoConfirmationWithoutOrder

---------------------------------------------------------------------------
(* What no step undoes: a started request keeps its arguments, a row its   *)
(* id, an order its client id.                                             *)

RequestsStay ==
  \A q \in Requests :
    /\ pc[q] # "idle" => pc'[q] # "idle" /\ req'[q] = req[q]
    /\ pc[q] = "ok" => pc'[q] = "ok"
RowsStay ==
  \A c \in Candidates : prep[c].id # 0 => prep'[c].id = prep[c].id
PlacedStays ==
  \A b \in Requests : b \in Placed =>
    b \in Placed' /\ broker'[b].client = broker[b].client
RecordedStays ==
  \A o \in Requests : o \in Recorded =>
    /\ o \in Recorded'
    /\ orders'[o].client = orders[o].client
    /\ orders'[o].provider = orders[o].provider
Stays == RequestsStay /\ RowsStay /\ PlacedStays /\ RecordedStays

\* The other requests are as they were.
OthersStay(r) ==
  \A q \in Requests \ {r} :
    pc'[q] = pc[q] /\ req'[q] = req[q] /\ copy'[q] = copy[q] /\ reply'[q] = reply[q]

\* Ending a request changes that request only.
LEMMA FinishStays ==
  ASSUME TypeOK, NEW r \in Requests, pc[r] \in Steps,
         NEW outcome \in {"ok", "failed"}, Finish(r, outcome)
  PROVE  RequestsStay /\ OthersStay(r) /\ pc'[r] = outcome /\ req' = req
BY DEF Finish, Goto, TypeOK, RequestsStay, OthersStay, Steps

\* The steps of prepare.
LEMMA PrepareStays ==
  ASSUME IInv, NEW r \in Requests,
         \/ \E c \in Candidates, s \in Sessions : PrepareRecheck(r, c, s)
         \/ PrepareRead(r) \/ PrepareCommit(r) \/ PrepareConflict(r)
  PROVE  Stays /\ OthersStay(r)
<1> USE DEF IInv
<1>1. ASSUME NEW c \in Candidates, NEW s \in Sessions, PrepareRecheck(r, c, s)
      PROVE  Stays /\ OthersStay(r)
  BY <1>1 DEF PrepareRecheck, Arrives, Goto, TypeOK, db, world, Stays, RequestsStay,
     RowsStay, PlacedStays, RecordedStays, Placed, Recorded, OthersStay
<1>2. CASE PrepareRead(r)
  BY <1>2 DEF PrepareRead, Goto, TypeOK, db, world, Stays, RequestsStay,
     RowsStay, PlacedStays, RecordedStays, Placed, Recorded, OthersStay
<1>3. CASE PrepareCommit(r)
  <2>1. RequestsStay /\ OthersStay(r)
    BY <1>3, FinishStays DEF PrepareCommit, Steps
  <2>2. RowsStay
    BY <1>3 DEF PrepareCommit, NewPreparation, Reprepared, KeepRowId, RowsStay, TypeOK
  <2> QED
    BY <1>3, <2>1, <2>2 DEF PrepareCommit, world, Stays, PlacedStays, RecordedStays,
       Placed, Recorded
<1>4. CASE PrepareConflict(r)
  BY <1>4, FinishStays DEF PrepareConflict, Steps, db, world, Stays, RowsStay,
     PlacedStays, RecordedStays, Placed, Recorded
<1> QED
  BY <1>1, <1>2, <1>3, <1>4

\* The steps of confirm: it places and records for itself only.
LEMMA ConfirmStays ==
  ASSUME IInv, NEW r \in Requests,
         \/ \E c \in Candidates, t \in Issued, s \in Sessions : ConfirmRead(r, c, t, s)
         \/ ConfirmExpire(r) \/ ConfirmRecheck(r) \/ ConfirmReserve(r)
         \/ ConfirmSubmit(r) \/ ConfirmCommit(r) \/ ConfirmConflict(r)
  PROVE  Stays /\ OthersStay(r)
<1> USE DEF IInv
<1>1. ASSUME NEW c \in Candidates, NEW t \in Issued, NEW s \in Sessions,
             ConfirmRead(r, c, t, s)
      PROVE  Stays /\ OthersStay(r)
  BY <1>1 DEF ConfirmRead, Arrives, Goto, TypeOK, db, world, Stays, RequestsStay,
     RowsStay, PlacedStays, RecordedStays, Placed, Recorded, OthersStay
<1>2. CASE ConfirmExpire(r)
  <2>1. RequestsStay /\ OthersStay(r)
    BY <1>2, FinishStays DEF ConfirmExpire, Steps
  <2>2. RowsStay
    <3>1. CASE UNCHANGED prep
      BY <3>1 DEF RowsStay
    <3>2. CASE prep' = [prep EXCEPT ![req[r].cand].status = "EXPIRED"]
      BY <3>2 DEF RowsStay, TypeOK, PrepRow
    <3> QED
      BY <1>2, <3>1, <3>2 DEF ConfirmExpire
  <2> QED
    BY <1>2, <2>1, <2>2 DEF ConfirmExpire, world, Stays, PlacedStays, RecordedStays,
       Placed, Recorded
<1>3. CASE ConfirmRecheck(r)
  BY <1>3 DEF ConfirmRecheck, Goto, TypeOK, db, world, Stays, RequestsStay,
     RowsStay, PlacedStays, RecordedStays, Placed, Recorded, OthersStay
<1>4. CASE ConfirmReserve(r)
  BY <1>4 DEF ConfirmReserve, FlushReservation, Goto, TypeOK, world, Stays,
     RequestsStay, RowsStay, PlacedStays, RecordedStays, Placed, Recorded, OthersStay
<1>5. CASE ConfirmSubmit(r)
  <2>1. RequestsStay /\ RowsStay /\ RecordedStays
    BY <1>5 DEF ConfirmSubmit, Goto, TypeOK, db, RequestsStay, RowsStay,
       RecordedStays, Recorded
  <2>2. r \notin Placed
    BY <1>5 DEF ConfirmSubmit, BrokerInv
  <2>3. PlacedStays
    BY <1>5, <2>2 DEF ConfirmSubmit, PlacedStays, Placed, TypeOK
  <2>4. OthersStay(r)
    BY <1>5 DEF ConfirmSubmit, Learn, Goto, TypeOK, OthersStay
  <2> QED
    BY <2>1, <2>3, <2>4 DEF Stays
<1>6. CASE ConfirmCommit(r)
  <2>1. RequestsStay /\ OthersStay(r)
    BY <1>6, FinishStays DEF ConfirmCommit, Steps
  <2>2. RowsStay
    BY <1>6 DEF ConfirmCommit, RowsStay, TypeOK, PrepRow
  <2>3. r \notin Recorded
    BY <1>6 DEF ConfirmCommit, OrderInv
  <2>4. RecordedStays
    BY <1>6, <2>3 DEF ConfirmCommit, RecordedStays, Recorded, TypeOK
  <2> QED
    BY <1>6, <2>1, <2>2, <2>4 DEF ConfirmCommit, world, Stays, PlacedStays, Placed
<1>7. CASE ConfirmConflict(r)
  BY <1>7, FinishStays DEF ConfirmConflict, Steps, world, Stays, RowsStay,
     PlacedStays, RecordedStays, Placed, Recorded
<1> QED
  BY <1>1, <1>2, <1>3, <1>4, <1>5, <1>6, <1>7

\* The steps of refresh, and the rollbacks.
LEMMA RefreshStays ==
  ASSUME IInv, NEW r \in Requests,
         \/ \E o \in Requests : RefreshRead(r, o)
         \/ RefreshAsk(r) \/ RefreshCommit(r) \/ Refuse(r) \/ Crash(r)
  PROVE  Stays /\ OthersStay(r)
<1> USE DEF IInv
<1>1. ASSUME NEW o \in Requests, RefreshRead(r, o)
      PROVE  Stays /\ OthersStay(r)
  BY <1>1 DEF RefreshRead, Arrives, Goto, TypeOK, db, world, Stays, RequestsStay,
     RowsStay, PlacedStays, RecordedStays, Placed, Recorded, OthersStay
<1>2. CASE RefreshCommit(r)
  <2> DEFINE o == reply[r].id
  <2>1. RequestsStay /\ OthersStay(r)
    BY <1>2, FinishStays DEF RefreshCommit, Steps
  <2>2. o \in Recorded /\ orders[o].status # "NONE" /\ reply[r].new.status # "NONE"
    BY <1>2 DEF RefreshCommit, HoldInv, RefreshSteps, Recorded
  <2>3. \A p \in Requests : /\ orders'[p].client = orders[p].client
                            /\ orders'[p].provider = orders[p].provider
                            /\ p # o => orders'[p] = orders[p]
    BY <1>2 DEF RefreshCommit, TypeOK, Order
  <2>4. orders'[o].status # "NONE"
    BY <1>2, <2>2 DEF RefreshCommit, TypeOK, Merge, Recorded
  <2>5. RecordedStays
    BY <2>2, <2>3, <2>4 DEF RecordedStays, Recorded
  <2> QED
    BY <1>2, <2>1, <2>5 DEF RefreshCommit, world, Stays, RowsStay, PlacedStays, Placed
<1>3. CASE Rollback(r) /\ r \in InFlight
  BY <1>3, FinishStays DEF Rollback, InFlight, world, Stays, RowsStay,
     PlacedStays, RecordedStays, Placed, Recorded
<1>4. CASE RefreshAsk(r)
  BY <1>4 DEF RefreshAsk, Goto, TypeOK, db, world, Stays, RequestsStay,
     RowsStay, PlacedStays, RecordedStays, Placed, Recorded, OthersStay
<1> QED
  BY <1>1, <1>2, <1>3, <1>4 DEF Refuse, Crash, InFlight, Steps

\* The environment only moves the clock and the state of broker orders.
LEMMA WorldStays ==
  ASSUME IInv,
         \/ Tick
         \/ \E b \in Requests, q \in 1..Held : BrokerFill(b, q)
         \/ \E b \in Requests, state \in RemoteState : BrokerClose(b, state)
  PROVE  Stays /\ UNCHANGED <<db, request>> /\ Placed' = Placed
<1> USE DEF IInv
<1>1. CASE Tick
  BY <1>1 DEF Tick, db, request, Stays, RequestsStay, RowsStay, PlacedStays,
     RecordedStays, Placed, Recorded
<1>2. ASSUME NEW b \in Requests, NEW q \in 1..Held, BrokerFill(b, q)
      PROVE  Stays /\ UNCHANGED <<db, request>> /\ Placed' = Placed
  <2>1. UNCHANGED <<db, request>>
    BY <1>2 DEF BrokerFill
  <2>2. \A p \in Requests :
          /\ broker'[p].client = broker[p].client
          /\ broker'[p].state # "absent" <=> broker[p].state # "absent"
    BY <1>2 DEF BrokerFill, TypeOK, BrokerOrder, Open
  <2> QED
    BY <2>1, <2>2 DEF db, request, Stays, RequestsStay, RowsStay, PlacedStays,
       RecordedStays, Placed, Recorded
<1>3. ASSUME NEW b \in Requests, NEW state \in RemoteState, BrokerClose(b, state)
      PROVE  Stays /\ UNCHANGED <<db, request>> /\ Placed' = Placed
  <2>1. UNCHANGED <<db, request>>
    BY <1>3 DEF BrokerClose
  <2>2. \A p \in Requests :
          /\ broker'[p].client = broker[p].client
          /\ broker'[p].state # "absent" <=> broker[p].state # "absent"
    BY <1>3 DEF BrokerClose, TypeOK, BrokerOrder, Open, RemoteState
  <2> QED
    BY <2>1, <2>2 DEF db, request, Stays, RequestsStay, RowsStay, PlacedStays,
       RecordedStays, Placed, Recorded
<1> QED
  BY <1>1, <1>2, <1>3

---------------------------------------------------------------------------
(* What stays keeps the invariants of what was there.                      *)

\* Consent once given is not withdrawn: tokens stay issued.
LEMMA ConsentKept ==
  ASSUME IInv, Stays, NEW r \in Requests, pc[r] # "idle", Consent(r)
  PROVE  Consent(r)'
<1>1. req[r].token \in Requests /\ pc[req[r].token] = "ok"
  BY DEF Consent, Issued
<1> QED
  BY <1>1 DEF Consent, Issued, Stays, RequestsStay

\* An order that was placed.
LEMMA BrokerKept ==
  ASSUME IInv, Stays, NEW b \in Requests, b \in Placed,
         pc'[b] \in {"c_commit", "ok", "failed"}
  PROVE  BrokerInv(b)'
<1>1. /\ pc[b] # "idle" /\ Consent(b) /\ req[b].cand \in Candidates
      /\ broker[b].client # 0 /\ broker[b].client = prep[req[b].cand].id
  BY DEF IInv, BrokerInv, TypeOK
<1>2. Consent(b)' /\ req'[b] = req[b]
  BY <1>1, ConsentKept DEF Stays, RequestsStay
<1> QED
  BY <1>1, <1>2 DEF BrokerInv, Stays, PlacedStays, RowsStay

\* An order that was recorded.
LEMMA OrderKept ==
  ASSUME IInv, Stays, NEW o \in Requests, o \in Recorded
  PROVE  OrderInv(o)'
<1>1. /\ pc[o] = "ok" /\ req[o].cand \in Candidates
      /\ orders[o].client # 0 /\ orders[o].client = prep[req[o].cand].id
      /\ orders[o].provider \in Requests /\ orders[o].provider \in Placed
      /\ broker[orders[o].provider].client = orders[o].client
  BY DEF IInv, OrderInv, TypeOK, Placed
<1> QED
  BY <1>1 DEF OrderInv, Stays, RequestsStay, RowsStay, PlacedStays, RecordedStays

\* A row whose token and expiry did not change.
LEMMA RowKept ==
  ASSUME IInv, Stays, NEW c \in Candidates,
         /\ prep'[c].id = prep[c].id
         /\ prep'[c].token = prep[c].token
         /\ prep'[c].expires = prep[c].expires
  PROVE  RowInv(c)'
BY DEF IInv, RowInv, Issued, Stays, RequestsStay

\* A request that did not move, and holds what it held.
LEMMA HoldKept ==
  ASSUME IInv, Stays, NEW q \in Requests,
         pc'[q] = pc[q], copy'[q] = copy[q], reply'[q] = reply[q]
  PROVE  HoldInv(q)'
<1>1. HoldInv(q) /\ (pc[q] # "idle" => req[q].cand \in Candidates)
  BY DEF IInv, TypeOK
<1>2. CASE pc[q] = "idle"
  BY <1>2 DEF HoldInv, ConfirmSteps, CheckedSteps, RefreshSteps
<1>3. CASE pc[q] # "idle"
  <2>1. req'[q] = req[q]
    BY <1>3 DEF Stays, RequestsStay
  <2>2. pc[q] = "p_commit" => copy[q].id \in {0, prep'[req[q].cand].id}
    BY <1>1, <1>3 DEF HoldInv, Stays, RowsStay
  <2>3. pc[q] \in ConfirmSteps => copy[q].id # 0 /\ copy[q].id = prep'[req[q].cand].id
    BY <1>1, <1>3 DEF HoldInv, Stays, RowsStay
  <2>4. pc[q] \in CheckedSteps => Consent(q)'
    BY <1>1, <1>3, ConsentKept DEF HoldInv
  <2>5. pc[q] = "c_commit" => /\ reply[q].id \in Placed'
                              /\ broker'[reply[q].id].client = copy[q].id
                              /\ reply[q].new.status # "NONE"
    BY <1>1 DEF HoldInv, Stays, PlacedStays, Placed
  <2>6. pc[q] \in RefreshSteps => /\ reply[q].id \in Recorded'
                                  /\ reply[q].old.status # "NONE"
                                  /\ reply[q].new.status # "NONE"
    BY <1>1 DEF HoldInv, Stays, RecordedStays, Recorded
  <2> QED
    BY <1>1, <2>1, <2>2, <2>3, <2>4, <2>5, <2>6 DEF HoldInv
<1> QED
  BY <1>2, <1>3

\* A request that has ended holds nothing.
LEMMA EndedHoldsNothing ==
  ASSUME NEW r \in Requests, pc'[r] \in {"ok", "failed"}
  PROVE  HoldInv(r)'
BY DEF HoldInv, ConfirmSteps, CheckedSteps, RefreshSteps

\* It is enough to look at the request that moved.
LEMMA OthersHold ==
  ASSUME IInv, Stays, NEW r \in Requests, OthersStay(r), HoldInv(r)'
  PROVE  \A q \in Requests : HoldInv(q)'
BY HoldKept DEF OthersStay

\* No order is placed and none recorded: their invariants stay.
LEMMA SalesKept ==
  ASSUME IInv, Stays, Placed' = Placed, Recorded' = Recorded,
         \A b \in Placed : pc'[b] \in {"c_commit", "ok", "failed"}
  PROVE  /\ \A b \in Requests : BrokerInv(b)'
         /\ \A o \in Requests : OrderInv(o)'
         /\ OneSalePerCandidate'
         /\ OneRowPerCandidate'
<1>1. \A b \in Requests : BrokerInv(b)'
  BY BrokerKept DEF BrokerInv
<1>2. \A o \in Requests : OrderInv(o)'
  BY OrderKept DEF OrderInv
<1>3. \A b \in Placed \cup Recorded : b \in Requests /\ req'[b] = req[b]
  BY DEF IInv, BrokerInv, OrderInv, Placed, Recorded, Stays, RequestsStay
<1> QED
  BY <1>1, <1>2, <1>3 DEF IInv, OneSalePerCandidate, OneRowPerCandidate

\* A confirmed row of a candidate still comes with its order.
LEMMA ConfirmationKept ==
  ASSUME IInv, Stays,
         \A c \in Candidates :
           prep'[c].used \/ prep'[c].status \in {"RESERVED", "CONFIRMED"} =>
             \/ prep[c].used \/ prep[c].status \in {"RESERVED", "CONFIRMED"}
             \/ \E o \in Recorded' : req'[o].cand = c
  PROVE  NoConfirmationWithoutOrder'
<1>1. \A o \in Recorded : o \in Recorded' /\ req'[o] = req[o]
  BY DEF IInv, OrderInv, Recorded, Stays, RecordedStays, RequestsStay
<1> QED
  BY <1>1 DEF IInv, NoConfirmationWithoutOrder

---------------------------------------------------------------------------
(* The invariant holds at first and is kept by every step.                 *)

\* Nothing is prepared, placed or recorded at first.
LEMMA InitInv == Init => IInv
<1> SUFFICES ASSUME Init PROVE IInv
  OBVIOUS
<1>1. TypeOK
  BY TypeInit
<1>2. /\ \A c \in Candidates : prep[c].id = 0 /\ ~prep[c].used /\ prep[c].status = "NONE"
      /\ \A r \in Requests : pc[r] = "idle"
      /\ Placed = {} /\ Recorded = {}
  BY DEF Init, NoRow, Placed, Recorded, NotPlaced, NoOrder
<1>3. \A c \in Candidates : RowInv(c)
  BY <1>2 DEF RowInv
<1>4. \A r \in Requests : HoldInv(r)
  BY <1>2 DEF HoldInv, ConfirmSteps, CheckedSteps, RefreshSteps
<1>5. \A b \in Requests : BrokerInv(b) /\ OrderInv(b)
  BY <1>2 DEF BrokerInv, OrderInv
<1>6. OneSalePerCandidate /\ OneRowPerCandidate /\ NoConfirmationWithoutOrder
  BY <1>2 DEF OneSalePerCandidate, OneRowPerCandidate, NoConfirmationWithoutOrder
<1> QED
  BY <1>1, <1>3, <1>4, <1>5, <1>6 DEF IInv

\* A step that places nothing, records nothing and changes no row.
LEMMA QuietInv ==
  ASSUME IInv, Stays, TypeOK', NEW r \in Requests, OthersStay(r), HoldInv(r)',
         UNCHANGED <<prep, orders>>, Placed' = Placed,
         r \in Placed => pc'[r] \in {"c_commit", "ok", "failed"}
  PROVE  IInv'
<1>1. \A c \in Candidates : RowInv(c)'
  BY RowKept
<1>2. \A q \in Requests : HoldInv(q)'
  BY OthersHold
<1>3. \A b \in Placed : pc'[b] \in {"c_commit", "ok", "failed"}
  BY DEF IInv, BrokerInv, OthersStay, Placed
<1>4. Recorded' = Recorded
  BY DEF Recorded
<1>5. NoConfirmationWithoutOrder'
  BY ConfirmationKept
<1> QED
  BY <1>1, <1>2, <1>3, <1>4, <1>5, SalesKept DEF IInv

\* A request that is not yet submitted has placed nothing.
LEMMA NotYetPlaced ==
  ASSUME IInv, NEW r \in Requests, pc[r] \notin {"c_commit", "ok", "failed"}
  PROVE  r \notin Placed
BY DEF IInv, BrokerInv

\* The steps of prepare: a row prepared again keeps its id.
LEMMA PrepareInv ==
  ASSUME IInv, NEW r \in Requests,
         \/ \E c \in Candidates, s \in Sessions : PrepareRecheck(r, c, s)
         \/ PrepareRead(r) \/ PrepareCommit(r) \/ PrepareConflict(r)
  PROVE  IInv'
<1>1. Stays /\ OthersStay(r) /\ TypeOK'
  BY PrepareStays, PrepareTypes DEF IInv
<1>2. TypeOK
  BY DEF IInv
<1>3. ASSUME NEW c \in Candidates, NEW s \in Sessions, PrepareRecheck(r, c, s)
      PROVE  IInv'
  <2>1. pc'[r] = "p_read" /\ req'[r].kind = "prepare"
    BY <1>2, <1>3 DEF PrepareRecheck, Goto, TypeOK
  <2>2. HoldInv(r)'
    BY <2>1 DEF HoldInv, ConfirmSteps, CheckedSteps, RefreshSteps
  <2>3. r \notin Placed
    BY <1>3, NotYetPlaced DEF PrepareRecheck, Arrives
  <2> QED
    BY <1>1, <1>3, <2>2, <2>3, QuietInv DEF PrepareRecheck, db, world, Placed
<1>4. CASE PrepareRead(r)
  <2>1. /\ pc'[r] = "p_commit" /\ copy'[r] = prep[req[r].cand]
        /\ req[r].kind = "prepare" /\ req' = req /\ prep' = prep
    BY <1>2, <1>4 DEF PrepareRead, Goto, TypeOK, IInv, HoldInv, db
  <2>2. HoldInv(r)'
    BY <2>1 DEF HoldInv, ConfirmSteps, CheckedSteps, RefreshSteps
  <2>3. r \notin Placed
    BY <1>4, NotYetPlaced DEF PrepareRead
  <2> QED
    BY <1>1, <1>4, <2>2, <2>3, QuietInv DEF PrepareRead, db, world, Placed
<1>5. CASE PrepareCommit(r)
  <2>0. PICK c \in Candidates : c = req[r].cand
    BY <1>2 DEF TypeOK
  <2>1. /\ pc[r] = "p_commit" /\ pc'[r] = "ok" /\ req' = req
        /\ req[r].kind = "prepare" /\ r # 0
    BY <1>2, <1>5 DEF PrepareCommit, Finish, Goto, TypeOK, IInv, HoldInv, Requests
  <2>2. HoldInv(r)'
    BY <2>1, EndedHoldsNothing
  <2>3. r \in Issued'
    BY <2>1 DEF Issued
  <2>4. RowInv(c)'
    <3>1. CASE prep' = [prep EXCEPT ![c] = NewPreparation(r)]
      <4>1. prep'[c] = NewPreparation(r)
        BY <1>2, <2>0, <2>1, <3>1 DEF TypeOK
      <4> QED
        BY <2>0, <2>1, <2>3, <4>1 DEF RowInv, NewPreparation
    <3>2. CASE copy[r].id # 0 /\ prep' = [prep EXCEPT ![c] = Reprepared(r, prep[c])]
      <4>1. prep'[c] = Reprepared(r, prep[c])
        BY <1>2, <2>0, <2>1, <3>2 DEF TypeOK
      <4>2. /\ prep'[c].id = prep[c].id /\ prep'[c].token = r
            /\ prep'[c].expires = req'[r].now + TTL
        BY <2>0, <2>1, <4>1 DEF Reprepared, KeepRowId
      <4>3. prep[c].id # 0 => prep[c].id \in Issued' /\ req'[prep[c].id].cand = c
        BY <1>1, <2>1 DEF IInv, RowInv, Issued, Stays, RequestsStay
      <4> QED
        BY <2>0, <2>1, <2>3, <4>2, <4>3 DEF RowInv
    <3> QED
      BY <1>5, <2>0, <3>1, <3>2 DEF PrepareCommit
  <2>5. \A d \in Candidates : RowInv(d)'
    <3>1. ASSUME NEW d \in Candidates, d # c PROVE prep'[d] = prep[d]
      BY <1>2, <1>5, <2>0, <2>1, <3>1 DEF PrepareCommit, TypeOK
    <3> QED
      BY <1>1, <2>4, <3>1, RowKept
  <2>6. \A q \in Requests : HoldInv(q)'
    BY <1>1, <2>2, OthersHold
  <2>7. Placed' = Placed /\ Recorded' = Recorded
    BY <1>5 DEF PrepareCommit, world, Placed, Recorded
  <2>8. \A b \in Placed : pc'[b] \in {"c_commit", "ok", "failed"}
    BY <1>1, <2>1 DEF IInv, BrokerInv, OthersStay, Placed
  <2>9. NoConfirmationWithoutOrder'
    <3>1. \A d \in Candidates : d # c => prep'[d] = prep[d]
      BY <1>2, <1>5, <2>0 DEF PrepareCommit, TypeOK
    <3>2. prep'[c].used \/ prep'[c].status \in {"RESERVED", "CONFIRMED"} =>
            prep[c].used \/ prep[c].status \in {"RESERVED", "CONFIRMED"}
      <4>1. CASE prep' = [prep EXCEPT ![c] = NewPreparation(r)]
        BY <1>2, <2>0, <2>1, <4>1 DEF TypeOK, NewPreparation
      <4>2. CASE prep' = [prep EXCEPT ![c] = Reprepared(r, prep[c])]
        BY <1>2, <2>0, <2>1, <4>2 DEF TypeOK, Reprepared, Merge
      <4> QED
        BY <1>5, <2>0, <4>1, <4>2 DEF PrepareCommit
    <3> QED
      BY <1>1, <3>1, <3>2, ConfirmationKept
  <2> QED
    BY <1>1, <2>5, <2>6, <2>7, <2>8, <2>9, SalesKept DEF IInv
<1>6. CASE PrepareConflict(r)
  <2>1. pc'[r] = "failed"
    BY <1>2, <1>6 DEF PrepareConflict, Finish, Goto, TypeOK
  <2>2. HoldInv(r)'
    BY <2>1, EndedHoldsNothing
  <2> QED
    BY <1>1, <1>6, <2>1, <2>2, QuietInv DEF PrepareConflict, db, world, Placed
<1> QED
  BY <1>3, <1>4, <1>5, <1>6

\* The broker order of a candidate, and only that one, carries the id of its
\* preparation: the id tells the candidate.
LEMMA ClientTellsCandidate ==
  ASSUME IInv, NEW b \in Placed, NEW c \in Candidates,
         prep[c].id # 0, broker[b].client = prep[c].id
  PROVE  req[b].cand = c
<1>1. /\ b \in Requests /\ req[b].cand \in Candidates
      /\ broker[b].client = prep[req[b].cand].id
  BY DEF IInv, BrokerInv, Placed, TypeOK
<1>2. RowInv(c) /\ RowInv(req[b].cand)
  BY <1>1 DEF IInv
<1> QED
  BY <1>1, <1>2 DEF RowInv

\* So does a recorded order.
LEMMA RecordTellsCandidate ==
  ASSUME IInv, NEW o \in Recorded, NEW c \in Candidates,
         prep[c].id # 0, orders[o].client = prep[c].id
  PROVE  req[o].cand = c
<1>1. /\ o \in Requests /\ req[o].cand \in Candidates
      /\ orders[o].client = prep[req[o].cand].id
  BY DEF IInv, OrderInv, Recorded, TypeOK
<1>2. RowInv(c) /\ RowInv(req[o].cand)
  BY <1>1 DEF IInv
<1> QED
  BY <1>1, <1>2 DEF RowInv

\* The token a confirm found on the row is issued for the candidate, and the
\* row expires when that token does.
LEMMA ReadInv ==
  ASSUME IInv, NEW r \in Requests, NEW c \in Candidates, NEW t \in Issued,
         NEW s \in Sessions, ConfirmRead(r, c, t, s)
  PROVE  IInv'
<1>1. Stays /\ OthersStay(r) /\ TypeOK'
  BY ConfirmStays, ConfirmTypes DEF IInv
<1>2. TypeOK /\ RowInv(c)
  BY DEF IInv
<1>3. /\ req'[r].cand = c /\ req'[r].kind = "confirm" /\ req'[r].token = t
      /\ req'[r].now = clock /\ copy'[r] = prep[c] /\ prep' = prep
      /\ prep[c].id # 0 /\ prep[c].token = t
  BY <1>2 DEF ConfirmRead, TypeOK, db
<1>4. /\ t \in Issued' /\ req'[t] = req[t] /\ req[t].cand = c
      /\ prep[c].expires = req[t].now + TTL
  BY <1>1, <1>2, <1>3 DEF RowInv, Issued, Stays, RequestsStay
<1>5. pc'[r] \in {"c_expire", "c_recheck"}
  BY <1>2 DEF ConfirmRead, Goto, TypeOK
<1>6. pc'[r] = "c_recheck" => clock < prep[c].expires
  <2>1. prep[c].expires \in Nat /\ clock \in Nat
    BY <1>2, ConstantsAssumption DEF TypeOK, PrepRow
  <2>2. pc'[r] = "c_recheck" => ~Expired(prep[c], clock)
    BY <1>2 DEF ConfirmRead, Goto, TypeOK
  <2> QED
    BY <2>1, <2>2 DEF Expired
<1>7. HoldInv(r)'
  BY <1>3, <1>4, <1>5, <1>6 DEF HoldInv, ConfirmSteps, CheckedSteps, RefreshSteps, Consent
<1>8. r \notin Placed
  BY NotYetPlaced DEF ConfirmRead, Arrives
<1> QED
  BY <1>1, <1>7, <1>8, QuietInv DEF ConfirmRead, db, world, Placed

\* A new order is the first of its candidate; one the broker knew is of the
\* candidate too.
LEMMA SubmitInv ==
  ASSUME IInv, NEW r \in Requests, ConfirmSubmit(r)
  PROVE  IInv'
<1>1. Stays /\ OthersStay(r) /\ TypeOK'
  BY ConfirmStays, ConfirmTypes DEF IInv
<1>2. PICK c \in Candidates : c = req[r].cand
  BY DEF IInv, TypeOK
<1>3. /\ pc[r] = "c_submit" /\ pc'[r] = "c_commit" /\ req' = req /\ prep' = prep
      /\ copy' = copy /\ orders' = orders
      /\ copy[r].id # 0 /\ copy[r].id = prep[c].id /\ Consent(r)
  BY <1>2 DEF ConfirmSubmit, Goto, IInv, TypeOK, db, HoldInv, ConfirmSteps, CheckedSteps, RefreshSteps
<1>4. r \notin Placed
  BY <1>3, NotYetPlaced
<1>5. Consent(r)'
  BY <1>3, ConsentKept, <1>1
<1>6. Recorded' = Recorded /\ \A d \in Candidates : RowInv(d)'
  BY <1>1, <1>3, RowKept DEF Recorded
<1>7. NoConfirmationWithoutOrder'
  BY <1>1, <1>3, ConfirmationKept
<1>8. ASSUME NEW b \in Requests, NEW state \in RemoteState, Learn(r, b, state)
      PROVE  reply'[r].id = b /\ reply'[r].new.status # "NONE"
  <2>1. PICK status \in MappedStatus(state) :
          reply' = [reply EXCEPT ![r] =
            [id |-> b, old |-> NoView, new |-> [status |-> status, filled |-> 0]]]
    BY <1>8 DEF Learn
  <2>2. status # "NONE"
    BY <2>1, MappedStatusType DEF OrderStatus
  <2> QED
    BY <2>1, <2>2 DEF IInv, TypeOK
<1>9. CASE /\ \A b \in Placed : broker[b].client # ClientOrderId(r)
           /\ broker' = [broker EXCEPT ![r] =
                [client |-> ClientOrderId(r), qty |-> copy[r].qty,
                 filled |-> 0, state |-> "new"]]
           /\ Learn(r, r, "new")
  <2>1. /\ Placed' = Placed \cup {r}
        /\ broker'[r].client = copy[r].id
    BY <1>9 DEF IInv, TypeOK, Placed, ClientOrderId
  <2>2. reply'[r].id = r /\ reply'[r].new.status # "NONE"
    BY <1>8, <1>9 DEF RemoteState
  <2>3. HoldInv(r)'
    BY <1>2, <1>3, <1>5, <2>1, <2>2 DEF HoldInv, ConfirmSteps, CheckedSteps, RefreshSteps
  <2>4. \A q \in Requests : HoldInv(q)'
    BY <1>1, <2>3, OthersHold
  <2>5. BrokerInv(r)'
    BY <1>2, <1>3, <1>5, <2>1 DEF BrokerInv
  <2>6. \A b \in Requests : BrokerInv(b)'
    <3>1. ASSUME NEW b \in Placed PROVE pc'[b] \in {"c_commit", "ok", "failed"}
      BY <1>1, <1>4 DEF IInv, BrokerInv, OthersStay, Placed
    <3>2. \A b \in Placed : BrokerInv(b)'
      BY <1>1, <3>1, BrokerKept DEF Placed
    <3> QED
      BY <2>1, <2>5, <3>2 DEF BrokerInv
  <2>7. \A o \in Requests : OrderInv(o)'
    BY <1>1, <1>6, OrderKept DEF OrderInv
  <2>8. \A b \in Placed : req[b].cand # c
    BY <1>2, <1>3, <1>9 DEF IInv, BrokerInv, Placed, ClientOrderId
  <2>9. OneSalePerCandidate'
    BY <1>2, <1>3, <2>1, <2>8 DEF IInv, OneSalePerCandidate
  <2>10. OneRowPerCandidate'
    BY <1>3, <1>6 DEF IInv, OneRowPerCandidate
  <2> QED
    BY <1>1, <1>6, <1>7, <2>4, <2>6, <2>7, <2>9, <2>10 DEF IInv
<1>10. CASE /\ \E b \in Placed : /\ broker[b].client = ClientOrderId(r)
                                 /\ Learn(r, b, broker[b].state)
            /\ UNCHANGED broker
  <2>1. PICK b \in Placed : /\ broker[b].client = ClientOrderId(r)
                            /\ Learn(r, b, broker[b].state)
    BY <1>10
  <2>2. b \in Requests /\ broker[b].state \in RemoteState
    BY DEF Placed, IInv, TypeOK, BrokerOrder
  <2>3. reply'[r].id = b /\ reply'[r].new.status # "NONE"
    BY <1>8, <2>1, <2>2
  <2>4. Placed' = Placed /\ broker'[b].client = copy[r].id
    BY <1>10, <2>1 DEF Placed, ClientOrderId
  <2>5. HoldInv(r)'
    BY <1>2, <1>3, <1>5, <2>3, <2>4 DEF HoldInv, ConfirmSteps, CheckedSteps, RefreshSteps
  <2> QED
    BY <1>1, <1>3, <1>4, <2>4, <2>5, QuietInv
<1> QED
  BY <1>9, <1>10 DEF ConfirmSubmit

\* The order a confirm records is the first of its candidate: an earlier one
\* would have the client id the unique index refuses.
LEMMA CommitInv ==
  ASSUME IInv, NEW r \in Requests, ConfirmCommit(r)
  PROVE  IInv'
<1>1. Stays /\ OthersStay(r) /\ TypeOK'
  BY ConfirmStays, ConfirmTypes DEF IInv
<1>2. PICK c \in Candidates : c = req[r].cand
  BY DEF IInv, TypeOK
<1>3. /\ pc[r] = "c_commit" /\ pc'[r] = "ok" /\ req' = req
      /\ copy[r].id # 0 /\ copy[r].id = prep[c].id
      /\ reply[r].id \in Placed /\ broker[reply[r].id].client = copy[r].id
      /\ reply[r].new.status # "NONE"
      /\ \A o \in Recorded : orders[o].client # copy[r].id
  BY <1>2 DEF ConfirmCommit, Finish, Goto, IInv, TypeOK, HoldInv, ConfirmSteps,
     UnusedClientId, ClientOrderId
<1>4. /\ prep' = [prep EXCEPT ![c].status = "CONFIRMED", ![c].used = TRUE]
      /\ orders' = [orders EXCEPT ![r] =
           [client |-> copy[r].id, provider |-> reply[r].id,
            status |-> reply[r].new.status, filled |-> 0]]
      /\ broker' = broker
  BY <1>2 DEF ConfirmCommit, ClientOrderId, world
<1>5. \A d \in Candidates : /\ prep'[d].id = prep[d].id
                            /\ prep'[d].token = prep[d].token
                            /\ prep'[d].expires = prep[d].expires
                            /\ d # c => prep'[d] = prep[d]
  BY <1>4 DEF IInv, TypeOK, PrepRow
<1>6. \A d \in Candidates : RowInv(d)'
  BY <1>1, <1>5, RowKept
<1>7. \A q \in Requests : HoldInv(q)'
  BY <1>1, <1>3, EndedHoldsNothing, OthersHold
<1>8. Recorded' = Recorded \cup {r} /\ Placed' = Placed
  BY <1>3, <1>4 DEF IInv, TypeOK, Recorded, Placed
<1>9. \A b \in Requests : BrokerInv(b)'
  <2>1. \A b \in Placed : pc'[b] \in {"c_commit", "ok", "failed"}
    BY <1>1, <1>3 DEF IInv, BrokerInv, OthersStay, Placed
  <2> QED
    BY <1>1, <1>8, <2>1, BrokerKept DEF BrokerInv
<1>10. \A o \in Requests : OrderInv(o)'
  <2>1. OrderInv(r)'
    <3>1. orders'[r].client = copy[r].id /\ orders'[r].provider = reply[r].id
      BY <1>4 DEF IInv, TypeOK
    <3>2. orders'[r].client # 0 /\ orders'[r].client = prep'[req'[r].cand].id
      BY <1>2, <1>3, <1>5, <3>1
    <3>3. /\ orders'[r].provider \in Placed'
          /\ broker'[orders'[r].provider].client = orders'[r].client
      BY <1>3, <1>4, <1>8, <3>1
    <3> QED
      BY <1>3, <3>2, <3>3 DEF OrderInv
  <2>2. \A o \in Requests : o \in Recorded => OrderInv(o)'
    BY <1>1, OrderKept
  <2> QED
    BY <1>8, <2>1, <2>2 DEF OrderInv
<1>11. OneSalePerCandidate'
  BY <1>3, <1>8 DEF IInv, OneSalePerCandidate
<1>12. OneRowPerCandidate'
  <2>1. \A o \in Recorded : req[o].cand # c
    BY <1>2, <1>3 DEF IInv, OrderInv, Recorded
  <2> QED
    BY <1>2, <1>3, <1>8, <2>1 DEF IInv, OneRowPerCandidate
<1>13. NoConfirmationWithoutOrder'
  <2>1. r \in Recorded' /\ req'[r].cand = c
    BY <1>2, <1>3, <1>8
  <2> QED
    BY <1>1, <1>5, <2>1, ConfirmationKept
<1> QED
  BY <1>1, <1>6, <1>7, <1>9, <1>10, <1>11, <1>12, <1>13 DEF IInv

\* A request that ends without a commit leaves all as it was.
LEMMA RollbackInv ==
  ASSUME IInv, Stays, TypeOK', NEW r \in Requests, OthersStay(r),
         pc[r] \in Steps, Finish(r, "failed"), UNCHANGED <<prep, orders, broker>>
  PROVE  IInv'
<1>1. pc'[r] = "failed"
  BY DEF Finish, Goto, IInv, TypeOK
<1>2. HoldInv(r)'
  BY <1>1, EndedHoldsNothing
<1> QED
  BY <1>1, <1>2, QuietInv DEF Placed

\* The steps of confirm.
LEMMA ConfirmInv ==
  ASSUME IInv, NEW r \in Requests,
         \/ \E c \in Candidates, t \in Issued, s \in Sessions : ConfirmRead(r, c, t, s)
         \/ ConfirmExpire(r) \/ ConfirmRecheck(r) \/ ConfirmReserve(r)
         \/ ConfirmSubmit(r) \/ ConfirmCommit(r) \/ ConfirmConflict(r)
  PROVE  IInv'
<1>1. Stays /\ OthersStay(r) /\ TypeOK'
  BY ConfirmStays, ConfirmTypes DEF IInv
<1>2. TypeOK /\ HoldInv(r)
  BY DEF IInv
<1>3. CASE ConfirmExpire(r)
  <2>1. PICK c \in Candidates : c = req[r].cand
    BY <1>2 DEF TypeOK
  <2>2. pc'[r] = "failed" /\ req' = req
    BY <1>2, <1>3 DEF ConfirmExpire, Finish, Goto, TypeOK
  <2>3. \/ prep' = prep
        \/ prep' = [prep EXCEPT ![c].status = "EXPIRED"]
    BY <1>3, <2>1 DEF ConfirmExpire
  <2>4. \A d \in Candidates :
          /\ prep'[d].id = prep[d].id
          /\ prep'[d].token = prep[d].token
          /\ prep'[d].expires = prep[d].expires
          /\ prep'[d].used = prep[d].used
          /\ prep'[d].status \in {prep[d].status, "EXPIRED"}
    <3>1. CASE prep' = prep
      BY <3>1
    <3>2. CASE prep' = [prep EXCEPT ![c].status = "EXPIRED"]
      <4>1. ASSUME NEW d \in Candidates, d # c PROVE prep'[d] = prep[d]
        BY <1>2, <3>2, <4>1 DEF TypeOK
      <4>2. prep'[c] = [prep[c] EXCEPT !.status = "EXPIRED"] /\ prep[c] \in PrepRow
        BY <1>2, <3>2 DEF TypeOK
      <4>3. /\ prep'[c].id = prep[c].id /\ prep'[c].token = prep[c].token
            /\ prep'[c].expires = prep[c].expires /\ prep'[c].used = prep[c].used
            /\ prep'[c].status = "EXPIRED"
        BY <4>2 DEF PrepRow
      <4> QED
        BY <4>1, <4>3
    <3> QED
      BY <2>3, <3>1, <3>2
  <2>5. \A d \in Candidates : RowInv(d)'
    BY <1>1, <2>4, RowKept
  <2>6. \A q \in Requests : HoldInv(q)'
    BY <1>1, <2>2, EndedHoldsNothing, OthersHold
  <2>7. Placed' = Placed /\ Recorded' = Recorded
    BY <1>3 DEF ConfirmExpire, world, Placed, Recorded
  <2>8. \A b \in Placed : pc'[b] \in {"c_commit", "ok", "failed"}
    BY <1>1, <2>2 DEF IInv, BrokerInv, OthersStay, Placed
  <2>9. NoConfirmationWithoutOrder'
    BY <1>1, <2>4, ConfirmationKept
  <2> QED
    BY <1>1, <2>5, <2>6, <2>7, <2>8, <2>9, SalesKept DEF IInv
<1>4. CASE ConfirmRecheck(r)
  <2>1. pc[r] = "c_recheck" /\ pc'[r] = "c_reserve" /\ UNCHANGED <<db, world, req, copy>>
    BY <1>2, <1>4 DEF ConfirmRecheck, Goto, TypeOK
  <2>2. Consent(r)'
    BY <1>1, <1>2, <2>1, ConsentKept DEF HoldInv, CheckedSteps, ConfirmSteps
  <2>3. HoldInv(r)'
    BY <1>2, <2>1, <2>2 DEF HoldInv, ConfirmSteps, CheckedSteps, RefreshSteps, db
  <2>4. r \notin Placed
    BY <2>1, NotYetPlaced
  <2> QED
    BY <1>1, <2>1, <2>3, <2>4, QuietInv DEF db, world, Placed
<1>5. CASE ConfirmReserve(r)
  <2>1. /\ pc[r] = "c_reserve" /\ pc'[r] = "c_submit"
        /\ UNCHANGED <<prep, orders, world, req, copy>>
    BY <1>2, <1>5 DEF ConfirmReserve, FlushReservation, Goto, TypeOK
  <2>2. Consent(r)'
    BY <1>1, <1>2, <2>1, ConsentKept DEF HoldInv, CheckedSteps, ConfirmSteps
  <2>3. HoldInv(r)'
    BY <1>2, <2>1, <2>2 DEF HoldInv, ConfirmSteps, CheckedSteps, RefreshSteps
  <2>4. r \notin Placed
    BY <2>1, NotYetPlaced
  <2> QED
    BY <1>1, <2>1, <2>3, <2>4, QuietInv DEF world, Placed
<1>6. CASE ConfirmConflict(r)
  BY <1>1, <1>6, RollbackInv DEF ConfirmConflict, world, Steps
<1> QED
  BY <1>3, <1>4, <1>5, <1>6, ReadInv, SubmitInv, CommitInv

\* A refresh rewrites the status of a recorded order, never into no status.
LEMMA RefreshInv ==
  ASSUME IInv, NEW r \in Requests,
         \/ \E o \in Requests : RefreshRead(r, o)
         \/ RefreshAsk(r) \/ RefreshCommit(r) \/ Refuse(r) \/ Crash(r)
  PROVE  IInv'
<1>1. Stays /\ OthersStay(r) /\ TypeOK'
  <2>1. pc[r] = "f_ask" => orders[reply[r].id].provider \in Placed
    BY DEF IInv, HoldInv, RefreshSteps, OrderInv, Recorded
  <2> QED
    BY <2>1, RefreshStays, RefreshTypes DEF IInv
<1>2. TypeOK /\ HoldInv(r)
  BY DEF IInv
<1>3. ASSUME NEW o \in Requests, RefreshRead(r, o)
      PROVE  IInv'
  <2>1. /\ o \in Recorded /\ pc'[r] = "f_ask" /\ UNCHANGED <<db, world>>
        /\ reply'[r].id = o
        /\ reply'[r].old.status = orders[o].status
        /\ reply'[r].new.status = orders[o].status
    BY <1>2, <1>3 DEF RefreshRead, Goto, TypeOK
  <2>2. HoldInv(r)'
    BY <2>1 DEF HoldInv, ConfirmSteps, CheckedSteps, RefreshSteps, db, Recorded
  <2>3. r \notin Placed
    BY <1>3, NotYetPlaced DEF RefreshRead, Arrives
  <2> QED
    BY <1>1, <2>1, <2>2, <2>3, QuietInv DEF db, world, Placed
<1>4. CASE RefreshAsk(r)
  <2> DEFINE o == reply[r].id
             b == broker[orders[o].provider]
             new == RefreshedStatus(reply[r].old.status, b, copy[r].qty)
  <2>1. /\ pc[r] = "f_ask" /\ pc'[r] = "f_commit" /\ UNCHANGED <<db, world>>
        /\ o \in Recorded /\ reply[r].old.status # "NONE" /\ reply[r].new.status # "NONE"
    BY <1>2, <1>4 DEF RefreshAsk, Goto, TypeOK, HoldInv, RefreshSteps
  <2>2. b \in BrokerOrder /\ reply[r].old.status \in OrderStatus \cup {"NONE"}
    BY <2>1 DEF IInv, OrderInv, Recorded, Placed, TypeOK, View
  <2>3. new # "NONE"
    BY <2>1, <2>2, RefreshedStatusType DEF OrderStatus
  <2>4. reply'[r].id = o /\ reply'[r].old = reply[r].old /\ reply'[r].new.status # "NONE"
    <3>1. CASE UNCHANGED reply
      BY <2>1, <3>1
    <3>2. CASE reply' = [reply EXCEPT ![r].new = [status |-> new, filled |-> b.filled]]
      BY <1>2, <2>3, <3>2 DEF TypeOK
    <3> QED
      BY <1>4, <3>1, <3>2 DEF RefreshAsk
  <2>5. HoldInv(r)'
    BY <2>1, <2>4 DEF HoldInv, ConfirmSteps, CheckedSteps, RefreshSteps, db, Recorded
  <2>6. r \notin Placed
    BY <2>1, NotYetPlaced
  <2> QED
    BY <1>1, <2>1, <2>5, <2>6, QuietInv DEF db, world, Placed
<1>5. CASE RefreshCommit(r)
  <2> DEFINE o == reply[r].id
  <2>1. /\ pc[r] = "f_commit" /\ pc'[r] = "ok" /\ UNCHANGED <<prep, world>>
        /\ \A p \in Requests : p # o => orders'[p] = orders[p]
    BY <1>2, <1>5 DEF RefreshCommit, Finish, Goto, TypeOK
  <2>2. o \in Recorded
    BY <1>2, <2>1 DEF HoldInv, RefreshSteps
  <2>3. Placed' = Placed /\ Recorded' = Recorded
    BY <1>1, <2>1, <2>2 DEF world, Placed, Recorded, Stays, RecordedStays
  <2>4. \A c \in Candidates : RowInv(c)'
    BY <1>1, <2>1, RowKept
  <2>5. \A q \in Requests : HoldInv(q)'
    BY <1>1, <2>1, EndedHoldsNothing, OthersHold
  <2>6. \A p \in Placed : pc'[p] \in {"c_commit", "ok", "failed"}
    BY <1>1, <2>1 DEF IInv, BrokerInv, OthersStay, Placed
  <2>7. NoConfirmationWithoutOrder'
    BY <1>1, <2>1, ConfirmationKept
  <2> QED
    BY <1>1, <2>3, <2>4, <2>5, <2>6, <2>7, SalesKept DEF IInv
<1>6. CASE Rollback(r) /\ r \in InFlight
  BY <1>1, <1>6, RollbackInv DEF Rollback, InFlight, world
<1> QED
  BY <1>3, <1>4, <1>5, <1>6 DEF Refuse, Crash, InFlight, Steps

\* The broker and the clock change none of what the invariant relates.
LEMMA WorldInv ==
  ASSUME IInv,
         \/ Tick
         \/ \E b \in Requests, q \in 1..Held : BrokerFill(b, q)
         \/ \E b \in Requests, state \in RemoteState : BrokerClose(b, state)
  PROVE  IInv'
<1>1. Stays /\ UNCHANGED <<db, request>> /\ Placed' = Placed /\ TypeOK'
  BY WorldStays, WorldTypes DEF IInv
<1>2. Recorded' = Recorded
  BY <1>1 DEF db, Recorded
<1>3. \A c \in Candidates : RowInv(c)'
  BY <1>1, RowKept DEF db
<1>4. \A q \in Requests : HoldInv(q)'
  BY <1>1, HoldKept DEF request
<1>5. \A b \in Placed : pc'[b] \in {"c_commit", "ok", "failed"}
  BY <1>1 DEF IInv, BrokerInv, Placed, request
<1>6. NoConfirmationWithoutOrder'
  BY <1>1, ConfirmationKept DEF db
<1> QED
  BY <1>1, <1>2, <1>3, <1>4, <1>5, <1>6, SalesKept DEF IInv

\* IInv is inductive.
LEMMA StepInv == IInv /\ [Next]_vars => IInv'
<1> SUFFICES ASSUME IInv, [Next]_vars PROVE IInv'
  OBVIOUS
<1>1. CASE UNCHANGED vars
  BY <1>1 DEF vars, db, world, request, IInv, TypeOK, RowInv, HoldInv, Consent,
     BrokerInv, OrderInv, OneSalePerCandidate, OneRowPerCandidate,
     NoConfirmationWithoutOrder, Issued, Placed, Recorded
<1> QED
  BY <1>1, PrepareInv, ConfirmInv, RefreshInv, WorldInv DEF Next, Proceed, Idle

\* Every reachable state satisfies IInv.
THEOREM Invariance == Spec => []IInv
BY InitInv, StepInv, PTL DEF Spec

---------------------------------------------------------------------------
(* The properties.                                                         *)

\* Every row, request and broker order is of its type.
THEOREM TypeCorrect == Spec => []TypeOK
<1>1. IInv => TypeOK
  BY DEF IInv
<1> QED
  BY <1>1, Invariance, PTL

\* The broker gets at most one order for a candidate, whatever is retried,
\* raced or lost (confirm's deterministic client_order_id).
THEOREM SoldAtMostOnce == Spec => []OneSalePerCandidate
<1>1. IInv => OneSalePerCandidate
  BY DEF IInv
<1> QED
  BY <1>1, Invariance, PTL

\* A paper_orders row is the only one of its candidate and names an order the
\* broker has, placed for that candidate.
THEOREM RecordsAreReal == Spec => []RecordedSaleIsReal
<1>1. ASSUME IInv PROVE RecordedSaleIsReal
  <2>1. ASSUME NEW o \in Recorded
        PROVE  /\ orders[o].provider \in Placed
               /\ req[orders[o].provider].cand = req[o].cand
    <3>1. /\ orders[o].provider \in Placed
          /\ broker[orders[o].provider].client = orders[o].client
          /\ orders[o].client # 0
          /\ orders[o].client = prep[req[o].cand].id
          /\ req[o].cand \in Candidates
      BY <1>1 DEF IInv, OrderInv, Recorded, TypeOK
    <3> QED
      BY <1>1, <3>1, ClientTellsCandidate
  <2> QED
    BY <1>1, <2>1 DEF RecordedSaleIsReal, IInv, OneRowPerCandidate
<1> QED
  BY <1>1, Invariance, PTL

\* A committed CONFIRMED row or used token has its paper_orders row: confirm
\* commits them together.
THEOREM ConfirmedIsRecorded == Spec => []NoConfirmationWithoutOrder
<1>1. IInv => NoConfirmationWithoutOrder
  BY DEF IInv
<1> QED
  BY <1>1, Invariance, PTL

\* An order is placed only by a confirm that came, before the expiry, with a
\* token prepare issued for that candidate.
THEOREM SalesHaveConsent == Spec => []SaleHasConsent
<1>1. IInv => SaleHasConsent
  BY DEF IInv, BrokerInv, Consent, SaleHasConsent, Placed
<1> QED
  BY <1>1, Invariance, PTL

---------------------------------------------------------------------------
(* PaperExecution implements PaperSale: every step is an offer, a          *)
(* placement or a record of one candidate, or changes none of them.        *)

Offered == {c \in Candidates : prep[c].id # 0}
PlacedFor == [c \in Candidates |-> {b \in Placed : req[b].cand = c}]
RecordedFor == [c \in Candidates |-> {o \in Recorded : req[o].cand = c}]

\* What a step changes of the rows' ids, the broker's and the recorded orders.
Unsold == /\ \A c \in Candidates : prep'[c].id = prep[c].id
          /\ Placed' = Placed /\ Recorded' = Recorded

\* The requests of orders that exist keep their arguments.
LEMMA SoldForTheSame ==
  ASSUME IInv, Stays
  PROVE  \A b \in Placed \cup Recorded : b \in Requests /\ req'[b] = req[b]
BY DEF IInv, BrokerInv, OrderInv, Placed, Recorded, Stays, RequestsStay

\* A step that sells nothing is a stutter of PaperSale.
LEMMA UnsoldStutters ==
  ASSUME IInv, Stays, Unsold
  PROVE  UNCHANGED Sale!vars
<1>1. \A b \in Placed \cup Recorded : req'[b] = req[b]
  BY SoldForTheSame
<1>2. Offered' = Offered
  BY DEF Offered, Unsold
<1>3. PlacedFor' = PlacedFor /\ RecordedFor' = RecordedFor
  BY <1>1 DEF PlacedFor, RecordedFor, Unsold
<1> QED
  BY <1>2, <1>3 DEF Sale!vars, Offered, PlacedFor, RecordedFor

\* The rows a step leaves alone keep their ids.
LEMMA RowsSame ==
  ASSUME UNCHANGED <<prep, orders, broker>>
  PROVE  Unsold
BY DEF Unsold, Placed, Recorded

\* A prepare that commits offers its candidate; no other step of it sells.
LEMMA PrepareRefines ==
  ASSUME IInv, NEW r \in Requests,
         \/ \E c \in Candidates, s \in Sessions : PrepareRecheck(r, c, s)
         \/ PrepareRead(r) \/ PrepareCommit(r) \/ PrepareConflict(r)
  PROVE  [Sale!Next]_Sale!vars
<1>1. Stays
  BY PrepareStays
<1>2. CASE PrepareCommit(r)
  <2>1. PICK c \in Candidates : c = req[r].cand
    BY DEF IInv, TypeOK
  <2>2. /\ prep'[c].id # 0
        /\ \A d \in Candidates : d # c => prep'[d] = prep[d]
    <3>1. CASE prep' = [prep EXCEPT ![c] = NewPreparation(r)]
      BY <3>1 DEF IInv, TypeOK, NewPreparation, Requests
    <3>2. CASE /\ copy[r].id # 0
               /\ prep' = [prep EXCEPT ![c] = Reprepared(r, prep[c])]
      <4>1. copy[r].id = prep[c].id
        BY <1>2, <2>1, <3>2 DEF PrepareCommit, IInv, HoldInv
      <4> QED
        BY <3>2, <4>1 DEF IInv, TypeOK, Reprepared, KeepRowId
    <3> QED
      BY <1>2, <2>1, <3>1, <3>2 DEF PrepareCommit
  <2>3. Placed' = Placed /\ Recorded' = Recorded
    BY <1>2 DEF PrepareCommit, world, Placed, Recorded
  <2>4. \A b \in Placed \cup Recorded : req'[b] = req[b]
    BY <1>1, SoldForTheSame
  <2>5. PlacedFor' = PlacedFor /\ RecordedFor' = RecordedFor
    BY <2>3, <2>4 DEF PlacedFor, RecordedFor
  <2>6. Offered' = Offered \cup {c}
    BY <2>2 DEF Offered
  <2>7. Sale!Offer(c)
    BY <2>5, <2>6 DEF Sale!Offer, Offered, PlacedFor, RecordedFor
  <2> QED
    BY <2>7 DEF Sale!Next
<1>3. CASE ~PrepareCommit(r)
  <2>1. UNCHANGED <<prep, orders, broker>>
    BY <1>3 DEF PrepareRecheck, PrepareRead, PrepareConflict, db, world
  <2> QED
    BY <1>1, <2>1, RowsSame, UnsoldStutters
<1> QED
  BY <1>2, <1>3

\* A submission the broker takes as new places the first order of the
\* candidate.
LEMMA SubmitRefines ==
  ASSUME IInv, NEW r \in Requests, ConfirmSubmit(r)
  PROVE  [Sale!Next]_Sale!vars
<1>1. Stays
  BY ConfirmStays
<1>2. PICK c \in Candidates : c = req[r].cand
  BY DEF IInv, TypeOK
<1>3. /\ copy[r].id # 0 /\ copy[r].id = prep[c].id
      /\ req' = req /\ prep' = prep /\ orders' = orders
  BY <1>2 DEF ConfirmSubmit, IInv, HoldInv, ConfirmSteps, db
<1>4. CASE UNCHANGED broker
  BY <1>1, <1>3, <1>4, RowsSame, UnsoldStutters
<1>5. CASE /\ \A b \in Placed : broker[b].client # ClientOrderId(r)
           /\ broker' = [broker EXCEPT ![r] =
                [client |-> ClientOrderId(r), qty |-> copy[r].qty,
                 filled |-> 0, state |-> "new"]]
  <2>1. Placed' = Placed \cup {r} /\ Recorded' = Recorded
    BY <1>3, <1>5 DEF IInv, TypeOK, Placed, Recorded
  <2>2. \A b \in Placed : req[b].cand # c
    BY <1>2, <1>3, <1>5 DEF IInv, BrokerInv, Placed, ClientOrderId
  <2>3. Offered' = Offered /\ RecordedFor' = RecordedFor /\ c \in Offered
    BY <1>3, <2>1 DEF Offered, RecordedFor
  <2>4. PlacedFor[c] = {}
    BY <2>2 DEF PlacedFor
  <2>5. PlacedFor' = [PlacedFor EXCEPT ![c] = {r}]
    BY <1>2, <1>3, <2>1, <2>2 DEF PlacedFor
  <2>6. Sale!Place(c)
    BY <2>3, <2>4, <2>5 DEF Sale!Place, Offered, PlacedFor, RecordedFor
  <2> QED
    BY <2>6 DEF Sale!Next
<1> QED
  BY <1>4, <1>5 DEF ConfirmSubmit

\* A commit records the order the broker has for the candidate.
LEMMA CommitRefines ==
  ASSUME IInv, NEW r \in Requests, ConfirmCommit(r)
  PROVE  [Sale!Next]_Sale!vars
<1>1. PICK c \in Candidates : c = req[r].cand
  BY DEF IInv, TypeOK
<1>2. /\ copy[r].id # 0 /\ copy[r].id = prep[c].id
      /\ reply[r].id \in Placed /\ broker[reply[r].id].client = copy[r].id
      /\ reply[r].new.status # "NONE"
      /\ \A o \in Recorded : orders[o].client # copy[r].id
      /\ req' = req
  BY <1>1 DEF ConfirmCommit, Finish, IInv, HoldInv, ConfirmSteps, UnusedClientId,
     ClientOrderId
<1>3. /\ prep' = [prep EXCEPT ![c].status = "CONFIRMED", ![c].used = TRUE]
      /\ orders' = [orders EXCEPT ![r] =
           [client |-> copy[r].id, provider |-> reply[r].id,
            status |-> reply[r].new.status, filled |-> 0]]
      /\ broker' = broker
  BY <1>1 DEF ConfirmCommit, ClientOrderId, world
<1>4. \A d \in Candidates : prep'[d].id = prep[d].id
  BY <1>3 DEF IInv, TypeOK, PrepRow
<1>5. Recorded' = Recorded \cup {r} /\ Placed' = Placed
  BY <1>2, <1>3 DEF IInv, TypeOK, Recorded, Placed
<1>6. Offered' = Offered /\ PlacedFor' = PlacedFor
  BY <1>2, <1>4, <1>5 DEF Offered, PlacedFor
<1>7. PlacedFor[c] # {}
  BY <1>2, ClientTellsCandidate DEF PlacedFor
<1>8. \A o \in Recorded : req[o].cand # c
  BY <1>1, <1>2 DEF IInv, OrderInv, Recorded
<1>9. /\ RecordedFor[c] = {}
      /\ RecordedFor' = [RecordedFor EXCEPT ![c] = {r}]
  BY <1>1, <1>2, <1>5, <1>8 DEF RecordedFor
<1>10. Sale!Record(c)
  BY <1>6, <1>7, <1>9 DEF Sale!Record, Offered, PlacedFor, RecordedFor
<1> QED
  BY <1>10 DEF Sale!Next

\* The other steps of a confirm sell nothing.
LEMMA ConfirmRefines ==
  ASSUME IInv, NEW r \in Requests,
         \/ \E c \in Candidates, t \in Issued, s \in Sessions : ConfirmRead(r, c, t, s)
         \/ ConfirmExpire(r) \/ ConfirmRecheck(r) \/ ConfirmReserve(r)
         \/ ConfirmSubmit(r) \/ ConfirmCommit(r) \/ ConfirmConflict(r)
  PROVE  [Sale!Next]_Sale!vars
<1>1. Stays
  BY ConfirmStays
<1>2. CASE ConfirmExpire(r)
  <2>1. UNCHANGED <<orders, broker>>
    BY <1>2 DEF ConfirmExpire, world
  <2>2. \A d \in Candidates : prep'[d].id = prep[d].id
    <3>1. CASE prep' = prep
      BY <3>1
    <3>2. CASE prep' = [prep EXCEPT ![req[r].cand].status = "EXPIRED"]
      BY <3>2 DEF IInv, TypeOK, PrepRow
    <3> QED
      BY <1>2, <3>1, <3>2 DEF ConfirmExpire
  <2>3. Unsold
    BY <2>1, <2>2 DEF Unsold, Placed, Recorded
  <2> QED
    BY <1>1, <2>3, UnsoldStutters
<1>3. CASE \/ \E c \in Candidates, t \in Issued, s \in Sessions : ConfirmRead(r, c, t, s)
           \/ ConfirmRecheck(r) \/ ConfirmReserve(r) \/ ConfirmConflict(r)
  <2>1. UNCHANGED <<prep, orders, broker>>
    BY <1>3 DEF ConfirmRead, ConfirmRecheck, ConfirmReserve, FlushReservation,
       ConfirmConflict, db, world
  <2> QED
    BY <1>1, <2>1, RowsSame, UnsoldStutters
<1> QED
  BY <1>2, <1>3, SubmitRefines, CommitRefines

\* A refresh changes the status of an order, not which orders there are.
LEMMA RefreshRefines ==
  ASSUME IInv, NEW r \in Requests,
         \/ \E o \in Requests : RefreshRead(r, o)
         \/ RefreshAsk(r) \/ RefreshCommit(r) \/ Refuse(r) \/ Crash(r)
  PROVE  [Sale!Next]_Sale!vars
<1>1. Stays
  BY RefreshStays
<1>2. CASE RefreshCommit(r)
  <2>1. UNCHANGED <<prep, broker>> /\ reply[r].id \in Recorded
        /\ \A p \in Requests : p # reply[r].id => orders'[p] = orders[p]
    BY <1>2 DEF RefreshCommit, IInv, HoldInv, RefreshSteps, TypeOK, world
  <2>2. Placed' = Placed /\ Recorded' = Recorded
    BY <1>1, <2>1 DEF Placed, Recorded, Stays, RecordedStays
  <2>3. Unsold
    BY <2>1, <2>2 DEF Unsold
  <2> QED
    BY <1>1, <2>3, UnsoldStutters
<1>3. CASE (\E o \in Requests : RefreshRead(r, o)) \/ RefreshAsk(r) \/ Rollback(r)
  <2>1. UNCHANGED <<prep, orders, broker>>
    BY <1>3 DEF RefreshRead, RefreshAsk, Rollback, db, world
  <2> QED
    BY <1>1, <2>1, RowsSame, UnsoldStutters
<1> QED
  BY <1>2, <1>3 DEF Refuse, Crash

\* Through every interleaving, crash and retry the workflow keeps the promise
\* of PaperSale: an order is placed only after an offer and recorded only after
\* it was placed, at most once each for a candidate, and neither is undone.
THEOREM Refinement == Spec => SaleSpec
<1>1. Init => Sale!Init
  <2> SUFFICES ASSUME Init PROVE Sale!Init
    OBVIOUS
  <2>1. Offered = {} /\ Placed = {} /\ Recorded = {}
    BY DEF Init, Offered, NoRow, Placed, NotPlaced, Recorded, NoOrder
  <2> QED
    BY <2>1 DEF Sale!Init, Offered
<1>2. IInv /\ [Next]_vars => [Sale!Next]_Sale!vars
  <2> SUFFICES ASSUME IInv, [Next]_vars PROVE [Sale!Next]_Sale!vars
    OBVIOUS
  <2>1. CASE UNCHANGED vars
    BY <2>1 DEF vars, db, world, request, Sale!vars, Placed, Recorded
  <2>2. CASE \/ Tick
             \/ \E b \in Requests, q \in 1..Held : BrokerFill(b, q)
             \/ \E b \in Requests, state \in RemoteState : BrokerClose(b, state)
    <3>1. Stays /\ UNCHANGED db /\ Placed' = Placed
      BY <2>2, WorldStays
    <3>2. Unsold
      BY <3>1 DEF Unsold, db, Recorded
    <3> QED
      BY <3>1, <3>2, UnsoldStutters
  <2> QED
    BY <2>1, <2>2, PrepareRefines, ConfirmRefines, RefreshRefines DEF Next, Proceed, Idle
<1> QED
  BY <1>1, <1>2, Invariance, PTL DEF Spec, SaleSpec, Sale!Spec

---------------------------------------------------------------------------
(* Quantities.  A row's quantity never changes once it is written, so the  *)
(* copies of it and the broker order of its candidate agree.  With a       *)
(* frozen clock no row expires and none is prepared again; with a running  *)
(* one the evaluation prepare has just stored is the latest, and selects   *)
(* no quantity, so that every snapshot is of the whole lot.                *)

Whole(b) == broker[b].filled = broker[b].qty

QuantitySteps == {"c_recheck", "c_reserve", "c_submit", "c_commit", "f_ask", "f_commit"}

OwnEvaluations(c) == ~Frozen => \A e \in evals[c] : e.at # 0 => e.selected = 0

RowQuantity(c) ==
  prep[c].id # 0 => IF Frozen THEN prep[c].status \in {"PREPARED", "CONFIRMED"}
                    ELSE prep[c].qty = LotQty[LotOf[c]]

ClockIsStill == Frozen => clock = 0 /\ \A r \in Requests : req[r].now = 0

HoldQuantity(r) ==
  /\ pc[r] = "p_commit" => IF Frozen THEN copy[r].id = 0
                           ELSE sellQty[r] = LotQty[LotOf[req[r].cand]]
  /\ pc[r] = "c_expire" => ~Frozen
  /\ pc[r] \in QuantitySteps => /\ prep[req[r].cand].id # 0
                                /\ copy[r].qty = prep[req[r].cand].qty

OrderQuantity(b) == b \in Placed => broker[b].qty = prep[req[b].cand].qty

QInv ==
  /\ \A c \in Candidates : OwnEvaluations(c) /\ RowQuantity(c)
  /\ ClockIsStill
  /\ \A r \in Requests : HoldQuantity(r) /\ OrderQuantity(r)

\* What a step leaves of the rows' and the orders' quantities.
QuantitiesStay ==
  /\ \A c \in Candidates : prep[c].id # 0 => prep'[c].qty = prep[c].qty
  /\ \A b \in Placed : broker'[b].qty = broker[b].qty

\* Nothing is prepared at first, and the clock is at its start.
LEMMA InitQuantity == Init => QInv
<1> SUFFICES ASSUME Init PROVE QInv
  OBVIOUS
<1>1. /\ \A c \in Candidates : prep[c].id = 0
      /\ \A r \in Requests : pc[r] = "idle" /\ req[r].now = 0
      /\ Placed = {} /\ clock = 0
  BY DEF Init, NoRow, NoRequest, Placed, NotPlaced
<1>2. \A c \in Candidates : OwnEvaluations(c)
  BY DEF Init, OwnEvaluations
<1> QED
  BY <1>1, <1>2 DEF QInv, RowQuantity, ClockIsStill, HoldQuantity, OrderQuantity, QuantitySteps

\* The evaluation a request stores selects no quantity.
LEMMA EvaluationsKept ==
  ASSUME IInv, QInv, NEW r \in Requests, evals' = evals \/ StoreEvaluation(r)
  PROVE  \A c \in Candidates : OwnEvaluations(c)'
<1>1. CASE evals' = evals
  BY <1>1 DEF QInv, OwnEvaluations
<1>2. CASE StoreEvaluation(r)
  <2>1. ASSUME NEW c \in Candidates, NEW e \in evals'[c]
        PROVE  e \in evals[c] \/ e.selected = 0
    BY <1>2, <2>1 DEF StoreEvaluation, IInv, TypeOK
  <2> QED
    BY <2>1 DEF QInv, OwnEvaluations
<1> QED
  BY <1>1, <1>2

\* A request that did not move still agrees with the row it copied.
LEMMA HoldQuantityKept ==
  ASSUME IInv, QInv, Stays, QuantitiesStay, NEW q \in Requests,
         pc'[q] = pc[q], copy'[q] = copy[q], sellQty'[q] = sellQty[q]
  PROVE  HoldQuantity(q)'
<1>1. CASE pc[q] = "idle"
  BY <1>1 DEF HoldQuantity, QuantitySteps
<1>2. CASE pc[q] # "idle"
  <2>1. req'[q] = req[q] /\ req[q].cand \in Candidates
    BY <1>2 DEF Stays, RequestsStay, IInv, TypeOK
  <2>2. pc[q] \in QuantitySteps =>
          /\ prep'[req[q].cand].id # 0
          /\ copy[q].qty = prep'[req[q].cand].qty
    BY <2>1 DEF QInv, HoldQuantity, Stays, RowsStay, QuantitiesStay
  <2> QED
    BY <2>1, <2>2 DEF QInv, HoldQuantity
<1> QED
  BY <1>1, <1>2

\* A step keeps the quantities when it keeps those of the rows and orders that
\* exist, and the request that moved holds what it should.
LEMMA QuantityKept ==
  ASSUME IInv, QInv, Stays, QuantitiesStay, NEW r \in Requests, OthersStay(r),
         \A q \in Requests \ {r} : sellQty'[q] = sellQty[q],
         \A c \in Candidates : RowQuantity(c)',
         evals' = evals \/ StoreEvaluation(r),
         clock' = clock, req'[r].now \in {req[r].now, clock},
         HoldQuantity(r)',
         Placed' \subseteq Placed \cup {r}, r \notin Placed => OrderQuantity(r)'
  PROVE  QInv'
<1>1. \A c \in Candidates : OwnEvaluations(c)'
  BY EvaluationsKept
<1>2. ClockIsStill'
  BY DEF QInv, ClockIsStill, OthersStay
<1>3. \A q \in Requests : HoldQuantity(q)'
  BY HoldQuantityKept DEF OthersStay
<1>4. ASSUME NEW b \in Placed PROVE OrderQuantity(b)'
  <2>1. /\ req'[b] = req[b] /\ req[b].cand \in Candidates /\ b \in Requests
        /\ prep[req[b].cand].id # 0
    BY DEF IInv, TypeOK, BrokerInv, Placed, Stays, RequestsStay
  <2> QED
    BY <2>1 DEF QInv, OrderQuantity, QuantitiesStay
<1>5. \A b \in Requests : OrderQuantity(b)'
  BY <1>4 DEF OrderQuantity
<1> QED
  BY <1>1, <1>2, <1>3, <1>5 DEF QInv

\* A request that ends holds no quantity.
LEMMA EndedHoldsNoQuantity ==
  ASSUME NEW r \in Requests, pc'[r] \in {"ok", "failed"}
  PROVE  HoldQuantity(r)'
BY DEF HoldQuantity, QuantitySteps

\* A step that changes no row.
LEMMA RowsQuietQuantity ==
  ASSUME QInv, prep' = prep
  PROVE  \A c \in Candidates : RowQuantity(c)' /\ (prep[c].id # 0 => prep'[c].qty = prep[c].qty)
BY DEF QInv, RowQuantity

\* With a frozen clock a row never expires.
LEMMA FrozenNeverExpires ==
  ASSUME IInv, QInv, Frozen, NEW c \in Candidates, prep[c].id # 0
  PROVE  ~Expired(prep[c], 0)
<1>1. /\ prep[c].token \in Requests
      /\ prep[c].expires = req[prep[c].token].now + TTL
  BY DEF IInv, RowInv, Issued
<1>2. req[prep[c].token].now = 0
  BY <1>1 DEF QInv, ClockIsStill
<1> QED
  BY <1>1, <1>2, ConstantsAssumption DEF Expired

\* With a running one the evaluation prepare stores is the latest.
LEMMA PreparesWholeLot ==
  ASSUME IInv, QInv, ~Frozen, NEW r \in Requests, NEW c \in Candidates,
         NEW e \in Latest(evals[c] \cup {[at |-> EvaluatedAt(r), selected |-> 0]})
  PROVE  Quantity(c, e) = LotQty[LotOf[c]]
<1> DEFINE own == [at |-> EvaluatedAt(r), selected |-> 0]
<1>1. own.at = r /\ r \in Nat /\ r # 0
  BY DEF EvaluatedAt, Requests
<1>2. e \in evals[c] \/ e = own
  BY DEF Latest
<1>3. own.at <= e.at
  BY DEF Latest
<1>4. e \in evals[c] => e.at \in Nat
  BY ConstantsAssumption DEF IInv, TypeOK
<1>5. e.selected = 0
  <2>1. CASE e = own
    BY <2>1
  <2>2. CASE e \in evals[c]
    <3> HIDE DEF own
    <3>1. e.at # 0
      BY <1>1, <1>3, <1>4, <2>2
    <3> QED
      BY <2>2, <3>1 DEF QInv, OwnEvaluations
  <2> QED
    BY <1>2, <2>1, <2>2
<1> QED
  BY <1>5 DEF Quantity

\* The steps of prepare write a row's quantity once.
LEMMA PrepareQuantity ==
  ASSUME IInv, QInv, NEW r \in Requests,
         \/ \E c \in Candidates, s \in Sessions : PrepareRecheck(r, c, s)
         \/ PrepareRead(r) \/ PrepareCommit(r) \/ PrepareConflict(r)
  PROVE  QInv' /\ QuantitiesStay
<1>1. Stays /\ OthersStay(r) /\ TypeOK
  BY PrepareStays DEF IInv
<1>2. ASSUME NEW c \in Candidates, NEW s \in Sessions, PrepareRecheck(r, c, s)
      PROVE  QInv' /\ QuantitiesStay
  <2>1. /\ prep' = prep /\ evals' = evals /\ broker' = broker /\ clock' = clock
        /\ sellQty' = sellQty /\ req'[r].now = clock /\ pc'[r] = "p_read"
    BY <1>1, <1>2 DEF PrepareRecheck, Goto, TypeOK, db, world
  <2>2. HoldQuantity(r)'
    BY <2>1 DEF HoldQuantity, QuantitySteps
  <2>3. QuantitiesStay /\ Placed' = Placed /\ \A c_1 \in Candidates : RowQuantity(c_1)'
    BY <2>1, RowsQuietQuantity DEF QuantitiesStay, Placed
  <2>4. r \notin Placed /\ r \notin Placed'
    BY <1>2, <2>3, NotYetPlaced DEF PrepareRecheck, Arrives
  <2> QED
    BY <1>1, <2>1, <2>2, <2>3, <2>4, QuantityKept DEF OrderQuantity
<1>3. CASE PrepareRead(r)
  <2>1. PICK c \in Candidates : c = req[r].cand
    BY <1>1 DEF TypeOK
  <2>2. /\ prep' = prep /\ evals' = evals /\ broker' = broker /\ clock' = clock
        /\ req' = req /\ pc'[r] = "p_commit" /\ copy'[r] = prep[c]
    BY <1>1, <1>3, <2>1 DEF PrepareRead, Goto, TypeOK, db, world
  <2>3. \A q \in Requests \ {r} : sellQty'[q] = sellQty[q]
    BY <1>1, <1>3 DEF PrepareRead, TypeOK
  <2>4. ASSUME Frozen PROVE HoldQuantity(r)'
    <3>1. prep[c].id = 0
      <4> SUFFICES ASSUME prep[c].id # 0 PROVE FALSE
        OBVIOUS
      <4>1. prep[c].status \in {"PREPARED", "CONFIRMED"} /\ req[r].now = 0
        BY <2>4 DEF QInv, RowQuantity, ClockIsStill
      <4>2. ~Expired(prep[c], 0)
        BY <2>4, FrozenNeverExpires
      <4> QED
        BY <1>3, <2>1, <4>1, <4>2 DEF PrepareRead
    <3> QED
      BY <2>2, <2>4, <3>1 DEF HoldQuantity, QuantitySteps
  <2>5. ASSUME ~Frozen PROVE HoldQuantity(r)'
    <3>1. PICK e \in Latest(evals[c] \cup {[at |-> EvaluatedAt(r), selected |-> 0]}) :
            sellQty' = [sellQty EXCEPT ![r] = Quantity(c, e)]
      BY <1>3, <2>1 DEF PrepareRead
    <3>2. sellQty'[r] = LotQty[LotOf[c]]
      BY <1>1, <2>5, <3>1, PreparesWholeLot DEF TypeOK
    <3> QED
      BY <2>1, <2>2, <2>5, <3>2 DEF HoldQuantity, QuantitySteps
  <2>6. QuantitiesStay /\ Placed' = Placed /\ \A d \in Candidates : RowQuantity(d)'
    BY <2>2, RowsQuietQuantity DEF QuantitiesStay, Placed
  <2>7. r \notin Placed /\ r \notin Placed'
    BY <1>3, <2>6, NotYetPlaced DEF PrepareRead
  <2> QED
    BY <1>1, <2>2, <2>3, <2>4, <2>5, <2>6, <2>7, QuantityKept DEF OrderQuantity
<1>4. CASE PrepareCommit(r)
  <2>1. PICK c \in Candidates : c = req[r].cand
    BY <1>1 DEF TypeOK
  <2>2. /\ pc[r] = "p_commit" /\ broker' = broker /\ clock' = clock
        /\ req' = req /\ StoreEvaluation(r) /\ pc'[r] = "ok"
    BY <1>1, <1>4 DEF PrepareCommit, Finish, Goto, TypeOK, world
  <2>3. \A q \in Requests \ {r} : sellQty'[q] = sellQty[q]
    BY <1>1, <1>4 DEF PrepareCommit, Finish, TypeOK
  <2>4. IF Frozen THEN copy[r].id = 0 ELSE sellQty[r] = LotQty[LotOf[c]]
    BY <2>1, <2>2 DEF QInv, HoldQuantity
  <2>5. \A d \in Candidates : d # c => prep'[d] = prep[d]
    BY <1>1, <1>4, <2>1 DEF PrepareCommit, TypeOK
  <2>6. RowQuantity(c)' /\ (prep[c].id # 0 => prep'[c].qty = prep[c].qty)
    <3>1. CASE prep[c].id = 0 /\ prep' = [prep EXCEPT ![c] = NewPreparation(r)]
      <4>1. prep'[c] = NewPreparation(r)
        BY <1>1, <3>1 DEF TypeOK
      <4> QED
        BY <2>4, <3>1, <4>1 DEF RowQuantity, NewPreparation
    <3>2. CASE copy[r].id # 0 /\ prep' = [prep EXCEPT ![c] = Reprepared(r, prep[c])]
      <4>1. ~Frozen /\ prep[c].id # 0
        BY <2>1, <2>2, <2>4, <3>2 DEF IInv, HoldInv
      <4>2. prep[c].qty = LotQty[LotOf[c]]
        BY <4>1 DEF QInv, RowQuantity
      <4>3. prep'[c].qty = LotQty[LotOf[c]]
        BY <1>1, <2>4, <3>2, <4>1, <4>2 DEF TypeOK, Reprepared, Merge
      <4> QED
        BY <4>1, <4>2, <4>3 DEF RowQuantity
    <3> QED
      BY <1>4, <2>1, <3>1, <3>2 DEF PrepareCommit
  <2>7. \A d \in Candidates : RowQuantity(d)'
    BY <2>5, <2>6 DEF QInv, RowQuantity
  <2>8. QuantitiesStay /\ Placed' = Placed
    BY <2>2, <2>5, <2>6 DEF QuantitiesStay, Placed
  <2>9. HoldQuantity(r)' /\ r \notin Placed /\ r \notin Placed'
    BY <2>2, <2>8, EndedHoldsNoQuantity, NotYetPlaced
  <2> QED
    BY <1>1, <2>2, <2>3, <2>7, <2>8, <2>9, QuantityKept DEF OrderQuantity
<1>5. CASE PrepareConflict(r)
  <2>1. /\ prep' = prep /\ evals' = evals /\ broker' = broker /\ clock' = clock
        /\ req' = req /\ pc'[r] = "failed" /\ pc[r] = "p_commit"
    BY <1>1, <1>5 DEF PrepareConflict, Finish, Goto, TypeOK, db, world
  <2>2. \A q \in Requests \ {r} : sellQty'[q] = sellQty[q]
    BY <1>1, <1>5 DEF PrepareConflict, Finish, TypeOK
  <2>3. QuantitiesStay /\ Placed' = Placed /\ \A d \in Candidates : RowQuantity(d)'
    BY <2>1, RowsQuietQuantity DEF QuantitiesStay, Placed
  <2>4. HoldQuantity(r)' /\ r \notin Placed /\ r \notin Placed'
    BY <2>1, <2>3, EndedHoldsNoQuantity, NotYetPlaced
  <2> QED
    BY <1>1, <2>1, <2>2, <2>3, <2>4, QuantityKept DEF OrderQuantity
<1> QED
  BY <1>2, <1>3, <1>4, <1>5

\* A request that ends and changes no row and no order.
LEMMA EndsQuantity ==
  ASSUME IInv, QInv, Stays, NEW r \in Requests, OthersStay(r),
         NEW outcome \in {"ok", "failed"}, Finish(r, outcome),
         prep' = prep, broker' = broker, clock' = clock,
         evals' = evals \/ StoreEvaluation(r)
  PROVE  QInv' /\ QuantitiesStay
<1>1. /\ req' = req /\ pc'[r] \in {"ok", "failed"}
      /\ \A q \in Requests \ {r} : sellQty'[q] = sellQty[q]
  BY DEF Finish, Goto, IInv, TypeOK
<1>2. QuantitiesStay /\ Placed' = Placed /\ \A d \in Candidates : RowQuantity(d)'
  BY RowsQuietQuantity DEF QuantitiesStay, Placed
<1>3. HoldQuantity(r)'
  BY <1>1, EndedHoldsNoQuantity
<1>4. r \notin Placed => OrderQuantity(r)'
  BY <1>2 DEF OrderQuantity
<1> QED
  BY <1>1, <1>2, <1>3, <1>4, QuantityKept

\* The steps of confirm keep the quantity of the row, and place an order of it.
LEMMA ConfirmQuantity ==
  ASSUME IInv, QInv, NEW r \in Requests,
         \/ \E c \in Candidates, t \in Issued, s \in Sessions : ConfirmRead(r, c, t, s)
         \/ ConfirmExpire(r) \/ ConfirmRecheck(r) \/ ConfirmReserve(r)
         \/ ConfirmSubmit(r) \/ ConfirmCommit(r) \/ ConfirmConflict(r)
  PROVE  QInv' /\ QuantitiesStay
<1>1. Stays /\ OthersStay(r) /\ TypeOK /\ HoldInv(r) /\ HoldQuantity(r)
  BY ConfirmStays DEF IInv, QInv
<1>2. ASSUME NEW c \in Candidates, NEW t \in Issued, NEW s \in Sessions,
             ConfirmRead(r, c, t, s)
      PROVE  QInv' /\ QuantitiesStay
  <2>1. /\ prep' = prep /\ evals' = evals /\ broker' = broker /\ clock' = clock
        /\ req'[r].now = clock /\ req'[r].cand = c /\ copy'[r] = prep[c]
        /\ prep[c].id # 0
    BY <1>1, <1>2 DEF ConfirmRead, TypeOK, db, world
  <2>2. \A q \in Requests \ {r} : sellQty'[q] = sellQty[q]
    BY <1>1, <1>2 DEF ConfirmRead, TypeOK
  <2>3. \/ pc'[r] = "c_recheck"
        \/ pc'[r] = "c_expire" /\ Expired(prep[c], clock)
    BY <1>1, <1>2 DEF ConfirmRead, Goto, TypeOK
  <2>4. pc'[r] = "c_expire" => ~Frozen
    BY <2>1, <2>3, FrozenNeverExpires DEF QInv, ClockIsStill
  <2>5. HoldQuantity(r)'
    BY <2>1, <2>3, <2>4 DEF HoldQuantity, QuantitySteps
  <2>6. QuantitiesStay /\ Placed' = Placed /\ \A d \in Candidates : RowQuantity(d)'
    BY <2>1, RowsQuietQuantity DEF QuantitiesStay, Placed
  <2>7. r \notin Placed => OrderQuantity(r)'
    BY <2>6 DEF OrderQuantity
  <2> QED
    BY <1>1, <2>1, <2>2, <2>5, <2>6, <2>7, QuantityKept
<1>3. CASE ConfirmExpire(r)
  <2>1. PICK c \in Candidates : c = req[r].cand
    BY <1>1 DEF TypeOK
  <2>2. /\ pc[r] = "c_expire" /\ pc'[r] = "failed" /\ req' = req /\ broker' = broker
        /\ clock' = clock /\ evals' = evals
        /\ \A q \in Requests \ {r} : sellQty'[q] = sellQty[q]
    BY <1>1, <1>3 DEF ConfirmExpire, Finish, Goto, TypeOK, world
  <2>3. ~Frozen
    BY <1>1, <2>2 DEF HoldQuantity
  <2>4. \A d \in Candidates : prep'[d].id = prep[d].id /\ prep'[d].qty = prep[d].qty
    <3>1. CASE prep' = prep
      BY <3>1
    <3>2. CASE prep' = [prep EXCEPT ![c].status = "EXPIRED"]
      BY <1>1, <3>2 DEF TypeOK, PrepRow
    <3> QED
      BY <1>3, <2>1, <3>1, <3>2 DEF ConfirmExpire
  <2>5. \A d \in Candidates : RowQuantity(d)'
    BY <2>3, <2>4 DEF QInv, RowQuantity
  <2>6. QuantitiesStay /\ Placed' = Placed
    BY <2>2, <2>4 DEF QuantitiesStay, Placed
  <2>7. HoldQuantity(r)' /\ (r \notin Placed => OrderQuantity(r)')
    BY <2>2, <2>6, EndedHoldsNoQuantity DEF OrderQuantity
  <2> QED
    BY <1>1, <2>2, <2>5, <2>6, <2>7, QuantityKept
<1>4. CASE ConfirmRecheck(r) \/ ConfirmReserve(r)
  <2>1. /\ pc[r] \in QuantitySteps /\ pc'[r] \in {"c_reserve", "c_submit"}
        /\ UNCHANGED <<prep, evals, broker, clock, req, copy, sellQty>>
    BY <1>1, <1>4 DEF ConfirmRecheck, ConfirmReserve, FlushReservation, Goto, TypeOK,
       QuantitySteps, db, world
  <2>2. HoldQuantity(r)'
    BY <1>1, <2>1 DEF HoldQuantity, QuantitySteps
  <2>3. QuantitiesStay /\ Placed' = Placed /\ \A d \in Candidates : RowQuantity(d)'
    BY <2>1, RowsQuietQuantity DEF QuantitiesStay, Placed
  <2>4. r \notin Placed => OrderQuantity(r)'
    BY <2>3 DEF OrderQuantity
  <2> QED
    BY <1>1, <2>1, <2>2, <2>3, <2>4, QuantityKept
<1>5. CASE ConfirmSubmit(r)
  <2>1. /\ pc[r] = "c_submit" /\ pc'[r] = "c_commit"
        /\ UNCHANGED <<prep, evals, clock, req, copy, sellQty>>
    BY <1>1, <1>5 DEF ConfirmSubmit, Goto, TypeOK, db
  <2>2. HoldQuantity(r)' /\ r \notin Placed
    BY <1>1, <2>1, NotYetPlaced DEF HoldQuantity, QuantitySteps
  <2>3. \/ UNCHANGED broker
        \/ broker' = [broker EXCEPT ![r] = [client |-> ClientOrderId(r), qty |-> copy[r].qty,
                                            filled |-> 0, state |-> "new"]]
    BY <1>5 DEF ConfirmSubmit
  <2>4. \A b \in Requests : b # r => broker'[b] = broker[b]
    BY <1>1, <2>3 DEF TypeOK
  <2>5. QuantitiesStay /\ Placed' \subseteq Placed \cup {r}
        /\ \A d \in Candidates : RowQuantity(d)'
    BY <2>1, <2>2, <2>4, RowsQuietQuantity DEF QuantitiesStay, Placed
  <2>6. OrderQuantity(r)'
    <3>1. CASE UNCHANGED broker
      BY <2>2, <3>1 DEF OrderQuantity, Placed
    <3>2. CASE broker' = [broker EXCEPT ![r] = [client |-> ClientOrderId(r),
                            qty |-> copy[r].qty, filled |-> 0, state |-> "new"]]
      <4>1. broker'[r].qty = copy[r].qty
        BY <1>1, <3>2 DEF TypeOK
      <4> QED
        BY <1>1, <2>1, <4>1 DEF HoldQuantity, QuantitySteps, OrderQuantity
    <3> QED
      BY <2>3, <3>1, <3>2
  <2> QED
    BY <1>1, <2>1, <2>2, <2>5, <2>6, QuantityKept
<1>6. CASE ConfirmCommit(r)
  <2>1. PICK c \in Candidates : c = req[r].cand
    BY <1>1 DEF TypeOK
  <2>2. /\ pc'[r] = "ok" /\ req' = req /\ broker' = broker /\ clock' = clock
        /\ StoreEvaluation(r) /\ \A q \in Requests \ {r} : sellQty'[q] = sellQty[q]
    BY <1>1, <1>6 DEF ConfirmCommit, Finish, Goto, TypeOK, world
  <2>3. prep' = [prep EXCEPT ![c].status = "CONFIRMED", ![c].used = TRUE]
    BY <1>6, <2>1 DEF ConfirmCommit
  <2>4. \A d \in Candidates :
          /\ prep'[d].id = prep[d].id /\ prep'[d].qty = prep[d].qty
          /\ prep'[d].status \in {prep[d].status, "CONFIRMED"}
    BY <1>1, <2>3 DEF TypeOK, PrepRow
  <2>5. \A d \in Candidates : RowQuantity(d)'
    BY <2>4 DEF QInv, RowQuantity
  <2>6. QuantitiesStay /\ Placed' = Placed
    BY <2>2, <2>4 DEF QuantitiesStay, Placed
  <2>7. HoldQuantity(r)' /\ (r \notin Placed => OrderQuantity(r)')
    BY <2>2, <2>6, EndedHoldsNoQuantity DEF OrderQuantity
  <2> QED
    BY <1>1, <2>2, <2>5, <2>6, <2>7, QuantityKept
<1>7. CASE ConfirmConflict(r)
  BY <1>1, <1>7, EndsQuantity DEF ConfirmConflict, world
<1> QED
  BY <1>2, <1>3, <1>4, <1>5, <1>6, <1>7

\* A refresh copies the row of its order.
LEMMA RefreshQuantity ==
  ASSUME IInv, QInv, NEW r \in Requests,
         \/ \E o \in Requests : RefreshRead(r, o)
         \/ RefreshAsk(r) \/ RefreshCommit(r) \/ Refuse(r) \/ Crash(r)
  PROVE  QInv' /\ QuantitiesStay
<1>1. Stays /\ OthersStay(r) /\ TypeOK /\ HoldQuantity(r)
  BY RefreshStays DEF IInv, QInv
<1>2. ASSUME NEW o \in Requests, RefreshRead(r, o)
      PROVE  QInv' /\ QuantitiesStay
  <2>1. /\ UNCHANGED <<prep, evals, broker, clock, sellQty>> /\ o \in Recorded
        /\ pc'[r] = "f_ask" /\ req'[r].now = clock /\ req'[r].cand = req[o].cand
        /\ copy'[r] = prep[req[o].cand]
    BY <1>1, <1>2 DEF RefreshRead, Goto, TypeOK, db, world, Requested, NoRequest
  <2>2. prep[req[o].cand].id # 0
    BY <2>1 DEF IInv, OrderInv
  <2>3. HoldQuantity(r)'
    BY <2>1, <2>2 DEF HoldQuantity, QuantitySteps
  <2>4. QuantitiesStay /\ Placed' = Placed /\ \A d \in Candidates : RowQuantity(d)'
    BY <2>1, RowsQuietQuantity DEF QuantitiesStay, Placed
  <2>5. r \notin Placed => OrderQuantity(r)'
    BY <2>4 DEF OrderQuantity
  <2> QED
    BY <1>1, <2>1, <2>3, <2>4, <2>5, QuantityKept
<1>3. CASE RefreshAsk(r)
  <2>1. /\ pc[r] = "f_ask" /\ pc'[r] = "f_commit"
        /\ UNCHANGED <<prep, evals, broker, clock, req, copy, sellQty>>
    BY <1>1, <1>3 DEF RefreshAsk, Goto, TypeOK, db, world
  <2>2. HoldQuantity(r)'
    BY <1>1, <2>1 DEF HoldQuantity, QuantitySteps
  <2>3. QuantitiesStay /\ Placed' = Placed /\ \A d \in Candidates : RowQuantity(d)'
    BY <2>1, RowsQuietQuantity DEF QuantitiesStay, Placed
  <2>4. r \notin Placed => OrderQuantity(r)'
    BY <2>3 DEF OrderQuantity
  <2> QED
    BY <1>1, <2>1, <2>2, <2>3, <2>4, QuantityKept
<1>4. CASE RefreshCommit(r)
  BY <1>1, <1>4, EndsQuantity DEF RefreshCommit, world
<1>5. CASE Rollback(r)
  BY <1>1, <1>5, EndsQuantity DEF Rollback, world
<1> QED
  BY <1>2, <1>3, <1>4, <1>5 DEF Refuse, Crash

\* The broker never changes the quantity of an order.
LEMMA WorldQuantity ==
  ASSUME IInv, QInv,
         \/ Tick
         \/ \E b \in Requests, q \in 1..Held : BrokerFill(b, q)
         \/ \E b \in Requests, state \in RemoteState : BrokerClose(b, state)
  PROVE  QInv' /\ QuantitiesStay
<1>1. Stays /\ UNCHANGED <<db, request>> /\ Placed' = Placed /\ TypeOK
  BY WorldStays DEF IInv
<1>2. \A b \in Requests : broker'[b].qty = broker[b].qty
  <2>1. CASE Tick
    BY <2>1 DEF Tick
  <2>2. ASSUME NEW b \in Requests, NEW q \in 1..Held, BrokerFill(b, q)
        PROVE  \A p \in Requests : broker'[p].qty = broker[p].qty
    BY <1>1, <2>2 DEF BrokerFill, TypeOK, BrokerOrder
  <2>3. ASSUME NEW b \in Requests, NEW state \in RemoteState, BrokerClose(b, state)
        PROVE  \A p \in Requests : broker'[p].qty = broker[p].qty
    BY <1>1, <2>3 DEF BrokerClose, TypeOK, BrokerOrder
  <2> QED
    BY <2>1, <2>2, <2>3
<1>3. Frozen => clock' = clock
  BY DEF Tick, BrokerFill, BrokerClose
<1>4. QuantitiesStay /\ \A c \in Candidates : RowQuantity(c)'
  BY <1>1, <1>2, RowsQuietQuantity DEF QuantitiesStay, Placed, db
<1>5. \A c \in Candidates : OwnEvaluations(c)'
  BY <1>1 DEF QInv, OwnEvaluations, db
<1>6. ClockIsStill'
  BY <1>1, <1>3 DEF QInv, ClockIsStill, request
<1>7. \A q \in Requests : HoldQuantity(q)'
  BY <1>1 DEF QInv, HoldQuantity, db, request
<1>8. \A b \in Requests : OrderQuantity(b)'
  BY <1>1, <1>2 DEF QInv, OrderQuantity, db, request
<1> QED
  BY <1>4, <1>5, <1>6, <1>7, <1>8 DEF QInv

---------------------------------------------------------------------------
(* Fills.  The broker's fills only grow, so an answer that a refresh was   *)
(* given stays true however late it is written.                            *)

OrderFill(b) ==
  b \in Placed => /\ broker[b].filled <= broker[b].qty
                  /\ broker[b].state = "filled" => Whole(b)

HoldFill(r) ==
  /\ pc[r] = "c_commit" /\ reply[r].new.status = "FILLED" => Whole(reply[r].id)
  /\ pc[r] \in RefreshSteps =>
       LET b == orders[reply[r].id].provider IN
       /\ req[r].cand = req[reply[r].id].cand
       /\ reply[r].new.filled <= broker[b].filled
       /\ reply[r].old.status = "FILLED" => Whole(b)
       /\ reply[r].new.status = "FILLED" => Whole(b)

RecordFill(o) ==
  o \in Recorded => /\ orders[o].filled <= broker[orders[o].provider].filled
                    /\ orders[o].status = "FILLED" => Whole(orders[o].provider)

FInv == \A r \in Requests : OrderFill(r) /\ HoldFill(r) /\ RecordFill(r)

\* What a step leaves of the fills of the orders that exist.
FillsStay ==
  \A b \in Placed : /\ broker[b].filled <= broker'[b].filled
                    /\ Whole(b) => Whole(b)'

\* Nothing is filled at first.
LEMMA InitFill == Init => FInv
<1> SUFFICES ASSUME Init PROVE FInv
  OBVIOUS
<1>1. (\A r \in Requests : pc[r] = "idle") /\ Placed = {} /\ Recorded = {}
  BY DEF Init, Placed, Recorded, NotPlaced, NoOrder
<1> QED
  BY <1>1 DEF FInv, OrderFill, HoldFill, RecordFill, RefreshSteps

\* A recorded order names one the broker has, for the same candidate.
LEMMA ProviderPlaced ==
  ASSUME IInv, NEW o \in Recorded
  PROVE  /\ orders[o].provider \in Placed
         /\ orders[o].provider \in Requests
         /\ req[orders[o].provider].cand = req[o].cand
<1>1. /\ orders[o].provider \in Placed
      /\ broker[orders[o].provider].client = orders[o].client
      /\ orders[o].client # 0
      /\ orders[o].client = prep[req[o].cand].id
      /\ req[o].cand \in Candidates
  BY DEF IInv, OrderInv, Recorded, TypeOK
<1> QED
  BY <1>1, ClientTellsCandidate DEF Placed

\* What a request holds of an order that has not shrunk is still true.
LEMMA HoldFillKept ==
  ASSUME IInv, TypeOK', FInv, Stays, FillsStay, NEW q \in Requests,
         pc'[q] = pc[q], reply'[q] = reply[q]
  PROVE  HoldFill(q)'
<1>1. ASSUME pc[q] = "c_commit", reply[q].new.status = "FILLED"
      PROVE  Whole(reply[q].id)'
  <2>1. reply[q].id \in Placed /\ Whole(reply[q].id)
    BY <1>1 DEF IInv, HoldInv, FInv, HoldFill
  <2> QED
    BY <2>1 DEF FillsStay, Whole
<1>2. ASSUME pc[q] \in RefreshSteps
      PROVE  LET b == orders[reply[q].id].provider IN
             /\ orders'[reply[q].id].provider = b
             /\ req'[q].cand = req'[reply[q].id].cand
             /\ reply[q].new.filled <= broker'[b].filled
             /\ reply[q].old.status = "FILLED" => Whole(b)'
             /\ reply[q].new.status = "FILLED" => Whole(b)'
  <2> DEFINE o == reply[q].id
             b == orders[o].provider
  <2>1. /\ o \in Recorded /\ o \in Requests /\ pc[o] = "ok" /\ pc[q] # "idle"
        /\ b \in Placed /\ b \in Requests
    BY <1>2, ProviderPlaced DEF IInv, HoldInv, OrderInv, Recorded, RefreshSteps
  <2>2. orders'[o].provider = b /\ req'[o] = req[o] /\ req'[q] = req[q]
    BY <2>1 DEF Stays, RecordedStays, RequestsStay
  <2>3. reply[q].new.filled <= broker'[b].filled
    <3>1. /\ reply[q].new.filled \in Nat /\ broker[b].filled \in Nat
          /\ broker'[b].filled \in Nat
      BY <2>1 DEF IInv, TypeOK, View, BrokerOrder
    <3>2. /\ reply[q].new.filled <= broker[b].filled
          /\ broker[b].filled <= broker'[b].filled
      BY <1>2, <2>1 DEF FInv, HoldFill, FillsStay
    <3> QED
      BY <3>1, <3>2
  <2>4. /\ reply[q].old.status = "FILLED" => broker'[b].filled = broker'[b].qty
        /\ reply[q].new.status = "FILLED" => broker'[b].filled = broker'[b].qty
    BY <1>2, <2>1 DEF FInv, HoldFill, FillsStay, Whole
  <2>5. req[q].cand = req[o].cand
    BY <1>2 DEF FInv, HoldFill
  <2> QED
    BY <2>2, <2>3, <2>4, <2>5 DEF Whole
<1> QED
  BY <1>1, <1>2 DEF HoldFill

\* A step keeps the fills when no broker order shrinks, and what the request
\* that moved holds or writes is true.
LEMMA FillKept ==
  ASSUME IInv, TypeOK', FInv, Stays, FillsStay,
         \A q \in Requests : OrderFill(q)' /\ HoldFill(q)',
         \A o \in Requests : orders'[o] = orders[o] \/ RecordFill(o)'
  PROVE  FInv'
<1>1. ASSUME NEW o \in Requests, orders'[o] = orders[o], o \in Recorded'
      PROVE  RecordFill(o)'
  <2> DEFINE b == orders[o].provider
  <2>1. o \in Recorded /\ orders'[o].provider = b
    BY <1>1 DEF Recorded
  <2>2. b \in Placed /\ b \in Requests
    BY <2>1, ProviderPlaced
  <2>3. /\ orders[o].filled \in Nat /\ broker[b].filled \in Nat
        /\ broker'[b].filled \in Nat
    BY <2>2 DEF IInv, TypeOK, Order, BrokerOrder
  <2>4. orders[o].filled <= broker[b].filled /\ broker[b].filled <= broker'[b].filled
    BY <2>1, <2>2 DEF FInv, RecordFill, FillsStay
  <2>5. orders[o].filled <= broker'[b].filled
    BY <2>3, <2>4
  <2>6. orders[o].status = "FILLED" => broker'[b].filled = broker'[b].qty
    BY <2>1, <2>2 DEF FInv, RecordFill, FillsStay, Whole
  <2> QED
    BY <1>1, <2>1, <2>5, <2>6 DEF RecordFill, Whole
<1>2. \A o \in Requests : RecordFill(o)'
  BY <1>1 DEF RecordFill
<1> QED
  BY <1>2 DEF FInv

\* A step that leaves the broker alone.
LEMMA BrokerQuiet ==
  ASSUME IInv, FInv, broker' = broker
  PROVE  FillsStay /\ \A b \in Requests : OrderFill(b)'
<1>1. \A b \in Placed : broker[b].filled \in Nat
  BY DEF IInv, TypeOK, Placed, BrokerOrder
<1> QED
  BY <1>1 DEF FInv, OrderFill, FillsStay, Whole, Placed

\* A step of a request that then holds nothing of the broker.
LEMMA QuietFill ==
  ASSUME IInv, TypeOK', FInv, Stays, NEW r \in Requests, OthersStay(r),
         broker' = broker, orders' = orders,
         pc'[r] \notin {"c_commit", "f_ask", "f_commit"}
  PROVE  FInv'
<1>1. HoldFill(r)'
  BY DEF HoldFill, RefreshSteps
<1>2. FillsStay /\ \A b \in Requests : OrderFill(b)'
  BY BrokerQuiet
<1>3. \A q \in Requests : HoldFill(q)'
  BY <1>1, <1>2, HoldFillKept DEF OthersStay
<1> QED
  BY <1>2, <1>3, FillKept

\* The steps of prepare learn nothing from the broker.
LEMMA PrepareFill ==
  ASSUME IInv, FInv, NEW r \in Requests,
         \/ \E c \in Candidates, s \in Sessions : PrepareRecheck(r, c, s)
         \/ PrepareRead(r) \/ PrepareCommit(r) \/ PrepareConflict(r)
  PROVE  FInv'
<1>1. Stays /\ OthersStay(r) /\ TypeOK /\ TypeOK'
  BY PrepareStays, PrepareTypes DEF IInv
<1>2. broker' = broker /\ orders' = orders
  BY DEF PrepareRecheck, PrepareRead, PrepareCommit, PrepareConflict, db, world
<1>3. pc'[r] \in {"p_read", "p_commit", "ok", "failed"}
  BY <1>1 DEF PrepareRecheck, PrepareRead, PrepareCommit, PrepareConflict, Finish, Goto, TypeOK
<1> QED
  BY <1>1, <1>2, <1>3, QuietFill

\* A known order the broker answers with is reported filled only if it is.
LEMMA SubmitFill ==
  ASSUME IInv, FInv, NEW r \in Requests, ConfirmSubmit(r)
  PROVE  FInv'
<1>1. Stays /\ OthersStay(r) /\ TypeOK /\ TypeOK'
  BY ConfirmStays, ConfirmTypes DEF IInv
<1>2. /\ pc[r] = "c_submit" /\ pc'[r] = "c_commit" /\ orders' = orders
      /\ r \notin Placed
  BY <1>1, NotYetPlaced DEF ConfirmSubmit, Goto, TypeOK, db
<1>3. ASSUME NEW b \in Requests, NEW state \in RemoteState, Learn(r, b, state)
      PROVE  reply'[r].id = b /\ (reply'[r].new.status = "FILLED" => state = "filled")
  <2>1. PICK status \in MappedStatus(state) :
          reply' = [reply EXCEPT ![r] =
            [id |-> b, old |-> NoView, new |-> [status |-> status, filled |-> 0]]]
    BY <1>3 DEF Learn
  <2>2. status = "FILLED" => state = "filled"
    BY <2>1 DEF MappedStatus, RemoteState
  <2> QED
    BY <1>1, <2>1, <2>2 DEF TypeOK
<1>4. CASE /\ broker' = [broker EXCEPT ![r] =
                [client |-> ClientOrderId(r), qty |-> copy[r].qty,
                 filled |-> 0, state |-> "new"]]
           /\ Learn(r, r, "new")
  <2>1. /\ broker'[r].filled = 0 /\ broker'[r].state = "new"
        /\ broker'[r].qty = copy[r].qty /\ copy[r].qty \in Nat
        /\ \A b \in Requests : b # r => broker'[b] = broker[b]
    BY <1>1, <1>4 DEF TypeOK, PrepRow
  <2>2. OrderFill(r)'
    BY <2>1 DEF OrderFill
  <2>3. \A b \in Requests : OrderFill(b)'
    BY <2>1, <2>2 DEF FInv, OrderFill, Placed, Whole
  <2>4. \A b \in Placed : broker[b].filled \in Nat /\ broker'[b] = broker[b]
    BY <1>1, <1>2, <2>1 DEF TypeOK, Placed, BrokerOrder
  <2>5. FillsStay
    BY <2>4 DEF FillsStay, Whole
  <2>6. reply'[r].new.status # "FILLED"
    BY <1>3, <1>4 DEF RemoteState
  <2>7. HoldFill(r)'
    BY <1>2, <2>6 DEF HoldFill, RefreshSteps
  <2>8. \A q \in Requests : HoldFill(q)'
    BY <1>1, <2>5, <2>7, HoldFillKept DEF OthersStay
  <2> QED
    BY <1>1, <1>2, <2>3, <2>5, <2>8, FillKept
<1>5. CASE UNCHANGED broker /\ \E b \in Placed : Learn(r, b, broker[b].state)
  <2>1. PICK b \in Placed : Learn(r, b, broker[b].state)
    BY <1>5
  <2>2. b \in Requests /\ broker[b].state \in RemoteState
    BY <1>1 DEF Placed, TypeOK, BrokerOrder
  <2>3. reply'[r].id = b /\ (reply'[r].new.status = "FILLED" => Whole(b))
    BY <1>3, <2>1, <2>2 DEF FInv, OrderFill
  <2>4. HoldFill(r)'
    BY <1>2, <1>5, <2>3 DEF HoldFill, RefreshSteps, Whole
  <2>5. FillsStay /\ \A p \in Requests : OrderFill(p)'
    BY <1>5, BrokerQuiet
  <2>6. \A q \in Requests : HoldFill(q)'
    BY <1>1, <2>4, <2>5, HoldFillKept DEF OthersStay
  <2> QED
    BY <1>1, <1>2, <2>5, <2>6, FillKept
<1> QED
  BY <1>4, <1>5 DEF ConfirmSubmit

\* The steps of confirm: it records what the broker answered.
LEMMA ConfirmFill ==
  ASSUME IInv, FInv, NEW r \in Requests,
         \/ \E c \in Candidates, t \in Issued, s \in Sessions : ConfirmRead(r, c, t, s)
         \/ ConfirmExpire(r) \/ ConfirmRecheck(r) \/ ConfirmReserve(r)
         \/ ConfirmSubmit(r) \/ ConfirmCommit(r) \/ ConfirmConflict(r)
  PROVE  FInv'
<1>1. Stays /\ OthersStay(r) /\ TypeOK /\ TypeOK'
  BY ConfirmStays, ConfirmTypes DEF IInv
<1>2. ASSUME NEW c \in Candidates, NEW t \in Issued, NEW s \in Sessions,
             ConfirmRead(r, c, t, s)
      PROVE  FInv'
  <2>1. /\ broker' = broker /\ orders' = orders
        /\ pc'[r] \in {"c_expire", "c_recheck"}
    BY <1>1, <1>2 DEF ConfirmRead, Goto, TypeOK, db, world
  <2> QED
    BY <1>1, <2>1, QuietFill
<1>3. CASE ConfirmExpire(r) \/ ConfirmRecheck(r) \/ ConfirmReserve(r) \/ ConfirmConflict(r)
  <2>1. broker' = broker /\ orders' = orders
    BY <1>3 DEF ConfirmExpire, ConfirmRecheck, ConfirmReserve, ConfirmConflict, db, world
  <2>2. pc'[r] \in {"c_reserve", "c_submit", "failed"}
    BY <1>1, <1>3 DEF ConfirmExpire, ConfirmRecheck, ConfirmReserve, ConfirmConflict,
       Finish, Goto, TypeOK
  <2> QED
    BY <1>1, <2>1, <2>2, QuietFill
<1>4. CASE ConfirmCommit(r)
  <2> DEFINE b == reply[r].id
  <2>1. /\ pc[r] = "c_commit" /\ pc'[r] = "ok" /\ broker' = broker
        /\ b \in Placed /\ b \in Requests
    BY <1>1, <1>4 DEF ConfirmCommit, Finish, Goto, TypeOK, world, IInv, HoldInv, Placed
  <2>2. /\ orders'[r].provider = b /\ orders'[r].filled = 0
        /\ orders'[r].status = reply[r].new.status
        /\ \A o \in Requests : o # r => orders'[o] = orders[o]
    BY <1>1, <1>4 DEF ConfirmCommit, TypeOK
  <2>3. broker[b].filled \in Nat /\ (reply[r].new.status = "FILLED" => Whole(b))
    BY <1>1, <2>1 DEF TypeOK, BrokerOrder, FInv, HoldFill
  <2>4. RecordFill(r)'
    BY <2>1, <2>2, <2>3 DEF RecordFill, Whole
  <2>5. FillsStay /\ \A p \in Requests : OrderFill(p)'
    BY <2>1, BrokerQuiet
  <2>6. HoldFill(r)'
    BY <2>1 DEF HoldFill, RefreshSteps
  <2>7. \A q \in Requests : HoldFill(q)'
    BY <1>1, <2>5, <2>6, HoldFillKept DEF OthersStay
  <2> QED
    BY <1>1, <2>2, <2>4, <2>5, <2>7, FillKept
<1> QED
  BY <1>2, <1>3, <1>4, SubmitFill

\* A refresh reads what is recorded, asks the broker, and writes either; FILLED
\* it makes of an order filled to the quantity of its preparation.
LEMMA RefreshFill ==
  ASSUME IInv, QInv, FInv, NEW r \in Requests,
         \/ \E o \in Requests : RefreshRead(r, o)
         \/ RefreshAsk(r) \/ RefreshCommit(r) \/ Refuse(r) \/ Crash(r)
  PROVE  FInv'
<1>1. Stays /\ OthersStay(r) /\ TypeOK /\ TypeOK'
  <2>1. pc[r] = "f_ask" => orders[reply[r].id].provider \in Placed
    BY DEF IInv, HoldInv, RefreshSteps, OrderInv, Recorded
  <2> QED
    BY <2>1, RefreshStays, RefreshTypes DEF IInv
<1>2. broker' = broker
  BY DEF RefreshRead, RefreshAsk, RefreshCommit, Refuse, Crash, Rollback, world
<1>3. FillsStay /\ \A b \in Requests : OrderFill(b)'
  BY <1>2, BrokerQuiet
<1>4. ASSUME HoldFill(r)', orders' = orders PROVE FInv'
  <2>1. \A q \in Requests : HoldFill(q)'
    BY <1>1, <1>3, <1>4, HoldFillKept DEF OthersStay
  <2> QED
    BY <1>1, <1>3, <1>4, <2>1, FillKept
<1>5. ASSUME NEW o \in Requests, RefreshRead(r, o)
      PROVE  FInv'
  <2> DEFINE b == orders[o].provider
  <2>1. /\ pc[r] = "idle" /\ o \in Recorded /\ o # r /\ orders' = orders
        /\ pc'[r] = "f_ask" /\ req'[r].cand = req[o].cand /\ req'[o] = req[o]
    BY <1>1, <1>5 DEF RefreshRead, Arrives, Goto, TypeOK, db, IInv, OrderInv,
       Requested, NoRequest
  <2>2. /\ reply'[r].id = o
        /\ reply'[r].old.status = orders[o].status
        /\ reply'[r].new.status = orders[o].status
        /\ reply'[r].new.filled = orders[o].filled
    BY <1>1, <1>5 DEF RefreshRead, TypeOK
  <2>3. /\ orders[o].filled <= broker[b].filled
        /\ orders[o].status = "FILLED" => Whole(b)
    BY <2>1 DEF FInv, RecordFill
  <2>4. HoldFill(r)'
    BY <1>2, <2>1, <2>2, <2>3 DEF HoldFill, RefreshSteps, Whole
  <2> QED
    BY <1>4, <2>1, <2>4
<1>6. CASE RefreshAsk(r)
  <2> DEFINE o == reply[r].id
             b == orders[o].provider
             new == RefreshedStatus(reply[r].old.status, broker[b], copy[r].qty)
  <2>1. /\ pc[r] = "f_ask" /\ pc'[r] = "f_commit" /\ orders' = orders /\ req' = req
        /\ o \in Recorded
    BY <1>1, <1>6 DEF RefreshAsk, Goto, TypeOK, db, IInv, HoldInv, RefreshSteps
  <2>2. /\ b \in Placed /\ b \in Requests /\ req[b].cand = req[o].cand
        /\ req[r].cand = req[o].cand
        /\ reply[r].new.filled <= broker[b].filled
        /\ reply[r].old.status = "FILLED" => Whole(b)
        /\ reply[r].new.status = "FILLED" => Whole(b)
    BY <2>1, ProviderPlaced DEF FInv, HoldFill, RefreshSteps
  <2>3. copy[r].qty = broker[b].qty
    BY <2>1, <2>2 DEF QInv, HoldQuantity, QuantitySteps, OrderQuantity
  <2>4. /\ broker[b].filled \in Nat /\ broker[b].qty \in Nat
        /\ broker[b].filled <= broker[b].qty
    BY <1>1, <2>2 DEF TypeOK, BrokerOrder, FInv, OrderFill
  <2>5. new = "FILLED" => Whole(b)
    <3>1. FillStatus(broker[b], copy[r].qty) = "FILLED" => broker[b].filled >= broker[b].qty
      BY <2>3 DEF FillStatus
    <3>2. FillStatus(broker[b], copy[r].qty) = "FILLED" => Whole(b)
      BY <2>4, <3>1 DEF Whole
    <3> QED
      BY <2>2, <3>2 DEF RefreshedStatus
  <2>6. CASE UNCHANGED reply
    <3>1. HoldFill(r)'
      BY <1>2, <2>1, <2>2, <2>6 DEF HoldFill, RefreshSteps, Whole
    <3> QED
      BY <1>4, <2>1, <3>1
  <2>7. CASE reply' = [reply EXCEPT ![r].new = [status |-> new, filled |-> broker[b].filled]]
    <3> HIDE DEF new
    <3>1. /\ reply'[r].id = o /\ reply'[r].old = reply[r].old
          /\ reply'[r].new.status = new /\ reply'[r].new.filled = broker[b].filled
      BY <1>1, <2>7 DEF TypeOK
    <3>2. reply'[r].new.filled <= broker'[b].filled
      BY <1>2, <2>4, <3>1
    <3>3. HoldFill(r)'
      BY <1>2, <2>1, <2>2, <2>5, <3>1, <3>2 DEF HoldFill, RefreshSteps, Whole
    <3> QED
      BY <1>4, <2>1, <3>3
  <2> QED
    BY <1>6, <2>6, <2>7 DEF RefreshAsk
<1>7. CASE RefreshCommit(r)
  <2>0. PICK o \in Recorded : o = reply[r].id
    BY <1>7 DEF RefreshCommit, IInv, HoldInv, RefreshSteps
  <2> DEFINE b == orders[o].provider
  <2>1. /\ pc[r] = "f_commit" /\ pc'[r] = "ok" /\ o \in Requests
    BY <1>1, <1>7 DEF RefreshCommit, Finish, Goto, TypeOK, Recorded
  <2>2. /\ orders'[o].provider = b
        /\ orders'[o].status \in {orders[o].status, reply[r].new.status}
        /\ orders'[o].filled \in {orders[o].filled, reply[r].new.filled}
        /\ \A p \in Requests : p # o => orders'[p] = orders[p]
    BY <1>1, <1>7, <2>0, <2>1 DEF RefreshCommit, TypeOK, Order, Merge
  <2>3. /\ orders[o].filled <= broker[b].filled
        /\ orders[o].status = "FILLED" => Whole(b)
        /\ reply[r].new.filled <= broker[b].filled
        /\ reply[r].new.status = "FILLED" => Whole(b)
    BY <2>0, <2>1 DEF FInv, HoldFill, RecordFill, RefreshSteps
  <2>4. RecordFill(o)'
    BY <1>2, <2>2, <2>3 DEF RecordFill, Whole
  <2>5. HoldFill(r)'
    BY <2>1 DEF HoldFill, RefreshSteps
  <2>6. \A q \in Requests : HoldFill(q)'
    BY <1>1, <1>3, <2>5, HoldFillKept DEF OthersStay
  <2> QED
    BY <1>1, <1>3, <2>2, <2>4, <2>6, FillKept
<1>8. CASE Rollback(r)
  <2>1. orders' = orders /\ pc'[r] = "failed"
    BY <1>1, <1>8 DEF Rollback, Finish, Goto, TypeOK
  <2> QED
    BY <1>1, <1>2, <2>1, QuietFill
<1> QED
  BY <1>5, <1>6, <1>7, <1>8 DEF Refuse, Crash

\* The broker fills an order at most to its quantity, and closes none that it
\* filled.
LEMMA WorldFill ==
  ASSUME IInv, FInv,
         \/ Tick
         \/ \E b \in Requests, q \in 1..Held : BrokerFill(b, q)
         \/ \E b \in Requests, state \in RemoteState : BrokerClose(b, state)
  PROVE  FInv'
<1>1. /\ Stays /\ UNCHANGED <<db, request>> /\ Placed' = Placed
      /\ TypeOK /\ TypeOK'
  BY WorldStays, WorldTypes DEF IInv
<1>2. FillsStay /\ \A p \in Requests : OrderFill(p)'
  <2>1. CASE Tick
    BY <2>1, BrokerQuiet DEF Tick
  <2>2. ASSUME NEW b \in Requests, NEW q \in 1..Held, BrokerFill(b, q)
        PROVE  FillsStay /\ \A p \in Requests : OrderFill(p)'
    <3> DEFINE state == IF broker[b].filled + q = broker[b].qty THEN "filled"
                        ELSE "partially_filled"
    <3>1. broker[b] \in BrokerOrder
      BY <1>1 DEF TypeOK
    <3>2. broker' = [broker EXCEPT ![b] = [broker[b] EXCEPT !.filled = @ + q, !.state = state]]
      BY <1>1, <2>2 DEF BrokerFill, TypeOK
    <3>3. broker'[b] = [broker[b] EXCEPT !.filled = @ + q, !.state = state]
      BY <1>1, <3>2 DEF TypeOK
    <3>4. /\ broker'[b].filled = broker[b].filled + q
          /\ broker'[b].qty = broker[b].qty
          /\ broker'[b].state = state
      BY <3>1, <3>3 DEF BrokerOrder
    <3>5. broker[b].filled \in Nat /\ broker[b].qty \in Nat /\ q \in Nat /\ q > 0
      BY <3>1, ConstantsAssumption DEF BrokerOrder
    <3>6. broker[b].filled + q <= broker[b].qty
      BY <2>2 DEF BrokerFill
    <3>7. /\ broker[b].filled <= broker'[b].filled
          /\ broker'[b].filled <= broker'[b].qty
          /\ state = "filled" => broker'[b].filled = broker'[b].qty
          /\ broker[b].filled # broker[b].qty
      BY <3>4, <3>5, <3>6
    <3>8. \A p \in Requests : p # b => broker'[p] = broker[p]
      BY <1>1, <3>2 DEF TypeOK
    <3>9. \A p \in Placed : broker[p].filled \in Nat
      BY <1>1 DEF TypeOK, Placed, BrokerOrder
    <3>10. FillsStay
      BY <3>7, <3>8, <3>9 DEF FillsStay, Whole, Placed
    <3>11. OrderFill(b)'
      BY <3>4, <3>7 DEF OrderFill, Whole
    <3>12. \A p \in Requests : OrderFill(p)'
      BY <3>8, <3>11 DEF FInv, OrderFill, Whole, Placed
    <3> QED
      BY <3>10, <3>12
  <2>3. ASSUME NEW b \in Requests, NEW state \in RemoteState, BrokerClose(b, state)
        PROVE  FillsStay /\ \A p \in Requests : OrderFill(p)'
    <3>1. broker[b] \in BrokerOrder
      BY <1>1 DEF TypeOK
    <3>2. broker' = [broker EXCEPT ![b] = [broker[b] EXCEPT !.state = state]]
      BY <2>3 DEF BrokerClose
    <3>3. broker'[b] = [broker[b] EXCEPT !.state = state]
      BY <1>1, <3>2 DEF TypeOK
    <3>4. /\ broker'[b].filled = broker[b].filled /\ broker'[b].qty = broker[b].qty
          /\ broker'[b].state = state /\ state # "filled"
      BY <2>3, <3>1, <3>3 DEF BrokerOrder, BrokerClose
    <3>5. \A p \in Requests : p # b => broker'[p] = broker[p]
      BY <1>1, <3>2 DEF TypeOK
    <3>6. \A p \in Requests : broker[p].filled \in Nat
      BY <1>1 DEF TypeOK, BrokerOrder
    <3>7. \A p \in Requests : /\ broker'[p].filled = broker[p].filled
                              /\ broker'[p].qty = broker[p].qty
                              /\ broker'[p].state = "filled" => broker[p].state = "filled"
      BY <3>4, <3>5
    <3>8. FillsStay
      BY <3>6, <3>7 DEF FillsStay, Whole, Placed
    <3>9. \A p \in Requests : OrderFill(p)'
      BY <1>1, <3>7 DEF FInv, OrderFill, Whole
    <3> QED
      BY <3>8, <3>9
  <2> QED
    BY <2>1, <2>2, <2>3
<1>3. \A q \in Requests : HoldFill(q)'
  BY <1>1, <1>2, HoldFillKept DEF request
<1>4. orders' = orders
  BY <1>1 DEF db
<1> QED
  BY <1>1, <1>2, <1>3, <1>4, FillKept

\* The three invariants are inductive together.
LEMMA FillsStep == IInv /\ QInv /\ FInv /\ [Next]_vars => QInv' /\ FInv'
<1> SUFFICES ASSUME IInv, QInv, FInv, [Next]_vars PROVE QInv' /\ FInv'
  OBVIOUS
<1>1. CASE UNCHANGED vars
  <2>1. QInv'
    BY <1>1 DEF vars, db, world, request, QInv, OwnEvaluations, RowQuantity, ClockIsStill,
       HoldQuantity, OrderQuantity, Placed
  <2>2. FInv'
    BY <1>1 DEF vars, db, world, request, FInv, OrderFill, HoldFill, RecordFill, Placed,
       Recorded, Whole
  <2> QED
    BY <2>1, <2>2
<1>2. CASE \E r \in Requests, c \in Candidates, s \in Sessions : PrepareRecheck(r, c, s)
  BY <1>2, PrepareQuantity, PrepareFill
<1>3. CASE \E r \in Requests, c \in Candidates, t \in Issued, s \in Sessions :
             ConfirmRead(r, c, t, s)
  BY <1>3, ConfirmQuantity, ConfirmFill
<1>4. CASE \E r, o \in Requests : RefreshRead(r, o)
  BY <1>4, RefreshQuantity, RefreshFill
<1>5. CASE \E r \in Requests : Proceed(r) \/ Refuse(r) \/ Crash(r)
  BY <1>5, PrepareQuantity, PrepareFill, ConfirmQuantity, ConfirmFill, RefreshQuantity,
     RefreshFill DEF Proceed
<1>6. CASE \/ Tick
           \/ \E b \in Requests, q \in 1..Held : BrokerFill(b, q)
           \/ \E b \in Requests, state \in RemoteState : BrokerClose(b, state)
  BY <1>6, WorldQuantity, WorldFill
<1> QED
  BY <1>1, <1>2, <1>3, <1>4, <1>5, <1>6 DEF Next, Idle

\* Every reachable state satisfies them.
LEMMA FillsInvariant == Spec => [](IInv /\ QInv /\ FInv)
BY InitInv, InitQuantity, InitFill, StepInv, FillsStep, PTL DEF Spec

\* What the books say was filled was filled, and FILLED means the whole order,
\* however the answers of refreshes cross and whichever columns they write.
THEOREM FillsAreReal == Spec => []FillNotOverstated
<1>1. ASSUME FInv PROVE FillNotOverstated
  BY <1>1 DEF FInv, RecordFill, FillNotOverstated, Recorded, Whole
<1> QED
  BY <1>1, FillsInvariant, PTL

---------------------------------------------------------------------------
(* Lots.  One request at a time records every order before the next one    *)
(* looks, so the gate that reads the recorded orders of a lot sees every   *)
(* order of it that may still fill.  Two requests in flight, a crash       *)
(* between the submission and the commit, or a cancel that is only asked   *)
(* for, which is recorded as CANCELLED, each break it.                     *)

OneAtATime ==
  MaxInFlight <= 1 /\ Crashes = FALSE /\ "pending_cancel" \notin BrokerStates

Working == Open \cup {"filled"}
Closed == {"canceled", "expired", "rejected"}

\* A placed order is recorded, or is about to be.
Known(b) ==
  b \in Placed => \/ \E o \in Recorded : orders[o].provider = b
                  \/ pc[b] = "c_commit" /\ reply[b].id = b

\* What a request says is not live is closed; it submits only for a free lot.
HoldClosed(r) ==
  /\ pc[r] = "c_commit" /\ reply[r].new.status \notin LiveOrder =>
       broker[reply[r].id].state \in Closed
  /\ pc[r] \in RefreshSteps =>
       /\ reply[r].old.status \notin LiveOrder =>
            broker[orders[reply[r].id].provider].state \in Closed
       /\ reply[r].new.status \notin LiveOrder =>
            broker[orders[reply[r].id].provider].state \in Closed
  /\ pc[r] \in {"c_reserve", "c_submit"} => ~PreviouslyExecuted(LotOf[req[r].cand])

RecordClosed(o) ==
  o \in Recorded /\ orders[o].status \notin LiveOrder =>
    broker[orders[o].provider].state \in Closed

SInv ==
  /\ \A r, s \in InFlight : r = s
  /\ \A b \in Requests : broker[b].state # "pending_cancel"
  /\ \A r \in Requests : Known(r) /\ HoldClosed(r) /\ RecordClosed(r)
  /\ LotSoldOnce

\* A closed order stays closed, and none comes back to work.
OrdersMove ==
  \A b \in Placed : /\ broker[b].state \in Closed => broker'[b].state \in Closed
                    /\ broker'[b].state \in Working => broker[b].state \in Working
                    /\ broker'[b].state # "pending_cancel"

\* Nothing is sold at first.
LEMMA InitSold == Init => SInv
<1> SUFFICES ASSUME Init PROVE SInv
  OBVIOUS
<1>1. /\ \A r \in Requests : pc[r] = "idle" /\ broker[r].state = "absent"
      /\ Placed = {} /\ Recorded = {}
  BY DEF Init, Placed, Recorded, NotPlaced, NoOrder
<1>2. InFlight = {}
  BY <1>1 DEF InFlight, Steps
<1> QED
  BY <1>1, <1>2 DEF SInv, Known, HoldClosed, RecordClosed, RefreshSteps, LotSoldOnce

\* While a request is served, no other one is.
LEMMA ServedAlone ==
  ASSUME OneAtATime, SInv, NEW r \in Requests, pc[r] \in Steps \/ Arrives(r)
  PROVE  \A q \in Requests \ {r} : pc[q] \notin Steps
<1>1. CASE pc[r] \in Steps
  BY <1>1 DEF SInv, InFlight
<1>2. CASE Arrives(r)
  <2>1. IsFiniteSet(InFlight)
    <3>1. IsFiniteSet(Requests)
      BY ConstantsAssumption, FS_Interval DEF Requests
    <3> QED
      BY <3>1, FS_Subset DEF InFlight
  <2>2. Cardinality(InFlight) \in Nat
    BY <2>1, FS_CardinalityType
  <2>3. Cardinality(InFlight) = 0
    BY <1>2, <2>2, ConstantsAssumption DEF Arrives, OneAtATime
  <2>4. InFlight = {}
    BY <2>1, <2>3, FS_EmptySet
  <2> QED
    BY <2>4 DEF InFlight
<1> QED
  BY <1>1, <1>2

\* A step keeps the lots when no order comes back to work, and the one it
\* places finds no other of its lot at work.
LEMMA SoldKept ==
  ASSUME IInv, SInv, Stays, OrdersMove, NEW r \in Requests, OthersStay(r),
         \A q \in Requests \ {r} : pc[q] \notin Steps,
         Placed' \subseteq Placed \cup {r},
         r \in Placed' /\ r \notin Placed =>
           /\ broker'[r].state # "pending_cancel"
           /\ \A b \in Placed : LotOf[req[b].cand] = LotOf[req'[r].cand] =>
                                  broker[b].state \notin Working,
         Known(r)', HoldClosed(r)',
         \A o \in Requests : orders'[o] = orders[o] \/ RecordClosed(o)'
  PROVE  SInv'
<1>1. \A q, s \in InFlight' : q = s
  BY DEF InFlight, OthersStay
<1>2. \A b \in Requests : broker'[b].state # "pending_cancel"
  BY DEF OrdersMove, Placed
<1>3. ASSUME NEW b \in Requests \ {r} PROVE Known(b)'
  <2>1. CASE b \notin Placed
    BY <2>1 DEF Known
  <2>2. CASE b \in Placed
    <3>1. PICK o \in Recorded : orders[o].provider = b
      BY <2>2 DEF SInv, Known, Steps
    <3>2. o \in Recorded' /\ orders'[o].provider = b
      BY <3>1 DEF Stays, RecordedStays, Recorded
    <3> QED
      BY <3>2 DEF Known
  <2> QED
    BY <2>1, <2>2
<1>4. ASSUME NEW q \in Requests \ {r} PROVE HoldClosed(q)'
  BY DEF OthersStay, HoldClosed, Steps, RefreshSteps
<1>5. ASSUME NEW o \in Requests PROVE RecordClosed(o)'
  <2>1. CASE orders'[o] = orders[o] /\ o \in Recorded
    <3>1. orders[o].provider \in Placed
      BY <2>1, ProviderPlaced
    <3> QED
      BY <2>1, <3>1 DEF SInv, RecordClosed, OrdersMove
  <2>2. CASE orders'[o] = orders[o] /\ o \notin Recorded
    BY <2>2 DEF RecordClosed, Recorded
  <2> QED
    BY <2>1, <2>2
<1>6. LotSoldOnce'
  <2>1. \A b \in Placed : b \in Requests /\ req'[b] = req[b]
    BY DEF IInv, BrokerInv, Placed, Stays, RequestsStay
  <2>2. ASSUME NEW a \in Placed', NEW b \in Placed',
               LotOf[req'[a].cand] = LotOf[req'[b].cand],
               broker'[a].state \in Working, broker'[b].state \in Working
        PROVE  a = b
    <3>1. CASE a \in Placed /\ b \in Placed
      BY <2>1, <2>2, <3>1 DEF SInv, LotSoldOnce, OrdersMove, Working
    <3>2. CASE a \in Placed /\ b \notin Placed
      BY <2>1, <2>2, <3>2 DEF OrdersMove
    <3>3. CASE a \notin Placed /\ b \in Placed
      BY <2>1, <2>2, <3>3 DEF OrdersMove
    <3> QED
      BY <3>1, <3>2, <3>3
  <2> QED
    BY <2>2 DEF LotSoldOnce, Working
<1> QED
  BY <1>1, <1>2, <1>3, <1>4, <1>5, <1>6 DEF SInv

\* A step that leaves the broker alone.
LEMMA BrokerStill ==
  ASSUME SInv, broker' = broker
  PROVE  OrdersMove /\ Placed' = Placed
BY DEF SInv, OrdersMove, Placed

\* A step of a request that placed nothing and then holds nothing.
LEMMA QuietSold ==
  ASSUME OneAtATime, IInv, SInv, Stays, NEW r \in Requests, OthersStay(r),
         pc[r] \in Steps \/ Arrives(r), pc[r] \notin {"c_commit", "ok", "failed"},
         broker' = broker, orders' = orders,
         pc'[r] \notin {"c_reserve", "c_submit", "c_commit", "f_ask", "f_commit"}
  PROVE  SInv'
<1>1. \A q \in Requests \ {r} : pc[q] \notin Steps
  BY ServedAlone
<1>2. OrdersMove /\ Placed' = Placed /\ r \notin Placed
  BY BrokerStill, NotYetPlaced
<1>3. Known(r)' /\ HoldClosed(r)'
  BY <1>2 DEF Known, HoldClosed, RefreshSteps
<1> QED
  BY <1>1, <1>2, <1>3, SoldKept

\* The steps of prepare sell nothing.
LEMMA PrepareSold ==
  ASSUME OneAtATime, IInv, SInv, NEW r \in Requests,
         \/ \E c \in Candidates, s \in Sessions : PrepareRecheck(r, c, s)
         \/ PrepareRead(r) \/ PrepareCommit(r) \/ PrepareConflict(r)
  PROVE  SInv'
<1>1. Stays /\ OthersStay(r) /\ TypeOK
  BY PrepareStays DEF IInv
<1>2. broker' = broker /\ orders' = orders
  BY DEF PrepareRecheck, PrepareRead, PrepareCommit, PrepareConflict, db, world
<1>3. pc'[r] \in {"p_read", "p_commit", "ok", "failed"}
  BY <1>1 DEF PrepareRecheck, PrepareRead, PrepareCommit, PrepareConflict, Finish, Goto, TypeOK
<1>4. /\ pc[r] \in Steps \/ Arrives(r)
      /\ pc[r] \in {"idle", "p_read", "p_commit"}
  BY DEF PrepareRecheck, PrepareRead, PrepareCommit, PrepareConflict, Steps, Arrives
<1> QED
  BY <1>1, <1>2, <1>3, <1>4, QuietSold

\* A submission is for a lot no recorded order holds, so every placed order of
\* the lot is recorded as closed, and is.
LEMMA SubmitSold ==
  ASSUME OneAtATime, IInv, SInv, NEW r \in Requests, ConfirmSubmit(r)
  PROVE  SInv'
<1>1. Stays /\ OthersStay(r) /\ TypeOK
  BY ConfirmStays DEF IInv
<1>2. /\ pc[r] = "c_submit" /\ pc'[r] = "c_commit" /\ orders' = orders /\ req' = req
      /\ r \notin Placed
  BY <1>1, NotYetPlaced DEF ConfirmSubmit, Goto, TypeOK, db
<1>3. \A q \in Requests \ {r} : pc[q] \notin Steps
  BY <1>2, ServedAlone DEF Steps
<1>4. ASSUME NEW b \in Requests, NEW state \in RemoteState, Learn(r, b, state)
      PROVE  /\ reply'[r].id = b
             /\ reply'[r].new.status \notin LiveOrder => state \in Closed \cup {"pending_cancel"}
  <2>1. PICK status \in MappedStatus(state) :
          reply' = [reply EXCEPT ![r] =
            [id |-> b, old |-> NoView, new |-> [status |-> status, filled |-> 0]]]
    BY <1>4 DEF Learn
  <2>2. status \notin LiveOrder => state \in Closed \cup {"pending_cancel"}
    BY <2>1 DEF MappedStatus, RemoteState, LiveOrder, Closed
  <2> QED
    BY <1>1, <2>1, <2>2 DEF TypeOK
<1>5. CASE /\ broker' = [broker EXCEPT ![r] =
                [client |-> ClientOrderId(r), qty |-> copy[r].qty,
                 filled |-> 0, state |-> "new"]]
           /\ Learn(r, r, "new")
  <2>1. /\ broker'[r].state = "new"
        /\ \A b \in Requests : b # r => broker'[b] = broker[b]
    BY <1>1, <1>5 DEF TypeOK
  <2>2. Placed' \subseteq Placed \cup {r} /\ OrdersMove
    BY <1>2, <2>1 DEF Placed, OrdersMove, SInv
  <2>3. reply'[r].id = r /\ reply'[r].new.status \in LiveOrder
    BY <1>4, <1>5 DEF RemoteState, Closed
  <2>4. Known(r)' /\ HoldClosed(r)'
    BY <1>2, <2>3 DEF Known, HoldClosed, RefreshSteps
  <2>5. ASSUME NEW b \in Placed, LotOf[req[b].cand] = LotOf[req[r].cand]
        PROVE  broker[b].state \notin Working
    <3>1. b \in Requests /\ b # r
      BY <1>2 DEF Placed
    <3>2. PICK o \in Recorded : orders[o].provider = b
      BY <1>3, <3>1 DEF SInv, Known, Steps
    <3>3. req[b].cand = req[o].cand /\ o \in Requests
      BY <3>2, ProviderPlaced DEF Recorded
    <3>4. orders[o].status \notin LiveOrder
      BY <1>2, <2>5, <3>2, <3>3 DEF SInv, HoldClosed, PreviouslyExecuted
    <3>5. broker[b].state \in Closed
      BY <3>2, <3>3, <3>4 DEF SInv, RecordClosed
    <3> QED
      BY <3>5 DEF Closed, Working, Open
  <2> QED
    BY <1>1, <1>2, <1>3, <2>1, <2>2, <2>4, <2>5, SoldKept
<1>6. CASE UNCHANGED broker /\ \E b \in Placed : Learn(r, b, broker[b].state)
  <2>1. PICK b \in Placed : Learn(r, b, broker[b].state)
    BY <1>6
  <2>2. /\ b \in Requests /\ broker[b].state \in RemoteState
        /\ broker[b].state # "pending_cancel"
    BY <1>1 DEF Placed, TypeOK, BrokerOrder, SInv
  <2>3. /\ reply'[r].id = b
        /\ reply'[r].new.status \notin LiveOrder => broker[b].state \in Closed
    BY <1>4, <2>1, <2>2
  <2>4. OrdersMove /\ Placed' = Placed
    BY <1>6, BrokerStill
  <2>5. Known(r)' /\ HoldClosed(r)'
    BY <1>2, <1>6, <2>3, <2>4 DEF Known, HoldClosed, RefreshSteps
  <2> QED
    BY <1>1, <1>2, <1>3, <2>4, <2>5, SoldKept
<1> QED
  BY <1>5, <1>6 DEF ConfirmSubmit

\* The steps of confirm: the gates are passed before the row is reserved, and
\* the order is recorded, or was.
LEMMA ConfirmSold ==
  ASSUME OneAtATime, IInv, SInv, NEW r \in Requests,
         \/ \E c \in Candidates, t \in Issued, s \in Sessions : ConfirmRead(r, c, t, s)
         \/ ConfirmExpire(r) \/ ConfirmRecheck(r) \/ ConfirmReserve(r)
         \/ ConfirmSubmit(r) \/ ConfirmCommit(r) \/ ConfirmConflict(r)
  PROVE  SInv'
<1>1. Stays /\ OthersStay(r) /\ TypeOK /\ HoldInv(r) /\ HoldClosed(r) /\ Known(r)
  BY ConfirmStays DEF IInv, SInv
<1>2. CASE \/ \E c \in Candidates, t \in Issued, s \in Sessions : ConfirmRead(r, c, t, s)
           \/ ConfirmExpire(r)
  <2>1. broker' = broker /\ orders' = orders
    BY <1>2 DEF ConfirmRead, ConfirmExpire, db, world
  <2>2. pc'[r] \in {"c_expire", "c_recheck", "failed"}
    BY <1>1, <1>2 DEF ConfirmRead, ConfirmExpire, Finish, Goto, TypeOK
  <2>3. (pc[r] \in Steps \/ Arrives(r)) /\ pc[r] \in {"idle", "c_expire"}
    BY <1>2 DEF ConfirmRead, ConfirmExpire, Steps, Arrives
  <2> QED
    BY <1>1, <2>1, <2>2, <2>3, QuietSold
<1>3. CASE ConfirmRecheck(r) \/ ConfirmReserve(r)
  <2>1. /\ pc[r] \in {"c_recheck", "c_reserve"} /\ pc'[r] \in {"c_reserve", "c_submit"}
        /\ UNCHANGED <<broker, orders, req>>
    BY <1>1, <1>3 DEF ConfirmRecheck, ConfirmReserve, Goto, TypeOK, db, world
  <2>2. ~PreviouslyExecuted(LotOf[req[r].cand])
    BY <1>1, <1>3 DEF ConfirmRecheck, ConfirmReserve, Passes, HoldClosed
  <2>3. HoldClosed(r)'
    BY <2>1, <2>2 DEF HoldClosed, RefreshSteps, PreviouslyExecuted, Recorded
  <2>4. OrdersMove /\ Placed' = Placed /\ r \notin Placed
    BY <2>1, BrokerStill, NotYetPlaced
  <2>5. Known(r)'
    BY <2>4 DEF Known
  <2>6. \A q \in Requests \ {r} : pc[q] \notin Steps
    BY <2>1, ServedAlone DEF Steps
  <2> QED
    BY <1>1, <2>1, <2>3, <2>4, <2>5, <2>6, SoldKept
<1>4. CASE ConfirmCommit(r)
  <2> DEFINE b == reply[r].id
  <2>1. /\ pc[r] = "c_commit" /\ pc'[r] = "ok" /\ broker' = broker
    BY <1>1, <1>4 DEF ConfirmCommit, Finish, Goto, TypeOK, world
  <2>2. /\ orders'[r].provider = b /\ orders'[r].status = reply[r].new.status
        /\ \A o \in Requests : o # r => orders'[o] = orders[o]
    BY <1>1, <1>4 DEF ConfirmCommit, TypeOK
  <2>3. RecordClosed(r)'
    BY <1>1, <2>1, <2>2 DEF HoldClosed, RecordClosed
  <2>4. OrdersMove /\ Placed' = Placed
    BY <2>1, BrokerStill
  <2>5. Known(r)'
    <3>1. CASE \E o \in Recorded : orders[o].provider = r
      <4>1. PICK o \in Recorded : orders[o].provider = r
        BY <3>1
      <4>2. o \in Recorded' /\ orders'[o].provider = r
        BY <1>1, <4>1 DEF Stays, RecordedStays, Recorded
      <4> QED
        BY <4>2 DEF Known
    <3>2. CASE r \in Placed /\ b = r
      <4>1. r \in Recorded'
        BY <1>1, <2>1, <2>2 DEF HoldInv, Recorded
      <4> QED
        BY <2>2, <3>2, <4>1 DEF Known
    <3>3. CASE r \notin Placed
      BY <2>4, <3>3 DEF Known
    <3> QED
      BY <1>1, <3>1, <3>2, <3>3 DEF Known
  <2>6. HoldClosed(r)'
    BY <2>1 DEF HoldClosed, RefreshSteps
  <2>7. \A q \in Requests \ {r} : pc[q] \notin Steps
    BY <2>1, ServedAlone DEF Steps
  <2> QED
    BY <1>1, <2>2, <2>3, <2>4, <2>5, <2>6, <2>7, SoldKept
<1>5. CASE ConfirmConflict(r)
  <2>1. /\ pc[r] = "c_commit" /\ pc'[r] = "failed" /\ UNCHANGED <<broker, orders>>
    BY <1>1, <1>5 DEF ConfirmConflict, Finish, Goto, TypeOK, world
  <2>2. PICK o \in Recorded : orders[o].client = copy[r].id
    BY <1>5 DEF ConfirmConflict, UnusedClientId, ClientOrderId
  <2>3. /\ orders[o].provider \in Placed
        /\ req[orders[o].provider].cand = req[r].cand
    <3>1. /\ copy[r].id # 0 /\ copy[r].id = prep[req[r].cand].id
          /\ req[r].cand \in Candidates
      BY <1>1, <2>1 DEF HoldInv, ConfirmSteps, TypeOK
    <3>2. req[o].cand = req[r].cand
      BY <2>2, <3>1, RecordTellsCandidate
    <3> QED
      BY <3>2, ProviderPlaced
  <2>4. r \in Placed => orders[o].provider = r
    BY <2>3 DEF IInv, OneSalePerCandidate
  <2>5. OrdersMove /\ Placed' = Placed
    BY <2>1, BrokerStill
  <2>6. Known(r)' /\ HoldClosed(r)'
    BY <2>1, <2>4, <2>5 DEF Known, HoldClosed, RefreshSteps, Recorded
  <2>7. \A q \in Requests \ {r} : pc[q] \notin Steps
    BY <2>1, ServedAlone DEF Steps
  <2> QED
    BY <1>1, <2>1, <2>5, <2>6, <2>7, SoldKept
<1> QED
  BY <1>2, <1>3, <1>4, <1>5, SubmitSold

\* A refresh takes an order out of the gate's list only when it is closed.
LEMMA RefreshSold ==
  ASSUME OneAtATime, IInv, SInv, NEW r \in Requests,
         \/ \E o \in Requests : RefreshRead(r, o)
         \/ RefreshAsk(r) \/ RefreshCommit(r) \/ Refuse(r) \/ Crash(r)
  PROVE  SInv'
<1>1. Stays /\ OthersStay(r) /\ TypeOK /\ HoldInv(r) /\ HoldClosed(r)
  BY RefreshStays DEF IInv, SInv
<1>2. ~Crash(r) /\ broker' = broker
  BY DEF OneAtATime, Crash, RefreshRead, RefreshAsk, RefreshCommit, Refuse, Rollback, world
<1>3. OrdersMove /\ Placed' = Placed
  BY <1>2, BrokerStill
<1>4. ASSUME pc[r] \in Steps \/ Arrives(r), pc[r] \notin {"c_commit", "ok", "failed"},
             HoldClosed(r)',
             \A o \in Requests : orders'[o] = orders[o] \/ RecordClosed(o)'
      PROVE  SInv'
  <2>1. \A q \in Requests \ {r} : pc[q] \notin Steps
    BY <1>4, ServedAlone
  <2>2. r \notin Placed
    BY <1>4, NotYetPlaced
  <2>3. Known(r)'
    BY <1>3, <2>2 DEF Known
  <2> QED
    BY <1>1, <1>3, <1>4, <2>1, <2>2, <2>3, SoldKept
<1>5. ASSUME NEW o \in Requests, RefreshRead(r, o)
      PROVE  SInv'
  <2>1. /\ o \in Recorded /\ orders' = orders /\ pc'[r] = "f_ask" /\ reply'[r].id = o
        /\ reply'[r].old.status = orders[o].status
        /\ reply'[r].new.status = orders[o].status
    BY <1>1, <1>5 DEF RefreshRead, Goto, TypeOK, db
  <2>2. HoldClosed(r)'
    BY <1>2, <2>1 DEF HoldClosed, SInv, RecordClosed, RefreshSteps
  <2> QED
    BY <1>4, <1>5, <2>1, <2>2 DEF RefreshRead, Arrives
<1>6. CASE RefreshAsk(r)
  <2> DEFINE o == reply[r].id
             b == orders[o].provider
             new == RefreshedStatus(reply[r].old.status, broker[b], copy[r].qty)
  <2>1. /\ pc[r] = "f_ask" /\ pc'[r] = "f_commit" /\ orders' = orders /\ o \in Recorded
    BY <1>1, <1>6 DEF RefreshAsk, Goto, TypeOK, db, HoldInv, RefreshSteps
  <2>2. /\ reply[r].old.status \notin LiveOrder => broker[b].state \in Closed
        /\ reply[r].new.status \notin LiveOrder => broker[b].state \in Closed
    BY <1>1, <2>1 DEF HoldClosed, RefreshSteps
  <2>3. broker[b].state # "pending_cancel"
    BY <2>1, ProviderPlaced DEF SInv
  <2>4. new \notin LiveOrder => broker[b].state \in Closed
    BY <2>2, <2>3 DEF RefreshedStatus, FillStatus, LiveOrder, Closed
  <2>5. HoldClosed(r)'
    <3>1. CASE UNCHANGED reply
      BY <1>2, <2>1, <2>2, <3>1 DEF HoldClosed, RefreshSteps
    <3>2. CASE reply' = [reply EXCEPT ![r].new = [status |-> new, filled |-> broker[b].filled]]
      <4> HIDE DEF new
      <4>1. reply'[r].id = o /\ reply'[r].old = reply[r].old /\ reply'[r].new.status = new
        BY <1>1, <3>2 DEF TypeOK
      <4> QED
        BY <1>2, <2>1, <2>2, <2>4, <4>1 DEF HoldClosed, RefreshSteps
    <3> QED
      BY <1>6, <3>1, <3>2 DEF RefreshAsk
  <2> QED
    BY <1>4, <2>1, <2>5 DEF Steps
<1>7. CASE RefreshCommit(r)
  <2>0. PICK o \in Recorded : o = reply[r].id
    BY <1>1, <1>7 DEF RefreshCommit, HoldInv, RefreshSteps
  <2> DEFINE b == orders[o].provider
  <2>1. /\ pc[r] = "f_commit" /\ pc'[r] = "ok" /\ o \in Requests
    BY <1>1, <1>7 DEF RefreshCommit, Finish, Goto, TypeOK, Recorded
  <2>2. /\ orders'[o].provider = b
        /\ orders'[o].status \in {orders[o].status, reply[r].new.status}
        /\ \A p \in Requests : p # o => orders'[p] = orders[p]
    BY <1>1, <1>7, <2>0, <2>1 DEF RefreshCommit, TypeOK, Order, Merge
  <2>3. /\ orders[o].status \notin LiveOrder => broker[b].state \in Closed
        /\ reply[r].new.status \notin LiveOrder => broker[b].state \in Closed
    BY <1>1, <2>0, <2>1 DEF SInv, HoldClosed, RecordClosed, RefreshSteps
  <2>4. RecordClosed(o)'
    BY <1>2, <2>2, <2>3 DEF RecordClosed
  <2>5. HoldClosed(r)'
    BY <2>1 DEF HoldClosed, RefreshSteps
  <2> QED
    BY <1>4, <2>1, <2>2, <2>4, <2>5 DEF Steps
<1>8. CASE Refuse(r)
  <2>1. /\ orders' = orders /\ pc'[r] = "failed" /\ pc[r] \in {"p_read", "c_recheck", "c_submit"}
    BY <1>1, <1>8 DEF Refuse, Rollback, Finish, Goto, TypeOK
  <2> QED
    BY <1>1, <1>2, <2>1, QuietSold DEF Steps
<1> QED
  BY <1>2, <1>5, <1>6, <1>7, <1>8

\* The broker works on open orders only.
LEMMA WorldSold ==
  ASSUME OneAtATime, IInv, SInv,
         \/ Tick
         \/ \E b \in Requests, q \in 1..Held : BrokerFill(b, q)
         \/ \E b \in Requests, state \in RemoteState : BrokerClose(b, state)
  PROVE  SInv'
<1>1. Stays /\ UNCHANGED <<db, request>> /\ Placed' = Placed /\ TypeOK
  BY WorldStays DEF IInv
<1>2. OrdersMove
  <2>1. CASE Tick
    BY <2>1, BrokerStill DEF Tick
  <2>2. ASSUME NEW b \in Requests, NEW q \in 1..Held, BrokerFill(b, q)
        PROVE  OrdersMove
    <3>1. /\ broker[b].state \in Open
          /\ broker'[b].state \in {"filled", "partially_filled"}
          /\ \A p \in Requests : p # b => broker'[p] = broker[p]
      BY <1>1, <2>2 DEF BrokerFill, TypeOK, BrokerOrder
    <3> QED
      BY <3>1 DEF OrdersMove, SInv, Placed, Open, Working, Closed
  <2>3. ASSUME NEW b \in Requests, NEW state \in RemoteState, BrokerClose(b, state)
        PROVE  OrdersMove
    <3>1. /\ broker[b].state \in Open /\ broker'[b].state = state
          /\ state \in Closed
          /\ \A p \in Requests : p # b => broker'[p] = broker[p]
      BY <1>1, <2>3 DEF BrokerClose, TypeOK, BrokerOrder, OneAtATime, Closed
    <3> QED
      BY <3>1 DEF OrdersMove, SInv, Placed, Open, Working, Closed
  <2> QED
    BY <2>1, <2>2, <2>3
<1>3. \A b \in Requests : broker'[b].state # "pending_cancel"
  BY <1>1, <1>2 DEF OrdersMove, Placed
<1>4. ASSUME NEW r \in Requests PROVE HoldClosed(r)'
  <2>1. pc[r] = "c_commit" => reply[r].id \in Placed
    BY DEF IInv, HoldInv
  <2>2. pc[r] \in RefreshSteps => orders[reply[r].id].provider \in Placed
    BY ProviderPlaced DEF IInv, HoldInv
  <2>3. UNCHANGED <<pc, req, reply, orders>>
    BY <1>1 DEF db, request
  <2>4. HoldClosed(r)
    BY DEF SInv
  <2>5. pc[r] \in {"c_reserve", "c_submit"} => ~PreviouslyExecuted(LotOf[req[r].cand])'
    BY <2>3, <2>4 DEF HoldClosed, PreviouslyExecuted, Recorded
  <2> QED
    BY <1>2, <2>1, <2>2, <2>3, <2>4, <2>5 DEF HoldClosed, OrdersMove
<1>5. ASSUME NEW r \in Requests PROVE RecordClosed(r)' /\ Known(r)'
  <2>1. UNCHANGED <<pc, reply, orders>> /\ Recorded' = Recorded
    BY <1>1 DEF db, request, Recorded
  <2>2. r \in Recorded => orders[r].provider \in Placed
    BY ProviderPlaced
  <2> QED
    BY <1>1, <1>2, <2>1, <2>2 DEF SInv, RecordClosed, Known, OrdersMove
<1>6. \A r, s \in InFlight' : r = s
  BY <1>1 DEF SInv, InFlight, request
<1>7. LotSoldOnce'
  BY <1>1, <1>2 DEF SInv, LotSoldOnce, OrdersMove, Working, request
<1> QED
  BY <1>3, <1>4, <1>5, <1>6, <1>7 DEF SInv

\* The invariant of lots is inductive, one request at a time.
LEMMA SoldStep == OneAtATime /\ IInv /\ SInv /\ [Next]_vars => SInv'
<1> SUFFICES ASSUME OneAtATime, IInv, SInv, [Next]_vars PROVE SInv'
  OBVIOUS
<1>1. CASE UNCHANGED vars
  BY <1>1 DEF vars, db, world, request, SInv, Known, HoldClosed, RecordClosed,
     LotSoldOnce, PreviouslyExecuted, Placed, Recorded, InFlight
<1>2. CASE \E r \in Requests, c \in Candidates, s \in Sessions : PrepareRecheck(r, c, s)
  BY <1>2, PrepareSold
<1>3. CASE \E r \in Requests, c \in Candidates, t \in Issued, s \in Sessions :
             ConfirmRead(r, c, t, s)
  BY <1>3, ConfirmSold
<1>4. CASE \E r, o \in Requests : RefreshRead(r, o)
  BY <1>4, RefreshSold
<1>5. CASE \E r \in Requests : Proceed(r) \/ Refuse(r) \/ Crash(r)
  BY <1>5, PrepareSold, ConfirmSold, RefreshSold DEF Proceed
<1>6. CASE \/ Tick
           \/ \E b \in Requests, q \in 1..Held : BrokerFill(b, q)
           \/ \E b \in Requests, state \in RemoteState : BrokerClose(b, state)
  BY <1>6, WorldSold
<1> QED
  BY <1>1, <1>2, <1>3, <1>4, <1>5, <1>6 DEF Next, Idle

\* One request at a time, with no crash and a broker that only says cancelled of
\* what is cancelled, a lot has at most one order that may fill or has filled.
THEOREM LotsSoldOnce == OneAtATime => (Spec => []LotSoldOnce)
<1> SUFFICES ASSUME OneAtATime PROVE Spec => []LotSoldOnce
  OBVIOUS
<1>1. IInv /\ SInv /\ [Next]_vars => SInv'
  BY SoldStep
<1>2. SInv => LotSoldOnce
  BY DEF SInv
<1> QED
  BY <1>1, <1>2, InitInv, StepInv, InitSold, PTL DEF Spec

=============================================================================
