--------------------------- MODULE PaperExecution ---------------------------
(***************************************************************************)
(* PaperExecutionService (src/app/services/paper_execution.py): the        *)
(* prepare, confirm and refresh requests of the paper SELL workflow.       *)
(*                                                                         *)
(* Every request is a database transaction of its own (READ COMMITTED)     *)
(* that awaits the providers between its reads and its writes, so requests *)
(* interleave at those points.  Rows already loaded stay as they were read *)
(* (identity map) and an UPDATE carries the columns the request changed.   *)
(* The broker is outside the transaction: what it accepted survives a      *)
(* rollback.                                                               *)
(***************************************************************************)
EXTENDS Integers, FiniteSets

CONSTANTS
  Candidates,   \* persisted candidates, all of them APPROVED
  Lots,         \* tax lots, all of one symbol of one portfolio
  LotOf,        \* the tax lot of a candidate; several runs may pick one lot
  LotQty,       \* remaining_quantity of a lot: no order ever changes it
  Selected,     \* selected_quantity given by the ranking, 0 for NULL
  Held,         \* statement-derived quantity of the symbol, over all its lots
  Sessions,     \* demo sessions
  N,            \* bound: number of requests of a behaviour
  MaxInFlight,  \* bound: requests served at one time
  MaxClock,     \* bound: ticks of the clock
  TTL,          \* paper_prep_ttl_seconds, in ticks
  Frozen,       \* TRUE: the container's clock is a fixed as-of instant
  Resubmit,     \* a known client_order_id is "returned" or "rejected"
  Crashes,      \* TRUE: a request can die after the broker answered
  BrokerStates  \* provider states this broker's orders may reach

Requests == 1..N

ASSUME ConstantsAssumption ==
  /\ N \in Nat
  /\ TTL \in Nat \ {0}
  /\ MaxClock \in Nat
  /\ MaxInFlight \in Nat
  /\ Held \in Nat
  /\ Candidates # {}
  /\ Sessions # {}
  /\ LotOf \in [Candidates -> Lots]
  /\ LotQty \in [Lots -> Nat]
  /\ Selected \in [Candidates -> Nat]
  /\ Frozen \in BOOLEAN
  /\ Crashes \in BOOLEAN

VARIABLES
  clock,     \* what clock.now() answers
  prep,      \* execution_preparations: the row of a candidate, or NoRow
  rowLock,   \* request whose open transaction updated the row, or 0
  evals,     \* evaluations of a candidate
  orders,    \* paper_orders: the row inserted by a confirm, or NoOrder
  broker,    \* broker orders, by the confirm that submitted them
  position,  \* quantity of the symbol in the Alpaca account
  pc,        \* next step of a request
  req,       \* its arguments, and the instant it read
  copy,      \* the preparation row as it loaded it
  sellQty,   \* quantity of the snapshot it built
  reply      \* what it learnt from the broker

db      == <<prep, rowLock, evals, orders>>
world   == <<broker, position, clock>>
request == <<pc, req, copy, sellQty, reply>>
vars    == <<db, world, request>>

---------------------------------------------------------------------------
(* Rows.                                                                   *)

PrepStatus  == {"NONE", "PREPARED", "RESERVED", "CONFIRMED", "EXPIRED"}
OrderStatus == {"SUBMITTED", "QUEUED", "PARTIALLY_FILLED", "FILLED",
                "FAILED", "EXPIRED", "CANCELLED"}
RemoteState == {"new", "partially_filled", "filled", "pending_cancel",
                "canceled", "expired", "rejected"}

PrepRow == [id: 0..N, status: PrepStatus, token: 0..N, sess: Sessions,
            qty: Nat, expires: Nat, used: BOOLEAN]
NoRow == [id |-> 0, status |-> "NONE", token |-> 0,
          sess |-> CHOOSE s \in Sessions : TRUE,
          qty |-> 0, expires |-> 0, used |-> FALSE]

Order == [client: 0..N, provider: 0..N,
          status: OrderStatus \cup {"NONE"}, filled: Nat]
NoOrder == [client |-> 0, provider |-> 0, status |-> "NONE", filled |-> 0]

BrokerOrder == [client: 0..N, qty: Nat, filled: Nat,
                state: RemoteState \cup {"absent"}]
NotPlaced == [client |-> 0, qty |-> 0, filled |-> 0, state |-> "absent"]

Kind == {"none", "prepare", "confirm", "refresh"}
NoRequest == [kind |-> "none", cand |-> CHOOSE c \in Candidates : TRUE,
              token |-> 0, sess |-> CHOOSE s \in Sessions : TRUE, now |-> 0]

View == [status: OrderStatus \cup {"NONE"}, filled: Nat]
NoView == [status |-> "NONE", filled |-> 0]
NoReply == [id |-> 0, old |-> NoView, new |-> NoView]

Steps == {"p_read", "p_commit", "c_expire", "c_recheck", "c_reserve",
          "c_submit", "c_commit", "f_ask", "f_commit"}

Recorded == {o \in Requests : orders[o].status # "NONE"}
Placed   == {b \in Requests : broker[b].state # "absent"}
InFlight == {r \in Requests : pc[r] \in Steps}

\* Tokens that prepare handed out; a token is named by the request it is from.
Issued == {t \in Requests : pc[t] = "ok" /\ req[t].kind = "prepare"}

\* evaluated_at: the request's instant, so a frozen clock only makes ties.
EvaluatedAt(r) == IF Frozen THEN 0 ELSE r

\* "order_by(evaluated_at.desc()) ... first()": any of the latest.
Latest(es) == {e \in es : \A f \in es : f.at <= e.at}

\* "evaluation.selected_quantity or lot.remaining_quantity"
Quantity(c, e) == IF e.selected # 0 THEN e.selected ELSE LotQty[LotOf[c]]

LiveOrderNotQueued == {"SUBMITTED", "PARTIALLY_FILLED", "FILLED"}
LiveOrder == {"SUBMITTED", "QUEUED", "PARTIALLY_FILLED", "FILLED"}
PreviouslyExecuted(lot) ==
  \E o \in Recorded :
    LotOf[req[o].cand] = lot /\ orders[o].status \in LiveOrder

\* The gates whose inputs this workflow changes: the mirrored quantity is
\* positive and within the statement lots, and the lot was not executed.
\* Any other gate may refuse at any time (Refuse).
Passes(c) == position \in 1..Held /\ ~PreviouslyExecuted(LotOf[c])

\* Lot size and Alpaca position of the _validate_snapshot checks.
ValidQuantity(c, q) == q <= LotQty[LotOf[c]] /\ q \in 1..position

ExpiredAfter(row, now) == row.expires < now
Expired(row, now) == row.expires <= now

\* The columns an UPDATE writes are those the request changed.
Merge(now_, old, new) == IF new = old THEN now_ ELSE new

---------------------------------------------------------------------------
Init ==
  /\ clock = 0
  /\ prep = [c \in Candidates |-> NoRow]
  /\ rowLock = [c \in Candidates |-> 0]
  /\ evals = [c \in Candidates |-> {[at |-> 0, selected |-> Selected[c]]}]
  /\ orders = [r \in Requests |-> NoOrder]
  /\ broker = [r \in Requests |-> NotPlaced]
  /\ position = Held
  /\ pc = [r \in Requests |-> "idle"]
  /\ req = [r \in Requests |-> NoRequest]
  /\ copy = [r \in Requests |-> NoRow]
  /\ sellQty = [r \in Requests |-> 0]
  /\ reply = [r \in Requests |-> NoReply]

\* Requests are numbered in the order they arrive.
Arrives(r) ==
  /\ pc[r] = "idle"
  /\ \A q \in Requests : q < r => pc[q] # "idle"
  /\ Cardinality(InFlight) < MaxInFlight

Goto(r, step) == pc' = [pc EXCEPT ![r] = step]

\* The transaction ends; what the request had loaded is gone.
Finish(r, outcome) ==
  /\ Goto(r, outcome)
  /\ copy' = [copy EXCEPT ![r] = NoRow]
  /\ sellQty' = [sellQty EXCEPT ![r] = 0]
  /\ reply' = [reply EXCEPT ![r] = NoReply]
  /\ UNCHANGED req

\* recheck_approved stores one more evaluation, without a selected quantity.
StoreEvaluation(r) ==
  evals' = [evals EXCEPT ![req[r].cand] =
              @ \cup {[at |-> EvaluatedAt(r), selected |-> 0]}]

---------------------------------------------------------------------------
(* prepare                                                                 *)

\* Load the candidate, recheck it.
PrepareRecheck(r, c, s) ==
  /\ Arrives(r)
  /\ Passes(c)
  /\ Goto(r, "p_read")
  /\ req' = [req EXCEPT ![r] = [kind |-> "prepare", cand |-> c, token |-> r,
                                sess |-> s, now |-> clock]]
  /\ UNCHANGED <<db, world, copy, sellQty, reply>>

\* Reload with the evaluation just stored, look at the row that exists, build
\* and validate the snapshot.
PrepareRead(r) ==
  LET c   == req[r].cand
      row == prep[c]
      own == [at |-> EvaluatedAt(r), selected |-> 0]
  IN
  /\ pc[r] = "p_read"
  /\ row.status \notin {"CONFIRMED", "RESERVED"}
  /\ ~(row.status = "PREPARED" /\ ~Expired(row, req[r].now))
  /\ \E e \in Latest(evals[c] \cup {own}) :
       /\ ValidQuantity(c, Quantity(c, e))
       /\ sellQty' = [sellQty EXCEPT ![r] = Quantity(c, e)]
  /\ copy' = [copy EXCEPT ![r] = row]
  /\ Goto(r, "p_commit")
  /\ UNCHANGED <<db, world, req, reply>>

NewPreparation(r) ==
  [id |-> r, status |-> "PREPARED", token |-> r, sess |-> req[r].sess,
   qty |-> sellQty[r], expires |-> req[r].now + TTL, used |-> FALSE]

\* Only an expired preparation can be prepared again; it keeps its id.
FreshRowId(r, row) == r
KeepRowId(r, row) == row.id

\* Assigned to a loaded row.  A token hash and an instant are never what they
\* were, the other columns may be.
Reprepared(r, row) ==
  LET old == copy[r] IN
  [id |-> KeepRowId(r, row),
   status |-> Merge(row.status, old.status, "PREPARED"),
   token |-> r,
   sess |-> Merge(row.sess, old.sess, req[r].sess),
   qty |-> Merge(row.qty, old.qty, sellQty[r]),
   expires |-> req[r].now + TTL,
   used |-> Merge(row.used, old.used, FALSE)]

\* INSERT (candidate_id is unique) or UPDATE, then commit.
PrepareCommit(r) ==
  LET c == req[r].cand IN
  /\ pc[r] = "p_commit"
  /\ rowLock[c] = 0
  /\ \/ /\ copy[r].id = 0
        /\ prep[c].id = 0
        /\ prep' = [prep EXCEPT ![c] = NewPreparation(r)]
     \/ /\ copy[r].id # 0
        /\ prep' = [prep EXCEPT ![c] = Reprepared(r, prep[c])]
  /\ StoreEvaluation(r)
  /\ Finish(r, "ok")
  /\ UNCHANGED <<world, rowLock, orders>>

\* The candidate got its row from another prepare: IntegrityError.
PrepareConflict(r) ==
  /\ pc[r] = "p_commit"
  /\ copy[r].id = 0
  /\ prep[req[r].cand].id # 0
  /\ Finish(r, "failed")
  /\ UNCHANGED <<db, world>>

---------------------------------------------------------------------------
(* confirm                                                                 *)

\* The checks of the row; an expired one is on its way to EXPIRED.
ConfirmRead(r, c, t, s) ==
  LET row == prep[c] IN
  /\ Arrives(r)
  /\ row.id # 0
  /\ row.token = t
  /\ ~row.used
  /\ req' = [req EXCEPT ![r] = [kind |-> "confirm", cand |-> c, token |-> t,
                                sess |-> s, now |-> clock]]
  /\ copy' = [copy EXCEPT ![r] = row]
  /\ \/ /\ Expired(row, clock)
        /\ Goto(r, "c_expire")
        /\ UNCHANGED sellQty
     \/ /\ ~Expired(row, clock)
        /\ row.sess = s
        /\ row.status = "PREPARED"
        /\ \E e \in Latest(evals[c]) :
             sellQty' = [sellQty EXCEPT ![r] = Quantity(c, e)]
        /\ Goto(r, "c_recheck")
  /\ UNCHANGED <<db, world, reply>>

\* Mark the row EXPIRED, commit, then raise.
ConfirmExpire(r) ==
  LET c == req[r].cand IN
  /\ pc[r] = "c_expire"
  /\ \/ copy[r].status = "EXPIRED" /\ UNCHANGED prep
     \/ /\ copy[r].status # "EXPIRED"
        /\ rowLock[c] = 0
        /\ prep' = [prep EXCEPT ![c].status = "EXPIRED"]
  /\ Finish(r, "failed")
  /\ UNCHANGED <<world, rowLock, evals, orders>>

\* Recheck the gates, compare the quantity with the stored snapshot (the
\* immutable key that can differ) and validate it.
ConfirmRecheck(r) ==
  LET c == req[r].cand IN
  /\ pc[r] = "c_recheck"
  /\ Passes(c)
  /\ sellQty[r] = copy[r].qty
  /\ ValidQuantity(c, sellQty[r])
  /\ Goto(r, "c_reserve")
  /\ UNCHANGED <<db, world, req, copy, sellQty, reply>>

CommitReservation(c) ==
  prep' = [prep EXCEPT ![c].status = "RESERVED", ![c].used = TRUE]

\* RESERVED and token_used_at are flushed, not committed: other transactions
\* wait for the row and see nothing of it.
FlushReservation(c) == UNCHANGED prep

ConfirmReserve(r) ==
  LET c == req[r].cand IN
  /\ pc[r] = "c_reserve"
  /\ rowLock[c] = 0
  /\ FlushReservation(c)
  /\ rowLock' = [rowLock EXCEPT ![c] = r]
  /\ Goto(r, "c_submit")
  /\ UNCHANGED <<evals, orders, world, req, copy, sellQty, reply>>

FreshClientOrderId(r) == r

\* client_order_id: "tlh-" and the id of the preparation.
ClientOrderId(r) == copy[r].id

RawStatus(state) ==
  CASE state = "new" -> {"new"} [] state # "new" -> {"SUBMITTED"}

\* map_paper_order_status; the market may be open, closed or unknown.
MappedStatus(state) ==
  CASE state \in {"canceled", "pending_cancel"} -> {"CANCELLED"}
    [] state = "rejected" -> {"FAILED"}
    [] state = "expired" -> {"EXPIRED"}
    [] state = "partially_filled" -> {"PARTIALLY_FILLED"}
    [] state = "filled" -> {"FILLED"}
    [] state = "new" -> {"SUBMITTED", "QUEUED"}

Learn(r, b, state) ==
  \E status \in MappedStatus(state) :
    reply' = [reply EXCEPT ![r] =
      [id |-> b, old |-> NoView, new |-> [status |-> status, filled |-> 0]]]

\* submit_market_sell: a new order, or the one the client id names already.
ConfirmSubmit(r) ==
  LET known == {b \in Placed : broker[b].client = ClientOrderId(r)} IN
  /\ pc[r] = "c_submit"
  /\ \/ /\ known = {}
        /\ broker' = [broker EXCEPT ![r] =
             [client |-> ClientOrderId(r), qty |-> copy[r].qty,
              filled |-> 0, state |-> "new"]]
        /\ Learn(r, r, "new")
     \/ /\ Resubmit = "returned"
        /\ \E b \in known : Learn(r, b, broker[b].state)
        /\ UNCHANGED broker
  /\ Goto(r, "c_commit")
  /\ UNCHANGED <<db, position, clock, req, copy, sellQty>>

AnyClientId(r) == TRUE
UnusedClientId(r) == \A o \in Recorded : orders[o].client # ClientOrderId(r)

\* Insert the order (client_order_id is unique), mark the row, commit.
ConfirmCommit(r) ==
  LET c == req[r].cand IN
  /\ pc[r] = "c_commit"
  /\ UnusedClientId(r)
  /\ orders' = [orders EXCEPT ![r] =
       [client |-> ClientOrderId(r), provider |-> reply[r].id,
        status |-> reply[r].new.status, filled |-> 0]]
  /\ prep' = [prep EXCEPT ![c].status = "CONFIRMED", ![c].used = TRUE]
  /\ rowLock' = [rowLock EXCEPT ![c] = 0]
  /\ StoreEvaluation(r)
  /\ Finish(r, "ok")
  /\ UNCHANGED world

\* The client id is recorded already: IntegrityError, rolled back.
ConfirmConflict(r) ==
  /\ pc[r] = "c_commit"
  /\ ~UnusedClientId(r)
  /\ rowLock' = [rowLock EXCEPT ![req[r].cand] = 0]
  /\ Finish(r, "failed")
  /\ UNCHANGED <<prep, evals, orders, world>>

---------------------------------------------------------------------------
(* refresh                                                                 *)

AnyFillStatus(b, prepQty) == "FILLED"
FillStatus(b, prepQty) ==
  IF b.filled >= prepQty THEN "FILLED" ELSE "PARTIALLY_FILLED"

\* What refresh makes of the remote order, given the status it loaded.
RefreshedStatus(old, b, prepQty) ==
  CASE b.state \in {"filled", "partially_filled"} -> FillStatus(b, prepQty)
    [] b.state \in {"canceled", "pending_cancel"} -> "CANCELLED"
    [] b.state = "rejected" -> "FAILED"
    [] b.state = "expired" -> IF old = "QUEUED" THEN "EXPIRED" ELSE old
    [] OTHER -> old

\* Load the order and its preparation.
RefreshRead(r, o) ==
  LET seen == [status |-> orders[o].status, filled |-> orders[o].filled]
      c == req[o].cand
  IN
  /\ Arrives(r)
  /\ o \in Recorded
  /\ Goto(r, "f_ask")
  /\ req' = [req EXCEPT ![r] =
       [NoRequest EXCEPT !.kind = "refresh", !.cand = c, !.now = clock]]
  /\ copy' = [copy EXCEPT ![r] = prep[c]]
  /\ reply' = [reply EXCEPT ![r] = [id |-> o, old |-> seen, new |-> seen]]
  /\ UNCHANGED <<db, world, sellQty>>

\* get_order: what the broker has, or no answer.
RefreshAsk(r) ==
  LET o == reply[r].id
      b == broker[orders[o].provider]
  IN
  /\ pc[r] = "f_ask"
  /\ \/ UNCHANGED reply
     \/ reply' = [reply EXCEPT ![r].new =
          [status |-> RefreshedStatus(reply[r].old.status, b, copy[r].qty),
           filled |-> b.filled]]
  /\ Goto(r, "f_commit")
  /\ UNCHANGED <<db, world, req, copy, sellQty>>

RefreshCommit(r) ==
  LET o == reply[r].id
      row == orders[o]
      old == reply[r].old
      new == reply[r].new
  IN
  /\ pc[r] = "f_commit"
  /\ orders' = [orders EXCEPT
       ![o].status = Merge(row.status, old.status, new.status),
       ![o].filled = Merge(row.filled, old.filled, new.filled)]
  /\ Finish(r, "ok")
  /\ UNCHANGED <<prep, rowLock, evals, world>>

---------------------------------------------------------------------------
(* A request ends without a commit.                                        *)

LeaveRowLocked(r) == UNCHANGED rowLock
ReleaseRow(r) ==
  rowLock' = [c \in Candidates |-> IF rowLock[c] = r THEN 0 ELSE rowLock[c]]

Rollback(r) ==
  /\ ReleaseRow(r)
  /\ Finish(r, "failed")
  /\ UNCHANGED <<prep, evals, orders, world>>

\* A check, a gate or a provider raises.  The broker may refuse any order, a
\* client id it knows among them.
Refuse(r) == pc[r] \in {"p_read", "c_recheck", "c_submit"} /\ Rollback(r)

\* The process dies, or the caller's connection does, at any await.
Crash(r) == Crashes /\ r \in InFlight /\ Rollback(r)

---------------------------------------------------------------------------
(* Environment                                                             *)

Tick ==
  /\ ~Frozen
  /\ clock < MaxClock
  /\ clock' = clock + 1
  /\ UNCHANGED <<db, broker, position, request>>

Open == {"new", "partially_filled", "pending_cancel"}

\* A fill of the broker takes the shares from the account.
BrokerFill(b, q) ==
  LET state == IF broker[b].filled + q = broker[b].qty THEN "filled"
               ELSE "partially_filled" IN
  /\ broker[b].state \in Open
  /\ state \in BrokerStates
  /\ q <= position
  /\ broker[b].filled + q <= broker[b].qty
  /\ broker' = [broker EXCEPT ![b].filled = @ + q, ![b].state = state]
  /\ position' = position - q
  /\ UNCHANGED <<db, clock, request>>

\* It closes the order unfilled or part filled, or is asked to.
BrokerClose(b, state) ==
  /\ broker[b].state \in Open
  /\ state \in BrokerStates \cap {"pending_cancel", "canceled", "expired", "rejected"}
  /\ broker' = [broker EXCEPT ![b].state = state]
  /\ UNCHANGED <<db, position, clock, request>>

\* The server is idle until a request comes.
Idle == InFlight = {} /\ UNCHANGED vars

---------------------------------------------------------------------------
Proceed(r) ==
  \/ PrepareRead(r) \/ PrepareCommit(r) \/ PrepareConflict(r)
  \/ ConfirmExpire(r) \/ ConfirmRecheck(r) \/ ConfirmReserve(r)
  \/ ConfirmSubmit(r) \/ ConfirmCommit(r) \/ ConfirmConflict(r)
  \/ RefreshAsk(r) \/ RefreshCommit(r)

Next ==
  \/ \E r \in Requests, c \in Candidates, s \in Sessions : PrepareRecheck(r, c, s)
  \/ \E r \in Requests, c \in Candidates, t \in Issued, s \in Sessions :
       ConfirmRead(r, c, t, s)
  \/ \E r, o \in Requests : RefreshRead(r, o)
  \/ \E r \in Requests : Proceed(r)
  \/ \E r \in Requests : Refuse(r)
  \/ \E r \in Requests : Crash(r)
  \/ Tick
  \/ \E b \in Requests, q \in 1..Held : BrokerFill(b, q)
  \/ \E b \in Requests, state \in RemoteState : BrokerClose(b, state)
  \/ Idle

Spec == Init /\ [][Next]_vars

\* A request that was accepted is carried on: the event loop resumes it when
\* its database or provider call is back, and such calls end or raise.
FairSpec == Spec /\ \A r \in Requests : WF_vars(Proceed(r) \/ Refuse(r))

\* The abstract specification, of what the broker and paper_orders hold.
Sale == INSTANCE PaperSale WITH
  offered  <- {c \in Candidates : prep[c].id # 0},
  placed   <- [c \in Candidates |-> {b \in Placed : req[b].cand = c}],
  recorded <- [c \in Candidates |-> {o \in Recorded : req[o].cand = c}]

---------------------------------------------------------------------------
(* Properties                                                              *)

TypeOK ==
  /\ clock \in 0..MaxClock
  /\ prep \in [Candidates -> PrepRow]
  /\ rowLock \in [Candidates -> 0..N]
  /\ evals \in [Candidates -> SUBSET [at: 0..N, selected: Nat]]
  /\ orders \in [Requests -> Order]
  /\ broker \in [Requests -> BrokerOrder]
  /\ position \in 0..Held
  /\ pc \in [Requests -> Steps \cup {"idle", "ok", "failed"}]
  /\ req \in [Requests -> [kind: Kind, cand: Candidates, token: 0..N,
                           sess: Sessions, now: 0..MaxClock]]
  /\ copy \in [Requests -> PrepRow]
  /\ sellQty \in [Requests -> Nat]
  /\ reply \in [Requests -> [id: 0..N, old: View, new: View]]

\* Whatever is retried, raced or lost, the broker gets at most one order for a
\* candidate: the preparation row keeps its id when it is prepared again, and
\* the client order id is that id.
OneSalePerCandidate ==
  \A a, b \in Placed : req[a].cand = req[b].cand => a = b

\* paper_orders holds at most one row for a candidate, and the row names an
\* order the broker really has, placed for that same candidate.
RecordedSaleIsReal ==
  \A o \in Recorded :
    /\ orders[o].provider \in Placed
    /\ req[orders[o].provider].cand = req[o].cand
    /\ \A p \in Recorded : req[p].cand = req[o].cand => p = o

\* A committed CONFIRMED status or used token comes with its paper_orders row:
\* a request that dies between the flush and the commit leaves neither.
NoConfirmationWithoutOrder ==
  \A c \in Candidates :
    prep[c].used \/ prep[c].status \in {"RESERVED", "CONFIRMED"} =>
      \E o \in Recorded : req[o].cand = c

\* An order reaches the broker only from a confirm that came with a token
\* prepare issued for that candidate, and before that token's expiry.
SaleHasConsent ==
  \A b \in Placed :
    LET t == req[b].token IN
    /\ req[b].kind = "confirm"
    /\ t \in Issued
    /\ req[t].cand = req[b].cand
    /\ req[b].now < req[t].now + TTL

\* The books never run ahead of the broker: what a row says was filled was
\* filled, even when two refreshes write their answers in the wrong order.
FillNotOverstated ==
  \A o \in Recorded :
    LET b == broker[orders[o].provider] IN
    /\ orders[o].filled <= b.filled
    /\ orders[o].status = "FILLED" => b.filled = b.qty

\* A lot is not sold by a second order while an earlier one may still fill,
\* or after it filled.
LotSoldOnce ==
  \A a, b \in Placed :
    /\ LotOf[req[a].cand] = LotOf[req[b].cand]
    /\ broker[a].state \in Open \cup {"filled"}
    /\ broker[b].state \in Open \cup {"filled"}
    => a = b

\* The workflow keeps the promise of PaperSale: through every interleaving,
\* crash and retry, an order is placed and then recorded at most once each.
SaleSpec == Sale!Spec

\* No request waits for ever on a row another one updated.
RequestsEnd == \A r \in Requests : r \in InFlight ~> pc[r] \in {"ok", "failed"}

=============================================================================
