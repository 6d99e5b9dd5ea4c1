----------------------------- MODULE Conversation -----------------------------
(***************************************************************************)
(* The orchestrator's conversations of one demo session: the requests of   *)
(* its API (start, chat, reset, close) or the webhook deliveries of its    *)
(* WhatsApp sender, run by concurrent processes over the database.         *)
(*                                                                         *)
(* A turn finds or starts the ACTIVE conversation, asks the model or falls *)
(* back to the fixed routes, and adds what was said; each addition commits *)
(* and then deletes what exceeds the retention.  Meta delivers a batch     *)
(* again until it is accepted.  An item is its created_at.                 *)
(***************************************************************************)
EXTENDS Naturals, FiniteSets

CONSTANTS Procs,        \* requests or deliveries handled at the same time
          Batches,      \* the webhook payloads: sets of messages
          Strangers,    \* messages of senders that are not allowed
          Orders,       \* messages with a word like "sell"
          MaxItems,     \* RETENTION_MAX_ITEMS
          MaxRequests,  \* bound: API requests, a failure counting as one
          MaxFaults     \* bound: failures, and deliveries that time out

ASSUME ConversationAssumption ==
  MaxItems \in Nat /\ MaxRequests \in Nat /\ MaxFaults \in Nat

VARIABLES channel,    \* "api" or "whatsapp"
          demo,       \* the demo session is stored
          status,     \* of each conversation
          items,      \* what each conversation holds
          newest,     \* the newest ever committed to it (read by properties)
          clock,      \* the last created_at
          proc,       \* what each process does
          requests,   \* API requests left
          inbox,      \* batches Meta has to deliver
          answered,   \* messages whose reply was sent
          faults      \* failures left

vars == <<channel, demo, status, items, newest, clock, proc, requests, inbox, answered, faults>>

Convs == 1..MaxRequests + 1
Messages == UNION Batches
NoConv == 0
Idle == [pc |-> "idle", op |-> "none", conv |-> NoConv, stage |-> "none", rows |-> {},
         before |-> {}, closed |-> FALSE, msg |-> {}, left |-> {}, batch |-> {}]

Active == {c \in Convs : status[c] = "ACTIVE"}
Used == {c \in Convs : status[c] # "unused"}

Init ==
  /\ channel \in {"api", "whatsapp"}
  /\ demo = (channel = "api")
  /\ status = [c \in Convs |-> "unused"]
  /\ items = [c \in Convs |-> {}] /\ newest = items
  /\ clock = 0 /\ proc = [p \in Procs |-> Idle]
  /\ requests = (IF channel = "api" THEN MaxRequests ELSE 0)
  /\ inbox = (IF channel = "whatsapp" THEN Batches ELSE {})
  /\ answered = {} /\ faults = MaxFaults

At(p, pc) == proc[p].pc = pc
Goto(p, pc) == proc' = [proc EXCEPT ![p].pc = pc]
tables == <<demo, status, items, newest, clock>>
outside == <<channel, requests, inbox, answered, faults>>

(* An error ends the request; the one of a webhook is answered with a 500   *)
(* and the batch is delivered again, whole.                                 *)
Raise(p) ==
  /\ proc' = [proc EXCEPT ![p] = Idle]
  /\ inbox' = IF channel = "whatsapp" THEN inbox \cup {proc[p].batch} ELSE inbox

Fail(p) ==
  /\ faults > 0 /\ ~At(p, "idle")
  /\ faults' = faults - 1
  /\ IF channel = "api" THEN requests > 0 /\ requests' = requests - 1 ELSE UNCHANGED requests
  /\ Raise(p)
  /\ UNCHANGED <<tables, channel, answered>>

------------------------------------------------------------------------------
(* The API.                                                                 *)
Request(p) ==
  /\ channel = "api" /\ At(p, "idle") /\ requests > 0
  /\ requests' = requests - 1
  /\ \E op \in {"start", "chat", "reset", "close"} :
       proc' = [proc EXCEPT ![p] = [Idle EXCEPT !.op = op,
                  !.before = IF op = "reset" THEN Used ELSE {},
                  !.pc = IF op \in {"reset", "close"} THEN "close" ELSE "lookup"]]
  /\ UNCHANGED <<tables, channel, inbox, answered, faults>>

Return(p) ==
  /\ channel = "api" /\ proc[p].pc \in {"returned", "denied", "absent"}
  /\ proc' = [proc EXCEPT ![p] = Idle]
  /\ UNCHANGED <<tables, outside>>

(* The webhook.                                                             *)
Deliver(p) ==
  /\ channel = "whatsapp" /\ At(p, "idle")
  /\ \E b \in inbox :
       /\ inbox' = inbox \ {b}
       /\ proc' = [proc EXCEPT ![p] = [Idle EXCEPT !.pc = "next", !.op = "chat",
                                                   !.left = b, !.batch = b]]
  /\ UNCHANGED <<tables, channel, requests, answered, faults>>

TimeOut(p) ==
  /\ channel = "whatsapp" /\ ~At(p, "idle") /\ faults > 0
  /\ faults' = faults - 1
  /\ inbox' = inbox \cup {proc[p].batch}
  /\ UNCHANGED <<tables, channel, requests, answered, proc>>

NextMessage(p) ==
  /\ At(p, "next")
  /\ \/ proc[p].left = {} /\ proc' = [proc EXCEPT ![p] = Idle]
     \/ \E m \in proc[p].left :
          proc' = [proc EXCEPT ![p].left = @ \ {m}, ![p].msg = {m},
                     ![p].pc = CASE m \in Strangers -> "next"
                                 [] m \in Orders \ Strangers -> "returned"
                                 [] OTHER -> "create"]
  /\ UNCHANGED <<tables, outside>>

Send(p) ==
  /\ channel = "whatsapp" /\ At(p, "returned")
  /\ answered' = answered \cup proc[p].msg
  /\ proc' = [proc EXCEPT ![p] = [Idle EXCEPT !.pc = "next", !.op = "chat",
                                              !.left = proc[p].left, !.batch = proc[p].batch]]
  /\ UNCHANGED <<tables, channel, requests, inbox, faults>>

(* Two first messages of a sender may both find no demo session.            *)
AlwaysCreate(p) ==
  /\ At(p, "create")
  /\ Goto(p, "newDemo")
  /\ UNCHANGED <<tables, outside>>

CreateDemo(p) ==
  /\ At(p, "create")
  /\ Goto(p, IF demo THEN "lookup" ELSE "newDemo")
  /\ UNCHANGED <<tables, outside>>

InsertDemo(p) ==
  /\ At(p, "newDemo")
  /\ IF demo THEN Raise(p) /\ UNCHANGED demo
     ELSE demo' = TRUE /\ Goto(p, "lookup") /\ UNCHANGED inbox
  /\ UNCHANGED <<status, items, newest, clock, channel, requests, answered, faults>>

------------------------------------------------------------------------------
(* The ACTIVE conversation: found, or started, or the one another request   *)
(* started first.                                                           *)
Found(p, c) ==
  proc' = [proc EXCEPT ![p].conv = c, ![p].pc = IF proc[p].op = "chat" THEN "turn" ELSE "returned"]

Lookup(p) ==
  /\ At(p, "lookup")
  /\ \/ \E c \in Active : Found(p, c)
     \/ Active = {} /\ Goto(p, "start")
  /\ UNCHANGED <<tables, outside>>

Start(p) ==
  /\ At(p, "start")
  /\ \/ /\ Active = {}
        /\ \E c \in Convs \ Used :
             /\ \A d \in Convs \ Used : c <= d
             /\ status' = [status EXCEPT ![c] = "ACTIVE"]
             /\ Found(p, c)
     \/ Active # {} /\ Goto(p, "existing") /\ UNCHANGED status
  /\ UNCHANGED <<demo, items, newest, clock, outside>>

DenyExisting(p) ==
  /\ At(p, "existing")
  /\ Goto(p, "denied")
  /\ UNCHANGED <<tables, outside>>

Existing(p) ==
  /\ At(p, "existing")
  /\ \/ \E c \in Active : Found(p, c)
     \/ Active = {} /\ Goto(p, "denied")
  /\ UNCHANGED <<tables, outside>>

CloseRead(p) ==
  /\ At(p, "close")
  /\ \/ \E c \in Active : proc' = [proc EXCEPT ![p].conv = c, ![p].pc = "closing"]
     \/ Active = {} /\ Goto(p, IF proc[p].op = "reset" THEN "start" ELSE "absent")
  /\ UNCHANGED <<tables, outside>>

StartBeforeClosing(p) ==
  /\ At(p, "closing")
  /\ Goto(p, "start")
  /\ UNCHANGED <<tables, outside>>

CloseCommit(p) ==
  /\ At(p, "closing")
  /\ status' = [status EXCEPT ![proc[p].conv] = "CLOSED"]
  /\ proc' = [q \in Procs |->
       IF q = p THEN [proc[p] EXCEPT !.pc = IF proc[p].op = "reset" THEN "start" ELSE "returned"]
       ELSE IF proc[q].pc \in {"start", "existing"} THEN [proc[q] EXCEPT !.closed = TRUE] ELSE proc[q]]
  /\ UNCHANGED <<demo, items, newest, clock, outside>>

------------------------------------------------------------------------------
(* The turn: the model, or the fixed routes when it is off or fails.        *)
Say(p, stage) == proc' = [proc EXCEPT ![p].pc = "flush", ![p].stage = stage]

Turn(p) ==
  /\ At(p, "turn")
  /\ Say(p, "both") \/ Say(p, "question") \/ Goto(p, "returned")
  /\ UNCHANGED <<tables, outside>>

(* The items of one call, without those that have a forbidden text or are   *)
(* too long: of a question and its answer, both, one or none.               *)
Flush(p) ==
  /\ At(p, "flush")
  /\ \E n \in 0..(IF proc[p].stage = "both" THEN 2 ELSE 1) :
       /\ clock' = clock + n
       /\ proc' = [proc EXCEPT ![p].rows = clock + 1..clock + n, ![p].pc = "commit"]
  /\ UNCHANGED <<demo, status, items, newest, outside>>

Oldest(rows, n) == {x \in rows : Cardinality({y \in rows : y < x}) < n}
Newest(rows, n) == {x \in rows : Cardinality({y \in rows : y > x}) < n}
Extra(rows) == IF Cardinality(rows) > MaxItems THEN Cardinality(rows) - MaxItems ELSE 0

Commit(p) ==
  /\ At(p, "commit")
  /\ items' = [items EXCEPT ![proc[p].conv] = @ \cup proc[p].rows]
  /\ newest' = [newest EXCEPT ![proc[p].conv] = Newest(@ \cup proc[p].rows, MaxItems)]
  /\ proc' = [proc EXCEPT ![p].rows = {}, ![p].pc = "retain"]
  /\ UNCHANGED <<demo, status, clock, outside>>

OneMore(rows) == Oldest(rows, Extra(rows) + 1)
Excess(rows) == Oldest(rows, Extra(rows))

RetainRead(p) ==
  /\ At(p, "retain")
  /\ proc' = [proc EXCEPT ![p].rows = Excess(items[proc[p].conv]), ![p].pc = "delete"]
  /\ UNCHANGED <<tables, outside>>

RetainDelete(p) ==
  /\ At(p, "delete")
  /\ items' = [items EXCEPT ![proc[p].conv] = @ \ proc[p].rows]
  /\ proc' = [proc EXCEPT ![p].rows = {}, ![p].pc = "said"]
  /\ UNCHANGED <<demo, status, newest, clock, outside>>

(* After the model's turn, the evaluation; after the question, the route    *)
(* and the evaluation.  Without the MCP server the reply says so.           *)
Said(p) ==
  /\ At(p, "said")
  /\ \/ proc[p].stage = "both" /\ (Goto(p, "returned") \/ Say(p, "question"))
     \/ proc[p].stage = "question" /\ (Goto(p, "returned") \/ Say(p, "answer"))
     \/ proc[p].stage = "answer" /\ Goto(p, "returned")
  /\ UNCHANGED <<tables, outside>>

(* What fails while the model's turn is recorded is swallowed: the turn is  *)
(* run, and recorded, again by the fixed routes.                            *)
FallBack(p) ==
  /\ proc[p].stage = "both" /\ proc[p].pc \in {"flush", "commit", "retain", "delete"}
  /\ proc' = [proc EXCEPT ![p].pc = "flush", ![p].stage = "question", ![p].rows = {}]
  /\ UNCHANGED <<tables, outside>>

------------------------------------------------------------------------------
Step(p) ==
  \/ Deliver(p) \/ NextMessage(p) \/ Send(p) \/ CreateDemo(p) \/ InsertDemo(p)
  \/ Return(p) \/ Lookup(p) \/ Start(p) \/ Existing(p) \/ CloseRead(p) \/ CloseCommit(p)
  \/ Turn(p) \/ Flush(p) \/ Commit(p) \/ RetainRead(p) \/ RetainDelete(p) \/ Said(p)

Next == \E p \in Procs : Step(p) \/ Request(p) \/ FallBack(p) \/ Fail(p) \/ TimeOut(p)

Fairness == WF_vars(\E p \in Procs : Step(p))
Spec == Init /\ [][Next]_vars /\ Fairness

------------------------------------------------------------------------------
TypeOK ==
  /\ channel \in {"api", "whatsapp"} /\ demo \in BOOLEAN
  /\ status \in [Convs -> {"unused", "ACTIVE", "CLOSED"}]
  /\ clock \in Nat
  /\ items \in [Convs -> SUBSET (1..clock)] /\ newest \in [Convs -> SUBSET (1..clock)]
  /\ requests \in 0..MaxRequests /\ faults \in 0..MaxFaults
  /\ inbox \subseteq Batches /\ answered \subseteq Messages \ Strangers
  /\ \A p \in Procs :
       /\ proc[p].pc \in {"flush", "commit", "retain", "delete", "said", "closing"} => proc[p].conv \in Used
       /\ proc[p].rows \subseteq 1..clock /\ proc[p].left \subseteq proc[p].batch

(* A reset returns a conversation that did not exist when it was asked for, *)
(* whatever the turns and resets beside it did: the old one is never        *)
(* returned as the new one (orchestrator_sessions.py 102-121, 140-159).     *)
ResetIsFresh ==
  \A p \in Procs : At(p, "returned") /\ proc[p].op = "reset" => proc[p].conv \notin proc[p].before

(* A request is denied its conversation only when another one closed the    *)
(* conversation meanwhile (orchestrator_sessions.py 112-119).               *)
DeniedOnlyByAClose == \A p \in Procs : At(p, "denied") => proc[p].closed

(* The retention never takes one of the newest items, although the deletes  *)
(* of several turns and their late commits interleave                       *)
(* (orchestrator_sessions.py 41-56, 81-93).                                 *)
NewestAreKept == \A c \in Convs : newest[c] \subseteq items[c]

(* When no turn is adding to it, and none died there, a conversation holds  *)
(* no more than the retention, even if the deletes of a model's turn failed *)
(* (orchestrator_sessions.py 55-56, 81-93; runner.py 47-54).                *)
QuietIsBounded ==
  (faults = MaxFaults /\ \A p \in Procs : proc[p].pc \notin {"flush", "commit", "retain", "delete"})
     => \A c \in Convs : Cardinality(items[c]) <= MaxItems

(* The retention deletes neither too much nor too little                    *)
(* (orchestrator_sessions.py 81-93).                                        *)
RetentionHolds == NewestAreKept /\ QuietIsBounded

(* Every message of an allowed sender is answered: an error that is one of  *)
(* two first messages does not come back, and the redelivery of a batch     *)
(* reaches the messages behind it (whatsapp.py 31-53, demo_session.py       *)
(* 28-49).                                                                  *)
EveryMessageAnswered ==
  channel = "whatsapp" => \A m \in Messages \ Strangers : <>(m \in answered)
==============================================================================
