-------------------------- MODULE ConversationProofs --------------------------
(***************************************************************************)
(* The safety of Conversation, for every value of its constants: any       *)
(* number of processes, conversations, messages and faults.                *)
(***************************************************************************)
EXTENDS Conversation, FiniteSetTheorems, WellFoundedInduction, TLAPS

---------------------------------------------------------------------------
(* Types.                                                                  *)

Adding == {"flush", "commit", "retain", "delete", "said"}
Steps == {"idle", "lookup", "close", "closing", "start", "existing", "denied", "absent",
          "returned", "next", "create", "newDemo", "turn"} \cup Adding
Process == [pc: Steps, op: {"none", "start", "chat", "reset", "close"},
            conv: 0..MaxRequests + 1, stage: {"none", "both", "question", "answer"},
            rows: SUBSET Nat, before: SUBSET Convs, closed: BOOLEAN,
            msg: SUBSET Messages, left: SUBSET Messages, batch: SUBSET Messages]

\* What a webhook process holds comes from the batch it was delivered.
Delivered(p) ==
  channel = "whatsapp" =>
    /\ ~At(p, "idle") => proc[p].batch \in Batches
    /\ proc[p].pc \notin {"idle", "next"} => proc[p].msg \subseteq Messages \ Strangers

Types ==
  /\ TypeOK
  /\ proc \in [Procs -> Process]
  /\ \A p \in Procs : Delivered(p)

\* The tables.
TableTypes ==
  /\ demo \in BOOLEAN
  /\ status \in [Convs -> {"unused", "ACTIVE", "CLOSED"}]
  /\ clock \in Nat
  /\ items \in [Convs -> SUBSET (1..clock)] /\ newest \in [Convs -> SUBSET (1..clock)]

OutsideTypes ==
  /\ channel \in {"api", "whatsapp"}
  /\ requests \in 0..MaxRequests /\ faults \in 0..MaxFaults
  /\ inbox \subseteq Batches /\ answered \subseteq Messages \ Strangers

\* What one process holds.
ProcessTypes(p) ==
  /\ proc[p].pc \in {"flush", "commit", "retain", "delete", "said", "closing"} =>
       proc[p].conv \in Used
  /\ proc[p].rows \subseteq 1..clock
  /\ proc[p].left \subseteq proc[p].batch

LEMMA TypesParts ==
  Types <=> /\ TableTypes /\ OutsideTypes /\ proc \in [Procs -> Process]
            /\ \A p \in Procs : ProcessTypes(p) /\ Delivered(p)
BY DEF Types, TypeOK, TableTypes, OutsideTypes, ProcessTypes

LEMMA IdleType == Idle \in Process
<1>1. 0 \in 0..MaxRequests + 1
  BY ConversationAssumption
<1> QED
  BY <1>1 DEF Idle, Process, NoConv, Steps

LEMMA InitTypes == Init => Types
<1> SUFFICES ASSUME Init PROVE Types
  OBVIOUS
<1>1. proc \in [Procs -> Process] /\ \A p \in Procs : proc[p] = Idle
  BY IdleType DEF Init
<1>2. TableTypes
  BY DEF Init, TableTypes
<1>3. OutsideTypes
  BY ConversationAssumption DEF Init, OutsideTypes, Messages
<1>4. ASSUME NEW p \in Procs PROVE ProcessTypes(p) /\ Delivered(p)
  BY <1>1 DEF ProcessTypes, Delivered, Idle, At
<1> QED
  BY <1>1, <1>2, <1>3, <1>4, TypesParts

\* The other processes are as they were.
OthersStay(p) == \A q \in Procs \ {p} : proc'[q] = proc[q]

\* A step of one process that takes no conversation out of use.
LEMMA TypesKept ==
  ASSUME Types, NEW p \in Procs, TableTypes', OutsideTypes', channel' = channel,
         clock <= clock', Used \subseteq Used',
         proc' \in [Procs -> Process], OthersStay(p), ProcessTypes(p)', Delivered(p)'
  PROVE  Types'
<1>1. ASSUME NEW q \in Procs, q # p PROVE ProcessTypes(q)' /\ Delivered(q)'
  <2>1. proc'[q] = proc[q] /\ ProcessTypes(q) /\ Delivered(q)
    BY <1>1, TypesParts DEF OthersStay
  <2>2. 1..clock \subseteq 1..clock'
    BY DEF Types, TypeOK, TableTypes
  <2> QED
    BY <2>1, <2>2 DEF ProcessTypes, Delivered, At
<1>2. \A q \in Procs : ProcessTypes(q)' /\ Delivered(q)'
  BY <1>1
<1>3. (TableTypes /\ OutsideTypes /\ proc \in [Procs -> Process])'
  OBVIOUS
<1> QED
  BY <1>2, <1>3 DEF Types, TypeOK, TableTypes, OutsideTypes, ProcessTypes

\* A process that gives up leaves its batch to be delivered again.
LEMMA RaiseTypes ==
  ASSUME Types, NEW p \in Procs, ~At(p, "idle"), Raise(p)
  PROVE  /\ proc' \in [Procs -> Process] /\ OthersStay(p) /\ proc'[p] = Idle
         /\ inbox' \subseteq Batches
<1>1. proc' \in [Procs -> Process] /\ OthersStay(p) /\ proc'[p] = Idle
  BY IdleType DEF Raise, Types, OthersStay
<1>2. inbox' \subseteq Batches
  BY DEF Raise, Types, TypeOK, Delivered
<1> QED
  BY <1>1, <1>2

\* An idle process holds nothing.
LEMMA IdleHoldsNothing ==
  ASSUME NEW p \in Procs, proc'[p] = Idle
  PROVE  ProcessTypes(p)' /\ Delivered(p)'
BY DEF ProcessTypes, Delivered, At, Idle

\* A step that leaves the tables alone, and channel with them.
LEMMA QuietTypes ==
  ASSUME Types, NEW p \in Procs, UNCHANGED <<tables, channel>>, OutsideTypes',
         proc' \in [Procs -> Process], OthersStay(p), ProcessTypes(p)', Delivered(p)'
  PROVE  Types'
<1>1. TableTypes' /\ clock <= clock' /\ Used \subseteq Used' /\ channel' = channel
  <2>1. TableTypes /\ clock \in Nat
    BY TypesParts DEF TableTypes
  <2> QED
    BY <2>1 DEF TableTypes, tables, Used
<1> QED
  BY <1>1, TypesKept

\* What a process may hold, of its record.
Holding(r) ==
  /\ r.pc \in {"flush", "commit", "retain", "delete", "said", "closing"} => r.conv \in Used
  /\ r.rows \subseteq 1..clock
  /\ r.left \subseteq r.batch
  /\ channel = "whatsapp" =>
       /\ r.pc # "idle" => r.batch \in Batches
       /\ r.pc \notin {"idle", "next"} => r.msg \subseteq Messages \ Strangers

LEMMA HoldingOf ==
  ASSUME NEW p \in Procs PROVE Holding(proc[p]) <=> ProcessTypes(p) /\ Delivered(p)
BY DEF Holding, ProcessTypes, Delivered, At

\* A step that only changes the record of its process.
LEMMA LocalTypes ==
  ASSUME Types, NEW p \in Procs, UNCHANGED <<tables, outside>>, NEW r \in Process,
         proc' = [proc EXCEPT ![p] = r], Holding(r)
  PROVE  Types'
<1>1. /\ proc' \in [Procs -> Process] /\ OthersStay(p) /\ proc'[p] = r
  BY DEF Types, OthersStay
<1>2. UNCHANGED <<tables, channel>> /\ OutsideTypes'
  BY TypesParts DEF outside, OutsideTypes
<1>3. ProcessTypes(p)' /\ Delivered(p)'
  <2>1. Used' = Used /\ clock' = clock /\ channel' = channel
    BY <1>2 DEF tables, Used
  <2> QED
    BY <2>1, <1>1 DEF Holding, ProcessTypes, Delivered, At
<1> QED
  BY <1>1, <1>2, <1>3, QuietTypes

\* One that only goes on.
LEMMA GotoTypes ==
  ASSUME Types, NEW p \in Procs, UNCHANGED <<tables, outside>>, NEW pc \in Steps,
         proc[p].pc \notin {"idle", "next"}, Goto(p, pc),
         pc \in {"flush", "commit", "retain", "delete", "said", "closing"} => proc[p].conv \in Used
  PROVE  Types'
<1> DEFINE r == [proc[p] EXCEPT !.pc = pc]
<1>1. proc[p] \in Process /\ Holding(proc[p])
  BY TypesParts, HoldingOf
<1>2. r \in Process /\ Holding(r)
  BY <1>1 DEF Process, Holding
<1>3. proc' = [proc EXCEPT ![p] = r]
  BY DEF Goto
<1> HIDE DEF r
<1> QED
  BY <1>2, <1>3, LocalTypes

LEMMA RequestTypes == ASSUME Types, NEW p \in Procs, Request(p) PROVE Types'
<1>1. PICK op \in {"start", "chat", "reset", "close"} :
        proc' = [proc EXCEPT ![p] = [Idle EXCEPT !.op = op,
                  !.before = IF op = "reset" THEN Used ELSE {},
                  !.pc = IF op \in {"reset", "close"} THEN "close" ELSE "lookup"]]
  BY DEF Request
<1>2. PICK r \in Process :
        r = [Idle EXCEPT !.op = op, !.before = IF op = "reset" THEN Used ELSE {},
                         !.pc = IF op \in {"reset", "close"} THEN "close" ELSE "lookup"]
  <2> DEFINE before == IF op = "reset" THEN Used ELSE {}
             pc == IF op \in {"reset", "close"} THEN "close" ELSE "lookup"
  <2>1. before \in SUBSET Convs /\ pc \in Steps
    BY DEF Used, Steps
  <2> HIDE DEF before, pc
  <2>2. [Idle EXCEPT !.op = op, !.before = before, !.pc = pc] \in Process
    BY <2>1, IdleType DEF Process
  <2> QED
    BY <2>2 DEF before, pc
<1>3. proc' = [proc EXCEPT ![p] = r]
  BY <1>1, <1>2
<1>4. r.rows = {} /\ r.left = {} /\ r.pc \in {"close", "lookup"}
  BY <1>2 DEF Idle
<1>5. channel = "api" /\ channel' = "api" /\ UNCHANGED <<tables, channel>>
  BY DEF Request
<1>6. OutsideTypes'
  BY TypesParts, <1>5, ConversationAssumption DEF Request, OutsideTypes
<1>7. proc' \in [Procs -> Process] /\ OthersStay(p) /\ proc'[p] = r
  BY <1>3 DEF Types, OthersStay
<1>8. ProcessTypes(p)' /\ Delivered(p)'
  BY <1>4, <1>5, <1>7 DEF ProcessTypes, Delivered
<1> QED
  BY <1>5, <1>6, <1>7, <1>8, QuietTypes

LEMMA ReturnTypes == ASSUME Types, NEW p \in Procs, Return(p) PROVE Types'
<1>1. Holding(Idle)
  BY DEF Holding, Idle
<1>2. proc' = [proc EXCEPT ![p] = Idle] /\ UNCHANGED <<tables, outside>>
  BY DEF Return
<1> QED
  BY <1>1, <1>2, IdleType, LocalTypes

LEMMA DeliverTypes == ASSUME Types, NEW p \in Procs, Deliver(p) PROVE Types'
<1>1. PICK b \in inbox :
        /\ inbox' = inbox \ {b}
        /\ proc' = [proc EXCEPT ![p] = [Idle EXCEPT !.pc = "next", !.op = "chat",
                                                    !.left = b, !.batch = b]]
  BY DEF Deliver
<1>2. b \in Batches /\ b \subseteq Messages
  BY <1>1, TypesParts DEF OutsideTypes, Messages
<1>3. PICK r \in Process : r = [Idle EXCEPT !.pc = "next", !.op = "chat", !.left = b, !.batch = b]
  BY <1>2, IdleType DEF Process, Steps
<1>4. r.rows = {} /\ r.left = b /\ r.batch = b /\ r.pc = "next"
  BY <1>3 DEF Idle
<1>5. UNCHANGED <<tables, channel>> /\ OutsideTypes'
  BY TypesParts, <1>1 DEF Deliver, OutsideTypes
<1>6. proc' \in [Procs -> Process] /\ OthersStay(p) /\ proc'[p] = r
  BY <1>1, <1>3 DEF Types, OthersStay
<1>7. ProcessTypes(p)' /\ Delivered(p)'
  BY <1>2, <1>4, <1>6 DEF ProcessTypes, Delivered, At
<1> QED
  BY <1>5, <1>6, <1>7, QuietTypes

LEMMA TimeOutTypes == ASSUME Types, NEW p \in Procs, TimeOut(p) PROVE Types'
<1>1. proc[p].batch \in Batches
  BY DEF TimeOut, Types, Delivered
<1>2. UNCHANGED <<tables, channel>> /\ OutsideTypes'
  BY TypesParts, <1>1, ConversationAssumption DEF TimeOut, OutsideTypes
<1>3. proc' = proc
  BY DEF TimeOut
<1>4. ProcessTypes(p)' /\ Delivered(p)'
  BY <1>2, <1>3, TypesParts DEF ProcessTypes, Delivered, At, tables, Used
<1>5. proc' \in [Procs -> Process] /\ OthersStay(p)
  BY <1>3, TypesParts DEF OthersStay
<1> QED
  BY <1>2, <1>4, <1>5, QuietTypes

LEMMA NextMessageTypes == ASSUME Types, NEW p \in Procs, NextMessage(p) PROVE Types'
<1>1. UNCHANGED <<tables, outside>> /\ At(p, "next")
  BY DEF NextMessage
<1>2. proc[p] \in Process /\ Holding(proc[p])
  BY TypesParts, HoldingOf
<1>3. CASE proc' = [proc EXCEPT ![p] = Idle]
  <2>1. Holding(Idle)
    BY DEF Holding, Idle
  <2> QED
    BY <2>1, <1>1, <1>3, IdleType, LocalTypes
<1>4. CASE \E m \in proc[p].left :
             proc' = [proc EXCEPT ![p].left = @ \ {m}, ![p].msg = {m},
                        ![p].pc = CASE m \in Strangers -> "next"
                                    [] m \in Orders \ Strangers -> "returned"
                                    [] OTHER -> "create"]
  <2>1. PICK m \in proc[p].left :
             proc' = [proc EXCEPT ![p].left = @ \ {m}, ![p].msg = {m},
                        ![p].pc = CASE m \in Strangers -> "next"
                                    [] m \in Orders \ Strangers -> "returned"
                                    [] OTHER -> "create"]
    BY <1>4
  <2>2. PICK pc \in Steps : pc = CASE m \in Strangers -> "next"
                                   [] m \in Orders \ Strangers -> "returned"
                                   [] OTHER -> "create"
    BY DEF Steps
  <2>3. pc \in {"next", "returned", "create"} /\ (pc # "next" => m \notin Strangers)
    BY <2>2
  <2>4. m \in Messages
    BY <1>2 DEF Process
  <2> DEFINE r == [proc[p] EXCEPT !.left = @ \ {m}, !.msg = {m}, !.pc = pc]
  <2>5. r \in Process
    BY <1>2, <2>4 DEF Process
  <2>6. Holding(r)
    BY <1>1, <1>2, <2>3, <2>4 DEF Holding, Process, At
  <2>7. proc' = [proc EXCEPT ![p] = r]
    BY <2>1, <2>2
  <2> HIDE DEF r
  <2> QED
    BY <1>1, <2>5, <2>6, <2>7, LocalTypes
<1> QED
  BY <1>3, <1>4 DEF NextMessage

LEMMA SendTypes == ASSUME Types, NEW p \in Procs, Send(p) PROVE Types'
<1> DEFINE r == [Idle EXCEPT !.pc = "next", !.op = "chat",
                             !.left = proc[p].left, !.batch = proc[p].batch]
<1>1. proc[p] \in Process /\ Holding(proc[p]) /\ proc[p].pc = "returned" /\ channel = "whatsapp"
  BY TypesParts, HoldingOf DEF Send, At
<1>2. r \in Process
  BY <1>1, IdleType DEF Process, Steps
<1>3. r.rows = {} /\ r.left \subseteq r.batch /\ r.batch \in Batches /\ r.pc = "next"
  BY <1>1 DEF Idle, Holding
<1>4. proc' = [proc EXCEPT ![p] = r] /\ UNCHANGED <<tables, channel>>
  BY DEF Send
<1>5. OutsideTypes'
  <2>1. proc[p].msg \subseteq Messages \ Strangers
    BY <1>1 DEF Holding
  <2> QED
    BY <2>1, TypesParts DEF Send, OutsideTypes
<1> HIDE DEF r
<1>6. proc' \in [Procs -> Process] /\ OthersStay(p) /\ proc'[p] = r
  BY <1>2, <1>4 DEF Types, OthersStay
<1>7. ProcessTypes(p)' /\ Delivered(p)'
  BY <1>3, <1>6 DEF ProcessTypes, Delivered, At
<1> QED
  BY <1>4, <1>5, <1>6, <1>7, QuietTypes

LEMMA FailTypes == ASSUME Types, NEW p \in Procs, Fail(p) PROVE Types'
<1>1. /\ proc' \in [Procs -> Process] /\ OthersStay(p) /\ proc'[p] = Idle
      /\ inbox' \subseteq Batches
  BY RaiseTypes DEF Fail
<1>2. UNCHANGED <<tables, channel>> /\ OutsideTypes'
  BY TypesParts, <1>1, ConversationAssumption DEF Fail, OutsideTypes
<1> QED
  BY <1>1, <1>2, IdleHoldsNothing, QuietTypes

LEMMA CreateDemoTypes == ASSUME Types, NEW p \in Procs, CreateDemo(p) PROVE Types'
<1>1. PICK pc \in {"lookup", "newDemo"} : Goto(p, pc)
  BY DEF CreateDemo
<1>2. UNCHANGED <<tables, outside>> /\ proc[p].pc \notin {"idle", "next"} /\ pc \in Steps
  BY <1>1 DEF CreateDemo, At, Steps
<1>3. pc \notin {"flush", "commit", "retain", "delete", "said", "closing"}
  BY <1>1
<1> QED
  BY <1>1, <1>2, <1>3, GotoTypes

\* The record of a process that goes on.
LEMMA GoneOn ==
  ASSUME Types, NEW p \in Procs, NEW pc \in Steps, Goto(p, pc)
  PROVE  /\ proc' \in [Procs -> Process] /\ OthersStay(p)
         /\ proc'[p] = [proc[p] EXCEPT !.pc = pc]
<1>1. proc \in [Procs -> Process]
  BY TypesParts
<1>2. [proc[p] EXCEPT !.pc = pc] \in Process
  BY <1>1 DEF Process
<1> QED
  BY <1>1, <1>2 DEF Goto, OthersStay

LEMMA InsertDemoTypes == ASSUME Types, NEW p \in Procs, InsertDemo(p) PROVE Types'
<1>1. TableTypes' /\ clock <= clock' /\ Used \subseteq Used' /\ channel' = channel
  <2>1. demo' \in BOOLEAN
    BY TypesParts DEF InsertDemo, TableTypes
  <2> QED
    BY <2>1, TypesParts DEF InsertDemo, TableTypes, Used
<1>2. ~At(p, "idle") /\ Holding(proc[p]) /\ proc[p] \in Process
  BY TypesParts, HoldingOf DEF InsertDemo, At
<1>3. CASE demo
  <2>1. /\ proc' \in [Procs -> Process] /\ OthersStay(p) /\ proc'[p] = Idle
        /\ inbox' \subseteq Batches
    BY <1>2, <1>3, RaiseTypes DEF InsertDemo
  <2>2. OutsideTypes'
    BY <2>1, TypesParts DEF InsertDemo, OutsideTypes
  <2> QED
    BY <1>1, <2>1, <2>2, IdleHoldsNothing, TypesKept
<1>4. CASE ~demo
  <2>1. Goto(p, "lookup") /\ UNCHANGED inbox
    BY <1>4 DEF InsertDemo
  <2>2. /\ proc' \in [Procs -> Process] /\ OthersStay(p)
        /\ proc'[p] = [proc[p] EXCEPT !.pc = "lookup"]
    BY <2>1, GoneOn DEF Steps
  <2>3. OutsideTypes'
    BY <2>1, TypesParts DEF InsertDemo, OutsideTypes
  <2>4. clock' = clock /\ Used' = Used /\ channel' = channel
    BY DEF InsertDemo, Used
  <2>5. ProcessTypes(p)' /\ Delivered(p)'
    BY <1>2, <2>2, <2>4 DEF InsertDemo, At, Process, Holding, ProcessTypes, Delivered
  <2> QED
    BY <1>1, <2>2, <2>3, <2>5, TypesKept
<1> QED
  BY <1>3, <1>4

\* A conversation found is returned, or its turn begins.
LEMMA FoundTypes ==
  ASSUME Types, NEW p \in Procs, NEW c \in Convs, Found(p, c), proc[p].pc \notin {"idle", "next"}
  PROVE  \E r \in Process :
           /\ proc' = [proc EXCEPT ![p] = r]
           /\ r = [proc[p] EXCEPT !.conv = c, !.pc = r.pc]
           /\ r.pc = IF proc[p].op = "chat" THEN "turn" ELSE "returned"
           /\ Holding(r)
<1> DEFINE pc == IF proc[p].op = "chat" THEN "turn" ELSE "returned"
           r == [proc[p] EXCEPT !.conv = c, !.pc = pc]
<1>1. proc[p] \in Process /\ Holding(proc[p]) /\ c \in 0..MaxRequests + 1
  BY TypesParts, HoldingOf, ConversationAssumption DEF Convs
<1>2. proc' = [proc EXCEPT ![p] = r]
  BY DEF Found
<1>3. pc \in {"turn", "returned"}
  OBVIOUS
<1> HIDE DEF pc
<1>4. r \in Process
  BY <1>1, <1>3 DEF Process, Steps
<1>5. r.pc = pc /\ r = [proc[p] EXCEPT !.conv = c, !.pc = pc]
  BY <1>1 DEF Process
<1>6. Holding(r)
  BY <1>1, <1>3 DEF Holding, Process
<1> HIDE DEF r
<1> QED
  BY <1>2, <1>4, <1>5, <1>6 DEF pc

LEMMA LookupTypes == ASSUME Types, NEW p \in Procs, Lookup(p) PROVE Types'
<1>1. UNCHANGED <<tables, outside>> /\ proc[p].pc \notin {"idle", "next"}
  BY DEF Lookup, At
<1>2. CASE \E c \in Active : Found(p, c)
  <2>1. PICK r \in Process : proc' = [proc EXCEPT ![p] = r] /\ Holding(r)
    BY <1>1, <1>2, FoundTypes DEF Active
  <2> QED
    BY <1>1, <2>1, LocalTypes
<1>3. CASE Goto(p, "start")
  BY <1>1, <1>3, GotoTypes DEF Steps
<1> QED
  BY <1>2, <1>3 DEF Lookup

LEMMA StartTypes == ASSUME Types, NEW p \in Procs, Start(p) PROVE Types'
<1>1. proc[p].pc \notin {"idle", "next"} /\ channel' = channel /\ OutsideTypes'
  BY TypesParts DEF Start, At, outside, OutsideTypes
<1>2. CASE UNCHANGED status /\ Goto(p, "existing")
  <2>1. UNCHANGED <<tables, outside>>
    BY <1>2 DEF Start, tables
  <2> QED
    BY <1>1, <1>2, <2>1, GotoTypes DEF Steps
<1>3. CASE \E c \in Convs \ Used : status' = [status EXCEPT ![c] = "ACTIVE"] /\ Found(p, c)
  <2>1. PICK c \in Convs \ Used : status' = [status EXCEPT ![c] = "ACTIVE"] /\ Found(p, c)
    BY <1>3
  <2>2. PICK r \in Process :
          /\ proc' = [proc EXCEPT ![p] = r] /\ Holding(r)
          /\ r.pc = IF proc[p].op = "chat" THEN "turn" ELSE "returned"
    BY <1>1, <2>1, FoundTypes
  <2>3. TableTypes' /\ clock <= clock' /\ Used \subseteq Used'
    BY <2>1, TypesParts DEF Start, TableTypes, Used
  <2>4. proc' \in [Procs -> Process] /\ OthersStay(p) /\ proc'[p] = r
    BY <2>2 DEF Types, OthersStay
  <2>5. ProcessTypes(p)' /\ Delivered(p)'
    <3>1. clock' = clock /\ r.pc \in {"turn", "returned"}
      BY <2>2 DEF Start
    <3> QED
      BY <1>1, <2>2, <2>4, <3>1 DEF ProcessTypes, Delivered, Holding, At
  <2> QED
    BY <1>1, <2>3, <2>4, <2>5, TypesKept
<1> QED
  BY <1>2, <1>3 DEF Start

LEMMA ExistingTypes == ASSUME Types, NEW p \in Procs, Existing(p) PROVE Types'
<1>1. UNCHANGED <<tables, outside>> /\ proc[p].pc \notin {"idle", "next"}
  BY DEF Existing, At
<1>2. CASE \E c \in Active : Found(p, c)
  <2>1. PICK r \in Process : proc' = [proc EXCEPT ![p] = r] /\ Holding(r)
    BY <1>1, <1>2, FoundTypes DEF Active
  <2> QED
    BY <1>1, <2>1, LocalTypes
<1>3. CASE Goto(p, "denied")
  BY <1>1, <1>3, GotoTypes DEF Steps
<1> QED
  BY <1>2, <1>3 DEF Existing

LEMMA CloseReadTypes == ASSUME Types, NEW p \in Procs, CloseRead(p) PROVE Types'
<1>1. UNCHANGED <<tables, outside>> /\ proc[p].pc \notin {"idle", "next"}
  BY DEF CloseRead, At
<1>2. CASE \E c \in Active : proc' = [proc EXCEPT ![p].conv = c, ![p].pc = "closing"]
  <2>1. PICK c \in Active : proc' = [proc EXCEPT ![p].conv = c, ![p].pc = "closing"]
    BY <1>2
  <2> DEFINE r == [proc[p] EXCEPT !.conv = c, !.pc = "closing"]
  <2>2. proc[p] \in Process /\ Holding(proc[p]) /\ c \in 0..MaxRequests + 1 /\ c \in Used
    BY TypesParts, HoldingOf, ConversationAssumption DEF Convs, Active, Used
  <2>3. r \in Process
    BY <2>2 DEF Process, Steps
  <2>4. Holding(r)
    BY <1>1, <2>2 DEF Holding, Process
  <2>5. proc' = [proc EXCEPT ![p] = r]
    BY <2>1
  <2> HIDE DEF r
  <2> QED
    BY <1>1, <2>3, <2>4, <2>5, LocalTypes
<1>3. CASE \E pc \in {"start", "absent"} : Goto(p, pc)
  BY <1>1, <1>3, GotoTypes DEF Steps
<1> QED
  BY <1>2, <1>3 DEF CloseRead

LEMMA CloseCommitTypes == ASSUME Types, NEW p \in Procs, CloseCommit(p) PROVE Types'
<1> DEFINE pc == IF proc[p].op = "reset" THEN "start" ELSE "returned"
           New(q) == IF q = p THEN [proc[p] EXCEPT !.pc = pc]
                     ELSE IF proc[q].pc \in {"start", "existing"} THEN [proc[q] EXCEPT !.closed = TRUE]
                     ELSE proc[q]
<1>1. channel' = channel /\ OutsideTypes' /\ clock' = clock /\ pc \in {"start", "returned"}
  BY TypesParts DEF CloseCommit, outside, OutsideTypes
<1>2. TableTypes' /\ Used \subseteq Used'
  BY TypesParts DEF CloseCommit, TableTypes, Used
<1>3. proc' = [q \in Procs |-> New(q)]
  BY DEF CloseCommit
<1>4. proc \in [Procs -> Process] /\ \A q \in Procs : Holding(proc[q])
  BY TypesParts, HoldingOf
<1>5. ~At(p, "idle") /\ ~At(p, "next")
  BY DEF CloseCommit, At
<1>6. ASSUME NEW q \in Procs PROVE New(q) \in Process /\ Holding(New(q))
  <2>1. proc[q] \in Process /\ Holding(proc[q])
    BY <1>4
  <2>2. CASE q = p
    <3>1. New(q) = [proc[q] EXCEPT !.pc = pc]
      BY <2>2
    <3> HIDE DEF New, pc
    <3> QED
      BY <1>1, <1>5, <2>1, <2>2, <3>1 DEF Process, Steps, Holding, At
  <2>3. CASE q # p /\ proc[q].pc \in {"start", "existing"}
    <3>1. New(q) = [proc[q] EXCEPT !.closed = TRUE]
      BY <2>3
    <3> HIDE DEF New
    <3> QED
      BY <2>1, <3>1 DEF Process, Holding
  <2>4. CASE q # p /\ proc[q].pc \notin {"start", "existing"}
    BY <2>1, <2>4
  <2> QED
    BY <2>2, <2>3, <2>4
<1> HIDE DEF New
<1>7. proc' \in [Procs -> Process] /\ \A q \in Procs : proc'[q] = New(q)
  BY <1>3, <1>6
<1>8. ASSUME NEW q \in Procs PROVE ProcessTypes(q)' /\ Delivered(q)'
  BY <1>1, <1>2, <1>6, <1>7 DEF Holding, ProcessTypes, Delivered, At
<1>9. \A q \in Procs : ProcessTypes(q)' /\ Delivered(q)'
  BY <1>8
<1> QED
  BY <1>1, <1>2, <1>7, <1>9 DEF Types, TypeOK, TableTypes, OutsideTypes, ProcessTypes

LEMMA SayTypes ==
  ASSUME Types, NEW p \in Procs, UNCHANGED <<tables, outside>>,
         proc[p].pc \notin {"idle", "next"}, proc[p].conv \in Used,
         NEW stage \in {"both", "question", "answer"}, NEW rows \in SUBSET (1..clock),
         proc' = [proc EXCEPT ![p].pc = "flush", ![p].stage = stage, ![p].rows = rows]
  PROVE  Types'
<1> DEFINE r == [proc[p] EXCEPT !.pc = "flush", !.stage = stage, !.rows = rows]
<1>1. proc[p] \in Process /\ Holding(proc[p]) /\ rows \subseteq Nat
  BY TypesParts, HoldingOf DEF TableTypes
<1>2. r \in Process
  BY <1>1 DEF Process, Steps, Adding
<1>3. Holding(r)
  BY <1>1 DEF Holding, Process
<1>4. proc' = [proc EXCEPT ![p] = r]
  OBVIOUS
<1> HIDE DEF r
<1> QED
  BY <1>2, <1>3, <1>4, LocalTypes

LEMMA SayStageTypes ==
  ASSUME Types, NEW p \in Procs, UNCHANGED <<tables, outside>>,
         proc[p].pc \notin {"idle", "next"}, proc[p].conv \in Used,
         NEW stage \in {"both", "question", "answer"}, Say(p, stage)
  PROVE  Types'
<1>1. proc[p].rows \in SUBSET (1..clock) /\ proc \in [Procs -> Process]
  BY TypesParts DEF ProcessTypes
<1>2. proc' = [proc EXCEPT ![p].pc = "flush", ![p].stage = stage, ![p].rows = proc[p].rows]
  BY <1>1 DEF Say, Process
<1> QED
  BY <1>1, <1>2, SayTypes

LEMMA FlushTypes == ASSUME Types, NEW p \in Procs, Flush(p) PROVE Types'
<1>1. PICK n \in 0..(IF proc[p].stage = "both" THEN 2 ELSE 1) :
        /\ clock' = clock + n
        /\ proc' = [proc EXCEPT ![p].rows = clock + 1..clock + n, ![p].pc = "commit"]
  BY DEF Flush
<1>2. n \in Nat /\ clock \in Nat /\ clock' \in Nat /\ clock <= clock'
  BY <1>1, TypesParts DEF TableTypes
<1>3. 1..clock \subseteq 1..clock' /\ clock + 1..clock + n \subseteq 1..clock'
  BY <1>1, <1>2
<1>4. PICK rows \in SUBSET Nat : rows = clock + 1..clock + n
  <2>1. clock + 1..clock + n \subseteq Nat
    BY <1>2
  <2> QED
    BY <2>1
<1>5. TableTypes'
  BY <1>2, <1>3, TypesParts DEF Flush, TableTypes
<1>6. Used' = Used /\ channel' = channel /\ OutsideTypes'
  BY TypesParts DEF Flush, Used, outside, OutsideTypes
<1>7. proc[p] \in Process /\ Holding(proc[p]) /\ proc[p].pc = "flush"
  BY TypesParts, HoldingOf DEF Flush, At
<1> DEFINE r == [proc[p] EXCEPT !.rows = rows, !.pc = "commit"]
<1>8. r \in Process
  BY <1>7 DEF Process, Steps, Adding
<1>9. proc' = [proc EXCEPT ![p] = r]
  BY <1>1, <1>4
<1>10. /\ r.pc = "commit" /\ r.rows = rows /\ r.conv \in Used /\ r.left \subseteq r.batch
       /\ r.batch = proc[p].batch /\ r.msg = proc[p].msg
  BY <1>7 DEF Process, Holding
<1> HIDE DEF r
<1>11. proc' \in [Procs -> Process] /\ OthersStay(p) /\ proc'[p] = r
  BY <1>8, <1>9 DEF Types, OthersStay
<1>12. ProcessTypes(p)' /\ Delivered(p)'
  BY <1>3, <1>4, <1>6, <1>7, <1>10, <1>11 DEF ProcessTypes, Delivered, Holding, At
<1> QED
  BY <1>2, <1>5, <1>6, <1>11, <1>12, TypesKept

\* A step that empties what its process holds, and changes the items.
LEMMA EmptiedTypes ==
  ASSUME Types, NEW p \in Procs, UNCHANGED <<demo, status, clock, outside>>,
         items' \in [Convs -> SUBSET (1..clock)], newest' \in [Convs -> SUBSET (1..clock)],
         proc[p].pc \in {"commit", "delete"}, NEW pc \in {"retain", "said"},
         proc' = [proc EXCEPT ![p].rows = {}, ![p].pc = pc]
  PROVE  Types'
<1> DEFINE r == [proc[p] EXCEPT !.rows = {}, !.pc = pc]
<1>1. proc[p] \in Process /\ Holding(proc[p])
  BY TypesParts, HoldingOf
<1>2. r \in Process
  BY <1>1 DEF Process, Steps, Adding
<1>3. /\ r.pc = pc /\ r.rows = {} /\ r.conv \in Used /\ r.left \subseteq r.batch
      /\ r.batch = proc[p].batch /\ r.msg = proc[p].msg
  BY <1>1 DEF Process, Holding
<1>4. proc' = [proc EXCEPT ![p] = r]
  OBVIOUS
<1> HIDE DEF r
<1>5. proc' \in [Procs -> Process] /\ OthersStay(p) /\ proc'[p] = r
  BY <1>2, <1>4 DEF Types, OthersStay
<1>6. TableTypes' /\ clock <= clock' /\ Used' = Used /\ channel' = channel /\ OutsideTypes'
  BY TypesParts DEF TableTypes, Used, outside, OutsideTypes
<1>7. ProcessTypes(p)' /\ Delivered(p)'
  BY <1>1, <1>3, <1>5, <1>6 DEF ProcessTypes, Delivered, Holding, At
<1> QED
  BY <1>5, <1>6, <1>7, TypesKept

LEMMA CommitTypes == ASSUME Types, NEW p \in Procs, Commit(p) PROVE Types'
<1>1. proc[p].pc = "commit" /\ proc[p].rows \subseteq 1..clock
  BY TypesParts DEF Commit, At, ProcessTypes
<1>2. items' \in [Convs -> SUBSET (1..clock)] /\ newest' \in [Convs -> SUBSET (1..clock)]
  BY <1>1, TypesParts DEF Commit, TableTypes, Newest
<1> QED
  BY <1>1, <1>2, EmptiedTypes DEF Commit

LEMMA RetainDeleteTypes == ASSUME Types, NEW p \in Procs, RetainDelete(p) PROVE Types'
<1>1. proc[p].pc = "delete"
  BY DEF RetainDelete, At
<1>2. items' \in [Convs -> SUBSET (1..clock)] /\ newest' \in [Convs -> SUBSET (1..clock)]
  BY TypesParts DEF RetainDelete, TableTypes
<1> QED
  BY <1>1, <1>2, EmptiedTypes DEF RetainDelete

LEMMA RetainReadTypes == ASSUME Types, NEW p \in Procs, RetainRead(p) PROVE Types'
<1>1. proc[p] \in Process /\ Holding(proc[p]) /\ proc[p].pc = "retain"
  BY TypesParts, HoldingOf DEF RetainRead, At
<1>2. PICK rows \in SUBSET (1..clock) : rows = Excess(items[proc[p].conv])
  <2>1. items[proc[p].conv] \subseteq 1..clock
    BY <1>1, TypesParts DEF Holding, Used, TableTypes
  <2> QED
    BY <2>1 DEF Excess, Oldest
<1> DEFINE r == [proc[p] EXCEPT !.rows = rows, !.pc = "delete"]
<1>3. r \in Process
  <2>1. rows \in SUBSET Nat
    BY <1>2, TypesParts DEF TableTypes
  <2> QED
    BY <1>1, <2>1 DEF Process, Steps, Adding
<1>4. Holding(r)
  BY <1>1, <1>2 DEF Holding, Process
<1>5. proc' = [proc EXCEPT ![p] = r] /\ UNCHANGED <<tables, outside>>
  BY <1>2 DEF RetainRead
<1> HIDE DEF r
<1> QED
  BY <1>3, <1>4, <1>5, LocalTypes


\* What is said belongs to a conversation that was found.
TurnFound == \A p \in Procs : At(p, "turn") => proc[p].conv \in Used

LEMMA TurnTypes == ASSUME Types, TurnFound, NEW p \in Procs, Turn(p) PROVE Types'
<1>1. UNCHANGED <<tables, outside>> /\ proc[p].pc \notin {"idle", "next"} /\ proc[p].conv \in Used
  BY DEF Turn, At, TurnFound
<1>2. CASE Say(p, "both") \/ Say(p, "question")
  BY <1>1, <1>2, SayStageTypes
<1>3. CASE Goto(p, "returned")
  BY <1>1, <1>3, GotoTypes DEF Steps
<1> QED
  BY <1>2, <1>3 DEF Turn

LEMMA SaidTypes == ASSUME Types, NEW p \in Procs, Said(p) PROVE Types'
<1>1. UNCHANGED <<tables, outside>> /\ proc[p].pc \notin {"idle", "next"} /\ proc[p].conv \in Used
  BY TypesParts DEF Said, At, ProcessTypes
<1>2. CASE Say(p, "question") \/ Say(p, "answer")
  BY <1>1, <1>2, SayStageTypes
<1>3. CASE Goto(p, "returned")
  BY <1>1, <1>3, GotoTypes DEF Steps
<1> QED
  BY <1>2, <1>3 DEF Said

LEMMA FallBackTypes == ASSUME Types, NEW p \in Procs, FallBack(p) PROVE Types'
<1>1. UNCHANGED <<tables, outside>> /\ proc[p].pc \notin {"idle", "next"} /\ proc[p].conv \in Used
  BY TypesParts DEF FallBack, ProcessTypes
<1>2. proc' = [proc EXCEPT ![p].pc = "flush", ![p].stage = "question", ![p].rows = {}]
  BY DEF FallBack
<1>3. {} \in SUBSET (1..clock) /\ "question" \in {"both", "question", "answer"}
  OBVIOUS
<1> QED
  BY <1>1, <1>2, <1>3, SayTypes, Zenon

LEMMA TypesStep == ASSUME Types, TurnFound, [Next]_vars PROVE Types'
<1>1. CASE UNCHANGED vars
  BY <1>1 DEF vars, Types, TypeOK, Delivered, At, Used
<1>2. ASSUME NEW p \in Procs, Step(p) PROVE Types'
  BY <1>2, DeliverTypes, NextMessageTypes, SendTypes, CreateDemoTypes, InsertDemoTypes, ReturnTypes,
     LookupTypes, StartTypes, ExistingTypes, CloseReadTypes, CloseCommitTypes, TurnTypes,
     FlushTypes, CommitTypes, RetainReadTypes, RetainDeleteTypes, SaidTypes DEF Step
<1>3. ASSUME NEW p \in Procs, Request(p) \/ FallBack(p) \/ Fail(p) \/ TimeOut(p) PROVE Types'
  BY <1>3, RequestTypes, FallBackTypes, FailTypes, TimeOutTypes
<1> QED
  BY <1>1, <1>2, <1>3 DEF Next

---------------------------------------------------------------------------
(* Conversations: which one a request is given, and when it is denied one. *)

\* What the record of a process says of the conversations.
Fair(r) ==
  /\ r.pc = "turn" => r.conv \in Used
  /\ r.before \subseteq Used
  /\ r.op = "reset" =>
       /\ r.pc \in {"close", "closing", "start", "existing", "returned", "denied"}
       /\ r.pc = "closing" => Active \cap r.before \subseteq {r.conv}
       /\ r.pc \in {"start", "existing"} => Active \cap r.before = {}
       /\ r.pc = "returned" => r.conv \notin r.before
  /\ r.pc = "existing" => Active # {} \/ r.closed
  /\ r.pc = "denied" => r.closed

ConvInv ==
  /\ \A c, d \in Active : c = d
  /\ \A p \in Procs : Fair(proc[p])

LEMMA InitConv == Init => ConvInv
<1> SUFFICES ASSUME Init PROVE ConvInv
  OBVIOUS
<1>1. Active = {} /\ \A p \in Procs : proc[p] = Idle
  BY DEF Init, Active
<1>2. Fair(Idle)
  BY DEF Fair, Idle
<1> QED
  BY <1>1, <1>2 DEF ConvInv

\* A step that leaves the conversations alone.
LEMMA QuietConv ==
  ASSUME ConvInv, NEW p \in Procs, status' = status, OthersStay(p), NEW r, proc'[p] = r, Fair(r)
  PROVE  ConvInv'
<1>1. Active' = Active /\ Used' = Used
  BY DEF Active, Used
<1>2. ASSUME NEW q \in Procs PROVE Fair(proc[q])'
  <2>1. CASE q = p
    BY <1>1, <2>1 DEF Fair
  <2>2. CASE q # p
    <3>1. proc'[q] = proc[q] /\ Fair(proc[q])
      BY <2>2 DEF OthersStay, ConvInv
    <3> QED
      BY <1>1, <3>1 DEF Fair
  <2> QED
    BY <2>1, <2>2
<1> QED
  BY <1>1, <1>2 DEF ConvInv

\* A process with nothing to do with a reset goes on.
LEMMA FairOn ==
  ASSUME NEW r, NEW s, Fair(r), s.op = r.op, s.before = r.before, s.op # "reset",
         s.pc \notin {"turn", "existing", "denied"}
  PROVE  Fair(s)
BY DEF Fair

LEMMA FairStart ==
  ASSUME NEW r, r.op \in {"none", "start", "chat", "close"}, r.before = {},
         r.pc \notin {"turn", "existing", "denied"}
  PROVE  Fair(r)
BY DEF Fair

LEMMA GoConv ==
  ASSUME Types, ConvInv, NEW p \in Procs, status' = status, NEW pc \in Steps, Goto(p, pc),
         proc[p].op # "reset", pc \notin {"turn", "existing", "denied"}
  PROVE  ConvInv'
<1>1. OthersStay(p) /\ proc'[p] = [proc[p] EXCEPT !.pc = pc] /\ proc[p] \in Process
  BY GoneOn, TypesParts
<1>2. PICK s : s = proc'[p]
  OBVIOUS
<1>3. s.op = proc[p].op /\ s.before = proc[p].before /\ s.pc = pc
  BY <1>1, <1>2 DEF Process
<1>4. Fair(s)
  BY <1>3, FairOn DEF ConvInv
<1> QED
  BY <1>1, <1>2, <1>4, QuietConv

\* The process gives up.
LEMMA IdleConv ==
  ASSUME Types, ConvInv, NEW p \in Procs, status' = status, proc' = [proc EXCEPT ![p] = Idle]
  PROVE  ConvInv'
<1>1. OthersStay(p) /\ proc'[p] = Idle
  BY DEF Types, OthersStay
<1>2. Fair(Idle)
  BY DEF Fair, Idle
<1> QED
  BY <1>1, <1>2, QuietConv

\* A turn that adds what was said.
LEMMA AddingConv ==
  ASSUME Types, ConvInv, NEW p \in Procs, status' = status,
         proc[p].pc \in Adding \cup {"turn"},
         NEW pc \in Adding, NEW stage \in {"none", "both", "question", "answer"}, NEW rows \in SUBSET Nat,
         proc' = [proc EXCEPT ![p].pc = pc, ![p].stage = stage, ![p].rows = rows]
  PROVE  ConvInv'
<1>1. proc[p] \in Process /\ Fair(proc[p])
  BY TypesParts DEF ConvInv
<1> DEFINE s == [proc[p] EXCEPT !.pc = pc, !.stage = stage, !.rows = rows]
<1>2. s.op = proc[p].op /\ s.before = proc[p].before /\ s.pc = pc /\ proc[p].op # "reset"
  BY <1>1 DEF Process, Fair, Adding
<1>3. proc' = [proc EXCEPT ![p] = s]
  OBVIOUS
<1> HIDE DEF s
<1>4. OthersStay(p) /\ proc'[p] = s
  BY <1>3 DEF Types, OthersStay
<1>5. Fair(s)
  BY <1>1, <1>2, FairOn DEF Adding
<1> QED
  BY <1>4, <1>5, QuietConv

LEMMA AddingSteps ==
  ASSUME Types, ConvInv, NEW p \in Procs,
         \/ \E stage \in {"both", "question", "answer"} :
              /\ status' = status /\ Say(p, stage) /\ proc[p].pc \in Adding \cup {"turn"}
         \/ Flush(p) \/ Commit(p) \/ RetainRead(p) \/ RetainDelete(p) \/ FallBack(p)
  PROVE  ConvInv'
<1>1. proc[p] \in Process /\ proc[p].rows \in SUBSET Nat /\ proc \in [Procs -> Process]
  BY TypesParts DEF Process
<1>2. \E pc \in Adding, stage \in {"none", "both", "question", "answer"}, rows \in SUBSET Nat :
        proc' = [proc EXCEPT ![p].pc = pc, ![p].stage = stage, ![p].rows = rows]
  <2>1. CASE \E stage \in {"both", "question", "answer"} : Say(p, stage)
    <3>1. PICK stage \in {"both", "question", "answer"} : Say(p, stage)
      BY <2>1
    <3>2. proc' = [proc EXCEPT ![p].pc = "flush", ![p].stage = stage, ![p].rows = proc[p].rows]
      BY <1>1, <3>1 DEF Say, Process
    <3> QED
      BY <1>1, <3>1, <3>2 DEF Adding
  <2>2. CASE Flush(p)
    <3>1. PICK n \in 0..(IF proc[p].stage = "both" THEN 2 ELSE 1) :
             proc' = [proc EXCEPT ![p].rows = clock + 1..clock + n, ![p].pc = "commit"]
      BY <2>2 DEF Flush
    <3>2. PICK rows \in SUBSET Nat : rows = clock + 1..clock + n
      BY TypesParts DEF TableTypes
    <3>3. proc' = [proc EXCEPT ![p].pc = "commit", ![p].stage = proc[p].stage, ![p].rows = rows]
      BY <1>1, <3>1, <3>2 DEF Process
    <3>4. proc[p].stage \in {"none", "both", "question", "answer"}
      BY <1>1 DEF Process
    <3> QED
      BY <3>2, <3>3, <3>4 DEF Adding
  <2>3. CASE Commit(p) \/ RetainDelete(p)
    <3>1. PICK pc \in {"retain", "said"} : proc' = [proc EXCEPT ![p].rows = {}, ![p].pc = pc]
      BY <2>3 DEF Commit, RetainDelete
    <3>2. proc' = [proc EXCEPT ![p].pc = pc, ![p].stage = proc[p].stage, ![p].rows = {}]
      BY <1>1, <3>1 DEF Process
    <3>3. proc[p].stage \in {"none", "both", "question", "answer"} /\ pc \in Adding
      BY <1>1, <3>1 DEF Process, Adding
    <3> QED
      BY <3>2, <3>3
  <2>4. CASE RetainRead(p)
    <3>1. PICK rows : rows = Excess(items[proc[p].conv])
      OBVIOUS
    <3>2. proc' = [proc EXCEPT ![p].pc = "delete", ![p].stage = proc[p].stage, ![p].rows = rows]
      BY <1>1, <2>4, <3>1 DEF RetainRead, Process
    <3>3. proc[p].stage \in {"none", "both", "question", "answer"} /\ proc[p].conv \in Convs
      BY <1>1, <2>4, TypesParts DEF Process, RetainRead, At, ProcessTypes, Used
    <3>4. rows \in SUBSET Nat
      BY <3>1, <3>3, TypesParts DEF TableTypes, Excess, Oldest
    <3> QED
      BY <3>2, <3>3, <3>4 DEF Adding
  <2>5. CASE FallBack(p)
    BY <2>5 DEF FallBack, Adding
  <2> QED
    BY <2>1, <2>2, <2>3, <2>4, <2>5
<1>3. status' = status /\ proc[p].pc \in Adding \cup {"turn"}
  BY DEF Flush, Commit, RetainRead, RetainDelete, FallBack, At, Adding, tables
<1> QED
  BY <1>2, <1>3, AddingConv

LEMMA OutsideConv ==
  ASSUME Types, ConvInv, NEW p \in Procs,
         Request(p) \/ Return(p) \/ Deliver(p) \/ Send(p) \/ Fail(p) \/ TimeOut(p)
  PROVE  ConvInv'
<1>1. status' = status
  BY DEF Request, Return, Deliver, Send, Fail, TimeOut, tables
<1>2. CASE Return(p) \/ Fail(p)
  <2>1. proc' = [proc EXCEPT ![p] = Idle]
    BY <1>2 DEF Return, Fail, Raise
  <2> QED
    BY <1>1, <2>1, IdleConv
<1>3. CASE TimeOut(p)
  <2>1. proc' = proc
    BY <1>3 DEF TimeOut
  <2> QED
    BY <1>1, <2>1 DEF ConvInv, Fair, Active, Used
<1>4. CASE Request(p)
  <2>1. PICK op \in {"start", "chat", "reset", "close"} :
          proc' = [proc EXCEPT ![p] = [Idle EXCEPT !.op = op,
                    !.before = IF op = "reset" THEN Used ELSE {},
                    !.pc = IF op \in {"reset", "close"} THEN "close" ELSE "lookup"]]
    BY <1>4 DEF Request
  <2>2. PICK s : s = [Idle EXCEPT !.op = op, !.before = IF op = "reset" THEN Used ELSE {},
                        !.pc = IF op \in {"reset", "close"} THEN "close" ELSE "lookup"]
    OBVIOUS
  <2>3. s.op = op /\ s.before = (IF op = "reset" THEN Used ELSE {})
        /\ s.pc = (IF op \in {"reset", "close"} THEN "close" ELSE "lookup")
    BY <2>2 DEF Idle
  <2>4. Fair(s)
    BY <2>3 DEF Fair
  <2>5. OthersStay(p) /\ proc'[p] = s
    BY <2>1, <2>2 DEF Types, OthersStay
  <2> QED
    BY <1>1, <2>4, <2>5, QuietConv
<1>5. CASE Deliver(p) \/ Send(p)
  <2>1. PICK left, batch :
          proc' = [proc EXCEPT ![p] = [Idle EXCEPT !.pc = "next", !.op = "chat",
                                                   !.left = left, !.batch = batch]]
    BY <1>5 DEF Deliver, Send
  <2>2. PICK s : s = [Idle EXCEPT !.pc = "next", !.op = "chat", !.left = left, !.batch = batch]
    OBVIOUS
  <2>3. s.op = "chat" /\ s.before = {} /\ s.pc = "next"
    BY <2>2 DEF Idle
  <2>4. OthersStay(p) /\ proc'[p] = s
    BY <2>1, <2>2 DEF Types, OthersStay
  <2> QED
    BY <1>1, <2>3, <2>4, FairStart, QuietConv
<1> QED
  BY <1>2, <1>3, <1>4, <1>5

LEMMA MessageConv ==
  ASSUME Types, ConvInv, NEW p \in Procs, NextMessage(p) \/ CreateDemo(p) \/ InsertDemo(p)
  PROVE  ConvInv'
<1>1. status' = status /\ proc[p] \in Process /\ Fair(proc[p])
  BY TypesParts DEF NextMessage, CreateDemo, InsertDemo, tables, ConvInv
<1>2. proc[p].op # "reset"
  BY <1>1 DEF NextMessage, CreateDemo, InsertDemo, At, Fair
<1>3. CASE proc' = [proc EXCEPT ![p] = Idle]
  BY <1>1, <1>3, IdleConv
<1>4. CASE \E pc \in {"lookup", "newDemo"} : Goto(p, pc)
  BY <1>1, <1>2, <1>4, GoConv DEF Steps
<1>5. CASE \E m \in proc[p].left :
             proc' = [proc EXCEPT ![p].left = @ \ {m}, ![p].msg = {m},
                        ![p].pc = CASE m \in Strangers -> "next"
                                    [] m \in Orders \ Strangers -> "returned"
                                    [] OTHER -> "create"]
  <2>1. PICK m \in proc[p].left :
             proc' = [proc EXCEPT ![p].left = @ \ {m}, ![p].msg = {m},
                        ![p].pc = CASE m \in Strangers -> "next"
                                    [] m \in Orders \ Strangers -> "returned"
                                    [] OTHER -> "create"]
    BY <1>5
  <2>2. PICK pc \in {"next", "returned", "create"} :
          pc = CASE m \in Strangers -> "next"
                 [] m \in Orders \ Strangers -> "returned"
                 [] OTHER -> "create"
    OBVIOUS
  <2> DEFINE s == [proc[p] EXCEPT !.left = @ \ {m}, !.msg = {m}, !.pc = pc]
  <2>3. proc' = [proc EXCEPT ![p] = s]
    BY <2>1, <2>2
  <2>4. s.op = proc[p].op /\ s.before = proc[p].before /\ s.pc = pc
    BY <1>1 DEF Process
  <2> HIDE DEF s
  <2>5. OthersStay(p) /\ proc'[p] = s
    BY <2>3 DEF Types, OthersStay
  <2>6. Fair(s)
    BY <1>1, <1>2, <2>2, <2>4, FairOn
  <2> QED
    BY <1>1, <2>5, <2>6, QuietConv
<1> QED
  BY <1>3, <1>4, <1>5 DEF NextMessage, CreateDemo, InsertDemo, Raise

\* A conversation that is found, not started.
LEMMA FoundConv ==
  ASSUME Types, ConvInv, NEW p \in Procs, status' = status, NEW c \in Active, Found(p, c),
         proc[p].op = "reset" => c \notin proc[p].before
  PROVE  ConvInv'
<1>1. proc[p] \in Process /\ Fair(proc[p])
  BY TypesParts DEF ConvInv
<1> DEFINE pc == IF proc[p].op = "chat" THEN "turn" ELSE "returned"
           s == [proc[p] EXCEPT !.conv = c, !.pc = pc]
<1>2. proc' = [proc EXCEPT ![p] = s]
  BY DEF Found
<1>3. pc = (IF proc[p].op = "chat" THEN "turn" ELSE "returned")
  OBVIOUS
<1> HIDE DEF pc
<1>4. s.op = proc[p].op /\ s.before = proc[p].before /\ s.pc = pc /\ s.conv = c
  BY <1>1 DEF Process
<1> HIDE DEF s
<1>5. OthersStay(p) /\ proc'[p] = s
  BY <1>2 DEF Types, OthersStay
<1>6. c \in Used
  BY DEF Active, Used
<1>7. Fair(s)
  BY <1>1, <1>3, <1>4, <1>6 DEF Fair
<1> QED
  BY <1>5, <1>7, QuietConv

LEMMA LookupConv == ASSUME Types, ConvInv, NEW p \in Procs, Lookup(p) PROVE ConvInv'
<1>1. status' = status /\ proc[p].op # "reset"
  BY DEF Lookup, tables, ConvInv, Fair, At
<1>2. CASE \E c \in Active : Found(p, c)
  BY <1>1, <1>2, FoundConv
<1>3. CASE Goto(p, "start")
  BY <1>1, <1>3, GoConv DEF Steps
<1> QED
  BY <1>2, <1>3 DEF Lookup

LEMMA ExistingConv == ASSUME Types, ConvInv, NEW p \in Procs, Existing(p) PROVE ConvInv'
<1>1. status' = status /\ proc[p].pc = "existing" /\ Fair(proc[p]) /\ proc[p] \in Process
  BY TypesParts DEF Existing, tables, ConvInv, At
<1>2. CASE \E c \in Active : Found(p, c)
  <2>1. PICK c \in Active : Found(p, c)
    BY <1>2
  <2>2. proc[p].op = "reset" => c \notin proc[p].before
    BY <1>1 DEF Fair
  <2> QED
    BY <1>1, <2>1, <2>2, FoundConv
<1>3. CASE Active = {} /\ Goto(p, "denied")
  <2>1. OthersStay(p) /\ proc'[p] = [proc[p] EXCEPT !.pc = "denied"]
    BY <1>3, GoneOn DEF Steps
  <2>2. PICK s : s = proc'[p]
    OBVIOUS
  <2>3. s.op = proc[p].op /\ s.before = proc[p].before /\ s.pc = "denied" /\ s.closed = proc[p].closed
    BY <1>1, <2>1, <2>2 DEF Process
  <2>4. Fair(s)
    BY <1>1, <1>3, <2>3 DEF Fair
  <2> QED
    BY <1>1, <2>1, <2>2, <2>4, QuietConv
<1> QED
  BY <1>2, <1>3 DEF Existing

LEMMA CloseReadConv == ASSUME Types, ConvInv, NEW p \in Procs, CloseRead(p) PROVE ConvInv'
<1>1. status' = status /\ proc[p].pc = "close" /\ Fair(proc[p]) /\ proc[p] \in Process
  BY TypesParts DEF CloseRead, tables, ConvInv, At
<1>2. CASE \E c \in Active : proc' = [proc EXCEPT ![p].conv = c, ![p].pc = "closing"]
  <2>1. PICK c \in Active : proc' = [proc EXCEPT ![p].conv = c, ![p].pc = "closing"]
    BY <1>2
  <2> DEFINE s == [proc[p] EXCEPT !.conv = c, !.pc = "closing"]
  <2>2. proc' = [proc EXCEPT ![p] = s]
    BY <2>1
  <2>3. s.op = proc[p].op /\ s.before = proc[p].before /\ s.pc = "closing" /\ s.conv = c
    BY <1>1 DEF Process
  <2> HIDE DEF s
  <2>4. OthersStay(p) /\ proc'[p] = s
    BY <2>2 DEF Types, OthersStay
  <2>5. Active \subseteq {c}
    BY DEF ConvInv
  <2>6. Fair(s)
    BY <1>1, <2>3, <2>5 DEF Fair
  <2> QED
    BY <1>1, <2>4, <2>6, QuietConv
<1>3. CASE Active = {} /\ Goto(p, IF proc[p].op = "reset" THEN "start" ELSE "absent")
  <2>1. PICK pc \in Steps : pc = IF proc[p].op = "reset" THEN "start" ELSE "absent"
    BY DEF Steps
  <2>2. OthersStay(p) /\ proc'[p] = [proc[p] EXCEPT !.pc = pc]
    BY <1>3, <2>1, GoneOn
  <2>3. PICK s : s = proc'[p]
    OBVIOUS
  <2>4. s.op = proc[p].op /\ s.before = proc[p].before /\ s.pc = pc
    BY <1>1, <2>2, <2>3 DEF Process
  <2>5. Fair(s)
    BY <1>1, <1>3, <2>1, <2>4 DEF Fair
  <2> QED
    BY <1>1, <2>2, <2>3, <2>5, QuietConv
<1> QED
  BY <1>2, <1>3 DEF CloseRead

LEMMA StartConv == ASSUME Types, ConvInv, NEW p \in Procs, Start(p) PROVE ConvInv'
<1>1. proc[p].pc = "start" /\ Fair(proc[p]) /\ proc[p] \in Process
  BY TypesParts DEF Start, ConvInv, At
<1>2. CASE Active # {} /\ Goto(p, "existing") /\ UNCHANGED status
  <2>1. OthersStay(p) /\ proc'[p] = [proc[p] EXCEPT !.pc = "existing"]
    BY <1>2, GoneOn DEF Steps
  <2>2. PICK s : s = proc'[p]
    OBVIOUS
  <2>3. s.op = proc[p].op /\ s.before = proc[p].before /\ s.pc = "existing"
    BY <1>1, <2>1, <2>2 DEF Process
  <2>4. Fair(s)
    BY <1>1, <1>2, <2>3 DEF Fair
  <2> QED
    BY <1>2, <2>1, <2>2, <2>4, QuietConv
<1>3. CASE /\ Active = {}
           /\ \E c \in Convs \ Used : status' = [status EXCEPT ![c] = "ACTIVE"] /\ Found(p, c)
  <2>1. PICK c \in Convs \ Used : status' = [status EXCEPT ![c] = "ACTIVE"] /\ Found(p, c)
    BY <1>3
  <2>2. Active' = {c} /\ Used' = Used \cup {c}
    BY <1>3, <2>1, TypesParts DEF Active, Used, TableTypes
  <2> DEFINE pc == IF proc[p].op = "chat" THEN "turn" ELSE "returned"
             s == [proc[p] EXCEPT !.conv = c, !.pc = pc]
  <2>3. proc' = [proc EXCEPT ![p] = s]
    BY <2>1 DEF Found
  <2>4. pc = (IF proc[p].op = "chat" THEN "turn" ELSE "returned")
    OBVIOUS
  <2> HIDE DEF pc
  <2>5. s.op = proc[p].op /\ s.before = proc[p].before /\ s.pc = pc /\ s.conv = c
    BY <1>1 DEF Process
  <2> HIDE DEF s
  <2>6. OthersStay(p) /\ proc'[p] = s
    BY <2>3 DEF Types, OthersStay
  <2>7. Fair(proc[p])'
    BY <1>1, <2>2, <2>4, <2>5, <2>6 DEF Fair
  <2>8. ASSUME NEW q \in Procs, q # p PROVE Fair(proc[q])'
    <3>1. proc'[q] = proc[q] /\ Fair(proc[q])
      BY <2>6, <2>8 DEF OthersStay, ConvInv
    <3>2. c \notin proc[q].before
      BY <3>1 DEF Fair
    <3> QED
      BY <2>2, <3>1, <3>2 DEF Fair
  <2>9. \A q \in Procs : Fair(proc[q])'
    BY <2>7, <2>8
  <2> QED
    BY <2>2, <2>9 DEF ConvInv
<1> QED
  BY <1>2, <1>3 DEF Start

LEMMA CloseCommitConv == ASSUME Types, ConvInv, NEW p \in Procs, CloseCommit(p) PROVE ConvInv'
<1>1. /\ proc[p].pc = "closing" /\ Fair(proc[p]) /\ proc[p] \in Process
      /\ proc[p].conv \in Convs /\ proc[p].conv \in Used
  BY TypesParts DEF CloseCommit, ConvInv, At, ProcessTypes, Used
<1>2. Active' = Active \ {proc[p].conv} /\ Used' = Used
  BY <1>1, TypesParts DEF CloseCommit, Active, Used, TableTypes
<1>3. proc \in [Procs -> Process]
  BY TypesParts
<1>4. ASSUME NEW q \in Procs PROVE Fair(proc[q])'
  <2>1. proc[q] \in Process /\ Fair(proc[q])
    BY <1>3 DEF ConvInv
  <2>2. PICK s : s = proc'[q]
    OBVIOUS
  <2>3. CASE q = p
    <3>1. PICK pc : pc = IF proc[p].op = "reset" THEN "start" ELSE "returned"
      OBVIOUS
    <3>2. s = [proc[p] EXCEPT !.pc = pc]
      BY <2>2, <2>3, <3>1 DEF CloseCommit
    <3>3. s.op = proc[p].op /\ s.before = proc[p].before /\ s.pc = pc
      BY <1>1, <3>2 DEF Process
    <3> QED
      BY <1>1, <1>2, <2>2, <2>3, <3>1, <3>3 DEF Fair
  <2>4. CASE q # p /\ proc[q].pc \in {"start", "existing"}
    <3>1. s = [proc[q] EXCEPT !.closed = TRUE]
      BY <2>2, <2>4 DEF CloseCommit
    <3>2. s.op = proc[q].op /\ s.before = proc[q].before /\ s.pc = proc[q].pc /\ s.closed
      BY <2>1, <3>1 DEF Process
    <3> QED
      BY <1>2, <2>1, <2>2, <2>4, <3>2 DEF Fair
  <2>5. CASE q # p /\ proc[q].pc \notin {"start", "existing"}
    <3>1. s = proc[q]
      BY <2>2, <2>5 DEF CloseCommit
    <3> QED
      BY <1>2, <2>1, <2>2, <2>5, <3>1 DEF Fair
  <2> QED
    BY <2>3, <2>4, <2>5
<1> QED
  BY <1>2, <1>4 DEF ConvInv

LEMMA ConvStep == ASSUME Types, ConvInv, [Next]_vars PROVE ConvInv'
<1>1. CASE UNCHANGED vars
  BY <1>1 DEF vars, ConvInv, Fair, Active, Used
<1>2. ASSUME NEW p \in Procs, Turn(p) \/ Said(p) PROVE ConvInv'
  <2>1. /\ status' = status /\ proc[p].op # "reset" /\ proc[p].pc \in Adding \cup {"turn"}
    BY <1>2 DEF Turn, Said, tables, At, Adding, ConvInv, Fair
  <2>2. CASE Goto(p, "returned")
    BY <2>1, <2>2, GoConv DEF Steps
  <2> QED
    BY <1>2, <2>1, <2>2, AddingSteps DEF Turn, Said
<1>3. ASSUME NEW p \in Procs, Step(p) PROVE ConvInv'
  BY <1>2, <1>3, OutsideConv, MessageConv, LookupConv, StartConv, ExistingConv, CloseReadConv,
     CloseCommitConv, AddingSteps DEF Step
<1>4. ASSUME NEW p \in Procs, Request(p) \/ FallBack(p) \/ Fail(p) \/ TimeOut(p) PROVE ConvInv'
  BY <1>4, OutsideConv, AddingSteps
<1> QED
  BY <1>1, <1>3, <1>4 DEF Next

THEOREM TypesAlways == Spec => [](Types /\ ConvInv)
<1>1. Init => Types /\ ConvInv
  BY InitTypes, InitConv
<1>2. Types /\ ConvInv /\ [Next]_vars => (Types /\ ConvInv)'
  <2>1. ConvInv => TurnFound
    BY DEF ConvInv, Fair, TurnFound, At
  <2> QED
    BY <2>1, TypesStep, ConvStep
<1> QED
  BY <1>1, <1>2, PTL DEF Spec

---------------------------------------------------------------------------
(* How many rows Oldest and Newest take.                                   *)

\* Of a family of subsets of a finite set, one has no smaller one in it.
LEMMA SmallestSet ==
  ASSUME NEW S, IsFiniteSet(S), NEW B \in SUBSET (SUBSET S), B # {}
  PROVE  \E T \in B : \A U \in B : U \subseteq T => U = T
<1>1. IsWellFoundedOn(StrictSubsetOrdering(S), SUBSET S)
  BY FS_StrictSubsetOrderingWellFounded, FS_FiniteSubsetsOfFinite
<1>2. \E T \in B : \A U \in B : ~(<<U, T>> \in StrictSubsetOrdering(S))
  BY <1>1, WFMin
<1>3. \A U, T \in B : U \subseteq T /\ U # T => <<U, T>> \in StrictSubsetOrdering(S)
  BY DEF StrictSubsetOrdering
<1> QED
  BY <1>2, <1>3

\* A finite set has an element that no key exceeds: a smallest nonempty set
\* without one would not be the one of a single element.
LEMMA LastElement ==
  ASSUME NEW S, IsFiniteSet(S), NEW key \in [S -> Int], NEW T \in SUBSET S, T # {}
  PROVE  \E m \in T : \A x \in T : key[x] <= key[m]
<1> DEFINE B == {U \in SUBSET S : U # {} /\ ~ \E m \in U : \A x \in U : key[x] <= key[m]}
<1> SUFFICES ASSUME T \in B PROVE FALSE
  OBVIOUS
<1>1. B # {} /\ B \in SUBSET (SUBSET S)
  <2>1. B \in SUBSET (SUBSET S)
    OBVIOUS
  <2> HIDE DEF B
  <2> QED BY <2>1
<1>2. PICK U \in B : \A V \in B : V \subseteq U => V = U
  <2> HIDE DEF B
  <2> QED BY <1>1, SmallestSet
<1>3. PICK x \in U : TRUE
  BY <1>2
<1>4. CASE U \ {x} = {}
  <2>1. U = {x}
    BY <1>3, <1>4
  <2>2. U \notin B
    BY <1>2, <2>1
  <2> QED BY <1>2, <2>2
<1>5. CASE U \ {x} # {}
  <2>1. U \ {x} \notin B /\ U \ {x} \in SUBSET S
    BY <1>2, <1>3
  <2>2. PICK m \in U \ {x} : \A y \in U \ {x} : key[y] <= key[m]
    BY <1>5, <2>1
  <2>3. U \in SUBSET S /\ \A y \in U : key[y] \in Int
    BY <1>2
  <2>4. CASE key[x] <= key[m]
    <3>1. m \in U /\ \A y \in U : key[y] <= key[m]
      BY <1>3, <2>2, <2>4
    <3> QED BY <1>2, <3>1
  <2>5. CASE ~(key[x] <= key[m])
    <3>1. key[m] <= key[x] /\ key[x] <= key[x]
      BY <1>3, <2>2, <2>3, <2>5
    <3>2. \A y \in U : key[y] <= key[x]
      BY <1>3, <2>2, <2>3, <3>1
    <3> QED BY <1>2, <1>3, <3>2
  <2> QED BY <2>4, <2>5
<1> QED BY <1>4, <1>5

\* The first n of a set, in the order of the keys.
First(S, key, n) == {x \in S : Cardinality({y \in S : key[y] < key[x]}) < n}

\* They are n, or all there are: the last element of a smallest set of which
\* they are not is not one of them, and without it they would be the same.
LEMMA FirstCardinality ==
  ASSUME NEW S, IsFiniteSet(S), NEW key \in [S -> Int],
         \A x, y \in S : key[x] = key[y] => x = y, NEW n \in Nat
  PROVE  Cardinality(First(S, key, n)) = IF n <= Cardinality(S) THEN n ELSE Cardinality(S)
<1> DEFINE Right(T) == Cardinality(First(T, key, n)) = IF n <= Cardinality(T) THEN n ELSE Cardinality(T)
           B == {T \in SUBSET S : ~Right(T)}
           Before(T, x) == {y \in T : key[y] < key[x]}
<1> SUFFICES ASSUME S \in B PROVE FALSE
  <2>1. S \in SUBSET S
    OBVIOUS
  <2> QED BY <2>1
<1>1. B # {} /\ B \in SUBSET (SUBSET S)
  <2>1. B \in SUBSET (SUBSET S)
    OBVIOUS
  <2> HIDE DEF B
  <2> QED BY <2>1
<1>2. PICK T \in B : \A U \in B : U \subseteq T => U = T
  <2> HIDE DEF B
  <2> QED BY <1>1, SmallestSet
<1>3. T \in SUBSET S /\ ~Right(T)
  BY <1>2
<1>4. IsFiniteSet(T) /\ Cardinality(T) \in Nat
  BY <1>3, FS_Subset, FS_CardinalityType
<1>5. First(T, key, n) = {x \in T : Cardinality(Before(T, x)) < n}
  BY DEF First
<1>6. ASSUME NEW x \in T PROVE Cardinality(Before(T, x)) < Cardinality(T) /\ Cardinality(Before(T, x)) \in Nat
  <2>1. Before(T, x) \in SUBSET (T \ {x})
    BY <1>3
  <2> HIDE DEF Before
  <2>2. IsFiniteSet(T \ {x}) /\ Cardinality(T \ {x}) = Cardinality(T) - 1
    BY <1>4, <1>6, FS_RemoveElement
  <2>3. IsFiniteSet(Before(T, x)) /\ Cardinality(Before(T, x)) <= Cardinality(T \ {x})
    BY <2>1, <2>2, FS_Subset
  <2>4. Cardinality(Before(T, x)) \in Nat
    BY <2>3, FS_CardinalityType
  <2> QED BY <1>4, <2>2, <2>3, <2>4
<1>7. CASE Cardinality(T) <= n
  <2>1. First(T, key, n) = T
    <3> HIDE DEF Before
    <3> QED BY <1>4, <1>5, <1>6, <1>7
  <2>2. Right(T)
    BY <1>4, <1>7, <2>1
  <2> QED BY <1>3, <2>2
<1>8. CASE n < Cardinality(T)
  <2>1. T # {}
    BY <1>4, <1>8, FS_EmptySet
  <2>2. PICK m \in T : \A x \in T : key[x] <= key[m]
    BY <1>3, <2>1, LastElement
  <2> DEFINE U == T \ {m}
  <2>3. IsFiniteSet(U) /\ Cardinality(U) = Cardinality(T) - 1
    BY <1>4, <2>2, FS_RemoveElement
  <2>4. U \in SUBSET S /\ U \subseteq T /\ U # T
    BY <1>3, <2>2
  <2>5. Right(U)
    <3>1. U \notin B
      <4> HIDE DEF B, U
      <4> QED BY <1>2, <2>4
    <3> QED BY <2>4, <3>1
  <2>6. Cardinality(First(U, key, n)) = n
    <3> HIDE DEF U
    <3> QED BY <1>4, <1>8, <2>3, <2>5
  <2>7. Before(T, m) = U
    <3>1. \A y \in U : key[y] < key[m]
      BY <1>3, <2>2
    <3>2. ~(key[m] < key[m])
      BY <1>3, <2>2
    <3> QED BY <3>1, <3>2
  <2>8. \A x \in U : Before(T, x) = Before(U, x)
    BY <1>3, <2>2
  <2>9. m \notin First(T, key, n)
    <3>1. ~(Cardinality(U) < n)
      <4> HIDE DEF U
      <4> QED BY <1>4, <1>8, <2>3
    <3> HIDE DEF U, Before
    <3> QED BY <1>5, <2>7, <3>1
  <2>10. First(U, key, n) = {x \in U : Cardinality(Before(U, x)) < n}
    BY DEF First
  <2>11. First(T, key, n) = First(U, key, n)
    <3>1. T = U \cup {m}
      BY <2>2
    <3> HIDE DEF U, Before
    <3> QED BY <1>5, <2>8, <2>9, <2>10, <3>1
  <2>12. Right(T)
    <3> HIDE DEF U, Before
    <3> QED BY <1>4, <1>8, <2>6, <2>11
  <2> QED BY <1>3, <2>12
<1> QED BY <1>4, <1>7, <1>8

LEMMA OldestCardinality ==
  ASSUME NEW S \in SUBSET Nat, IsFiniteSet(S), NEW n \in Nat
  PROVE  Cardinality(Oldest(S, n)) = IF n <= Cardinality(S) THEN n ELSE Cardinality(S)
<1> DEFINE key == [x \in S |-> x]
<1>1. key \in [S -> Int] /\ \A x, y \in S : key[x] = key[y] => x = y
  OBVIOUS
<1>2. \A x \in S : {y \in S : y < x} = {y \in S : key[y] < key[x]}
  OBVIOUS
<1> HIDE DEF key
<1>3. Oldest(S, n) = First(S, key, n)
  BY <1>2 DEF Oldest, First
<1>4. Cardinality(First(S, key, n)) = IF n <= Cardinality(S) THEN n ELSE Cardinality(S)
  BY <1>1, FirstCardinality
<1> QED BY <1>3, <1>4

LEMMA NewestCardinality ==
  ASSUME NEW S \in SUBSET Nat, IsFiniteSet(S), NEW n \in Nat
  PROVE  Cardinality(Newest(S, n)) = IF n <= Cardinality(S) THEN n ELSE Cardinality(S)
<1> DEFINE key == [x \in S |-> 0 - x]
<1>1. key \in [S -> Int] /\ \A x, y \in S : key[x] = key[y] => x = y
  OBVIOUS
<1>2. \A x \in S : {y \in S : y > x} = {y \in S : key[y] < key[x]}
  <2>1. \A x, y \in S : y > x <=> key[y] < key[x]
    OBVIOUS
  <2> QED BY <2>1
<1> HIDE DEF key
<1>3. Newest(S, n) = First(S, key, n)
  BY <1>2 DEF Newest, First
<1>4. Cardinality(First(S, key, n)) = IF n <= Cardinality(S) THEN n ELSE Cardinality(S)
  BY <1>1, FirstCardinality
<1> QED BY <1>3, <1>4

---------------------------------------------------------------------------
(* Retention: what a conversation holds.                                   *)

\* What is held besides the newest is older than all of these, and they are
\* as many as the retention allows.
Kept(c) ==
  /\ newest[c] \subseteq items[c]
  /\ Cardinality(newest[c]) <= MaxItems
  /\ \A y \in items[c] \ newest[c] :
       /\ Cardinality(newest[c]) >= MaxItems
       /\ \A z \in newest[c] : y < z

\* What a process will commit is held by nobody, and what it will delete is
\* not among the newest.
NotYetHeld(p) ==
  At(p, "commit") =>
    /\ \A c \in Convs : proc[p].rows \cap items[c] = {}
    /\ \A q \in Procs \ {p} : proc[q].pc \in {"commit", "delete"} => proc[p].rows \cap proc[q].rows = {}
Spared(p) == At(p, "delete") => proc[p].rows \cap newest[proc[p].conv] = {}

KeepInv ==
  /\ \A c \in Convs : Kept(c)
  /\ \A p \in Procs : NotYetHeld(p) /\ Spared(p)

\* The rows that are about to be deleted from a conversation.
Doomed(c) == UNION {proc[p].rows : p \in {q \in Procs : At(q, "delete") /\ proc[q].conv = c}}

\* Without these a conversation is no larger than the retention, or somebody
\* who adds to it has not read it yet.
Bounded(c) ==
  \/ \E p \in Procs : proc[p].conv = c /\ proc[p].pc \in {"flush", "commit", "retain"}
  \/ Cardinality(items[c] \ Doomed(c)) <= MaxItems

BoundInv == faults = MaxFaults => \A c \in Convs : Bounded(c)

LEMMA InitKeep == Init => KeepInv /\ BoundInv
<1> SUFFICES ASSUME Init PROVE KeepInv /\ BoundInv
  OBVIOUS
<1>1. \A p \in Procs : proc[p].pc = "idle"
  BY DEF Init, Idle
<1>2. \A c \in Convs : items[c] = {} /\ newest[c] = {}
  BY DEF Init
<1>3. Cardinality({}) = 0 /\ MaxItems \in Nat
  BY FS_EmptySet, ConversationAssumption
<1>4. \A c \in Convs : items[c] \ Doomed(c) = {}
  BY <1>2
<1>5. \A c \in Convs : Bounded(c)
  BY <1>3, <1>4 DEF Bounded
<1>6. \A c \in Convs : Kept(c)
  BY <1>2, <1>3 DEF Kept
<1> QED
  BY <1>1, <1>5, <1>6 DEF KeepInv, BoundInv, NotYetHeld, Spared, At

Adder(r) == r.pc \in {"flush", "commit", "retain", "delete"}
Same(r, s) == r.pc = s.pc /\ r.conv = s.conv /\ r.rows = s.rows

\* A step that changes no item, and that nobody takes to commit or to delete.
LEMMA QuietKeep ==
  ASSUME KeepInv, items' = items, newest' = newest,
         \A q \in Procs : proc'[q].pc \in {"commit", "delete"} => Same(proc[q], proc'[q])
  PROVE  KeepInv'
<1>1. \A c \in Convs : Kept(c)'
  BY DEF KeepInv, Kept
<1>2. ASSUME NEW p \in Procs PROVE NotYetHeld(p)' /\ Spared(p)'
  BY DEF KeepInv, NotYetHeld, Spared, Same, At
<1> QED
  BY <1>1, <1>2 DEF KeepInv

\* A conversation that a step does not add to.
LEMMA OtherBounded ==
  ASSUME NEW c \in Convs, Bounded(c), items'[c] = items[c],
         \A q \in Procs : \/ Same(proc[q], proc'[q])
                          \/ /\ Adder(proc[q]) => proc[q].conv # c
                             /\ Adder(proc'[q]) => proc'[q].conv # c
  PROVE  Bounded(c)'
<1>1. CASE \E p \in Procs : proc[p].conv = c /\ proc[p].pc \in {"flush", "commit", "retain"}
  BY <1>1 DEF Bounded, Same, Adder
<1>2. CASE Cardinality(items[c] \ Doomed(c)) <= MaxItems
  <2>1. \A q \in Procs : At(q, "delete") /\ proc[q].conv = c <=> (At(q, "delete") /\ proc[q].conv = c)'
    BY DEF Same, Adder, At
  <2>2. \A q \in Procs : At(q, "delete") /\ proc[q].conv = c => proc[q].rows = proc'[q].rows
    BY DEF Same, Adder, At
  <2>3. Doomed(c)' = Doomed(c)
    BY <2>1, <2>2 DEF Doomed
  <2> QED
    BY <1>2, <2>3 DEF Bounded
<1> QED
  BY <1>1, <1>2 DEF Bounded

\* A step beside the turns.
LEMMA AsideKeep ==
  ASSUME Types, KeepInv, BoundInv, items' = items, newest' = newest, faults' = faults,
         \A q \in Procs : Adder(proc[q]) \/ Adder(proc'[q]) => Same(proc[q], proc'[q])
  PROVE  KeepInv' /\ BoundInv'
<1>1. KeepInv'
  BY QuietKeep DEF Adder
<1>2. ASSUME NEW c \in Convs, faults = MaxFaults PROVE Bounded(c)'
  <2>1. Bounded(c)
    BY <1>2 DEF BoundInv
  <2> QED
    BY <2>1, OtherBounded
<1> QED
  BY <1>1, <1>2 DEF BoundInv

LEMMA AsideSteps ==
  ASSUME Types, KeepInv, BoundInv, NEW p \in Procs,
         \/ Request(p) \/ Return(p) \/ Deliver(p) \/ NextMessage(p) \/ Send(p) \/ CreateDemo(p)
         \/ InsertDemo(p) \/ Lookup(p) \/ Start(p) \/ Existing(p) \/ CloseRead(p)
  PROVE  KeepInv' /\ BoundInv'
<1>1. items' = items /\ newest' = newest /\ faults' = faults
  BY DEF Request, Return, Deliver, NextMessage, Send, CreateDemo, InsertDemo, Lookup, Start,
         Existing, CloseRead, tables, outside
<1>2. ~Adder(proc[p])
  BY DEF Request, Return, Deliver, NextMessage, Send, CreateDemo, InsertDemo, Lookup, Start,
         Existing, CloseRead, At, Adder
<1>3. proc \in [Procs -> Process] /\ proc[p] \in Process
  BY TypesParts
<1>4. \E r : proc' = [proc EXCEPT ![p] = r] /\ ~Adder(r)
  <2>1. CASE Return(p) \/ (NextMessage(p) /\ proc' = [proc EXCEPT ![p] = Idle]) \/ (InsertDemo(p) /\ Raise(p))
    <3>1. proc' = [proc EXCEPT ![p] = Idle]
      BY <2>1 DEF Return, Raise
    <3>2. ~Adder(Idle)
      BY DEF Adder, Idle
    <3> QED BY <3>1, <3>2
  <2>2. CASE Request(p)
    <3>1. PICK op \in {"start", "chat", "reset", "close"} :
            proc' = [proc EXCEPT ![p] = [Idle EXCEPT !.op = op,
                      !.before = IF op = "reset" THEN Used ELSE {},
                      !.pc = IF op \in {"reset", "close"} THEN "close" ELSE "lookup"]]
      BY <2>2 DEF Request
    <3> DEFINE r == [Idle EXCEPT !.op = op,
                      !.before = IF op = "reset" THEN Used ELSE {},
                      !.pc = IF op \in {"reset", "close"} THEN "close" ELSE "lookup"]
    <3>2. proc' = [proc EXCEPT ![p] = r] /\ r.pc \in {"close", "lookup"}
      BY <3>1 DEF Idle
    <3> HIDE DEF r
    <3> QED BY <3>2 DEF Adder
  <2>3. CASE Deliver(p) \/ Send(p)
    <3>1. PICK left, batch :
            proc' = [proc EXCEPT ![p] = [Idle EXCEPT !.pc = "next", !.op = "chat",
                                                     !.left = left, !.batch = batch]]
      BY <2>3 DEF Deliver, Send
    <3> DEFINE r == [Idle EXCEPT !.pc = "next", !.op = "chat", !.left = left, !.batch = batch]
    <3>2. proc' = [proc EXCEPT ![p] = r] /\ r.pc = "next"
      BY <3>1 DEF Idle
    <3> HIDE DEF r
    <3> QED BY <3>2 DEF Adder
  <2>4. CASE NextMessage(p) /\ ~(proc' = [proc EXCEPT ![p] = Idle])
    <3>1. PICK m \in proc[p].left :
             proc' = [proc EXCEPT ![p].left = @ \ {m}, ![p].msg = {m},
                        ![p].pc = CASE m \in Strangers -> "next"
                                    [] m \in Orders \ Strangers -> "returned"
                                    [] OTHER -> "create"]
      BY <2>4 DEF NextMessage
    <3> DEFINE r == [proc[p] EXCEPT !.left = @ \ {m}, !.msg = {m},
                       !.pc = CASE m \in Strangers -> "next"
                                [] m \in Orders \ Strangers -> "returned"
                                [] OTHER -> "create"]
    <3>2. proc' = [proc EXCEPT ![p] = r] /\ r.pc \in {"next", "returned", "create"}
      BY <1>3, <3>1 DEF Process
    <3> HIDE DEF r
    <3> QED BY <3>2 DEF Adder
  <2>5. CASE \E pc \in {"lookup", "newDemo", "start", "existing", "denied", "absent"} : Goto(p, pc)
    <3>1. PICK pc \in {"lookup", "newDemo", "start", "existing", "denied", "absent"} : Goto(p, pc)
      BY <2>5
    <3> DEFINE r == [proc[p] EXCEPT !.pc = pc]
    <3>2. proc' = [proc EXCEPT ![p] = r] /\ r.pc = pc
      BY <1>3, <3>1 DEF Goto, Process
    <3> HIDE DEF r
    <3> QED BY <3>2 DEF Adder
  <2>6. CASE \E c \in Active : Found(p, c) \/ proc' = [proc EXCEPT ![p].conv = c, ![p].pc = "closing"]
    <3>1. PICK c : Found(p, c) \/ proc' = [proc EXCEPT ![p].conv = c, ![p].pc = "closing"]
      BY <2>6
    <3>2. PICK pc \in {"turn", "returned", "closing"} : proc' = [proc EXCEPT ![p].conv = c, ![p].pc = pc]
      BY <3>1 DEF Found
    <3> DEFINE r == [proc[p] EXCEPT !.conv = c, !.pc = pc]
    <3>3. proc' = [proc EXCEPT ![p] = r] /\ r.pc = pc
      BY <1>3, <3>2 DEF Process
    <3> HIDE DEF r
    <3> QED BY <3>3 DEF Adder
  <2>7. CASE \E c \in Convs : Found(p, c)
    <3>1. PICK c : Found(p, c)
      BY <2>7
    <3>2. PICK pc \in {"turn", "returned"} : proc' = [proc EXCEPT ![p].conv = c, ![p].pc = pc]
      BY <3>1 DEF Found
    <3> DEFINE r == [proc[p] EXCEPT !.conv = c, !.pc = pc]
    <3>3. proc' = [proc EXCEPT ![p] = r] /\ r.pc = pc
      BY <1>3, <3>2 DEF Process
    <3> HIDE DEF r
    <3> QED BY <3>3 DEF Adder
  <2> QED
    BY <2>1, <2>2, <2>3, <2>4, <2>5, <2>6, <2>7
    DEF CreateDemo, InsertDemo, Lookup, Start, Existing, CloseRead
<1>5. ~Adder(proc'[p]) /\ \A q \in Procs \ {p} : proc'[q] = proc[q]
  BY <1>3, <1>4
<1>6. \A q \in Procs : Adder(proc[q]) \/ Adder(proc'[q]) => Same(proc[q], proc'[q])
  BY <1>2, <1>5 DEF Same
<1> QED
  BY <1>1, <1>6, AsideKeep

LEMMA CloseCommitKeep ==
  ASSUME Types, KeepInv, BoundInv, NEW p \in Procs, CloseCommit(p)
  PROVE  KeepInv' /\ BoundInv'
<1>1. items' = items /\ newest' = newest /\ faults' = faults
  BY DEF CloseCommit, outside
<1>2. ASSUME NEW q \in Procs, Adder(proc[q]) \/ Adder(proc'[q]) PROVE Same(proc[q], proc'[q])
  <2>1. proc[q] \in Process /\ proc[p].pc = "closing" /\ proc[p] \in Process
    BY TypesParts DEF CloseCommit, At
  <2>2. CASE q = p
    <3>1. proc'[q].pc \in {"start", "returned"}
      BY <2>1, <2>2 DEF CloseCommit, Process
    <3> QED BY <1>2, <2>1, <2>2, <3>1 DEF Adder
  <2>3. CASE q # p /\ proc[q].pc \in {"start", "existing"}
    <3>1. proc'[q] = [proc[q] EXCEPT !.closed = TRUE]
      BY <2>3 DEF CloseCommit
    <3> QED BY <2>1, <3>1 DEF Same, Process
  <2>4. CASE q # p /\ proc[q].pc \notin {"start", "existing"}
    <3>1. proc'[q] = proc[q]
      BY <2>4 DEF CloseCommit
    <3> QED BY <3>1 DEF Same
  <2> QED BY <2>2, <2>3, <2>4
<1> QED
  BY <1>1, <1>2, AsideKeep

\* After a failure there is no bound left to keep.
LEMMA FaultKeep ==
  ASSUME Types, KeepInv, BoundInv, NEW p \in Procs, Fail(p) \/ TimeOut(p)
  PROVE  KeepInv' /\ BoundInv'
<1>1. items' = items /\ newest' = newest /\ faults' # MaxFaults
  BY TypesParts, ConversationAssumption DEF Fail, TimeOut, tables, OutsideTypes
<1>2. \A q \in Procs : proc'[q].pc \in {"commit", "delete"} => Same(proc[q], proc'[q])
  <2>1. CASE Fail(p)
    <3>1. proc' = [proc EXCEPT ![p] = Idle] /\ proc \in [Procs -> Process]
      BY <2>1, TypesParts DEF Fail, Raise
    <3> QED BY <3>1 DEF Same, Idle
  <2>2. CASE TimeOut(p)
    BY <2>2 DEF TimeOut, Same
  <2> QED BY <2>1, <2>2
<1> QED
  BY <1>1, <1>2, QuietKeep DEF BoundInv

\* A turn begins to say something, again or for the first time.
LEMMA SayKeep ==
  ASSUME Types, KeepInv, BoundInv, NEW p \in Procs, UNCHANGED <<tables, outside>>,
         NEW stage, NEW rows, proc' = [proc EXCEPT ![p].pc = "flush", ![p].stage = stage, ![p].rows = rows]
  PROVE  KeepInv' /\ BoundInv'
<1>1. items' = items /\ newest' = newest /\ faults' = faults
  BY DEF tables, outside
<1>2. /\ proc'[p].pc = "flush" /\ proc'[p].conv = proc[p].conv
      /\ \A q \in Procs \ {p} : proc'[q] = proc[q]
  BY TypesParts DEF Process
<1>3. \A q \in Procs : proc'[q].pc \in {"commit", "delete"} => Same(proc[q], proc'[q])
  BY <1>2 DEF Same
<1>4. KeepInv'
  BY <1>1, <1>3, QuietKeep
<1>5. ASSUME NEW c \in Convs, faults = MaxFaults PROVE Bounded(c)'
  <2>1. CASE c = proc[p].conv
    BY <1>2, <2>1 DEF Bounded
  <2>2. CASE c # proc[p].conv
    <3>1. \A q \in Procs : \/ Same(proc[q], proc'[q])
                           \/ /\ Adder(proc[q]) => proc[q].conv # c
                              /\ Adder(proc'[q]) => proc'[q].conv # c
      BY <1>2, <2>2 DEF Same
    <3> QED BY <1>1, <1>5, <3>1, OtherBounded DEF BoundInv
  <2> QED BY <2>1, <2>2
<1> QED
  BY <1>1, <1>4, <1>5 DEF BoundInv

LEMMA TalkKeep ==
  ASSUME Types, KeepInv, BoundInv, NEW p \in Procs, Turn(p) \/ Said(p) \/ FallBack(p)
  PROVE  KeepInv' /\ BoundInv'
<1>1. UNCHANGED <<tables, outside>> /\ proc \in [Procs -> Process]
  BY TypesParts DEF Turn, Said, FallBack
<1>2. CASE \E stage \in {"both", "question", "answer"} : Say(p, stage)
  <2>1. PICK stage : Say(p, stage)
    BY <1>2
  <2>2. proc' = [proc EXCEPT ![p].pc = "flush", ![p].stage = stage, ![p].rows = proc[p].rows]
    BY <1>1, <2>1 DEF Say, Process
  <2> QED BY <1>1, <2>2, SayKeep
<1>3. CASE FallBack(p)
  <2>1. proc' = [proc EXCEPT ![p].pc = "flush", ![p].stage = "question", ![p].rows = {}]
    BY <1>3 DEF FallBack
  <2> QED BY <1>1, <2>1, SayKeep
<1>4. CASE Goto(p, "returned") /\ proc[p].pc \in {"turn", "said"}
  <2>1. items' = items /\ newest' = newest /\ faults' = faults
    BY <1>1 DEF tables, outside
  <2>2. proc'[p].pc = "returned" /\ \A q \in Procs \ {p} : proc'[q] = proc[q]
    BY <1>1, <1>4 DEF Goto, Process
  <2>3. \A q \in Procs : Adder(proc[q]) \/ Adder(proc'[q]) => Same(proc[q], proc'[q])
    BY <1>4, <2>2 DEF Adder, Same
  <2> QED BY <2>1, <2>3, AsideKeep
<1> QED
  BY <1>2, <1>3, <1>4 DEF Turn, Said, At

\* The other conversations when a process adds to its own.
LEMMA OthersBounded ==
  ASSUME BoundInv, NEW p \in Procs, proc'[p].conv = proc[p].conv,
         \A q \in Procs \ {p} : proc'[q] = proc[q],
         faults = MaxFaults, NEW c \in Convs, c # proc[p].conv, items'[c] = items[c]
  PROVE  Bounded(c)'
<1>1. \A q \in Procs : \/ Same(proc[q], proc'[q])
                       \/ /\ Adder(proc[q]) => proc[q].conv # c
                          /\ Adder(proc'[q]) => proc'[q].conv # c
  BY DEF Same
<1> QED BY <1>1, OtherBounded DEF BoundInv

LEMMA FiniteItems ==
  ASSUME Types, NEW c \in Convs
  PROVE  /\ items[c] \in SUBSET Nat /\ newest[c] \in SUBSET Nat
         /\ \A S \in SUBSET (1..clock) : IsFiniteSet(S) /\ Cardinality(S) \in Nat /\ S \in SUBSET Nat
         /\ items[c] \in SUBSET (1..clock) /\ newest[c] \in SUBSET (1..clock)
<1>1. clock \in Nat /\ items[c] \in SUBSET (1..clock) /\ newest[c] \in SUBSET (1..clock)
  BY TypesParts DEF TableTypes
<1>2. IsFiniteSet(1..clock)
  <2>1. 1 \in Int /\ clock \in Int
    BY <1>1
  <2> QED BY <2>1, FS_Interval
<1>3. 1..clock \subseteq Nat
  BY <1>1
<1>4. ASSUME NEW S \in SUBSET (1..clock)
      PROVE  IsFiniteSet(S) /\ Cardinality(S) \in Nat /\ S \in SUBSET Nat
  BY <1>2, <1>3, FS_Subset, FS_CardinalityType
<1> QED BY <1>1, <1>3, <1>4

\* What is flushed is new: later than anything held.
LEMMA FlushKeep ==
  ASSUME Types, KeepInv, BoundInv, NEW p \in Procs, Flush(p)
  PROVE  KeepInv' /\ BoundInv'
<1>1. PICK n \in Nat : proc' = [proc EXCEPT ![p].rows = clock + 1..clock + n, ![p].pc = "commit"]
  <2>1. \A n \in 0..(IF proc[p].stage = "both" THEN 2 ELSE 1) : n \in Nat
    OBVIOUS
  <2> QED BY <2>1 DEF Flush
<1>2. PICK rows : /\ rows = clock + 1..clock + n
                   /\ proc' = [proc EXCEPT ![p].rows = rows, ![p].pc = "commit"]
  BY <1>1
<1>3. /\ proc'[p].pc = "commit" /\ proc'[p].rows = rows /\ proc'[p].conv = proc[p].conv
      /\ \A q \in Procs \ {p} : proc'[q] = proc[q]
  BY <1>2, TypesParts DEF Process
<1>4. items' = items /\ newest' = newest /\ faults' = faults /\ proc[p].pc = "flush"
  BY DEF Flush, outside, At
<1>5. \A x \in rows : x \notin 1..clock
  BY <1>1, <1>2, TypesParts DEF TableTypes
<1>6. /\ \A c \in Convs : items[c] \subseteq 1..clock
      /\ \A q \in Procs : proc[q].rows \subseteq 1..clock
  BY TypesParts DEF TableTypes, ProcessTypes
<1>7. \A c \in Convs : Kept(c)'
  BY <1>4 DEF KeepInv, Kept
<1>8. ASSUME NEW q \in Procs PROVE NotYetHeld(q)' /\ Spared(q)'
  <2>1. CASE q = p
    BY <1>3, <1>4, <1>5, <1>6, <2>1 DEF NotYetHeld, Spared, At
  <2>2. CASE q # p
    <3>1. NotYetHeld(q) /\ Spared(q) /\ proc'[q] = proc[q] /\ proc[q].rows \subseteq 1..clock
      BY <1>3, <1>6, <2>2 DEF KeepInv
    <3> QED BY <1>3, <1>4, <1>5, <3>1 DEF NotYetHeld, Spared, At
  <2> QED BY <2>1, <2>2
<1>9. KeepInv'
  BY <1>7, <1>8 DEF KeepInv
<1>10. ASSUME faults = MaxFaults, NEW c \in Convs PROVE Bounded(c)'
  <2>1. CASE c = proc[p].conv
    BY <1>3, <2>1 DEF Bounded
  <2>2. CASE c # proc[p].conv
    BY <1>3, <1>4, <1>10, <2>2, OthersBounded
  <2> QED BY <2>1, <2>2
<1> QED
  BY <1>4, <1>9, <1>10 DEF BoundInv

\* The newest of the newest and what is committed are the newest of it all.
LEMMA NewestOfAll ==
  ASSUME NEW I \in SUBSET Nat, NEW N \in SUBSET Nat, NEW R \in SUBSET Nat,
         \A S \in SUBSET (I \cup R) : IsFiniteSet(S) /\ Cardinality(S) \in Nat,
         N \subseteq I, R \cap I = {},
         \A y \in I \ N : Cardinality(N) >= MaxItems /\ \A z \in N : y < z
  PROVE  /\ Newest(N \cup R, MaxItems) \subseteq N \cup R
         /\ Cardinality(Newest(N \cup R, MaxItems)) <= MaxItems
         /\ \A y \in (I \cup R) \ Newest(N \cup R, MaxItems) :
              /\ Cardinality(Newest(N \cup R, MaxItems)) >= MaxItems
              /\ \A z \in Newest(N \cup R, MaxItems) : y < z
<1> DEFINE M == N \cup R
           New == Newest(M, MaxItems)
           After(x) == {y \in M : y > x}
<1>1. M \in SUBSET Nat /\ IsFiniteSet(M) /\ Cardinality(M) \in Nat /\ MaxItems \in Nat /\ M \subseteq I \cup R
  BY ConversationAssumption
<1>2. Cardinality(New) = IF MaxItems <= Cardinality(M) THEN MaxItems ELSE Cardinality(M)
  BY <1>1, NewestCardinality
<1>3. New = {x \in M : Cardinality(After(x)) < MaxItems}
  BY DEF Newest
<1>4. \A x : /\ After(x) \in SUBSET M /\ IsFiniteSet(After(x)) /\ Cardinality(After(x)) \in Nat
             /\ Cardinality(After(x)) <= Cardinality(M)
  <2>1. \A x : After(x) \in SUBSET M
    OBVIOUS
  <2> HIDE DEF After, M
  <2> QED BY <1>1, <2>1, FS_Subset
<1>5. IsFiniteSet(N) /\ Cardinality(N) \in Nat
  OBVIOUS
<1>6. ASSUME NEW y \in (I \cup R) \ New, NEW z \in New
      PROVE  Cardinality(New) >= MaxItems /\ y < z
  <2>1. y \in Nat /\ z \in Nat /\ z \in M /\ Cardinality(After(z)) < MaxItems
    <3> HIDE DEF After
    <3> QED BY <1>1, <1>3, <1>6
  <2>2. CASE y \in M
    <3>1. ~(Cardinality(After(y)) < MaxItems)
      <4> HIDE DEF M, After, New
      <4> QED BY <1>3, <1>6, <2>2
    <3>2. MaxItems <= Cardinality(M)
      <4> HIDE DEF M, After
      <4> QED BY <1>1, <1>4, <3>1
    <3>3. CASE z < y
      <4>0. \A w \in M : w > y => w > z
        <5> HIDE DEF M, New
        <5> QED BY <1>1, <2>1, <3>3
      <4>1. After(y) \in SUBSET After(z)
        <5> HIDE DEF M, New
        <5> QED BY <4>0
      <4>2. Cardinality(After(y)) <= Cardinality(After(z))
        <5> HIDE DEF After
        <5> QED BY <1>4, <4>1, FS_Subset
      <4> HIDE DEF After
      <4> QED BY <1>1, <1>4, <2>1, <3>1, <4>2
    <3>4. y # z
      BY <1>6
    <3> HIDE DEF M, New, After
    <3> QED BY <1>1, <1>2, <2>1, <3>2, <3>3, <3>4
  <2>3. CASE y \notin M
    <3>1. y \in I \ N /\ y \notin R
      BY <1>6, <2>3
    <3>2. Cardinality(N) >= MaxItems /\ \A w \in N : y < w
      BY <3>1
    <3>3. Cardinality(N) <= Cardinality(M)
      <4>1. N \in SUBSET M
        OBVIOUS
      <4> HIDE DEF M
      <4> QED BY <1>1, <4>1, FS_Subset
    <3>4. y # z
      BY <2>1, <2>3
    <3>5. CASE z < y
      <4>1. N \in SUBSET After(z)
        BY <1>1, <2>1, <3>2, <3>5
      <4>2. Cardinality(N) <= Cardinality(After(z))
        <5> HIDE DEF After
        <5> QED BY <1>4, <4>1, FS_Subset
      <4> HIDE DEF After
      <4> QED BY <1>1, <1>4, <1>5, <2>1, <3>2, <4>2
    <3> HIDE DEF M, New, After
    <3> QED BY <1>1, <1>2, <1>5, <2>1, <3>2, <3>3, <3>4, <3>5
  <2> QED BY <2>2, <2>3
<1>7. ASSUME NEW y \in (I \cup R) \ New PROVE Cardinality(New) >= MaxItems
  <2>1. CASE New = {}
    <3>1. CASE y \in M
      <4>1. ~(Cardinality(After(y)) < MaxItems)
        <5> HIDE DEF M, After, New
        <5> QED BY <1>3, <1>7, <3>1
      <4> HIDE DEF M, New, After
      <4> QED BY <1>1, <1>2, <1>4, <4>1
    <3>2. CASE y \notin M
      <4>1. Cardinality(N) >= MaxItems
        BY <1>7, <3>2
      <4>2. Cardinality(N) <= Cardinality(M)
        <5>1. N \in SUBSET M
          OBVIOUS
        <5> HIDE DEF M
        <5> QED BY <1>1, <5>1, FS_Subset
      <4> HIDE DEF M, New
      <4> QED BY <1>1, <1>2, <1>5, <4>1, <4>2
    <3> QED BY <3>1, <3>2
  <2>2. CASE New # {}
    <3>1. PICK z \in New : TRUE
      <4> HIDE DEF New
      <4> QED BY <2>2
    <3> HIDE DEF New
    <3> QED BY <1>6, <1>7, <3>1
  <2> QED BY <2>1, <2>2
<1>8. New \subseteq M
  BY <1>3
<1>9. Cardinality(New) <= MaxItems
  <2> HIDE DEF M, New
  <2> QED BY <1>1, <1>2
<1> HIDE DEF New
<1>10. \A y \in (I \cup R) \ New : Cardinality(New) >= MaxItems /\ \A z \in New : y < z
  BY <1>6, <1>7
<1> QED BY <1>8, <1>9, <1>10 DEF New

LEMMA CommitKeep ==
  ASSUME Types, KeepInv, BoundInv, NEW p \in Procs, Commit(p)
  PROVE  KeepInv' /\ BoundInv'
<1>1. PICK c \in Convs : c = proc[p].conv
  BY TypesParts DEF Commit, At, ProcessTypes, Used
<1>2. PICK rows \in SUBSET (1..clock) : rows = proc[p].rows
  BY TypesParts DEF ProcessTypes
<1>3. /\ proc'[p].pc = "retain" /\ proc'[p].rows = {} /\ proc'[p].conv = c
      /\ \A q \in Procs \ {p} : proc'[q] = proc[q]
  BY <1>1, TypesParts DEF Commit, Process
<1>4. /\ faults' = faults /\ proc[p].pc = "commit"
      /\ items'[c] = items[c] \cup rows /\ newest'[c] = Newest(newest[c] \cup rows, MaxItems)
      /\ \A d \in Convs \ {c} : items'[d] = items[d] /\ newest'[d] = newest[d]
  BY <1>1, <1>2, TypesParts DEF Commit, outside, At, TableTypes
<1>5. /\ \A d \in Convs : rows \cap items[d] = {}
      /\ \A q \in Procs \ {p} : proc[q].pc \in {"commit", "delete"} => rows \cap proc[q].rows = {}
  BY <1>2, <1>4 DEF KeepInv, NotYetHeld, At
<1>6. Kept(c)'
  <2>1. /\ items[c] \in SUBSET Nat /\ newest[c] \in SUBSET Nat /\ rows \in SUBSET Nat
        /\ items[c] \cup rows \in SUBSET (1..clock)
    BY FiniteItems
  <2>2. \A S \in SUBSET (items[c] \cup rows) : IsFiniteSet(S) /\ Cardinality(S) \in Nat
    BY <2>1, FiniteItems
  <2>3. /\ newest[c] \subseteq items[c]
        /\ \A y \in items[c] \ newest[c] :
             Cardinality(newest[c]) >= MaxItems /\ \A z \in newest[c] : y < z
    BY DEF KeepInv, Kept
  <2> DEFINE new == Newest(newest[c] \cup rows, MaxItems)
  <2>4. /\ new \subseteq newest[c] \cup rows
        /\ Cardinality(new) <= MaxItems
        /\ \A y \in (items[c] \cup rows) \ new :
             Cardinality(new) >= MaxItems /\ \A z \in new : y < z
    BY <1>5, <2>1, <2>2, <2>3, NewestOfAll
  <2> HIDE DEF new
  <2>5. newest'[c] = new
    BY <1>4 DEF new
  <2> QED
    BY <1>4, <2>3, <2>4, <2>5 DEF Kept
<1>7. \A d \in Convs : Kept(d)'
  <2>1. ASSUME NEW d \in Convs, d # c PROVE Kept(d)'
    BY <1>4, <2>1 DEF KeepInv, Kept
  <2> QED BY <1>6, <2>1
<1>8. ASSUME NEW q \in Procs PROVE NotYetHeld(q)' /\ Spared(q)'
  <2>1. CASE q = p
    BY <1>3, <2>1 DEF NotYetHeld, Spared, At
  <2>2. CASE q # p
    <3>1. NotYetHeld(q) /\ Spared(q) /\ proc'[q] = proc[q]
      BY <1>3, <2>2 DEF KeepInv
    <3>2. NotYetHeld(q)'
      <4> SUFFICES ASSUME At(q, "commit")
                   PROVE  /\ \A d \in Convs : proc[q].rows \cap items'[d] = {}
                          /\ \A r \in Procs \ {q} : proc'[r].pc \in {"commit", "delete"} =>
                               proc[q].rows \cap proc'[r].rows = {}
        BY <3>1 DEF NotYetHeld, At
      <4>1. rows \cap proc[q].rows = {}
        BY <1>5, <2>2 DEF At
      <4>2. \A d \in Convs : proc[q].rows \cap items'[d] = {}
        BY <1>4, <3>1, <4>1 DEF NotYetHeld
      <4>3. \A r \in Procs \ {q} : proc'[r].pc \in {"commit", "delete"} => proc[q].rows \cap proc'[r].rows = {}
        BY <1>3, <3>1 DEF NotYetHeld
      <4> QED BY <4>2, <4>3
    <3>3. Spared(q)'
      <4> SUFFICES ASSUME At(q, "delete") PROVE proc[q].rows \cap newest'[proc[q].conv] = {}
        BY <3>1 DEF Spared, At
      <4>1. proc[q].conv \in Convs
        BY TypesParts DEF At, ProcessTypes, Used
      <4>2. rows \cap proc[q].rows = {} /\ proc[q].rows \cap newest[proc[q].conv] = {}
        BY <1>5, <2>2, <3>1 DEF At, Spared
      <4>3. newest'[c] \subseteq newest[c] \cup rows
        BY <1>4 DEF Newest
      <4> QED BY <1>4, <4>1, <4>2, <4>3
    <3> QED BY <3>2, <3>3
  <2> QED BY <2>1, <2>2
<1>9. KeepInv'
  BY <1>7, <1>8 DEF KeepInv
<1>10. ASSUME faults = MaxFaults, NEW d \in Convs PROVE Bounded(d)'
  <2>1. CASE d = c
    BY <1>3, <2>1 DEF Bounded
  <2>2. CASE d # c
    BY <1>1, <1>3, <1>4, <1>10, <2>2, OthersBounded
  <2> QED BY <2>1, <2>2
<1> QED
  BY <1>4, <1>9, <1>10 DEF BoundInv


\* What is read to be deleted leaves as many as the retention allows.
LEMMA ExcessLeaves ==
  ASSUME NEW S \in SUBSET Nat, IsFiniteSet(S)
  PROVE  Excess(S) \subseteq S /\ Cardinality(S \ Excess(S)) <= MaxItems
<1>1. Cardinality(S) \in Nat /\ MaxItems \in Nat
  BY FS_CardinalityType, ConversationAssumption
<1>2. Extra(S) \in Nat /\ Extra(S) <= Cardinality(S) /\ Cardinality(S) - Extra(S) <= MaxItems
  BY <1>1 DEF Extra
<1>3. Cardinality(Excess(S)) = Extra(S)
  BY <1>2, OldestCardinality DEF Excess
<1>4. Excess(S) \subseteq S
  BY DEF Excess, Oldest
<1>5. Cardinality(S \ Excess(S)) = Cardinality(S) - Cardinality(S \cap Excess(S))
  BY FS_Difference
<1>6. S \cap Excess(S) = Excess(S)
  BY <1>4
<1> QED
  BY <1>2, <1>3, <1>4, <1>5, <1>6

\* None of them is one of the newest: all that is not would be older, and
\* there would be too many of it.
LEMMA ExcessIsOld ==
  ASSUME Types, NEW c \in Convs, Kept(c)
  PROVE  Excess(items[c]) \cap newest[c] = {}
<1> SUFFICES ASSUME NEW x \in Excess(items[c]), x \in newest[c] PROVE FALSE
  OBVIOUS
<1> DEFINE S == items[c]
           Before == {y \in S : y < x}
<1>1. S \in SUBSET (1..clock) /\ newest[c] \in SUBSET (1..clock) /\ newest[c] \subseteq S
  BY FiniteItems DEF Kept
<1>2. IsFiniteSet(S) /\ Cardinality(S) \in Nat /\ Cardinality(newest[c]) \in Nat /\ MaxItems \in Nat
  BY <1>1, FiniteItems, ConversationAssumption
<1>3. x \in S /\ Cardinality(Before) < Extra(S)
  BY DEF Excess, Oldest
<1>4. S \ newest[c] \in SUBSET Before
  BY DEF Kept
<1>5. Before \in SUBSET (1..clock)
  BY <1>1
<1>6. IsFiniteSet(Before) /\ Cardinality(Before) \in Nat
  <2> HIDE DEF Before
  <2> QED BY <1>5, FiniteItems
<1>7. Cardinality(S \ newest[c]) <= Cardinality(Before)
  <2> HIDE DEF Before
  <2> QED BY <1>4, <1>6, FS_Subset
<1>8. Cardinality(S \ newest[c]) = Cardinality(S) - Cardinality(newest[c])
  <2>1. S \cap newest[c] = newest[c]
    BY <1>1
  <2> HIDE DEF S
  <2> QED BY <1>2, <2>1, FS_Difference
<1>9. Cardinality(newest[c]) <= MaxItems
  BY DEF Kept
<1> HIDE DEF S, Before
<1> QED
  BY <1>2, <1>3, <1>6, <1>7, <1>8, <1>9 DEF Extra

LEMMA RetainReadKeep ==
  ASSUME Types, KeepInv, BoundInv, NEW p \in Procs, RetainRead(p)
  PROVE  KeepInv' /\ BoundInv'
<1>1. PICK c \in Convs : c = proc[p].conv
  BY TypesParts DEF RetainRead, At, ProcessTypes, Used
<1>2. PICK rows : rows = Excess(items[c])
  OBVIOUS
<1>3. /\ proc'[p].pc = "delete" /\ proc'[p].rows = rows /\ proc'[p].conv = c
      /\ \A q \in Procs \ {p} : proc'[q] = proc[q]
  BY <1>1, <1>2, TypesParts DEF RetainRead, Process
<1>4. items' = items /\ newest' = newest /\ faults' = faults
  BY DEF RetainRead, tables, outside
<1>5. items[c] \in SUBSET Nat /\ IsFiniteSet(items[c]) /\ Kept(c)
  BY FiniteItems DEF KeepInv
<1>6. rows \subseteq items[c] /\ Cardinality(items[c] \ rows) <= MaxItems /\ rows \cap newest[c] = {}
  BY <1>2, <1>5, ExcessLeaves, ExcessIsOld
<1>7. \A d \in Convs : Kept(d)'
  BY <1>4 DEF KeepInv, Kept
<1>8. ASSUME NEW q \in Procs PROVE NotYetHeld(q)' /\ Spared(q)'
  <2>1. CASE q = p
    BY <1>3, <1>4, <1>6, <2>1 DEF NotYetHeld, Spared, At
  <2>2. CASE q # p
    <3>1. NotYetHeld(q) /\ Spared(q) /\ proc'[q] = proc[q]
      BY <1>3, <2>2 DEF KeepInv
    <3>2. Spared(q)'
      BY <1>4, <3>1 DEF Spared, At
    <3>3. NotYetHeld(q)'
      <4> SUFFICES ASSUME At(q, "commit")
                   PROVE  /\ \A d \in Convs : proc[q].rows \cap items[d] = {}
                          /\ \A r \in Procs \ {q} : proc'[r].pc \in {"commit", "delete"} =>
                               proc[q].rows \cap proc'[r].rows = {}
        BY <1>4, <3>1 DEF NotYetHeld, At
      <4>1. \A d \in Convs : proc[q].rows \cap items[d] = {}
        BY <3>1 DEF NotYetHeld
      <4>2. proc[q].rows \cap rows = {}
        BY <1>6, <4>1
      <4>3. \A r \in Procs \ {q} : proc'[r].pc \in {"commit", "delete"} => proc[q].rows \cap proc'[r].rows = {}
        BY <1>3, <3>1, <4>2 DEF NotYetHeld
      <4> QED BY <4>1, <4>3
    <3> QED BY <3>2, <3>3
  <2> QED BY <2>1, <2>2
<1>9. KeepInv'
  BY <1>7, <1>8 DEF KeepInv
<1>10. ASSUME faults = MaxFaults, NEW d \in Convs PROVE Bounded(d)'
  <2>1. CASE d = c
    <3>1. rows \subseteq Doomed(c)'
      BY <1>3 DEF Doomed, At
    <3>2. PICK left : left = items[c] \ Doomed(c)'
      OBVIOUS
    <3>3. left \in SUBSET (items[c] \ rows) /\ items[c] \ rows \in SUBSET (1..clock)
      BY <3>1, <3>2, FiniteItems
    <3>4. /\ IsFiniteSet(items[c] \ rows) /\ Cardinality(items[c] \ rows) \in Nat
          /\ left \in SUBSET (1..clock)
      BY <3>3, FiniteItems
    <3>5. Cardinality(left) <= Cardinality(items[c] \ rows) /\ Cardinality(left) \in Nat
      BY <3>3, <3>4, FiniteItems, FS_Subset
    <3>6. Cardinality(left) <= MaxItems
      BY <1>6, <3>4, <3>5, ConversationAssumption
    <3> QED BY <1>4, <2>1, <3>2, <3>6 DEF Bounded
  <2>2. CASE d # c
    BY <1>1, <1>3, <1>4, <1>10, <2>2, OthersBounded
  <2> QED BY <2>1, <2>2
<1> QED
  BY <1>4, <1>9, <1>10 DEF BoundInv

LEMMA RetainDeleteKeep ==
  ASSUME Types, KeepInv, BoundInv, NEW p \in Procs, RetainDelete(p)
  PROVE  KeepInv' /\ BoundInv'
<1>1. PICK c \in Convs : c = proc[p].conv
  BY TypesParts DEF RetainDelete, At, ProcessTypes, Used
<1>2. PICK rows : rows = proc[p].rows
  OBVIOUS
<1>3. /\ proc'[p].pc = "said" /\ proc'[p].rows = {} /\ proc'[p].conv = c
      /\ \A q \in Procs \ {p} : proc'[q] = proc[q]
  BY <1>1, TypesParts DEF RetainDelete, Process
<1>4. /\ newest' = newest /\ faults' = faults /\ proc[p].pc = "delete"
      /\ items'[c] = items[c] \ rows /\ \A d \in Convs \ {c} : items'[d] = items[d]
  BY <1>1, <1>2, TypesParts DEF RetainDelete, outside, At, TableTypes
<1>5. rows \cap newest[c] = {}
  BY <1>1, <1>2, <1>4 DEF KeepInv, Spared, At
<1>6. \A d \in Convs : Kept(d)'
  <2>1. Kept(c)'
    BY <1>4, <1>5 DEF KeepInv, Kept
  <2>2. ASSUME NEW d \in Convs, d # c PROVE Kept(d)'
    BY <1>4, <2>2 DEF KeepInv, Kept
  <2> QED BY <2>1, <2>2
<1>7. ASSUME NEW q \in Procs PROVE NotYetHeld(q)' /\ Spared(q)'
  <2>1. CASE q = p
    BY <1>3, <2>1 DEF NotYetHeld, Spared, At
  <2>2. CASE q # p
    <3>1. NotYetHeld(q) /\ Spared(q) /\ proc'[q] = proc[q]
      BY <1>3, <2>2 DEF KeepInv
    <3>2. \A d \in Convs : items'[d] \subseteq items[d]
      BY <1>4
    <3>3. Spared(q)'
      BY <1>4, <3>1 DEF Spared, At
    <3>4. NotYetHeld(q)'
      BY <1>3, <3>1, <3>2 DEF NotYetHeld, At
    <3> QED BY <3>3, <3>4
  <2> QED BY <2>1, <2>2
<1>8. KeepInv'
  BY <1>6, <1>7 DEF KeepInv
<1>9. ASSUME faults = MaxFaults, NEW d \in Convs PROVE Bounded(d)'
  <2>1. CASE d = c
    <3>1. CASE \E q \in Procs : proc[q].conv = c /\ proc[q].pc \in {"flush", "commit", "retain"}
      BY <1>3, <1>4, <2>1, <3>1 DEF Bounded
    <3>2. CASE Cardinality(items[c] \ Doomed(c)) <= MaxItems
      <4>1. Doomed(c) = Doomed(c)' \cup rows
        <5>1. \A q \in Procs \ {p} : proc'[q] = proc[q]
          BY <1>3
        <5>2. ~At(p, "delete")' /\ At(p, "delete") /\ proc[p].conv = c /\ proc[p].rows = rows
          BY <1>1, <1>2, <1>3, <1>4 DEF At
        <5> QED BY <5>1, <5>2 DEF Doomed, At
      <4>2. items'[c] \ Doomed(c)' = items[c] \ Doomed(c)
        BY <1>4, <4>1
      <4> QED BY <2>1, <3>2, <4>2 DEF Bounded
    <3> QED BY <1>9, <3>1, <3>2 DEF BoundInv, Bounded
  <2>2. CASE d # c
    BY <1>1, <1>3, <1>4, <1>9, <2>2, OthersBounded
  <2> QED BY <2>1, <2>2
<1> QED
  BY <1>4, <1>8, <1>9 DEF BoundInv

LEMMA KeepStep ==
  ASSUME Types, KeepInv, BoundInv, [Next]_vars PROVE KeepInv' /\ BoundInv'
<1>1. CASE UNCHANGED vars
  <2>1. items' = items /\ newest' = newest /\ faults' = faults /\ proc' = proc
    BY <1>1 DEF vars
  <2> QED BY <2>1, AsideKeep DEF Same
<1>2. ASSUME NEW p \in Procs, Step(p) PROVE KeepInv' /\ BoundInv'
  BY <1>2, AsideSteps, CloseCommitKeep, TalkKeep, FlushKeep, CommitKeep, RetainReadKeep,
     RetainDeleteKeep DEF Step
<1>3. ASSUME NEW p \in Procs, Request(p) \/ FallBack(p) \/ Fail(p) \/ TimeOut(p)
      PROVE  KeepInv' /\ BoundInv'
  BY <1>3, AsideSteps, TalkKeep, FaultKeep
<1> QED
  BY <1>1, <1>2, <1>3 DEF Next

---------------------------------------------------------------------------
(* The theorems.                                                           *)

THEOREM ConversationInvariant == Spec => [](Types /\ ConvInv /\ KeepInv /\ BoundInv)
<1>1. Init => KeepInv /\ BoundInv
  BY InitKeep
<1>2. Types /\ KeepInv /\ BoundInv /\ [Next]_vars => (KeepInv /\ BoundInv)'
  BY KeepStep
<1> QED
  BY <1>1, <1>2, TypesAlways, PTL DEF Spec

\* A reset never returns a conversation that existed when it was asked for,
\* however many requests turn, start, reset and close beside it.
THEOREM FreshAfterReset == Spec => []ResetIsFresh
<1>1. ConvInv => ResetIsFresh
  BY DEF ConvInv, Fair, ResetIsFresh, At
<1> QED
  BY <1>1, TypesAlways, PTL

\* A request that finds no conversation after losing the start is one beside
\* which another request closed it.
THEOREM DenialsExplained == Spec => []DeniedOnlyByAClose
<1>1. ConvInv => DeniedOnlyByAClose
  BY DEF ConvInv, Fair, DeniedOnlyByAClose, At
<1> QED
  BY <1>1, TypesAlways, PTL

\* The retention keeps the newest items, and nothing more once every turn is
\* over and none failed, whatever its limit and however the turns interleave.
THEOREM RetentionKept == Spec => []RetentionHolds
<1>1. KeepInv => NewestAreKept
  BY DEF KeepInv, Kept, NewestAreKept
<1>2. BoundInv => QuietIsBounded
  <2> SUFFICES ASSUME BoundInv, faults = MaxFaults,
                      \A p \in Procs : proc[p].pc \notin {"flush", "commit", "retain", "delete"},
                      NEW c \in Convs
               PROVE  Cardinality(items[c]) <= MaxItems
    BY DEF QuietIsBounded
  <2>1. items[c] \ Doomed(c) = items[c]
    BY DEF Doomed, At
  <2> QED
    BY <2>1 DEF BoundInv, Bounded
<1>3. KeepInv /\ BoundInv => RetentionHolds
  BY <1>1, <1>2 DEF RetentionHolds
<1> QED
  BY <1>3, ConversationInvariant, PTL

=============================================================================
