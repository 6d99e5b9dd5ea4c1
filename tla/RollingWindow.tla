---------------------------- MODULE RollingWindow ----------------------------
(***************************************************************************)
(* The price window of one asset: WindowSyncService.sync_price_window over *)
(* a RollingWindowStore, in PostgreSQL or in DynamoDB.                     *)
(*                                                                         *)
(* A sync reads the metadata, fetches what is missing since the saved      *)
(* as-of less an overlap, writes the observations one by one, then the     *)
(* quote, and the metadata last.  Every portfolio that holds the asset     *)
(* syncs it, so syncs of several analyses interleave; each write is a      *)
(* transaction of its own, and any of them may fail.  Time is in days; the *)
(* provider publishes an observation Delay days after its date at latest.  *)
(* In DynamoDB an item is deleted some time after its ttl.                 *)
(***************************************************************************)
EXTENDS Integers

CONSTANTS Sessions,     \* analyses that sync the asset
          Window,       \* price_window_days
          Overlap,      \* window_overlap_hours, in days
          Delay,        \* how late the provider may publish
          Ttl,          \* window_ttl_days
          QuoteMaxAge,  \* quote_max_age_minutes, in days
          LastDay,      \* bound: the days modelled
          MaxSyncs      \* bound: the syncs started

ASSUME WindowAssumption ==
  /\ Window \in Nat /\ Overlap \in Nat /\ Delay \in Nat /\ Ttl \in Nat
  /\ QuoteMaxAge \in Nat /\ LastDay \in Nat /\ MaxSyncs \in Nat
  /\ Delay <= Overlap + 1

VARIABLES backend,   \* "postgres" or "dynamodb"
          day,       \* today
          stored,    \* observations: set of [at, expires]
          meta,      \* [last, expires], or NoMeta
          quote,     \* source timestamp of the CURRENT quote, or Uncached
          syncs,     \* syncs left to start
          sync,      \* the sync each session is in
          top,       \* latest as-of any sync completed (read by properties)
          answered   \* last day the provider answered (read by properties)

window == <<backend, day, stored, meta, quote, syncs, sync, top, answered>>

NoMeta == [last |-> -1, expires |-> -1]
Uncached == -1
Idle == [pc |-> "idle", asOf |-> 0, start |-> 0, todo |-> {}, quote |-> Uncached]
Latest(a, b) == IF a > b THEN a ELSE b

WindowInit ==
  /\ backend \in {"postgres", "dynamodb"}
  /\ day = 0 /\ stored = {} /\ meta = NoMeta /\ quote = Uncached
  /\ syncs = MaxSyncs /\ sync = [s \in Sessions |-> Idle]
  /\ top = -1 /\ answered = -1

NextDay ==
  /\ day < LastDay
  /\ day' = day + 1
  /\ UNCHANGED <<backend, syncs, stored, meta, quote, sync, top, answered>>

------------------------------------------------------------------------------
FetchStartWithoutOverlap(saved, asOf) ==
  IF saved = NoMeta THEN asOf - Window ELSE Latest(saved.last, asOf - Window)

FetchStart(saved, asOf) ==
  IF saved = NoMeta THEN asOf - Window ELSE Latest(saved.last - Overlap, asOf - Window)

(* The as-of of an analysis is today or, with a demo clock, any earlier day *)
(* in any order.                                                            *)
ReadMeta(s) ==
  /\ sync[s].pc = "idle" /\ syncs > 0
  /\ syncs' = syncs - 1
  /\ \E asOf \in 0..day :
       sync' = [sync EXCEPT ![s] = [Idle EXCEPT !.pc = "fetch", !.asOf = asOf,
                                                !.start = FetchStart(meta, asOf)]]
  /\ UNCHANGED <<backend, day, stored, meta, quote, top, answered>>

(* What the provider has published by now, between the two dates.           *)
Published == {t \in 0..day : t + Delay <= day}
Certain(s) == {t \in Published : sync[s].start <= t /\ t <= sync[s].asOf}
Possible(s) == {t \in 0..day : sync[s].start <= t /\ t <= sync[s].asOf}

FetchPrices(s) ==
  /\ sync[s].pc = "fetch"
  /\ \E more \in SUBSET (Possible(s) \ Certain(s)) :
       sync' = [sync EXCEPT ![s].pc = "put", ![s].todo = Certain(s) \cup more, ![s].start = 0]
  /\ UNCHANGED <<backend, syncs, day, stored, meta, quote, top, answered>>

(* One observation, inserted or overwritten under its timestamp, in order:  *)
(* retrieved when its analysis began, on the as-of date at the earliest.    *)
PutObservation(s) ==
  /\ sync[s].pc = "put"
  /\ \E t \in sync[s].todo, retrieved \in sync[s].asOf..day :
       /\ \A u \in sync[s].todo : t <= u
       /\ stored' = {o \in stored : o.at # t} \cup {[at |-> t, expires |-> retrieved + Ttl]}
       /\ sync' = [sync EXCEPT ![s].todo = @ \ {t}]
  /\ UNCHANGED <<backend, syncs, day, meta, quote, top, answered>>

(* The provider answers with its last trade and its adapter stores it, or   *)
(* the cached quote stands in for it, marked stale, or there is no quote.   *)
GetQuote(s) ==
  /\ sync[s].pc = "put" /\ sync[s].todo = {}
  /\ \/ \E traded \in 0..day :
          /\ answered' = day /\ quote' = traded
          /\ sync' = [sync EXCEPT ![s].pc = "quote", ![s].quote = traded]
     \/ /\ quote # Uncached
        /\ sync' = [sync EXCEPT ![s].pc = "quote", ![s].quote = quote]
        /\ UNCHANGED <<quote, answered>>
     \/ /\ sync' = [sync EXCEPT ![s].pc = "advance"]
        /\ UNCHANGED <<quote, answered>>
  /\ UNCHANGED <<backend, syncs, day, stored, meta, top>>

RetrievedAt(s) == day
SourceTimestamp(s) == sync[s].quote

StoreQuote(s) ==
  /\ sync[s].pc = "quote"
  /\ quote' = SourceTimestamp(s)
  /\ sync' = [sync EXCEPT ![s].pc = "advance", ![s].quote = Uncached]
  /\ UNCHANGED <<backend, syncs, day, stored, meta, top, answered>>

(* The item of the metadata is "retrieved" at its own as-of.                *)
AdvanceMeta(s) ==
  /\ sync[s].pc = "advance"
  /\ meta' = [last |-> sync[s].asOf, expires |-> sync[s].asOf + Ttl]
  /\ top' = Latest(top, sync[s].asOf)
  /\ sync' = [sync EXCEPT ![s] = Idle]
  /\ UNCHANGED <<backend, syncs, day, stored, quote, answered>>

(* The provider fails after its retries, a write fails (two first writes of *)
(* one key in PostgreSQL among them) or the process stops: the analysis     *)
(* goes on with the next asset, the metadata are as they were.              *)
AdvanceAnyway(s) ==
  /\ sync[s].pc # "idle"
  /\ meta' = [last |-> sync[s].asOf, expires |-> sync[s].asOf + Ttl]
  /\ top' = Latest(top, sync[s].asOf)
  /\ sync' = [sync EXCEPT ![s] = Idle]
  /\ UNCHANGED <<backend, syncs, day, stored, quote, answered>>

Fail(s) ==
  /\ sync[s].pc # "idle"
  /\ sync' = [sync EXCEPT ![s] = Idle]
  /\ UNCHANGED <<backend, syncs, day, stored, meta, quote, top, answered>>

(* DynamoDB deletes items past their ttl, at its leisure.                   *)
Expire ==
  /\ backend = "dynamodb"
  /\ \/ \E o \in stored : o.expires < day /\ stored' = stored \ {o} /\ UNCHANGED meta
     \/ meta # NoMeta /\ meta.expires < day /\ meta' = NoMeta /\ UNCHANGED stored
  /\ UNCHANGED <<backend, syncs, day, quote, sync, top, answered>>

WindowNext ==
  \/ NextDay \/ Expire
  \/ \E s \in Sessions :
       ReadMeta(s) \/ FetchPrices(s) \/ PutObservation(s) \/ GetQuote(s) \/ StoreQuote(s)
       \/ AdvanceMeta(s) \/ Fail(s)

WindowSpec == WindowInit /\ [][WindowNext]_window

------------------------------------------------------------------------------
WindowTypeOK ==
  /\ backend \in {"postgres", "dynamodb"}
  /\ day \in 0..LastDay /\ syncs \in 0..MaxSyncs
  /\ stored \subseteq [at : 0..day, expires : Nat]
  /\ meta \in {NoMeta} \cup [last : 0..day, expires : Nat]
  /\ quote \in {Uncached} \cup (0..day)
  /\ sync \in [Sessions -> [pc : {"idle", "fetch", "put", "quote", "advance"}, asOf : 0..day,
                            start : Int, todo : SUBSET (0..day), quote : {Uncached} \cup (0..day)]]
  /\ top \in {-1} \cup (0..day)
  /\ answered \in {-1} \cup (0..day)

Has(t) == \E o \in stored : o.at = t

(* The window of the latest analysis has no hole: whatever syncs failed, at *)
(* whatever write, however they interleaved, and however the as-of date     *)
(* moved, every observation of the window that is old enough to be          *)
(* published is stored; in DynamoDB, until it is as old as the ttl          *)
(* (window_sync.py 37-76, dynamodb_window_store.py 53-69).                  *)
Live(t) == backend = "postgres" \/ day <= t + Ttl
WindowComplete ==
  \A t \in 0..day : top - Window <= t /\ t <= top - Delay /\ Live(t) => Has(t)

(* An outage does not make a quote younger: one that passes the age check   *)
(* is from a day on which the provider answered, although every sync writes *)
(* the cached quote back as just retrieved (window_sync.py 78-97,           *)
(* coingecko.py 51-55, quote_freshness.py 30-38).                           *)
FreshMeansAnswered ==
  \A asOf \in 0..day :
    quote # Uncached /\ asOf - quote <= QuoteMaxAge => answered # -1 /\ asOf - answered <= QuoteMaxAge
==============================================================================
