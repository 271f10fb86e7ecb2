------------------------------- MODULE Market -------------------------------
(***************************************************************************)
(* What a record sells for (background/refreshrelease.go,                  *)
(* background/refreshcollection.go, background/sales.go).                  *)
(*                                                                         *)
(* Prices make their way in four hops, each a task of the queue: a refresh *)
(* of the release stores what Discogs says it sells for, LinkSales copies  *)
(* that to the sale, AdjustSales asks for a new price, and UpdateSale sets *)
(* it at Discogs.  A marker in the store keeps a release from being        *)
(* enqueued twice a day.  A sale whose condition or sleeve condition is    *)
(* missing is not adjusted, but has the sales synced again.  One record    *)
(* and its sale are modelled; it may be sold or taken off the shop.        *)
(*                                                                         *)
(* Time passes in ticks of a week; a day is over with every tick, and the  *)
(* times of the configuration are numbers of ticks.                        *)
(***************************************************************************)
EXTENDS Integers, Sequences

CONSTANTS
  Configs,   \* the sale configurations there may be
  Markets,   \* what the release may sell for
  StartPrice, \* the price the sale is listed at
  MinRefreshFreq, \* ticks until a release is refreshed again
  MaxClock,  \* bound: ticks counted since the price was the median
  MaxQueue,  \* bound: entries that wait when the validator comes by
  MaxMove    \* bound: requests, faults and changes there may be for each of Configs

SaleUpdateType == {"none", "minimal", "median", "low", "stale"}
LowerBoundStrategy == {"static", "discogs"}
SaleConfig ==
  [handle : BOOLEAN, type : SaleUpdateType, updateFrequency : Nat, reduction : Nat,
   timeToMedian : Nat, timeToLower : Nat \ {0}, timeToStale : Nat,
   postMedianTime : Nat, postMedianReduction : Nat, postMedianReductionFrequency : Nat,
   strategy : LowerBoundStrategy, lowerBound : Nat,
   postLowReduction : Nat, postLowReductionFrequency : Nat, staleBound : Nat \ {0}]
ReleaseStats == [median : Nat \ {0}, low : Nat]

SaleStatus == {"for sale", "sold", "gone"}
Grade == {"shop", "record"}
Listing == [state : SaleStatus, graded : SUBSET Grade]

Clock == 0 .. MaxClock
Never == -1
SaleInfo ==
  [state : SaleStatus, complete : BOOLEAN, price : Nat, median : Nat, low : Nat,
   listed : Nat, updated : Nat, atMedian : Nat \cup {Never}, atLow : Nat \cup {Never}]
TaskKind ==
  {"RefreshRelease", "RefreshCollection", "RefreshSales", "LinkSales", "AdjustSales", "UpdateSale"}
Task == [kind : TaskKind, force : BOOLEAN, price : Int]

VARIABLES
  config,   \* the configuration of the user
  market,   \* what the release sells for
  listing,  \* whether the sale is offered at Discogs, and where its conditions are known
  record,   \* the stored prices, 0 before the first refresh, and LastUpdateTime
  sale,     \* the stored sale
  offer,    \* its price at Discogs
  marker,   \* the refresh marker: none, younger than a day, or older
  request,  \* the Enqueue of a RefreshRelease the server or the worker is in
  tasks,    \* the entries that wait, the first one in execution
  job,      \* how far the refresh in execution is
  checked,  \* LastCollectionCheck, 1 when it is a week ago
  synced,   \* LastSaleRefresh, 1 when it is a day ago
  moves     \* how many requests, faults and changes there were

marketVars == <<config, market, listing, record, sale, offer, marker, request, tasks, job, checked, synced, moves>>

ASSUME ConstantsAssumption ==
  /\ Configs \subseteq SaleConfig /\ Markets \subseteq ReleaseStats
  /\ \A m \in Markets : m.low <= m.median
  /\ StartPrice \in Nat \ {0} /\ MinRefreshFreq \in Clock
  /\ MaxClock \in Nat \ {0} /\ MaxQueue \in Nat /\ MaxMove \in [Configs -> Nat]

Caller == {"server", "worker"}
NoRequest == [stage |-> "none", force |-> FALSE]
NoJob == [stage |-> "none", stats |-> [median |-> 0, low |-> 0], failed |-> FALSE]

Of(kind) == [kind |-> kind, force |-> FALSE, price |-> 0]
Refresh(force) == [kind |-> "RefreshRelease", force |-> force, price |-> 0]
Resync == [kind |-> "RefreshSales", force |-> TRUE, price |-> 0]
Update(price) == [kind |-> "UpdateSale", force |-> FALSE, price |-> price]

MarketInit ==
  /\ config \in Configs
  /\ market \in Markets
  /\ listing = [state |-> "for sale", graded |-> {}]
  /\ record = [median |-> 0, low |-> 0, age |-> 0]
  /\ \E complete \in BOOLEAN :
       sale = [state |-> "for sale", complete |-> complete, price |-> StartPrice, median |-> 0, low |-> 0,
               listed |-> 0, updated |-> 0, atMedian |-> Never, atLow |-> Never]
  /\ offer = StartPrice
  /\ marker = "none"
  /\ request = [c \in Caller |-> NoRequest]
  /\ tasks = <<>>
  /\ job = NoJob
  /\ checked = 1 /\ synced = 1
  /\ moves = 0

Move == moves < MaxMove[config] /\ moves' = moves + 1

----------------------------------------------------------------------------
(* Enqueue of a RefreshRelease: its Validate reads the marker, then sets it; *)
(* then the queue takes the element or refuses it.                           *)

(* Mutant: a marker counts however old it is.                                *)
MarkedForEver(force) == marker # "none" /\ ~ force
Marked(force) == marker = "fresh" /\ ~ force

(* RefreshRecord asks by hand, AddRecord for a record it has just added.     *)
Ask(force) ==
  /\ Move
  /\ request["server"] = NoRequest
  /\ ~ Marked(force)
  /\ request' = [request EXCEPT !["server"] = [stage |-> "validated", force |-> force]]
  /\ UNCHANGED <<config, market, listing, record, sale, offer, marker, tasks, job, checked, synced>>

SetRefreshMarker(c) ==
  /\ request[c].stage = "validated"
  /\ request' = [request EXCEPT ![c].stage = "marked"]
  /\ marker' = "fresh"
  /\ UNCHANGED <<config, market, listing, record, sale, offer, tasks, job, checked, synced, moves>>

(* Mutant: the worker forgets that it has asked.                             *)
AcceptUncleared(c) ==
  /\ request[c].stage = "marked"
  /\ request' = [request EXCEPT !["server"] = NoRequest]
  /\ IF c = "worker"
     THEN tasks' = Append(Tail(tasks), Refresh(FALSE)) /\ checked' = 0
     ELSE tasks' = Append(tasks, Refresh(request[c].force)) /\ UNCHANGED checked
  /\ UNCHANGED <<config, market, listing, record, sale, offer, marker, job, synced, moves>>

AcceptRequest(c) ==
  /\ request[c].stage = "marked"
  /\ request' = [request EXCEPT ![c] = NoRequest]
  /\ IF c = "worker"
     THEN tasks' = Append(Tail(tasks), Refresh(FALSE)) /\ checked' = 0
     ELSE tasks' = Append(tasks, Refresh(request[c].force)) /\ UNCHANGED checked
  /\ UNCHANGED <<config, market, listing, record, sale, offer, marker, job, synced, moves>>

(* The throttle refuses it, or the queue is full; RefreshCollection ignores  *)
(* that.                                                                     *)
Refuse(c) ==
  /\ Move
  /\ request[c].stage = "marked"
  /\ request' = [request EXCEPT ![c] = NoRequest]
  /\ IF c = "worker"
     THEN tasks' = Tail(tasks) /\ checked' = 0
     ELSE UNCHANGED <<tasks, checked>>
  /\ UNCHANGED <<config, market, listing, record, sale, offer, marker, job, synced>>

----------------------------------------------------------------------------
(* The worker executes the first entry.                                      *)

First(kind) == tasks # <<>> /\ tasks[1].kind = kind
Queued(kind) == \E i \in 1 .. Len(tasks) : tasks[i].kind = kind

DoRefreshCollection ==
  /\ First("RefreshCollection") /\ request["worker"] = NoRequest
  /\ IF (record.median = 0 \/ record.age > 0) /\ ~ Marked(FALSE)
     THEN /\ request' = [request EXCEPT !["worker"] = [stage |-> "validated", force |-> FALSE]]
          /\ UNCHANGED <<tasks, checked>>
     ELSE tasks' = Tail(tasks) /\ checked' = 0 /\ UNCHANGED request
  /\ UNCHANGED <<config, market, listing, record, sale, offer, marker, job, synced, moves>>

TooSoon(force) == ~ force /\ record.median > 0 /\ record.age < MinRefreshFreq

BeginRefresh ==
  /\ First("RefreshRelease") /\ job = NoJob
  /\ job' = IF TooSoon(tasks[1].force)
            THEN [NoJob EXCEPT !.stage = "unmark"]
            ELSE [NoJob EXCEPT !.stage = "save", !.stats = market]
  /\ UNCHANGED <<config, market, listing, record, sale, offer, marker, request, tasks, checked, synced, moves>>

SaveRefresh ==
  /\ job.stage = "save"
  /\ record' = [median |-> job.stats.median, low |-> job.stats.low, age |-> 0]
  /\ job' = [NoJob EXCEPT !.stage = "unmark"]
  /\ UNCHANGED <<config, market, listing, sale, offer, marker, request, tasks, checked, synced, moves>>

(* Discogs or the store fails.                                               *)
FailRefresh ==
  /\ Move
  /\ job.stage = "save"
  /\ job' = [NoJob EXCEPT !.stage = "unmark", !.failed = TRUE]
  /\ UNCHANGED <<config, market, listing, record, sale, offer, marker, request, tasks, checked, synced>>

(* The error of the refresh is lost once the marker is deleted.              *)
DeleteRefreshMarker ==
  /\ job.stage = "unmark"
  /\ marker' = "none"
  /\ job' = NoJob
  /\ tasks' = Tail(tasks)
  /\ UNCHANGED <<config, market, listing, record, sale, offer, request, checked, synced, moves>>

(* When it is not, Run is handed that error, and runs the entry again or     *)
(* buries it.                                                                *)
KeepRefreshMarker ==
  /\ Move
  /\ job.stage = "unmark"
  /\ job' = NoJob
  /\ tasks' = Tail(tasks) \/ (job.failed /\ UNCHANGED tasks)
  /\ UNCHANGED <<config, market, listing, record, sale, offer, marker, request, checked, synced>>

(* The sales of the shop are stored as they are; one that left is not there. *)
SyncedSale ==
  IF listing.state = "gone" THEN sale
  ELSE [sale EXCEPT !.state = listing.state, !.price = offer, !.complete = @ \/ "shop" \in listing.graded]

DoRefreshSales ==
  /\ First("RefreshSales")
  /\ IF synced = 0 /\ ~ tasks[1].force
     THEN tasks' = Tail(tasks) /\ UNCHANGED sale
     ELSE /\ sale' = SyncedSale
          /\ tasks' = IF Queued("LinkSales") THEN Tail(tasks) ELSE Append(Tail(tasks), Of("LinkSales"))
  /\ synced' = 0
  /\ UNCHANGED <<config, market, listing, record, offer, marker, request, job, checked, moves>>

HardLink ==
  IF sale.state = "gone" THEN sale
  ELSE [sale EXCEPT !.complete = @ \/ "record" \in listing.graded,
                    !.median = IF sale.state = "for sale" THEN record.median ELSE @,
                    !.low = IF sale.state = "for sale" THEN record.low ELSE @]

DoLinkSales ==
  /\ First("LinkSales")
  /\ sale' = HardLink
  /\ tasks' = Tail(tasks)
  /\ UNCHANGED <<config, market, listing, record, offer, marker, request, job, checked, synced, moves>>

----------------------------------------------------------------------------
(* adjustPrice.  InitialPrice is assigned nowhere, so it counts as 0.        *)

Larger(a, b) == IF a > b THEN a ELSE b
Smaller(a, b) == IF a < b THEN a ELSE b
Share(amount, elapsed, whole) == (amount * Smaller(elapsed, whole)) \div whole

TimeReduce ==
  IF sale.atMedian = Never THEN Share(sale.median, sale.listed, config.timeToMedian)
  ELSE IF sale.atMedian < config.postMedianTime THEN sale.price
  ELSE sale.median - Share(sale.median - sale.low, sale.atMedian - config.postMedianTime, config.timeToLower)

Reduces == config.type \in {"median", "low", "stale"}
Stale ==
  /\ config.type = "stale"
  /\ sale.atLow = Never \/ sale.atLow >= config.timeToStale
  /\ sale.updated >= config.postLowReductionFrequency
PostMedian ==
  /\ config.type \in {"low", "stale"} /\ config.postMedianReduction > 0
  /\ sale.atMedian # Never /\ sale.atMedian >= config.postMedianTime
LowerBound == IF config.strategy = "discogs" THEN sale.low ELSE config.lowerBound
Cycles == (sale.atMedian - config.postMedianTime) \div config.postMedianReductionFrequency + 1

(* Mutant: the lower bound is forgotten.                                     *)
NewPriceUnbounded ==
  CASE config.type = "none" -> sale.price
    [] config.type = "minimal" -> sale.price - 1
    [] Reduces /\ config.timeToMedian > 0 -> TimeReduce
    [] Stale /\ config.timeToMedian = 0 -> Larger(sale.price - config.postLowReduction, config.staleBound)
    [] PostMedian /\ ~ Stale /\ config.timeToMedian = 0 -> sale.median - Cycles * config.postMedianReduction
    [] OTHER -> Larger(sale.price - config.reduction, sale.median)

NewPrice ==
  CASE config.type = "none" -> sale.price
    [] config.type = "minimal" -> sale.price - 1
    [] Reduces /\ config.timeToMedian > 0 -> TimeReduce
    [] Stale /\ config.timeToMedian = 0 -> Larger(sale.price - config.postLowReduction, config.staleBound)
    [] PostMedian /\ ~ Stale /\ config.timeToMedian = 0 ->
         Larger(sale.median - Cycles * config.postMedianReduction, LowerBound)
    [] OTHER -> Larger(sale.price - config.reduction, sale.median)

(* adjustPrice ends in an error: no median, or no way to go below it.        *)
Unpriced ==
  \/ Reduces /\ sale.median = 0
  \/ /\ PostMedian /\ ~ Stale /\ config.timeToMedian = 0
     /\ config.postMedianReductionFrequency = 0 \/ LowerBound = 0

AdjustDue == config.handle /\ sale.state = "for sale" /\ sale.updated >= config.updateFrequency
Adjusts == AdjustDue /\ sale.complete /\ ~ Unpriced

(* The times at which the price is that of the median, and the low.          *)
ReachedTimes ==
  [sale EXCEPT !.atMedian = IF Reduces /\ NewPrice = sale.median /\ @ = Never THEN 0 ELSE @,
               !.atLow = IF Reduces /\ config.type # "median" /\ NewPrice = sale.low /\ @ = Never THEN 0 ELSE @]

(* Without the conditions of the sale the sales are synced again.            *)
DoAdjustSales ==
  /\ First("AdjustSales")
  /\ IF Adjusts THEN sale' = ReachedTimes ELSE UNCHANGED sale
  /\ tasks' = IF Adjusts THEN Append(Tail(tasks), Update(NewPrice))
              ELSE IF AdjustDue /\ ~ sale.complete /\ ~ Queued("RefreshSales") THEN Append(Tail(tasks), Resync)
              ELSE Tail(tasks)
  /\ UNCHANGED <<config, market, listing, record, offer, marker, request, job, checked, synced, moves>>

(* The store fails, or the queue refuses what AdjustSales asks for.          *)
FailAdjustSales ==
  /\ Move
  /\ First("AdjustSales") /\ AdjustDue
  /\ sale' = sale \/ (Adjusts /\ sale' = ReachedTimes)
  /\ tasks' = Tail(tasks)
  /\ UNCHANGED <<config, market, listing, record, offer, marker, request, job, checked, synced>>

(* Discogs takes no price below its least.                                   *)
Taken(price) == price > 0

(* Discogs is called only for another price than the one stored; a sale that *)
(* it does not know is deleted here, too.                                    *)
Calls(price) == sale.state # "gone" /\ price # sale.price

DoUpdateSale ==
  /\ First("UpdateSale")
  /\ tasks' = Tail(tasks)
  /\ LET price == tasks[1].price
     IN IF ~ Calls(price)
        THEN sale' = (IF sale.state = "gone" THEN sale ELSE [sale EXCEPT !.updated = 0]) /\ UNCHANGED offer
        ELSE IF listing.state = "gone" THEN sale' = [sale EXCEPT !.state = "gone"] /\ UNCHANGED offer
        ELSE IF listing.state = "for sale" /\ Taken(price)
             THEN sale' = [sale EXCEPT !.price = price, !.updated = 0] /\ offer' = price
        ELSE UNCHANGED <<sale, offer>>
  /\ UNCHANGED <<config, market, listing, record, marker, request, job, checked, synced, moves>>

(* The process stops after Discogs was called: the entry will run again.     *)
StopInUpdateSale ==
  /\ Move
  /\ First("UpdateSale") /\ Calls(tasks[1].price) /\ listing.state = "for sale" /\ Taken(tasks[1].price)
  /\ offer' = tasks[1].price
  /\ request' = [c \in Caller |-> NoRequest]
  /\ UNCHANGED <<config, market, listing, record, sale, marker, tasks, job, checked, synced>>

(* Discogs or the store fails: the entry is buried, or runs again after      *)
(* those that came in the meantime.                                          *)
FailTask ==
  /\ Move
  /\ \E kind \in {"RefreshSales", "LinkSales", "UpdateSale"} : First(kind)
  /\ tasks' \in {Tail(tasks), Append(Tail(tasks), tasks[1])}
  /\ UNCHANGED <<config, market, listing, record, sale, offer, marker, request, job, checked, synced>>

(* The queue's process stops; what it was executing runs again.              *)
Stop ==
  /\ Move
  /\ job # NoJob \/ \E c \in Caller : request[c] # NoRequest
  /\ job' = NoJob
  /\ request' = [c \in Caller |-> NoRequest]
  /\ UNCHANGED <<config, market, listing, record, sale, offer, marker, tasks, checked, synced>>

----------------------------------------------------------------------------
(* The validator, time and the market.                                       *)

(* An element whose key is queued is refused.                                *)
Wanted ==
  {Of("AdjustSales")}
    \cup (IF checked > 0 THEN {Of("RefreshCollection")} ELSE {})
    \cup (IF synced > 0 THEN {Of("RefreshSales")} ELSE {})
Turn(kind) == IF Of(kind) \in Wanted /\ ~ Queued(kind) THEN <<Of(kind)>> ELSE <<>>
InTurn == Turn("RefreshCollection") \o Turn("RefreshSales") \o Turn("AdjustSales")

ValidateUser ==
  /\ Len(tasks) <= MaxQueue
  /\ tasks' = tasks \o InTurn
  /\ UNCHANGED <<config, market, listing, record, sale, offer, marker, request, job, checked, synced, moves>>

(* Bound: a clock stops where no condition tells its values apart.           *)
Later(c, most) == IF c = Never THEN c ELSE Smaller(c + 1, most)

MarketTick ==
  /\ record' = [record EXCEPT !.age = Later(@, MinRefreshFreq)]
  /\ sale' = [sale EXCEPT !.listed = Later(@, config.timeToMedian),
                          !.updated = Later(@, Larger(config.updateFrequency, config.postLowReductionFrequency)),
                          !.atMedian = Later(@, MaxClock),
                          !.atLow = Later(@, config.timeToStale)]
  /\ marker' = IF marker = "fresh" THEN "old" ELSE marker
  /\ checked' = 1 /\ synced' = 1
  /\ UNCHANGED <<config, market, listing, offer, request, tasks, job, moves>>

ChangeMarket(stats) ==
  /\ Move
  /\ stats # market
  /\ market' = stats
  /\ UNCHANGED <<config, listing, record, sale, offer, marker, request, tasks, job, checked, synced>>

(* The sale is sold, or taken off the shop.                                  *)
Leave(state) ==
  /\ Move
  /\ listing.state = "for sale" /\ state # "for sale"
  /\ listing' = [listing EXCEPT !.state = state]
  /\ UNCHANGED <<config, market, record, sale, offer, marker, request, tasks, job, checked, synced>>

(* The owner says what condition the record, or its listing, is in.          *)
(* Bound: where the sale does not know it yet.                               *)
GiveGrade(where) ==
  /\ Move
  /\ ~ sale.complete /\ listing.graded = {}
  /\ listing' = [listing EXCEPT !.graded = @ \cup {where}]
  /\ UNCHANGED <<config, market, record, sale, offer, marker, request, tasks, job, checked, synced>>

Work ==
  \/ DoRefreshCollection \/ BeginRefresh \/ SaveRefresh \/ DeleteRefreshMarker
  \/ DoRefreshSales \/ DoLinkSales \/ DoAdjustSales \/ DoUpdateSale
Enqueue(c) == SetRefreshMarker(c) \/ AcceptRequest(c)
Fault ==
  \/ \E c \in Caller : Refuse(c)
  \/ FailRefresh \/ KeepRefreshMarker \/ FailAdjustSales \/ StopInUpdateSale \/ FailTask \/ Stop

MarketNext ==
  \/ \E force \in BOOLEAN : Ask(force)
  \/ \E c \in Caller : Enqueue(c)
  \/ Work \/ ValidateUser \/ MarketTick \/ Fault
  \/ \E stats \in Markets : ChangeMarket(stats)
  \/ \E state \in SaleStatus : Leave(state)
  \/ \E where \in Grade : GiveGrade(where)

MarketSpec ==
  /\ MarketInit /\ [][MarketNext]_marketVars
  /\ WF_marketVars(Work) /\ \A c \in Caller : WF_marketVars(Enqueue(c))
  /\ WF_marketVars(ValidateUser) /\ WF_marketVars(MarketTick)
----------------------------------------------------------------------------
(* Every variable keeps its type, and the worker is in one task at a time.   *)
MarketTypeOK ==
  /\ config \in Configs /\ market \in Markets /\ listing \in Listing
  /\ record \in [median : Nat, low : Nat, age : Clock]
  /\ sale \in SaleInfo /\ offer \in Nat \ {0}
  /\ marker \in {"none", "fresh", "old"}
  /\ \A c \in Caller : request[c].stage \in {"none", "validated", "marked"}
  /\ tasks \in Seq(Task)
  /\ job # NoJob => First("RefreshRelease") /\ request["worker"] = NoRequest
  /\ request["worker"] # NoRequest => First("RefreshCollection")
  /\ checked \in 0 .. 1 /\ synced \in 0 .. 1 /\ moves \in 0 .. MaxMove[config]

(* The prices a configuration reduces to, for some state of the market.      *)
Bounds ==
  LET medians == {m.median : m \in Markets}
      lows == IF config.strategy = "discogs" THEN {m.low : m \in Markets} \ {0} ELSE {config.lowerBound} \ {0}
  IN CASE config.type = "minimal" -> {1}
       [] config.type = "none" -> {}
       [] config.type = "median" -> medians
       [] config.type = "low" -> medians \cup lows
       [] config.type = "stale" -> medians \cup lows \cup {config.staleBound}

(* However the market moved, and whatever was lost, a sale is never offered  *)
(* below the least price its configuration reduces to (adjustPrice), unless  *)
(* the reduction is timed.                                                   *)
PriceFloor == config.timeToMedian = 0 => \E bound \in Bounds \cup {StartPrice} : offer >= bound

(* The prices of a sale are adjusted: its user wants that, its conditions    *)
(* are known somewhere, and the market says how low it may go.               *)
Adjusted ==
  /\ config.handle /\ listing.state = "for sale" /\ (sale.complete \/ listing.graded # {})
  /\ config.type \in {"low", "stale"} /\ config.postMedianReduction > 0 =>
       /\ config.postMedianReductionFrequency > 0
       /\ IF config.strategy = "discogs" THEN market.low > 0 ELSE config.lowerBound > 0
  /\ config.timeToMedian > 0 => market.low > 0

(* A price has arrived where its configuration leads.                        *)
Target ==
  CASE config.type = "none" -> offer
    [] config.type = "minimal" -> 1
    [] config.timeToMedian > 0 /\ Reduces -> market.low
    [] config.type = "stale" /\ config.timeToMedian = 0 -> config.staleBound
    [] OTHER ->
         IF config.type = "median" \/ config.postMedianReduction = 0 THEN market.median
         ELSE IF config.strategy = "discogs" THEN market.low ELSE config.lowerBound

(* Once the market stands still, the price at Discogs comes to follow it:    *)
(* no refusal, lost error, lost call, marker left behind, missing condition  *)
(* or entry run late ends the hops.                                          *)
Follows == <>[](Adjusted => offer = Target)

(* config.proto says of REDUCE_TO_MEDIAN that the price is reduced to the    *)
(* median over a time and then held there.                                   *)
MedianHeld == config.type = "median" => offer >= market.median
=============================================================================
