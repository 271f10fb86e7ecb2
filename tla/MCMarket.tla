------------------------------ MODULE MCMarket ------------------------------
(* Instances of Market for TLC. *)
EXTENDS Market

Plain ==
  [handle |-> TRUE, type |-> "none", updateFrequency |-> 1, reduction |-> 1,
   timeToMedian |-> 0, timeToLower |-> 1, timeToStale |-> 1,
   postMedianTime |-> 1, postMedianReduction |-> 1, postMedianReductionFrequency |-> 1,
   strategy |-> "discogs", lowerBound |-> 1,
   postLowReduction |-> 1, postLowReductionFrequency |-> 1, staleBound |-> 1]
Timed == [Plain EXCEPT !.type = "median", !.timeToMedian = 2]

Low == [Plain EXCEPT !.type = "low"]

MCConfigs ==
  {[Plain EXCEPT !.handle = FALSE, !.type = "minimal"],
   [Plain EXCEPT !.type = "minimal"],
   [Plain EXCEPT !.type = "median"],
   Low,
   [Low EXCEPT !.postMedianReductionFrequency = 0],
   [Plain EXCEPT !.type = "stale", !.strategy = "static", !.reduction = 2],
   Timed}
MCTimed == {Timed}

(* Two requests, faults or changes where the price has the longest way.      *)
MCMaxMove == [c \in MCConfigs |-> IF c = Low THEN 2 ELSE 1]
MCNoMove == [c \in MCTimed |-> 0]

MCMarkets == {[median |-> 4, low |-> 3], [median |-> 3, low |-> 0]}
=============================================================================
