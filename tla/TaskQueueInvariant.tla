------------------------ MODULE TaskQueueInvariant ------------------------
(***************************************************************************)
(* The inductive invariant of TaskQueue.  It rests on one fact: until an    *)
(* Enqueue call writes its entry, nobody but that call knows its RunDate.   *)
(***************************************************************************)
EXTENDS TaskQueueRefinement

(* A call that has not written its entry yet.                                *)
Entering == {p \in Procs : call[p].pc \in {"dedup", "throttle", "write"}}
Busy == {p \in Procs : call[p].pc # "idle"}

(* The RunDates the store, the index, the loop or a Drain may act on.        *)
Known ==
  Stored \cup {d \in Dates : dlq[d] # None} \cup keys
    \cup {d \in Dates : run.pc # "pick" /\ run.date = d}
    \cup {d \in Dates : drain.pc = "delete" /\ drain.date = d}
    \cup drain.todo \cup drain.dates

KnownIssued == \A d \in Known : issued[d] # None
BusyIssued == \A p \in Busy : issued[call[p].date] # None
Distinct == \A p, q \in Busy : call[p].date = call[q].date => p = q
Fresh == \A p \in Entering : call[p].date \notin Known

Identity == KnownIssued /\ BusyIssued /\ Distinct /\ Fresh

(* The loop drops a key, and Drain its keys, for entries that are gone.      *)
MissingIsGone == run.pc = "drop" => pstore[run.date] = None
DrainedIsGone == faults = 0 => \A d \in drain.dates : pstore[d] = None

(* Only a failure without a rule of its own is buried.                       *)
BuriesFailures == run.pc = "bury" => run.out = "other"

(* RunDates identify entries, the loop and Drain forget only entries that    *)
(* are gone, and what is persisted is in the index.                          *)
QueueInv ==
  /\ TypeOK /\ Identity
  /\ MissingIsGone /\ DrainedIsGone /\ BuriesFailures
  /\ StoredIsQueued

----------------------------------------------------------------------------
(* The index while pstore answers and nobody drains.                         *)
Undisturbed == faults = 0 /\ drain.pc = "idle"

(* RunDates keep the element they were issued to.                            *)
CallsCarry == \A p \in Busy : call[p].task = issued[call[p].date]
StoreCarries == \A d \in Stored : pstore[d] = issued[d]

(* The index holds what is persisted; an entry enters it once.               *)
IndexStored == \A d \in keys : d \in Stored /\ pMap[d] = pstore[d].prio
EntersOnce ==
  \A p \in Procs : call[p].pc = "append" =>
    call[p].date \in Stored /\ call[p].date \notin keys

(* No call is about the entry the loop holds, which stays indexed until it   *)
(* is forgotten.                                                             *)
LoopApart == run.pc # "pick" => \A p \in Busy : call[p].date # run.date
LoopHolds ==
  /\ run.pc # "drop"
  /\ run.pc \in {"read", "exec", "release", "forget", "bury"} => run.date \in keys
  /\ run.pc \in {"exec", "release", "forget", "bury"} => run.task = issued[run.date]
  /\ run.pc = "erase" => run.date \notin keys
WorkerEnqueues == Worker \in Busy => run.pc \in {"exec", "requeued"}

(* A marked key has an entry other than the one being erased.                *)
Erasing == {d \in Dates : run.pc = "erase" /\ run.date = d}
KeyHasOther ==
  \A k \in hMap :
    \/ \E d \in Stored \ Erasing : pstore[d].key = k
    \/ \E p \in Procs : call[p].pc \in {"throttle", "write"} /\ call[p].task.key = k
    \/ \E t \in Task : t.key = k /\ t.throttled

IndexInv ==
  /\ CallsCarry /\ StoreCarries
  /\ IndexStored /\ EntersOnce
  /\ LoopApart /\ LoopHolds /\ WorkerEnqueues
  /\ KeyHasOther /\ CountsMatch /\ ThrottleBound
============================================================================
