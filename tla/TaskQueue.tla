----------------------------- MODULE TaskQueue -----------------------------
(***************************************************************************)
(* The background task queue of gramophile (queuelogic/logic.go): one      *)
(* worker goroutine (Queue.Run) executes persisted entries one at a time,  *)
(* while gRPC clients and the running handler itself call Queue.Enqueue,   *)
(* and an administrator may call Queue.Drain or Queue.Execute.             *)
(*                                                                         *)
(* An entry is persisted in pstore under its RunDate before it is added to *)
(* the in-memory index (keys, pMap, userCounts, hMap), which queueMutex    *)
(* protects one critical section at a time.  Every critical section and    *)
(* every call to pstore is an action of its own; code between two of them  *)
(* touches nothing shared.                                                 *)
(*                                                                         *)
(* RunDates are time.Now().UnixNano() plus a small offset; the model gives *)
(* every Enqueue call a RunDate no earlier call used.                      *)
(***************************************************************************)
EXTENDS Integers, FiniteSets

CONSTANTS
  Task,              \* queue elements, told apart only by what the queue reads
  Auth,              \* user tokens
  DedupKey,          \* deduplication keys of the task handlers
  NoKey,             \* a handler without deduplication returns ""
  Dates,             \* RunDates that may be handed out
  Callers,           \* concurrent Enqueue calls of gRPC clients
  Worker,            \* the goroutine of Run, which enqueues too
  None,              \* no value
  DrainKinds,        \* the sets of tasks a DrainRequest may select
  DirectTasks,       \* the elements the Execute RPC may be sent
  MaxQueueLen,       \* 100000 in the code
  MaxUserQueueSize,  \* 200 in the code
  MaxFaults,         \* bound: pstore calls that fail
  MaxCrashes         \* bound: restarts of the queue server

Priority == {"HIGH", "NORMAL", "LOW"}

ASSUME TaskAssumption ==
  /\ Task \subseteq [auth : Auth, prio : Priority, key : DedupKey \cup {NoKey},
                     throttled : BOOLEAN, marked : BOOLEAN]
  /\ NoKey \notin DedupKey
  /\ None \notin Task
  /\ DrainKinds \subseteq SUBSET Task
  /\ DirectTasks \subseteq Task

ASSUME SizeAssumption ==
  /\ Dates \subseteq Nat /\ IsFiniteSet(Dates) /\ None \notin Dates
  /\ MaxQueueLen \in Nat /\ MaxUserQueueSize \in Nat \ {0}
  /\ MaxFaults \in Nat /\ MaxCrashes \in Nat

ASSUME ProcAssumption == Worker \notin Callers /\ IsFiniteSet(Callers)

VARIABLES
  pstore,      \* persisted entries: gramophile/taskqueue/<RunDate>
  dlq,         \* persisted failures: gramophile/dlq/<RunDate>
  keys,        \* Queue.keys
  pMap,        \* Queue.pMap, "absent" where the map has no entry
  userCounts,  \* Queue.userCounts
  hMap,        \* keys k with Queue.hMap[k]
  call,        \* progress of each Enqueue call
  run,         \* progress of the loop of Run
  drain,       \* progress of a Drain call
  issued,      \* history: the element each RunDate was issued to
  faults,      \* pstore calls that failed
  crashes      \* restarts so far

memory == <<keys, pMap, userCounts, hMap>>
bounds == <<faults, crashes>>
vars   == <<pstore, dlq, memory, call, run, drain, issued, bounds>>

Procs == Callers \cup {Worker}

IdleCall  == [pc |-> "idle", date |-> None, task |-> None]
IdleRun   == [pc |-> "pick", date |-> None, task |-> None,
              out |-> "none", refused |-> FALSE]
IdleDrain == [pc |-> "idle", kinds |-> {}, todo |-> {}, date |-> None,
              entry |-> None, dates |-> {}, entries |-> {}]

CallPc  == {"idle", "dedup", "throttle", "write", "append"}
RunPc   == {"pick", "read", "drop", "exec", "release", "forget", "erase",
            "bury", "requeue", "requeued"}
Outcome == {"none", "ok", "gone", "limit", "internal", "other"}

Entry      == Task \cup {None}
CallState  == [pc : CallPc, date : Dates \cup {None}, task : Entry]
RunState   == [pc : RunPc, date : Dates \cup {None}, task : Entry,
               out : Outcome, refused : BOOLEAN]
DrainState == [pc : {"idle", "scan", "delete"}, kinds : SUBSET Task,
               todo : SUBSET Dates, date : Dates \cup {None}, entry : Entry,
               dates : SUBSET Dates, entries : SUBSET (Dates \X Task)]

StoreOK ==
  /\ pstore \in [Dates -> Entry]
  /\ dlq \in [Dates -> Entry]
  /\ issued \in [Dates -> Entry]
  /\ faults \in Nat /\ crashes \in Nat
IndexOK ==
  /\ keys \subseteq Dates
  /\ pMap \in [Dates -> Priority \cup {"absent"}]
  /\ userCounts \in [Auth -> Int]
  /\ hMap \subseteq DedupKey
CallOK ==
  /\ call \in [Procs -> CallState]
  /\ \A p \in Procs : call[p].pc # "idle" => call[p].date \in Dates /\ call[p].task \in Task
RunOK ==
  /\ run \in RunState
  /\ run.pc # "pick" => run.date \in Dates
  /\ run.pc \notin {"pick", "read", "drop"} => run.task \in Task
DrainOK ==
  /\ drain \in DrainState
  /\ drain.pc = "delete" => drain.date \in Dates
  /\ IsFiniteSet(drain.entries)

TypeOK == StoreOK /\ IndexOK /\ CallOK /\ RunOK /\ DrainOK

Init ==
  /\ pstore = [d \in Dates |-> None]
  /\ dlq = [d \in Dates |-> None]
  /\ keys = {}
  /\ pMap = [d \in Dates |-> "absent"]
  /\ userCounts = [a \in Auth |-> 0]
  /\ hMap = {}
  /\ call = [p \in Procs |-> IdleCall]
  /\ run = IdleRun
  /\ drain = IdleDrain
  /\ issued = [d \in Dates |-> None]
  /\ faults = 0
  /\ crashes = 0

(* A pstore call returns an error. *)
Fault == faults < MaxFaults /\ faults' = faults + 1

Stored == {d \in Dates : pstore[d] # None}

----------------------------------------------------------------------------
(* Enqueue: the length check, Validate, deduplication, per-user throttling,  *)
(* the write to pstore and the update of the index.                          *)

Full(t) == Cardinality(keys) > MaxQueueLen /\ t.prio # "HIGH"

(* Process p calls Enqueue with element t and gets past the length check and *)
(* Validate.  A call refused here changes nothing the queue owns.            *)
Begin(p, t, d) ==
  /\ call[p].pc = "idle"
  /\ issued[d] = None
  /\ ~Full(t)
  /\ call' = [call EXCEPT ![p] = [pc |-> "dedup", date |-> d, task |-> t]]
  /\ issued' = [issued EXCEPT ![d] = t]
  /\ UNCHANGED <<pstore, dlq, memory, drain, bounds>>

(* Bound: one RunDate is kept back for an entry Run enqueues again. *)
Unissued == {d \in Dates : issued[d] = None}

ClientEnqueue(c, t, d) == Unissued # {d} /\ Begin(c, t, d) /\ UNCHANGED run

(* The running handler enqueues a follow-up task through the same Enqueue. *)
HandlerEnqueue(t, d) ==
  run.pc = "exec" /\ Unissued # {d} /\ Begin(Worker, t, d) /\ UNCHANGED run

HandlerRefused(t) ==
  /\ run.pc = "exec"
  /\ call[Worker].pc = "idle"
  /\ Full(t)
  /\ run' = [run EXCEPT !.refused = TRUE]
  /\ UNCHANGED <<pstore, dlq, memory, call, drain, issued, bounds>>

Return(p) == call' = [call EXCEPT ![p] = IdleCall]

Advance(p, pc) == call' = [call EXCEPT ![p].pc = pc]

(* A handler that propagates ResourceExhausted ends with that error. *)
NoteRefusal(p) ==
  run' = IF p = Worker /\ run.pc = "exec" THEN [run EXCEPT !.refused = TRUE] ELSE run

(* Mutant: "" is taken for a deduplication key. *)
DedupEveryTask(p) ==
  LET k == call[p].task.key IN
  /\ call[p].pc = "dedup"
  /\ \/ k \in hMap /\ Return(p) /\ UNCHANGED hMap
     \/ k \notin hMap /\ hMap' = hMap \cup {k} /\ Advance(p, "throttle")
  /\ UNCHANGED <<pstore, dlq, keys, pMap, userCounts, run, drain, issued, bounds>>

Dedup(p) ==
  LET k == call[p].task.key IN
  /\ call[p].pc = "dedup"
  /\ \/ k \in hMap /\ Return(p) /\ UNCHANGED hMap
     \/ /\ k \notin hMap
        /\ hMap' = hMap \cup ({k} \ {NoKey})
        /\ Advance(p, "throttle")
  /\ UNCHANGED <<pstore, dlq, keys, pMap, userCounts, run, drain, issued, bounds>>

(* Mutant: off by one. *)
OverLimitStrict(t) == t.throttled /\ userCounts[t.auth] > MaxUserQueueSize

OverLimit(t) == t.throttled /\ userCounts[t.auth] >= MaxUserQueueSize

(* The refusal returns without giving the deduplication key back. *)
Throttle(p) ==
  /\ call[p].pc = "throttle"
  /\ \/ OverLimit(call[p].task) /\ Return(p) /\ NoteRefusal(p)
     \/ ~OverLimit(call[p].task) /\ Advance(p, "write") /\ UNCHANGED run
  /\ UNCHANGED <<pstore, dlq, memory, drain, issued, bounds>>

(* A failed write may or may not have reached the store. *)
Write(p) ==
  LET written == [pstore EXCEPT ![call[p].date] = call[p].task] IN
  /\ call[p].pc = "write"
  /\ \/ pstore' = written /\ Advance(p, "append") /\ UNCHANGED faults
     \/ Fault /\ pstore' \in {pstore, written} /\ Return(p)
  /\ UNCHANGED <<dlq, memory, run, drain, issued, crashes>>

AddToIndex(p) ==
  LET d == call[p].date
      t == call[p].task
  IN
  /\ call[p].pc = "append"
  /\ keys' = keys \cup {d}
  /\ pMap' = [pMap EXCEPT ![d] = t.prio]
  /\ userCounts' = [userCounts EXCEPT ![t.auth] = @ + 1]
  /\ Return(p)
  /\ UNCHANGED <<pstore, dlq, hMap, run, drain, issued, bounds>>

EnqueueStep(p) == Dedup(p) \/ Throttle(p) \/ Write(p) \/ AddToIndex(p)

----------------------------------------------------------------------------
(* Run: choose an entry, load it, execute its handler, settle it.            *)

(* The highest class with an entry: HIGH, else NORMAL, else everything.      *)
Class(prio) == {d \in keys : pMap[d] = prio}
(* Mutant: the classes are not told apart. *)
OldestFirst == keys

Candidates ==
  IF Class("HIGH") # {} THEN Class("HIGH")
  ELSE IF Class("NORMAL") # {} THEN Class("NORMAL") ELSE keys

(* getNextEntry copies keys, sorts the copy outside the mutex and consults   *)
(* pMap in a second critical section.  An Enqueue in between adds a key that *)
(* is not in the copy, and a Drain leaves a key whose entry is gone, so the  *)
(* choice is one that could be made at one of the two moments.               *)
Pick(d) ==
  /\ run.pc = "pick"
  /\ d \in Candidates
  /\ \A e \in Candidates : d <= e
  /\ run' = [IdleRun EXCEPT !.pc = "read", !.date = d]
  /\ UNCHANGED <<pstore, dlq, memory, call, drain, issued, bounds>>

Poll == run.pc = "pick" /\ keys = {} /\ UNCHANGED vars

(* Mutant: any error of the read counts as a missing entry. *)
ReadErrorDrops ==
  /\ run.pc = "read"
  /\ \/ /\ pstore[run.date] # None
        /\ run' = [run EXCEPT !.pc = "exec", !.task = pstore[run.date]]
        /\ UNCHANGED faults
     \/ run' = [run EXCEPT !.pc = "drop"] /\ IF pstore[run.date] = None THEN UNCHANGED faults ELSE Fault
  /\ UNCHANGED <<pstore, dlq, memory, call, drain, issued, crashes>>

ReadEntry ==
  /\ run.pc = "read"
  /\ \/ /\ pstore[run.date] # None
        /\ run' = [run EXCEPT !.pc = "exec", !.task = pstore[run.date]]
        /\ UNCHANGED faults
     \/ /\ pstore[run.date] = None
        /\ run' = [run EXCEPT !.pc = "drop"]
        /\ UNCHANGED faults
     \/ Fault /\ run' = IdleRun
  /\ UNCHANGED <<pstore, dlq, memory, call, drain, issued, crashes>>

(* Mutant: the key of a missing entry is kept. *)
DropNothing ==
  /\ run.pc = "drop"
  /\ run' = IdleRun
  /\ UNCHANGED <<pstore, dlq, memory, call, drain, issued, bounds>>

(* The entry is gone: its key is dropped, its owner's count is not. *)
Drop ==
  /\ run.pc = "drop"
  /\ keys' = keys \ {run.date}
  /\ pMap' = [pMap EXCEPT ![run.date] = "absent"]
  /\ run' = IdleRun
  /\ UNCHANGED <<pstore, dlq, userCounts, hMap, call, drain, issued, bounds>>

HandlerReturns == run.pc = "exec" /\ call[Worker].pc = "idle"

(* How Run settles each kind of result.  GetUser's errors are treated as the *)
(* handler's; an entry without an intention is a success of a handler that   *)
(* did nothing.  The queue's own ResourceExhausted reaches Run only when the *)
(* handler propagates the refusal of an entry it enqueued.                   *)
AfterExec == [ok |-> "release", gone |-> "forget", limit |-> "forget",
              internal |-> "forget", other |-> "bury"]

Finish(out) ==
  /\ HandlerReturns
  /\ out = "limit" => run.refused
  /\ out = "internal" => Unissued # {}
  /\ run' = [run EXCEPT !.pc = AfterExec[out], !.out = out]
  /\ UNCHANGED <<pstore, dlq, memory, call, drain, issued, bounds>>

(* Discogs' ResourceExhausted: sleep for a minute and choose again. *)
RateLimited ==
  /\ HandlerReturns
  /\ run' = IdleRun
  /\ UNCHANGED <<pstore, dlq, memory, call, drain, issued, bounds>>

(* ExecuteInternal gives the deduplication key back after a success, before  *)
(* delete gives it back again.                                               *)
Release ==
  /\ run.pc = "release"
  /\ hMap' = hMap \ {run.task.key}
  /\ run' = [run EXCEPT !.pc = "forget"]
  /\ UNCHANGED <<pstore, dlq, keys, pMap, userCounts, call, drain, issued, bounds>>

(* Mutants: delete forgets the owner's count, or the deduplication key. *)
ForgetUncounted ==
  /\ run.pc = "forget"
  /\ keys' = keys \ {run.date}
  /\ pMap' = [pMap EXCEPT ![run.date] = "absent"]
  /\ hMap' = hMap \ {run.task.key}
  /\ run' = [run EXCEPT !.pc = "erase"]
  /\ UNCHANGED <<pstore, dlq, userCounts, call, drain, issued, bounds>>

ForgetKeepsKey ==
  /\ run.pc = "forget"
  /\ keys' = keys \ {run.date}
  /\ pMap' = [pMap EXCEPT ![run.date] = "absent"]
  /\ userCounts' = [userCounts EXCEPT ![run.task.auth] = @ - 1]
  /\ run' = [run EXCEPT !.pc = "erase"]
  /\ UNCHANGED <<pstore, dlq, hMap, call, drain, issued, bounds>>

(* delete, first part: the index. *)
Forget ==
  /\ run.pc = "forget"
  /\ keys' = keys \ {run.date}
  /\ pMap' = [pMap EXCEPT ![run.date] = "absent"]
  /\ userCounts' = [userCounts EXCEPT ![run.task.auth] = @ - 1]
  /\ hMap' = hMap \ {run.task.key}
  /\ run' = [run EXCEPT !.pc = "erase"]
  /\ UNCHANGED <<pstore, dlq, call, drain, issued, bounds>>

(* delete, second part: pstore.  Run ignores a failure. *)
Erase ==
  LET erased == [pstore EXCEPT ![run.date] = None] IN
  /\ run.pc = "erase"
  /\ \/ pstore' = erased /\ UNCHANGED faults
     \/ Fault /\ pstore' \in {pstore, erased}
  /\ run' = IF run.out = "internal" THEN [run EXCEPT !.pc = "requeue"] ELSE IdleRun
  /\ UNCHANGED <<dlq, memory, call, drain, issued, crashes>>

(* After an internal error the element is enqueued again, five minutes on.   *)
(* Validate refuses a marked element (RefreshRelease) whose marker is set.   *)
Requeue(d) ==
  /\ run.pc = "requeue"
  /\ Begin(Worker, run.task, d)
  /\ run' = [run EXCEPT !.pc = "requeued"]

RequeueRefused ==
  /\ run.pc = "requeue"
  /\ Full(run.task) \/ run.task.marked
  /\ run' = [run EXCEPT !.pc = "requeued"]
  /\ UNCHANGED <<pstore, dlq, memory, call, drain, issued, bounds>>

Requeued ==
  /\ run.pc = "requeued"
  /\ call[Worker].pc = "idle"
  /\ run' = IdleRun
  /\ UNCHANGED <<pstore, dlq, memory, call, drain, issued, bounds>>

(* Mutant: the result of the write to the dead letter queue is ignored. *)
BuryUnchecked ==
  LET buried == [dlq EXCEPT ![run.date] = run.task] IN
  /\ run.pc = "bury"
  /\ \/ dlq' = buried /\ UNCHANGED faults
     \/ Fault /\ dlq' \in {dlq, buried}
  /\ run' = [run EXCEPT !.pc = "forget"]
  /\ UNCHANGED <<pstore, memory, call, drain, issued, crashes>>

(* Any other error: the entry moves to the dead letter queue, and stays      *)
(* queued when it cannot be written there.                                   *)
Bury ==
  LET buried == [dlq EXCEPT ![run.date] = run.task] IN
  /\ run.pc = "bury"
  /\ \/ dlq' = buried /\ run' = [run EXCEPT !.pc = "forget"] /\ UNCHANGED faults
     \/ Fault /\ dlq' \in {dlq, buried} /\ run' = IdleRun
  /\ UNCHANGED <<pstore, memory, call, drain, issued, crashes>>

(* The Execute RPC runs a handler outside the loop and gives back the key of *)
(* the element it was sent.                                                  *)
ExecuteRPC(t) ==
  /\ t.key \in hMap
  /\ hMap' = hMap \ {t.key}
  /\ UNCHANGED <<pstore, dlq, keys, pMap, userCounts, call, run, drain, issued, bounds>>

----------------------------------------------------------------------------
(* Drain: list the stored keys, read and delete each selected entry, then    *)
(* prune the index in one critical section.                                  *)

DrainStart(kinds) ==
  /\ drain.pc = "idle"
  /\ drain' = [IdleDrain EXCEPT !.pc = "scan", !.kinds = kinds, !.todo = Stored]
  /\ UNCHANGED <<pstore, dlq, memory, call, run, issued, bounds>>

(* An unreadable entry is selected only by the drain of everything. *)
DrainRead(d) ==
  /\ drain.pc = "scan"
  /\ d \in drain.todo
  /\ \E e \in {pstore[d], None} :
       /\ IF e = pstore[d] THEN UNCHANGED faults ELSE Fault
       /\ drain' =
            IF e \in drain.kinds \/ drain.kinds = Task
            THEN [drain EXCEPT !.pc = "delete", !.date = d, !.entry = e, !.todo = @ \ {d}]
            ELSE [drain EXCEPT !.todo = @ \ {d}]
  /\ UNCHANGED <<pstore, dlq, memory, call, run, issued, crashes>>

(* A failed Delete is logged and the entry counts as drained all the same. *)
DrainDelete ==
  LET d == drain.date
      erased == [pstore EXCEPT ![d] = None]
  IN
  /\ drain.pc = "delete"
  /\ \/ pstore' = erased /\ UNCHANGED faults
     \/ Fault /\ pstore' \in {pstore, erased}
  /\ drain' = [drain EXCEPT !.pc = "scan", !.date = None, !.entry = None,
                            !.dates = @ \cup {d},
                            !.entries = @ \cup ({d} \X ({drain.entry} \ {None}))]
  /\ UNCHANGED <<dlq, memory, call, run, issued, crashes>>

DrainPrune ==
  /\ drain.pc = "scan"
  /\ drain.todo = {}
  /\ keys' = keys \ drain.dates
  /\ pMap' = [d \in Dates |-> IF d \in drain.dates THEN "absent" ELSE pMap[d]]
  /\ userCounts' = [a \in Auth |->
                      userCounts[a] - Cardinality({e \in drain.entries : e[2].auth = a})]
  /\ hMap' = hMap \ {e[2].key : e \in drain.entries}
  /\ drain' = IdleDrain
  /\ UNCHANGED <<pstore, dlq, call, run, issued, bounds>>

DrainStep == (\E d \in Dates : DrainRead(d)) \/ DrainDelete \/ DrainPrune

----------------------------------------------------------------------------
(* Mutant: the index starts empty. *)
RestartEmpty(lost, uncounted) ==
  /\ crashes < MaxCrashes
  /\ crashes' = crashes + 1
  /\ keys' = {}
  /\ pMap' = [d \in Dates |-> "absent"]
  /\ userCounts' = [a \in Auth |-> 0]
  /\ hMap' = {}
  /\ call' = [p \in Procs |-> IdleCall]
  /\ run' = IdleRun
  /\ drain' = IdleDrain
  /\ UNCHANGED <<pstore, dlq, issued, faults>>

(* The process stops and starts again: GetQueueWithGHClient rebuilds the     *)
(* index from pstore before it serves anyone, the deduplication keys apart.  *)
(* An unreadable entry is not counted, and stops the loading of priorities.  *)

Restart(lost, uncounted) ==
  /\ crashes < MaxCrashes
  /\ crashes' = crashes + 1
  /\ IF lost \cup uncounted = {} THEN UNCHANGED faults ELSE Fault
  /\ keys' = Stored
  /\ pMap' = [d \in Dates |-> IF d \in Stored \ lost THEN pstore[d].prio ELSE "absent"]
  /\ userCounts' = [a \in Auth |->
                      Cardinality({d \in Stored \ uncounted : pstore[d].auth = a})]
  /\ hMap' = {}
  /\ call' = [p \in Procs |-> IdleCall]
  /\ run' = IdleRun
  /\ drain' = IdleDrain
  /\ UNCHANGED <<pstore, dlq, issued>>

----------------------------------------------------------------------------
LoopStep ==
  \/ \E d \in Dates : Pick(d)
  \/ ReadEntry
  \/ Drop
  \/ Release
  \/ Forget
  \/ Erase
  \/ \E d \in Dates : Requeue(d)
  \/ RequeueRefused
  \/ Requeued
  \/ Bury

Next ==
  \/ \E c \in Callers, t \in Task, d \in Dates : ClientEnqueue(c, t, d)
  \/ \E p \in Procs : EnqueueStep(p)
  \/ \E t \in Task, d \in Dates : HandlerEnqueue(t, d)
  \/ \E t \in Task : HandlerRefused(t)
  \/ LoopStep
  \/ \E out \in Outcome \ {"none"} : Finish(out)
  \/ RateLimited
  \/ Poll
  \/ \E t \in DirectTasks : ExecuteRPC(t)
  \/ \E kinds \in DrainKinds : DrainStart(kinds)
  \/ DrainStep
  \/ \E lost, uncounted \in SUBSET Stored : Restart(lost, uncounted)

Spec == Init /\ [][Next]_vars

(* The goroutines keep running; a handler returns, and Discogs' rate limit   *)
(* refills, so that it does not refuse the same work for ever.               *)
FairSpec ==
  /\ Spec
  /\ WF_vars(LoopStep)
  /\ \A p \in Procs : WF_vars(EnqueueStep(p))
  /\ WF_vars(DrainStep)
  /\ SF_vars(\E out \in Outcome \ {"none"} : Finish(out))

----------------------------------------------------------------------------
(* Properties.                                                               *)

(* An entry that is persisted is in the index, or about to enter it, or      *)
(* being deleted: as long as pstore answers, no accepted entry waits for a   *)
(* restart to be seen by the loop.                                           *)
StoredIsQueued ==
  faults = 0 =>
    \A d \in Stored :
      \/ d \in keys
      \/ \E p \in Procs : call[p].pc = "append" /\ call[p].date = d
      \/ run.pc = "erase" /\ run.date = d

(* userCounts counts the indexed entries of each user: the throttle neither  *)
(* shuts a user out for entries that are gone nor lets one in too early.     *)
Owned(a) == {d \in keys : issued[d] # None /\ issued[d].auth = a}
CountsMatch == \A a \in Auth : userCounts[a] = Cardinality(Owned(a))

(* Concurrent calls may each pass the throttle before any of them is         *)
(* counted: the limit is exceeded by at most one entry per client.           *)
Throttled(a) == {d \in Stored : pstore[d].throttled /\ pstore[d].auth = a}
Admitted(a) ==
  {p \in Procs : call[p].pc = "write" /\ call[p].task.throttled /\ call[p].task.auth = a}
ThrottleBound ==
  \A a \in Auth :
    Cardinality(Throttled(a)) + Cardinality(Admitted(a))
      <= MaxUserQueueSize + Cardinality(Callers)

(* The counts the throttle goes by are right, and so is what it lets in.     *)
ThrottleOK == CountsMatch /\ ThrottleBound

(* A deduplication key that is marked belongs to an entry that is queued or  *)
(* on its way in, or else no Enqueue of that work succeeds until a restart.  *)
HasTask(k) ==
  \/ \E d \in Stored : pstore[d].key = k
  \/ \E p \in Procs : call[p].pc \in {"throttle", "write"} /\ call[p].task.key = k
KeyHasTask == \A k \in hMap : HasTask(k)

(* The same for the keys of handlers that are never throttled.               *)
KeyHasTaskUnlessThrottled ==
  \A k \in hMap : HasTask(k) \/ \E t \in Task : t.key = k /\ t.throttled

(* The loop takes no entry while an indexed one of a more urgent class is    *)
(* persisted, and within HIGH and NORMAL the oldest first, after a restart   *)
(* too: pMap agrees with the priorities that were stored.                    *)
Rank == [HIGH |-> 1, NORMAL |-> 2, LOW |-> 3]
PicksMostUrgent ==
  [][\A d \in keys : run.pc = "pick" /\ run'.pc = "read" =>
       LET chosen == Rank[pstore[run'.date].prio]
           other  == Rank[pstore[d].prio]
       IN  chosen < other \/ (chosen = other /\ run'.date <= d)]_vars

(* Every indexed or persisted entry is eventually executed, set aside or     *)
(* drained, and leaves both the index and pstore.                            *)
Settles ==
  \A d \in Dates : (d \in keys \/ pstore[d] # None) ~> (d \notin keys /\ pstore[d] = None)
============================================================================
