--------------------------- MODULE TaskQueueProofs ---------------------------
(* Theorems about TaskQueue for every value of its constants: it implements  *)
(* the durable queue, its invariant is inductive, and what follows from it.  *)
EXTENDS TaskQueueInvariant, FiniteSetTheorems, TLAPS

(* An empty queue is well-formed.                                            *)
LEMMA TypeInit == Init => TypeOK
BY FS_EmptySet, SizeAssumption, TaskAssumption
   DEF Init, TypeOK, StoreOK, IndexOK, CallOK, RunOK, DrainOK, CallState, RunState, DrainState,
       Entry, IdleCall, IdleRun, IdleDrain, CallPc, RunPc, Outcome, Procs, Priority

(* Replacing the state of one call keeps the calls well-formed.               *)
LEMMA CallUpdate ==
  ASSUME CallOK, NEW p \in Procs, NEW r \in CallState,
         r.pc # "idle" => r.date \in Dates /\ r.task \in Task,
         call' = [call EXCEPT ![p] = r]
  PROVE  CallOK'
BY DEF CallOK

(* A call that returns leaves the calls well-formed.                         *)
LEMMA ReturnType == ASSUME CallOK, NEW p \in Procs, Return(p) PROVE CallOK'
<1>1. IdleCall \in CallState /\ IdleCall.pc = "idle"
  BY DEF IdleCall, CallState, CallPc, Entry
<1> QED
  BY <1>1, CallUpdate DEF Return

(* So does a call that goes on with its next step.                           *)
LEMMA AdvanceType ==
  ASSUME CallOK, NEW p \in Procs, NEW pc \in CallPc, call[p].pc # "idle", Advance(p, pc)
  PROVE  CallOK'
<1> DEFINE r == [call[p] EXCEPT !.pc = pc]
<1>1. call[p] \in CallState /\ call[p].date \in Dates /\ call[p].task \in Task
  BY DEF CallOK
<1>2. r \in CallState /\ r.date \in Dates /\ r.task \in Task
  BY <1>1 DEF CallState
<1>3. call' = [call EXCEPT ![p] = r]
  BY DEF Advance
<1> QED
  BY <1>2, <1>3, CallUpdate

(* A call begins with a RunDate and a task of its own.                       *)
LEMMA BeginType ==
  ASSUME TypeOK, NEW p \in Procs, NEW t \in Task, NEW d \in Dates, Begin(p, t, d), RunOK'
  PROVE  TypeOK'
<1> DEFINE r == [pc |-> "dedup", date |-> d, task |-> t]
<1>1. r \in CallState /\ r.date \in Dates /\ r.task \in Task
  BY DEF CallState, CallPc, Entry
<1>2. CallOK'
  BY <1>1, CallUpdate DEF Begin, TypeOK
<1>3. StoreOK'
  BY DEF Begin, TypeOK, StoreOK, bounds, Entry
<1>4. IndexOK' /\ DrainOK'
  BY DEF Begin, TypeOK, IndexOK, DrainOK, memory
<1> QED
  BY <1>2, <1>3, <1>4 DEF TypeOK

(* The loop's state after a transition that changes its pc and little else.   *)
LEMMA IdleRunType == IdleRun \in RunState /\ IdleRun.pc = "pick"
BY DEF IdleRun, RunState, RunPc, Outcome, Entry

(* The loop going on to its next step keeps its state well-formed.           *)
LEMMA MoveType ==
  ASSUME RunOK, NEW pc \in RunPc, run.pc # "pick",
         pc \in {"read", "drop"} \/ run.pc \notin {"read", "drop"},
         run' = [run EXCEPT !.pc = pc]
  PROVE  RunOK'
BY DEF RunOK, RunState

(* Every step keeps the state well-formed.                                   *)
LEMMA TypeStep == TypeOK /\ [Next]_vars => TypeOK'
<1> SUFFICES ASSUME TypeOK, [Next]_vars PROVE TypeOK'
  OBVIOUS
<1> USE SizeAssumption, TaskAssumption, ProcAssumption DEF TypeOK, memory, bounds
<1>1. ASSUME NEW c \in Callers, NEW t \in Task, NEW d \in Dates, ClientEnqueue(c, t, d)
      PROVE  TypeOK'
  <2>1. RunOK' /\ c \in Procs
    BY <1>1 DEF ClientEnqueue, RunOK, Procs
  <2> QED
    BY <1>1, <2>1, BeginType DEF ClientEnqueue
<1>2. ASSUME NEW t \in Task, NEW d \in Dates, HandlerEnqueue(t, d) PROVE TypeOK'
  <2>1. RunOK' /\ Worker \in Procs
    BY <1>2 DEF HandlerEnqueue, RunOK, Procs
  <2> QED
    BY <1>2, <2>1, BeginType DEF HandlerEnqueue
<1>3. ASSUME NEW t \in Task, HandlerRefused(t) PROVE TypeOK'
  <2>1. RunOK'
    BY <1>3 DEF HandlerRefused, RunOK, RunState
  <2> QED
    BY <1>3, <2>1 DEF HandlerRefused, StoreOK, IndexOK, CallOK, DrainOK
<1>4. ASSUME NEW p \in Procs, Dedup(p) PROVE TypeOK'
  <2>1. call[p].task \in Task /\ call[p].pc = "dedup"
    BY <1>4 DEF Dedup, CallOK
  <2>2. CallOK'
    BY <1>4, <2>1, ReturnType, AdvanceType DEF Dedup, CallPc
  <2>3. IndexOK'
    BY <1>4, <2>1 DEF Dedup, IndexOK
  <2> QED
    BY <1>4, <2>2, <2>3 DEF Dedup, StoreOK, RunOK, DrainOK
<1>5. ASSUME NEW p \in Procs, Throttle(p) PROVE TypeOK'
  <2>1. CallOK'
    BY <1>5, ReturnType, AdvanceType DEF Throttle, CallPc
  <2>2. RunOK'
    BY <1>5 DEF Throttle, NoteRefusal, RunOK, RunState
  <2> QED
    BY <1>5, <2>1, <2>2 DEF Throttle, StoreOK, IndexOK, DrainOK
<1>6. ASSUME NEW p \in Procs, Write(p) PROVE TypeOK'
  <2>1. call[p].date \in Dates /\ call[p].task \in Task /\ call[p].pc = "write"
    BY <1>6 DEF Write, CallOK
  <2>2. CallOK'
    BY <1>6, <2>1, ReturnType, AdvanceType DEF Write, CallPc
  <2>3. StoreOK'
    BY <1>6, <2>1 DEF Write, Fault, StoreOK, Entry
  <2> QED
    BY <1>6, <2>2, <2>3 DEF Write, IndexOK, RunOK, DrainOK
<1>7. ASSUME NEW p \in Procs, AddToIndex(p) PROVE TypeOK'
  <2>1. call[p].date \in Dates /\ call[p].task \in Task
    BY <1>7 DEF AddToIndex, CallOK
  <2>2. CallOK'
    BY <1>7, ReturnType DEF AddToIndex
  <2>3. call[p].task.prio \in Priority /\ call[p].task.auth \in Auth
    BY <2>1
  <2>4. keys' \subseteq Dates /\ pMap' \in [Dates -> Priority \cup {"absent"}]
    BY <1>7, <2>1, <2>3 DEF AddToIndex, IndexOK
  <2>5. userCounts' \in [Auth -> Int]
    BY <1>7, <2>3 DEF AddToIndex, IndexOK
  <2>6. IndexOK'
    BY <1>7, <2>4, <2>5 DEF AddToIndex, IndexOK
  <2> QED
    BY <1>7, <2>2, <2>6 DEF AddToIndex, StoreOK, RunOK, DrainOK
<1>8. ASSUME NEW d \in Dates, Pick(d) PROVE TypeOK'
  <2>1. RunOK'
    BY <1>8 DEF Pick, RunOK, RunState, RunPc, IdleRun, Outcome, Entry
  <2> QED
    BY <1>8, <2>1 DEF Pick, StoreOK, IndexOK, CallOK, DrainOK
<1>9. CASE ReadEntry
  <2>1. run.pc = "read" /\ run.date \in Dates /\ pstore[run.date] \in Entry
    BY <1>9 DEF ReadEntry, RunOK, StoreOK
  <2>2. ASSUME pstore[run.date] # None,
               run' = [run EXCEPT !.pc = "exec", !.task = pstore[run.date]]
        PROVE  RunOK'
    BY <2>1, <2>2 DEF RunOK, RunState, RunPc, Entry
  <2>3. RunOK'
    <3>1. CASE run' = [run EXCEPT !.pc = "drop"]
      BY <2>1, <3>1, MoveType DEF RunPc
    <3>2. CASE run' = IdleRun
      BY <3>2, IdleRunType DEF RunOK
    <3> QED
      BY <1>9, <2>2, <3>1, <3>2 DEF ReadEntry
  <2>4. StoreOK'
    BY <1>9 DEF ReadEntry, Fault, StoreOK
  <2> QED
    BY <1>9, <2>3, <2>4 DEF ReadEntry, IndexOK, CallOK, DrainOK
<1>10. CASE Drop
  <2>1. run.date \in Dates
    BY <1>10 DEF Drop, RunOK
  <2>2. IndexOK'
    BY <1>10, <2>1 DEF Drop, IndexOK
  <2>3. RunOK'
    BY <1>10, IdleRunType DEF Drop, RunOK
  <2> QED
    BY <1>10, <2>2, <2>3 DEF Drop, StoreOK, CallOK, DrainOK
<1>11. CASE Release
  <2>1. RunOK'
    BY <1>11, MoveType DEF Release, RunPc
  <2>2. IndexOK'
    BY <1>11 DEF Release, IndexOK
  <2> QED
    BY <1>11, <2>1, <2>2 DEF Release, StoreOK, CallOK, DrainOK
<1>12. CASE Forget
  <2>1. RunOK'
    BY <1>12, MoveType DEF Forget, RunPc
  <2>2. run.date \in Dates /\ run.task.auth \in Auth
    BY <1>12 DEF Forget, RunOK
  <2>3. pMap' \in [Dates -> Priority \cup {"absent"}]
    BY <1>12, <2>2 DEF Forget, IndexOK
  <2>4. userCounts' \in [Auth -> Int]
    BY <1>12, <2>2 DEF Forget, IndexOK
  <2>5. IndexOK'
    BY <1>12, <2>3, <2>4 DEF Forget, IndexOK
  <2> QED
    BY <1>12, <2>1, <2>5 DEF Forget, StoreOK, CallOK, DrainOK
<1>13. CASE Erase
  <2>1. RunOK'
    BY <1>13, MoveType, IdleRunType DEF Erase, RunOK, RunPc
  <2>2. StoreOK'
    BY <1>13 DEF Erase, Fault, StoreOK, Entry
  <2> QED
    BY <1>13, <2>1, <2>2 DEF Erase, IndexOK, CallOK, DrainOK
<1>14. ASSUME NEW d \in Dates, Requeue(d) PROVE TypeOK'
  <2>1. RunOK'
    BY <1>14, MoveType DEF Requeue, RunPc
  <2>2. run.task \in Task /\ Worker \in Procs
    BY <1>14 DEF Requeue, RunOK, Procs
  <2> QED
    BY <1>14, <2>1, <2>2, BeginType DEF Requeue
<1>15. CASE RequeueRefused
  <2>1. RunOK'
    BY <1>15, MoveType DEF RequeueRefused, RunPc
  <2> QED
    BY <1>15, <2>1 DEF RequeueRefused, StoreOK, IndexOK, CallOK, DrainOK
<1>16. CASE Requeued
  <2>1. RunOK'
    BY <1>16, IdleRunType DEF Requeued, RunOK
  <2> QED
    BY <1>16, <2>1 DEF Requeued, StoreOK, IndexOK, CallOK, DrainOK
<1>17. CASE Bury
  <2>1. RunOK'
    BY <1>17, MoveType, IdleRunType DEF Bury, RunOK, RunPc
  <2>2. run.date \in Dates /\ run.task \in Task
    BY <1>17 DEF Bury, RunOK
  <2>3. StoreOK'
    BY <1>17, <2>2 DEF Bury, Fault, StoreOK, Entry
  <2> QED
    BY <1>17, <2>1, <2>3 DEF Bury, IndexOK, CallOK, DrainOK
<1>18. ASSUME NEW out \in Outcome \ {"none"}, Finish(out) PROVE TypeOK'
  <2>1. AfterExec[out] \in {"release", "forget", "bury"}
    BY DEF AfterExec, Outcome
  <2>2. run' = [run EXCEPT !.pc = AfterExec[out], !.out = out] /\ run.pc = "exec"
    BY <1>18 DEF Finish, HandlerReturns
  <2>3. RunOK'
    BY <2>1, <2>2 DEF RunOK, RunState, RunPc
  <2> QED
    BY <1>18, <2>3 DEF Finish, StoreOK, IndexOK, CallOK, DrainOK
<1>19. CASE RateLimited
  <2>1. RunOK'
    BY <1>19, IdleRunType DEF RateLimited, RunOK
  <2> QED
    BY <1>19, <2>1 DEF RateLimited, StoreOK, IndexOK, CallOK, DrainOK
<1>20. ASSUME NEW t \in DirectTasks, ExecuteRPC(t) PROVE TypeOK'
  BY <1>20 DEF ExecuteRPC, StoreOK, IndexOK, CallOK, RunOK, DrainOK
<1>21. ASSUME NEW kinds \in DrainKinds, DrainStart(kinds) PROVE TypeOK'
  <2>1. DrainOK'
    BY <1>21, FS_EmptySet DEF DrainStart, DrainOK, DrainState, IdleDrain, Stored, Entry
  <2> QED
    BY <1>21, <2>1 DEF DrainStart, StoreOK, IndexOK, CallOK, RunOK
<1>22. ASSUME NEW d \in Dates, DrainRead(d) PROVE TypeOK'
  <2>1. PICK e \in {pstore[d], None} :
          /\ IF e = pstore[d] THEN UNCHANGED faults ELSE Fault
          /\ drain' =
               IF e \in drain.kinds \/ drain.kinds = Task
               THEN [drain EXCEPT !.pc = "delete", !.date = d, !.entry = e, !.todo = @ \ {d}]
               ELSE [drain EXCEPT !.todo = @ \ {d}]
    BY <1>22 DEF DrainRead
  <2>2. e \in Entry
    BY <2>1 DEF StoreOK, Entry
  <2>3. drain.pc = "scan"
    BY <1>22 DEF DrainRead
  <2>4. DrainOK'
    BY <2>1, <2>2, <2>3 DEF DrainOK, DrainState
  <2>5. StoreOK'
    BY <1>22, <2>1 DEF DrainRead, Fault, StoreOK
  <2> QED
    BY <1>22, <2>4, <2>5 DEF DrainRead, IndexOK, CallOK, RunOK
<1>23. CASE DrainDelete
  <2> DEFINE gone == {drain.date} \X ({drain.entry} \ {None})
  <2>1. drain.date \in Dates /\ drain.entry \in Entry
    BY <1>23 DEF DrainDelete, DrainOK, DrainState
  <2>2. gone = {} \/ gone = {<<drain.date, drain.entry>>}
    OBVIOUS
  <2>3. IsFiniteSet(drain.entries \cup gone)
    BY <2>2, FS_EmptySet, FS_Singleton, FS_Union DEF DrainOK
  <2>4. drain'.entries = drain.entries \cup gone
    BY <1>23 DEF DrainDelete, DrainOK, DrainState
  <2>5. gone \in SUBSET (Dates \X Task)
    BY <2>1 DEF Entry
  <2>6. drain' \in DrainState /\ drain'.pc = "scan"
    BY <1>23, <2>1, <2>5 DEF DrainDelete, DrainOK, DrainState, Entry
  <2>7. DrainOK'
    BY <2>3, <2>4, <2>6 DEF DrainOK
  <2>8. StoreOK'
    BY <1>23, <2>1 DEF DrainDelete, Fault, StoreOK, Entry
  <2> QED
    BY <1>23, <2>7, <2>8 DEF DrainDelete, IndexOK, CallOK, RunOK
<1>24. CASE DrainPrune
  <2>1. \A a \in Auth : Cardinality({e \in drain.entries : e[2].auth = a}) \in Int
    <3> TAKE a \in Auth
    <3>1. IsFiniteSet({e \in drain.entries : e[2].auth = a})
      BY FS_Subset DEF DrainOK
    <3> QED
      BY <3>1, FS_CardinalityType
  <2>2. userCounts' \in [Auth -> Int]
    BY <1>24, <2>1 DEF DrainPrune, IndexOK
  <2>3. IndexOK'
    BY <1>24, <2>2 DEF DrainPrune, IndexOK
  <2>4. DrainOK'
    BY <1>24, FS_EmptySet DEF DrainPrune, DrainOK, DrainState, IdleDrain, Entry
  <2> QED
    BY <1>24, <2>3, <2>4 DEF DrainPrune, StoreOK, CallOK, RunOK
<1>25. ASSUME NEW lost \in SUBSET Stored, NEW uncounted \in SUBSET Stored, Restart(lost, uncounted)
       PROVE  TypeOK'
  <2>1. \A d \in Stored : pstore[d] \in Task
    BY DEF Stored, StoreOK, Entry
  <2>2. \A a \in Auth : Cardinality({d \in Stored \ uncounted : pstore[d].auth = a}) \in Int
    <3> TAKE a \in Auth
    <3>1. IsFiniteSet({d \in Stored \ uncounted : pstore[d].auth = a})
      BY FS_Subset DEF Stored
    <3> QED
      BY <3>1, FS_CardinalityType
  <2>3. IndexOK'
    BY <1>25, <2>1, <2>2 DEF Restart, IndexOK, Stored
  <2>4. StoreOK'
    BY <1>25 DEF Restart, Fault, StoreOK
  <2>5. CallOK'
    BY <1>25 DEF Restart, CallOK, CallState, CallPc, IdleCall, Entry
  <2>6. RunOK'
    BY <1>25, IdleRunType DEF Restart, RunOK
  <2>7. DrainOK'
    BY <1>25, FS_EmptySet DEF Restart, DrainOK, DrainState, IdleDrain, Entry
  <2> QED
    BY <2>3, <2>4, <2>5, <2>6, <2>7
<1>26. CASE UNCHANGED vars
  BY <1>26 DEF vars, StoreOK, IndexOK, CallOK, RunOK, DrainOK
<1> QED
  BY <1>1, <1>2, <1>3, <1>4, <1>5, <1>6, <1>7, <1>8, <1>9, <1>10, <1>11, <1>12, <1>13, <1>14,
     <1>15, <1>16, <1>17, <1>18, <1>19, <1>20, <1>21, <1>22, <1>23, <1>24, <1>25, <1>26
     DEF Next, EnqueueStep, LoopStep, DrainStep, Poll

(* Every variable keeps its type, for any tasks, clients, RunDates and bounds. *)
THEOREM TypeCorrect == Spec => []TypeOK
BY TypeInit, TypeStep, PTL DEF Spec

(*---------------------------------------------------------------------------*)
(* The invariant of TaskQueue is inductive, and what follows from it.          *)
LEMMA InvInit == Init => QueueInv
<1> SUFFICES ASSUME Init PROVE QueueInv
  OBVIOUS
<1>1. Stored = {} /\ Known = {} /\ Busy = {} /\ Entering = {}
  BY DEF Init, Stored, Known, Busy, Entering, IdleRun, IdleDrain, IdleCall
<1>2. Identity
  BY <1>1 DEF Identity, KnownIssued, BusyIssued, Distinct, Fresh
<1>3. MissingIsGone /\ DrainedIsGone /\ BuriesFailures /\ StoredIsQueued
  BY <1>1 DEF Init, MissingIsGone, DrainedIsGone, BuriesFailures, StoredIsQueued, IdleRun, IdleDrain
<1> QED
  BY <1>2, <1>3, TypeInit DEF QueueInv

(* RunDates stay told apart when no call moves and nobody learns a RunDate.   *)
LEMMA StillIdentity ==
  ASSUME Identity, Known' \subseteq Known, UNCHANGED <<call, issued>>
  PROVE  Identity'
BY DEF Identity, KnownIssued, BusyIssued, Distinct, Fresh, Busy, Entering

(* They stay told apart when call p moves on; others may learn its RunDate    *)
(* only in the step that writes the entry or after it.                        *)
LEMMA CallIdentity ==
  ASSUME TypeOK, Identity, NEW p \in Procs, call[p].pc # "idle", issued' = issued,
         call' \in [Procs -> CallState],
         \A q \in Procs : q # p => call'[q] = call[q],
         \/ call'[p].pc = "idle"
         \/ call'[p].date = call[p].date,
         \/ Known' \subseteq Known /\ (p \in Entering' => p \in Entering)
         \/ Known' \subseteq Known \cup {call[p].date} /\ p \notin Entering'
  PROVE  Identity'
<1>1. \A q \in Busy' : q \in Busy /\ call'[q].date = call[q].date
  BY DEF Busy
<1>2. \A q \in Entering' : q \in Entering /\ q \in Busy /\ call'[q].date = call[q].date
  BY DEF Entering, Busy
<1>3. p \in Busy
  BY DEF Busy
<1>4. \A q \in Busy : call[q].date \in Dates
  BY DEF Busy, TypeOK, CallOK
<1>5. KnownIssued'
  BY <1>3 DEF Identity, KnownIssued, BusyIssued
<1>6. BusyIssued' /\ Distinct'
  BY <1>1 DEF Identity, BusyIssued, Distinct
<1>7. Fresh'
  BY <1>2, <1>3 DEF Identity, Distinct, Fresh
<1> QED
  BY <1>5, <1>6, <1>7 DEF Identity

(* A call begins with a RunDate nobody knows.                                *)
LEMMA BeginIdentity ==
  ASSUME TypeOK, Identity, NEW p \in Procs, NEW t \in Task, NEW d \in Dates, Begin(p, t, d),
         Known' \subseteq Known
  PROVE  Identity'
<1>1. d \notin Known /\ \A q \in Busy : call[q].date # d
  BY DEF Begin, Identity, KnownIssued, BusyIssued
<1>2. \A e \in Dates : issued[e] # None => issued'[e] # None
  BY TaskAssumption DEF Begin, TypeOK, StoreOK
<1>3. issued'[d] # None
  BY TaskAssumption DEF Begin, TypeOK, StoreOK
<1>4. call'[p].date = d /\ \A q \in Procs : q # p => call'[q] = call[q]
  BY DEF Begin, TypeOK, CallOK
<1>5. \A q \in Busy' : q = p \/ (q \in Busy /\ call'[q].date = call[q].date)
  BY <1>4 DEF Busy
<1>6. \A q \in Entering' : q = p \/ (q \in Entering /\ call'[q].date = call[q].date)
  BY <1>4 DEF Entering
<1>7. Known \subseteq Dates /\ \A q \in Busy : call[q].date \in Dates
  BY DEF Known, Stored, Busy, TypeOK, IndexOK, CallOK, RunOK, DrainOK, DrainState
<1>8. KnownIssued'
  BY <1>2, <1>7 DEF Identity, KnownIssued
<1>9. BusyIssued'
  BY <1>2, <1>3, <1>4, <1>5, <1>7 DEF Identity, BusyIssued
<1>10. Distinct'
  BY <1>1, <1>4, <1>5 DEF Identity, Distinct
<1>11. Fresh'
  BY <1>1, <1>4, <1>6 DEF Identity, Fresh
<1> QED
  BY <1>8, <1>9, <1>10, <1>11 DEF Identity

(* The parts of the invariant about the loop and Drain.                       *)
Gone == MissingIsGone /\ DrainedIsGone /\ BuriesFailures /\ StoredIsQueued

(* What is gone from the store stays gone when a call begins.                *)
LEMMA BeginGone ==
  ASSUME TypeOK, Gone, NEW p \in Procs, NEW t \in Task, NEW d \in Dates, Begin(p, t, d),
         run' = run \/ (run'.pc = "requeued" /\ run.pc = "requeue")
  PROVE  Gone'
<1>1. \A q \in Procs : call[q].pc = "append" => call'[q] = call[q]
  BY DEF Begin, TypeOK, CallOK
<1>2. UNCHANGED <<pstore, dlq, keys, drain, faults>>
  BY DEF Begin, memory, bounds
<1>3. StoredIsQueued'
  BY <1>1, <1>2 DEF Gone, StoredIsQueued, Stored
<1> QED
  BY <1>2, <1>3 DEF Gone, MissingIsGone, DrainedIsGone, BuriesFailures

(* The calls that are about to enter the index.                               *)
Appending(d) == \E p \in Procs : call[p].pc = "append" /\ call[p].date = d

(* Every step keeps the inductive invariant.                                 *)
LEMMA InvStep == QueueInv /\ [Next]_vars => QueueInv'
<1> SUFFICES ASSUME QueueInv, [Next]_vars PROVE Identity' /\ Gone'
  BY TypeStep DEF QueueInv, Gone
<1> USE DEF memory, bounds
<1>0. TypeOK /\ Identity /\ Gone /\ TypeOK'
  BY TypeStep DEF QueueInv, Gone
<1> DEFINE Safe == Identity /\ Gone
<1>1. ASSUME NEW c \in Callers, NEW t \in Task, NEW d \in Dates, ClientEnqueue(c, t, d)
      PROVE  Safe'
  <2>1. Known' = Known /\ c \in Procs
    BY <1>1 DEF ClientEnqueue, Begin, Known, Stored, Procs
  <2> QED
    BY <1>0, <1>1, <2>1, BeginIdentity, BeginGone DEF ClientEnqueue
<1>2. ASSUME NEW t \in Task, NEW d \in Dates, HandlerEnqueue(t, d) PROVE Safe'
  <2>1. Known' = Known /\ Worker \in Procs
    BY <1>2 DEF HandlerEnqueue, Begin, Known, Stored, Procs
  <2> QED
    BY <1>0, <1>2, <2>1, BeginIdentity, BeginGone DEF HandlerEnqueue
<1>3. ASSUME NEW t \in Task, HandlerRefused(t) PROVE Safe'
  <2>1. run'.pc = run.pc /\ run'.date = run.date /\ run'.out = run.out
    BY <1>0, <1>3 DEF HandlerRefused, TypeOK, RunOK, RunState
  <2>2. Known' \subseteq Known
    BY <1>3, <2>1 DEF HandlerRefused, Known, Stored
  <2>3. Identity'
    BY <1>0, <1>3, <2>2, StillIdentity DEF HandlerRefused
  <2> QED
    BY <1>0, <1>3, <2>1, <2>3
       DEF HandlerRefused, Gone, MissingIsGone, DrainedIsGone, BuriesFailures, StoredIsQueued, Stored
<1>4. ASSUME NEW p \in Procs, Dedup(p) PROVE Safe'
  <2>1. /\ call[p].pc = "dedup"
        /\ call'[p].pc = "idle" \/ (call'[p].pc = "throttle" /\ call'[p].date = call[p].date)
        /\ \A q \in Procs : q # p => call'[q] = call[q]
    BY <1>0, <1>4 DEF Dedup, Return, Advance, IdleCall, TypeOK, CallOK, CallState
  <2>2. UNCHANGED <<pstore, dlq, keys, run, drain, issued, faults>>
    BY <1>4 DEF Dedup
  <2>3. Known' = Known
    BY <2>2 DEF Known, Stored
  <2>4. Identity'
    BY <1>0, <2>1, <2>2, <2>3, CallIdentity DEF TypeOK, CallOK, Entering
  <2> QED
    BY <1>0, <2>1, <2>2, <2>4
       DEF Gone, MissingIsGone, DrainedIsGone, BuriesFailures, StoredIsQueued, Stored
<1>5. ASSUME NEW p \in Procs, Throttle(p) PROVE Safe'
  <2>1. /\ call[p].pc = "throttle"
        /\ call'[p].pc = "idle" \/ (call'[p].pc = "write" /\ call'[p].date = call[p].date)
        /\ \A q \in Procs : q # p => call'[q] = call[q]
    BY <1>0, <1>5 DEF Throttle, Return, Advance, IdleCall, TypeOK, CallOK, CallState
  <2>2. UNCHANGED <<pstore, dlq, keys, drain, issued, faults>>
    BY <1>5 DEF Throttle
  <2>3. run'.pc = run.pc /\ run'.date = run.date /\ run'.out = run.out
    BY <1>0, <1>5 DEF Throttle, NoteRefusal, TypeOK, RunOK, RunState
  <2>4. Known' = Known
    BY <2>2, <2>3 DEF Known, Stored
  <2>5. Identity'
    BY <1>0, <2>1, <2>2, <2>4, CallIdentity DEF TypeOK, CallOK, Entering
  <2> QED
    BY <1>0, <2>1, <2>2, <2>3, <2>5
       DEF Gone, MissingIsGone, DrainedIsGone, BuriesFailures, StoredIsQueued, Stored
<1>6. ASSUME NEW p \in Procs, Write(p) PROVE Safe'
  <2> DEFINE d == call[p].date
  <2>1. /\ call[p].pc = "write" /\ d \in Dates /\ p \in Entering
        /\ call'[p].pc \in {"idle", "append"}
        /\ call'[p].pc = "idle" \/ call'[p].date = d
        /\ \A q \in Procs : q # p => call'[q] = call[q]
    BY <1>0, <1>6 DEF Write, Return, Advance, IdleCall, TypeOK, CallOK, CallState, Entering
  <2>2. UNCHANGED <<dlq, keys, run, drain, issued>>
    BY <1>6 DEF Write
  <2>3. \A e \in Dates : e # d => pstore'[e] = pstore[e]
    BY <1>0, <1>6 DEF Write, Fault, TypeOK, StoreOK
  <2>4. Known' \subseteq Known \cup {d}
    BY <2>2, <2>3 DEF Known, Stored
  <2>5. p \notin Entering'
    BY <2>1 DEF Entering
  <2>6. Identity'
    BY <1>0, <2>1, <2>2, <2>4, <2>5, CallIdentity DEF TypeOK, CallOK
  <2>7. d \notin Known
    BY <1>0, <2>1 DEF Identity, Fresh
  <2>8. MissingIsGone' /\ BuriesFailures'
    BY <1>0, <2>1, <2>2, <2>3, <2>7 DEF Gone, MissingIsGone, BuriesFailures, Known, TypeOK, RunOK
  <2>9. faults' = 0 => faults = 0 /\ call'[p].pc = "append" /\ call'[p].date = d
    BY <1>0, <1>6 DEF Write, Fault, Advance, TypeOK, StoreOK, CallOK, CallState
  <2>10. drain.dates \subseteq Dates
    BY <1>0 DEF TypeOK, DrainOK, DrainState
  <2>11. DrainedIsGone'
    BY <1>0, <2>2, <2>3, <2>7, <2>9, <2>10 DEF Gone, DrainedIsGone, Known
  <2>12. StoredIsQueued'
    BY <1>0, <2>1, <2>2, <2>3, <2>9 DEF Gone, StoredIsQueued, Stored
  <2> QED
    BY <2>6, <2>8, <2>11, <2>12 DEF Gone
<1>7. ASSUME NEW p \in Procs, AddToIndex(p) PROVE Safe'
  <2> DEFINE d == call[p].date
  <2>1. /\ call[p].pc = "append" /\ call'[p].pc = "idle"
        /\ \A q \in Procs : q # p => call'[q] = call[q]
    BY <1>0, <1>7 DEF AddToIndex, Return, IdleCall, TypeOK, CallOK
  <2>2. UNCHANGED <<pstore, dlq, run, drain, issued, faults>> /\ keys' = keys \cup {d}
    BY <1>7 DEF AddToIndex
  <2>3. Known' \subseteq Known \cup {d} /\ p \notin Entering'
    BY <2>1, <2>2 DEF Known, Stored, Entering
  <2>4. Identity'
    BY <1>0, <2>1, <2>2, <2>3, CallIdentity DEF TypeOK, CallOK
  <2> QED
    BY <1>0, <2>1, <2>2, <2>4
       DEF Gone, MissingIsGone, DrainedIsGone, BuriesFailures, StoredIsQueued, Stored
<1>8. ASSUME NEW d \in Dates, Pick(d) PROVE Safe'
  <2>1. run'.pc = "read" /\ run'.date = d /\ d \in keys /\ run.pc = "pick"
    BY <1>8 DEF Pick, IdleRun, Candidates, Class
  <2>2. Known' \subseteq Known
    BY <1>8, <2>1 DEF Pick, Known, Stored
  <2>3. Identity'
    BY <1>0, <1>8, <2>2, StillIdentity DEF Pick
  <2> QED
    BY <1>0, <1>8, <2>1, <2>3
       DEF Pick, Gone, MissingIsGone, DrainedIsGone, BuriesFailures, StoredIsQueued, Stored
<1>9. CASE ReadEntry
  <2>1. /\ run.pc = "read"
        /\ \/ run'.pc = "exec" /\ run'.date = run.date
           \/ run'.pc = "drop" /\ run'.date = run.date /\ pstore[run.date] = None
           \/ run'.pc = "pick"
    <3>1. run \in RunState
      BY <1>0 DEF TypeOK, RunOK
    <3>2. IdleRun.pc = "pick"
      BY DEF IdleRun
    <3>3. run' = [run EXCEPT !.pc = "exec", !.task = pstore[run.date]]
            => run'.pc = "exec" /\ run'.date = run.date
      BY <3>1 DEF RunState
    <3>4. run' = [run EXCEPT !.pc = "drop"] => run'.pc = "drop" /\ run'.date = run.date
      BY <3>1 DEF RunState
    <3> QED
      BY <1>9, <3>2, <3>3, <3>4 DEF ReadEntry
  <2>2. UNCHANGED <<pstore, dlq, keys, call, drain, issued>> /\ (faults' = 0 => faults = 0)
    BY <1>0, <1>9 DEF ReadEntry, Fault, TypeOK, StoreOK
  <2>3. Known' \subseteq Known
    BY <2>1, <2>2 DEF Known, Stored
  <2>4. Identity'
    BY <1>0, <2>2, <2>3, StillIdentity
  <2> QED
    BY <1>0, <2>1, <2>2, <2>4
       DEF Gone, MissingIsGone, DrainedIsGone, BuriesFailures, StoredIsQueued, Stored
<1>10. CASE Drop
  <2>1. run.pc = "drop" /\ run'.pc = "pick" /\ keys' = keys \ {run.date}
    BY <1>10 DEF Drop, IdleRun
  <2>2. UNCHANGED <<pstore, dlq, call, drain, issued, faults>>
    BY <1>10 DEF Drop
  <2>3. Known' \subseteq Known
    BY <2>1, <2>2 DEF Known, Stored
  <2>4. Identity'
    BY <1>0, <2>2, <2>3, StillIdentity
  <2> QED
    BY <1>0, <2>1, <2>2, <2>4
       DEF Gone, MissingIsGone, DrainedIsGone, BuriesFailures, StoredIsQueued, Stored
<1>11. CASE Release
  <2>1. run.pc = "release" /\ run'.pc = "forget" /\ run'.date = run.date
    BY <1>0, <1>11 DEF Release, TypeOK, RunOK, RunState
  <2>2. UNCHANGED <<pstore, dlq, keys, call, drain, issued, faults>>
    BY <1>11 DEF Release
  <2>3. Known' \subseteq Known
    BY <2>1, <2>2 DEF Known, Stored
  <2>4. Identity'
    BY <1>0, <2>2, <2>3, StillIdentity
  <2> QED
    BY <1>0, <2>1, <2>2, <2>4
       DEF Gone, MissingIsGone, DrainedIsGone, BuriesFailures, StoredIsQueued, Stored
<1>12. CASE Forget
  <2>1. /\ run.pc = "forget" /\ run'.pc = "erase" /\ run'.date = run.date
        /\ keys' = keys \ {run.date}
    BY <1>0, <1>12 DEF Forget, TypeOK, RunOK, RunState
  <2>2. UNCHANGED <<pstore, dlq, call, drain, issued, faults>>
    BY <1>12 DEF Forget
  <2>3. Known' \subseteq Known
    BY <2>1, <2>2 DEF Known, Stored
  <2>4. Identity'
    BY <1>0, <2>2, <2>3, StillIdentity
  <2> QED
    BY <1>0, <2>1, <2>2, <2>4
       DEF Gone, MissingIsGone, DrainedIsGone, BuriesFailures, StoredIsQueued, Stored
<1>13. CASE Erase
  <2>1. /\ run.pc = "erase" /\ run.date \in Dates
        /\ \/ run'.pc = "requeue" /\ run'.date = run.date
           \/ run'.pc = "pick"
    BY <1>0, <1>13 DEF Erase, IdleRun, TypeOK, RunOK, RunState
  <2>2. UNCHANGED <<dlq, keys, call, drain, issued>>
    BY <1>13 DEF Erase
  <2>3. \A e \in Dates : pstore'[e] = pstore[e] \/ pstore'[e] = None
    BY <1>0, <1>13 DEF Erase, Fault, TypeOK, StoreOK
  <2>4. faults' = 0 => faults = 0 /\ pstore'[run.date] = None
    BY <1>0, <1>13, <2>1 DEF Erase, Fault, TypeOK, StoreOK
  <2>5. Known' \subseteq Known
    BY <2>1, <2>2, <2>3 DEF Known, Stored
  <2>6. Identity'
    BY <1>0, <2>2, <2>5, StillIdentity
  <2>7. drain.dates \subseteq Dates
    BY <1>0 DEF TypeOK, DrainOK, DrainState
  <2>8. DrainedIsGone'
    <3> SUFFICES ASSUME faults' = 0, NEW e \in drain.dates PROVE pstore'[e] = None
      BY <2>2 DEF DrainedIsGone
    <3>1. pstore[e] = None
      BY <1>0, <2>4 DEF Gone, DrainedIsGone
    <3> QED
      BY <2>3, <2>7, <3>1
  <2>9. StoredIsQueued'
    BY <1>0, <2>1, <2>2, <2>3, <2>4 DEF Gone, StoredIsQueued, Stored
  <2> QED
    BY <2>1, <2>6, <2>8, <2>9 DEF Gone, MissingIsGone, BuriesFailures
<1>14. ASSUME NEW d \in Dates, Requeue(d) PROVE Safe'
  <2>1. run.pc = "requeue" /\ run'.pc = "requeued" /\ run'.date = run.date
    BY <1>0, <1>14 DEF Requeue, TypeOK, RunOK, RunState
  <2>2. run.task \in Task /\ Worker \in Procs
    BY <1>0, <2>1 DEF TypeOK, RunOK, Procs
  <2>3. Known' \subseteq Known
    BY <1>14, <2>1 DEF Requeue, Begin, Known, Stored
  <2> QED
    BY <1>0, <1>14, <2>1, <2>2, <2>3, BeginIdentity, BeginGone DEF Requeue
<1>15. CASE RequeueRefused
  <2>1. run.pc = "requeue" /\ run'.pc = "requeued" /\ run'.date = run.date
    BY <1>0, <1>15 DEF RequeueRefused, TypeOK, RunOK, RunState
  <2>2. UNCHANGED <<pstore, dlq, keys, call, drain, issued, faults>>
    BY <1>15 DEF RequeueRefused
  <2>3. Known' \subseteq Known
    BY <2>1, <2>2 DEF Known, Stored
  <2>4. Identity'
    BY <1>0, <2>2, <2>3, StillIdentity
  <2> QED
    BY <1>0, <2>1, <2>2, <2>4
       DEF Gone, MissingIsGone, DrainedIsGone, BuriesFailures, StoredIsQueued, Stored
<1>16. CASE Requeued
  <2>1. run.pc = "requeued" /\ run'.pc = "pick"
    BY <1>16 DEF Requeued, IdleRun
  <2>2. UNCHANGED <<pstore, dlq, keys, call, drain, issued, faults>>
    BY <1>16 DEF Requeued
  <2>3. Known' \subseteq Known
    BY <2>1, <2>2 DEF Known, Stored
  <2>4. Identity'
    BY <1>0, <2>2, <2>3, StillIdentity
  <2> QED
    BY <1>0, <2>1, <2>2, <2>4
       DEF Gone, MissingIsGone, DrainedIsGone, BuriesFailures, StoredIsQueued, Stored
<1>17. CASE Bury
  <2>1. /\ run.pc = "bury" /\ run.date \in Dates
        /\ \/ run'.pc = "forget" /\ run'.date = run.date
           \/ run'.pc = "pick"
    BY <1>0, <1>17 DEF Bury, IdleRun, TypeOK, RunOK, RunState
  <2>2. UNCHANGED <<pstore, keys, call, drain, issued>> /\ (faults' = 0 => faults = 0)
    BY <1>0, <1>17 DEF Bury, Fault, TypeOK, StoreOK
  <2>3. \A e \in Dates : e # run.date => dlq'[e] = dlq[e]
    BY <1>0, <1>17 DEF Bury, Fault, TypeOK, StoreOK
  <2>4. Known' \subseteq Known
    BY <2>1, <2>2, <2>3 DEF Known, Stored
  <2>5. Identity'
    BY <1>0, <2>2, <2>4, StillIdentity
  <2> QED
    BY <1>0, <2>1, <2>2, <2>5
       DEF Gone, MissingIsGone, DrainedIsGone, BuriesFailures, StoredIsQueued, Stored
<1>18. ASSUME NEW out \in Outcome \ {"none"}, Finish(out) PROVE Safe'
  <2>1. /\ run.pc = "exec" /\ run'.pc \in {"release", "forget", "bury"}
        /\ run'.date = run.date /\ (run'.pc = "bury" => run'.out = "other")
    BY <1>0, <1>18 DEF Finish, HandlerReturns, AfterExec, Outcome, TypeOK, RunOK, RunState
  <2>2. UNCHANGED <<pstore, dlq, keys, call, drain, issued, faults>>
    BY <1>18 DEF Finish
  <2>3. Known' \subseteq Known
    BY <2>1, <2>2 DEF Known, Stored
  <2>4. Identity'
    BY <1>0, <2>2, <2>3, StillIdentity
  <2> QED
    BY <1>0, <2>1, <2>2, <2>4
       DEF Gone, MissingIsGone, DrainedIsGone, BuriesFailures, StoredIsQueued, Stored
<1>19. CASE RateLimited
  <2>1. run.pc = "exec" /\ run'.pc = "pick"
    BY <1>19 DEF RateLimited, HandlerReturns, IdleRun
  <2>2. UNCHANGED <<pstore, dlq, keys, call, drain, issued, faults>>
    BY <1>19 DEF RateLimited
  <2>3. Known' \subseteq Known
    BY <2>1, <2>2 DEF Known, Stored
  <2>4. Identity'
    BY <1>0, <2>2, <2>3, StillIdentity
  <2> QED
    BY <1>0, <2>1, <2>2, <2>4
       DEF Gone, MissingIsGone, DrainedIsGone, BuriesFailures, StoredIsQueued, Stored
<1>20. ASSUME NEW t \in DirectTasks, ExecuteRPC(t) PROVE Safe'
  <2>1. UNCHANGED <<pstore, dlq, keys, call, run, drain, issued, faults>>
    BY <1>20 DEF ExecuteRPC
  <2>2. Known' \subseteq Known
    BY <2>1 DEF Known, Stored
  <2>3. Identity'
    BY <1>0, <2>1, <2>2, StillIdentity
  <2> QED
    BY <1>0, <2>1, <2>3
       DEF Gone, MissingIsGone, DrainedIsGone, BuriesFailures, StoredIsQueued, Stored
<1>21. ASSUME NEW kinds \in DrainKinds, DrainStart(kinds) PROVE Safe'
  <2>1. drain'.pc = "scan" /\ drain'.todo = Stored /\ drain'.dates = {}
    BY <1>21 DEF DrainStart, IdleDrain
  <2>2. UNCHANGED <<pstore, dlq, keys, call, run, issued, faults>>
    BY <1>21 DEF DrainStart
  <2>3. Known' \subseteq Known
    BY <2>1, <2>2 DEF Known, Stored
  <2>4. Identity'
    BY <1>0, <2>2, <2>3, StillIdentity
  <2> QED
    BY <1>0, <2>1, <2>2, <2>4
       DEF Gone, MissingIsGone, DrainedIsGone, BuriesFailures, StoredIsQueued, Stored
<1>22. ASSUME NEW d \in Dates, DrainRead(d) PROVE Safe'
  <2>1. /\ d \in drain.todo /\ drain'.dates = drain.dates /\ drain'.todo \subseteq drain.todo
        /\ drain'.pc = "delete" => drain'.date = d
    BY <1>0, <1>22 DEF DrainRead, TypeOK, DrainOK, DrainState
  <2>2. UNCHANGED <<pstore, dlq, keys, call, run, issued>> /\ (faults' = 0 => faults = 0)
    BY <1>0, <1>22 DEF DrainRead, Fault, TypeOK, StoreOK
  <2>3. Known' \subseteq Known
    BY <2>1, <2>2 DEF Known, Stored
  <2>4. Identity'
    BY <1>0, <2>2, <2>3, StillIdentity
  <2> QED
    BY <1>0, <2>1, <2>2, <2>4
       DEF Gone, MissingIsGone, DrainedIsGone, BuriesFailures, StoredIsQueued, Stored
<1>23. CASE DrainDelete
  <2>1. /\ drain.pc = "delete" /\ drain.date \in Dates
        /\ drain'.pc = "scan" /\ drain'.todo = drain.todo
        /\ drain'.dates = drain.dates \cup {drain.date}
    BY <1>0, <1>23 DEF DrainDelete, TypeOK, DrainOK, DrainState
  <2>2. UNCHANGED <<dlq, keys, call, run, issued>>
    BY <1>23 DEF DrainDelete
  <2>3. \A e \in Dates : pstore'[e] = pstore[e] \/ pstore'[e] = None
    BY <1>0, <1>23 DEF DrainDelete, Fault, TypeOK, StoreOK
  <2>4. faults' = 0 => faults = 0 /\ pstore'[drain.date] = None
    BY <1>0, <1>23, <2>1 DEF DrainDelete, Fault, TypeOK, StoreOK
  <2>5. Known' \subseteq Known
    BY <2>1, <2>2, <2>3 DEF Known, Stored
  <2>6. Identity'
    BY <1>0, <2>2, <2>5, StillIdentity
  <2>7. drain.dates \subseteq Dates
    BY <1>0 DEF TypeOK, DrainOK, DrainState
  <2>8. DrainedIsGone'
    BY <1>0, <2>1, <2>3, <2>4, <2>7 DEF Gone, DrainedIsGone
  <2>9. MissingIsGone' /\ BuriesFailures'
    BY <1>0, <2>2, <2>3 DEF Gone, MissingIsGone, BuriesFailures, TypeOK, RunOK
  <2>10. StoredIsQueued'
    BY <1>0, <2>2, <2>3, <2>4 DEF Gone, StoredIsQueued, Stored
  <2> QED
    BY <2>6, <2>8, <2>9, <2>10 DEF Gone
<1>24. CASE DrainPrune
  <2>1. keys' = keys \ drain.dates /\ drain'.pc = "idle" /\ drain'.todo = {} /\ drain'.dates = {}
    BY <1>24 DEF DrainPrune, IdleDrain
  <2>2. UNCHANGED <<pstore, dlq, call, run, issued, faults>>
    BY <1>24 DEF DrainPrune
  <2>3. Known' \subseteq Known
    BY <2>1, <2>2 DEF Known, Stored
  <2>4. Identity'
    BY <1>0, <2>2, <2>3, StillIdentity
  <2> QED
    BY <1>0, <2>1, <2>2, <2>4
       DEF Gone, MissingIsGone, DrainedIsGone, BuriesFailures, StoredIsQueued, Stored
<1>25. ASSUME NEW lost \in SUBSET Stored, NEW uncounted \in SUBSET Stored, Restart(lost, uncounted)
       PROVE  Safe'
  <2>1. /\ keys' = Stored /\ run'.pc = "pick" /\ drain'.pc = "idle"
        /\ drain'.todo = {} /\ drain'.dates = {} /\ Busy' = {} /\ Entering' = {}
    BY <1>25 DEF Restart, IdleRun, IdleDrain, IdleCall, Busy, Entering
  <2>2. UNCHANGED <<pstore, dlq, issued>>
    BY <1>25 DEF Restart
  <2>3. Known' \subseteq Known
    BY <2>1, <2>2 DEF Known, Stored
  <2>4. Identity'
    BY <1>0, <2>1, <2>2, <2>3 DEF Identity, KnownIssued, BusyIssued, Distinct, Fresh
  <2> QED
    BY <2>1, <2>2, <2>4
       DEF Gone, MissingIsGone, DrainedIsGone, BuriesFailures, StoredIsQueued, Stored
<1>26. CASE UNCHANGED vars
  <2>1. Known' \subseteq Known /\ Identity'
    BY <1>0, <1>26, StillIdentity DEF vars, Known, Stored
  <2> QED
    BY <1>0, <1>26, <2>1
       DEF vars, Gone, MissingIsGone, DrainedIsGone, BuriesFailures, StoredIsQueued, Stored
<1> QED
  BY <1>1, <1>2, <1>3, <1>4, <1>5, <1>6, <1>7, <1>8, <1>9, <1>10, <1>11, <1>12, <1>13, <1>14,
     <1>15, <1>16, <1>17, <1>18, <1>19, <1>20, <1>21, <1>22, <1>23, <1>24, <1>25, <1>26
     DEF Next, EnqueueStep, LoopStep, DrainStep, Poll

(* RunDates identify entries, and neither the loop nor a Drain forgets an     *)
(* entry that is still persisted.                                             *)
THEOREM QueueInvariant == Spec => []QueueInv
BY InvInit, InvStep, PTL DEF Spec

(* As long as pstore answers, whatever is persisted is in the index, on its   *)
(* way into it or being deleted: with any number of clients, tasks, Drain     *)
(* requests and restarts.                                                     *)
THEOREM PersistedIsQueued == Spec => []StoredIsQueued
<1>1. QueueInv => StoredIsQueued
  BY DEF QueueInv
<1> QED
  BY <1>1, QueueInvariant, PTL

----------------------------------------------------------------------------
(* The refinement of DurableQueue.                                            *)

jobBar == IF Held THEN <<run.date, run.task>> ELSE None

(* A step that leaves the stores and what the worker holds alone is a         *)
(* stutter of the durable queue.                                              *)
LEMMA Stutter ==
  ASSUME UNCHANGED <<pstore, dlq, jobBar, phaseBar>>
  PROVE  [Promise!Next]_Promise!vars
BY DEF Promise!vars, jobBar

(* A step that leaves the stores and the progress of the loop alone is a stutter. *)
LEMMA RunUnchanged ==
  ASSUME UNCHANGED <<pstore, dlq>>,
         run'.pc = run.pc, run'.date = run.date, run'.task = run.task, run'.out = run.out
  PROVE  [Promise!Next]_Promise!vars
BY Stutter DEF jobBar, Held, phaseBar

(* So is one between which the loop holds no entry.                          *)
LEMMA NothingHeld ==
  ASSUME UNCHANGED <<pstore, dlq>>, ~Held, ~Held'
  PROVE  [Promise!Next]_Promise!vars
<1>1. phaseBar = "idle" /\ phaseBar' = "idle" /\ jobBar = None /\ jobBar' = None
  BY DEF jobBar, Held, phaseBar
<1> QED
  BY <1>1, Stutter

(* The initial states of the queue are initial states of the promise.        *)
LEMMA DurableInit == Init => Promise!Init
BY DEF Init, Promise!Init, IdleRun, Held, phaseBar

(* Every step of the queue is a step of the promise, or a stutter.           *)
LEMMA DurableStep ==
  ASSUME QueueInv, QueueInv', [Next]_vars
  PROVE  [Promise!Next]_Promise!vars
<1> USE DEF memory, bounds
<1>0. TypeOK /\ Identity /\ BuriesFailures
  BY DEF QueueInv
<1>a. run \in RunState /\ pstore \in [Dates -> Entry] /\ dlq \in [Dates -> Entry]
  BY <1>0 DEF TypeOK, RunOK, StoreOK
<1>b. IdleRun.pc = "pick"
  BY DEF IdleRun
<1>1. ASSUME NEW c \in Callers, NEW t \in Task, NEW d \in Dates, ClientEnqueue(c, t, d)
      PROVE  [Promise!Next]_Promise!vars
  BY <1>1, RunUnchanged DEF ClientEnqueue, Begin
<1>2. ASSUME NEW t \in Task, NEW d \in Dates, HandlerEnqueue(t, d)
      PROVE  [Promise!Next]_Promise!vars
  BY <1>2, RunUnchanged DEF HandlerEnqueue, Begin
<1>3. ASSUME NEW t \in Task, HandlerRefused(t) PROVE [Promise!Next]_Promise!vars
  BY <1>3, <1>a, RunUnchanged DEF HandlerRefused, RunState
<1>4. ASSUME NEW p \in Procs, Dedup(p) PROVE [Promise!Next]_Promise!vars
  BY <1>4, RunUnchanged DEF Dedup
<1>5. ASSUME NEW p \in Procs, Throttle(p) PROVE [Promise!Next]_Promise!vars
  BY <1>5, <1>a, RunUnchanged DEF Throttle, NoteRefusal, RunState
<1>6. ASSUME NEW p \in Procs, Write(p) PROVE [Promise!Next]_Promise!vars
  <2> DEFINE d == call[p].date
             t == call[p].task
  <2>1. d \in Dates /\ t \in Task /\ p \in Entering
    BY <1>0, <1>6 DEF Write, TypeOK, CallOK, Entering
  <2>2. pstore[d] = None /\ dlq[d] = None
    BY <1>0, <2>1 DEF Identity, Fresh, Known, Stored
  <2>3. UNCHANGED <<dlq, run>>
    BY <1>6 DEF Write
  <2>4. CASE pstore' = pstore
    BY <2>3, <2>4, RunUnchanged
  <2>5. CASE pstore' = [pstore EXCEPT ![d] = t]
    <3>1. Promise!Accept(d, t)
      BY <2>2, <2>3, <2>5 DEF Promise!Accept, Held, phaseBar
    <3> QED
      BY <2>1, <3>1 DEF Promise!Next
  <2> QED
    BY <1>6, <2>4, <2>5 DEF Write
<1>7. ASSUME NEW p \in Procs, AddToIndex(p) PROVE [Promise!Next]_Promise!vars
  BY <1>7, RunUnchanged DEF AddToIndex
<1>8. ASSUME NEW d \in Dates, Pick(d) PROVE [Promise!Next]_Promise!vars
  <2>1. run.pc = "pick" /\ run'.pc = "read"
    BY <1>8 DEF Pick, IdleRun
  <2> QED
    BY <1>8, <2>1, NothingHeld DEF Pick, Held
<1>9. CASE ReadEntry
  <2>1. run.pc = "read" /\ run.date \in Dates /\ UNCHANGED <<pstore, dlq>>
    BY <1>0, <1>9 DEF ReadEntry, TypeOK, RunOK
  <2>2. CASE run' = IdleRun \/ run' = [run EXCEPT !.pc = "drop"]
    <3>1. run'.pc \in {"pick", "drop"}
      BY <1>a, <1>b, <2>2 DEF RunState
    <3> QED
      BY <2>1, <3>1, NothingHeld DEF Held
  <2>3. ASSUME pstore[run.date] # None,
               run' = [run EXCEPT !.pc = "exec", !.task = pstore[run.date]]
        PROVE  [Promise!Next]_Promise!vars
    <3>1. run'.pc = "exec" /\ run'.date = run.date /\ run'.task = pstore[run.date]
      BY <1>a, <2>3 DEF RunState
    <3>2. Promise!Start(run.date)
      BY <2>1, <2>3, <3>1 DEF Promise!Start, Held, phaseBar
    <3> QED
      BY <2>1, <3>2 DEF Promise!Next
  <2> QED
    BY <1>9, <2>2, <2>3 DEF ReadEntry
<1>10. CASE Drop
  <2>1. run.pc = "drop" /\ run'.pc = "pick"
    BY <1>10, <1>b DEF Drop
  <2> QED
    BY <1>10, <2>1, NothingHeld DEF Drop, Held
<1>11. CASE Release
  <2>1. /\ run.pc = "release" /\ run'.pc = "forget"
        /\ run'.date = run.date /\ run'.task = run.task /\ run'.out = run.out
    BY <1>11, <1>a DEF Release, RunState
  <2> QED
    BY <1>11, <2>1, Stutter DEF Release, jobBar, Held, phaseBar
<1>12. CASE Forget
  <2>1. /\ run.pc = "forget" /\ run'.pc = "erase"
        /\ run'.date = run.date /\ run'.task = run.task /\ run'.out = run.out
    BY <1>12, <1>a DEF Forget, RunState
  <2> QED
    BY <1>12, <2>1, Stutter DEF Forget, jobBar, Held, phaseBar
<1>13. CASE Erase
  <2>1. run.pc = "erase" /\ run'.pc \in {"requeue", "pick"} /\ dlq' = dlq
    BY <1>13, <1>a, <1>b DEF Erase, RunState
  <2>2. /\ Held /\ ~Held' /\ phaseBar \in {"done", "buried"} /\ phaseBar' = "idle"
    BY <2>1 DEF Held, phaseBar
  <2>3. CASE pstore' = pstore
    <3>1. Promise!Put
      BY <2>1, <2>2, <2>3 DEF Promise!Put
    <3> QED
      BY <3>1 DEF Promise!Next
  <2>4. CASE pstore' = [pstore EXCEPT ![run.date] = None]
    <3>1. Promise!Remove
      BY <2>1, <2>2, <2>4 DEF Promise!Remove
    <3> QED
      BY <3>1 DEF Promise!Next
  <2> QED
    BY <1>13, <2>3, <2>4 DEF Erase
<1>14. ASSUME NEW d \in Dates, Requeue(d) PROVE [Promise!Next]_Promise!vars
  <2>1. run.pc = "requeue" /\ run'.pc = "requeued"
    BY <1>14, <1>a DEF Requeue, RunState
  <2> QED
    BY <1>14, <2>1, NothingHeld DEF Requeue, Begin, Held
<1>15. CASE RequeueRefused
  <2>1. run.pc = "requeue" /\ run'.pc = "requeued"
    BY <1>15, <1>a DEF RequeueRefused, RunState
  <2> QED
    BY <1>15, <2>1, NothingHeld DEF RequeueRefused, Held
<1>16. CASE Requeued
  <2>1. run.pc = "requeued" /\ run'.pc = "pick"
    BY <1>16, <1>b DEF Requeued
  <2> QED
    BY <1>16, <2>1, NothingHeld DEF Requeued, Held
<1>17. CASE Bury
  <2>1. run.pc = "bury" /\ run.out = "other" /\ run.date \in Dates /\ pstore' = pstore
    BY <1>0, <1>17 DEF Bury, BuriesFailures, TypeOK, RunOK
  <2>2. Held /\ phaseBar = "failed"
    BY <2>1 DEF Held, phaseBar
  <2>3. CASE run' = [run EXCEPT !.pc = "forget"] /\ dlq' = [dlq EXCEPT ![run.date] = run.task]
    <3>1. /\ run'.pc = "forget" /\ run'.date = run.date /\ run'.task = run.task
          /\ run'.out = "other"
      BY <1>a, <2>1, <2>3 DEF RunState
    <3>2. Held' /\ phaseBar' = "buried"
      BY <3>1 DEF Held, phaseBar
    <3>3. Promise!Bury
      BY <2>1, <2>2, <2>3, <3>1, <3>2 DEF Promise!Bury, Promise!SetAside
    <3> QED
      BY <3>3 DEF Promise!Next
  <2>4. CASE run' = IdleRun /\ dlq' \in {dlq, [dlq EXCEPT ![run.date] = run.task]}
    <3>1. ~Held' /\ phaseBar' = "idle"
      BY <1>b, <2>4 DEF Held, phaseBar
    <3>2. Promise!Put
      BY <2>1, <2>2, <2>4, <3>1 DEF Promise!Put, Promise!SetAside
    <3> QED
      BY <3>2 DEF Promise!Next
  <2> QED
    BY <1>17, <2>3, <2>4 DEF Bury
<1>18. ASSUME NEW out \in Outcome \ {"none"}, Finish(out) PROVE [Promise!Next]_Promise!vars
  <2>1. /\ run.pc = "exec" /\ UNCHANGED <<pstore, dlq>>
        /\ run'.pc = AfterExec[out] /\ run'.out = out
        /\ run'.date = run.date /\ run'.task = run.task
    BY <1>18, <1>a DEF Finish, HandlerReturns, RunState
  <2>2. (run'.pc \in {"release", "forget"} /\ out # "other") \/ run'.pc = "bury"
    BY <2>1 DEF AfterExec, Outcome
  <2>3. Held /\ Held' /\ phaseBar = "running" /\ phaseBar' \in {"done", "failed"}
    BY <2>1, <2>2 DEF Held, phaseBar
  <2>4. Promise!End
    BY <2>1, <2>3 DEF Promise!End
  <2> QED
    BY <2>4 DEF Promise!Next
<1>19. CASE RateLimited
  <2>1. run.pc = "exec" /\ run'.pc = "pick" /\ UNCHANGED <<pstore, dlq>>
    BY <1>19, <1>b DEF RateLimited, HandlerReturns
  <2>2. phaseBar = "running" /\ ~Held' /\ phaseBar' = "idle"
    BY <2>1 DEF Held, phaseBar
  <2>3. Promise!Put
    BY <2>1, <2>2 DEF Promise!Put
  <2> QED
    BY <2>3 DEF Promise!Next
<1>20. ASSUME NEW t \in DirectTasks, ExecuteRPC(t) PROVE [Promise!Next]_Promise!vars
  BY <1>20, RunUnchanged DEF ExecuteRPC
<1>21. ASSUME NEW kinds \in DrainKinds, DrainStart(kinds) PROVE [Promise!Next]_Promise!vars
  BY <1>21, RunUnchanged DEF DrainStart
<1>22. ASSUME NEW d \in Dates, DrainRead(d) PROVE [Promise!Next]_Promise!vars
  BY <1>22, RunUnchanged DEF DrainRead
<1>23. CASE DrainDelete
  <2>1. drain.date \in Dates /\ UNCHANGED <<dlq, run>>
    BY <1>0, <1>23 DEF DrainDelete, TypeOK, DrainOK
  <2>2. CASE pstore' = pstore
    BY <2>1, <2>2, RunUnchanged
  <2>3. CASE pstore' = [pstore EXCEPT ![drain.date] = None]
    <3>1. Promise!Cancel(drain.date)
      BY <2>1, <2>3 DEF Promise!Cancel, Held, phaseBar
    <3> QED
      BY <2>1, <3>1 DEF Promise!Next
  <2> QED
    BY <1>23, <2>2, <2>3 DEF DrainDelete
<1>24. CASE DrainPrune
  BY <1>24, RunUnchanged DEF DrainPrune
<1>25. ASSUME NEW lost \in SUBSET Stored, NEW uncounted \in SUBSET Stored, Restart(lost, uncounted)
       PROVE  [Promise!Next]_Promise!vars
  <2>1. UNCHANGED <<pstore, dlq>> /\ ~Held' /\ phaseBar' = "idle"
    BY <1>25, <1>b DEF Restart, Held, phaseBar
  <2>2. CASE ~Held
    BY <2>1, <2>2, NothingHeld
  <2>3. CASE Held
    <3>1. phaseBar # "idle"
      BY <2>3 DEF Held, phaseBar
    <3>2. Promise!Put
      BY <2>1, <3>1 DEF Promise!Put
    <3> QED
      BY <3>2 DEF Promise!Next
  <2> QED
    BY <2>2, <2>3
<1>26. CASE UNCHANGED vars
  BY <1>26, RunUnchanged DEF vars
<1> QED
  BY <1>1, <1>2, <1>3, <1>4, <1>5, <1>6, <1>7, <1>8, <1>9, <1>10, <1>11, <1>12, <1>13, <1>14,
     <1>15, <1>16, <1>17, <1>18, <1>19, <1>20, <1>21, <1>22, <1>23, <1>24, <1>25, <1>26
     DEF Next, EnqueueStep, LoopStep, DrainStep, Poll

(* Whatever calls to pstore fail and whenever the process stops, an accepted  *)
(* entry stays persisted until its handler has run to an end or a Drain       *)
(* takes it, and a failed one is set aside before it is deleted.              *)
THEOREM QueueIsDurable == Spec => Durable
BY DurableInit, DurableStep, QueueInvariant, PTL DEF Spec, Durable, Promise!Spec
------------------------------------------------------------------------------
(***************************************************************************)
(* The index of the queue while pstore answers and nobody drains: the      *)
(* counts the throttle goes by, the deduplication keys and the order in    *)
(* which the loop takes entries.                                           *)
(***************************************************************************)

(* Without a Drain and a failure nothing but calls, the loop, the Execute    *)
(* RPC and restarts is left.                                                 *)
LEMMA UndisturbedStep ==
  ASSUME TypeOK, Undisturbed, Undisturbed', Next
  PROVE  \/ \E c \in Callers, t \in Task, d \in Dates : ClientEnqueue(c, t, d)
         \/ \E p \in Procs : EnqueueStep(p)
         \/ \E t \in Task, d \in Dates : HandlerEnqueue(t, d)
         \/ \E t \in Task : HandlerRefused(t)
         \/ LoopStep
         \/ \E out \in Outcome \ {"none"} : Finish(out)
         \/ RateLimited
         \/ UNCHANGED vars
         \/ \E t \in DirectTasks : ExecuteRPC(t)
         \/ \E lost, uncounted \in SUBSET Stored : Restart(lost, uncounted)
<1>1. ~DrainStep
  BY DEF Undisturbed, DrainStep, DrainRead, DrainDelete, DrainPrune
<1>2. ASSUME NEW kinds \in DrainKinds PROVE ~DrainStart(kinds)
  BY DEF Undisturbed, DrainStart, IdleDrain
<1> QED
  BY <1>1, <1>2 DEF Next, Poll

(* No pstore call of the step fails.                                         *)
LEMMA NoFault ==
  ASSUME TypeOK, Undisturbed, Undisturbed'
  PROVE  ~Fault
BY DEF Undisturbed, Fault

(* What the entries and the loop agree on.                                   *)
Agreement ==
  /\ CallsCarry /\ StoreCarries
  /\ IndexStored /\ EntersOnce
  /\ LoopApart /\ LoopHolds /\ WorkerEnqueues

(* A step of the loop alone.                                                 *)
LEMMA LoopAlone ==
  ASSUME Agreement, UNCHANGED <<pstore, keys, pMap, call, issued>>,
         LoopApart', LoopHolds', WorkerEnqueues'
  PROVE  Agreement'
BY DEF Agreement, CallsCarry, StoreCarries, IndexStored, EntersOnce, Busy, Stored

(* A call begins under a RunDate nobody knows.                               *)
LEMMA BeginAgreement ==
  ASSUME TypeOK, Identity, Agreement, NEW p \in Procs, NEW t \in Task, NEW d \in Dates,
         Begin(p, t, d), run'.date = run.date, run'.task = run.task,
         run'.pc = run.pc \/ (run.pc = "requeue" /\ run'.pc = "requeued"),
         p = Worker => run'.pc \in {"exec", "requeued"}
  PROVE  Agreement'
<1>1. /\ issued[d] = None /\ issued'[d] = t
      /\ \A e \in Dates : e # d => issued'[e] = issued[e]
      /\ UNCHANGED <<pstore, keys, pMap>>
  BY DEF Begin, TypeOK, StoreOK, memory
<1>2. call'[p] = [pc |-> "dedup", date |-> d, task |-> t] /\ \A q \in Procs : q # p => call'[q] = call[q]
  BY DEF Begin, TypeOK, CallOK
<1>3. d \notin Known /\ \A q \in Busy : call[q].date # d
  BY <1>1 DEF Identity, KnownIssued, BusyIssued
<1>4. \A q \in Busy : call[q].date \in Dates
  BY DEF Busy, TypeOK, CallOK
<1>5. \A q \in Busy' : q = p \/ (q \in Busy /\ call'[q] = call[q])
  BY <1>2 DEF Busy
<1>6. run.pc # "pick" => run.date # d /\ run.date \in Dates
  BY <1>3 DEF Known, TypeOK, RunOK
<1>7. CallsCarry'
  BY <1>1, <1>2, <1>3, <1>4, <1>5 DEF Agreement, CallsCarry
<1>8. StoreCarries' /\ IndexStored'
  BY <1>1, <1>3 DEF Agreement, StoreCarries, IndexStored, Stored, Known
<1>9. EntersOnce'
  BY <1>1, <1>2 DEF Agreement, EntersOnce, Stored
<1>10. LoopApart'
  BY <1>2, <1>5, <1>6 DEF Agreement, LoopApart
<1>11. LoopHolds'
  BY <1>1, <1>6 DEF Agreement, LoopHolds
<1>12. WorkerEnqueues'
  BY <1>5 DEF Agreement, WorkerEnqueues
<1> QED
  BY <1>7, <1>8, <1>9, <1>10, <1>11, <1>12 DEF Agreement

(* Call p moves on without a word to the store or the index.                 *)
LEMMA CallAgreement ==
  ASSUME Agreement, NEW p \in Procs, UNCHANGED <<pstore, keys, pMap, issued>>,
         run' = run \/ run' = [run EXCEPT !.refused = TRUE], run \in RunState,
         \A q \in Procs : q # p => call'[q] = call[q], call[p].pc # "idle",
         \/ call'[p].pc = "idle"
         \/ /\ call'[p].pc # "append"
            /\ call'[p].date = call[p].date /\ call'[p].task = call[p].task
  PROVE  Agreement'
<1>1. run'.pc = run.pc /\ run'.date = run.date /\ run'.task = run.task
  BY DEF RunState
<1>2. \A q \in Busy' : q \in Busy /\ call'[q].date = call[q].date /\ call'[q].task = call[q].task
  BY DEF Busy
<1>3. CallsCarry' /\ LoopApart' /\ WorkerEnqueues'
  BY <1>1, <1>2 DEF Agreement, CallsCarry, LoopApart, WorkerEnqueues
<1>4. StoreCarries' /\ IndexStored' /\ EntersOnce' /\ LoopHolds'
  BY <1>1 DEF Agreement, StoreCarries, IndexStored, EntersOnce, LoopHolds, Stored
<1> QED
  BY <1>3, <1>4 DEF Agreement

(* The entries, the index and the loop keep agreeing.                        *)
LEMMA AgreementStep ==
  ASSUME QueueInv, Agreement, Undisturbed, Undisturbed', [Next]_vars
  PROVE  Agreement'
<1> USE DEF memory, bounds
<1>0. TypeOK /\ Identity /\ ~Fault /\ run \in RunState
  BY NoFault DEF QueueInv, TypeOK, RunOK
<1>a. IdleRun.pc = "pick" /\ IdleCall.pc = "idle"
  BY DEF IdleRun, IdleCall
<1>1. ASSUME NEW c \in Callers, NEW t \in Task, NEW d \in Dates, ClientEnqueue(c, t, d)
      PROVE  Agreement'
  BY <1>0, <1>1, BeginAgreement, ProcAssumption DEF ClientEnqueue, Procs
<1>2. ASSUME NEW t \in Task, NEW d \in Dates, HandlerEnqueue(t, d) PROVE Agreement'
  BY <1>0, <1>2, BeginAgreement DEF HandlerEnqueue, Procs
<1>3. ASSUME NEW t \in Task, HandlerRefused(t) PROVE Agreement'
  <2>1. run'.pc = run.pc /\ run'.date = run.date /\ run'.task = run.task
    BY <1>0, <1>3 DEF HandlerRefused, RunState
  <2> QED
    BY <1>3, <2>1, LoopAlone
       DEF HandlerRefused, Agreement, LoopApart, LoopHolds, WorkerEnqueues, Busy
<1>4. ASSUME NEW p \in Procs, Dedup(p) PROVE Agreement'
  <2>1. /\ \A q \in Procs : q # p => call'[q] = call[q]
        /\ call[p].pc # "idle"
        /\ \/ call'[p].pc = "idle"
           \/ /\ call'[p].pc # "append"
              /\ call'[p].date = call[p].date /\ call'[p].task = call[p].task
    BY <1>0, <1>a, <1>4 DEF Dedup, Return, Advance, TypeOK, CallOK, CallState
  <2> QED
    BY <1>0, <1>4, <2>1, CallAgreement DEF Dedup
<1>5. ASSUME NEW p \in Procs, Throttle(p) PROVE Agreement'
  <2>1. /\ \A q \in Procs : q # p => call'[q] = call[q]
        /\ call[p].pc # "idle"
        /\ \/ call'[p].pc = "idle"
           \/ /\ call'[p].pc # "append"
              /\ call'[p].date = call[p].date /\ call'[p].task = call[p].task
    BY <1>0, <1>a, <1>5 DEF Throttle, Return, Advance, TypeOK, CallOK, CallState
  <2>2. run' = run \/ run' = [run EXCEPT !.refused = TRUE]
    BY <1>5 DEF Throttle, NoteRefusal
  <2> QED
    BY <1>0, <1>5, <2>1, <2>2, CallAgreement DEF Throttle
<1>6. ASSUME NEW p \in Procs, Write(p) PROVE Agreement'
  <2> DEFINE d == call[p].date
  <2>1. /\ call[p].pc = "write" /\ d \in Dates /\ p \in Entering /\ p \in Busy
        /\ call'[p].pc = "append" /\ call'[p].date = d /\ call'[p].task = call[p].task
        /\ \A q \in Procs : q # p => call'[q] = call[q]
    BY <1>0, <1>6 DEF Write, Advance, TypeOK, CallOK, CallState, Entering, Busy
  <2>2. UNCHANGED <<keys, pMap, run, issued>>
    BY <1>6 DEF Write
  <2>3. /\ pstore'[d] = call[p].task /\ call[p].task \in Task
        /\ \A e \in Dates : e # d => pstore'[e] = pstore[e]
    BY <1>0, <1>6, <2>1 DEF Write, TypeOK, StoreOK, CallOK
  <2>4. d \notin keys
    BY <1>0, <2>1 DEF Identity, Fresh, Known
  <2>5. \A q \in Busy : q # p => call[q].date # d
    BY <1>0, <2>1 DEF Identity, Distinct
  <2>6. Stored' = Stored \cup {d}
    BY <2>1, <2>3, TaskAssumption DEF Stored
  <2>7. Busy' = Busy
    BY <2>1 DEF Busy
  <2>8. CallsCarry' /\ LoopApart' /\ WorkerEnqueues' /\ LoopHolds'
    BY <2>1, <2>2, <2>7 DEF Agreement, CallsCarry, LoopApart, WorkerEnqueues, LoopHolds, Busy
  <2>9. StoreCarries'
    BY <2>1, <2>2, <2>3, <2>6 DEF Agreement, StoreCarries, CallsCarry, Stored
  <2>10. IndexStored'
    BY <2>2, <2>3, <2>4, <2>6 DEF Agreement, IndexStored, Stored
  <2>11. EntersOnce'
    BY <2>1, <2>2, <2>4, <2>6 DEF Agreement, EntersOnce
  <2> QED
    BY <2>8, <2>9, <2>10, <2>11 DEF Agreement
<1>7. ASSUME NEW p \in Procs, AddToIndex(p) PROVE Agreement'
  <2> DEFINE d == call[p].date
  <2>1. /\ call[p].pc = "append" /\ d \in Dates /\ p \in Busy /\ call'[p].pc = "idle"
        /\ \A q \in Procs : q # p => call'[q] = call[q]
    BY <1>0, <1>7, <1>a DEF AddToIndex, Return, TypeOK, CallOK, Busy
  <2>2. UNCHANGED <<pstore, run, issued>> /\ keys' = keys \cup {d}
    BY <1>7 DEF AddToIndex
  <2>3. pMap'[d] = call[p].task.prio /\ \A e \in Dates : e # d => pMap'[e] = pMap[e]
    BY <1>0, <1>7, <2>1 DEF AddToIndex, TypeOK, IndexOK
  <2>4. d \in Stored /\ d \notin keys /\ pstore[d] = call[p].task
    BY <2>1 DEF Agreement, EntersOnce, CallsCarry, StoreCarries
  <2>5. \A q \in Busy : q # p => call[q].date # d
    BY <1>0, <2>1 DEF Identity, Distinct
  <2>6. \A q \in Busy' : q # p /\ q \in Busy /\ call'[q] = call[q]
    BY <2>1 DEF Busy
  <2>7. CallsCarry' /\ LoopApart' /\ WorkerEnqueues' /\ StoreCarries'
    BY <2>2, <2>6 DEF Agreement, CallsCarry, LoopApart, WorkerEnqueues, StoreCarries, Stored
  <2>8. run.pc # "pick" => run.date # d
    BY <2>1 DEF Agreement, LoopApart
  <2>9. LoopHolds'
    BY <2>2, <2>8 DEF Agreement, LoopHolds
  <2>10. IndexStored'
    BY <1>0, <2>2, <2>3, <2>4 DEF Agreement, IndexStored, Stored
  <2>11. EntersOnce'
    <3> SUFFICES ASSUME NEW q \in Procs, call'[q].pc = "append"
                 PROVE  call'[q].date \in Stored' /\ call'[q].date \notin keys'
      BY DEF EntersOnce
    <3>1. q # p /\ call'[q] = call[q] /\ q \in Busy
      BY <2>1 DEF Busy
    <3> QED
      BY <2>2, <2>5, <3>1 DEF Agreement, EntersOnce, Stored
  <2> QED
    BY <2>7, <2>9, <2>10, <2>11 DEF Agreement
<1>8. ASSUME NEW d \in Dates, Pick(d) PROVE Agreement'
  <2>1. run'.pc = "read" /\ run'.date = d /\ d \in keys /\ run.pc = "pick"
    BY <1>8 DEF Pick, IdleRun, Candidates, Class
  <2>2. \A p \in Busy : call[p].date # d
    BY <1>0, <2>1 DEF Identity, Fresh, Known, Agreement, EntersOnce, Busy, Entering,
                      TypeOK, CallOK, CallState, CallPc
  <2>3. LoopApart' /\ LoopHolds' /\ WorkerEnqueues'
    BY <1>8, <2>1, <2>2
       DEF Pick, Agreement, LoopApart, LoopHolds, WorkerEnqueues, Busy
  <2> QED
    BY <1>8, <2>3, LoopAlone DEF Pick
<1>9. CASE ReadEntry
  <2>1. run.pc = "read" /\ pstore[run.date] # None /\ pstore[run.date] = issued[run.date]
    BY <1>9 DEF ReadEntry, Agreement, LoopHolds, IndexStored, StoreCarries, Stored
  <2>2. run'.pc = "exec" /\ run'.date = run.date /\ run'.task = issued[run.date]
    BY <1>0, <1>9, <2>1 DEF ReadEntry, RunState
  <2>3. UNCHANGED <<pstore, keys, pMap, call, issued>>
    BY <1>9 DEF ReadEntry
  <2> QED
    BY <2>1, <2>2, <2>3, LoopAlone
       DEF Agreement, LoopApart, LoopHolds, WorkerEnqueues, Busy
<1>10. ~Drop
  BY DEF Drop, Agreement, LoopHolds
<1>11. CASE Release
  <2>1. run.pc = "release" /\ run'.pc = "forget" /\ run'.date = run.date /\ run'.task = run.task
    BY <1>0, <1>11 DEF Release, RunState
  <2> QED
    BY <1>11, <2>1, LoopAlone
       DEF Release, Agreement, LoopApart, LoopHolds, WorkerEnqueues, Busy
<1>12. CASE Forget
  <2> DEFINE d == run.date
  <2>1. /\ run.pc = "forget" /\ run'.pc = "erase" /\ run'.date = d /\ d \in Dates
        /\ keys' = keys \ {d}
    BY <1>0, <1>12 DEF Forget, TypeOK, RunOK, RunState
  <2>2. UNCHANGED <<pstore, call, issued>> /\ \A e \in Dates : e # d => pMap'[e] = pMap[e]
    BY <1>0, <1>12 DEF Forget, TypeOK, IndexOK
  <2>3. CallsCarry' /\ StoreCarries' /\ EntersOnce' /\ LoopApart' /\ LoopHolds'
    BY <2>1, <2>2
       DEF Agreement, CallsCarry, StoreCarries, EntersOnce, LoopApart, LoopHolds, Busy, Stored
  <2>4. WorkerEnqueues'
    BY <2>1, <2>2 DEF Agreement, WorkerEnqueues, Busy
  <2>5. IndexStored'
    BY <1>0, <2>1, <2>2 DEF Agreement, IndexStored, Stored, TypeOK, IndexOK
  <2> QED
    BY <2>3, <2>4, <2>5 DEF Agreement
<1>13. CASE Erase
  <2> DEFINE d == run.date
  <2>1. /\ run.pc = "erase" /\ d \in Dates /\ d \notin keys
        /\ run'.pc = "pick" \/ (run'.pc = "requeue" /\ run'.date = d)
    BY <1>0, <1>13, <1>a DEF Erase, TypeOK, RunOK, RunState, Agreement, LoopHolds
  <2>2. UNCHANGED <<keys, pMap, call, issued>> /\ Stored' = Stored \ {d}
    BY <1>0, <1>13, <2>1 DEF Erase, TypeOK, StoreOK, Stored
  <2>3. \A e \in Dates : e # d => pstore'[e] = pstore[e]
    BY <1>0, <1>13, <2>1 DEF Erase, TypeOK, StoreOK
  <2>4. \A p \in Busy : call[p].date # d
    BY <2>1 DEF Agreement, LoopApart
  <2>5. CallsCarry' /\ StoreCarries' /\ LoopApart'
    BY <2>1, <2>2, <2>3, <2>4 DEF Agreement, CallsCarry, StoreCarries, LoopApart, Busy, Stored
  <2>6. LoopHolds'
    BY <2>1 DEF LoopHolds
  <2>7. WorkerEnqueues'
    BY <2>1, <2>2 DEF Agreement, WorkerEnqueues, Busy
  <2>8. EntersOnce'
    BY <2>2, <2>4 DEF Agreement, EntersOnce, Busy
  <2>9. IndexStored'
    BY <2>1, <2>2, <2>3 DEF Agreement, IndexStored, Stored
  <2> QED
    BY <2>5, <2>6, <2>7, <2>8, <2>9 DEF Agreement
<1>14. ASSUME NEW d \in Dates, Requeue(d) PROVE Agreement'
  <2>1. /\ run.pc = "requeue" /\ run'.pc = "requeued"
        /\ run'.date = run.date /\ run'.task = run.task
    BY <1>0, <1>14 DEF Requeue, RunState
  <2>2. run.task \in Task /\ Worker \in Procs
    BY <1>0, <2>1 DEF TypeOK, RunOK, Procs
  <2> QED
    BY <1>0, <1>14, <2>1, <2>2, BeginAgreement DEF Requeue
<1>15. CASE RequeueRefused
  <2>1. run.pc = "requeue" /\ run'.pc = "requeued" /\ run'.date = run.date
    BY <1>0, <1>15 DEF RequeueRefused, RunState
  <2> QED
    BY <1>15, <2>1, LoopAlone
       DEF RequeueRefused, Agreement, LoopApart, LoopHolds, WorkerEnqueues, Busy
<1>16. CASE Requeued
  BY <1>16, <1>a, LoopAlone
     DEF Requeued, Agreement, LoopApart, LoopHolds, WorkerEnqueues, Busy
<1>17. CASE Bury
  <2>1. run.pc = "bury" /\ run'.pc = "forget" /\ run'.date = run.date /\ run'.task = run.task
    BY <1>0, <1>17 DEF Bury, RunState
  <2> QED
    BY <1>17, <2>1, LoopAlone
       DEF Bury, Agreement, LoopApart, LoopHolds, WorkerEnqueues, Busy
<1>18. ASSUME NEW out \in Outcome \ {"none"}, Finish(out) PROVE Agreement'
  <2>1. /\ run.pc = "exec" /\ run'.pc \in {"release", "forget", "bury"}
        /\ run'.date = run.date /\ run'.task = run.task /\ Worker \notin Busy
    BY <1>0, <1>18 DEF Finish, HandlerReturns, AfterExec, Outcome, RunState, Busy
  <2> QED
    BY <1>18, <2>1, LoopAlone
       DEF Finish, Agreement, LoopApart, LoopHolds, WorkerEnqueues, Busy
<1>19. CASE RateLimited
  BY <1>19, <1>a, LoopAlone
     DEF RateLimited, HandlerReturns, Agreement, LoopApart, LoopHolds, WorkerEnqueues, Busy
<1>20. ASSUME NEW t \in DirectTasks, ExecuteRPC(t) PROVE Agreement'
  BY <1>20, LoopAlone DEF ExecuteRPC, Agreement, LoopApart, LoopHolds, WorkerEnqueues, Busy
<1>21. ASSUME NEW lost \in SUBSET Stored, NEW uncounted \in SUBSET Stored, Restart(lost, uncounted)
       PROVE  Agreement'
  <2>1. keys' = Stored /\ run'.pc = "pick" /\ Busy' = {} /\ UNCHANGED <<pstore, issued>>
    BY <1>21, <1>a DEF Restart, Busy
  <2>2. lost = {}
    BY <1>0, <1>21 DEF Restart
  <2>3. \A d \in Stored : pMap'[d] = pstore[d].prio
    BY <1>21, <2>2 DEF Restart, Stored
  <2>4. CallsCarry' /\ LoopApart' /\ LoopHolds' /\ WorkerEnqueues' /\ StoreCarries'
    BY <2>1 DEF Agreement, CallsCarry, LoopApart, LoopHolds, WorkerEnqueues, StoreCarries, Stored
  <2>5. IndexStored'
    BY <2>1, <2>3 DEF IndexStored, Stored
  <2>6. EntersOnce'
    BY <2>1 DEF EntersOnce, Busy
  <2> QED
    BY <2>4, <2>5, <2>6 DEF Agreement
<1>22. CASE UNCHANGED vars
  BY <1>22, LoopAlone DEF vars, Agreement, LoopApart, LoopHolds, WorkerEnqueues, Busy
<1> QED
  BY <1>0, <1>1, <1>2, <1>3, <1>4, <1>5, <1>6, <1>7, <1>8, <1>9, <1>10, <1>11, <1>12, <1>13, <1>14,
     <1>15, <1>16, <1>17, <1>18, <1>19, <1>20, <1>21, <1>22, UndisturbedStep
     DEF EnqueueStep, LoopStep

----------------------------------------------------------------------------
(* The order of the loop.                                                    *)

(* The step of PicksMostUrgent.                                              *)
Urgent ==
  \A d \in keys : run.pc = "pick" /\ run'.pc = "read" =>
    LET chosen == Rank[pstore[run'.date].prio]
        other  == Rank[pstore[d].prio]
    IN  chosen < other \/ (chosen = other /\ run'.date <= d)

(* The loop moves from choosing to reading by Pick only.                     *)
LEMMA ReadsAfterPick ==
  ASSUME TypeOK, Undisturbed, Undisturbed', [Next]_vars, run.pc = "pick", run'.pc = "read"
  PROVE  \E d \in Dates : Pick(d)
<1> USE DEF memory, bounds
<1>0. run \in RunState /\ IdleRun.pc = "pick"
  BY DEF TypeOK, RunOK, IdleRun
<1>1. ASSUME NEW p \in Procs, EnqueueStep(p) PROVE run' = run
  BY <1>1 DEF EnqueueStep, Dedup, Throttle, NoteRefusal, Write, AddToIndex
<1>2. ASSUME NEW d \in Dates, Requeue(d) PROVE FALSE
  BY <1>2 DEF Requeue
<1>3. ~(ReadEntry \/ Drop \/ Release \/ Forget \/ Erase \/ RequeueRefused \/ Requeued \/ Bury)
  BY DEF ReadEntry, Drop, Release, Forget, Erase, RequeueRefused, Requeued, Bury
<1>4. ASSUME NEW out \in Outcome \ {"none"}, Finish(out) PROVE FALSE
  BY <1>4 DEF Finish, HandlerReturns
<1>5. ASSUME NEW t \in Task, NEW d \in Dates, HandlerEnqueue(t, d) PROVE FALSE
  BY <1>5 DEF HandlerEnqueue
<1>6. ASSUME NEW t \in Task, HandlerRefused(t) PROVE FALSE
  BY <1>6 DEF HandlerRefused
<1>7. ~RateLimited
  BY DEF RateLimited, HandlerReturns
<1>8. ASSUME NEW lost \in SUBSET Stored, NEW uncounted \in SUBSET Stored, Restart(lost, uncounted)
      PROVE  FALSE
  BY <1>0, <1>8 DEF Restart
<1>9. ASSUME NEW t \in DirectTasks, ExecuteRPC(t) PROVE FALSE
  BY <1>9 DEF ExecuteRPC
<1>10. ASSUME NEW c \in Callers, NEW t \in Task, NEW d \in Dates, ClientEnqueue(c, t, d) PROVE FALSE
  BY <1>10 DEF ClientEnqueue
<1>11. run' # run /\ ~(UNCHANGED vars)
  BY DEF vars
<1> QED
  BY <1>1, <1>2, <1>3, <1>4, <1>5, <1>6, <1>7, <1>8, <1>9, <1>10, <1>11, UndisturbedStep DEF LoopStep

(* Pick takes the oldest of the most urgent class, and the index agrees with *)
(* the store about the classes.                                              *)
LEMMA UrgentStep ==
  ASSUME TypeOK, Agreement, Undisturbed, Undisturbed', [Next]_vars
  PROVE  Urgent
<1> SUFFICES ASSUME NEW d \in keys, run.pc = "pick", run'.pc = "read"
             PROVE  LET chosen == Rank[pstore[run'.date].prio]
                        other  == Rank[pstore[d].prio]
                    IN  chosen < other \/ (chosen = other /\ run'.date <= d)
  BY DEF Urgent
<1>1. PICK e \in Dates : Pick(e)
  BY ReadsAfterPick
<1>2. run'.date = e /\ e \in Candidates /\ \A c \in Candidates : e <= c
  BY <1>1 DEF Pick, IdleRun
<1>3. keys \subseteq Dates /\ Candidates \subseteq keys
  BY DEF TypeOK, IndexOK, Candidates, Class
<1>4. \A c \in keys : pMap[c] = pstore[c].prio /\ pMap[c] \in Priority
  BY <1>3, TaskAssumption DEF Agreement, IndexStored, Stored, TypeOK, StoreOK, Entry
<1>5. /\ pMap[e] = "HIGH" \/ Class("HIGH") = {}
      /\ pMap[e] \in {"HIGH", "NORMAL"} \/ (Class("HIGH") = {} /\ Class("NORMAL") = {})
  BY <1>2 DEF Candidates, Class
<1>6. Rank["HIGH"] = 1 /\ Rank["NORMAL"] = 2 /\ Rank["LOW"] = 3
  BY DEF Rank
<1>7. /\ pMap[d] = "HIGH" => d \in Class("HIGH")
      /\ pMap[d] = "NORMAL" => d \in Class("NORMAL")
  BY DEF Class
<1>8. pMap[e] = pMap[d] => d \in Candidates
  BY <1>2, <1>4, <1>5, <1>7, <1>3 DEF Candidates, Class, Priority
<1>9. Rank[pMap[e]] < Rank[pMap[d]] \/ pMap[e] = pMap[d]
  BY <1>2, <1>3, <1>4, <1>5, <1>6, <1>7 DEF Priority
<1> QED
  BY <1>2, <1>3, <1>4, <1>6, <1>8, <1>9 DEF Priority

----------------------------------------------------------------------------
(* The deduplication keys.                                                   *)

(* The marked keys stay covered when none is added and no entry and no call  *)
(* that covers one goes away.                                                *)
LEMMA KeysStay ==
  ASSUME KeyHasOther, hMap' \subseteq hMap, pstore' = pstore, Erasing' \subseteq Erasing,
         \A p \in Procs : call[p].pc \in {"throttle", "write"} => call'[p] = call[p]
  PROVE  KeyHasOther'
BY DEF KeyHasOther, Stored

(* No key stays marked for an entry that is gone, unless a throttled handler *)
(* has it.                                                                   *)
LEMMA KeyStep ==
  ASSUME QueueInv, Agreement, KeyHasOther, Undisturbed, Undisturbed', [Next]_vars
  PROVE  KeyHasOther'
<1> USE DEF memory, bounds
<1>0. TypeOK /\ Identity /\ ~Fault /\ run \in RunState
  BY NoFault DEF QueueInv, TypeOK, RunOK
<1>a. IdleRun.pc = "pick" /\ IdleCall.pc = "idle"
  BY DEF IdleRun, IdleCall
<1>b. ASSUME NEW p \in Procs, NEW t \in Task, NEW d \in Dates, Begin(p, t, d)
      PROVE  /\ hMap' = hMap /\ pstore' = pstore
             /\ \A q \in Procs : call[q].pc \in {"throttle", "write"} => call'[q] = call[q]
  BY <1>0, <1>b DEF Begin, TypeOK, CallOK
<1>1. ASSUME NEW c \in Callers, NEW t \in Task, NEW d \in Dates, ClientEnqueue(c, t, d)
      PROVE  KeyHasOther'
  <2>1. c \in Procs /\ run' = run
    BY <1>1 DEF ClientEnqueue, Procs
  <2> QED
    BY <1>1, <1>b, <2>1, KeysStay DEF ClientEnqueue, Erasing
<1>2. ASSUME NEW t \in Task, NEW d \in Dates, HandlerEnqueue(t, d) PROVE KeyHasOther'
  <2>1. Worker \in Procs /\ run' = run
    BY <1>2 DEF HandlerEnqueue, Procs
  <2> QED
    BY <1>2, <1>b, <2>1, KeysStay DEF HandlerEnqueue, Erasing
<1>3. ASSUME NEW t \in Task, HandlerRefused(t) PROVE KeyHasOther'
  <2>1. run'.pc = run.pc
    BY <1>0, <1>3 DEF HandlerRefused, RunState
  <2>2. Erasing' \subseteq Erasing
    BY <1>3, <2>1 DEF HandlerRefused, Erasing
  <2> QED
    BY <1>3, <2>2, KeysStay DEF HandlerRefused
<1>4. ASSUME NEW p \in Procs, Dedup(p) PROVE KeyHasOther'
  <2>1. /\ UNCHANGED <<pstore, run>> /\ Stored' = Stored /\ Erasing' = Erasing
        /\ call[p].pc = "dedup" /\ \A q \in Procs : q # p => call'[q] = call[q]
    BY <1>0, <1>4 DEF Dedup, Return, Advance, Stored, Erasing, TypeOK, CallOK
  <2>2. \/ hMap' = hMap
        \/ /\ hMap' \subseteq hMap \cup {call[p].task.key}
           /\ call'[p].pc = "throttle" /\ call'[p].task = call[p].task
    BY <1>0, <1>4 DEF Dedup, Advance, TypeOK, CallOK, CallState
  <2> QED
    BY <2>1, <2>2 DEF KeyHasOther
<1>5. ASSUME NEW p \in Procs, Throttle(p) PROVE KeyHasOther'
  <2>1. /\ UNCHANGED <<pstore, hMap>> /\ Stored' = Stored
        /\ call[p].pc = "throttle" /\ \A q \in Procs : q # p => call'[q] = call[q]
    BY <1>0, <1>5 DEF Throttle, Return, Advance, Stored, TypeOK, CallOK
  <2>2. \/ call[p].task.throttled /\ call[p].task \in Task
        \/ call'[p].pc = "write" /\ call'[p].task = call[p].task
    BY <1>0, <1>5 DEF Throttle, OverLimit, Advance, TypeOK, CallOK, CallState
  <2>3. run'.pc = run.pc /\ run'.date = run.date
    BY <1>0, <1>5 DEF Throttle, NoteRefusal, RunState
  <2>4. Erasing' = Erasing
    BY <2>3 DEF Erasing
  <2> QED
    BY <2>1, <2>2, <2>4 DEF KeyHasOther
<1>6. ASSUME NEW p \in Procs, Write(p) PROVE KeyHasOther'
  <2> DEFINE d == call[p].date
  <2>1. /\ call[p].pc = "write" /\ d \in Dates /\ p \in Busy /\ call[p].task \in Task
        /\ \A q \in Procs : q # p => call'[q] = call[q]
    BY <1>0, <1>6 DEF Write, Advance, TypeOK, CallOK, Busy
  <2>2. pstore'[d] = call[p].task /\ \A e \in Dates : e # d => pstore'[e] = pstore[e]
    BY <1>0, <1>6, <2>1 DEF Write, TypeOK, StoreOK
  <2>3. UNCHANGED <<hMap, run>> /\ Erasing' = Erasing
    BY <1>6 DEF Write, Erasing
  <2>4. d \notin Stored /\ d \notin Erasing
    BY <1>0, <2>1 DEF Identity, Fresh, Known, Entering, Erasing
  <2>5. d \in Stored' /\ Stored \subseteq Stored'
    BY <2>1, <2>2, <2>4, TaskAssumption DEF Stored
  <2>6. ASSUME NEW k \in hMap, NEW e \in Stored \ Erasing, pstore[e].key = k
        PROVE  e \in Stored' \ Erasing' /\ pstore'[e].key = k
    BY <2>2, <2>3, <2>4, <2>5, <2>6 DEF Stored
  <2>7. ASSUME NEW k \in hMap, call[p].task.key = k
        PROVE  d \in Stored' \ Erasing' /\ pstore'[d].key = k
    BY <2>2, <2>3, <2>4, <2>5, <2>7
  <2> QED
    BY <2>1, <2>3, <2>6, <2>7 DEF KeyHasOther
<1>7. ASSUME NEW p \in Procs, AddToIndex(p) PROVE KeyHasOther'
  <2>1. \A q \in Procs : call[q].pc \in {"throttle", "write"} => call'[q] = call[q]
    BY <1>0, <1>7 DEF AddToIndex, Return, TypeOK, CallOK
  <2> QED
    BY <1>7, <2>1, KeysStay DEF AddToIndex, Erasing
<1>8. ASSUME NEW d \in Dates, Pick(d) PROVE KeyHasOther'
  <2>1. Erasing' = {}
    BY <1>8 DEF Pick, IdleRun, Erasing
  <2> QED
    BY <1>8, <2>1, KeysStay DEF Pick
<1>9. CASE ReadEntry
  <2>1. run'.pc # "erase"
    BY <1>0, <1>9, <1>a DEF ReadEntry, RunState
  <2> QED
    BY <1>9, <2>1, KeysStay DEF ReadEntry, Erasing
<1>10. ~Drop
  BY DEF Drop, Agreement, LoopHolds
<1>11. CASE Release
  <2>1. run'.pc # "erase"
    BY <1>0, <1>11 DEF Release, RunState
  <2> QED
    BY <1>11, <2>1, KeysStay DEF Release, Erasing
<1>12. CASE Forget
  <2> DEFINE d == run.date
  <2>1. run.pc = "forget" /\ run'.pc = "erase" /\ run'.date = d /\ d \in Dates
    BY <1>0, <1>12 DEF Forget, TypeOK, RunOK, RunState
  <2>2. UNCHANGED <<pstore, call>> /\ hMap' = hMap \ {run.task.key}
    BY <1>12 DEF Forget
  <2>3. pstore[d] = run.task
    BY <2>1 DEF Agreement, LoopHolds, IndexStored, StoreCarries
  <2>4. Erasing' = {d} /\ Stored' = Stored
    BY <2>1, <2>2 DEF Erasing, Stored
  <2>5. ASSUME NEW k \in hMap', NEW e \in Stored, pstore[e].key = k
        PROVE  e \in Stored' \ Erasing'
    BY <2>2, <2>3, <2>4, <2>5
  <2> QED
    BY <2>2, <2>5 DEF KeyHasOther
<1>13. CASE Erase
  <2> DEFINE d == run.date
  <2>1. run.pc = "erase" /\ d \in Dates /\ run'.pc # "erase"
    BY <1>0, <1>13, <1>a DEF Erase, TypeOK, RunOK, RunState
  <2>2. UNCHANGED <<hMap, call>> /\ \A e \in Dates : e # d => pstore'[e] = pstore[e]
    BY <1>0, <1>13, <2>1 DEF Erase, TypeOK, StoreOK
  <2>3. Erasing = {d} /\ Erasing' = {}
    BY <2>1 DEF Erasing
  <2>4. ASSUME NEW k \in hMap, NEW e \in Stored \ Erasing, pstore[e].key = k
        PROVE  e \in Stored' \ Erasing' /\ pstore'[e].key = k
    BY <2>2, <2>3, <2>4 DEF Stored
  <2> QED
    BY <2>2, <2>4 DEF KeyHasOther
<1>14. ASSUME NEW d \in Dates, Requeue(d) PROVE KeyHasOther'
  <2>1. run'.pc = "requeued" /\ run.task \in Task /\ Worker \in Procs
    BY <1>0, <1>14 DEF Requeue, RunState, TypeOK, RunOK, Procs
  <2>2. Begin(Worker, run.task, d)
    BY <1>14 DEF Requeue
  <2>3. Erasing' = {}
    BY <2>1 DEF Erasing
  <2> QED
    BY <1>b, <2>1, <2>2, <2>3, KeysStay
<1>15. CASE RequeueRefused
  <2>1. run'.pc # "erase"
    BY <1>0, <1>15 DEF RequeueRefused, RunState
  <2> QED
    BY <1>15, <2>1, KeysStay DEF RequeueRefused, Erasing
<1>16. CASE Requeued
  BY <1>16, <1>a, KeysStay DEF Requeued, Erasing
<1>17. CASE Bury
  <2>1. run'.pc # "erase"
    BY <1>0, <1>17, <1>a DEF Bury, RunState
  <2> QED
    BY <1>17, <2>1, KeysStay DEF Bury, Erasing
<1>18. ASSUME NEW out \in Outcome \ {"none"}, Finish(out) PROVE KeyHasOther'
  <2>1. run'.pc # "erase"
    BY <1>0, <1>18 DEF Finish, AfterExec, Outcome, RunState
  <2> QED
    BY <1>18, <2>1, KeysStay DEF Finish, Erasing
<1>19. CASE RateLimited
  BY <1>19, <1>a, KeysStay DEF RateLimited, Erasing
<1>20. ASSUME NEW t \in DirectTasks, ExecuteRPC(t) PROVE KeyHasOther'
  BY <1>20, KeysStay DEF ExecuteRPC, Erasing
<1>21. ASSUME NEW lost \in SUBSET Stored, NEW uncounted \in SUBSET Stored, Restart(lost, uncounted)
       PROVE  KeyHasOther'
  BY <1>21 DEF Restart, KeyHasOther
<1>22. CASE UNCHANGED vars
  BY <1>22, KeysStay DEF vars, Erasing
<1> QED
  BY <1>0, <1>1, <1>2, <1>3, <1>4, <1>5, <1>6, <1>7, <1>8, <1>9, <1>10, <1>11, <1>12, <1>13, <1>14,
     <1>15, <1>16, <1>17, <1>18, <1>19, <1>20, <1>21, <1>22, UndisturbedStep
     DEF EnqueueStep, LoopStep

----------------------------------------------------------------------------
(* The counts of the throttle.                                               *)

(* What a user owns in the index is finite.                                  *)
LEMMA OwnedFinite ==
  ASSUME TypeOK, NEW a
  PROVE  IsFiniteSet(Owned(a)) /\ Cardinality(Owned(a)) \in Nat /\ Owned(a) \subseteq Dates
BY FS_Subset, FS_CardinalityType, SizeAssumption DEF Owned, TypeOK, IndexOK

(* The counts stay right when the index stays as it is.                      *)
LEMMA CountsStay ==
  ASSUME CountsMatch, UNCHANGED <<keys, userCounts>>, \A d \in keys : issued'[d] = issued[d]
  PROVE  CountsMatch'
<1> SUFFICES ASSUME NEW a \in Auth PROVE userCounts'[a] = Cardinality(Owned(a)')
  BY DEF CountsMatch
<1>1. Owned(a)' = Owned(a)
  BY DEF Owned
<1> QED
  BY <1>1 DEF CountsMatch

(* An entry is counted for its user when it enters the index and uncounted   *)
(* when it leaves; a restart counts what is persisted.                       *)
LEMMA CountStep ==
  ASSUME QueueInv, Agreement, CountsMatch, Undisturbed, Undisturbed', [Next]_vars
  PROVE  CountsMatch'
<1> USE DEF memory, bounds
<1>0. TypeOK /\ Identity /\ ~Fault /\ run \in RunState /\ userCounts \in [Auth -> Int]
  BY NoFault DEF QueueInv, TypeOK, RunOK, IndexOK
<1>a. keys \subseteq Dates /\ keys \subseteq Known
  BY <1>0 DEF TypeOK, IndexOK, Known
<1>b. ASSUME NEW p \in Procs, NEW t \in Task, NEW d \in Dates, Begin(p, t, d)
      PROVE  CountsMatch'
  <2>1. d \notin keys
    BY <1>0, <1>a, <1>b DEF Begin, Identity, KnownIssued
  <2>2. UNCHANGED <<keys, userCounts>> /\ \A e \in keys : issued'[e] = issued[e]
    BY <1>0, <1>a, <1>b, <2>1 DEF Begin, TypeOK, StoreOK
  <2> QED
    BY <2>2, CountsStay
<1>1. ASSUME NEW c \in Callers, NEW t \in Task, NEW d \in Dates, ClientEnqueue(c, t, d)
      PROVE  CountsMatch'
  BY <1>1, <1>b DEF ClientEnqueue, Procs
<1>2. ASSUME NEW t \in Task, NEW d \in Dates, HandlerEnqueue(t, d) PROVE CountsMatch'
  BY <1>2, <1>b DEF HandlerEnqueue, Procs
<1>3. ASSUME NEW t \in Task, HandlerRefused(t) PROVE CountsMatch'
  BY <1>3, CountsStay DEF HandlerRefused
<1>4. ASSUME NEW p \in Procs, Dedup(p) \/ Throttle(p) \/ Write(p) PROVE CountsMatch'
  BY <1>4, CountsStay DEF Dedup, Throttle, Write
<1>5. ASSUME NEW p \in Procs, AddToIndex(p) PROVE CountsMatch'
  <2> DEFINE d == call[p].date
             u == call[p].task.auth
  <2>1. d \in Dates /\ d \notin keys /\ call[p].task \in Task /\ issued[d] = call[p].task
    BY <1>0, <1>5 DEF AddToIndex, TypeOK, CallOK, Agreement, EntersOnce, CallsCarry, Busy
  <2>2. u \in Auth /\ issued[d] # None
    BY <2>1, TaskAssumption
  <2>3. /\ keys' = keys \cup {d} /\ issued' = issued
        /\ userCounts' = [userCounts EXCEPT ![u] = @ + 1]
    BY <1>5 DEF AddToIndex
  <2> SUFFICES ASSUME NEW a \in Auth PROVE userCounts'[a] = Cardinality(Owned(a)')
    BY DEF CountsMatch
  <2>4. CASE a = u
    <3>1. Owned(a)' = Owned(a) \cup {d} /\ d \notin Owned(a)
      BY <2>1, <2>2, <2>3, <2>4 DEF Owned
    <3>2. Cardinality(Owned(a)') = Cardinality(Owned(a)) + 1
      BY <1>0, <3>1, OwnedFinite, FS_AddElement
    <3> QED
      BY <1>0, <2>2, <2>3, <2>4, <3>2 DEF CountsMatch
  <2>5. CASE a # u
    <3>1. Owned(a)' = Owned(a)
      BY <2>1, <2>3, <2>5 DEF Owned
    <3> QED
      BY <1>0, <2>2, <2>3, <2>5, <3>1 DEF CountsMatch
  <2> QED
    BY <2>4, <2>5
<1>6. CASE Forget
  <2> DEFINE d == run.date
             u == run.task.auth
  <2>1. /\ run.pc = "forget" /\ d \in keys /\ run.task \in Task
        /\ issued[d] = run.task
    BY <1>0, <1>6 DEF Forget, TypeOK, RunOK, Agreement, LoopHolds
  <2>2. u \in Auth /\ issued[d] # None
    BY <2>1, TaskAssumption
  <2>3. /\ keys' = keys \ {d} /\ issued' = issued
        /\ userCounts' = [userCounts EXCEPT ![u] = @ - 1]
    BY <1>6 DEF Forget
  <2> SUFFICES ASSUME NEW a \in Auth PROVE userCounts'[a] = Cardinality(Owned(a)')
    BY DEF CountsMatch
  <2>4. CASE a = u
    <3>1. Owned(a)' = Owned(a) \ {d} /\ d \in Owned(a)
      BY <2>1, <2>2, <2>3, <2>4 DEF Owned
    <3>2. Cardinality(Owned(a)') = Cardinality(Owned(a)) - 1
      BY <1>0, <3>1, OwnedFinite, FS_RemoveElement
    <3> QED
      BY <1>0, <2>2, <2>3, <2>4, <3>2 DEF CountsMatch
  <2>5. CASE a # u
    <3>1. Owned(a)' = Owned(a)
      BY <2>1, <2>3, <2>5 DEF Owned
    <3> QED
      BY <1>0, <2>2, <2>3, <2>5, <3>1 DEF CountsMatch
  <2> QED
    BY <2>4, <2>5
<1>7. CASE ReadEntry \/ Release \/ Erase \/ RequeueRefused \/ Requeued \/ Bury
  BY <1>7, CountsStay DEF ReadEntry, Release, Erase, RequeueRefused, Requeued, Bury
<1>8. ~Drop
  BY DEF Drop, Agreement, LoopHolds
<1>9. ASSUME NEW d \in Dates, Pick(d) PROVE CountsMatch'
  BY <1>9, CountsStay DEF Pick
<1>10. ASSUME NEW d \in Dates, Requeue(d) PROVE CountsMatch'
  <2>1. run.task \in Task /\ Worker \in Procs
    BY <1>0, <1>10 DEF Requeue, TypeOK, RunOK, Procs
  <2> QED
    BY <1>10, <1>b, <2>1 DEF Requeue
<1>11. ASSUME NEW out \in Outcome \ {"none"}, Finish(out) PROVE CountsMatch'
  BY <1>11, CountsStay DEF Finish
<1>12. CASE RateLimited
  BY <1>12, CountsStay DEF RateLimited
<1>13. ASSUME NEW t \in DirectTasks, ExecuteRPC(t) PROVE CountsMatch'
  BY <1>13, CountsStay DEF ExecuteRPC
<1>14. ASSUME NEW lost \in SUBSET Stored, NEW uncounted \in SUBSET Stored, Restart(lost, uncounted)
       PROVE  CountsMatch'
  <2>1. uncounted = {} /\ keys' = Stored /\ issued' = issued
    BY <1>0, <1>14 DEF Restart
  <2> SUFFICES ASSUME NEW a \in Auth PROVE userCounts'[a] = Cardinality(Owned(a)')
    BY DEF CountsMatch
  <2>2. userCounts'[a] = Cardinality({d \in Stored : pstore[d].auth = a})
    BY <1>14, <2>1 DEF Restart
  <2>3. Owned(a)' = {d \in Stored : pstore[d].auth = a}
    BY <2>1 DEF Owned, Agreement, StoreCarries, Stored
  <2> QED
    BY <2>2, <2>3
<1>15. CASE UNCHANGED vars
  BY <1>15, CountsStay DEF vars
<1> QED
  BY <1>0, <1>1, <1>2, <1>3, <1>4, <1>5, <1>6, <1>7, <1>8, <1>9, <1>10, <1>11, <1>12, <1>13, <1>14,
     <1>15, UndisturbedStep DEF EnqueueStep, LoopStep

----------------------------------------------------------------------------
(* What the throttle lets in.                                                *)

(* Entries and calls are finitely many.                                      *)
LEMMA ThrottledFinite ==
  ASSUME TypeOK, NEW a
  PROVE  /\ IsFiniteSet(Throttled(a)) /\ Cardinality(Throttled(a)) \in Nat
         /\ IsFiniteSet(Admitted(a)) /\ Cardinality(Admitted(a)) \in Nat
         /\ IsFiniteSet(Procs) /\ Cardinality(Procs) = Cardinality(Callers) + 1
         /\ Cardinality(Callers) \in Nat
<1>1. IsFiniteSet(Procs) /\ Cardinality(Procs) = Cardinality(Callers) + 1 /\ Cardinality(Callers) \in Nat
  BY FS_AddElement, FS_CardinalityType, ProcAssumption DEF Procs
<1>2. Throttled(a) \subseteq Dates /\ Admitted(a) \subseteq Procs
  BY DEF Throttled, Stored, Admitted
<1> QED
  BY <1>1, <1>2, FS_Subset, FS_CardinalityType, SizeAssumption

(* The bound stays when nothing is written or admitted.                      *)
LEMMA BoundStays ==
  ASSUME TypeOK, TypeOK', ThrottleBound,
         \A a \in Auth : Throttled(a)' \subseteq Throttled(a) /\ Admitted(a)' \subseteq Admitted(a)
  PROVE  ThrottleBound'
<1> SUFFICES ASSUME NEW a \in Auth
             PROVE  Cardinality(Throttled(a)') + Cardinality(Admitted(a)')
                      <= MaxUserQueueSize + Cardinality(Callers)
  BY DEF ThrottleBound
<1>1. /\ Cardinality(Throttled(a)') <= Cardinality(Throttled(a))
      /\ Cardinality(Admitted(a)') <= Cardinality(Admitted(a))
  BY ThrottledFinite, FS_Subset
<1>2. /\ Cardinality(Throttled(a)') \in Nat /\ Cardinality(Admitted(a)') \in Nat
  <2>1. Throttled(a)' \subseteq Throttled(a) /\ Admitted(a)' \subseteq Admitted(a)
    OBVIOUS
  <2> QED
    BY <2>1, ThrottledFinite, FS_Subset, FS_CardinalityType
<1> QED
  BY <1>1, <1>2, ThrottledFinite, SizeAssumption DEF ThrottleBound

(* An entry outside the index belongs to a call that is adding it or to the  *)
(* loop that is erasing it, and the worker does not do both: together with   *)
(* the calls the throttle has let in there is at most one for each process.  *)
LEMMA OutsideIndex ==
  ASSUME QueueInv, Agreement, Undisturbed, NEW a, NEW p \in Procs, call[p].pc = "throttle"
  PROVE  Cardinality(Throttled(a) \ keys) + Cardinality(Admitted(a) \cup {p})
           <= Cardinality(Callers) + 1
<1> DEFINE R == Throttled(a) \ keys
           A == Admitted(a) \cup {p}
           Adding(e, q) == call[q].pc = "append" /\ call[q].date = e
           g == [e \in R |-> IF run.pc = "erase" /\ run.date = e THEN Worker
                            ELSE CHOOSE q \in Procs : Adding(e, q)]
<1>0. TypeOK
  BY DEF QueueInv
<1>1. A \subseteq Procs /\ IsFiniteSet(A) /\ IsFiniteSet(Procs \ A)
  BY <1>0, ThrottledFinite, FS_Subset DEF Admitted
<1>2. ASSUME NEW e \in R, ~(run.pc = "erase" /\ run.date = e)
      PROVE  g[e] \in Procs /\ Adding(e, g[e])
  <2>1. \E q \in Procs : Adding(e, q)
    BY <1>2 DEF QueueInv, StoredIsQueued, Undisturbed, Throttled
  <2> QED
    BY <1>2, <2>1
<1>3. ASSUME NEW e \in R, run.pc = "erase", run.date = e
      PROVE  g[e] = Worker /\ Worker \in Procs /\ call[Worker].pc = "idle"
  BY <1>3 DEF Agreement, WorkerEnqueues, Busy, Procs
<1>4. ASSUME NEW e \in R PROVE g[e] \in Procs \ A
  BY <1>2, <1>3 DEF Admitted
<1>5. ASSUME NEW e \in R, NEW f \in R, g[e] = g[f] PROVE e = f
  BY <1>2, <1>3, <1>5
<1>6. g \in Injection(R, Procs \ A)
  <2>1. g \in [R -> Procs \ A]
    BY <1>4
  <2> HIDE DEF g
  <2> QED
    BY <1>5, <2>1 DEF Injection, IsInjective
<1>7. Cardinality(R) <= Cardinality(Procs \ A)
  BY <1>1, <1>6, FS_Injection
<1>8. Cardinality(Procs \ A) = Cardinality(Procs) - Cardinality(A)
  <2>1. Procs \cap A = A /\ IsFiniteSet(Procs)
    BY <1>0, <1>1, ThrottledFinite
  <2> HIDE DEF A
  <2> QED
    BY <2>1, FS_Difference
<1>9. Cardinality(R) \in Nat /\ Cardinality(A) \in Nat
  BY <1>0, <1>1, ThrottledFinite, FS_Subset, FS_CardinalityType
<1> QED
  BY <1>0, <1>7, <1>8, <1>9, ThrottledFinite

(* The throttle lets a call in while its user's count is below the limit.    *)
LEMMA BoundStep ==
  ASSUME QueueInv, Agreement, CountsMatch, ThrottleBound, Undisturbed, Undisturbed', [Next]_vars
  PROVE  ThrottleBound'
<1> USE DEF memory, bounds
<1>0. TypeOK /\ TypeOK' /\ ~Fault /\ Identity
  BY TypeStep, NoFault DEF QueueInv
<1>a. ASSUME pstore' = pstore,
             \A p \in Procs : call'[p].pc = "write" => call'[p] = call[p]
      PROVE  ThrottleBound'
  <2>1. \A a \in Auth : Throttled(a)' \subseteq Throttled(a) /\ Admitted(a)' \subseteq Admitted(a)
    BY <1>a DEF Throttled, Stored, Admitted
  <2> QED
    BY <1>0, <2>1, BoundStays
<1>b. ASSUME NEW p \in Procs, NEW t \in Task, NEW d \in Dates, Begin(p, t, d)
      PROVE  ThrottleBound'
  <2>1. \A q \in Procs : call'[q].pc = "write" => call'[q] = call[q]
    BY <1>0, <1>b DEF Begin, TypeOK, CallOK
  <2> QED
    BY <1>a, <1>b, <2>1 DEF Begin
<1>1. ASSUME NEW c \in Callers, NEW t \in Task, NEW d \in Dates, ClientEnqueue(c, t, d)
      PROVE  ThrottleBound'
  BY <1>1, <1>b DEF ClientEnqueue, Procs
<1>2. ASSUME NEW t \in Task, NEW d \in Dates, HandlerEnqueue(t, d) PROVE ThrottleBound'
  BY <1>2, <1>b DEF HandlerEnqueue, Procs
<1>3. ASSUME NEW t \in Task, HandlerRefused(t) PROVE ThrottleBound'
  BY <1>3, <1>a DEF HandlerRefused
<1>4. ASSUME NEW p \in Procs, Dedup(p) PROVE ThrottleBound'
  <2>1. \A q \in Procs : call'[q].pc = "write" => call'[q] = call[q]
    BY <1>0, <1>4 DEF Dedup, Return, Advance, IdleCall, TypeOK, CallOK, CallState
  <2> QED
    BY <1>4, <1>a, <2>1 DEF Dedup
<1>5. ASSUME NEW p \in Procs, Throttle(p) PROVE ThrottleBound'
  <2>1. CASE Return(p)
    <3>1. \A q \in Procs : call'[q].pc = "write" => call'[q] = call[q]
      BY <1>0, <2>1 DEF Return, IdleCall, TypeOK, CallOK
    <3> QED
      BY <1>5, <1>a, <3>1 DEF Throttle
  <2>2. CASE ~OverLimit(call[p].task) /\ Advance(p, "write")
    <3> SUFFICES ASSUME NEW a \in Auth
                 PROVE  Cardinality(Throttled(a)') + Cardinality(Admitted(a)')
                          <= MaxUserQueueSize + Cardinality(Callers)
      BY DEF ThrottleBound
    <3>1. /\ call[p].pc = "throttle" /\ call[p].task \in Task
          /\ call'[p].pc = "write" /\ call'[p].task = call[p].task
          /\ \A q \in Procs : q # p => call'[q] = call[q]
      BY <1>0, <1>5, <2>2 DEF Throttle, Advance, TypeOK, CallOK, CallState
    <3>2. Throttled(a)' = Throttled(a)
      BY <1>5 DEF Throttle, Throttled, Stored
    <3>3. CASE ~(call[p].task.throttled /\ call[p].task.auth = a)
      <4>1. Admitted(a)' = Admitted(a)
        BY <3>1, <3>3 DEF Admitted
      <4> QED
        BY <3>2, <4>1 DEF ThrottleBound
    <3>4. CASE call[p].task.throttled /\ call[p].task.auth = a
      <4>1. Admitted(a)' = Admitted(a) \cup {p}
        BY <3>1, <3>4 DEF Admitted
      <4>2. Cardinality(Owned(a)) < MaxUserQueueSize
        BY <1>0, <2>2, <3>4, OwnedFinite, SizeAssumption DEF OverLimit, CountsMatch
      <4>3. Throttled(a) \cap keys \subseteq Owned(a)
        BY DEF Throttled, Owned, Agreement, StoreCarries, Stored
      <4>4. /\ Cardinality(Throttled(a) \cap keys) <= Cardinality(Owned(a))
            /\ Cardinality(Throttled(a) \cap keys) \in Nat
        BY <1>0, <4>3, OwnedFinite, FS_Subset, FS_CardinalityType
      <4>5. /\ Cardinality(Throttled(a) \ keys)
                  = Cardinality(Throttled(a)) - Cardinality(Throttled(a) \cap keys)
            /\ Cardinality(Throttled(a)) \in Nat
        BY <1>0, ThrottledFinite, FS_Difference
      <4>6. Cardinality(Throttled(a) \ keys) + Cardinality(Admitted(a)')
              <= Cardinality(Callers) + 1
        BY <3>1, <4>1, OutsideIndex
      <4>7. Cardinality(Admitted(a)') \in Nat
        <5>1. IsFiniteSet(Admitted(a) \cup {p})
          BY <1>0, ThrottledFinite, FS_AddElement
        <5> QED
          BY <4>1, <5>1, FS_CardinalityType
      <4> QED
        BY <1>0, <3>2, <4>2, <4>4, <4>5, <4>6, <4>7, ThrottledFinite, OwnedFinite, SizeAssumption
    <3> QED
      BY <3>3, <3>4
  <2> QED
    BY <1>5, <2>1, <2>2 DEF Throttle
<1>6. ASSUME NEW p \in Procs, Write(p) PROVE ThrottleBound'
  <2> DEFINE d == call[p].date
             t == call[p].task
  <2> SUFFICES ASSUME NEW a \in Auth
               PROVE  Cardinality(Throttled(a)') + Cardinality(Admitted(a)')
                        <= MaxUserQueueSize + Cardinality(Callers)
    BY DEF ThrottleBound
  <2>1. /\ call[p].pc = "write" /\ d \in Dates /\ t \in Task /\ p \in Entering
        /\ call'[p].pc = "append"
        /\ \A q \in Procs : q # p => call'[q] = call[q]
    BY <1>0, <1>6 DEF Write, Advance, TypeOK, CallOK, CallState, Entering
  <2>2. pstore'[d] = t /\ \A e \in Dates : e # d => pstore'[e] = pstore[e]
    BY <1>0, <1>6, <2>1 DEF Write, TypeOK, StoreOK
  <2>3. pstore[d] = None
    BY <1>0, <2>1 DEF Identity, Fresh, Known, Stored
  <2>4. CASE ~(t.throttled /\ t.auth = a)
    <3>1. Throttled(a)' = Throttled(a) /\ Admitted(a)' = Admitted(a)
      BY <2>1, <2>2, <2>3, <2>4 DEF Throttled, Stored, Admitted
    <3> QED
      BY <3>1 DEF ThrottleBound
  <2>5. CASE t.throttled /\ t.auth = a
    <3>1. /\ Throttled(a)' = Throttled(a) \cup {d} /\ d \notin Throttled(a)
          /\ Admitted(a)' = Admitted(a) \ {p} /\ p \in Admitted(a)
      BY <2>1, <2>2, <2>3, <2>5, TaskAssumption DEF Throttled, Stored, Admitted
    <3>2. IsFiniteSet(Throttled(a)) /\ IsFiniteSet(Admitted(a))
      BY <1>0, ThrottledFinite
    <3>3. Cardinality(Throttled(a)') = Cardinality(Throttled(a)) + 1
      BY <3>1, <3>2, FS_AddElement
    <3>4. Cardinality(Admitted(a)') = Cardinality(Admitted(a)) - 1
      BY <3>1, <3>2, FS_RemoveElement
    <3> QED
      BY <1>0, <3>3, <3>4, ThrottledFinite, SizeAssumption DEF ThrottleBound
  <2> QED
    BY <2>4, <2>5
<1>7. ASSUME NEW p \in Procs, AddToIndex(p) PROVE ThrottleBound'
  <2>1. \A q \in Procs : call'[q].pc = "write" => call'[q] = call[q]
    BY <1>0, <1>7 DEF AddToIndex, Return, IdleCall, TypeOK, CallOK
  <2> QED
    BY <1>7, <1>a, <2>1 DEF AddToIndex
<1>8. CASE ReadEntry \/ Drop \/ Release \/ Forget \/ RequeueRefused \/ Requeued \/ Bury
  BY <1>8, <1>a DEF ReadEntry, Drop, Release, Forget, RequeueRefused, Requeued, Bury
<1>9. CASE Erase
  <2>1. call' = call /\ \A e \in Dates : pstore'[e] # None => pstore'[e] = pstore[e]
    BY <1>0, <1>9 DEF Erase, TypeOK, StoreOK
  <2>2. \A a \in Auth : Throttled(a)' \subseteq Throttled(a) /\ Admitted(a)' \subseteq Admitted(a)
    BY <2>1 DEF Throttled, Stored, Admitted
  <2> QED
    BY <1>0, <2>2, BoundStays
<1>10. ASSUME NEW d \in Dates, Pick(d) PROVE ThrottleBound'
  BY <1>10, <1>a DEF Pick
<1>11. ASSUME NEW d \in Dates, Requeue(d) PROVE ThrottleBound'
  <2>1. run.task \in Task /\ Worker \in Procs
    BY <1>0, <1>11 DEF Requeue, TypeOK, RunOK, Procs
  <2> QED
    BY <1>11, <1>b, <2>1 DEF Requeue
<1>12. ASSUME NEW out \in Outcome \ {"none"}, Finish(out) PROVE ThrottleBound'
  BY <1>12, <1>a DEF Finish
<1>13. CASE RateLimited
  BY <1>13, <1>a DEF RateLimited
<1>14. ASSUME NEW t \in DirectTasks, ExecuteRPC(t) PROVE ThrottleBound'
  BY <1>14, <1>a DEF ExecuteRPC
<1>15. ASSUME NEW lost \in SUBSET Stored, NEW uncounted \in SUBSET Stored, Restart(lost, uncounted)
       PROVE  ThrottleBound'
  BY <1>15, <1>a DEF Restart, IdleCall
<1>16. CASE UNCHANGED vars
  BY <1>16, <1>a DEF vars
<1> QED
  BY <1>0, <1>1, <1>2, <1>3, <1>4, <1>5, <1>6, <1>7, <1>8, <1>9, <1>10, <1>11, <1>12, <1>13, <1>14,
     <1>15, <1>16, UndisturbedStep DEF EnqueueStep, LoopStep

----------------------------------------------------------------------------
(* The results.                                                              *)

(* At first nothing is queued, counted or marked.                            *)
LEMMA IndexInit == Init => IndexInv
<1> SUFFICES ASSUME Init PROVE IndexInv
  OBVIOUS
<1>1. Stored = {} /\ Busy = {} /\ run.pc = "pick" /\ keys = {} /\ hMap = {}
  BY DEF Init, Stored, Busy, IdleCall, IdleRun
<1>2. \A a : Throttled(a) = {} /\ Admitted(a) = {} /\ Owned(a) = {}
  BY <1>1 DEF Init, Throttled, Admitted, Owned, IdleCall
<1>3. Cardinality({}) = 0 /\ Cardinality(Callers) \in Nat
  BY FS_EmptySet, FS_CardinalityType, ProcAssumption
<1>4. CountsMatch
  BY <1>2, <1>3 DEF Init, CountsMatch
<1>5. ThrottleBound
  BY <1>2, <1>3, SizeAssumption DEF ThrottleBound
<1> QED
  BY <1>1, <1>4, <1>5
     DEF IndexInv, CallsCarry, StoreCarries, IndexStored, EntersOnce, LoopApart, LoopHolds,
         WorkerEnqueues, KeyHasOther, Busy

(* Until pstore fails or a Drain begins, the index keeps to its invariant.   *)
THEOREM IndexInvariant == Spec /\ []Undisturbed => []IndexInv
<1>1. IndexInv <=> Agreement /\ KeyHasOther /\ CountsMatch /\ ThrottleBound
  BY DEF IndexInv, Agreement
<1>2. QueueInv /\ IndexInv /\ Undisturbed /\ Undisturbed' /\ [Next]_vars => IndexInv'
  BY <1>1, AgreementStep, KeyStep, CountStep, BoundStep DEF IndexInv, Agreement
<1> QED
  BY IndexInit, <1>2, QueueInvariant, PTL DEF Spec

(* As long as pstore answers and nobody drains, userCounts is the number of  *)
(* entries the index holds for each user, and a user exceeds the limit by no *)
(* more entries than there are clients: for every limit, any number of       *)
(* clients and users, and across restarts.                                   *)
THEOREM ThrottleCounts == Spec /\ []Undisturbed => []ThrottleOK
<1>1. IndexInv => ThrottleOK
  BY DEF IndexInv, ThrottleOK
<1> QED
  BY <1>1, IndexInvariant, PTL

(* Under the same conditions a deduplication key of a handler that is never  *)
(* throttled stays marked only while an entry with it is queued, being       *)
(* executed or on its way in, whatever elements the Execute RPC is sent.     *)
THEOREM KeysAreGivenBack == Spec /\ []Undisturbed => []KeyHasTaskUnlessThrottled
<1>1. IndexInv => KeyHasTaskUnlessThrottled
  BY DEF IndexInv, KeyHasOther, KeyHasTaskUnlessThrottled, HasTask
<1> QED
  BY <1>1, IndexInvariant, PTL

(* Under the same conditions the loop takes the oldest entry of the most     *)
(* urgent class among those indexed, after restarts too.                     *)
THEOREM MostUrgentFirst == Spec /\ []Undisturbed => PicksMostUrgent
<1>1. QueueInv /\ IndexInv /\ Undisturbed /\ Undisturbed' /\ [Next]_vars => [Urgent]_vars
  BY UrgentStep DEF QueueInv, IndexInv, Agreement
<1>2. [Urgent]_vars <=> [\A d \in keys : run.pc = "pick" /\ run'.pc = "read" =>
       LET chosen == Rank[pstore[run'.date].prio]
           other  == Rank[pstore[d].prio]
       IN  chosen < other \/ (chosen = other /\ run'.date <= d)]_vars
  BY DEF Urgent
<1> QED
  BY <1>1, <1>2, QueueInvariant, IndexInvariant, PTL DEF Spec, PicksMostUrgent
=============================================================================
