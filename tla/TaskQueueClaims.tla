-------------------------- MODULE TaskQueueClaims --------------------------
(* What the README and docs/syncing.md say of the queue and the code does not *)
(* keep.                                                                      *)
EXTENDS TaskQueue

(* "Gramophile will wait 5 minutes and automatically try again": when the     *)
(* worker moves on after an internal error, the work is back in the queue or  *)
(* another call is about to put it there.                                     *)
RetryKept ==
  [][run.pc = "requeued" /\ run'.pc = "pick" =>
       \/ \E d \in keys : pstore[d] = run.task
       \/ \E p \in Procs : call[p].task = run.task]_vars
============================================================================
