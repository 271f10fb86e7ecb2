------------------------ MODULE TaskQueueRefinement ------------------------
(* TaskQueue implements DurableQueue. *)
EXTENDS TaskQueue

Held == run.pc \in {"exec", "release", "forget", "erase", "bury"}

phaseBar ==
  CASE run.pc = "exec" -> "running"
    [] run.pc = "bury" -> "failed"
    [] run.pc \in {"release", "forget", "erase"} ->
         IF run.out = "other" THEN "buried" ELSE "done"
    [] OTHER -> "idle"

Promise ==
  INSTANCE DurableQueue WITH
    pending <- pstore,
    dead    <- dlq,
    job     <- IF Held THEN <<run.date, run.task>> ELSE None,
    phase   <- phaseBar

(* An accepted entry is kept until its handler has run to an end or a Drain  *)
(* takes it, and a failed one is set aside before it is deleted, whatever    *)
(* pstore call fails and whenever the process stops.                         *)
Durable == Promise!Spec
============================================================================
