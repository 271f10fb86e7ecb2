---------------------------- MODULE DurableQueue ----------------------------
(***************************************************************************)
(* What the task queue promises whoever enqueues: an accepted element stays *)
(* pending until its handler has run to an end or it is cancelled, one      *)
(* handler runs at a time, and an element whose handler failed is set aside *)
(* before it stops being pending.  A stop of the process forgets the        *)
(* running job and nothing else.                                            *)
(***************************************************************************)
CONSTANTS Task, Dates, None

VARIABLES
  pending,   \* accepted elements, by RunDate
  dead,      \* elements set aside
  job,       \* the element the worker holds, a <<RunDate, element>> pair, or None
  phase      \* how far the worker is with it

vars == <<pending, dead, job, phase>>

Phases == {"idle", "running", "done", "failed", "buried"}

Init ==
  /\ pending = [d \in Dates |-> None]
  /\ dead = [d \in Dates |-> None]
  /\ job = None
  /\ phase = "idle"

Accept(d, t) ==
  /\ pending[d] = None /\ dead[d] = None
  /\ pending' = [pending EXCEPT ![d] = t]
  /\ UNCHANGED <<dead, job, phase>>

Start(d) ==
  /\ phase = "idle" /\ pending[d] # None
  /\ job' = <<d, pending[d]>> /\ phase' = "running"
  /\ UNCHANGED <<pending, dead>>

End == phase = "running" /\ phase' \in {"done", "failed"} /\ UNCHANGED <<pending, dead, job>>

SetAside == dead' = [dead EXCEPT ![job[1]] = job[2]]

Bury == phase = "failed" /\ SetAside /\ phase' = "buried" /\ UNCHANGED <<pending, job>>

(* The worker lets go of the job, which stays pending or is gone. *)
Put ==
  /\ phase # "idle"
  /\ UNCHANGED dead \/ (phase = "failed" /\ SetAside)
  /\ job' = None /\ phase' = "idle"
  /\ UNCHANGED pending

Remove ==
  /\ phase \in {"done", "buried"}
  /\ pending' = [pending EXCEPT ![job[1]] = None]
  /\ job' = None /\ phase' = "idle"
  /\ UNCHANGED dead

Cancel(d) == pending' = [pending EXCEPT ![d] = None] /\ UNCHANGED <<dead, job, phase>>

Next ==
  \/ \E d \in Dates, t \in Task : Accept(d, t)
  \/ \E d \in Dates : Start(d) \/ Cancel(d)
  \/ End \/ Bury \/ Put \/ Remove

Spec == Init /\ [][Next]_vars
============================================================================
