---------------------------- MODULE MCTaskQueue ----------------------------
(* Instances of TaskQueue for TLC. *)
EXTENDS TaskQueueInvariant, TaskQueueClaims

CONSTANTS u1, u2, wantKey, salesKey

MCAuth == {u1, u2}
MCKeys == {wantKey, salesKey}

(* RefreshWant: deduplicated and throttled. *)
Want == [auth |-> u1, prio |-> "LOW", key |-> wantKey, throttled |-> TRUE, marked |-> FALSE]
(* RefreshRelease: throttled, guarded by a refresh marker. *)
Release1 == [auth |-> u1, prio |-> "NORMAL", key |-> NoKey, throttled |-> TRUE, marked |-> TRUE]
(* RefreshEarliestReleaseDate: throttled only. *)
Earliest == [auth |-> u1, prio |-> "LOW", key |-> NoKey, throttled |-> TRUE, marked |-> FALSE]
(* RefreshIntents: urgent. *)
Intent == [auth |-> u2, prio |-> "HIGH", key |-> NoKey, throttled |-> FALSE, marked |-> FALSE]
(* RefreshSales: deduplicated only. *)
Sales == [auth |-> u1, prio |-> "NORMAL", key |-> salesKey, throttled |-> FALSE, marked |-> FALSE]

MixedTasks == {Want, Sales, Intent}
UrgentTasks == {Want, Intent}
MarkedTasks == {Release1, Intent}
WantTasks == {Want, Earliest}

NoDrain == {}
DrainAll == {Task}
DrainWants == {{Want}}
NoDirect == {}
WantDirect == {Want}
============================================================================
