---------------------------- MODULE ConfirmerTask ----------------------------
(***************************************************************************)
(* What the confirmer promises the sequence it works for: one task at a    *)
(* time, the confirmation of its bundle reported to it once and while it   *)
(* lasts, no report lost while the sequence waits for one, and no success  *)
(* without a report.  It does not promise that a report comes to the task  *)
(* it was made for: one that is late is taken by a later task.             *)
(* Confirmer.tla is shown to implement this module.                        *)
(***************************************************************************)
EXTENDS Integers

CONSTANTS
  Bundle,      \* bundle hashes
  MaxTasks     \* the tasks started (a bound)

Task == 1..MaxTasks

VARIABLES
  phase,        \* "running" until the sequence gives up or has its confirmation
  task,         \* the number of tasks started
  bundleHash,   \* the bundle of each task
  finishedOk,   \* the running task was told of a confirmation
  succeeded,    \* the tasks whose result was success
  confirmed,    \* the bundles confirmed on the tangle
  reported,     \* the tasks whose confirmation the monitor has seen
  pending       \* the reports on their way to the sequence

taskVars == <<phase, task, bundleHash, finishedOk, succeeded, confirmed, reported, pending>>

Init ==
  /\ phase = "idle" /\ task = 0
  /\ bundleHash \in [Task -> Bundle]
  /\ finishedOk = FALSE /\ succeeded = {}
  /\ confirmed = {} /\ reported = {} /\ pending = 0

\* A task for the next bundle, when none is there.
Start ==
  /\ phase = "idle" /\ task < MaxTasks
  /\ \A s \in succeeded : bundleHash[s] # bundleHash[task + 1]
  /\ task' = task + 1
  /\ phase' = "running" /\ finishedOk' = FALSE
  /\ UNCHANGED <<bundleHash, succeeded, confirmed, reported, pending>>

\* The monitor sees the task's bundle confirmed: once, and before the task is over.
Report ==
  /\ phase # "idle" /\ task \notin reported
  /\ bundleHash[task] \in confirmed
  /\ reported' = reported \cup {task}
  /\ pending' = pending + 1
  /\ UNCHANGED <<phase, task, bundleHash, finishedOk, succeeded, confirmed>>

\* The sequence reads a report, its own or a late one.
TakeReport ==
  /\ phase # "idle" /\ ~finishedOk /\ pending > 0
  /\ pending' = pending - 1
  /\ finishedOk' = TRUE /\ phase' = "ended"
  /\ UNCHANGED <<task, bundleHash, succeeded, confirmed, reported>>

\* A report is lost only when no task needs it.
LoseReport ==
  /\ phase # "running" /\ pending > 0
  /\ pending' = pending - 1
  /\ UNCHANGED <<phase, task, bundleHash, finishedOk, succeeded, confirmed, reported>>

\* The sequence finds the balance too low and cancels the task.
GiveUp ==
  /\ phase = "running"
  /\ phase' = "ended"
  /\ UNCHANGED <<task, bundleHash, finishedOk, succeeded, confirmed, reported, pending>>

\* The channel is closed and read, and the result is returned.
Finish ==
  /\ phase = "ended"
  /\ phase' = "idle"
  /\ succeeded' = IF finishedOk THEN succeeded \cup {task} ELSE succeeded
  /\ UNCHANGED <<task, bundleHash, finishedOk, confirmed, reported, pending>>

\* The tangle confirms a bundle that was sent.
Confirmation(b) ==
  /\ b \notin confirmed /\ \E t \in 1..task : bundleHash[t] = b
  /\ confirmed' = confirmed \cup {b}
  /\ UNCHANGED <<phase, task, bundleHash, finishedOk, succeeded, reported, pending>>

Next ==
  \/ Start \/ Report \/ TakeReport \/ LoseReport \/ GiveUp \/ Finish
  \/ \E b \in Bundle : Confirmation(b)

Spec == Init /\ [][Next]_taskVars
=============================================================================
