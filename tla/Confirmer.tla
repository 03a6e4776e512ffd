----------------------------- MODULE Confirmer -----------------------------
(***************************************************************************)
(* The confirmer of lib/confirmer: a sequence starts one task after the    *)
(* other for the bundles of its generator.  A task runs three routines     *)
(* that check, promote and reattach the bundle; a monitor, polling and     *)
(* listening, reports its confirmation.  All of them post updates to the   *)
(* one channel the sequence reads (tbsender/sequence.go), each from a      *)
(* goroutine of its own, the poster.                                       *)
(*                                                                         *)
(* A critical section of conf.mutex or of the monitor's mutex is one step, *)
(* unless it calls the API: a promotion and a reattachment hold conf.mutex *)
(* during their calls.  runningMutex is explicit, because the posters hold *)
(* it while they send.  A tail is known by the bundle it belongs to.  The  *)
(* counters and the durations of an update, when a promotion is due, and   *)
(* the panic of a WaitGroup whose Add meets the end of Wait (218 and 272)  *)
(* are left out.                                                           *)
(***************************************************************************)
EXTENDS Integers, Sequences, FiniteSets

CONSTANTS
  Bundle,      \* bundle hashes
  NoBundle,
  Kind,        \* the routines that run: without "promote" if PromoteDisable
  MaxTasks,    \* the tasks started (a bound)
  MaxPosts     \* the promotions and reattachments (a bound)

Kinds == {"promocheck", "promote", "reattach"}

ASSUME ConfirmerAssumption ==
  /\ NoBundle \notin Bundle
  /\ Kind \subseteq Kinds
  /\ MaxTasks \in Nat /\ MaxPosts \in Nat

Task == 1..MaxTasks

\* What the sequence does depends on whether an update is UPD_CONFIRM or one of
\* those the routines post (UPD_NO_ACTION, UPD_REATTACH, UPD_PROMOTE).
UpdateType == {"confirm", "other"}

VARIABLES
  seqpc,            \* where the sequence is in Run
  task,             \* the number of tasks started
  bundleHash,       \* the bundle of each task
  finishedOk,       \* of the sequence, for the running task
  succeeded,        \* the tasks whose result was success
  running,          \* conf.running
  locked,           \* runningMutex is held by the sequence
  chanUpdate,       \* the buffer, of one update, of conf.chanUpdate
  closed,           \* conf.chanUpdate is closed
  cancelled,        \* the routines whose chCancel is closed
  routine,          \* where each routine is in its loop
  isNotPromotable,
  waiting,          \* the posters that wait for runningMutex.RLock, by update
  sending,          \* the posters that hold it and send
  posts,            \* how often the routines have taken to promoting or reattaching
  trytes,           \* the bundle of lastBundleTrytes
  tail,             \* the bundle whose tail nextTailHashToPromote is, or hangs on
  inHand,           \* what the routine works on that holds conf.mutex and calls the API
  overlapped,       \* history: a routine was doing that when the task started
  callbacks,        \* confMon.bundles: the tasks to tell, {} if not in the map
  pollers,          \* the pollConfirmed goroutines of each bundle
  stopwatches,      \* of each bundle
  confirmed,        \* the bundles confirmed on the tangle
  fired             \* history: how often the callback of a task was called

seqVars == <<seqpc, task, bundleHash, finishedOk, succeeded>>
stopVars == <<running, locked, closed, cancelled>>
posterVars == <<waiting, sending, chanUpdate>>
tailVars == <<trytes, tail, inHand, overlapped>>
routineVars == <<routine, isNotPromotable, posts, tailVars>>
monVars == <<callbacks, pollers, stopwatches, fired>>
vars == <<seqVars, stopVars, posterVars, routineVars, monVars, confirmed>>

Active(r) == routine[r] \notin {"none", "new", "ended"}

\* wgTaskEnd: a routine adds itself when it first runs.
wgTaskEnd == Cardinality({r \in Task \X Kind : Active(r)})

Init ==
  /\ seqpc = "idle"
  /\ task = 0
  /\ bundleHash \in [Task -> Bundle]
  /\ finishedOk = FALSE
  /\ succeeded = {}
  /\ running = FALSE
  /\ locked = FALSE
  /\ chanUpdate = <<>>
  /\ closed = TRUE
  /\ cancelled = {}
  /\ routine = [r \in Task \X Kind |-> "none"]
  /\ isNotPromotable = FALSE
  /\ waiting = [u \in UpdateType |-> 0]
  /\ sending = [u \in UpdateType |-> 0]
  /\ posts = 0
  /\ trytes = NoBundle
  /\ tail = NoBundle
  /\ inHand = NoBundle
  /\ overlapped = FALSE
  /\ callbacks = [b \in Bundle |-> {}]
  /\ pollers = [b \in Bundle |-> 0]
  /\ stopwatches = [b \in Bundle |-> "none"]
  /\ confirmed = {}
  /\ fired = [t \in Task |-> 0]

-----------------------------------------------------------------------------
\* The sequence: TransferSequence.Run.

\* The tail of the last task stays.
Mut_StartConfirmerTask ==
  LET t == task + 1
      b == bundleHash[t]
  IN
  /\ seqpc = "idle" /\ task < MaxTasks
  /\ \A s \in succeeded : bundleHash[s] # b
  /\ ~running
  /\ task' = t
  /\ seqpc' = "reading"
  /\ finishedOk' = FALSE
  /\ running' = TRUE
  /\ chanUpdate' = <<>> /\ closed' = FALSE
  /\ isNotPromotable' = FALSE
  /\ trytes' = b /\ UNCHANGED tail
  /\ overlapped' = (inHand # NoBundle)
  /\ routine' = [r \in Task \X Kind |-> IF r[1] = t THEN "new" ELSE routine[r]]
  /\ pollers' = [pollers EXCEPT ![b] = IF callbacks[b] = {} THEN @ + 1 ELSE @]
  /\ callbacks' = [callbacks EXCEPT ![b] = @ \cup {t}]
  /\ stopwatches' = [stopwatches EXCEPT ![b] = "started"]
  /\ UNCHANGED <<bundleHash, succeeded, locked, cancelled, waiting, sending,
                 posts, inHand, fired, confirmed>>

\* The generator starts the stopwatch and hands a bundle, which is a new one
\* after a success; StartConfirmerTask registers with the monitor.  It does not
\* take conf.mutex, as no routine is thought to run.
StartConfirmerTask ==
  LET t == task + 1
      b == bundleHash[t]
  IN
  /\ seqpc = "idle" /\ task < MaxTasks
  /\ \A s \in succeeded : bundleHash[s] # b
  /\ ~running
  /\ task' = t
  /\ seqpc' = "reading"
  /\ finishedOk' = FALSE
  /\ running' = TRUE
  /\ chanUpdate' = <<>> /\ closed' = FALSE
  /\ isNotPromotable' = FALSE
  /\ trytes' = b /\ tail' = b
  /\ overlapped' = (inHand # NoBundle)
  /\ routine' = [r \in Task \X Kind |-> IF r[1] = t THEN "new" ELSE routine[r]]
  /\ pollers' = [pollers EXCEPT ![b] = IF callbacks[b] = {} THEN @ + 1 ELSE @]
  /\ callbacks' = [callbacks EXCEPT ![b] = @ \cup {t}]
  /\ stopwatches' = [stopwatches EXCEPT ![b] = "started"]
  /\ UNCHANGED <<bundleHash, succeeded, locked, cancelled, waiting, sending,
                 posts, inHand, fired, confirmed>>

\* Any update makes the task a success.
Mut_ReadUpdate ==
  /\ seqpc = "reading" /\ chanUpdate # <<>>
  /\ chanUpdate' = <<>>
  /\ finishedOk' = TRUE
  /\ seqpc' = IF finishedOk THEN "reading" ELSE "stopping"
  /\ stopwatches' = [stopwatches EXCEPT ![bundleHash[task]] = "none"]
  /\ UNCHANGED <<task, bundleHash, succeeded, stopVars, waiting, sending,
                 routineVars, callbacks, pollers, fired, confirmed>>

\* The sequence takes an update and, unless it is an error, publishes it.  A
\* first confirmation, or a balance found too low, makes it cancel the task.
ReadUpdate ==
  /\ seqpc = "reading" /\ chanUpdate # <<>>
  /\ chanUpdate' = <<>>
  /\ LET confirms == ~finishedOk /\ Head(chanUpdate) = "confirm" IN
       /\ finishedOk' = (finishedOk \/ confirms)
       /\ \/ seqpc' = "stopping" /\ (confirms \/ ~finishedOk)
          \/ seqpc' = "reading" /\ ~confirms
       /\ stopwatches' = IF confirms
                         THEN [stopwatches EXCEPT ![bundleHash[task]] = "none"]
                         ELSE stopwatches
  /\ UNCHANGED <<task, bundleHash, succeeded, stopVars, waiting, sending,
                 routineVars, callbacks, pollers, fired, confirmed>>

Mut_CancelRoutines == cancelled' = cancelled \cup ({task} \X (Kind \ {"reattach"}))

CancelRoutines == cancelled' = cancelled \cup ({task} \X Kind)

\* stopConfirmerTask gets runningMutex when no poster holds it.
StopConfirmerTask ==
  /\ seqpc = "stopping"
  /\ \A u \in UpdateType : sending[u] = 0
  /\ \/ /\ ~running
        /\ seqpc' = "cancelling"
        /\ UNCHANGED stopVars
     \/ /\ running
        /\ seqpc' = "waiting"
        /\ locked' = TRUE /\ closed' = TRUE
        /\ CancelRoutines
        /\ UNCHANGED running
  /\ UNCHANGED <<task, bundleHash, finishedOk, succeeded, posterVars,
                 routineVars, monVars, confirmed>>

Mut_TaskEnded ==
  /\ seqpc = "waiting" /\ wgTaskEnd = 0
  /\ seqpc' = "cancelling"
  /\ locked' = FALSE
  /\ UNCHANGED <<running, task, bundleHash, finishedOk, succeeded, closed, cancelled,
                 posterVars, routineVars, monVars, confirmed>>

\* Does not wait for the routines.
Mut_TaskEndedEarly ==
  /\ seqpc = "waiting"
  /\ seqpc' = "cancelling"
  /\ running' = FALSE /\ locked' = FALSE
  /\ UNCHANGED <<task, bundleHash, finishedOk, succeeded, closed, cancelled,
                 posterVars, routineVars, monVars, confirmed>>

\* wgTaskEnd.Wait returns.
TaskEnded ==
  /\ seqpc = "waiting" /\ wgTaskEnd = 0
  /\ seqpc' = "cancelling"
  /\ running' = FALSE /\ locked' = FALSE
  /\ UNCHANGED <<task, bundleHash, finishedOk, succeeded, closed, cancelled,
                 posterVars, routineVars, monVars, confirmed>>

Mut_CancelConfirmationPolling ==
  /\ seqpc = "cancelling"
  /\ seqpc' = "reading"
  /\ UNCHANGED <<task, bundleHash, finishedOk, succeeded, stopVars, posterVars,
                 routineVars, monVars, confirmed>>

CancelConfirmationPolling ==
  /\ seqpc = "cancelling"
  /\ seqpc' = "reading"
  /\ callbacks' = [callbacks EXCEPT ![bundleHash[task]] = {}]
  /\ UNCHANGED <<task, bundleHash, finishedOk, succeeded, stopVars, posterVars,
                 routineVars, pollers, stopwatches, fired, confirmed>>

\* The channel is closed and read: the result goes back to the generator.
PutConfirmationResult ==
  /\ seqpc = "reading" /\ closed /\ chanUpdate = <<>>
  /\ seqpc' = "idle"
  /\ succeeded' = IF finishedOk THEN succeeded \cup {task} ELSE succeeded
  /\ UNCHANGED <<task, bundleHash, finishedOk, stopVars, posterVars,
                 routineVars, monVars, confirmed>>

-----------------------------------------------------------------------------
\* The posters: postConfirmerUpdate.

Post(n) ==
  /\ waiting' = [waiting EXCEPT !["other"] = @ + n]
  /\ UNCHANGED <<sending, chanUpdate>>

\* The poster does not look whether a task runs.
Mut_PosterLocks(u) ==
  /\ waiting[u] > 0 /\ ~locked /\ seqpc # "stopping"
  /\ waiting' = [waiting EXCEPT ![u] = @ - 1]
  /\ sending' = [sending EXCEPT ![u] = @ + 1]
  /\ UNCHANGED <<chanUpdate, seqVars, stopVars, routineVars, monVars, confirmed>>

\* RLock is granted unless the mutex is held or the sequence waits for it; a
\* poster that finds no task running is done.
PosterLocks(u) ==
  /\ waiting[u] > 0 /\ ~locked /\ seqpc # "stopping"
  /\ waiting' = [waiting EXCEPT ![u] = @ - 1]
  /\ sending' = IF running THEN [sending EXCEPT ![u] = @ + 1] ELSE sending
  /\ UNCHANGED <<chanUpdate, seqVars, stopVars, routineVars, monVars, confirmed>>

\* A send that drops the update when the buffer is full.
Mut_PosterSendsTry(u) ==
  /\ sending[u] > 0
  /\ sending' = [sending EXCEPT ![u] = @ - 1]
  /\ chanUpdate' = IF chanUpdate = <<>> THEN <<u>> ELSE chanUpdate
  /\ UNCHANGED <<waiting, seqVars, stopVars, routineVars, monVars, confirmed>>

PosterSends(u) ==
  /\ sending[u] > 0 /\ chanUpdate = <<>>
  /\ sending' = [sending EXCEPT ![u] = @ - 1]
  /\ chanUpdate' = <<u>>
  /\ UNCHANGED <<waiting, seqVars, stopVars, routineVars, monVars, confirmed>>

-----------------------------------------------------------------------------
\* The routines.  The fields they use are those of the confirmer, whatever the
\* task they were started for.

Goto(r, pc) == routine' = [routine EXCEPT ![r] = pc]

\* Entering the select, whose timer is not ready yet: a closed chCancel is taken.
EnterSelect(r) == Goto(r, IF r \in cancelled THEN "ended" ELSE "select")

\* A promotability check begins by waiting, the other two by working.
RoutineStarts(r) ==
  /\ routine[r] = "new"
  /\ IF r[2] = "promocheck" THEN EnterSelect(r) ELSE Goto(r, "work")
  /\ UNCHANGED <<isNotPromotable, posts, tailVars, seqVars, stopVars, posterVars, monVars, confirmed>>

\* In a select that was entered before the cancel both branches may be ready.
RoutineWakes(r) ==
  /\ routine[r] = "select"
  /\ Goto(r, "work")
  /\ UNCHANGED <<isNotPromotable, posts, tailVars, seqVars, stopVars, posterVars, monVars, confirmed>>

RoutineEnds(r) ==
  /\ routine[r] = "select" /\ r \in cancelled
  /\ Goto(r, "ended")
  /\ UNCHANGED <<isNotPromotable, posts, tailVars, seqVars, stopVars, posterVars, monVars, confirmed>>

\* conf.mutex is held for longer than a step only during calls of the API.
MutexFree == inHand = NoBundle

\* checkConsistency was asked of tail without the lock; an error changes nothing.
CheckAnswered(r) ==
  /\ r[2] = "promocheck" /\ routine[r] = "work"
  /\ EnterSelect(r) \/ \E pc \in {"consistent", "inconsistent"} : Goto(r, pc)
  /\ UNCHANGED <<isNotPromotable, posts, tailVars, seqVars, stopVars, posterVars, monVars, confirmed>>

CheckStored(r) ==
  /\ routine[r] \in {"consistent", "inconsistent"} /\ MutexFree
  /\ isNotPromotable' = (routine[r] = "inconsistent")
  /\ EnterSelect(r)
  /\ UNCHANGED <<posts, tailVars, seqVars, stopVars, posterVars, monVars, confirmed>>

\* MaxPosts bounds the calls and, as a refused reattachment calls nothing and may
\* be repeated, the updates on their way when it is refused.
OnTheirWay == waiting["other"] + sending["other"]
AtBound == posts = MaxPosts \/ OnTheirWay >= MaxPosts

\* promoteIfNeeded, when it is not due or the bundle is not promotable, and
\* reattachIfNeeded, when the bundle is promotable and not old.
NothingToDo(r) ==
  /\ routine[r] = "work" /\ r[2] \in {"promote", "reattach"} /\ MutexFree
  /\ r[2] = "reattach" => ~isNotPromotable \/ AtBound
  /\ EnterSelect(r)
  /\ UNCHANGED <<isNotPromotable, posts, tailVars, seqVars, stopVars, posterVars, monVars, confirmed>>

\* promote calls the API, to attach to the tail as it is when it comes to that,
PromoteBegins(r) ==
  /\ r[2] = "promote" /\ routine[r] = "work" /\ MutexFree /\ ~isNotPromotable
  /\ posts < MaxPosts /\ posts' = posts + 1
  /\ inHand' = tail
  /\ Goto(r, "calling")
  /\ UNCHANGED <<isNotPromotable, trytes, tail, overlapped,
                 seqVars, stopVars, posterVars, monVars, confirmed>>

\* and if PromoteChain is set stores the new tail, which hangs on the one it was
\* attached to.  A success and a failure are both posted.
PromoteEnds(r) ==
  /\ r[2] = "promote" /\ routine[r] = "calling"
  /\ tail' \in {tail, inHand}
  /\ inHand' = NoBundle
  /\ Post(1)
  /\ EnterSelect(r)
  /\ UNCHANGED <<isNotPromotable, posts, trytes, overlapped, seqVars, stopVars, monVars,
                 confirmed>>

\* reattach calls the API,
ReattachBegins(r) ==
  /\ r[2] = "reattach" /\ routine[r] = "work" /\ MutexFree
  /\ trytes = bundleHash[task]
  /\ posts < MaxPosts /\ posts' = posts + 1
  /\ inHand' = trytes
  /\ Goto(r, "calling")
  /\ UNCHANGED <<isNotPromotable, trytes, tail, overlapped,
                 seqVars, stopVars, posterVars, monVars, confirmed>>

\* unless it finds that the trytes are not those of the task.
ReattachRefused(r) ==
  /\ r[2] = "reattach" /\ routine[r] = "work" /\ MutexFree
  /\ trytes # bundleHash[task]
  /\ OnTheirWay < MaxPosts
  /\ Post(2)
  /\ EnterSelect(r)
  /\ UNCHANGED <<isNotPromotable, posts, tailVars, seqVars, stopVars, monVars, confirmed>>

\* The error of a reattachment is posted by reattachIfNeeded and by its caller.
\* A start meanwhile may have replaced the trytes before they were attached, or
\* may write over what is stored now.
ReattachEnds(r) ==
  /\ r[2] = "reattach" /\ routine[r] = "calling"
  /\ \/ Post(2) /\ UNCHANGED <<isNotPromotable, trytes, tail>>
     \/ /\ Post(1) /\ isNotPromotable' = FALSE
        /\ trytes' \in {trytes, inHand} /\ tail' \in {trytes, inHand}
  /\ inHand' = NoBundle
  /\ EnterSelect(r)
  /\ UNCHANGED <<posts, overlapped, seqVars, stopVars, monVars, confirmed>>

-----------------------------------------------------------------------------
\* The confirmation monitor.

\* StopStopwatch sets the stop time in a copy of the entry.
StopStopwatch(b) == UNCHANGED stopwatches

\* The confirmed bundle stays in the map.
Mut_Confirm(b) ==
  /\ fired' = [t \in Task |-> IF t \in callbacks[b] THEN fired[t] + 1 ELSE fired[t]]
  /\ waiting' = [u \in UpdateType |->
                   waiting[u] + IF u = "confirm" THEN Cardinality(callbacks[b]) ELSE 0]
  /\ StopStopwatch(b)
  /\ UNCHANGED <<callbacks, sending, chanUpdate>>

\* A confirmed bundle leaves the map and each of its callbacks is called in a
\* goroutine, which posts.
Confirm(b) ==
  /\ fired' = [t \in Task |-> IF t \in callbacks[b] THEN fired[t] + 1 ELSE fired[t]]
  /\ waiting' = [u \in UpdateType |->
                   waiting[u] + IF u = "confirm" THEN Cardinality(callbacks[b]) ELSE 0]
  /\ callbacks' = [callbacks EXCEPT ![b] = {}]
  /\ StopStopwatch(b)
  /\ UNCHANGED <<sending, chanUpdate>>

\* checkBundle, when it ends the poller: a bundle not in the map was cancelled.
CheckBundle(b) ==
  /\ pollers[b] > 0
  /\ pollers' = [pollers EXCEPT ![b] = @ - 1]
  /\ \/ callbacks[b] = {} /\ UNCHANGED <<posterVars, callbacks, stopwatches, fired>>
     \/ callbacks[b] # {} /\ b \in confirmed /\ Confirm(b)
  /\ UNCHANGED <<seqVars, stopVars, routineVars, confirmed>>

\* nanozmqLoop receives a confirmation.
NanozmqMsg(b) ==
  /\ callbacks[b] # {} /\ b \in confirmed
  /\ Confirm(b)
  /\ UNCHANGED <<pollers, seqVars, stopVars, routineVars, confirmed>>

\* The tangle confirms a bundle that was sent.
Confirmation(b) ==
  /\ b \notin confirmed /\ \E t \in 1..task : bundleHash[t] = b
  /\ confirmed' = confirmed \cup {b}
  /\ UNCHANGED <<seqVars, stopVars, posterVars, routineVars, monVars>>

-----------------------------------------------------------------------------
Run ==
  StartConfirmerTask \/ ReadUpdate \/ StopConfirmerTask \/ TaskEnded
    \/ CancelConfirmationPolling \/ PutConfirmationResult

RoutineStep(r) ==
  \/ RoutineStarts(r) \/ RoutineWakes(r) \/ CheckAnswered(r) \/ CheckStored(r)
  \/ NothingToDo(r)
  \/ PromoteBegins(r) \/ PromoteEnds(r) \/ ReattachBegins(r)
  \/ ReattachRefused(r) \/ ReattachEnds(r)

Next ==
  \/ Run
  \/ \E u \in UpdateType : PosterLocks(u) \/ PosterSends(u)
  \/ \E r \in Task \X Kind : RoutineStep(r) \/ RoutineEnds(r)
  \/ \E b \in Bundle : CheckBundle(b) \/ NanozmqMsg(b) \/ Confirmation(b)

Spec == Init /\ [][Next]_vars

\* Goroutines run and calls of the API return; a sender and a reader of a mutex are served in their turn.
\* The tangle need not confirm, and the nanozmq feed may be down.
FairSpec ==
  /\ Spec
  /\ WF_vars(Run)
  /\ \A r \in Task \X Kind : WF_vars(RoutineStep(r) \/ RoutineEnds(r))
  /\ \A u \in UpdateType : SF_vars(PosterLocks(u)) /\ SF_vars(PosterSends(u))
  /\ \A b \in Bundle : WF_vars(CheckBundle(b))

-----------------------------------------------------------------------------
\* What the sequence sees of a task: ConfirmerTask.

\* A task runs until the sequence has decided to cancel it.
Phase ==
  IF seqpc = "idle" THEN "idle"
  ELSE IF running /\ seqpc = "reading" THEN "running"
  ELSE "ended"

Reported == {t \in Task : fired[t] > 0}

\* A report waits for the lock, is being sent or lies in the channel.
Pending ==
  waiting["confirm"] + sending["confirm"] + (IF chanUpdate = <<"confirm">> THEN 1 ELSE 0)

Promised == INSTANCE ConfirmerTask WITH
              phase <- Phase, reported <- Reported, pending <- Pending

-----------------------------------------------------------------------------
SeqTypeOK ==
  /\ seqpc \in {"idle", "reading", "stopping", "waiting", "cancelling"}
  /\ task \in 0..MaxTasks
  /\ seqpc # "idle" => task \in Task
  /\ bundleHash \in [Task -> Bundle]
  /\ finishedOk \in BOOLEAN
  /\ succeeded \subseteq Task

StopTypeOK ==
  /\ running \in BOOLEAN /\ locked \in BOOLEAN /\ closed \in BOOLEAN
  /\ cancelled \subseteq Task \X Kind

PosterTypeOK ==
  /\ waiting \in [UpdateType -> Nat] /\ sending \in [UpdateType -> Nat]
  /\ chanUpdate \in Seq(UpdateType) /\ Len(chanUpdate) <= 1

RoutineTypeOK ==
  /\ routine \in [Task \X Kind -> {"none", "new", "work", "calling", "select",
                                   "consistent", "inconsistent", "ended"}]
  /\ isNotPromotable \in BOOLEAN
  /\ posts \in 0..MaxPosts
  /\ {trytes, tail, inHand} \subseteq Bundle \cup {NoBundle}
  /\ overlapped \in BOOLEAN

MonTypeOK ==
  /\ callbacks \in [Bundle -> SUBSET Task]
  /\ pollers \in [Bundle -> Nat]
  /\ stopwatches \in [Bundle -> {"none", "started", "stopped"}]
  /\ fired \in [Task -> Nat]

\* Every variable has its type, and chanUpdate is within its bound.
TypeOK ==
  /\ SeqTypeOK /\ StopTypeOK /\ PosterTypeOK /\ RoutineTypeOK /\ MonTypeOK
  /\ confirmed \subseteq Bundle

\* No poster sends on a channel that was closed, which would be a panic: the
\* posters that were let in while the task ran are done when it is stopped.
NeverSendsOnClosed == closed => \A u \in UpdateType : sending[u] = 0

\* The sequence never meets "Confirmer task is already running": whatever ended
\* the last task, it was stopped before its result was returned.
TaskStoppedWhenIdle == seqpc = "idle" => ~running /\ ~locked

\* A confirmation seen by two pollers, or by a poller and the nanozmq feed, is
\* reported once.
CallbackOnce == \A t \in Task : fired[t] <= 1

\* The monitor calls the callback of no task but the one that runs, even when
\* the same bundle is started again while its former poller still sleeps.
CallbackOfRunningTask ==
  [][ \A t \in Task : fired'[t] # fired[t] => t = task /\ seqpc # "idle" ]_vars

\* However the locks, the posters and the monitor interleave, the sequence sees
\* one task at a time, whose confirmation is reported once; a report is lost only
\* when the sequence has stopped waiting for one, and each success takes one.
KeepsTaskPromise == Promised!Spec

\* Each success takes one report, and what is reported was confirmed: though a
\* success may be owed to the bundle of another task, there are never more
\* successes than confirmations seen (sequence.go:157-175).
SuccessTakesReport ==
  /\ Cardinality(succeeded) + Pending <= Cardinality(Reported)
  /\ \A t \in Reported : bundleHash[t] \in confirmed

\* A routine that first runs when its task has ended, and was thus not waited
\* for, works once during the next task and ends; a check of promotability does
\* not even that.  No other routine outlives its task (confirmer.go:167 and 272).
LeftoversEnd ==
  \A r \in Task \X Kind :
    r[1] < task \/ seqpc = "idle" =>
      routine[r] \in {"none", "new", "ended"}
                       \cup (IF r[2] = "promocheck" THEN {} ELSE {"work", "calling"})

\* What a task attaches, promotes and checks is its own bundle, whatever the
\* routines of the tasks before it left and those it meets still do, unless one
\* of them was calling the API when the task started; one that works before or
\* after, does so on the fields as they are (confirmer.go:167-173).
OwnTails ==
  seqpc # "idle" /\ ~overlapped => trytes = bundleHash[task] /\ tail = bundleHash[task]

\* The sequence reads a confirmation that was reported while it was reading,
\* however many other updates are posted, unless it gives the task up.
ConfirmationRead ==
  \A t \in Task :
    fired[t] > 0 /\ task = t /\ seqpc = "reading" ~>
      finishedOk \/ task # t \/ seqpc # "reading"

\* The routines post asynchronously, so that a sequence that has closed the
\* channel and waits for them, with runningMutex held, is not waited for.
RoutinesEnd == seqpc = "waiting" ~> seqpc # "waiting"

\* Stopping a task does not deadlock (confirmer.go:224-225).
StopReturns == seqpc = "stopping" ~> seqpc # "stopping"

\* The result of a task is success if its bundle was confirmed
\* (bundle_gen.go:38).
SuccessMeansConfirmed == \A t \in succeeded : bundleHash[t] \in confirmed
=============================================================================
