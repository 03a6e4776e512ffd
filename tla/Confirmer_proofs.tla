--------------------------- MODULE Confirmer_proofs ---------------------------
(***************************************************************************)
(* Proofs about Confirmer, for any bundles, routines, tasks and updates.   *)
(***************************************************************************)
EXTENDS Confirmer, FiniteSetTheorems, SequenceTheorems, TLAPS

Routine == Task \X Kind

\* The lock and the channel follow the sequence: the lock is held while it waits
\* for the routines, and the channel is open while the task runs and is not being
\* stopped.
StopInv ==
  /\ locked <=> seqpc = "waiting"
  /\ closed <=> ~running \/ locked
  /\ seqpc = "waiting" => running
  /\ seqpc \in {"idle", "cancelling"} => ~running

\* The callbacks registered are those of the running task, for its own bundle,
\* and have not been called; none is left when a stopped task is only read.
CallInv ==
  /\ \A b \in Bundle : \A t \in callbacks[b] :
       t = task /\ b = bundleHash[t] /\ fired[t] = 0
  /\ \A t \in Task : t > task => fired[t] = 0
  /\ closed /\ seqpc \in {"idle", "reading"} => \A b \in Bundle : callbacks[b] = {}

\* The routines of a task that has been stopped are cancelled,
CancelledInv ==
  \A r \in Routine : r[1] < task \/ (r[1] = task /\ closed) => r \in cancelled

\* those of a task that has ended do no more than LeftoversEnd says, and those
\* of a task to come do nothing.
Leftover(r) ==
  routine[r] \in {"none", "new", "ended"}
                   \cup (IF r[2] = "promocheck" THEN {} ELSE {"work", "calling"})

LeftoverInv ==
  \A r \in Routine :
    /\ r[1] < task \/ (r[1] = task /\ ~running) => Leftover(r)
    /\ r[1] > task => routine[r] = "none"

\* One routine at a time calls the API, with a bundle in hand: it holds conf.mutex.
HoldInv ==
  /\ task > 0 => trytes \in Bundle /\ tail \in Bundle
  /\ \A r \in Routine : routine[r] = "calling" =>
       inHand \in Bundle /\ \A q \in Routine : routine[q] = "calling" => q = r

\* What the routines use, and what one of them has in hand, is the bundle of the
\* task, unless one was calling the API when the task started.
TailInv ==
  seqpc # "idle" /\ ~overlapped =>
    /\ trytes = bundleHash[task] /\ tail = bundleHash[task]
    /\ inHand \in {bundleHash[task], NoBundle}

ConfirmerInv ==
  /\ TypeOK /\ StopInv /\ NeverSendsOnClosed /\ CallInv /\ CallbackOnce /\ CancelledInv /\ LeftoverInv
  /\ HoldInv /\ TailInv

-----------------------------------------------------------------------------
\* Type correctness.

\* There are finitely many routines of tasks, so that wgTaskEnd is a number.
LEMMA FiniteRoutines == IsFiniteSet(Task) /\ IsFiniteSet(Routine)
<1>1. IsFiniteSet(Task)
  BY FS_Interval, ConfirmerAssumption DEF Task
<1>2. IsFiniteSet(Kinds)
  <2>1. Kinds = ({"promocheck"} \cup {"promote"}) \cup {"reattach"}
    BY DEF Kinds
  <2>2. IsFiniteSet({"promocheck"} \cup {"promote"})
    BY FS_Singleton, FS_Union
  <2> QED BY <2>1, <2>2, FS_Singleton, FS_Union
<1>3. IsFiniteSet(Kind)
  BY <1>2, FS_Subset, ConfirmerAssumption
<1> QED BY <1>1, <1>3, FS_Product DEF Routine

\* The variables keep their types when nothing of their part changes.
LEMMA Unchanged ==
  ASSUME TypeOK
  PROVE  /\ UNCHANGED seqVars => SeqTypeOK'
         /\ UNCHANGED stopVars => StopTypeOK'
         /\ UNCHANGED posterVars => PosterTypeOK'
         /\ UNCHANGED routineVars => RoutineTypeOK'
         /\ UNCHANGED monVars => MonTypeOK'
         /\ UNCHANGED confirmed => (confirmed \subseteq Bundle)'
<1> USE DEF TypeOK
<1>1. UNCHANGED seqVars => SeqTypeOK'
  BY DEF SeqTypeOK, seqVars
<1>2. UNCHANGED stopVars => StopTypeOK'
  BY DEF StopTypeOK, stopVars
<1>3. UNCHANGED posterVars => PosterTypeOK'
  BY DEF PosterTypeOK, posterVars
<1>4. UNCHANGED routineVars => RoutineTypeOK'
  BY DEF RoutineTypeOK, routineVars, tailVars
<1>5. UNCHANGED monVars => MonTypeOK'
  BY DEF MonTypeOK, monVars
<1> QED BY <1>1, <1>2, <1>3, <1>4, <1>5

\* Calling the callbacks of a bundle keeps the types.
LEMMA ConfirmType ==
  ASSUME TypeOK, NEW b \in Bundle, Confirm(b)
  PROVE  /\ PosterTypeOK'
         /\ pollers' \in [Bundle -> Nat] => MonTypeOK'
<1> USE DEF TypeOK
<1>1. Cardinality(callbacks[b]) \in Nat
  <2>1. callbacks[b] \in SUBSET Task
    BY DEF MonTypeOK
  <2> QED BY <2>1, FiniteRoutines, FS_Subset, FS_CardinalityType
<1>2. waiting' \in [UpdateType -> Nat]
  BY <1>1 DEF Confirm, PosterTypeOK
<1>3. PosterTypeOK'
  BY <1>2 DEF Confirm, PosterTypeOK
<1>4. fired' \in [Task -> Nat] /\ callbacks' \in [Bundle -> SUBSET Task]
  BY DEF Confirm, MonTypeOK
<1>5. stopwatches' \in [Bundle -> {"none", "started", "stopped"}]
  BY DEF Confirm, StopStopwatch, MonTypeOK
<1> QED BY <1>3, <1>4, <1>5 DEF MonTypeOK

\* The sequence keeps the types.
LEMMA RunType == TypeOK /\ Run => TypeOK'
<1> SUFFICES ASSUME TypeOK, Run PROVE TypeOK'
  OBVIOUS
<1>0. MaxTasks \in Nat /\ task \in Nat
  BY ConfirmerAssumption DEF TypeOK, SeqTypeOK
<1>1. CASE StartConfirmerTask
  <2>1. task + 1 \in Task /\ bundleHash[task + 1] \in Bundle
    BY <1>0, <1>1 DEF StartConfirmerTask, Task, TypeOK, SeqTypeOK
  <2>2. SeqTypeOK'
    <3>1. task' = task + 1 /\ seqpc' = "reading" /\ ~finishedOk'
          /\ UNCHANGED <<bundleHash, succeeded>>
      BY <1>1 DEF StartConfirmerTask
    <3>2. task' \in 0..MaxTasks /\ task' \in Task
      BY <1>0, <2>1, <3>1 DEF Task
    <3>3. finishedOk' \in BOOLEAN
      BY <1>1 DEF StartConfirmerTask
    <3> QED BY <3>1, <3>2, <3>3 DEF TypeOK, SeqTypeOK
  <2>3. StopTypeOK'
    BY <1>1 DEF StartConfirmerTask, TypeOK, StopTypeOK
  <2>4. PosterTypeOK'
    BY <1>1 DEF StartConfirmerTask, TypeOK, PosterTypeOK
  <2>5. RoutineTypeOK'
    BY <1>1, <2>1 DEF StartConfirmerTask, TypeOK, RoutineTypeOK
  <2>6. MonTypeOK'
    BY <1>1, <2>1 DEF StartConfirmerTask, TypeOK, MonTypeOK
  <2>7. (confirmed \subseteq Bundle)'
    BY <1>1 DEF StartConfirmerTask, TypeOK
  <2> QED BY <2>2, <2>3, <2>4, <2>5, <2>6, <2>7 DEF TypeOK
<1>2. CASE ReadUpdate
  <2>1. SeqTypeOK'
    BY <1>2 DEF ReadUpdate, TypeOK, SeqTypeOK
  <2>2. PosterTypeOK'
    BY <1>2 DEF ReadUpdate, TypeOK, PosterTypeOK
  <2>3. MonTypeOK'
    BY <1>2 DEF ReadUpdate, TypeOK, MonTypeOK
  <2>4. UNCHANGED <<stopVars, routineVars, confirmed>>
    BY <1>2 DEF ReadUpdate
  <2> QED BY <2>1, <2>2, <2>3, <2>4, Unchanged DEF TypeOK
<1>3. CASE StopConfirmerTask
  <2>1. SeqTypeOK'
    BY <1>3 DEF StopConfirmerTask, TypeOK, SeqTypeOK
  <2>2. StopTypeOK'
    <3>1. CASE UNCHANGED stopVars
      BY <3>1, Unchanged
    <3>2. CASE CancelRoutines /\ seqpc' = "waiting"
      <4>1. task \in Task
        BY <1>3 DEF StopConfirmerTask, TypeOK, SeqTypeOK
      <4>2. cancelled' \subseteq Task \X Kind
        BY <3>2, <4>1 DEF CancelRoutines, TypeOK, StopTypeOK
      <4>3. locked' \in BOOLEAN /\ closed' \in BOOLEAN /\ UNCHANGED running
        BY <1>3, <3>2 DEF StopConfirmerTask
      <4> QED BY <4>2, <4>3 DEF TypeOK, StopTypeOK
    <3> QED BY <1>3, <3>1, <3>2 DEF StopConfirmerTask
  <2>3. UNCHANGED <<posterVars, routineVars, monVars, confirmed>>
    BY <1>3 DEF StopConfirmerTask
  <2> QED BY <2>1, <2>2, <2>3, Unchanged DEF TypeOK
<1>4. CASE TaskEnded
  <2>1. SeqTypeOK'
    BY <1>4 DEF TaskEnded, TypeOK, SeqTypeOK
  <2>2. StopTypeOK'
    BY <1>4 DEF TaskEnded, TypeOK, StopTypeOK
  <2>3. UNCHANGED <<posterVars, routineVars, monVars, confirmed>>
    BY <1>4 DEF TaskEnded
  <2> QED BY <2>1, <2>2, <2>3, Unchanged DEF TypeOK
<1>5. CASE CancelConfirmationPolling
  <2>1. SeqTypeOK'
    BY <1>5 DEF CancelConfirmationPolling, TypeOK, SeqTypeOK
  <2>2. MonTypeOK'
    BY <1>5 DEF CancelConfirmationPolling, TypeOK, MonTypeOK
  <2>3. UNCHANGED <<stopVars, posterVars, routineVars, confirmed>>
    BY <1>5 DEF CancelConfirmationPolling
  <2> QED BY <2>1, <2>2, <2>3, Unchanged DEF TypeOK
<1>6. CASE PutConfirmationResult
  <2>1. SeqTypeOK'
    BY <1>6 DEF PutConfirmationResult, TypeOK, SeqTypeOK
  <2>2. UNCHANGED <<stopVars, posterVars, routineVars, monVars, confirmed>>
    BY <1>6 DEF PutConfirmationResult
  <2> QED BY <2>1, <2>2, Unchanged DEF TypeOK
<1> QED BY <1>1, <1>2, <1>3, <1>4, <1>5, <1>6 DEF Run

\* The posters keep the types.
LEMMA PosterType ==
  ASSUME TypeOK, NEW u \in UpdateType, PosterLocks(u) \/ PosterSends(u)
  PROVE  TypeOK'
<1>1. PosterTypeOK'
  <2>1. sending[u] \in Nat /\ waiting[u] \in Nat
    BY DEF TypeOK, PosterTypeOK
  <2>2. CASE PosterLocks(u)
    BY <2>1, <2>2 DEF PosterLocks, TypeOK, PosterTypeOK
  <2>3. CASE PosterSends(u)
    BY <2>1, <2>3 DEF PosterSends, TypeOK, PosterTypeOK
  <2> QED BY <2>2, <2>3
<1>2. UNCHANGED <<seqVars, stopVars, routineVars, monVars, confirmed>>
  BY DEF PosterLocks, PosterSends
<1> QED BY <1>1, <1>2, Unchanged DEF TypeOK

\* A routine changes nothing but its place, the flag and the updates.
LEMMA RoutineFrame ==
  ASSUME NEW r \in Routine, RoutineStep(r) \/ RoutineEnds(r)
  PROVE  /\ UNCHANGED <<seqVars, stopVars, monVars, confirmed, sending, chanUpdate>>
         /\ \E pc \in {"work", "calling", "select", "consistent", "inconsistent", "ended"} : Goto(r, pc)
<1> USE DEF EnterSelect, seqVars, stopVars, posterVars, monVars
<1>1. CASE RoutineStarts(r)
  BY <1>1 DEF RoutineStarts
<1>2. CASE RoutineWakes(r)
  BY <1>2 DEF RoutineWakes
<1>3. CASE RoutineEnds(r)
  BY <1>3 DEF RoutineEnds
<1>4. CASE CheckAnswered(r)
  BY <1>4 DEF CheckAnswered
<1>5. CASE CheckStored(r)
  BY <1>5 DEF CheckStored
<1>6. CASE NothingToDo(r)
  BY <1>6 DEF NothingToDo
<1>7. CASE PromoteBegins(r)
  BY <1>7 DEF PromoteBegins
<1>8. CASE PromoteEnds(r)
  BY <1>8 DEF PromoteEnds, Post
<1>9. CASE ReattachBegins(r)
  BY <1>9 DEF ReattachBegins
<1>10. CASE ReattachRefused(r)
  BY <1>10 DEF ReattachRefused, Post
<1>11. CASE ReattachEnds(r)
  BY <1>11 DEF ReattachEnds, Post
<1> QED BY <1>1, <1>2, <1>3, <1>4, <1>5, <1>6, <1>7, <1>8, <1>9, <1>10, <1>11 DEF RoutineStep

\* What a routine makes of the tails: one that ends its calls may store what it
\* had in hand, one that begins them takes in hand what it finds.
LEMMA TailFrame ==
  ASSUME NEW r \in Routine, RoutineStep(r) \/ RoutineEnds(r)
  PROVE  /\ UNCHANGED overlapped
         /\ \/ /\ UNCHANGED <<trytes, tail, inHand>>
               /\ routine[r] # "calling"
               /\ \E pc \in {"work", "select", "consistent", "inconsistent", "ended"} :
                    Goto(r, pc)
            \/ /\ UNCHANGED <<trytes, tail>> /\ inHand' \in {trytes, tail} /\ MutexFree
               /\ Goto(r, "calling") /\ routine[r] = "work"
            \/ /\ trytes' \in {trytes, inHand} /\ tail' \in {trytes, tail, inHand}
               /\ inHand' = NoBundle /\ routine[r] = "calling"
               /\ Goto(r, "select") \/ Goto(r, "ended")
<1> USE DEF tailVars, EnterSelect
<1>1. CASE RoutineStarts(r)
  BY <1>1 DEF RoutineStarts
<1>2. CASE RoutineWakes(r)
  BY <1>2 DEF RoutineWakes
<1>3. CASE RoutineEnds(r)
  BY <1>3 DEF RoutineEnds
<1>4. CASE CheckAnswered(r)
  BY <1>4 DEF CheckAnswered
<1>5. CASE CheckStored(r)
  BY <1>5 DEF CheckStored
<1>6. CASE NothingToDo(r)
  BY <1>6 DEF NothingToDo
<1>7. CASE PromoteBegins(r)
  BY <1>7 DEF PromoteBegins
<1>8. CASE PromoteEnds(r)
  BY <1>8 DEF PromoteEnds
<1>9. CASE ReattachBegins(r)
  BY <1>9 DEF ReattachBegins
<1>10. CASE ReattachRefused(r)
  BY <1>10 DEF ReattachRefused
<1>11. CASE ReattachEnds(r)
  BY <1>11 DEF ReattachEnds
<1> QED BY <1>1, <1>2, <1>3, <1>4, <1>5, <1>6, <1>7, <1>8, <1>9, <1>10, <1>11 DEF RoutineStep

\* The routines keep the types.
LEMMA RoutineType ==
  ASSUME TypeOK, NEW r \in Routine, RoutineStep(r) \/ RoutineEnds(r)
  PROVE  TypeOK'
<1>1. UNCHANGED <<seqVars, stopVars, monVars, confirmed>>
  BY RoutineFrame
<1>2. routine' \in [Task \X Kind -> {"none", "new", "work", "calling", "select",
                                     "consistent", "inconsistent", "ended"}]
  BY RoutineFrame DEF Goto, TypeOK, RoutineTypeOK
<1>3. isNotPromotable' \in BOOLEAN
  BY DEF TypeOK, RoutineTypeOK, RoutineStep, RoutineStarts, RoutineWakes, RoutineEnds,
         CheckAnswered, CheckStored, NothingToDo, PromoteBegins, PromoteEnds, ReattachBegins,
         ReattachRefused, ReattachEnds
<1>6. posts' \in 0..MaxPosts
  <2>1. posts \in 0..MaxPosts /\ MaxPosts \in Nat
    BY ConfirmerAssumption DEF TypeOK, RoutineTypeOK
  <2>2. UNCHANGED posts \/ (posts < MaxPosts /\ posts' = posts + 1)
    BY DEF RoutineStep, RoutineStarts, RoutineWakes, RoutineEnds,
           CheckAnswered, CheckStored, NothingToDo, PromoteBegins, PromoteEnds, ReattachBegins,
         ReattachRefused, ReattachEnds
  <2> QED BY <2>1, <2>2
<1>7. /\ {trytes', tail', inHand'} \subseteq Bundle \cup {NoBundle}
      /\ overlapped' \in BOOLEAN
  BY TailFrame DEF TypeOK, RoutineTypeOK
<1>4. waiting' \in [UpdateType -> Nat]
  BY DEF TypeOK, PosterTypeOK, RoutineStep, RoutineStarts, RoutineWakes, RoutineEnds,
         CheckAnswered, CheckStored, NothingToDo, PromoteBegins, PromoteEnds, ReattachBegins,
         ReattachRefused, ReattachEnds, Post, posterVars
<1>5. PosterTypeOK'
  BY <1>4, RoutineFrame DEF TypeOK, PosterTypeOK
<1> QED BY <1>1, <1>2, <1>3, <1>5, <1>6, <1>7, Unchanged DEF TypeOK, RoutineTypeOK

\* The monitor and the tangle keep the types.
LEMMA MonitorType ==
  ASSUME TypeOK, NEW b \in Bundle, CheckBundle(b) \/ NanozmqMsg(b) \/ Confirmation(b)
  PROVE  TypeOK'
<1>1. CASE CheckBundle(b)
  <2>1. UNCHANGED <<seqVars, stopVars, routineVars, confirmed>>
    BY <1>1 DEF CheckBundle
  <2>2. pollers' \in [Bundle -> Nat]
    BY <1>1 DEF CheckBundle, TypeOK, MonTypeOK
  <2>3. CASE UNCHANGED <<posterVars, callbacks, stopwatches, fired>>
    <3>1. MonTypeOK'
      BY <2>2, <2>3 DEF TypeOK, MonTypeOK
    <3> QED BY <2>1, <2>3, <3>1, Unchanged DEF TypeOK
  <2>4. CASE Confirm(b)
    BY <2>1, <2>2, <2>4, ConfirmType, Unchanged DEF TypeOK
  <2> QED BY <1>1, <2>3, <2>4 DEF CheckBundle
<1>2. CASE NanozmqMsg(b)
  <2>1. UNCHANGED <<pollers, seqVars, stopVars, routineVars, confirmed>> /\ Confirm(b)
    BY <1>2 DEF NanozmqMsg
  <2>2. pollers' \in [Bundle -> Nat]
    BY <2>1 DEF TypeOK, MonTypeOK
  <2> QED BY <2>1, <2>2, ConfirmType, Unchanged DEF TypeOK
<1>3. CASE Confirmation(b)
  <2>1. UNCHANGED <<seqVars, stopVars, posterVars, routineVars, monVars>>
    BY <1>3 DEF Confirmation
  <2>2. (confirmed \subseteq Bundle)'
    BY <1>3 DEF Confirmation, TypeOK
  <2> QED BY <2>1, <2>2, Unchanged DEF TypeOK
<1> QED BY <1>1, <1>2, <1>3

\* Every step keeps the types.
LEMMA TypeStep == TypeOK /\ [Next]_vars => TypeOK'
<1> SUFFICES ASSUME TypeOK, [Next]_vars PROVE TypeOK'
  OBVIOUS
<1>1. CASE UNCHANGED vars
  <2>1. UNCHANGED <<seqVars, stopVars, posterVars, routineVars, monVars, confirmed>>
    BY <1>1 DEF vars
  <2> QED BY <2>1, Unchanged DEF TypeOK
<1>2. CASE Next
  BY <1>2, RunType, PosterType, RoutineType, MonitorType DEF Next, Routine
<1> QED BY <1>1, <1>2

\* The initial states have the types.
LEMMA InitType == Init => TypeOK
<1> SUFFICES ASSUME Init PROVE TypeOK
  OBVIOUS
<1> USE ConfirmerAssumption DEF Init
<1>1. SeqTypeOK
  <2>1. task \in 0..MaxTasks
    OBVIOUS
  <2>2. finishedOk \in BOOLEAN
    OBVIOUS
  <2> QED BY <2>1, <2>2 DEF SeqTypeOK
<1>2. StopTypeOK
  BY DEF StopTypeOK
<1>3. PosterTypeOK
  BY DEF PosterTypeOK
<1>4. RoutineTypeOK
  <2>1. posts \in 0..MaxPosts
    OBVIOUS
  <2>2. isNotPromotable \in BOOLEAN
    OBVIOUS
  <2> QED BY <2>1, <2>2 DEF RoutineTypeOK
<1>5. MonTypeOK
  BY DEF MonTypeOK
<1> QED BY <1>1, <1>2, <1>3, <1>4, <1>5 DEF TypeOK

\* Every variable has its type, and the channel never holds more than one update.
THEOREM TypeCorrect == Spec => []TypeOK
  BY InitType, TypeStep, PTL DEF Spec

-----------------------------------------------------------------------------
\* Stopping a task.

\* Only the sequence changes its own state and that of the task.
LEMMA OthersFrame ==
  ASSUME [Next]_vars
  PROVE  Run \/ UNCHANGED <<seqVars, stopVars>>
<1>1. CASE UNCHANGED vars
  BY <1>1 DEF vars
<1>2. ASSUME NEW u \in UpdateType, PosterLocks(u) \/ PosterSends(u)
      PROVE  UNCHANGED <<seqVars, stopVars>>
  BY <1>2 DEF PosterLocks, PosterSends
<1>3. ASSUME NEW r \in Routine, RoutineStep(r) \/ RoutineEnds(r)
      PROVE  UNCHANGED <<seqVars, stopVars>>
  BY <1>3, RoutineFrame
<1>4. ASSUME NEW b \in Bundle, CheckBundle(b) \/ NanozmqMsg(b) \/ Confirmation(b)
      PROVE  UNCHANGED <<seqVars, stopVars>>
  BY <1>4 DEF CheckBundle, NanozmqMsg, Confirmation
<1> QED BY <1>1, <1>2, <1>3, <1>4 DEF Next, Routine

\* Every step keeps the lock and the channel in step with the sequence.
LEMMA StopStep == StopInv /\ [Next]_vars => StopInv'
<1> SUFFICES ASSUME StopInv, [Next]_vars PROVE StopInv'
  OBVIOUS
<1> USE DEF StopInv, stopVars
<1>1. CASE StartConfirmerTask
  BY <1>1 DEF StartConfirmerTask
<1>2. CASE ReadUpdate
  BY <1>2 DEF ReadUpdate
<1>3. CASE StopConfirmerTask
  BY <1>3 DEF StopConfirmerTask
<1>4. CASE TaskEnded
  BY <1>4 DEF TaskEnded
<1>5. CASE CancelConfirmationPolling
  BY <1>5 DEF CancelConfirmationPolling
<1>6. CASE PutConfirmationResult
  BY <1>6 DEF PutConfirmationResult
<1>7. CASE UNCHANGED <<seqVars, stopVars>>
  BY <1>7 DEF seqVars
<1> QED BY <1>1, <1>2, <1>3, <1>4, <1>5, <1>6, <1>7, OthersFrame DEF Run

\* No step lets a poster in after the channel was closed, or closes it on one.
LEMMA SendStep == TypeOK /\ StopInv /\ NeverSendsOnClosed /\ [Next]_vars => NeverSendsOnClosed'
<1> SUFFICES ASSUME TypeOK, StopInv, NeverSendsOnClosed, [Next]_vars, closed',
                    NEW u \in UpdateType
             PROVE  sending'[u] = 0
  BY DEF NeverSendsOnClosed
<1>1. CASE StopConfirmerTask
  BY <1>1 DEF StopConfirmerTask, posterVars
<1>2. CASE Run /\ ~StopConfirmerTask
  <2>1. closed /\ UNCHANGED sending
    BY <1>2 DEF Run, StartConfirmerTask, ReadUpdate, TaskEnded, CancelConfirmationPolling,
                PutConfirmationResult, stopVars, posterVars
  <2> QED BY <2>1 DEF NeverSendsOnClosed
<1>3. CASE UNCHANGED <<seqVars, stopVars>>
  <2>1. closed /\ sending[u] = 0
    BY <1>3 DEF stopVars, NeverSendsOnClosed
  <2>2. ASSUME NEW v \in UpdateType, PosterLocks(v)
        PROVE  sending'[u] = 0
    <3>1. ~running
      BY <2>1, <2>2 DEF PosterLocks, StopInv
    <3> QED BY <2>1, <2>2, <3>1 DEF PosterLocks
  <2>3. ASSUME NEW v \in UpdateType, PosterSends(v)
        PROVE  sending'[u] = 0
    BY <2>1, <2>3 DEF PosterSends, NeverSendsOnClosed
  <2>4. ASSUME NEW r \in Routine, RoutineStep(r) \/ RoutineEnds(r)
        PROVE  sending'[u] = 0
    BY <2>1, <2>4, RoutineFrame
  <2>5. ASSUME NEW b \in Bundle, CheckBundle(b) \/ NanozmqMsg(b) \/ Confirmation(b)
        PROVE  sending'[u] = 0
    BY <2>1, <2>5 DEF CheckBundle, NanozmqMsg, Confirmation, Confirm, posterVars
  <2>6. CASE UNCHANGED vars
    BY <2>1, <2>6 DEF vars, posterVars
  <2>7. CASE Run
    <3>1. UNCHANGED sending
      BY <2>7 DEF Run, StartConfirmerTask, ReadUpdate, StopConfirmerTask, TaskEnded,
                  CancelConfirmationPolling, PutConfirmationResult, posterVars
    <3> QED BY <2>1, <3>1
  <2> QED BY <2>2, <2>3, <2>4, <2>5, <2>6, <2>7 DEF Next, Routine
<1> QED BY <1>1, <1>2, <1>3, OthersFrame

-----------------------------------------------------------------------------
\* The callbacks of the monitor.

\* Only the sequence and a confirmed bundle change them.
LEMMA CallFrame ==
  ASSUME [Next]_vars, ~Run
  PROVE  \/ UNCHANGED <<callbacks, fired>>
         \/ \E b \in Bundle : Confirm(b)
<1> USE DEF monVars
<1>1. CASE UNCHANGED vars
  BY <1>1 DEF vars
<1>2. ASSUME NEW u \in UpdateType, PosterLocks(u) \/ PosterSends(u)
      PROVE  UNCHANGED <<callbacks, fired>>
  BY <1>2 DEF PosterLocks, PosterSends
<1>3. ASSUME NEW r \in Routine, RoutineStep(r) \/ RoutineEnds(r)
      PROVE  UNCHANGED <<callbacks, fired>>
  BY <1>3, RoutineFrame
<1>4. ASSUME NEW b \in Bundle, CheckBundle(b) \/ NanozmqMsg(b) \/ Confirmation(b)
      PROVE  UNCHANGED <<callbacks, fired>> \/ Confirm(b)
  BY <1>4 DEF CheckBundle, NanozmqMsg, Confirmation
<1> QED BY <1>1, <1>2, <1>3, <1>4 DEF Next, Routine

\* Every step keeps the registered callbacks those of the running task, not called.
LEMMA CallStep == TypeOK /\ StopInv /\ CallInv /\ [Next]_vars => CallInv'
<1> SUFFICES ASSUME TypeOK, StopInv, CallInv, [Next]_vars PROVE CallInv'
  OBVIOUS
<1>0. /\ task \in Nat /\ Task \subseteq Nat
      /\ callbacks \in [Bundle -> SUBSET Task] /\ fired \in [Task -> Nat]
  BY ConfirmerAssumption DEF TypeOK, SeqTypeOK, MonTypeOK, Task
<1>1. CASE StartConfirmerTask
  <2>1. \A b \in Bundle : callbacks[b] = {}
    BY <1>1 DEF StartConfirmerTask, StopInv, CallInv
  <2>2. task + 1 \in Task /\ bundleHash[task + 1] \in Bundle
    BY <1>1, <1>0, ConfirmerAssumption
       DEF StartConfirmerTask, Task, TypeOK, SeqTypeOK
  <2>3. /\ task' = task + 1 /\ ~closed' /\ UNCHANGED <<bundleHash, fired>>
        /\ callbacks' = [callbacks EXCEPT ![bundleHash[task + 1]] = @ \cup {task + 1}]
    BY <1>1 DEF StartConfirmerTask
  <2>4. ASSUME NEW b \in Bundle, NEW t \in callbacks'[b]
        PROVE  t = task' /\ b = bundleHash'[t] /\ fired'[t] = 0
    <3>1. b = bundleHash[task + 1] /\ t = task + 1
      BY <1>0, <2>1, <2>2, <2>3, <2>4
    <3>2. fired[t] = 0
      BY <1>0, <2>2, <3>1 DEF CallInv
    <3> QED BY <2>3, <3>1, <3>2
  <2>5. ASSUME NEW t \in Task, t > task'
        PROVE  fired'[t] = 0
    BY <1>0, <2>3, <2>5 DEF CallInv
  <2> QED BY <2>3, <2>4, <2>5 DEF CallInv
<1>2. CASE CancelConfirmationPolling
  <2>1. \A b \in Bundle : callbacks'[b] = {}
    BY <1>0, <1>2 DEF CancelConfirmationPolling, CallInv
  <2>2. UNCHANGED <<task, fired>>
    BY <1>2 DEF CancelConfirmationPolling
  <2> QED BY <2>1, <2>2 DEF CallInv
<1>3. CASE Run /\ ~StartConfirmerTask /\ ~CancelConfirmationPolling
  <2>1. UNCHANGED <<callbacks, fired, task, bundleHash>>
    BY <1>3 DEF Run, ReadUpdate, StopConfirmerTask, TaskEnded, PutConfirmationResult, monVars
  <2>2. closed' /\ seqpc' \in {"idle", "reading"} =>
          closed /\ seqpc \in {"idle", "reading"}
    BY <1>3 DEF Run, ReadUpdate, StopConfirmerTask, TaskEnded, PutConfirmationResult, stopVars
  <2> QED BY <2>1, <2>2 DEF CallInv
<1>4. CASE ~Run
  <2>1. UNCHANGED <<task, bundleHash, seqpc, closed>>
    BY <1>4, OthersFrame DEF seqVars, stopVars
  <2>2. CASE UNCHANGED <<callbacks, fired>>
    BY <2>1, <2>2 DEF CallInv
  <2>3. ASSUME NEW b \in Bundle, Confirm(b)
        PROVE  CallInv'
    <3>1. /\ callbacks' = [callbacks EXCEPT ![b] = {}]
          /\ fired' = [t \in Task |-> IF t \in callbacks[b] THEN fired[t] + 1 ELSE fired[t]]
      BY <2>3 DEF Confirm
    <3>2. ASSUME NEW c \in Bundle, NEW t \in callbacks'[c]
          PROVE  t = task' /\ c = bundleHash'[t] /\ fired'[t] = 0
      <4>1. c # b /\ t \in callbacks[c] /\ t \in Task
        BY <1>0, <3>1, <3>2
      <4>2. t = task /\ c = bundleHash[t] /\ fired[t] = 0
        BY <4>1 DEF CallInv
      <4>3. t \notin callbacks[b]
        BY <4>1, <4>2 DEF CallInv
      <4> QED BY <2>1, <3>1, <4>1, <4>2, <4>3
    <3>3. ASSUME NEW t \in Task, t > task'
          PROVE  fired'[t] = 0
      <4>1. t > task /\ fired[t] = 0
        BY <2>1, <3>3 DEF CallInv
      <4>2. t \notin callbacks[b]
        BY <1>0, <4>1 DEF CallInv
      <4> QED BY <3>1, <4>1, <4>2
    <3>4. closed' /\ seqpc' \in {"idle", "reading"} => \A c \in Bundle : callbacks'[c] = {}
      BY <1>0, <2>1, <3>1 DEF CallInv
    <3> QED BY <3>2, <3>3, <3>4 DEF CallInv
  <2> QED BY <1>4, <2>2, <2>3, CallFrame
<1> QED BY <1>1, <1>2, <1>3, <1>4

\* A step that calls the callback of a task confirms a bundle it is registered for.
LEMMA Fires ==
  ASSUME TypeOK, [Next]_vars, NEW t \in Task, fired'[t] # fired[t]
  PROVE  /\ \E b \in Bundle : t \in callbacks[b]
         /\ fired'[t] = fired[t] + 1
         /\ UNCHANGED <<seqVars, stopVars>>
<1>1. ~Run
  BY DEF Run, StartConfirmerTask, ReadUpdate, StopConfirmerTask, TaskEnded,
         CancelConfirmationPolling, PutConfirmationResult, monVars
<1>2. PICK b \in Bundle : Confirm(b)
  BY <1>1, CallFrame
<1>3. t \in callbacks[b] /\ fired'[t] = fired[t] + 1
  BY <1>2 DEF Confirm
<1> QED BY <1>1, <1>3, OthersFrame

\* No step calls a callback a second time.
LEMMA OnceStep == TypeOK /\ CallInv /\ CallbackOnce /\ [Next]_vars => CallbackOnce'
<1> SUFFICES ASSUME TypeOK, CallInv, CallbackOnce, [Next]_vars, NEW t \in Task
             PROVE  fired'[t] <= 1
  BY DEF CallbackOnce
<1>1. CASE fired'[t] = fired[t]
  BY <1>1 DEF CallbackOnce
<1>2. CASE fired'[t] # fired[t]
  BY <1>2, Fires DEF CallInv
<1> QED BY <1>1, <1>2

\* No step calls the callback of a task that does not run.
LEMMA RunningStep ==
  TypeOK /\ StopInv /\ CallInv /\ [Next]_vars =>
    \A t \in Task : fired'[t] # fired[t] => t = task /\ seqpc # "idle"
<1> SUFFICES ASSUME TypeOK, StopInv, CallInv, [Next]_vars, NEW t \in Task,
                    fired'[t] # fired[t]
             PROVE  t = task /\ seqpc # "idle"
  OBVIOUS
<1>1. PICK b \in Bundle : t \in callbacks[b]
  BY Fires
<1> QED BY <1>1 DEF StopInv, CallInv

-----------------------------------------------------------------------------
\* The routines that outlive their task.

\* Every step leaves the routines of a stopped task cancelled.
LEMMA CancelledStep == TypeOK /\ StopInv /\ CancelledInv /\ [Next]_vars => CancelledInv'
<1> SUFFICES ASSUME TypeOK, StopInv, CancelledInv, [Next]_vars, NEW r \in Routine,
                    r[1] < task' \/ (r[1] = task' /\ closed')
             PROVE  r \in cancelled'
  BY DEF CancelledInv
<1>0. task \in Nat /\ r[1] \in Nat /\ r[2] \in Kind /\ r = <<r[1], r[2]>>
  BY ConfirmerAssumption DEF TypeOK, SeqTypeOK, Routine, Task
<1>1. CASE StartConfirmerTask
  <2>1. task' = task + 1 /\ ~closed' /\ closed /\ UNCHANGED cancelled
    BY <1>1 DEF StartConfirmerTask, StopInv
  <2> QED BY <1>0, <2>1 DEF CancelledInv
<1>2. CASE StopConfirmerTask /\ CancelRoutines
  <2>1. UNCHANGED task /\ cancelled' = cancelled \cup ({task} \X Kind)
    BY <1>2 DEF StopConfirmerTask, CancelRoutines
  <2>2. CASE r[1] = task
    BY <1>0, <2>1, <2>2
  <2>3. CASE r[1] < task
    BY <2>1, <2>3 DEF CancelledInv
  <2> QED BY <2>1, <2>2, <2>3
<1>3. CASE Run /\ ~StartConfirmerTask /\ ~(StopConfirmerTask /\ CancelRoutines)
  <2>1. UNCHANGED <<task, closed, cancelled>>
    BY <1>3 DEF Run, ReadUpdate, StopConfirmerTask, TaskEnded, CancelConfirmationPolling,
                PutConfirmationResult, stopVars
  <2> QED BY <2>1 DEF CancelledInv
<1>4. CASE UNCHANGED <<seqVars, stopVars>>
  BY <1>4 DEF seqVars, stopVars, CancelledInv
<1> QED BY <1>1, <1>2, <1>3, <1>4, OthersFrame

\* A routine whose task has ended is cancelled, and takes no step but that of a
\* routine that starts late; one of a task to come takes none.
LEMMA LeftoverRoutine ==
  ASSUME TypeOK, LeftoverInv, NEW r \in Routine, RoutineStep(r) \/ RoutineEnds(r)
  PROVE  /\ ~(r[1] > task)
         /\ Leftover(r) /\ r \in cancelled => Leftover(r)'
<1>1. ~(r[1] > task)
  BY DEF LeftoverInv, RoutineStep, RoutineStarts, RoutineWakes, RoutineEnds, CheckAnswered,
         CheckStored, NothingToDo, PromoteBegins, PromoteEnds, ReattachBegins, ReattachRefused,
         ReattachEnds
<1>2. ASSUME Leftover(r), r \in cancelled
      PROVE  Leftover(r)'
  <2> USE DEF Leftover, Goto, EnterSelect, TypeOK, RoutineTypeOK, Routine
  <2>1. CASE RoutineStarts(r)
    BY <1>2, <2>1 DEF RoutineStarts
  <2>2. CASE RoutineWakes(r)
    BY <1>2, <2>2 DEF RoutineWakes
  <2>3. CASE RoutineEnds(r)
    BY <1>2, <2>3 DEF RoutineEnds
  <2>4. CASE CheckAnswered(r)
    BY <1>2, <2>4 DEF CheckAnswered
  <2>5. CASE CheckStored(r)
    BY <1>2, <2>5 DEF CheckStored
  <2>6. CASE NothingToDo(r)
    BY <1>2, <2>6 DEF NothingToDo
  <2>7. CASE PromoteBegins(r)
    BY <1>2, <2>7 DEF PromoteBegins
  <2>8. CASE PromoteEnds(r)
    BY <1>2, <2>8 DEF PromoteEnds
  <2>9. CASE ReattachBegins(r)
    BY <1>2, <2>9 DEF ReattachBegins
  <2>10. CASE ReattachRefused(r)
    BY <1>2, <2>10 DEF ReattachRefused
  <2>11. CASE ReattachEnds(r)
    BY <1>2, <2>11 DEF ReattachEnds
  <2> QED BY <2>1, <2>2, <2>3, <2>4, <2>5, <2>6, <2>7, <2>8, <2>9, <2>10, <2>11
       DEF RoutineStep
<1> QED BY <1>1, <1>2

\* When wgTaskEnd is zero, no routine of any task is in its loop.
LEMMA NoneActive == wgTaskEnd = 0 => \A r \in Routine : ~Active(r)
<1> DEFINE A == {r \in Routine : Active(r)}
<1>1. IsFiniteSet(A)
  BY FiniteRoutines, FS_Subset
<1>2. Cardinality(A) = 0 => A = {}
  BY <1>1, FS_EmptySet
<1> QED BY <1>2 DEF wgTaskEnd, Routine

\* Every step keeps what a routine does after the end of its task.
LEMMA LeftoverStep ==
  TypeOK /\ StopInv /\ CancelledInv /\ LeftoverInv /\ [Next]_vars => LeftoverInv'
<1> SUFFICES ASSUME TypeOK, StopInv, CancelledInv, LeftoverInv, [Next]_vars,
                    NEW r \in Routine
             PROVE  /\ r[1] < task' \/ (r[1] = task' /\ ~running') => Leftover(r)'
                    /\ r[1] > task' => routine'[r] = "none"
  BY DEF LeftoverInv
<1>0. task \in Nat /\ r[1] \in Nat
  BY ConfirmerAssumption DEF TypeOK, SeqTypeOK, Routine, Task
<1>1. CASE StartConfirmerTask
  <2>1. /\ task' = task + 1 /\ running' /\ ~running
        /\ routine' = [q \in Task \X Kind |-> IF q[1] = task + 1 THEN "new" ELSE routine[q]]
    BY <1>1 DEF StartConfirmerTask
  <2>2. r[1] # task + 1 => routine'[r] = routine[r]
    BY <2>1 DEF Routine
  <2> QED BY <1>0, <2>1, <2>2 DEF LeftoverInv, Leftover
<1>2. CASE TaskEnded
  <2>1. UNCHANGED <<task, routine>> /\ ~Active(r)
    BY <1>2, NoneActive DEF TaskEnded, routineVars
  <2> QED BY <2>1 DEF LeftoverInv, Leftover, Active
<1>3. CASE Run /\ ~StartConfirmerTask /\ ~TaskEnded
  <2>1. UNCHANGED <<task, running, routine>>
    BY <1>3 DEF Run, ReadUpdate, StopConfirmerTask, CancelConfirmationPolling,
                PutConfirmationResult, stopVars, routineVars
  <2> QED BY <2>1 DEF LeftoverInv, Leftover
<1>4. CASE UNCHANGED <<seqVars, stopVars>>
  <2>1. UNCHANGED <<task, running, closed, cancelled>>
    BY <1>4 DEF seqVars, stopVars
  <2>2. CASE UNCHANGED routine
    BY <2>1, <2>2 DEF LeftoverInv, Leftover
  <2>3. ASSUME NEW q \in Routine, RoutineStep(q) \/ RoutineEnds(q)
        PROVE  /\ r[1] < task' \/ (r[1] = task' /\ ~running') => Leftover(r)'
               /\ r[1] > task' => routine'[r] = "none"
    <3>1. CASE q = r
      <4>1. r[1] < task \/ (r[1] = task /\ ~running) => Leftover(r) /\ r \in cancelled
        BY DEF LeftoverInv, CancelledInv, StopInv
      <4> QED BY <2>1, <2>3, <3>1, <4>1, LeftoverRoutine
    <3>2. CASE q # r
      <4>1. routine'[r] = routine[r]
        BY <2>3, <3>2, RoutineFrame DEF Goto, TypeOK, RoutineTypeOK, Routine
      <4> QED BY <2>1, <4>1 DEF LeftoverInv, Leftover
    <3> QED BY <3>1, <3>2
  <2>4. UNCHANGED routine \/ \E q \in Routine : RoutineStep(q) \/ RoutineEnds(q)
    <3>1. ASSUME NEW u \in UpdateType, PosterLocks(u) \/ PosterSends(u)
          PROVE  UNCHANGED routine
      BY <3>1 DEF PosterLocks, PosterSends, routineVars
    <3>2. ASSUME NEW b \in Bundle, CheckBundle(b) \/ NanozmqMsg(b) \/ Confirmation(b)
          PROVE  UNCHANGED routine
      BY <3>2 DEF CheckBundle, NanozmqMsg, Confirmation, routineVars
    <3>3. CASE UNCHANGED vars
      BY <3>3 DEF vars, routineVars
    <3>4. CASE Run
      <4>1. ~StartConfirmerTask
        BY <1>0, <2>1 DEF StartConfirmerTask
      <4> QED BY <3>4, <4>1 DEF Run, ReadUpdate, StopConfirmerTask, TaskEnded,
                CancelConfirmationPolling, PutConfirmationResult, routineVars
    <3> QED BY <3>1, <3>2, <3>3, <3>4 DEF Next, Routine
  <2> QED BY <2>2, <2>3, <2>4
<1> QED BY <1>1, <1>2, <1>3, <1>4, OthersFrame

-----------------------------------------------------------------------------
\* The tails.

\* What the steps of the sequence and of the others change of the tails.
LEMMA TailsChange ==
  ASSUME [Next]_vars
  PROVE  \/ StartConfirmerTask
         \/ UNCHANGED <<task, bundleHash, routine, tailVars>> /\ (seqpc = "idle" <=> seqpc' = "idle")
         \/ UNCHANGED <<task, routine, tailVars>> /\ seqpc' = "idle"
         \/ /\ UNCHANGED <<task, bundleHash, seqpc>>
            /\ \E r \in Routine : RoutineStep(r) \/ RoutineEnds(r)
<1>1. CASE UNCHANGED vars
  BY <1>1 DEF vars, seqVars, routineVars
<1>2. ASSUME NEW u \in UpdateType, PosterLocks(u) \/ PosterSends(u)
      PROVE  UNCHANGED <<task, bundleHash, seqpc, routine, tailVars>>
  BY <1>2 DEF PosterLocks, PosterSends, seqVars, routineVars
<1>3. ASSUME NEW r \in Routine, RoutineStep(r) \/ RoutineEnds(r)
      PROVE  UNCHANGED <<task, bundleHash, seqpc>>
  BY <1>3, RoutineFrame DEF seqVars
<1>4. ASSUME NEW b \in Bundle, CheckBundle(b) \/ NanozmqMsg(b) \/ Confirmation(b)
      PROVE  UNCHANGED <<task, bundleHash, seqpc, routine, tailVars>>
  BY <1>4 DEF CheckBundle, NanozmqMsg, Confirmation, seqVars, routineVars
<1>5. CASE Run /\ ~StartConfirmerTask
  BY <1>5 DEF Run, ReadUpdate, StopConfirmerTask, TaskEnded, CancelConfirmationPolling,
              PutConfirmationResult, routineVars
<1> QED BY <1>1, <1>2, <1>3, <1>4, <1>5 DEF Next, Routine

\* Every step leaves conf.mutex to one routine.
LEMMA HoldStep == TypeOK /\ LeftoverInv /\ HoldInv /\ [Next]_vars => HoldInv'
<1> SUFFICES ASSUME TypeOK, LeftoverInv, HoldInv, [Next]_vars PROVE HoldInv'
  OBVIOUS
<1>0. /\ task \in Nat /\ \A r \in Routine : r[1] \in Nat /\ r[1] > 0
      /\ routine \in [Routine -> {"none", "new", "work", "calling", "select",
                                "consistent", "inconsistent", "ended"}]
  BY ConfirmerAssumption DEF TypeOK, SeqTypeOK, RoutineTypeOK, Routine, Task
<1>1. CASE StartConfirmerTask
  <2>1. /\ trytes' \in Bundle /\ tail' = trytes' /\ UNCHANGED inHand
        /\ routine' = [q \in Task \X Kind |-> IF q[1] = task + 1 THEN "new" ELSE routine[q]]
    <3>1. task + 1 \in Task /\ bundleHash[task + 1] \in Bundle
      BY <1>0, <1>1, ConfirmerAssumption DEF StartConfirmerTask, Task, TypeOK, SeqTypeOK
    <3> QED BY <1>1, <3>1 DEF StartConfirmerTask
  <2>2. \A q \in Routine : routine'[q] = "calling" => routine[q] = "calling"
    BY <2>1 DEF Routine
  <2> QED BY <2>1, <2>2 DEF HoldInv
<1>2. CASE UNCHANGED <<task, routine, tailVars>>
  BY <1>2 DEF HoldInv, tailVars
<1>3. ASSUME NEW r \in Routine, RoutineStep(r) \/ RoutineEnds(r), UNCHANGED task
      PROVE  HoldInv'
  <2>0. /\ task > 0
        /\ trytes \in Bundle /\ tail \in Bundle
    <3>1. ~(r[1] > task)
      BY <1>3, LeftoverRoutine
    <3> QED BY <1>0, <3>1 DEF HoldInv
  <2>1. ASSUME NEW pc, Goto(r, pc)
        PROVE  \A q \in Routine : routine'[q] = IF q = r THEN pc ELSE routine[q]
    BY <1>0, <2>1 DEF Goto
  <2>2. CASE /\ UNCHANGED <<trytes, tail, inHand>>
             /\ \E pc \in {"work", "select", "consistent", "inconsistent", "ended"} : Goto(r, pc)
    BY <1>3, <2>0, <2>1, <2>2 DEF HoldInv
  <2>3. CASE /\ UNCHANGED <<trytes, tail>> /\ inHand' \in {trytes, tail} /\ MutexFree
             /\ Goto(r, "calling")
    <3>1. \A q \in Routine : routine[q] # "calling"
      BY <2>3, ConfirmerAssumption DEF MutexFree, HoldInv
    <3> QED BY <2>0, <2>1, <2>3, <3>1 DEF HoldInv
  <2>4. CASE /\ trytes' \in {trytes, inHand} /\ tail' \in {trytes, tail, inHand}
             /\ routine[r] = "calling"
             /\ Goto(r, "select") \/ Goto(r, "ended")
    <3>1. inHand \in Bundle /\ \A q \in Routine : routine[q] = "calling" => q = r
      BY <2>4 DEF HoldInv
    <3>2. \A q \in Routine : routine'[q] # "calling"
      BY <2>1, <2>4, <3>1
    <3> QED BY <2>0, <2>4, <3>1, <3>2 DEF HoldInv
  <2> QED BY <1>3, <2>2, <2>3, <2>4, TailFrame
<1> QED BY <1>1, <1>2, <1>3, TailsChange

\* Every step leaves the tails those of the task, but for a routine that was
\* calling the API when it started.
LEMMA TailStep == TypeOK /\ HoldInv /\ TailInv /\ [Next]_vars => TailInv'
<1> SUFFICES ASSUME TypeOK, HoldInv, TailInv, [Next]_vars, seqpc' # "idle", ~overlapped'
             PROVE  /\ trytes' = bundleHash'[task'] /\ tail' = bundleHash'[task']
                    /\ inHand' \in {bundleHash'[task'], NoBundle}
  BY DEF TailInv
<1>1. CASE StartConfirmerTask
  BY <1>1 DEF StartConfirmerTask
<1>2. CASE /\ UNCHANGED <<task, bundleHash, routine, tailVars>>
           /\ seqpc = "idle" <=> seqpc' = "idle"
  BY <1>2 DEF TailInv, tailVars
<1>3. ASSUME NEW r \in Routine, RoutineStep(r) \/ RoutineEnds(r),
             UNCHANGED <<task, bundleHash, seqpc>>
      PROVE  /\ trytes' = bundleHash'[task'] /\ tail' = bundleHash'[task']
             /\ inHand' \in {bundleHash'[task'], NoBundle}
  <2>1. /\ trytes = bundleHash[task] /\ tail = bundleHash[task]
        /\ inHand \in {bundleHash[task], NoBundle}
    BY <1>3, TailFrame DEF TailInv
  <2>2. routine[r] = "calling" => inHand = bundleHash[task]
    BY <2>1, ConfirmerAssumption DEF HoldInv
  <2> QED BY <1>3, <2>1, <2>2, TailFrame
<1> QED BY <1>1, <1>2, <1>3, TailsChange

-----------------------------------------------------------------------------
\* The theorems.

\* The invariant holds initially,
LEMMA InitInv == Init => ConfirmerInv
<1> SUFFICES ASSUME Init PROVE ConfirmerInv
  OBVIOUS
<1>1. \A r \in Routine : r[1] \in Nat /\ r[1] > 0
  BY ConfirmerAssumption DEF Routine, Task
<1>2. StopInv /\ NeverSendsOnClosed
  BY DEF Init, StopInv, NeverSendsOnClosed
<1>3. CallInv /\ CallbackOnce
  BY DEF Init, CallInv, CallbackOnce
<1>4. CancelledInv
  BY <1>1 DEF Init, CancelledInv
<1>5. LeftoverInv
  BY <1>1 DEF Init, LeftoverInv, Leftover, Routine
<1>6. HoldInv /\ TailInv
  BY DEF Init, HoldInv, TailInv, Routine
<1> QED BY <1>2, <1>3, <1>4, <1>5, <1>6, InitType DEF ConfirmerInv

\* and every step keeps it.
LEMMA NextInv == ConfirmerInv /\ [Next]_vars => ConfirmerInv'
  BY TypeStep, StopStep, SendStep, CallStep, OnceStep, CancelledStep, LeftoverStep,
     HoldStep, TailStep
     DEF ConfirmerInv

\* The inductive invariant holds of every behaviour of the confirmer.
LEMMA ConfirmerInvariant == Spec => []ConfirmerInv
  BY InitInv, NextInv, PTL DEF Spec

\* No poster ever sends on a channel that was closed.
THEOREM NeverSendsOnClosedAlways == Spec => []NeverSendsOnClosed
  BY ConfirmerInvariant, PTL DEF ConfirmerInv

\* A sequence that starts a task finds the last one stopped.
THEOREM TaskStoppedWhenIdleAlways == Spec => []TaskStoppedWhenIdle
<1>1. ConfirmerInv => TaskStoppedWhenIdle
  BY DEF ConfirmerInv, StopInv, TaskStoppedWhenIdle
<1> QED BY <1>1, ConfirmerInvariant, PTL

\* The callback of a task is called once at most,
THEOREM CallbackOnceAlways == Spec => []CallbackOnce
  BY ConfirmerInvariant, PTL DEF ConfirmerInv

\* and only while the task runs.
THEOREM CallbackOfRunningTaskAlways == Spec => CallbackOfRunningTask
<1>1. ConfirmerInv /\ [Next]_vars =>
        [\A t \in Task : fired'[t] # fired[t] => t = task /\ seqpc # "idle"]_vars
  BY RunningStep DEF ConfirmerInv
<1> QED BY <1>1, ConfirmerInvariant, PTL DEF Spec, CallbackOfRunningTask

\* A routine that outlives its task works once at most, and a check of
\* promotability not even that.
THEOREM LeftoversEndAlways == Spec => []LeftoversEnd
<1>1. ConfirmerInv => LeftoversEnd
  <2> SUFFICES ASSUME ConfirmerInv, NEW r \in Routine, r[1] < task \/ seqpc = "idle"
               PROVE  Leftover(r)
    BY DEF LeftoversEnd, Leftover, Routine
  <2>1. task \in Nat /\ r[1] \in Nat
    BY ConfirmerAssumption DEF ConfirmerInv, TypeOK, SeqTypeOK, Routine, Task
  <2>2. CASE r[1] > task
    BY <2>2 DEF ConfirmerInv, LeftoverInv, Leftover
  <2>3. CASE ~(r[1] > task)
    BY <2>1, <2>3 DEF ConfirmerInv, LeftoverInv, StopInv
  <2> QED BY <2>2, <2>3
<1> QED BY <1>1, ConfirmerInvariant, PTL

\* For any bundles and tasks, what is attached, promoted and checked is the bundle
\* of the task, unless a routine was calling the API when it started.
THEOREM OwnTailsAlways == Spec => []OwnTails
<1>1. ConfirmerInv => OwnTails
  BY DEF ConfirmerInv, TailInv, OwnTails
<1> QED BY <1>1, ConfirmerInvariant, PTL

-----------------------------------------------------------------------------
\* The promise of ConfirmerTask.

\* Between tasks the channel is empty, and a task that goes on has not been
\* told of a confirmation.
ReadInv ==
  /\ seqpc = "idle" => chanUpdate = <<>>
  /\ seqpc = "reading" /\ running => ~finishedOk

\* Only the sequence and a poster that sends touch the channel.
LEMMA ChanFrame ==
  ASSUME [Next]_vars, ~Run
  PROVE  UNCHANGED chanUpdate \/ \E u \in UpdateType : PosterSends(u)
<1>1. CASE UNCHANGED vars
  BY <1>1 DEF vars, posterVars
<1>2. ASSUME NEW u \in UpdateType, PosterLocks(u) PROVE UNCHANGED chanUpdate
  BY <1>2 DEF PosterLocks
<1>3. ASSUME NEW r \in Routine, RoutineStep(r) \/ RoutineEnds(r) PROVE UNCHANGED chanUpdate
  BY <1>3, RoutineFrame
<1>4. ASSUME NEW b \in Bundle, CheckBundle(b) \/ NanozmqMsg(b) \/ Confirmation(b)
      PROVE  UNCHANGED chanUpdate
  BY <1>4 DEF CheckBundle, NanozmqMsg, Confirmation, Confirm, posterVars
<1> QED BY <1>1, <1>2, <1>3, <1>4 DEF Next, Routine

\* Every step keeps this.
LEMMA ReadStep == ConfirmerInv /\ ReadInv /\ [Next]_vars => ReadInv'
<1> SUFFICES ASSUME ConfirmerInv, ReadInv, [Next]_vars PROVE ReadInv'
  OBVIOUS
<1> USE DEF ReadInv
<1>0. /\ StopInv /\ NeverSendsOnClosed /\ finishedOk \in BOOLEAN
      /\ sending \in [UpdateType -> Nat]
  BY DEF ConfirmerInv, TypeOK, SeqTypeOK, PosterTypeOK
<1>1. CASE StartConfirmerTask
  BY <1>1 DEF StartConfirmerTask
<1>2. CASE ReadUpdate
  BY <1>0, <1>2 DEF ReadUpdate, stopVars
<1>3. CASE StopConfirmerTask
  BY <1>3 DEF StopConfirmerTask
<1>4. CASE TaskEnded
  BY <1>4 DEF TaskEnded
<1>5. CASE CancelConfirmationPolling
  BY <1>0, <1>5 DEF CancelConfirmationPolling, StopInv, stopVars
<1>6. CASE PutConfirmationResult
  BY <1>6 DEF PutConfirmationResult, posterVars
<1>7. CASE ~Run
  <2>1. UNCHANGED <<seqpc, running, finishedOk>>
    BY <1>7, OthersFrame DEF seqVars, stopVars
  <2>2. ASSUME seqpc = "idle" PROVE chanUpdate' = <<>>
    <3>1. \A u \in UpdateType : sending[u] = 0
      BY <1>0, <2>2 DEF StopInv, NeverSendsOnClosed
    <3>2. ASSUME NEW u \in UpdateType PROVE ~PosterSends(u)
      BY <3>1 DEF PosterSends
    <3> QED BY <1>7, <2>2, <3>2, ChanFrame
  <2> QED BY <2>1, <2>2
<1> QED BY <1>1, <1>2, <1>3, <1>4, <1>5, <1>6, <1>7 DEF Run

\* How many reports are on their way is a number.
LEMMA PendingType ==
  ASSUME TypeOK
  PROVE  /\ Pending \in Nat
         /\ waiting["confirm"] \in Nat /\ sending["confirm"] \in Nat
         /\ chanUpdate = <<"confirm">> => Pending > 0
<1> QED BY DEF TypeOK, PosterTypeOK, UpdateType, Pending

\* The channel holds one update at most.
LEMMA OneUpdate == TypeOK /\ chanUpdate # <<>> => chanUpdate = <<Head(chanUpdate)>>
<1> SUFFICES ASSUME TypeOK, chanUpdate # <<>> PROVE chanUpdate = <<Head(chanUpdate)>>
  OBVIOUS
<1>1. chanUpdate \in Seq(UpdateType) /\ Len(chanUpdate) <= 1
  BY DEF TypeOK, PosterTypeOK
<1>2. Len(chanUpdate) \in Nat \ {0}
  BY <1>1, EmptySeq
<1>3. Len(chanUpdate) = 1
  BY <1>1, <1>2
<1>4. PICK u \in UpdateType : chanUpdate = <<u>>
  BY <1>1, <1>3, LenProperties
<1> QED BY <1>4

\* The sequence does what the promise says of it.
LEMMA RunKeepsPromise ==
  ASSUME ConfirmerInv, ReadInv, Run
  PROVE  [Promised!Next]_(Promised!taskVars)
<1>0. /\ TypeOK /\ StopInv /\ finishedOk \in BOOLEAN
      /\ waiting["confirm"] \in Nat /\ sending["confirm"] \in Nat
  BY PendingType DEF ConfirmerInv, TypeOK, SeqTypeOK
<1> USE DEF Promised!Next, Promised!taskVars
<1>1. CASE StartConfirmerTask
  <2>1. Phase = "idle" /\ Phase' = "running"
    BY <1>1 DEF StartConfirmerTask, Phase
  <2>2. UNCHANGED Pending /\ UNCHANGED Reported
    BY <1>1 DEF StartConfirmerTask, Pending, Reported, ReadInv
  <2>3. Promised!Start
    BY <1>1, <2>1, <2>2 DEF StartConfirmerTask, Promised!Start
  <2> QED BY <2>3
<1>2. CASE ReadUpdate
  <2>1. /\ UNCHANGED <<task, bundleHash, succeeded, confirmed>>
        /\ UNCHANGED Reported
        /\ Phase # "idle" /\ Phase' # "idle" /\ UNCHANGED running
    BY <1>2 DEF ReadUpdate, Reported, Phase, stopVars
  <2>2. chanUpdate' = <<>> /\ UNCHANGED <<waiting, sending>> /\ <<>> # <<"confirm">>
    BY <1>2 DEF ReadUpdate
  <2>3. chanUpdate = <<Head(chanUpdate)>>
    BY <1>0, <1>2, OneUpdate DEF ReadUpdate
  <2>4. CASE Head(chanUpdate) = "confirm"
    <3>1. chanUpdate = <<"confirm">>
      BY <2>3, <2>4
    <3>2. Pending > 0 /\ Pending' = Pending - 1
      BY <1>0, <2>2, <3>1 DEF Pending
    <3>3. CASE finishedOk
      <4>1. Phase = "ended" /\ Phase' = "ended" /\ UNCHANGED finishedOk
        BY <1>2, <2>1, <3>3 DEF ReadUpdate, Phase, ReadInv
      <4> QED BY <2>1, <3>2, <4>1 DEF Promised!LoseReport
    <3>4. CASE ~finishedOk
      <4>1. finishedOk' = TRUE /\ Phase' = "ended"
        BY <1>2, <2>4, <3>4 DEF ReadUpdate, Phase
      <4> QED BY <2>1, <3>2, <3>4, <4>1 DEF Promised!TakeReport
    <3> QED BY <3>3, <3>4
  <2>5. CASE Head(chanUpdate) # "confirm"
    <3>1. chanUpdate # <<"confirm">>
      BY <2>5
    <3>2. UNCHANGED Pending /\ UNCHANGED finishedOk
      BY <1>0, <1>2, <2>2, <2>5, <3>1 DEF Pending, ReadUpdate
    <3>3. UNCHANGED Phase \/ (Phase = "running" /\ Phase' = "ended")
      BY <1>2, <2>1 DEF ReadUpdate, Phase
    <3> QED BY <2>1, <3>2, <3>3 DEF Promised!GiveUp
  <2> QED BY <2>4, <2>5
<1>3. CASE StopConfirmerTask
  BY <1>3 DEF StopConfirmerTask, Phase, Reported, Pending, posterVars, monVars
<1>4. CASE TaskEnded
  BY <1>4 DEF TaskEnded, Phase, Reported, Pending, posterVars, monVars
<1>5. CASE CancelConfirmationPolling
  BY <1>0, <1>5
     DEF CancelConfirmationPolling, Phase, Reported, Pending, posterVars, stopVars, StopInv
<1>6. CASE PutConfirmationResult
  <2>1. Phase = "ended" /\ Phase' = "idle"
    BY <1>0, <1>6 DEF PutConfirmationResult, Phase, StopInv
  <2>2. UNCHANGED Pending /\ UNCHANGED Reported
    BY <1>6 DEF PutConfirmationResult, Pending, Reported, posterVars, monVars
  <2>3. Promised!Finish
    BY <1>6, <2>1, <2>2 DEF PutConfirmationResult, Promised!Finish
  <2> QED BY <2>3
<1> QED BY <1>1, <1>2, <1>3, <1>4, <1>5, <1>6 DEF Run

\* A confirmed bundle is reported to the running task, and to no other.
LEMMA ConfirmKeepsPromise ==
  ASSUME ConfirmerInv, NEW b \in Bundle, callbacks[b] # {}, b \in confirmed, Confirm(b),
         UNCHANGED <<seqVars, stopVars, confirmed>>
  PROVE  Promised!Report
<1>0. /\ TypeOK /\ StopInv /\ CallInv
      /\ callbacks[b] \subseteq Task /\ fired \in [Task -> Nat]
      /\ waiting["confirm"] \in Nat /\ sending["confirm"] \in Nat
      /\ "confirm" \in UpdateType
  BY PendingType DEF ConfirmerInv, TypeOK, MonTypeOK, UpdateType
<1>1. callbacks[b] = {task} /\ b = bundleHash[task] /\ task \in Task /\ fired[task] = 0
  BY <1>0 DEF CallInv
<1>2. Phase # "idle" /\ UNCHANGED Phase
  BY <1>0 DEF Phase, StopInv, CallInv, seqVars, stopVars
<1>3. Reported' = Reported \cup {task} /\ task \notin Reported
  <2>1. fired' = [t \in Task |-> IF t = task THEN 1 ELSE fired[t]]
    BY <1>0, <1>1 DEF Confirm
  <2> QED BY <1>0, <1>1, <2>1 DEF Reported
<1>4. Pending' = Pending + 1
  <2>1. Cardinality(callbacks[b]) = 1
    BY <1>1, FS_Singleton
  <2>2. waiting'["confirm"] = waiting["confirm"] + 1 /\ UNCHANGED <<sending, chanUpdate>>
    BY <1>0, <2>1 DEF Confirm
  <2> QED BY <1>0, <2>2 DEF Pending
<1> QED BY <1>1, <1>2, <1>3, <1>4 DEF Promised!Report, seqVars

\* The posters, the routines, the monitor and the tangle do what the promise allows.
LEMMA OthersKeepPromise ==
  ASSUME ConfirmerInv, [Next]_vars, ~Run
  PROVE  [Promised!Next]_(Promised!taskVars)
<1>0. /\ TypeOK /\ StopInv /\ waiting \in [UpdateType -> Nat] /\ sending \in [UpdateType -> Nat]
      /\ waiting["confirm"] \in Nat /\ sending["confirm"] \in Nat
      /\ "confirm" \in UpdateType
  BY PendingType DEF ConfirmerInv, TypeOK, PosterTypeOK, UpdateType
<1>1. UNCHANGED <<seqVars, stopVars>> /\ UNCHANGED Phase
      /\ UNCHANGED <<task, bundleHash, finishedOk, succeeded>>
  BY OthersFrame DEF Phase, seqVars, stopVars
<1> USE DEF Promised!Next, Promised!taskVars
<1>2. CASE UNCHANGED vars
  BY <1>1, <1>2 DEF vars, monVars, posterVars, Reported, Pending
<1>3. ASSUME NEW u \in UpdateType, PosterLocks(u)
      PROVE  [Promised!Next]_(Promised!taskVars)
  <2>1. UNCHANGED <<confirmed, chanUpdate>> /\ UNCHANGED Reported
    BY <1>3 DEF PosterLocks, monVars, Reported
  <2>2. CASE u # "confirm"
    <3>1. UNCHANGED Pending
      BY <1>0, <1>3, <2>2 DEF PosterLocks, Pending
    <3> QED BY <1>1, <2>1, <3>1
  <2>3. CASE u = "confirm" /\ running
    <3>1. /\ waiting'["confirm"] = waiting["confirm"] - 1
          /\ sending'["confirm"] = sending["confirm"] + 1
      BY <1>0, <1>3, <2>3 DEF PosterLocks
    <3>2. UNCHANGED Pending
      BY <1>0, <2>1, <3>1 DEF Pending
    <3> QED BY <1>1, <2>1, <3>2
  <2>4. CASE u = "confirm" /\ ~running
    <3>1. waiting["confirm"] > 0 /\ waiting'["confirm"] = waiting["confirm"] - 1
          /\ UNCHANGED sending
      BY <1>0, <1>3, <2>4 DEF PosterLocks
    <3>2. Pending > 0 /\ Pending' = Pending - 1
      BY <1>0, <2>1, <3>1 DEF Pending
    <3>3. Phase # "running"
      BY <2>4 DEF Phase
    <3> QED BY <1>1, <2>1, <3>2, <3>3 DEF Promised!LoseReport
  <2> QED BY <2>2, <2>3, <2>4
<1>4. ASSUME NEW u \in UpdateType, PosterSends(u)
      PROVE  [Promised!Next]_(Promised!taskVars)
  <2>1. UNCHANGED <<confirmed, waiting>> /\ UNCHANGED Reported
        /\ chanUpdate = <<>> /\ chanUpdate' = <<u>> /\ sending' = [sending EXCEPT ![u] = @ - 1]
    BY <1>4 DEF PosterSends, monVars, Reported
  <2>2. UNCHANGED Pending
    <3>1. CASE u = "confirm"
      BY <1>0, <2>1, <3>1 DEF Pending
    <3>2. CASE u # "confirm"
      BY <1>0, <2>1, <3>2 DEF Pending
    <3> QED BY <3>1, <3>2
  <2> QED BY <1>1, <2>1, <2>2
<1>5. ASSUME NEW r \in Routine, RoutineStep(r) \/ RoutineEnds(r)
      PROVE  [Promised!Next]_(Promised!taskVars)
  <2>1. UNCHANGED <<confirmed, sending, chanUpdate>> /\ UNCHANGED Reported
    BY <1>5, RoutineFrame DEF monVars, Reported
  <2>2. waiting'["confirm"] = waiting["confirm"]
    BY <1>0, <1>5 DEF RoutineStep, RoutineStarts, RoutineWakes, RoutineEnds, CheckAnswered,
         CheckStored, NothingToDo, PromoteBegins, PromoteEnds, ReattachBegins, ReattachRefused, ReattachEnds, Post, posterVars
  <2>3. UNCHANGED Pending
    BY <2>1, <2>2 DEF Pending
  <2> QED BY <1>1, <2>1, <2>3
<1>6. ASSUME NEW b \in Bundle, CheckBundle(b) \/ NanozmqMsg(b)
      PROVE  [Promised!Next]_(Promised!taskVars)
  <2>1. CASE callbacks[b] # {} /\ b \in confirmed /\ Confirm(b) /\ UNCHANGED confirmed
    BY <1>1, <2>1, ConfirmKeepsPromise
  <2>2. CASE UNCHANGED <<posterVars, fired, confirmed>>
    <3>1. UNCHANGED Pending /\ UNCHANGED Reported
      BY <2>2 DEF posterVars, Pending, Reported
    <3> QED BY <1>1, <2>2, <3>1
  <2> QED BY <1>6, <2>1, <2>2 DEF CheckBundle, NanozmqMsg
<1>7. ASSUME NEW b \in Bundle, Confirmation(b)
      PROVE  [Promised!Next]_(Promised!taskVars)
  <2>1. UNCHANGED Pending /\ UNCHANGED Reported
    BY <1>7 DEF Confirmation, posterVars, monVars, Pending, Reported
  <2>2. Promised!Confirmation(b)
    BY <1>1, <1>7, <2>1 DEF Confirmation, Promised!Confirmation
  <2> QED BY <2>2
<1> QED BY <1>2, <1>3, <1>4, <1>5, <1>6, <1>7 DEF Next, Routine

\* The confirmer implements ConfirmerTask.
THEOREM KeepsTaskPromiseAlways == Spec => KeepsTaskPromise
<1>1. Init => ReadInv
  BY DEF Init, ReadInv
<1>2. Init => Promised!Init
  <2> SUFFICES ASSUME Init PROVE Promised!Init
    OBVIOUS
  <2>1. Phase = "idle" /\ Reported = {} /\ Pending = 0
    BY DEF Init, Phase, Reported, Pending, UpdateType
  <2> QED BY <2>1 DEF Init, Promised!Init, Promised!Task, Task
<1>3. ConfirmerInv /\ ReadInv /\ [Next]_vars => [Promised!Next]_(Promised!taskVars)
  BY RunKeepsPromise, OthersKeepPromise
<1> QED BY <1>1, <1>2, <1>3, ReadStep, ConfirmerInvariant, PTL
        DEF Spec, KeepsTaskPromise, Promised!Spec

\* A success of the running task has been taken from the reports but is not
\* among the successes yet.
Taken == IF Phase # "idle" /\ finishedOk THEN 1 ELSE 0

SuccessInv ==
  /\ \A t \in succeeded : t < task \/ (t = task /\ Phase = "idle")
  /\ Cardinality(succeeded) + Pending + Taken <= Cardinality(Reported)
  /\ \A t \in Reported : bundleHash[t] \in confirmed

\* What the promise allows never takes more than was reported.
LEMMA SuccessStep ==
  TypeOK /\ SuccessInv /\ [Promised!Next]_(Promised!taskVars) => SuccessInv'
<1> SUFFICES ASSUME TypeOK, SuccessInv, [Promised!Next]_(Promised!taskVars)
             PROVE  SuccessInv'
  OBVIOUS
<1>0. /\ IsFiniteSet(succeeded) /\ IsFiniteSet(Reported)
      /\ Cardinality(succeeded) \in Nat /\ Cardinality(Reported) \in Nat
      /\ Pending \in Nat /\ task \in Nat /\ finishedOk \in BOOLEAN
      /\ \A t \in succeeded : t \in Nat
  <2>1. succeeded \subseteq Task /\ Reported \subseteq Task /\ Task \subseteq Nat
    BY ConfirmerAssumption DEF TypeOK, SeqTypeOK, Reported, Task
  <2>2. IsFiniteSet(succeeded) /\ IsFiniteSet(Reported)
    BY <2>1, FiniteRoutines, FS_Subset
  <2>3. task \in Nat /\ finishedOk \in BOOLEAN
    BY ConfirmerAssumption DEF TypeOK, SeqTypeOK
  <2> QED BY <2>1, <2>2, <2>3, PendingType, FS_CardinalityType
<1> USE DEF SuccessInv
<1>1. CASE Promised!Start
  <2>1. Phase = "idle" /\ Phase' = "running" /\ finishedOk' = FALSE /\ task' = task + 1
        /\ UNCHANGED <<bundleHash, succeeded, confirmed>>
        /\ UNCHANGED Reported /\ UNCHANGED Pending
    BY <1>1 DEF Promised!Start
  <2>2. Taken = 0 /\ Taken' = 0
    BY <2>1 DEF Taken
  <2>3. \A t \in succeeded' : t < task'
    BY <1>0, <2>1
  <2> QED BY <1>0, <2>1, <2>2, <2>3
<1>2. CASE Promised!Report
  <2>1. /\ task \notin Reported /\ bundleHash[task] \in confirmed
        /\ Reported' = Reported \cup {task} /\ Pending' = Pending + 1
        /\ UNCHANGED <<task, bundleHash, finishedOk, succeeded, confirmed>>
        /\ UNCHANGED Phase
    BY <1>2 DEF Promised!Report
  <2>2. UNCHANGED Taken /\ Taken \in Nat
    BY <2>1 DEF Taken
  <2>3. Cardinality(Reported') = Cardinality(Reported) + 1
    BY <1>0, <2>1, FS_AddElement
  <2> QED BY <1>0, <2>1, <2>2, <2>3
<1>3. CASE Promised!TakeReport
  <2>1. /\ Phase # "idle" /\ ~finishedOk /\ Pending > 0 /\ Pending' = Pending - 1
        /\ finishedOk' = TRUE /\ Phase' = "ended"
        /\ UNCHANGED <<task, bundleHash, succeeded, confirmed>> /\ UNCHANGED Reported
    BY <1>3 DEF Promised!TakeReport
  <2>2. Taken = 0 /\ Taken' = 1
    BY <2>1 DEF Taken
  <2> QED BY <1>0, <2>1, <2>2
<1>4. CASE Promised!LoseReport
  <2>1. /\ Pending > 0 /\ Pending' = Pending - 1
        /\ UNCHANGED <<task, bundleHash, finishedOk, succeeded, confirmed>>
        /\ UNCHANGED Phase /\ UNCHANGED Reported
    BY <1>4 DEF Promised!LoseReport
  <2>2. UNCHANGED Taken /\ Taken \in Nat
    BY <2>1 DEF Taken
  <2> QED BY <1>0, <2>1, <2>2
<1>5. CASE Promised!GiveUp
  <2>1. /\ Phase = "running" /\ Phase' = "ended"
        /\ UNCHANGED <<task, bundleHash, finishedOk, succeeded, confirmed>>
        /\ UNCHANGED Reported /\ UNCHANGED Pending
    BY <1>5 DEF Promised!GiveUp
  <2>2. UNCHANGED Taken
    BY <2>1 DEF Taken
  <2> QED BY <2>1, <2>2
<1>6. CASE Promised!Finish
  <2>1. /\ Phase = "ended" /\ Phase' = "idle"
        /\ succeeded' = IF finishedOk THEN succeeded \cup {task} ELSE succeeded
        /\ UNCHANGED <<task, bundleHash, finishedOk, confirmed>>
        /\ UNCHANGED Reported /\ UNCHANGED Pending
    BY <1>6 DEF Promised!Finish
  <2>2. Taken = (IF finishedOk THEN 1 ELSE 0) /\ Taken' = 0
    BY <2>1 DEF Taken
  <2>3. task \notin succeeded
    BY <1>0, <2>1
  <2>4. Cardinality(succeeded') = Cardinality(succeeded) + Taken
    <3>1. CASE finishedOk
      BY <1>0, <2>1, <2>2, <2>3, <3>1, FS_AddElement
    <3>2. CASE ~finishedOk
      BY <1>0, <2>1, <2>2, <3>2
    <3> QED BY <3>1, <3>2
  <2>5. Cardinality(succeeded') + Pending' + Taken' <= Cardinality(Reported')
    BY <1>0, <2>1, <2>2, <2>4
  <2> QED BY <2>1, <2>5
<1>7. ASSUME NEW b \in Bundle, Promised!Confirmation(b)
      PROVE  SuccessInv'
  <2>1. /\ confirmed \subseteq confirmed'
        /\ UNCHANGED <<task, bundleHash, finishedOk, succeeded>>
        /\ UNCHANGED Phase /\ UNCHANGED Reported /\ UNCHANGED Pending
    BY <1>7 DEF Promised!Confirmation
  <2>2. UNCHANGED Taken
    BY <2>1 DEF Taken
  <2> QED BY <2>1, <2>2
<1>8. CASE UNCHANGED Promised!taskVars
  <2>1. /\ UNCHANGED <<task, bundleHash, finishedOk, succeeded, confirmed>>
        /\ UNCHANGED Phase /\ UNCHANGED Reported /\ UNCHANGED Pending
    BY <1>8 DEF Promised!taskVars
  <2>2. UNCHANGED Taken
    BY <2>1 DEF Taken
  <2> QED BY <2>1, <2>2
<1> QED BY <1>1, <1>2, <1>3, <1>4, <1>5, <1>6, <1>7, <1>8 DEF Promised!Next

\* There are never more successes than confirmations reported, each of a bundle
\* confirmed by the tangle: it follows from the promise alone.
THEOREM SuccessTakesReportAlways == Spec => []SuccessTakesReport
<1>1. Init => SuccessInv
  <2> SUFFICES ASSUME Init PROVE SuccessInv
    OBVIOUS
  <2>1. succeeded = {} /\ Reported = {} /\ Pending = 0 /\ Taken = 0
    BY DEF Init, Reported, Pending, UpdateType, Phase, Taken
  <2> QED BY <2>1, FS_EmptySet DEF SuccessInv
<1>2. TypeOK /\ SuccessInv => SuccessTakesReport
  <2> SUFFICES ASSUME TypeOK, SuccessInv PROVE SuccessTakesReport
    OBVIOUS
  <2>1. Taken \in Nat /\ Pending \in Nat
    BY PendingType DEF Taken
  <2>2. Cardinality(succeeded) \in Nat /\ Cardinality(Reported) \in Nat
    <3>1. succeeded \subseteq Task /\ Reported \subseteq Task
      BY DEF TypeOK, SeqTypeOK, Reported
    <3> QED BY <3>1, FiniteRoutines, FS_Subset, FS_CardinalityType
  <2>3. Cardinality(succeeded) + Pending <= Cardinality(Reported)
    BY <2>1, <2>2 DEF SuccessInv
  <2> QED BY <2>3 DEF SuccessInv, SuccessTakesReport
<1> QED BY <1>1, <1>2, SuccessStep, TypeCorrect, KeepsTaskPromiseAlways, PTL
        DEF Spec, KeepsTaskPromise, Promised!Spec
=============================================================================
