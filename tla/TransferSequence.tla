-------------------------- MODULE TransferSequence --------------------------
(***************************************************************************)
(* The travelling iotas of tbsender: the generator of                      *)
(* transfer_bundle_gen.go sends the balance of address index to address    *)
(* index + 1, hands the bundle to its sequence (bundle_gen.go,             *)
(* sequence.go), waits for the result, saves the index and goes on.  The   *)
(* program may crash at any time and starts from the saved index.          *)
(*                                                                         *)
(* Nodes that answer are external: an answer that fails or lags behind the *)
(* tangle is a lapse, unless it only makes the program ask again.  Of the  *)
(* confirmer, which Confirmer models, there is the running task, and the   *)
(* callback that may be posted late.  The iotas are one unit, all other    *)
(* balances are left out.                                                  *)
(***************************************************************************)
EXTENDS Integers, FiniteSets

CONSTANTS
  Index0,      \* params.Index0
  MaxIndex,    \* the last address (a bound)
  MaxLapses,   \* how many answers fail or lag (a bound)
  MaxCrashes,  \* how often the program crashes (a bound)
  NoBundle

ASSUME SequenceAssumption ==
  /\ Index0 \in Nat /\ MaxIndex \in Nat /\ Index0 <= MaxIndex
  /\ MaxLapses \in Nat /\ MaxCrashes \in Nat
  /\ NoBundle \notin Nat \X Nat

Address == Index0..MaxIndex

VARIABLES
  pc,                 \* where runGenerator is
  index,              \* gen.index
  saved,              \* the file of the last index, as Atoi reads it, or 0
  bundle,             \* bundleData
  bundlesInProgress,  \* of the bundle source
  task,               \* the bundle the sequence confirms
  registered,         \* the monitor has the bundle of the task
  posters,            \* callbacks of the monitor that have not posted yet
  reported,           \* a confirmation is in the channel of the task
  result,             \* on the way from the sequence to the generator
  purse,              \* external: the address that holds the iotas
  sent,               \* external: the bundles on the tangle, <<address, number>>
  confirmed,          \* external: those confirmed
  denied,             \* external: addresses the nodes forgot were spent from
  lapses, crashes     \* history, for the bounds

genVars == <<pc, index, saved, bundle>>
seqVars == <<bundlesInProgress, task, registered, posters, reported, result>>
tangle == <<purse, sent, confirmed, denied>>
vars == <<genVars, seqVars, tangle, lapses, crashes>>

Init ==
  /\ pc = "check" /\ index = Index0 /\ saved = 0 /\ bundle = NoBundle
  /\ bundlesInProgress = {} /\ task = NoBundle /\ registered = FALSE
  /\ posters = 0 /\ reported = FALSE /\ result = "none"
  /\ purse = Index0 /\ sent = {} /\ confirmed = {} /\ denied = {}
  /\ lapses = 0 /\ crashes = 0

-----------------------------------------------------------------------------
\* The file of the last index is opened without truncation: a shorter number
\* leaves the end of a longer one.

Powers == <<0, 10, 100, 1000, 10000, 100000>>

Width(n) == Cardinality({w \in DOMAIN Powers : n >= Powers[w]})

Overwritten(old, n) ==
  IF Width(n) >= Width(old) THEN n
  ELSE LET rest == Powers[Width(old) - Width(n) + 1]
       IN  n * rest + (old % rest)

\* The index saved, unless the configured one is larger.
Resumed == IF saved > Index0 THEN saved ELSE Index0

-----------------------------------------------------------------------------
\* What nodes answer.

Lapse ==
  /\ lapses < MaxLapses
  /\ lapses' = lapses + 1

\* Whether an address has a balance: a node that lags knows of no balance that
\* has not been there yet.
BalanceAnswer(addr, balance) ==
  /\ balance => addr <= purse
  /\ IF balance = (addr = purse) THEN UNCHANGED lapses ELSE Lapse

Bundles(addr) == {b \in sent : b[1] = addr}

Spent(addr) == Bundles(addr) # {}

\* Nodes that changed their version deny what was spent before.
SpentAnswer(addr) == Spent(addr) /\ addr \notin denied

-----------------------------------------------------------------------------
\* The generator: runGenerator.

\* saveIndex, whose error is ignored, and the next index.
MoveOn ==
  /\ index < MaxIndex
  /\ saved' \in {saved, Overwritten(saved, index)}
  /\ index' = index + 1

\* An address without balance is skipped, spent from or not: the lines that
\* are commented out.
Mut_CheckBalance ==
  /\ pc = "check"
  /\ \E balance \in BOOLEAN :
       /\ BalanceAnswer(index, balance)
       /\ \/ balance /\ pc' = "find" /\ UNCHANGED <<index, saved>>
          \/ ~balance /\ MoveOn /\ UNCHANGED pc
  /\ UNCHANGED <<bundle, seqVars, tangle, crashes>>

\* An address with no balance is passed if it was spent from, and waited for
\* otherwise.
CheckBalance ==
  /\ pc = "check"
  /\ \E balance \in BOOLEAN :
       /\ BalanceAnswer(index, balance)
       /\ \/ balance /\ pc' = "find" /\ UNCHANGED <<index, saved>>
          \/ ~balance /\ SpentAnswer(index) /\ MoveOn /\ UNCHANGED pc
  /\ UNCHANGED <<bundle, seqVars, tangle, crashes>>

\* Only the bundles that are confirmed are taken for existing ones.
Mut_FindBundleToConfirm ==
  /\ pc = "find" /\ index < MaxIndex
  /\ \/ Bundles(index) \cap confirmed = {} /\ pc' = "send" /\ UNCHANGED bundle
     \/ bundle' \in Bundles(index) \cap confirmed /\ pc' = "put"
  /\ UNCHANGED <<index, saved, seqVars, tangle, lapses, crashes>>

\* Any bundle that spends from the address may have the latest tail.  A lapse
\* is a bundle the node does not know or knows in part, a failed second search,
\* whose error is not looked at, or a confirmation the node does not know.
FindBundleToConfirm ==
  /\ pc = "find" /\ index < MaxIndex
  /\ LET unknown == Bundles(index) \cap confirmed = {} IN
     \/ /\ pc' = "send" /\ UNCHANGED bundle
        /\ IF unknown /\ Spent(index) THEN Lapse ELSE UNCHANGED lapses
     \/ /\ pc' = "put" /\ bundle' \in Bundles(index)
        /\ IF unknown THEN UNCHANGED lapses ELSE Lapse
  /\ UNCHANGED <<index, saved, seqVars, tangle, crashes>>

\* sendToNext asks for the balance again.  An error after the broadcast, or an
\* address not spent in time, sends the generator back with the bundle sent.
SendToNext ==
  /\ pc = "send"
  /\ \/ \E balance \in BOOLEAN :
          /\ BalanceAnswer(index, balance)
          /\ IF balance
             THEN LET b == <<index, Cardinality(Bundles(index)) + 1>> IN
                  /\ sent' = sent \cup {b}
                  /\ \/ pc' = "put" /\ bundle' = b
                     \/ pc' = "check" /\ UNCHANGED bundle
             ELSE pc' = "check" /\ UNCHANGED <<sent, bundle>>
     \/ Lapse /\ pc' = "check" /\ UNCHANGED <<sent, bundle>>
  /\ UNCHANGED <<index, saved, seqVars, purse, confirmed, denied, crashes>>

\* PutAndWaitForResult: a bundle in progress is refused, which the generator
\* takes for a failure; otherwise the sequence takes it and starts a task.
PutNextBundleToConfirm ==
  /\ pc = "put"
  /\ \/ /\ bundle \in bundlesInProgress
        /\ pc' = "check"
        /\ UNCHANGED seqVars
     \/ /\ bundle \notin bundlesInProgress
        /\ task = NoBundle /\ result = "none"
        /\ pc' = "wait"
        /\ bundlesInProgress' = bundlesInProgress \cup {bundle}
        /\ task' = bundle /\ registered' = TRUE /\ reported' = FALSE
        /\ UNCHANGED <<posters, result>>
  /\ UNCHANGED <<index, saved, bundle, tangle, lapses, crashes>>

\* processConfirmation calls the callback, and the generator goes on.
ProcessConfirmation ==
  /\ pc = "wait" /\ result # "none"
  /\ pc' = "check"
  /\ result' = "none"
  /\ bundlesInProgress' = bundlesInProgress \ {bundle}
  /\ IF result = "success" THEN MoveOn ELSE UNCHANGED <<index, saved>>
  /\ UNCHANGED <<bundle, task, registered, posters, reported, tangle, lapses, crashes>>

RunGenerator ==
  CheckBalance \/ FindBundleToConfirm \/ SendToNext
    \/ PutNextBundleToConfirm \/ ProcessConfirmation

-----------------------------------------------------------------------------
\* The sequence and its confirmer.

MonitorConfirms ==
  /\ registered /\ task \in confirmed
  /\ registered' = FALSE
  /\ posters' = posters + 1
  /\ UNCHANGED <<genVars, bundlesInProgress, task, reported, result, tangle, lapses, crashes>>

\* The callback posts to the task that runs, whichever it is, or to none.
PostConfirmerUpdate ==
  /\ posters > 0
  /\ posters' = posters - 1
  /\ reported' = (task # NoBundle)
  /\ UNCHANGED <<genVars, bundlesInProgress, task, registered, result, tangle, lapses, crashes>>

\* The task is stopped, its registration cancelled, and the rest of its channel
\* read before the result is returned.
EndTask(success) ==
  /\ result' = IF success THEN "success" ELSE "failure"
  /\ task' = NoBundle /\ registered' = FALSE /\ reported' = FALSE

ReadConfirmation ==
  /\ task # NoBundle /\ reported
  /\ EndTask(TRUE)
  /\ UNCHANGED <<genVars, bundlesInProgress, posters, tangle, lapses, crashes>>

\* The sequence ends the task but returns no result for it.
Mut_CheckEnoughBalance ==
  /\ task # NoBundle
  /\ BalanceAnswer(task[1], FALSE)
  /\ task' = NoBundle /\ registered' = FALSE /\ reported' = FALSE
  /\ UNCHANGED <<genVars, bundlesInProgress, result, posters, tangle, crashes>>

\* Between other updates the sequence finds the address empty.
CheckEnoughBalance ==
  /\ task # NoBundle
  /\ BalanceAnswer(task[1], FALSE)
  /\ EndTask(reported)
  /\ UNCHANGED <<genVars, bundlesInProgress, posters, tangle, crashes>>

RunSequence == ReadConfirmation \/ CheckEnoughBalance

-----------------------------------------------------------------------------
\* The tangle confirms one of the bundles that spend the iotas, promoted or not.
Confirmation(b) ==
  /\ b \in sent /\ b[1] = purse /\ purse < MaxIndex
  /\ confirmed' = confirmed \cup {b}
  /\ purse' = purse + 1
  /\ UNCHANGED <<genVars, seqVars, sent, denied, lapses, crashes>>

\* The nodes change their version and forget which addresses were spent from.
VersionChange ==
  /\ denied # {b[1] : b \in sent}
  /\ denied' = {b[1] : b \in sent}
  /\ UNCHANGED <<genVars, seqVars, purse, sent, confirmed, lapses, crashes>>

\* The program is restarted: the files and the tangle are what is left.
Crash ==
  /\ crashes < MaxCrashes
  /\ crashes' = crashes + 1
  /\ pc' = "check" /\ index' = Resumed /\ bundle' = NoBundle
  /\ bundlesInProgress' = {} /\ task' = NoBundle /\ registered' = FALSE
  /\ posters' = 0 /\ reported' = FALSE /\ result' = "none"
  /\ UNCHANGED <<saved, tangle, lapses>>

Next ==
  \/ RunGenerator \/ RunSequence
  \/ MonitorConfirms \/ PostConfirmerUpdate
  \/ \E b \in sent : Confirmation(b)
  \/ VersionChange \/ Crash

Spec == Init /\ [][Next]_vars

\* Goroutines run, and a bundle that is promoted is confirmed if it can be.
FairSpec ==
  /\ Spec
  /\ WF_vars(RunGenerator) /\ WF_vars(RunSequence)
  /\ WF_vars(MonitorConfirms) /\ WF_vars(PostConfirmerUpdate)
  /\ WF_vars(\E b \in sent : b = task /\ Confirmation(b))

-----------------------------------------------------------------------------
\* Every variable has its type; the file never holds but an index.
TypeOK ==
  /\ pc \in {"check", "find", "send", "put", "wait"}
  /\ index \in Address
  /\ saved \in Address \cup {0}
  /\ bundle \in sent \cup {NoBundle} /\ task \in sent \cup {NoBundle}
  /\ bundlesInProgress \subseteq sent
  /\ registered \in BOOLEAN /\ reported \in BOOLEAN /\ posters \in Nat
  /\ result \in {"none", "success", "failure"}
  /\ purse \in Address
  /\ sent \subseteq Address \X Nat /\ confirmed \subseteq sent
  /\ denied \subseteq Address
  /\ lapses \in 0..MaxLapses /\ crashes \in 0..MaxCrashes

\* Whatever nodes answered, whatever the confirmer reported and whenever the
\* program crashed, a restart resumes at the address that holds the iotas or
\* before it, so that it finds them.
RestartFindsIotas == Resumed <= purse

\* The generator never runs away from the iotas: after a wrong success or a
\* wrong balance it waits at the next address.
WaitsForIotas == index <= purse + 1

\* A second bundle that spends the same address takes a lapse of a node: no
\* crash, error or retry of the program makes one.
DoubleSpendTakesLapse ==
  Cardinality(sent) <= Cardinality({b[1] : b \in sent}) + lapses

\* The generator stands at an address the iotas have left and waits for them:
\* the nodes say that nothing was spent from it.
StuckAtDenied == pc = "check" /\ index < purse /\ index \in denied

\* The iotas travel: whatever failed, the generator passes each address, unless
\* it has overtaken the iotas and nobody promotes the bundle that would move
\* them, or is stuck at an address whose spending the nodes deny, as the comment
\* in runGenerator tells.
Travels ==
  \A i \in Address \ {MaxIndex} :
    index = i ~> index > i \/ index > purse \/ StuckAtDenied
=============================================================================
