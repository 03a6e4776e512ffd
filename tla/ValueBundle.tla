---------------------------- MODULE ValueBundle ----------------------------
(***************************************************************************)
(* The value bundles of tanglebeat/inputpart/valuebundle.go.  The filter's *)
(* goroutine collects the value transactions of a bundle, in any order and *)
(* as often as they are reattached, and marks the bundle confirmed when a  *)
(* confirmation of one of its transactions passes.  Another goroutine      *)
(* values the confirmed bundles every four seconds and adds what is new to *)
(* two counters.                                                           *)
(*                                                                         *)
(* A critical section of the cache's mutex is one step, and so is what the *)
(* loop does after it.  The cache forgets a bundle at any time, which is   *)
(* more than RetentionCache allows.  An index counts from 1; one that is   *)
(* no number is read as the first, so that such a message may be a stray.  *)
(* Values stay far below 2^63.  Messages that are too short or have an     *)
(* index out of bounds change nothing and are left out, and so is the      *)
(* negative index that ends the program with a panic.                      *)
(***************************************************************************)
EXTENDS Integers, Sequences, FiniteSets, FiniteSetsExt, Functions

CONSTANTS
  Addr,        \* addresses
  Bundle,      \* bundle hashes, as ShortHash leaves them
  Content,     \* the transactions of each bundle
  Stray,       \* value transactions that contradict Content
  NoAddr,      \* the empty string
  NoBundle,
  MaxForgets   \* how many bundles are forgotten (a bound)

ASSUME BundleAssumption ==
  /\ NoAddr \notin Addr /\ NoBundle \notin Bundle /\ IsFiniteSet(Bundle)
  /\ Content \in [Bundle -> Seq([addr : Addr, value : Int])]
  /\ \A m \in Stray : /\ m.bundle \in Bundle /\ m.addr \in Addr /\ m.value \in Int
                      /\ m.lastIdx \in Nat /\ m.idx \in 1..m.lastIdx
  /\ MaxForgets \in Nat

ContentMsg(b, i) ==
  [bundle |-> b, idx |-> i, lastIdx |-> Len(Content[b]),
   addr |-> Content[b][i].addr, value |-> Content[b][i].value]

\* The messages that reach updateBundleData: the value of a tx is not zero.
Feed ==
  {m \in Stray \cup UNION {{ContentMsg(b, i) : i \in DOMAIN Content[b]} : b \in Bundle} :
     m.value # 0}

VARIABLES
  bundles,     \* transferBundleCache, by hash
  marking,     \* the bundle markConfirmed has found, between its two locks
  volume,      \* zmqMetricsTransferVolumeCounter
  transfers,   \* zmqMetricsTransferCounter
  toAdd,       \* what the loop's turn is about to add to the two
  forgotten    \* history: what was forgotten

vars == <<bundles, marking, volume, transfers, toAdd, forgotten>>

Slot == [addr : Addr \cup {NoAddr}, value : Int]
Unfilled == [addr |-> NoAddr, value |-> 0]

\* transferBundleData; numUpdate is never read.
Data == [entries : Seq(Slot), inconsistent : BOOLEAN, counted : BOOLEAN,
         postedValue : Nat, posted : BOOLEAN, confirmed : BOOLEAN]

Cached == DOMAIN bundles

Nothing == [value |-> 0, bundles |-> 0]

Init ==
  /\ bundles = <<>>
  /\ marking = NoBundle
  /\ volume = 0
  /\ transfers = 0
  /\ toAdd = Nothing
  /\ forgotten = [bundles |-> 0, counted |-> 0, posted |-> 0]

-----------------------------------------------------------------------------
\* The value of a bundle: sumBundle.

Total(es, I) == MapThenSumSet(LAMBDA i : es[i].value, I)

\* What an address gains or loses by the bundle.
Net(es, a) == Total(es, {i \in DOMAIN es : es[i].addr = a})

\* What the sender is assumed to have sent back to itself.
Reminder(es) ==
  LET last == es[Len(es)]
  IN  IF last.value > 0 /\ Net(es, last.addr) # 0 THEN last.value ELSE 0

\* What moves to addresses that gain, less the reminder, once all is balanced.
SumEntries(es) ==
  LET gains == {i \in DOMAIN es : es[i].value > 0 /\ Net(es, es[i].addr) > 0}
      moved == Total(es, gains) - Reminder(es)
  IN  IF Total(es, DOMAIN es) = 0 /\ moved > 0 THEN moved ELSE 0

SumBundle(data) == IF data.posted THEN data.postedValue ELSE SumEntries(data.entries)

-----------------------------------------------------------------------------
\* The filter's goroutine: updateBundleData and markConfirmed.

NewData(m) ==
  [entries |-> [i \in 1..m.lastIdx |->
                  IF i = m.idx THEN [addr |-> m.addr, value |-> m.value] ELSE Unfilled],
   inconsistent |-> FALSE, counted |-> FALSE, postedValue |-> 0,
   posted |-> FALSE, confirmed |-> FALSE]

\* The cached value is not dropped.
Mut_Filled(data, m) ==
  [data EXCEPT !.entries[m.idx] = [addr |-> m.addr, value |-> m.value]]

Filled(data, m) ==
  [data EXCEPT !.entries[m.idx] = [addr |-> m.addr, value |-> m.value],
               !.posted = FALSE]

\* An entry filled before must be the same; then only posted changes.
Updated(data, m) ==
  LET old == data.entries[m.idx] IN
  IF m.idx \notin DOMAIN data.entries \/ data.inconsistent THEN data
  ELSE IF old = Unfilled \/ old = [addr |-> m.addr, value |-> m.value]
  THEN Filled(data, m)
  ELSE [data EXCEPT !.inconsistent = TRUE]

UpdateBundleData(m) ==
  /\ marking = NoBundle
  /\ bundles' = [b \in Cached \cup {m.bundle} |->
                   IF b # m.bundle THEN bundles[b]
                   ELSE IF b \in Cached THEN Updated(bundles[b], m) ELSE NewData(m)]
  /\ UNCHANGED <<marking, volume, transfers, toAdd, forgotten>>

\* markConfirmed finds the bundle, and lets the mutex go.
FindConfirmed(b) ==
  /\ marking = NoBundle
  /\ b \in Cached
  /\ marking' = b
  /\ UNCHANGED <<bundles, volume, transfers, toAdd, forgotten>>

\* It marks what it found, which the cache may have forgotten meanwhile.
MarkConfirmed ==
  /\ marking # NoBundle
  /\ marking' = NoBundle
  /\ bundles' = [b \in Cached |-> IF b = marking
                                  THEN [bundles[b] EXCEPT !.confirmed = TRUE]
                                  ELSE bundles[b]]
  /\ UNCHANGED <<volume, transfers, toAdd, forgotten>>

-----------------------------------------------------------------------------
\* The other goroutine: one turn of updateBundleMetricsLoop.

DeltaValue(b) ==
  IF bundles[b].confirmed THEN SumBundle(bundles[b]) - bundles[b].postedValue ELSE 0

Posting == {b \in Cached : DeltaValue(b) # 0}

Mut_NewConfirmedBundles == Posting

NewConfirmedBundles == {b \in Posting : ~bundles[b].counted}

\* The difference is stored for the value.
Mut_Posted(b) ==
  [bundles[b] EXCEPT !.counted = TRUE, !.posted = TRUE, !.postedValue = DeltaValue(b)]

Posted(b) ==
  [bundles[b] EXCEPT !.counted = TRUE, !.posted = TRUE, !.postedValue = SumBundle(bundles[b])]

\* Only the last bundle of the turn is added.
Mut_TotalNewConfirmedValue ==
  IF Posting = {} THEN 0 ELSE DeltaValue(CHOOSE b \in Posting : TRUE)

TotalNewConfirmedValue == SumFunction([b \in Posting |-> DeltaValue(b)])

\* Under the cache's mutex it posts what has a new value.
UpdateBundleMetrics ==
  /\ toAdd = Nothing
  /\ Posting # {}
  /\ bundles' = [b \in Cached |-> IF b \in Posting THEN Posted(b) ELSE bundles[b]]
  /\ toAdd' = [value |-> TotalNewConfirmedValue, bundles |-> Cardinality(NewConfirmedBundles)]
  /\ UNCHANGED <<marking, volume, transfers, forgotten>>

\* A counter only grows: what is below zero is not added.
Gain(v) == IF v > 0 THEN v ELSE 0

\* It adds to the counters without the mutex.
AddToCounters ==
  /\ toAdd # Nothing
  /\ volume' = volume + Gain(toAdd.value)
  /\ transfers' = transfers + toAdd.bundles
  /\ toAdd' = Nothing
  /\ UNCHANGED <<bundles, marking, forgotten>>

UpdateBundleMetricsLoop == UpdateBundleMetrics \/ AddToCounters

\* The cache drops the segment of a bundle.
Forget(b) ==
  /\ b \in Cached
  /\ forgotten.bundles < MaxForgets
  /\ forgotten' = [bundles |-> forgotten.bundles + 1,
                   counted |-> forgotten.counted + (IF bundles[b].counted THEN 1 ELSE 0),
                   posted |-> forgotten.posted + bundles[b].postedValue]
  /\ bundles' = Restrict(bundles, Cached \ {b})
  /\ UNCHANGED <<marking, volume, transfers, toAdd>>

ProcessValueTxMsg ==
  \/ \E m \in Feed : UpdateBundleData(m)
  \/ \E b \in Bundle : FindConfirmed(b)
  \/ MarkConfirmed

Next == ProcessValueTxMsg \/ UpdateBundleMetricsLoop \/ \E b \in Bundle : Forget(b)

Spec == Init /\ [][Next]_vars

\* The loop wakes from its sleep, and goes on.
FairSpec == Spec /\ WF_vars(UpdateBundleMetricsLoop)

-----------------------------------------------------------------------------
\* Every variable has its type.
TypeOK ==
  /\ Cached \subseteq Bundle /\ bundles \in [Cached -> Data]
  /\ marking \in Bundle \cup {NoBundle}
  /\ volume \in Nat /\ transfers \in Nat
  /\ toAdd \in [value : Int, bundles : Nat]
  /\ forgotten \in [bundles : 0..MaxForgets, counted : Nat, posted : Nat]

\* The value posted last, which sumBundle returns without computing it, is the
\* value of what is collected now, and the bundle was confirmed.
PostedIsCurrent ==
  \A b \in Cached : bundles[b].posted =>
    bundles[b].confirmed /\ bundles[b].postedValue = SumEntries(bundles[b].entries)

\* The volume counter is behind the total of the values posted, which
\* getValueConfirmationStats shows, by no more than what the turn of the loop
\* is about to add, and between two turns not at all; whatever bundles are
\* posted together, lose value again or are forgotten.
VolumeCoversPosted ==
  volume + Gain(toAdd.value)
    >= forgotten.posted + SumFunction([b \in Cached |-> bundles[b].postedValue])

\* The transfer counter, and what is about to be added to it, count a bundle
\* once, however often its value changes.
TransfersCountedOnce ==
  transfers + toAdd.bundles
    = forgotten.counted + Cardinality({b \in Cached : bundles[b].counted})

Complete(b) ==
  /\ b \in Cached /\ ~bundles[b].inconsistent
  /\ bundles[b].entries =
       [i \in DOMAIN Content[b] |-> IF Content[b][i].value = 0 THEN Unfilled ELSE Content[b][i]]

\* Whatever the order of its transactions, its confirmation and the turns of
\* the loop, a confirmed bundle of which all is known is posted at its value.
ConfirmedIsPosted ==
  \A b \in Bundle :
    Complete(b) /\ bundles[b].confirmed ~>
      ~Complete(b) \/ bundles[b].postedValue = SumEntries(Content[b])
=============================================================================
