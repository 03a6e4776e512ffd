----------------------- MODULE TransferSequence_proofs -----------------------
(***************************************************************************)
(* Proofs about TransferSequence.                                          *)
(***************************************************************************)
EXTENDS TransferSequence, FiniteSetTheorems, TLAPS

-----------------------------------------------------------------------------
\* A number at least as large as the one in the file replaces it.

LEMMA PowersFinite == IsFiniteSet(1..6)
<1>1. 1 \in Int /\ 6 \in Int
  OBVIOUS
<1> QED BY <1>1, FS_Interval, Zenon

\* A larger index has no fewer digits.
LEMMA WidthGrows ==
  ASSUME NEW m \in Nat, NEW n \in Nat, m <= n PROVE Width(m) <= Width(n)
<1> DEFINE Digits(k) == {w \in DOMAIN Powers : k >= Powers[w]}
<1>1. DOMAIN Powers = 1..6 /\ \A w \in 1..6 : Powers[w] \in Int
  BY DEF Powers
<1>2. Digits(m) \subseteq Digits(n)
  BY <1>1
<1>4. IsFiniteSet(Digits(n))
  BY <1>1, PowersFinite, FS_Subset
<1>5. Cardinality(Digits(m)) <= Cardinality(Digits(n))
  BY <1>2, <1>4, FS_Subset
<1> QED BY <1>5 DEF Width

\* Writing a larger index over a smaller one leaves the larger one in the file.
LEMMA LargerOverwrites ==
  ASSUME NEW m \in Nat, NEW n \in Nat, m <= n PROVE Overwritten(m, n) = n
<1>2. DOMAIN Powers = 1..6
  BY DEF Powers
<1>3. \A k \in Nat : Width(k) \in Nat
  BY <1>2, PowersFinite, FS_Subset, FS_CardinalityType DEF Width
<1> QED BY <1>3, WidthGrows DEF Overwritten

-----------------------------------------------------------------------------
\* The types, in four parts.
GenType ==
  /\ pc \in {"check", "find", "send", "put", "wait"}
  /\ index \in Address /\ saved \in Address \cup {0} /\ saved <= index
  /\ bundle \in sent \cup {NoBundle}
  /\ pc \in {"put", "wait"} => bundle \in sent

SeqType ==
  /\ bundlesInProgress \subseteq sent /\ task \in sent \cup {NoBundle}
  /\ posters \in Nat /\ result \in {"none", "success", "failure"}

FlagType == registered \in BOOLEAN /\ reported \in BOOLEAN

TangleType ==
  /\ purse \in Address
  /\ sent \subseteq Address \X Nat /\ confirmed \subseteq sent /\ IsFiniteSet(sent)
  /\ denied \subseteq Address

BoundType == lapses \in 0..MaxLapses /\ crashes \in 0..MaxCrashes

TypeInv == GenType /\ SeqType /\ FlagType /\ TangleType /\ BoundType

\* The sequence starts in its type invariant.
LEMMA TypeInit == ASSUME Init PROVE TypeInv
<1>1. GenType
  BY SequenceAssumption DEF Init, GenType, Address
<1>2. SeqType
  BY DEF Init, SeqType
<1>3. FlagType
  BY DEF Init, FlagType
<1>4. TangleType
  BY SequenceAssumption, FS_EmptySet DEF Init, TangleType, Address
<1>5. BoundType
  BY SequenceAssumption DEF Init, BoundType
<1> QED BY <1>1, <1>2, <1>3, <1>4, <1>5 DEF TypeInv

\* What a lapse and an answer leave.
LEMMA AnswerType ==
  ASSUME BoundType, NEW addr, NEW balance, BalanceAnswer(addr, balance) \/ Lapse
  PROVE  lapses' \in 0..MaxLapses
  BY SequenceAssumption DEF BoundType, BalanceAnswer, Lapse

\* saveIndex writes the index over a smaller one.
LEMMA MoveOnType ==
  ASSUME GenType, MoveOn
  PROVE  /\ index' \in Address /\ saved' \in Address \cup {0} /\ saved' <= index'
         /\ index' = index + 1 /\ saved' \in {saved, index}
<1>1. index \in Nat /\ saved \in Nat /\ saved <= index
  BY SequenceAssumption DEF GenType, Address
<1>2. Overwritten(saved, index) = index
  BY <1>1, LargerOverwrites
<1>3. saved' \in {saved, index} /\ index' = index + 1 /\ index < MaxIndex
  BY <1>2 DEF MoveOn
<1> QED BY <1>1, <1>3, SequenceAssumption DEF GenType, Address

\* Every step keeps the type invariant.
LEMMA TypeNext == ASSUME TypeInv, [Next]_vars PROVE TypeInv'
<1> USE DEF TypeInv
<1>1. ASSUME CheckBalance PROVE TypeInv'
  <2>0. UNCHANGED <<bundle, seqVars, tangle, crashes>>
    BY <1>1 DEF CheckBalance
  <2>1. lapses' \in 0..MaxLapses
    BY <1>1, AnswerType DEF CheckBalance
  <2>2. CASE pc' = "find" /\ UNCHANGED <<index, saved>>
    <3>1. GenType'
      BY <2>0, <2>2 DEF GenType, tangle
    <3> QED BY <3>1, <2>0, <2>1 DEF SeqType, FlagType, TangleType, BoundType, seqVars, tangle
  <2>3. CASE MoveOn /\ UNCHANGED pc
    <3>0. pc' = "check"
      BY <1>1, <2>3 DEF CheckBalance
    <3>1. GenType'
      BY <3>0, <2>0, <2>3, MoveOnType DEF GenType, tangle
    <3> QED BY <3>1, <2>0, <2>1 DEF SeqType, FlagType, TangleType, BoundType, seqVars, tangle
  <2> QED BY <1>1, <2>2, <2>3 DEF CheckBalance
<1>2. ASSUME FindBundleToConfirm PROVE TypeInv'
  <2>0. UNCHANGED <<index, saved, seqVars, tangle, crashes>>
    BY <1>2 DEF FindBundleToConfirm
  <2>1. lapses' \in 0..MaxLapses
    BY <1>2, AnswerType DEF FindBundleToConfirm, BoundType
  <2>2. GenType'
    BY <1>2, <2>0 DEF FindBundleToConfirm, GenType, tangle, Bundles
  <2> QED BY <2>0, <2>1, <2>2 DEF SeqType, FlagType, TangleType, BoundType, seqVars, tangle
<1>3. ASSUME SendToNext PROVE TypeInv'
  <2> DEFINE b == <<index, Cardinality(Bundles(index)) + 1>>
  <2>0. UNCHANGED <<index, saved, seqVars, purse, confirmed, denied, crashes>>
    BY <1>3 DEF SendToNext
  <2>1. lapses' \in 0..MaxLapses
    BY <1>3, AnswerType DEF SendToNext
  <2>2. \/ sent' = sent \cup {b} /\ pc' = "put" /\ bundle' = b
        \/ sent' = sent \cup {b} /\ pc' = "check" /\ bundle' = bundle
        \/ sent' = sent /\ pc' = "check" /\ bundle' = bundle
    BY <1>3 DEF SendToNext
  <2>3. Bundles(index) \subseteq sent
    BY DEF Bundles
  <2>4. Cardinality(Bundles(index)) \in Nat
    BY <2>3, FS_Subset, FS_CardinalityType DEF TangleType
  <2>5. b \in Address \X Nat
    BY <2>4 DEF GenType
  <2>6. IsFiniteSet(sent \cup {b})
    BY FS_AddElement DEF TangleType
  <2> HIDE DEF b
  <2>7. TangleType'
    BY <2>0, <2>2, <2>5, <2>6 DEF TangleType
  <2>8. GenType'
    BY <2>0, <2>2 DEF GenType
  <2>9. SeqType' /\ FlagType'
    BY <2>0, <2>2 DEF SeqType, FlagType, seqVars
  <2> QED BY <2>0, <2>1, <2>7, <2>8, <2>9 DEF BoundType
<1>4. ASSUME PutNextBundleToConfirm PROVE TypeInv'
  <2>0. UNCHANGED <<index, saved, bundle, tangle, lapses, crashes>>
    BY <1>4 DEF PutNextBundleToConfirm
  <2>1. GenType'
    BY <1>4, <2>0 DEF PutNextBundleToConfirm, GenType, tangle
  <2>2. SeqType'
    BY <1>4, <2>0 DEF PutNextBundleToConfirm, GenType, SeqType, seqVars, tangle
  <2>3. FlagType'
    BY <1>4 DEF PutNextBundleToConfirm, FlagType, seqVars
  <2> QED BY <2>0, <2>1, <2>2, <2>3 DEF TangleType, BoundType, tangle
<1>5. ASSUME ProcessConfirmation PROVE TypeInv'
  <2>0. UNCHANGED <<bundle, task, registered, posters, reported, tangle, lapses, crashes>>
    BY <1>5 DEF ProcessConfirmation
  <2>1. GenType'
    <3>0. pc' = "check"
      BY <1>5 DEF ProcessConfirmation
    <3>1. CASE MoveOn
      BY <3>0, <3>1, <2>0, MoveOnType DEF GenType, tangle
    <3>2. CASE UNCHANGED <<index, saved>>
      BY <3>0, <3>2, <2>0 DEF GenType, tangle
    <3> QED BY <1>5, <3>1, <3>2 DEF ProcessConfirmation
  <2>2. SeqType'
    BY <1>5, <2>0 DEF ProcessConfirmation, SeqType, tangle
  <2> QED BY <2>0, <2>1, <2>2 DEF FlagType, TangleType, BoundType, tangle
<1>6. ASSUME RunSequence PROVE TypeInv'
  <2>0. UNCHANGED <<genVars, bundlesInProgress, posters, tangle, crashes>>
    BY <1>6 DEF RunSequence, ReadConfirmation, CheckEnoughBalance
  <2>1. lapses' \in 0..MaxLapses
    BY <1>6, AnswerType DEF RunSequence, ReadConfirmation, CheckEnoughBalance, BoundType
  <2>2. result' \in {"success", "failure"} /\ task' = NoBundle
        /\ registered' = FALSE /\ reported' = FALSE
    BY <1>6 DEF RunSequence, ReadConfirmation, CheckEnoughBalance, EndTask
  <2>3. GenType' /\ TangleType'
    BY <2>0 DEF GenType, TangleType, genVars, tangle
  <2>4. SeqType'
    BY <2>0, <2>2 DEF SeqType, tangle
  <2>5. FlagType'
    BY <2>2 DEF FlagType
  <2> QED BY <2>0, <2>1, <2>3, <2>4, <2>5 DEF BoundType
<1>7. ASSUME MonitorConfirms PROVE TypeInv'
  <2>0. UNCHANGED <<genVars, bundlesInProgress, task, reported, result, tangle, lapses, crashes>>
        /\ posters' = posters + 1
    BY <1>7 DEF MonitorConfirms
  <2>1. FlagType'
    BY <1>7, <2>0 DEF MonitorConfirms, FlagType
  <2> QED BY <2>0, <2>1 DEF GenType, SeqType, TangleType, BoundType, genVars, tangle
<1>8. ASSUME PostConfirmerUpdate PROVE TypeInv'
  <2>0. UNCHANGED <<genVars, bundlesInProgress, task, registered, result, tangle, lapses, crashes>>
        /\ posters' \in Nat
    BY <1>8 DEF PostConfirmerUpdate, SeqType
  <2>1. reported' \in BOOLEAN
    BY <1>8 DEF PostConfirmerUpdate
  <2> QED BY <2>0, <2>1 DEF GenType, SeqType, FlagType, TangleType, BoundType, genVars, tangle
<1>9. ASSUME NEW b \in sent, Confirmation(b) PROVE TypeInv'
  <2>0. UNCHANGED <<genVars, seqVars, sent, denied, lapses, crashes>>
    BY <1>9 DEF Confirmation
  <2>1. TangleType'
    BY <1>9, <2>0, SequenceAssumption DEF Confirmation, TangleType, Address
  <2> QED BY <2>0, <2>1 DEF GenType, SeqType, FlagType, BoundType, genVars, seqVars
<1>10. ASSUME Crash PROVE TypeInv'
  <2>0. UNCHANGED <<saved, tangle, lapses>> /\ crashes' \in 0..MaxCrashes
    BY <1>10, SequenceAssumption DEF Crash, BoundType
  <2>1. Resumed \in Address /\ saved <= Resumed
    BY SequenceAssumption DEF Resumed, GenType, Address
  <2>2. GenType'
    BY <1>10, <2>0, <2>1 DEF Crash, GenType
  <2>3. SeqType'
    BY <1>10 DEF Crash, SeqType
  <2>4. FlagType'
    BY <1>10 DEF Crash, FlagType
  <2> QED BY <2>0, <2>2, <2>3, <2>4 DEF TangleType, BoundType, tangle
<1>11. ASSUME VersionChange PROVE TypeInv'
  <2>0. UNCHANGED <<genVars, seqVars, purse, sent, confirmed, lapses, crashes>>
        /\ denied' = {b[1] : b \in sent}
    BY <1>11 DEF VersionChange
  <2>1. denied' \subseteq Address
    BY <2>0 DEF TangleType
  <2>2. TangleType'
    BY <2>0, <2>1 DEF TangleType
  <2> QED BY <2>0, <2>2 DEF GenType, SeqType, FlagType, BoundType, genVars, seqVars
<1>12. CASE UNCHANGED vars
  BY <1>12 DEF GenType, SeqType, FlagType, TangleType, BoundType, vars, genVars, seqVars, tangle
<1> QED BY <1>1, <1>2, <1>3, <1>4, <1>5, <1>6, <1>7, <1>8, <1>9, <1>10, <1>11, <1>12
        DEF Next, RunGenerator

\* Every variable has its type: the file never holds anything but an index,
\* although it is written over without being emptied.
THEOREM TypeCorrect == Spec => []TypeOK
<1>1. TypeInv => TypeOK
  BY DEF TypeInv, GenType, SeqType, FlagType, TangleType, BoundType, TypeOK
<1> QED BY TypeInit, TypeNext, <1>1, PTL DEF Spec

-----------------------------------------------------------------------------
\* Where the iotas have been: they have reached every address a bundle on the
\* tangle spends from, and the generator leaves "check" only at such an address.
TravelInv ==
  /\ Index0 <= purse /\ saved <= purse
  /\ index <= purse + 1
  /\ \A b \in sent : b[1] <= purse
  /\ pc # "check" => index <= purse

\* The indexes the proofs compare are natural numbers.
LEMMA Naturals ==
  ASSUME TypeInv
  PROVE  /\ Index0 \in Nat /\ index \in Nat /\ saved \in Nat /\ purse \in Nat
         /\ \A b \in sent : b[1] \in Nat
  BY SequenceAssumption DEF TypeInv, GenType, TangleType, Address

\* The generator moves on only from an address the iotas have reached.
LEMMA MoveOnTravels ==
  ASSUME TypeInv, TravelInv, MoveOn, index <= purse, UNCHANGED <<purse, sent>>, pc' = "check"
  PROVE  TravelInv'
<1>1. index' = index + 1 /\ saved' \in {saved, index}
  BY MoveOnType DEF TypeInv
<1> QED BY <1>1, Naturals DEF TravelInv

\* Every step keeps the relation of the generator, the file and the iotas.
LEMMA TravelNext == ASSUME TypeInv, TravelInv, [Next]_vars PROVE TravelInv'
<1>0. /\ Index0 \in Nat /\ index \in Nat /\ saved \in Nat /\ purse \in Nat
      /\ \A b \in sent : b[1] \in Nat
  BY Naturals
<1>1. ASSUME CheckBalance PROVE TravelInv'
  <2>0. pc = "check" /\ UNCHANGED <<purse, sent>>
    BY <1>1 DEF CheckBalance, tangle
  <2>1. CASE pc' = "find" /\ UNCHANGED <<index, saved>> /\ index <= purse
    BY <2>0, <2>1 DEF TravelInv
  <2>2. CASE SpentAnswer(index) /\ MoveOn /\ UNCHANGED pc
    <3>1. PICK b \in sent : b[1] = index
      BY <2>2 DEF SpentAnswer, Spent, Bundles
    <3>2. index <= purse
      BY <3>1 DEF TravelInv
    <3> QED BY <3>2, <2>0, <2>2, MoveOnTravels
  <2>3. PICK balance \in BOOLEAN :
          /\ BalanceAnswer(index, balance)
          /\ \/ balance /\ pc' = "find" /\ UNCHANGED <<index, saved>>
             \/ ~balance /\ SpentAnswer(index) /\ MoveOn /\ UNCHANGED pc
    BY <1>1 DEF CheckBalance
  <2>4. balance => index <= purse
    BY <2>3 DEF BalanceAnswer
  <2> QED BY <2>1, <2>2, <2>3, <2>4
<1>2. ASSUME FindBundleToConfirm \/ PutNextBundleToConfirm PROVE TravelInv'
  <2>1. pc # "check" /\ UNCHANGED <<index, saved, purse, sent>>
    BY <1>2 DEF FindBundleToConfirm, PutNextBundleToConfirm, tangle
  <2> QED BY <2>1, <1>0 DEF TravelInv
<1>3. ASSUME SendToNext PROVE TravelInv'
  <2> DEFINE b == <<index, Cardinality(Bundles(index)) + 1>>
  <2>1. pc = "send" /\ UNCHANGED <<index, saved, purse>>
    BY <1>3 DEF SendToNext
  <2>2. sent' = sent \cup {b} \/ sent' = sent
    BY <1>3 DEF SendToNext
  <2>3. b[1] = index
    OBVIOUS
  <2> HIDE DEF b
  <2>4. \A c \in sent' : c[1] <= purse
    BY <2>1, <2>2, <2>3 DEF TravelInv
  <2> QED BY <2>1, <2>4, <1>0 DEF TravelInv
<1>4. ASSUME ProcessConfirmation PROVE TravelInv'
  <2>1. pc = "wait" /\ pc' = "check" /\ UNCHANGED <<purse, sent>>
        /\ (MoveOn \/ UNCHANGED <<index, saved>>)
    BY <1>4 DEF ProcessConfirmation, tangle
  <2>2. index <= purse
    BY <2>1 DEF TravelInv
  <2>3. CASE UNCHANGED <<index, saved>>
    BY <2>1, <2>3 DEF TravelInv
  <2> QED BY <2>1, <2>2, <2>3, MoveOnTravels
<1>5. ASSUME RunSequence \/ MonitorConfirms \/ PostConfirmerUpdate PROVE TravelInv'
  <2>1. UNCHANGED <<pc, index, saved, purse, sent>>
    BY <1>5 DEF RunSequence, ReadConfirmation, CheckEnoughBalance, MonitorConfirms,
                PostConfirmerUpdate, genVars, tangle
  <2> QED BY <2>1 DEF TravelInv
<1>6. ASSUME NEW b \in sent, Confirmation(b) PROVE TravelInv'
  <2>1. UNCHANGED <<pc, index, saved, sent>> /\ purse' = purse + 1
    BY <1>6 DEF Confirmation, genVars
  <2> QED BY <2>1, <1>0 DEF TravelInv
<1>7. ASSUME Crash PROVE TravelInv'
  <2>1. pc' = "check" /\ index' = Resumed /\ UNCHANGED <<saved, purse, sent>>
    BY <1>7 DEF Crash, tangle
  <2>2. Resumed <= purse /\ Resumed \in Nat
    BY <1>0 DEF Resumed, TravelInv
  <2> QED BY <2>1, <2>2, <1>0 DEF TravelInv
<1>8. ASSUME VersionChange PROVE TravelInv'
  BY <1>8 DEF VersionChange, TravelInv, genVars
<1>9. CASE UNCHANGED vars
  BY <1>9 DEF TravelInv, vars, genVars, tangle
<1> QED BY <1>1, <1>2, <1>3, <1>4, <1>5, <1>6, <1>7, <1>8, <1>9 DEF Next, RunGenerator

\* That relation holds at the start.
LEMMA TravelInit == ASSUME Init PROVE TravelInv
  BY SequenceAssumption DEF Init, TravelInv

\* It holds of every behaviour, with the type invariant.
LEMMA TravelAlways == Spec => [](TypeInv /\ TravelInv)
<1> QED BY TypeInit, TravelInit, TypeNext, TravelNext, PTL DEF Spec

\* However answers lag, callbacks come late and crashes strike, a restart
\* resumes at the address that holds the iotas or before it.
THEOREM RestartFindsIotasAlways == Spec => []RestartFindsIotas
<1>1. TypeInv /\ TravelInv => RestartFindsIotas
  BY DEF TravelInv, Resumed, RestartFindsIotas
<1> QED BY TravelAlways, <1>1, PTL

\* The generator overtakes the iotas by one address at most.
THEOREM WaitsForIotasAlways == Spec => []WaitsForIotas
<1>1. TypeInv /\ TravelInv => WaitsForIotas
  BY DEF TravelInv, WaitsForIotas
<1> QED BY TravelAlways, <1>1, PTL

-----------------------------------------------------------------------------
\* A generator about to send a second bundle from the address that holds the
\* iotas was sent there by a lapse; from any other, the balance it will see is one.
Senders == {b[1] : b \in sent}

SpendInv ==
  /\ \A b \in confirmed : b[1] < purse
  /\ Cardinality(sent) <= Cardinality(Senders) + lapses
  /\ pc = "send" /\ Spent(index) /\ index = purse =>
       Cardinality(sent) + 1 <= Cardinality(Senders) + lapses

\* The sets the spending count compares are finite.
LEMMA Counts ==
  ASSUME TypeInv
  PROVE  /\ IsFiniteSet(sent) /\ Cardinality(sent) \in Nat
         /\ IsFiniteSet(Senders) /\ Cardinality(Senders) \in Nat
         /\ lapses \in Nat
<1>1. IsFiniteSet(sent) /\ Senders \subseteq Address /\ lapses \in Nat
  BY SequenceAssumption DEF TypeInv, TangleType, BoundType, Senders
<1>2. Index0 \in Int /\ MaxIndex \in Int
  BY SequenceAssumption
<1>3. IsFiniteSet(Address)
  BY <1>2, FS_Interval, Zenon DEF Address
<1>4. IsFiniteSet(Senders)
  BY <1>1, <1>3, FS_Subset
<1> QED BY <1>1, <1>4, FS_CardinalityType

\* Lapses only grow, by one for an answer that is not true.
LEMMA AnswerLapses ==
  ASSUME NEW addr, NEW balance \in BOOLEAN, BalanceAnswer(addr, balance)
  PROVE  IF balance = (addr = purse) THEN lapses' = lapses ELSE lapses' = lapses + 1
  BY DEF BalanceAnswer, Lapse

\* Steps that send nothing and do not make the generator send.
LEMMA SpendKept ==
  ASSUME TypeInv, SpendInv, UNCHANGED <<purse, sent, confirmed>>,
         lapses' \in {lapses, lapses + 1},
         pc' # "send" \/ UNCHANGED <<pc, index>>
  PROVE  SpendInv'
<1>1. Senders' = Senders
  BY DEF Senders
<1>2. Spent(index)' = Spent(index) \/ pc' # "send"
  BY DEF Spent, Bundles
<1> QED BY <1>1, <1>2, Counts DEF SpendInv

\* Every step keeps the spending bounded by the answers that lagged.
LEMMA SpendNext ==
  ASSUME TypeInv, TravelInv, SpendInv, [Next]_vars PROVE SpendInv'
<1>0. index \in Nat /\ purse \in Nat /\ \A b \in sent : b[1] \in Nat
  BY Naturals
<1>1. ASSUME CheckBalance PROVE SpendInv'
  <2>1. pc' # "send" /\ UNCHANGED <<purse, sent, confirmed>>
    BY <1>1 DEF CheckBalance, tangle
  <2>2. lapses' \in {lapses, lapses + 1}
    BY <1>1, AnswerLapses DEF CheckBalance
  <2> QED BY <2>1, <2>2, SpendKept
<1>2. ASSUME FindBundleToConfirm PROVE SpendInv'
  <2>0. UNCHANGED <<index, purse, sent, confirmed>>
    BY <1>2 DEF FindBundleToConfirm, tangle
  <2>1. CASE pc' = "put"
    <3>1. lapses' \in {lapses, lapses + 1}
      BY <1>2 DEF FindBundleToConfirm, Lapse
    <3> QED BY <2>0, <2>1, <3>1, SpendKept
  <2>2. CASE pc' = "send"
    <3>0. IF Bundles(index) \cap confirmed = {} /\ Spent(index)
          THEN lapses' = lapses + 1 ELSE lapses' = lapses
      BY <1>2, <2>2 DEF FindBundleToConfirm, Lapse
    <3>1. Senders' = Senders /\ Spent(index)' = Spent(index)
      BY <2>0 DEF Senders, Spent, Bundles
    <3>2. index = purse => Bundles(index) \cap confirmed = {}
      BY <1>0 DEF SpendInv, Bundles
    <3> QED BY <2>0, <3>0, <3>1, <3>2, Counts DEF SpendInv
  <2> QED BY <1>2, <2>1, <2>2 DEF FindBundleToConfirm
<1>3. ASSUME SendToNext PROVE SpendInv'
  <2> DEFINE b == <<index, Cardinality(Bundles(index)) + 1>>
  <2>0. pc = "send" /\ pc' # "send" /\ UNCHANGED <<index, purse, confirmed>>
    BY <1>3 DEF SendToNext
  <2>1. b[1] = index
    OBVIOUS
  <2>2. CASE sent' = sent
    <3>1. lapses' \in {lapses, lapses + 1}
      BY <1>3, AnswerLapses DEF SendToNext, Lapse
    <3> QED BY <2>0, <2>2, <3>1, SpendKept
  <2>3. CASE sent' = sent \cup {b} /\ BalanceAnswer(index, TRUE)
    <3>0. IF index = purse THEN lapses' = lapses ELSE lapses' = lapses + 1
      BY <2>3, AnswerLapses
    <3> HIDE DEF b
    <3>1. Senders' = Senders \cup {index}
      BY <2>1, <2>3 DEF Senders
    <3>2. Cardinality(sent') <= Cardinality(sent) + 1
      <4>1. Cardinality(sent \cup {b}) = IF b \in sent THEN Cardinality(sent)
                                         ELSE Cardinality(sent) + 1
        BY Counts, FS_AddElement
      <4> QED BY <4>1, <2>3, Counts
    <3>3. Cardinality(Senders') = IF index \in Senders THEN Cardinality(Senders)
                                  ELSE Cardinality(Senders) + 1
      BY <3>1, Counts, FS_AddElement
    <3>4. index \in Senders <=> Spent(index)
      BY DEF Senders, Spent, Bundles
    <3>5. Cardinality(sent') \in Nat
      BY <2>3, Counts, FS_AddElement, FS_CardinalityType
    <3>6. Cardinality(sent') <= Cardinality(Senders') + lapses'
      <4>1. CASE ~Spent(index)
        BY <4>1, <3>0, <3>2, <3>3, <3>4, <3>5, Counts DEF SpendInv
      <4>2. CASE Spent(index) /\ index = purse
        BY <4>2, <2>0, <3>0, <3>2, <3>3, <3>4, <3>5, Counts DEF SpendInv
      <4>3. CASE Spent(index) /\ index # purse
        BY <4>3, <3>0, <3>2, <3>3, <3>4, <3>5, Counts DEF SpendInv
      <4> QED BY <4>1, <4>2, <4>3
    <3> QED BY <2>0, <3>6 DEF SpendInv
  <2> QED BY <1>3, <2>2, <2>3 DEF SendToNext
<1>4. ASSUME PutNextBundleToConfirm \/ ProcessConfirmation PROVE SpendInv'
  <2>1. pc' # "send" /\ UNCHANGED <<purse, sent, confirmed, lapses>>
    BY <1>4 DEF PutNextBundleToConfirm, ProcessConfirmation, tangle
  <2> QED BY <2>1, SpendKept
<1>5. ASSUME RunSequence PROVE SpendInv'
  <2>1. UNCHANGED <<pc, index, purse, sent, confirmed>>
    BY <1>5 DEF RunSequence, ReadConfirmation, CheckEnoughBalance, genVars, tangle
  <2>2. lapses' \in {lapses, lapses + 1}
    BY <1>5, AnswerLapses DEF RunSequence, ReadConfirmation, CheckEnoughBalance
  <2> QED BY <2>1, <2>2, SpendKept
<1>6. ASSUME MonitorConfirms \/ PostConfirmerUpdate PROVE SpendInv'
  <2>1. UNCHANGED <<pc, index, purse, sent, confirmed, lapses>>
    BY <1>6 DEF MonitorConfirms, PostConfirmerUpdate, genVars, tangle
  <2> QED BY <2>1, SpendKept
<1>7. ASSUME NEW b \in sent, Confirmation(b) PROVE SpendInv'
  <2>1. UNCHANGED <<pc, index, sent, lapses>> /\ purse' = purse + 1
        /\ confirmed' = confirmed \cup {b} /\ b[1] = purse
    BY <1>7 DEF Confirmation, genVars
  <2>2. Senders' = Senders
    BY <2>1 DEF Senders
  <2>3. \A c \in confirmed' : c[1] < purse'
    BY <2>1, <1>0 DEF SpendInv, TypeInv, TangleType
  <2>4. pc' = "send" => index' # purse'
    BY <2>1, <1>0 DEF TravelInv
  <2> QED BY <2>1, <2>2, <2>3, <2>4 DEF SpendInv
<1>8. ASSUME Crash PROVE SpendInv'
  <2>1. pc' # "send" /\ UNCHANGED <<purse, sent, confirmed, lapses>>
    BY <1>8 DEF Crash, tangle
  <2> QED BY <2>1, SpendKept
<1>9. ASSUME VersionChange PROVE SpendInv'
  <2>1. UNCHANGED <<pc, index, purse, sent, confirmed, lapses>>
    BY <1>9 DEF VersionChange, genVars
  <2> QED BY <2>1, SpendKept
<1>10. CASE UNCHANGED vars
  <2>1. UNCHANGED <<pc, index, purse, sent, confirmed, lapses>>
    BY <1>10 DEF vars, genVars, tangle
  <2> QED BY <2>1, SpendKept
<1> QED BY <1>1, <1>2, <1>3, <1>4, <1>5, <1>6, <1>7, <1>8, <1>9, <1>10
        DEF Next, RunGenerator

\* The spending bound holds at the start.
LEMMA SpendInit == ASSUME Init PROVE SpendInv
<1>1. Senders = {} /\ sent = {} /\ lapses = 0 /\ pc = "check" /\ confirmed = {}
  BY DEF Init, Senders
<1> QED BY <1>1, FS_EmptySet DEF SpendInv

\* No crash, retry or failure of the program makes a second bundle spend an
\* address: each one takes an answer that failed or lagged.
THEOREM DoubleSpendTakesLapseAlways == Spec => []DoubleSpendTakesLapse
<1>1. SpendInv => DoubleSpendTakesLapse
  BY DEF SpendInv, Senders, DoubleSpendTakesLapse
<1> QED BY TypeInit, TravelInit, SpendInit, TypeNext, TravelNext, SpendNext, <1>1, PTL DEF Spec
=============================================================================
