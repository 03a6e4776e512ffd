------------------------- MODULE ValueBundle_proofs -------------------------
(***************************************************************************)
(* Proofs about ValueBundle.  The posted values and the counter of         *)
(* transfers need no arithmetic: SumEntries is any operator on the entries *)
(* of a bundle.  The types and the counter of the volume rest on the sums  *)
(* of the model, which are folds over finite sets.                         *)
(***************************************************************************)
EXTENDS ValueBundle, FiniteSetTheorems, SequenceTheorems, WellFoundedInduction, TLAPS

Fields == {"entries", "inconsistent", "counted", "postedValue", "posted", "confirmed"}

IsData(d) == DOMAIN d = Fields

\* What a bundle may be: posted only if confirmed, at the value of its entries.
Current(d) ==
  IsData(d) /\ (d.posted => d.confirmed /\ d.postedValue = SumEntries(d.entries))

CurrentInv == Cached \subseteq Bundle /\ \A b \in Cached : Current(bundles[b])

\* A new bundle, and one to which updateBundleData has added a transaction,
\* are current: every change of the entries drops the posted value.
LEMMA NewDataCurrent == ASSUME NEW m PROVE Current(NewData(m))
<1>1. IsData(NewData(m))
  BY DEF IsData, Fields, NewData
<1>2. NewData(m).posted = FALSE
  BY DEF NewData
<1> QED BY <1>1, <1>2 DEF Current

\* A message leaves a current record current.
LEMMA UpdatedCurrent ==
  ASSUME NEW d, NEW m, Current(d) PROVE Current(Updated(d, m))
<1>1. CASE Updated(d, m) = d
  BY <1>1
<1>2. CASE Updated(d, m) = Filled(d, m)
  <2>1. IsData(Filled(d, m))
    BY DEF Current, IsData, Filled
  <2>2. Filled(d, m).posted = FALSE
    BY DEF Current, IsData, Fields, Filled
  <2> QED BY <1>2, <2>1, <2>2 DEF Current
<1>3. CASE Updated(d, m) = [d EXCEPT !.inconsistent = TRUE]
  <2>1. IsData([d EXCEPT !.inconsistent = TRUE])
    BY DEF Current, IsData
  <2>2. \A f \in Fields \ {"inconsistent"} : [d EXCEPT !.inconsistent = TRUE][f] = d[f]
    BY DEF Current, IsData
  <2> QED BY <1>3, <2>1, <2>2 DEF Current, Fields
<1> QED BY <1>1, <1>2, <1>3 DEF Updated

\* A confirmation changes nothing but confirmed.
LEMMA ConfirmedCurrent ==
  ASSUME NEW d, Current(d) PROVE Current([d EXCEPT !.confirmed = TRUE])
<1> DEFINE n == [d EXCEPT !.confirmed = TRUE]
<1>1. IsData(n)
  BY DEF Current, IsData
<1>2. n.confirmed
  BY DEF Current, IsData, Fields
<1>3. n.posted = d.posted /\ n.entries = d.entries /\ n.postedValue = d.postedValue
  BY DEF Current, IsData, Fields
<1> QED BY <1>1, <1>2, <1>3 DEF Current

\* What the loop posts is the value of the entries, cached or not.
LEMMA PostedCurrent ==
  ASSUME NEW b \in Cached, Current(bundles[b]), bundles[b].confirmed
  PROVE  Current(Posted(b))
<1> DEFINE d == bundles[b]
<1>1. SumBundle(d) = SumEntries(d.entries)
  BY DEF SumBundle, Current
<1>2. IsData(Posted(b))
  BY DEF Current, IsData, Posted
<1>3. Posted(b).entries = d.entries /\ Posted(b).confirmed = d.confirmed
  BY DEF Current, IsData, Fields, Posted
<1>4. Posted(b).postedValue = SumBundle(d)
  BY DEF Current, IsData, Fields, Posted
<1> QED BY <1>1, <1>2, <1>3, <1>4 DEF Current

\* What a step makes of each bundle it keeps.
LEMMA BundlesAfterUpdate ==
  ASSUME CurrentInv, NEW m \in Feed, UpdateBundleData(m)
  PROVE  /\ Cached' = Cached \cup {m.bundle}
         /\ \A b \in Cached' : bundles'[b] = IF b # m.bundle THEN bundles[b]
                                            ELSE IF b \in Cached THEN Updated(bundles[b], m)
                                            ELSE NewData(m)
  BY DEF UpdateBundleData, Cached

\* Marking a confirmation changes that one record.
LEMMA BundlesAfterMark ==
  ASSUME MarkConfirmed
  PROVE  /\ Cached' = Cached
         /\ \A b \in Cached : bundles'[b] = IF b = marking
                                           THEN [bundles[b] EXCEPT !.confirmed = TRUE]
                                           ELSE bundles[b]
  BY DEF MarkConfirmed, Cached

\* The metrics loop marks as posted the records it posts, and no other.
LEMMA BundlesAfterMetrics ==
  ASSUME UpdateBundleMetrics
  PROVE  /\ Cached' = Cached
         /\ \A b \in Cached : bundles'[b] = IF b \in Posting THEN Posted(b) ELSE bundles[b]
  BY DEF UpdateBundleMetrics, Cached

\* Forgetting drops one record and keeps the others.
LEMMA BundlesAfterForget ==
  ASSUME NEW c \in Bundle, Forget(c)
  PROVE  Cached' = Cached \ {c} /\ \A b \in Cached' : bundles'[b] = bundles[b]
  BY DEF Forget, Cached, Restrict

\* A message of Feed is of a bundle.
LEMMA FeedBundle == ASSUME NEW m \in Feed PROVE m.bundle \in Bundle
  BY BundleAssumption DEF Feed, ContentMsg

\* At the start nothing is cached.
LEMMA CurrentInit == ASSUME Init PROVE CurrentInv
  BY DEF Init, CurrentInv, Cached

\* One step per action; those of the counters leave the bundles as they are.
LEMMA CurrentNext == ASSUME CurrentInv, [Next]_vars PROVE CurrentInv'
<1>1. ASSUME NEW m \in Feed, UpdateBundleData(m) PROVE CurrentInv'
  <2>1. Cached' \subseteq Bundle
    BY <1>1, BundlesAfterUpdate, FeedBundle DEF CurrentInv
  <2>2. \A b \in Cached : Current(Updated(bundles[b], m))
    BY UpdatedCurrent DEF CurrentInv
  <2>3. \A b \in Cached' : Current(bundles'[b])
    BY <1>1, <2>2, BundlesAfterUpdate, NewDataCurrent DEF CurrentInv
  <2> QED BY <2>1, <2>3 DEF CurrentInv, Current, IsData
<1>2. ASSUME NEW b \in Bundle, FindConfirmed(b) PROVE CurrentInv'
  BY <1>2 DEF FindConfirmed, CurrentInv, Cached, Current, IsData
<1>3. CASE MarkConfirmed
  <2>1. \A b \in Cached : Current([bundles[b] EXCEPT !.confirmed = TRUE])
    BY ConfirmedCurrent DEF CurrentInv
  <2>2. \A b \in Cached' : Current(bundles'[b])
    BY <1>3, <2>1, BundlesAfterMark DEF CurrentInv
  <2> QED BY <1>3, <2>2, BundlesAfterMark DEF CurrentInv, Current, IsData
<1>4. CASE UpdateBundleMetrics
  <2>1. \A b \in Posting : b \in Cached /\ bundles[b].confirmed
    BY DEF Posting, DeltaValue
  <2>2. \A b \in Posting : Current(Posted(b))
    BY <2>1, PostedCurrent DEF CurrentInv
  <2>3. \A b \in Cached' : Current(bundles'[b])
    BY <1>4, <2>2, BundlesAfterMetrics DEF CurrentInv
  <2> QED BY <1>4, <2>3, BundlesAfterMetrics DEF CurrentInv, Current, IsData
<1>5. ASSUME NEW c \in Bundle, Forget(c) PROVE CurrentInv'
  BY <1>5, BundlesAfterForget DEF CurrentInv, Current, IsData
<1>6. CASE AddToCounters \/ UNCHANGED vars
  BY <1>6 DEF AddToCounters, vars, CurrentInv, Cached, Current, IsData
<1> QED BY <1>1, <1>2, <1>3, <1>4, <1>5, <1>6
     DEF Next, ProcessValueTxMsg, UpdateBundleMetricsLoop

\* Whatever is received and forgotten, the posted value sumBundle returns
\* without computing it is the value of the entries.
THEOREM PostedIsCurrentAlways == Spec => []PostedIsCurrent
<1>1. CurrentInv => PostedIsCurrent
  BY DEF CurrentInv, Current, PostedIsCurrent
<1> QED BY CurrentInit, CurrentNext, <1>1, PTL DEF Spec

-----------------------------------------------------------------------------
Counted == {b \in Cached : bundles[b].counted}

CountInv ==
  /\ CurrentInv
  /\ transfers \in Nat /\ forgotten.counted \in Nat
  /\ toAdd.bundles \in Nat
  /\ transfers + toAdd.bundles = forgotten.counted + Cardinality(Counted)

\* Counting is of finite sets.
LEMMA CountedFinite ==
  ASSUME CurrentInv
  PROVE  IsFiniteSet(Counted) /\ Cardinality(Counted) \in Nat
<1>1. Counted \subseteq Bundle
  BY DEF Counted, CurrentInv
<1>2. IsFiniteSet(Counted)
  BY <1>1, BundleAssumption, FS_Subset
<1> QED BY <1>2, FS_CardinalityType

\* A transaction neither counts a bundle nor undoes its counting.
LEMMA UpdatedCounted ==
  ASSUME NEW d, NEW m, IsData(d) PROVE Updated(d, m).counted = d.counted
  BY DEF IsData, Fields, Updated, Filled

\* The count of bundles agrees with the empty cache.
LEMMA CountInit == ASSUME Init PROVE CountInv
<1>1. Counted = {}
  BY DEF Init, Counted, Cached
<1> QED BY <1>1, CurrentInit, FS_EmptySet DEF Init, Nothing, CountInv

\* The loop counts those it had not counted, and forgetting moves a counted
\* bundle to what was forgotten.
LEMMA CountNext == ASSUME CountInv, [Next]_vars PROVE CountInv'
<1> USE DEF CountInv
<1>0. CurrentInv' /\ IsFiniteSet(Counted) /\ Cardinality(Counted) \in Nat
  BY CurrentNext, CountedFinite
<1> DEFINE Counts == /\ transfers' \in Nat /\ forgotten'.counted \in Nat
                     /\ toAdd'.bundles \in Nat
                     /\ transfers' + toAdd'.bundles
                          = forgotten'.counted + Cardinality(Counted')
<1>1. ASSUME NEW m \in Feed, UpdateBundleData(m) PROVE Counts
  <2>1. \A b \in Cached : Updated(bundles[b], m).counted = bundles[b].counted
    BY UpdatedCounted DEF CurrentInv, Current
  <2>2. NewData(m).counted = FALSE
    BY DEF NewData
  <2>3. Counted' = Counted
    BY <1>1, <2>1, <2>2, BundlesAfterUpdate DEF Counted
  <2>4. UNCHANGED <<transfers, toAdd, forgotten>>
    BY <1>1 DEF UpdateBundleData
  <2> QED BY <2>3, <2>4
<1>2. ASSUME NEW b \in Bundle, FindConfirmed(b) PROVE Counts
  BY <1>2 DEF FindConfirmed, Counted, Cached
<1>3. ASSUME MarkConfirmed PROVE Counts
  <2>1. \A b \in Cached : [bundles[b] EXCEPT !.confirmed = TRUE].counted = bundles[b].counted
    BY DEF CurrentInv, Current, IsData, Fields
  <2>2. Counted' = Counted
    BY <1>3, <2>1, BundlesAfterMark DEF Counted
  <2>3. UNCHANGED <<transfers, toAdd, forgotten>>
    BY <1>3 DEF MarkConfirmed
  <2> QED BY <2>2, <2>3
<1>4. ASSUME UpdateBundleMetrics PROVE Counts
  <2>1. \A b \in Cached : Posted(b).counted
    BY DEF CurrentInv, Current, IsData, Fields, Posted
  <2>2. Counted' = Counted \cup NewConfirmedBundles /\ Counted \cap NewConfirmedBundles = {}
    BY <1>4, <2>1, BundlesAfterMetrics DEF Counted, NewConfirmedBundles, Posting
  <2>3. NewConfirmedBundles \subseteq Bundle
    BY DEF CurrentInv, NewConfirmedBundles, Posting
  <2>4. IsFiniteSet(NewConfirmedBundles) /\ Cardinality(NewConfirmedBundles) \in Nat
    BY <2>3, BundleAssumption, FS_Subset, FS_CardinalityType
  <2>5. Cardinality(Counted') = Cardinality(Counted) + Cardinality(NewConfirmedBundles)
    <3>1. Cardinality(Counted \cup NewConfirmedBundles)
            = Cardinality(Counted) + Cardinality(NewConfirmedBundles)
              - Cardinality(Counted \cap NewConfirmedBundles)
      BY <1>0, <2>4, FS_Union
    <3>2. Cardinality(Counted \cap NewConfirmedBundles) = 0
      BY <2>2, FS_EmptySet
    <3> QED BY <1>0, <2>2, <2>4, <3>1, <3>2
  <2>6. /\ toAdd = Nothing /\ UNCHANGED <<transfers, forgotten>>
        /\ toAdd' = [value |-> TotalNewConfirmedValue,
                     bundles |-> Cardinality(NewConfirmedBundles)]
    BY <1>4 DEF UpdateBundleMetrics
  <2> QED BY <1>0, <2>4, <2>5, <2>6 DEF Nothing
<1>5. ASSUME NEW c \in Bundle, Forget(c) PROVE Counts
  <2>1. Counted' = Counted \ {c}
    BY <1>5, BundlesAfterForget DEF Counted
  <2>0. /\ UNCHANGED <<transfers, toAdd>>
        /\ forgotten'.counted = forgotten.counted + (IF bundles[c].counted THEN 1 ELSE 0)
    BY <1>5 DEF Forget
  <2>2. CASE bundles[c].counted
    <3>1. c \in Counted
      BY <1>5, <2>2 DEF Forget, Counted
    <3>2. Cardinality(Counted') = Cardinality(Counted) - 1
      BY <1>0, <2>1, <3>1, FS_RemoveElement
    <3> QED BY <1>0, <2>0, <2>2, <3>2
  <2>3. CASE ~bundles[c].counted
    <3>1. Counted' = Counted
      BY <2>1, <2>3 DEF Counted
    <3>2. forgotten'.counted = forgotten.counted
      BY <2>0, <2>3
    <3> QED BY <2>0, <3>1, <3>2
  <2> QED BY <2>2, <2>3
<1>6. ASSUME AddToCounters PROVE Counts
  <2>1. Counted' = Counted
    BY <1>6 DEF AddToCounters, Counted, Cached
  <2>2. /\ transfers' = transfers + toAdd.bundles /\ toAdd' = Nothing
        /\ UNCHANGED forgotten
    BY <1>6 DEF AddToCounters
  <2> QED BY <1>0, <2>1, <2>2 DEF Nothing
<1>7. ASSUME UNCHANGED vars PROVE Counts
  <2>1. Counted' = Counted /\ UNCHANGED <<transfers, toAdd, forgotten>>
    BY <1>7 DEF vars, Counted, Cached
  <2> QED BY <2>1
<1> QED BY <1>0, <1>1, <1>2, <1>3, <1>4, <1>5, <1>6, <1>7
     DEF Next, ProcessValueTxMsg, UpdateBundleMetricsLoop

\* However often the value of a bundle changes, the counter of transfers has
\* counted it once for each time the cache took it in.
THEOREM TransfersCountedOnceAlways == Spec => []TransfersCountedOnce
<1>1. CountInv => TransfersCountedOnce
  BY DEF CountInv, TransfersCountedOnce, Counted
<1> QED BY CountInit, CountNext, <1>1, PTL DEF Spec

-----------------------------------------------------------------------------
\* Induction, by a least counterexample.

\* Every set of numbers that is not empty has a least one.
LEMMA Least ==
  ASSUME NEW T \in SUBSET Nat, T # {} PROVE \E n \in T : \A m \in T : n <= m
<1>1. PICK n \in T : \A m \in T : ~ (<<m, n>> \in {ss \in Nat \X Nat : ss[1] < ss[2]})
  BY NatLessThanWellFounded, WFMin DEF OpToRel
<1>2. ASSUME NEW m \in T PROVE n <= m
  <2>1. m \in Nat /\ n \in Nat
    OBVIOUS
  <2>2. ~(m < n)
    BY <1>1, <2>1
  <2> QED BY <2>1, <2>2
<1> QED BY <1>2

\* Of the subsets of a finite set one that is bad has no bad subset but itself.
LEMMA LeastSubset ==
  ASSUME NEW S, IsFiniteSet(S), NEW Bad \in SUBSET SUBSET S, Bad # {}
  PROVE  \E T \in Bad : \A U \in SUBSET T : U # T => U \notin Bad
<1>1. FiniteSubsetsOf(S) = SUBSET S
  BY FS_FiniteSubsetsOfFinite
<1>2. IsWellFoundedOn(StrictSubsetOrdering(S), SUBSET S)
  BY <1>1, FS_StrictSubsetOrderingWellFounded
<1>3. PICK T \in Bad : \A U \in Bad : ~ (<<U, T>> \in StrictSubsetOrdering(S))
  BY <1>2, WFMin
<1>4. ASSUME NEW U \in SUBSET T, U # T, U \in Bad PROVE FALSE
  BY <1>3, <1>4 DEF StrictSubsetOrdering
<1> QED BY <1>4

-----------------------------------------------------------------------------
\* Sums over finite sets, which the model takes from the community modules.

\* The element that the folds take first.
Pick(s) == CHOOSE x \in s : TRUE

\* g adds up f over the subsets of S as the folds of those modules do.
Sums(g, f, S) ==
  \A s \in SUBSET S : /\ s = {} => g[s] = 0
                      /\ s # {} => g[s] = f[Pick(s)] + g[s \ {Pick(s)}]

\* The sum of f over S.
SumOf(f, S) == LET g == CHOOSE g : Sums(g, f, S) IN g[S]

\* There are finitely many terms, all integers.
Ints(f, S) == IsFiniteSet(S) /\ \A x \in S : f[x] \in Int

\* What is picked from a set that is not empty is in it.
LEMMA PickOne == ASSUME NEW s, s # {} PROVE Pick(s) \in s
BY DEF Pick

\* Two such functions agree where what they add up agrees.
LEMMA SumsUnique ==
  ASSUME NEW S, IsFiniteSet(S), NEW T \in SUBSET S, NEW f, NEW e, NEW g, NEW h,
         Sums(g, f, S), Sums(h, e, T), \A x \in T : e[x] = f[x]
  PROVE  g[T] = h[T]
<1> DEFINE Bad == {U \in SUBSET T : g[U] # h[U]}
<1>0. IsFiniteSet(T)
  BY FS_Subset
<1>1. ASSUME NEW U \in Bad, \A W \in SUBSET U : W # U => W \notin Bad PROVE FALSE
  <2>1. U # {}
    BY DEF Sums
  <2>2. Pick(U) \in U
    BY <2>1, PickOne
  <2>3. U \ {Pick(U)} \in SUBSET U /\ U \ {Pick(U)} # U /\ U \in SUBSET T /\ U \in SUBSET S
    BY <2>2
  <2>4. g[U \ {Pick(U)}] = h[U \ {Pick(U)}]
    BY <1>1, <2>3
  <2>5. f[Pick(U)] = e[Pick(U)]
    BY <2>2, <2>3
  <2>6. g[U] = f[Pick(U)] + g[U \ {Pick(U)}] /\ h[U] = e[Pick(U)] + h[U \ {Pick(U)}]
    BY <2>1, <2>3 DEF Sums
  <2> QED BY <2>4, <2>5, <2>6
<1>2. Bad \in SUBSET SUBSET T
  OBVIOUS
<1>3. Bad = {}
  <2> HIDE DEF Bad
  <2> QED BY <1>0, <1>1, <1>2, LeastSubset
<1> QED BY <1>3

\* There is such a function, built up by the size of the subsets.
LEMMA SumsExist ==
  ASSUME NEW S, NEW f, Ints(f, S)
  PROVE  \E g \in [SUBSET S -> Int] : Sums(g, f, S)
<1> DEFINE Upto(g, n) ==
             \A s \in SUBSET S : /\ s = {} => g[s] = 0
                                 /\ s # {} /\ Cardinality(s) <= n =>
                                      g[s] = f[Pick(s)] + g[s \ {Pick(s)}]
           N == Cardinality(S)
           Bad == {n \in 0..N : ~ \E g \in [SUBSET S -> Int] : Upto(g, n)}
<1>0. /\ IsFiniteSet(S) /\ N \in Nat
      /\ \A s \in SUBSET S : Cardinality(s) \in Nat /\ Cardinality(s) <= N
      /\ \A s \in SUBSET S : s # {} => Cardinality(s) # 0
      /\ \A s \in SUBSET S : s # {} => /\ Pick(s) \in S /\ f[Pick(s)] \in Int
                                       /\ s \ {Pick(s)} \in SUBSET S
                                       /\ Cardinality(s \ {Pick(s)}) = Cardinality(s) - 1
  <2>1. IsFiniteSet(S) /\ N \in Nat
    BY FS_CardinalityType DEF Ints
  <2>2. ASSUME NEW s \in SUBSET S
        PROVE  IsFiniteSet(s) /\ Cardinality(s) \in Nat /\ Cardinality(s) <= N
    BY <2>1, FS_Subset, FS_CardinalityType
  <2>3. ASSUME NEW s \in SUBSET S, s # {}
        PROVE  /\ Pick(s) \in S /\ f[Pick(s)] \in Int /\ s \ {Pick(s)} \in SUBSET S
               /\ Cardinality(s \ {Pick(s)}) = Cardinality(s) - 1 /\ Cardinality(s) # 0
    <3>1. Pick(s) \in s
      BY <2>3, PickOne
    <3>2. Cardinality(s \ {Pick(s)}) = Cardinality(s) - 1 /\ Cardinality(s) # 0
      BY <2>2, <2>3, <3>1, FS_RemoveElement, FS_EmptySet
    <3> QED BY <3>1, <3>2 DEF Ints
  <2> QED BY <2>1, <2>2, <2>3
<1>1. 0 \notin Bad
  <2> DEFINE g == [s \in SUBSET S |-> 0]
  <2>1. Upto(g, 0)
    BY <1>0
  <2>2. g \in [SUBSET S -> Int]
    OBVIOUS
  <2> HIDE DEF g, Upto
  <2> QED BY <2>1, <2>2
<1>2. ASSUME NEW n \in Bad, \A m \in Bad : n <= m PROVE FALSE
  <2>a. n \in 0..N /\ n # 0
    BY <1>1
  <2>0. n \in Nat /\ n > 0 /\ n - 1 \in 0..N
    <3> HIDE DEF N
    <3> QED BY <1>0, <2>a
  <2>b. n - 1 \notin Bad
    <3> HIDE DEF Bad
    <3> QED BY <1>2, <2>0
  <2>1. PICK g \in [SUBSET S -> Int] : Upto(g, n - 1)
    <3> HIDE DEF Upto
    <3> QED BY <2>0, <2>b
  <2> DEFINE h == [s \in SUBSET S |->
                     IF Cardinality(s) = n THEN f[Pick(s)] + g[s \ {Pick(s)}] ELSE g[s]]
  <2>2. h \in [SUBSET S -> Int]
    <3>1. ASSUME NEW s \in SUBSET S, Cardinality(s) = n
          PROVE  f[Pick(s)] + g[s \ {Pick(s)}] \in Int
      <4>1. s # {}
        <5>1. Cardinality(s) # 0
          BY <3>1, <2>0
        <5> QED BY <5>1, FS_EmptySet
      <4>2. f[Pick(s)] \in Int /\ g[s \ {Pick(s)}] \in Int
        BY <4>1, <1>0
      <4> QED BY <4>2
    <3> QED BY <3>1
  <2>3. ASSUME NEW s \in SUBSET S
        PROVE  /\ s = {} => h[s] = 0
               /\ s # {} /\ Cardinality(s) <= n => h[s] = f[Pick(s)] + h[s \ {Pick(s)}]
    <3>1. CASE s = {}
      <4>1. Cardinality(s) # n
        BY <3>1, <2>0, FS_EmptySet
      <4> QED BY <3>1, <4>1, <2>1
    <3>2. CASE s # {} /\ Cardinality(s) <= n
      <4> DEFINE r == s \ {Pick(s)}
      <4>1. r \in SUBSET S /\ Cardinality(r) = Cardinality(s) - 1 /\ Cardinality(s) \in Nat
        BY <3>2, <1>0
      <4>2. h[r] = g[r]
        BY <4>1, <3>2, <2>0
      <4>3. h[s] = f[Pick(s)] + g[r]
        <5>1. CASE Cardinality(s) = n
          BY <5>1
        <5>2. CASE Cardinality(s) # n
          <6>1. Cardinality(s) <= n - 1
            BY <5>2, <4>1, <3>2, <2>0
          <6>2. g[s] = f[Pick(s)] + g[r]
            BY <6>1, <3>2, <2>1
          <6> QED BY <5>2, <6>2
        <5> QED BY <5>1, <5>2
      <4> HIDE DEF h, r
      <4> QED BY <4>2, <4>3, <3>2 DEF r
    <3> QED BY <3>1, <3>2
  <2>4. Upto(h, n)
    <3> HIDE DEF h
    <3> QED BY <2>3
  <2> HIDE DEF h, Upto
  <2> QED BY <2>2, <2>4
<1>3. Bad = {}
  <2>1. Bad \in SUBSET Nat
    BY <1>0
  <2> HIDE DEF Bad
  <2> QED BY <2>1, <1>2, Least
<1>4. PICK g \in [SUBSET S -> Int] : Upto(g, N)
  <2>1. N \in 0..N
    BY <1>0
  <2> HIDE DEF Upto
  <2> QED BY <1>3, <2>1
<1>5. Sums(g, f, S)
  BY <1>0, <1>4 DEF Sums
<1> QED BY <1>5

\* What folds of the community modules compute is the sum.
LEMMA SumOfIs ==
  ASSUME NEW S, NEW f, Ints(f, S), NEW g, Sums(g, f, S) PROVE g[S] = SumOf(f, S)
<1>1. \E h : Sums(h, f, S)
  BY SumsExist
<1>2. Sums(CHOOSE h : Sums(h, f, S), f, S)
  BY <1>1
<1> DEFINE h == CHOOSE h : Sums(h, f, S)
<1> HIDE DEF h
<1>3. g[S] = h[S]
  BY <1>2, SumsUnique DEF h, Ints
<1> QED BY <1>3 DEF h, SumOf

\* Equal terms have equal sums.
LEMMA SumSame ==
  ASSUME NEW S, NEW f, NEW e, Ints(f, S), \A x \in S : e[x] = f[x]
  PROVE  SumOf(e, S) = SumOf(f, S)
<1>1. Ints(e, S) /\ IsFiniteSet(S)
  BY DEF Ints
<1>2. PICK g \in [SUBSET S -> Int] : Sums(g, f, S)
  BY SumsExist
<1>3. PICK h \in [SUBSET S -> Int] : Sums(h, e, S)
  BY <1>1, SumsExist
<1>4. g[S] = h[S]
  BY <1>1, <1>2, <1>3, SumsUnique
<1> QED BY <1>1, <1>2, <1>3, <1>4, SumOfIs

\* A sum is an integer, that of nothing is 0, and any element can be taken out.
LEMMA SumTakeOut ==
  ASSUME NEW S, NEW f, Ints(f, S)
  PROVE  /\ SumOf(f, S) \in Int
         /\ S = {} => SumOf(f, S) = 0
         /\ \A x \in S : SumOf(f, S) = f[x] + SumOf(f, S \ {x})
<1>0. IsFiniteSet(S) /\ \A T \in SUBSET S : Ints(f, T)
  BY FS_Subset DEF Ints
<1>1. PICK g \in [SUBSET S -> Int] : Sums(g, f, S)
  BY SumsExist
<1>2. \A T \in SUBSET S : g[T] = SumOf(f, T)
  <2> TAKE T \in SUBSET S
  <2>1. Sums(g, f, T)
    BY <1>1 DEF Sums
  <2> QED BY <1>0, <2>1, SumOfIs
<1> DEFINE Bad == {T \in SUBSET S : \E x \in T : g[T] # f[x] + g[T \ {x}]}
<1>3. ASSUME NEW T \in Bad, \A U \in SUBSET T : U # T => U \notin Bad PROVE FALSE
  <2>1. PICK x \in T : g[T] # f[x] + g[T \ {x}]
    OBVIOUS
  <2> DEFINE p == Pick(T)
  <2>2. p \in T /\ T \in SUBSET S
    BY <2>1, PickOne
  <2>3. g[T] = f[p] + g[T \ {p}]
    BY <1>1, <2>1, <2>2 DEF Sums
  <2>4. x # p
    BY <2>1, <2>3
  <2>5. T \ {p} \notin Bad /\ T \ {x} \notin Bad
    <3>1. T \ {p} \in SUBSET T /\ T \ {p} # T /\ T \ {x} \in SUBSET T /\ T \ {x} # T
      BY <2>2
    <3> HIDE DEF Bad
    <3> QED BY <1>3, <3>1
  <2>6. g[T \ {p}] = f[x] + g[(T \ {p}) \ {x}]
    <3>1. x \in T \ {p} /\ T \ {p} \in SUBSET S
      BY <2>2, <2>4
    <3> HIDE DEF p
    <3> QED BY <2>5, <3>1
  <2>7. g[T \ {x}] = f[p] + g[(T \ {x}) \ {p}]
    <3>1. p \in T \ {x} /\ T \ {x} \in SUBSET S
      BY <2>2, <2>4
    <3> HIDE DEF p
    <3> QED BY <2>5, <3>1
  <2>8. (T \ {x}) \ {p} = (T \ {p}) \ {x} /\ (T \ {p}) \ {x} \in SUBSET S
    BY <2>2
  <2>9. f[x] \in Int /\ f[p] \in Int /\ g[(T \ {p}) \ {x}] \in Int
    BY <1>0, <2>2, <2>8 DEF Ints
  <2> DEFINE r == g[(T \ {p}) \ {x}]
  <2>10. g[T] = f[p] + (f[x] + r) /\ g[T \ {x}] = f[p] + r
    BY <2>3, <2>6, <2>7, <2>8
  <2> HIDE DEF p, r
  <2> QED BY <2>1, <2>9, <2>10 DEF r
<1>4. Bad = {}
  <2>1. Bad \in SUBSET SUBSET S
    OBVIOUS
  <2> HIDE DEF Bad
  <2> QED BY <1>0, <1>3, <2>1, LeastSubset
<1>5. \A x \in S : g[S] = f[x] + g[S \ {x}]
  BY <1>4
<1>6. g[S] \in Int /\ (S = {} => g[S] = 0)
  BY <1>1 DEF Sums
<1>7. \A x \in S : S \ {x} \in SUBSET S /\ S \in SUBSET S
  OBVIOUS
<1> QED BY <1>2, <1>5, <1>6, <1>7

\* The sum of sums.
LEMMA SumPlus ==
  ASSUME NEW S, NEW e, NEW f, NEW h, Ints(e, S), Ints(f, S),
         \A x \in S : h[x] = e[x] + f[x]
  PROVE  SumOf(h, S) = SumOf(e, S) + SumOf(f, S)
<1> DEFINE Bad == {T \in SUBSET S : SumOf(h, T) # SumOf(e, T) + SumOf(f, T)}
<1>0. IsFiniteSet(S) /\ \A T \in SUBSET S : Ints(e, T) /\ Ints(f, T) /\ Ints(h, T)
  BY FS_Subset DEF Ints
<1>1. ASSUME NEW T \in Bad, \A U \in SUBSET T : U # T => U \notin Bad PROVE FALSE
  <2>1. CASE T = {}
    BY <2>1, <1>0, SumTakeOut
  <2>2. CASE T # {}
    <3>1. PICK x \in T : TRUE
      BY <2>2
    <3> DEFINE R == T \ {x}
    <3>2. T \in SUBSET S /\ R \in SUBSET T /\ R # T /\ R \in SUBSET S
      OBVIOUS
    <3>3. SumOf(h, R) = SumOf(e, R) + SumOf(f, R)
      BY <3>2, <1>1
    <3>4. /\ SumOf(h, T) = h[x] + SumOf(h, R)
          /\ SumOf(e, T) = e[x] + SumOf(e, R)
          /\ SumOf(f, T) = f[x] + SumOf(f, R)
      BY <1>0, <3>2, SumTakeOut
    <3>5. SumOf(e, R) \in Int /\ SumOf(f, R) \in Int
      BY <1>0, <3>2, SumTakeOut
    <3>6. e[x] \in Int /\ f[x] \in Int /\ h[x] = e[x] + f[x]
      BY <3>2 DEF Ints
    <3>7. SumOf(h, T) # SumOf(e, T) + SumOf(f, T)
      OBVIOUS
    <3> HIDE DEF R, Bad
    <3> QED BY <3>3, <3>4, <3>5, <3>6, <3>7
  <2> QED BY <2>1, <2>2
<1>2. Bad = {}
  <2>1. Bad \in SUBSET SUBSET S
    OBVIOUS
  <2> HIDE DEF Bad
  <2> QED BY <1>0, <1>1, <2>1, LeastSubset
<1> QED BY <1>2

\* What is zero may be left out.
LEMMA SumDrop ==
  ASSUME NEW S, NEW f, Ints(f, S), NEW T \in SUBSET S, \A x \in S \ T : f[x] = 0
  PROVE  SumOf(f, S) = SumOf(f, T)
<1> DEFINE Bad == {U \in SUBSET S : T \subseteq U /\ SumOf(f, U) # SumOf(f, T)}
<1>0. IsFiniteSet(S) /\ \A U \in SUBSET S : Ints(f, U)
  BY FS_Subset DEF Ints
<1>1. ASSUME NEW U \in Bad, \A W \in SUBSET U : W # U => W \notin Bad PROVE FALSE
  <2>1. PICK x \in U : x \notin T
    OBVIOUS
  <2> DEFINE R == U \ {x}
  <2>2. U \in SUBSET S /\ R \in SUBSET U /\ R # U /\ R \in SUBSET S /\ T \subseteq R
    BY <2>1
  <2>3. SumOf(f, R) = SumOf(f, T)
    BY <2>2, <1>1
  <2>4. SumOf(f, U) = f[x] + SumOf(f, R) /\ SumOf(f, R) \in Int
    BY <1>0, <2>2, SumTakeOut
  <2>5. f[x] = 0 /\ SumOf(f, U) # SumOf(f, T)
    BY <2>1, <2>2
  <2> HIDE DEF R, Bad
  <2> QED BY <2>3, <2>4, <2>5
<1>2. Bad = {}
  <2>1. Bad \in SUBSET SUBSET S
    OBVIOUS
  <2> HIDE DEF Bad
  <2> QED BY <1>0, <1>1, <2>1, LeastSubset
<1> QED BY <1>2

\* SumFunction is that sum.
LEMMA SumFunctionIs ==
  ASSUME NEW f, Ints(f, DOMAIN f) PROVE SumFunction(f) = SumOf(f, DOMAIN f)
<1> DEFINE S == DOMAIN f
           iter[s \in SUBSET DOMAIN f] ==
             IF s = {} THEN 0
             ELSE LET x == CHOOSE x \in s : TRUE
                  IN  f[x] + iter[s \ {x}]
<1>1. SumFunction(f) = iter[S]
  BY Zenon DEF SumFunction, SumFunctionOnSet, FoldFunctionOnSet, MapThenFoldSet
<1>2. PICK g \in [SUBSET S -> Int] : Sums(g, f, S)
  <2> HIDE DEF S
  <2> QED BY SumsExist DEF S
<1>3. g = [s \in SUBSET S |-> IF s = {} THEN 0 ELSE f[Pick(s)] + g[s \ {Pick(s)}]]
  <2>1. \A s \in SUBSET S : g[s] = IF s = {} THEN 0 ELSE f[Pick(s)] + g[s \ {Pick(s)}]
    BY <1>2 DEF Sums
  <2> HIDE DEF S
  <2> QED BY <2>1
<1>4. iter = [s \in SUBSET S |-> IF s = {} THEN 0 ELSE f[Pick(s)] + iter[s \ {Pick(s)}]]
  BY <1>3, Zenon DEF Pick
<1>5. Sums(iter, f, S)
  <2> HIDE DEF iter
  <2> QED BY <1>4 DEF Sums
<1> HIDE DEF iter
<1> QED BY <1>1, <1>5, SumOfIs

\* Total is the sum of the values.
LEMMA TotalIs ==
  ASSUME NEW es, NEW I, IsFiniteSet(I), \A i \in I : es[i].value \in Int
  PROVE  Total(es, I) = SumOf([i \in I |-> es[i].value], I)
<1> DEFINE f == [i \in I |-> es[i].value]
           iter[s \in SUBSET I] ==
             IF s = {} THEN 0
             ELSE LET x == CHOOSE x \in s : TRUE
                  IN  es[x].value + iter[s \ {x}]
<1>1. Total(es, I) = iter[I]
  BY Zenon DEF Total, MapThenSumSet, MapThenFoldSet
<1>0. Ints(f, I)
  BY DEF Ints
<1>2. PICK g \in [SUBSET I -> Int] : Sums(g, f, I)
  <2> HIDE DEF f
  <2> QED BY <1>0, SumsExist
<1>3. g = [s \in SUBSET I |-> IF s = {} THEN 0 ELSE es[Pick(s)].value + g[s \ {Pick(s)}]]
  <2>1. \A s \in SUBSET I : s # {} => f[Pick(s)] = es[Pick(s)].value
    BY PickOne
  <2>2. \A s \in SUBSET I : g[s] = IF s = {} THEN 0 ELSE es[Pick(s)].value + g[s \ {Pick(s)}]
    <3> HIDE DEF f
    <3> QED BY <1>2, <2>1 DEF Sums
  <2> QED BY <2>2
<1>4. iter = [s \in SUBSET I |-> IF s = {} THEN 0 ELSE es[Pick(s)].value + iter[s \ {Pick(s)}]]
  BY <1>3, Zenon DEF Pick
<1>5. Sums(iter, f, I)
  <2> HIDE DEF iter
  <2>1. \A s \in SUBSET I : s # {} => f[Pick(s)] = es[Pick(s)].value
    BY PickOne
  <2> HIDE DEF f
  <2> QED BY <1>4, <2>1 DEF Sums
<1> HIDE DEF iter, f
<1> QED BY <1>0, <1>1, <1>5, SumOfIs DEF f

\* A total of entries is an integer.
LEMMA TotalInt ==
  ASSUME NEW es, NEW I, IsFiniteSet(I), \A i \in I : es[i].value \in Int
  PROVE  Total(es, I) \in Int
<1> DEFINE f == [i \in I |-> es[i].value]
<1>1. Ints(f, I)
  BY DEF Ints
<1>2. SumOf(f, I) \in Int
  BY <1>1, SumTakeOut
<1> QED BY <1>2, TotalIs

-----------------------------------------------------------------------------
\* Types.

\* A cached bundle has entries.
Filling(d) == d \in Data /\ d.entries # <<>>

\* The strengthening of TypeOK.
TypeInv == TypeOK /\ \A b \in Cached : Filling(bundles[b])

\* A message names one of the entries of its bundle.
LEMMA FeedFields ==
  ASSUME NEW m \in Feed
  PROVE  /\ m.bundle \in Bundle /\ m.addr \in Addr /\ m.value \in Int
         /\ m.lastIdx \in Nat /\ m.idx \in 1..m.lastIdx
<1>1. CASE m \in Stray
  BY <1>1, BundleAssumption
<1>2. ASSUME NEW b \in Bundle, NEW i \in DOMAIN Content[b], m = ContentMsg(b, i)
      PROVE  /\ m.bundle \in Bundle /\ m.addr \in Addr /\ m.value \in Int
             /\ m.lastIdx \in Nat /\ m.idx \in 1..m.lastIdx
  <2>1. Content[b] \in Seq([addr : Addr, value : Int])
    BY BundleAssumption
  <2>2. Len(Content[b]) \in Nat /\ i \in 1..Len(Content[b])
    BY <2>1
  <2>3. Content[b][i] \in [addr : Addr, value : Int]
    BY <2>1, <2>2, ElementOfSeq
  <2> QED BY <1>2, <2>2, <2>3 DEF ContentMsg
<1> QED BY <1>1, <1>2 DEF Feed

\* A message fills an entry.
LEMMA SlotOf ==
  ASSUME NEW m \in Feed
  PROVE  [addr |-> m.addr, value |-> m.value] \in Slot /\ Unfilled \in Slot
BY FeedFields DEF Slot, Unfilled

\* A new bundle has its type, and updateBundleData keeps it and the posted value.
LEMMA NewDataFilling == ASSUME NEW m \in Feed PROVE Filling(NewData(m))
<1> DEFINE es == [i \in 1..m.lastIdx |->
                    IF i = m.idx THEN [addr |-> m.addr, value |-> m.value] ELSE Unfilled]
<1>1. m.lastIdx \in Nat /\ m.idx \in 1..m.lastIdx
  BY FeedFields
<1>2. es \in Seq(Slot) /\ es # <<>>
  <2>1. \A i \in 1..m.lastIdx : es[i] \in Slot
    BY SlotOf
  <2>2. es \in [1..m.lastIdx -> Slot]
    BY SlotOf
  <2>3. DOMAIN es # {}
    BY <1>1
  <2> HIDE DEF es
  <2> QED BY <1>1, <2>2, <2>3
<1>3. NewData(m) = [entries |-> es, inconsistent |-> FALSE, counted |-> FALSE,
                    postedValue |-> 0, posted |-> FALSE, confirmed |-> FALSE]
  BY DEF NewData
<1> HIDE DEF es
<1> QED BY <1>2, <1>3 DEF Filling, Data

\* A message leaves a record filling in order and its posted value alone.
LEMMA UpdatedFilling ==
  ASSUME NEW d, Filling(d), NEW m \in Feed
  PROVE  Filling(Updated(d, m)) /\ Updated(d, m).postedValue = d.postedValue
<1> DEFINE slot == [addr |-> m.addr, value |-> m.value]
<1>1. d \in Data /\ d.entries \in Seq(Slot) /\ d.entries # <<>> /\ slot \in Slot
  BY SlotOf DEF Filling, Data
<1>2. CASE Updated(d, m) = d
  BY <1>2
<1>3. CASE Updated(d, m) = Filled(d, m) /\ m.idx \in DOMAIN d.entries
  <2> DEFINE es == [d.entries EXCEPT ![m.idx] = slot]
  <2>1. Filled(d, m) = [d EXCEPT !.entries = es, !.posted = FALSE]
    BY <1>1 DEF Filled, Data
  <2>2. es \in Seq(Slot) /\ DOMAIN es = DOMAIN d.entries /\ es # <<>>
    <3> HIDE DEF slot
    <3>1. es \in Seq(Slot) /\ DOMAIN es = DOMAIN d.entries
      <4> DEFINE q == d.entries
      <4>1. q \in Seq(Slot)
        BY <1>1
      <4>2. m.idx \in 1..Len(q)
        BY <1>3, <4>1 DEF q
      <4> HIDE DEF q
      <4>3. [q EXCEPT ![m.idx] = slot] \in Seq(Slot) /\ DOMAIN [q EXCEPT ![m.idx] = slot] = DOMAIN q
        BY <1>1, <4>1, <4>2, ExceptSeq
      <4> QED BY <4>3 DEF q
    <3>2. m.idx \in DOMAIN es
      BY <1>3, <3>1
    <3> QED BY <3>1, <3>2
  <2> HIDE DEF es
  <2> QED BY <1>1, <1>3, <2>1, <2>2 DEF Filling, Data
<1>4. CASE Updated(d, m) = [d EXCEPT !.inconsistent = TRUE]
  BY <1>1, <1>4 DEF Filling, Data
<1>5. Updated(d, m) \in {d, [d EXCEPT !.inconsistent = TRUE]}
        \/ (Updated(d, m) = Filled(d, m) /\ m.idx \in DOMAIN d.entries)
  BY DEF Updated
<1> QED BY <1>2, <1>3, <1>4, <1>5

\* The value of the entries is a number that counts.
LEMMA SumEntriesNat ==
  ASSUME NEW es \in Seq(Slot), es # <<>> PROVE SumEntries(es) \in Nat
<1>1. /\ DOMAIN es = 1..Len(es) /\ Len(es) \in Nat
      /\ \A i \in DOMAIN es : es[i].value \in Int
  <2>1. DOMAIN es = 1..Len(es) /\ Len(es) \in Nat
    BY LenProperties
  <2>2. ASSUME NEW i \in DOMAIN es PROVE es[i].value \in Int
    <3>1. es[i] \in Slot
      BY <2>1, ElementOfSeq
    <3> QED BY <3>1 DEF Slot
  <2> QED BY <2>1, <2>2
<1>2. IsFiniteSet(DOMAIN es)
  <2>1. 1 \in Int /\ Len(es) \in Int
    BY <1>1
  <2> QED BY <1>1, <2>1, FS_Interval
<1>3. \A I \in SUBSET DOMAIN es : Total(es, I) \in Int
  <2> TAKE I \in SUBSET DOMAIN es
  <2>1. IsFiniteSet(I) /\ \A i \in I : es[i].value \in Int
    BY <1>1, <1>2, FS_Subset
  <2> QED BY <2>1, TotalInt
<1>4. Reminder(es) \in Int
  <2>1. Len(es) \in DOMAIN es
    BY <1>1
  <2> QED BY <1>1, <2>1 DEF Reminder
<1> DEFINE gains == {i \in DOMAIN es : es[i].value > 0 /\ Net(es, es[i].addr) > 0}
           moved == Total(es, gains) - Reminder(es)
<1>5. moved \in Int
  <2>1. Total(es, gains) \in Int
    <3>1. gains \in SUBSET DOMAIN es
      OBVIOUS
    <3> HIDE DEF gains
    <3> QED BY <1>3, <3>1
  <2> HIDE DEF gains
  <2> QED BY <1>4, <2>1
<1>6. SumEntries(es) = IF Total(es, DOMAIN es) = 0 /\ moved > 0 THEN moved ELSE 0
  BY DEF SumEntries
<1> HIDE DEF moved
<1> QED BY <1>5, <1>6

\* The loop posts a number.
LEMMA PostedFilling ==
  ASSUME NEW b \in Cached, Filling(bundles[b])
  PROVE  /\ Filling(Posted(b)) /\ SumBundle(bundles[b]) \in Nat
         /\ Posted(b).postedValue = SumBundle(bundles[b])
<1>1. bundles[b] \in Data /\ bundles[b].entries \in Seq(Slot) /\ bundles[b].entries # <<>>
  BY DEF Filling, Data
<1>2. SumBundle(bundles[b]) \in Nat
  BY <1>1, SumEntriesNat DEF SumBundle, Data
<1> QED BY <1>1, <1>2 DEF Posted, Filling, Data

\* A confirmation keeps the type and the posted value.
LEMMA ConfirmedFilling ==
  ASSUME NEW d, Filling(d)
  PROVE  Filling([d EXCEPT !.confirmed = TRUE])
         /\ [d EXCEPT !.confirmed = TRUE].postedValue = d.postedValue
BY DEF Filling, Data

-----------------------------------------------------------------------------
\* The counter of the volume.

\* The loop's part of TypeOK.
LEMMA NothingType ==
  Nothing \in [value : Int, bundles : Nat] /\ Nothing.value = 0 /\ Nothing.bundles = 0
BY DEF Nothing

\* A gain is a number, of which nothing is left out but what is below zero.
LEMMA GainIs == ASSUME NEW v \in Int PROVE Gain(v) \in Nat /\ Gain(v) >= v
BY DEF Gain

\* The values posted, by bundle.
PostedValues == [b \in Cached |-> bundles[b].postedValue]

\* They can be added up, in a state as in the next.
LEMMA PostedIntsOf ==
  ASSUME NEW bs, DOMAIN bs \subseteq Bundle, \A b \in DOMAIN bs : Filling(bs[b])
  PROVE  Ints([b \in DOMAIN bs |-> bs[b].postedValue], DOMAIN bs)
<1>1. \A b \in DOMAIN bs : bs[b].postedValue \in Nat
  BY DEF Filling, Data
<1>2. IsFiniteSet(DOMAIN bs)
  BY BundleAssumption, FS_Subset
<1> QED BY <1>1, <1>2 DEF Ints

\* Posted values are integers, before a step and after it.
LEMMA PostedInts ==
  /\ TypeInv => Ints(PostedValues, Cached)
  /\ TypeInv' => Ints(PostedValues', Cached')
BY PostedIntsOf DEF TypeInv, TypeOK, PostedValues, Cached

\* What is posted in all.
PostedTotal == SumOf(PostedValues, Cached)

\* The total is an integer, and the one VolumeCoversPosted speaks of.
LEMMA PostedTotalInt ==
  (TypeInv => PostedTotal \in Int) /\ (TypeInv' => PostedTotal' \in Int)
BY PostedInts, SumTakeOut DEF PostedTotal

\* The sum over the records is the total of the posted values.
LEMMA PostedTotalIs ==
  ASSUME TypeInv
  PROVE  SumFunction([b \in Cached |-> bundles[b].postedValue]) = PostedTotal
<1>1. DOMAIN PostedValues = Cached
  BY DEF PostedValues
<1>2. Ints(PostedValues, DOMAIN PostedValues)
  BY <1>1, PostedInts
<1>3. SumFunction(PostedValues) = PostedTotal
  BY <1>1, <1>2, SumFunctionIs DEF PostedTotal
<1> QED BY <1>3 DEF PostedValues

\* A step of the filter's goroutine keeps the types and what is posted.
LEMMA CollectKeeps ==
  ASSUME TypeInv,
         ProcessValueTxMsg \/ UNCHANGED vars
  PROVE  TypeInv' /\ PostedTotal' = PostedTotal /\ UNCHANGED <<volume, toAdd, forgotten>>
<1>0. /\ \A b \in Cached : Filling(bundles[b]) /\ bundles[b].postedValue \in Nat
      /\ Cached \subseteq Bundle /\ bundles \in [Cached -> Data]
      /\ marking \in Bundle \cup {NoBundle}
  BY DEF TypeInv, TypeOK, Filling, Data
<1> DEFINE Kept == /\ Cached \subseteq Cached' /\ Cached' \subseteq Bundle
                   /\ bundles' \in [Cached' -> Data]
                   /\ \A b \in Cached' : Filling(bundles'[b])
                   /\ \A b \in Cached : bundles'[b].postedValue = bundles[b].postedValue
                   /\ \A b \in Cached' \ Cached : bundles'[b].postedValue = 0
                   /\ marking' \in Bundle \cup {NoBundle}
                   /\ UNCHANGED <<volume, transfers, toAdd, forgotten>>
<1>1. ASSUME NEW m \in Feed, UpdateBundleData(m) PROVE Kept
  <2>1. Cached' = Cached \cup {m.bundle} /\ Cached' \subseteq Bundle
    BY <1>1, FeedFields DEF UpdateBundleData, Cached, TypeInv, TypeOK
  <2>2. /\ bundles' \in [Cached' -> {bundles'[b] : b \in Cached'}]
        /\ \A b \in Cached' : bundles'[b] = IF b # m.bundle THEN bundles[b]
                                            ELSE IF b \in Cached THEN Updated(bundles[b], m)
                                            ELSE NewData(m)
    BY <1>1, <2>1 DEF UpdateBundleData, Cached
  <2>3. ASSUME NEW b \in Cached
        PROVE Filling(bundles'[b]) /\ bundles'[b].postedValue = bundles[b].postedValue
    <3>1. CASE b = m.bundle
      <4>1. bundles'[b] = Updated(bundles[b], m)
        BY <2>1, <2>2, <3>1
      <4> QED BY <1>0, <4>1, UpdatedFilling
    <3>2. CASE b # m.bundle
      BY <1>0, <2>1, <2>2, <3>2
    <3> QED BY <3>1, <3>2
  <2>4. ASSUME NEW b \in Cached' \ Cached PROVE Filling(bundles'[b]) /\ bundles'[b].postedValue = 0
    <3>1. bundles'[b] = NewData(m)
      BY <2>1, <2>2
    <3> QED BY <3>1, NewDataFilling DEF NewData
  <2>5. marking' \in Bundle \cup {NoBundle} /\ UNCHANGED <<volume, transfers, toAdd, forgotten>>
    BY <1>1 DEF UpdateBundleData
  <2>6. bundles' \in [Cached' -> Data]
    <3>1. \A b \in Cached' : bundles'[b] \in Data
      BY <2>1, <2>3, <2>4 DEF Filling
    <3> QED BY <2>2, <3>1
  <2>7. Cached \subseteq Cached'
    BY <2>1
  <2> QED BY <2>1, <2>3, <2>4, <2>5, <2>6, <2>7
<1>2. ASSUME NEW c \in Bundle, FindConfirmed(c) PROVE Kept
  BY <1>0, <1>2 DEF FindConfirmed, Cached, TypeInv, TypeOK
<1>3. ASSUME MarkConfirmed PROVE Kept
  <2>1. /\ Cached' = Cached /\ bundles' \in [Cached -> {bundles'[b] : b \in Cached}]
        /\ \A b \in Cached : bundles'[b] = IF b = marking
                                           THEN [bundles[b] EXCEPT !.confirmed = TRUE]
                                           ELSE bundles[b]
    BY <1>3 DEF MarkConfirmed, Cached
  <2>2. \A b \in Cached :
          Filling(bundles'[b]) /\ bundles'[b].postedValue = bundles[b].postedValue
    BY <1>0, <2>1, ConfirmedFilling
  <2>3. marking' = NoBundle /\ UNCHANGED <<volume, transfers, toAdd, forgotten>>
    BY <1>3 DEF MarkConfirmed
  <2>4. bundles' \in [Cached' -> Data]
    <3>1. \A b \in Cached : bundles'[b] \in Data
      BY <2>2 DEF Filling
    <3> QED BY <2>1, <3>1
  <2> QED BY <1>0, <2>1, <2>2, <2>3, <2>4
<1>4. ASSUME UNCHANGED vars PROVE Kept
  <2>1. Cached' = Cached /\ UNCHANGED <<bundles, marking, volume, transfers, toAdd, forgotten>>
    BY <1>4 DEF vars, Cached
  <2> QED BY <1>0, <2>1
<1>5. Kept
  <2> HIDE DEF Kept
  <2>1. \/ \E m \in Feed : UpdateBundleData(m)
        \/ \E c \in Bundle : FindConfirmed(c)
        \/ MarkConfirmed
        \/ UNCHANGED vars
    BY DEF ProcessValueTxMsg
  <2> QED BY <2>1, <1>1, <1>2, <1>3, <1>4
<1>6. TypeInv'
  BY <1>5 DEF TypeInv, TypeOK, Filling
<1>7. PostedTotal' = PostedTotal
  <2>1. Ints(PostedValues', Cached')
    BY <1>6, PostedInts
  <2>2. \A b \in Cached' \ Cached : PostedValues'[b] = 0
    BY <1>5 DEF PostedValues
  <2>3. SumOf(PostedValues', Cached') = SumOf(PostedValues', Cached)
    BY <1>5, <2>1, <2>2, SumDrop
  <2>4. \A b \in Cached : PostedValues'[b] = PostedValues[b]
    BY <1>5 DEF PostedValues
  <2>5. SumOf(PostedValues', Cached) = SumOf(PostedValues, Cached)
    BY <2>4, PostedInts, SumSame
  <2> QED BY <2>3, <2>5 DEF PostedTotal
<1> QED BY <1>5, <1>6, <1>7

\* The loop adds to what is posted what it is about to add to the volume.
LEMMA MetricsKeeps ==
  ASSUME TypeInv, UpdateBundleMetrics
  PROVE  /\ TypeInv' /\ UNCHANGED <<volume, forgotten>>
         /\ TotalNewConfirmedValue \in Int
         /\ PostedTotal' = PostedTotal + TotalNewConfirmedValue
         /\ toAdd = Nothing /\ toAdd'.value = TotalNewConfirmedValue
<1>0. /\ \A b \in Cached : Filling(bundles[b]) /\ bundles[b].postedValue \in Nat
      /\ Posting \subseteq Cached /\ IsFiniteSet(Cached) /\ Cached \subseteq Bundle
  BY PostedInts DEF TypeInv, TypeOK, Filling, Data, Posting, Ints
<1>1. \A b \in Cached : /\ Filling(Posted(b)) /\ SumBundle(bundles[b]) \in Nat
                        /\ Posted(b).postedValue = SumBundle(bundles[b])
  BY <1>0, PostedFilling
<1>2. \A b \in Cached : DeltaValue(b) \in Int
  BY <1>0, <1>1 DEF DeltaValue
<1>3. /\ Cached' = Cached /\ bundles' = [b \in Cached' |-> bundles'[b]]
      /\ \A b \in Cached : bundles'[b] = IF b \in Posting THEN Posted(b) ELSE bundles[b]
      /\ UNCHANGED <<marking, volume, transfers, forgotten>>
      /\ toAdd = Nothing
      /\ toAdd' = [value |-> TotalNewConfirmedValue,
                   bundles |-> Cardinality(NewConfirmedBundles)]
  BY DEF UpdateBundleMetrics, Cached
<1> DEFINE delta == [b \in Posting |-> DeltaValue(b)]
           added == [b \in Cached |-> IF b \in Posting THEN DeltaValue(b) ELSE 0]
<1>4. Ints(delta, Posting) /\ DOMAIN delta = Posting /\ Ints(added, Cached)
  <2>1. IsFiniteSet(Posting)
    BY <1>0, FS_Subset
  <2> QED BY <1>0, <1>2, <2>1 DEF Ints
<1>5. TotalNewConfirmedValue = SumOf(delta, Posting) /\ TotalNewConfirmedValue \in Int
  <2>1. TotalNewConfirmedValue = SumFunction(delta)
    BY DEF TotalNewConfirmedValue
  <2> HIDE DEF delta
  <2> QED BY <1>4, <2>1, SumFunctionIs, SumTakeOut
<1>6. SumOf(added, Cached) = SumOf(delta, Posting)
  <2>1. \A b \in Cached \ Posting : added[b] = 0
    OBVIOUS
  <2>2. \A b \in Posting : added[b] = delta[b]
    BY <1>0
  <2> HIDE DEF added, delta
  <2>3. SumOf(added, Cached) = SumOf(added, Posting)
    BY <1>0, <1>4, <2>1, SumDrop
  <2>4. SumOf(added, Posting) = SumOf(delta, Posting)
    BY <1>4, <2>2, SumSame
  <2> QED BY <2>3, <2>4
<1>7. SumOf(PostedValues', Cached) = SumOf(PostedValues, Cached) + SumOf(added, Cached)
  <2>1. ASSUME NEW b \in Cached PROVE PostedValues'[b] = PostedValues[b] + added[b]
    <3>1. PostedValues'[b] = bundles'[b].postedValue /\ PostedValues[b] = bundles[b].postedValue
      BY <1>3 DEF PostedValues
    <3>2. CASE b \in Posting
      <4>1. bundles[b].confirmed
        BY <3>2 DEF Posting, DeltaValue
      <4>2. DeltaValue(b) = SumBundle(bundles[b]) - bundles[b].postedValue
        BY <4>1 DEF DeltaValue
      <4>3. bundles'[b].postedValue = SumBundle(bundles[b])
        BY <1>1, <1>3, <3>2
      <4>4. added[b] = DeltaValue(b)
        BY <3>2
      <4> HIDE DEF added
      <4> QED BY <1>0, <1>1, <3>1, <4>2, <4>3, <4>4
    <3>3. CASE b \notin Posting
      BY <1>0, <1>3, <3>1, <3>3
    <3> QED BY <3>2, <3>3
  <2> HIDE DEF added
  <2> QED BY <1>4, <2>1, PostedInts, SumPlus
<1>8. PostedTotal' = PostedTotal + TotalNewConfirmedValue
  <2> HIDE DEF added, delta
  <2> QED BY <1>3, <1>5, <1>6, <1>7 DEF PostedTotal
<1>9. TypeInv'
  <2>1. \A b \in Cached' : Filling(bundles'[b])
    BY <1>0, <1>1, <1>3
  <2>2. toAdd' \in [value : Int, bundles : Nat]
    <3>1. NewConfirmedBundles \subseteq Cached
      BY <1>0 DEF NewConfirmedBundles
    <3>2. Cardinality(NewConfirmedBundles) \in Nat
      BY <1>0, <3>1, FS_Subset, FS_CardinalityType
    <3> QED BY <1>3, <1>5, <3>2
  <2> QED BY <1>0, <1>3, <2>1, <2>2 DEF TypeInv, TypeOK, Filling
<1> QED BY <1>3, <1>5, <1>8, <1>9

\* What it is about to add it adds, unless that is below zero.
LEMMA CountersKeep ==
  ASSUME TypeInv, AddToCounters
  PROVE  /\ TypeInv' /\ PostedTotal' = PostedTotal /\ UNCHANGED forgotten
         /\ volume' = volume + Gain(toAdd.value) /\ toAdd' = Nothing
<1>1. /\ Cached' = Cached /\ UNCHANGED <<bundles, marking, forgotten>> /\ toAdd' = Nothing
      /\ volume' = volume + Gain(toAdd.value) /\ transfers' = transfers + toAdd.bundles
  BY DEF AddToCounters, Cached
<1>2. volume' \in Nat /\ transfers' \in Nat
  BY <1>1, GainIs DEF TypeInv, TypeOK
<1>3. TypeInv'
  BY <1>1, <1>2, NothingType DEF TypeInv, TypeOK, Filling
<1>4. PostedValues' = PostedValues
  BY <1>1 DEF PostedValues
<1> QED BY <1>1, <1>3, <1>4 DEF PostedTotal

\* What is forgotten goes from what is posted to what was.
LEMMA ForgetKeeps ==
  ASSUME TypeInv, NEW c \in Bundle, Forget(c)
  PROVE  /\ TypeInv' /\ UNCHANGED <<volume, toAdd>>
         /\ forgotten'.posted + PostedTotal' = forgotten.posted + PostedTotal
<1>0. /\ c \in Cached /\ bundles[c].postedValue \in Nat
      /\ forgotten.posted \in Nat /\ forgotten.counted \in Nat /\ forgotten.bundles \in 0..MaxForgets
      /\ forgotten.bundles < MaxForgets /\ MaxForgets \in Nat
  BY BundleAssumption DEF TypeInv, TypeOK, Forget, Filling, Data
<1>1. /\ Cached' = Cached \ {c} /\ bundles' = [b \in Cached' |-> bundles'[b]]
      /\ \A b \in Cached' : bundles'[b] = bundles[b]
      /\ UNCHANGED <<marking, volume, transfers, toAdd>>
  BY DEF Forget, Cached, Restrict
<1>2. forgotten' = [bundles |-> forgotten.bundles + 1,
                   counted |-> forgotten.counted + (IF bundles[c].counted THEN 1 ELSE 0),
                   posted |-> forgotten.posted + bundles[c].postedValue]
  BY DEF Forget
<1>3. TypeInv'
  <2>1. forgotten' \in [bundles : 0..MaxForgets, counted : Nat, posted : Nat]
    <3>1. /\ forgotten.bundles + 1 \in 0..MaxForgets
          /\ forgotten.counted + (IF bundles[c].counted THEN 1 ELSE 0) \in Nat
          /\ forgotten.posted + bundles[c].postedValue \in Nat
      BY <1>0
    <3> QED BY <1>2, <3>1
  <2> QED BY <1>1, <2>1 DEF TypeInv, TypeOK, Filling
<1>4. SumOf(PostedValues, Cached) = PostedValues[c] + SumOf(PostedValues, Cached \ {c})
  BY <1>0, PostedInts, SumTakeOut
<1>5. SumOf(PostedValues, Cached') = SumOf(PostedValues', Cached')
  <2>1. \A b \in Cached' : PostedValues[b] = PostedValues'[b]
    BY <1>1 DEF PostedValues
  <2>2. Ints(PostedValues', Cached')
    BY <1>3, PostedInts
  <2> QED BY <2>1, <2>2, SumSame
<1>6. PostedTotal = bundles[c].postedValue + PostedTotal'
  BY <1>0, <1>1, <1>4, <1>5 DEF PostedTotal, PostedValues
<1>7. forgotten'.posted = forgotten.posted + bundles[c].postedValue /\ PostedTotal' \in Int
  BY <1>2, <1>3, PostedTotalInt
<1> QED BY <1>0, <1>1, <1>3, <1>6, <1>7

\* The strengthening of VolumeCoversPosted.
VolumeInv == TypeInv /\ volume + Gain(toAdd.value) >= forgotten.posted + PostedTotal

\* Every step keeps the strengthening: posting moves no counter and adding to
\* the counters posts nothing, but what the one promises the other adds.
LEMMA VolumeInvStep == VolumeInv /\ [Next]_vars => VolumeInv'
<1> SUFFICES ASSUME VolumeInv, [Next]_vars PROVE VolumeInv'
  OBVIOUS
<1>0. /\ TypeInv /\ PostedTotal \in Int /\ volume \in Nat /\ forgotten.posted \in Nat
      /\ toAdd.value \in Int /\ Gain(toAdd.value) \in Nat
      /\ volume + Gain(toAdd.value) >= forgotten.posted + PostedTotal
  BY PostedTotalInt, GainIs DEF VolumeInv, TypeInv, TypeOK
<1>g. Gain(Nothing.value) = 0
  BY NothingType DEF Gain
<1>1. CASE ProcessValueTxMsg \/ UNCHANGED vars
  BY <1>0, <1>1, CollectKeeps DEF VolumeInv
<1>2. CASE UpdateBundleMetrics
  <2>1. /\ TypeInv' /\ UNCHANGED <<volume, forgotten>>
        /\ PostedTotal' = PostedTotal + TotalNewConfirmedValue
        /\ toAdd = Nothing /\ toAdd'.value = TotalNewConfirmedValue
        /\ TotalNewConfirmedValue \in Int
    BY <1>0, <1>2, MetricsKeeps
  <2>2. Gain(toAdd'.value) \in Nat /\ Gain(toAdd'.value) >= TotalNewConfirmedValue
    BY <2>1, GainIs
  <2>3. volume >= forgotten.posted + PostedTotal
    BY <1>0, <1>g, <2>1
  <2>4. volume' + Gain(toAdd'.value) >= forgotten'.posted + PostedTotal'
    BY <1>0, <2>1, <2>2, <2>3
  <2> QED BY <2>1, <2>4 DEF VolumeInv
<1>3. CASE AddToCounters
  <2>1. /\ TypeInv' /\ PostedTotal' = PostedTotal /\ UNCHANGED forgotten
        /\ volume' = volume + Gain(toAdd.value) /\ toAdd' = Nothing
    BY <1>0, <1>3, CountersKeep
  <2>2. volume' + Gain(toAdd'.value) >= forgotten'.posted + PostedTotal'
    BY <1>0, <1>g, <2>1
  <2> QED BY <2>1, <2>2 DEF VolumeInv
<1>4. ASSUME NEW c \in Bundle, Forget(c) PROVE VolumeInv'
  BY <1>0, <1>4, ForgetKeeps DEF VolumeInv
<1> QED BY <1>1, <1>2, <1>3, <1>4 DEF Next, UpdateBundleMetricsLoop

\* The volume invariant holds of every behaviour.
LEMMA VolumeInvAlways == Spec => []VolumeInv
<1>1. ASSUME Init PROVE VolumeInv
  <2>1. Cached = {} /\ bundles = [b \in Cached |-> bundles[b]] /\ volume = 0 /\ transfers = 0
        /\ toAdd = Nothing /\ forgotten = [bundles |-> 0, counted |-> 0, posted |-> 0]
    BY <1>1 DEF Init, Cached
  <2>2. TypeInv
    BY <1>1, <2>1, NothingType, BundleAssumption DEF Init, TypeInv, TypeOK
  <2>3. PostedTotal = 0
    BY <2>1, <2>2, PostedInts, SumTakeOut DEF PostedTotal
  <2>4. Gain(toAdd.value) = 0
    BY <2>1, NothingType DEF Gain
  <2> QED BY <2>1, <2>2, <2>3, <2>4 DEF VolumeInv
<1> QED BY <1>1, VolumeInvStep, PTL DEF Spec

\* Every variable keeps its type; that the value of a bundle is a number that
\* never lowers the volume counter takes the sums above.
THEOREM TypeCorrect == Spec => []TypeOK
<1>1. VolumeInv => TypeOK
  BY DEF VolumeInv, TypeInv
<1> QED BY <1>1, VolumeInvAlways, PTL

\* For any bundles, strays and order of steps the volume counter is behind the
\* total of the values posted by no more than what the turn under way is about
\* to add, though it adds the changes of a turn together and leaves out a turn
\* whose changes are below zero in all.
THEOREM VolumeCoversPostedAlways == Spec => []VolumeCoversPosted
<1>1. VolumeInv => VolumeCoversPosted
  BY PostedTotalIs DEF VolumeInv, VolumeCoversPosted
<1> QED BY <1>1, VolumeInvAlways, PTL
=============================================================================
