---------------------------- MODULE Buffers_proofs ----------------------------
(***************************************************************************)
(* Proofs about the expiring buffer and the two components built on it,    *)
(* the hash cache and the buffers of event time stamps, for all durations  *)
(* and all bounds.                                                         *)
(*                                                                         *)
(* 1. ExpiringBuffer: types, the purge goroutine, the order of segments.   *)
(* 2. HashCache: it embeds the buffer, holds one copy of a hash and        *)
(*    implements RetentionCache.                                           *)
(* 3. EventBuffer: it embeds the buffer, what it counts is exact, and the  *)
(*    time it returns with the count covers what is counted.               *)
(***************************************************************************)
EXTENDS HashCache, EventBuffer, SequenceTheorems, WellFoundedInduction, TLAPS

-----------------------------------------------------------------------------
\* 1. The expiring buffer.

\* Type correctness, and what each action does to the list of segments.

\* The time stamps of every segment are numbers.
LEMMA SegmentFields ==
  ASSUME TypeOK, NEW i \in 1..Len(segs)
  PROVE  /\ segs[i] \in Segment
         /\ segs[i].created \in Nat
         /\ segs[i].lastTouch \in Nat
<1>1. segs[i] \in Segment
  BY DEF TypeOK
<1> QED BY <1>1 DEF Segment

\* NewEntry leaves a list whose top is open and just touched; whether it pushes
\* a segment or touches the top, the segments behind are kept as they are.
LEMMA NewEntryList ==
  ASSUME TypeOK, NewEntry
  PROVE  /\ segs' \in Seq(Segment)
         /\ Len(segs') = IF NeedsSegment THEN Len(segs) + 1 ELSE Len(segs)
         /\ segs' # <<>>
         /\ NeedsSegment => /\ segs'[1] = NewSegment
                            /\ \A i \in 1..Len(segs) : segs'[i + 1] = segs[i]
         /\ ~NeedsSegment => 
              /\ segs # <<>>
              /\ IsOpen(segs[1])
              /\ segs'[1] = [segs[1] EXCEPT !.lastTouch = clock]
              /\ \A i \in 2..Len(segs) : segs'[i] = segs[i]
<1>0. NewSegment \in Segment
  BY DEF TypeOK, NewSegment, Segment
<1>1. CASE NeedsSegment
  <2>1. segs' = <<NewSegment>> \o segs
    BY <1>1 DEF NewEntry, Pushed
  <2>2. <<NewSegment>> \in Seq(Segment) /\ segs \in Seq(Segment)
    BY <1>0 DEF TypeOK
  <2>3. segs' \in Seq(Segment) /\ Len(segs') = Len(segs) + 1
    BY <2>1, <2>2
  <2>4. segs'[1] = NewSegment /\ \A i \in 1..Len(segs) : segs'[i + 1] = segs[i]
    BY <2>1, <2>2
  <2> QED BY <1>1, <2>3, <2>4, <2>2
<1>2. CASE ~NeedsSegment
  <2>1. segs' = [segs EXCEPT ![1].lastTouch = clock]
    BY <1>2 DEF NewEntry, Retouched
  <2>2. segs # <<>> /\ IsOpen(segs[1]) /\ segs \in Seq(Segment)
    BY <1>2 DEF NeedsSegment, TypeOK
  <2>3. 1 \in 1..Len(segs) /\ segs[1] \in Segment
    BY <2>2
  <2>4. [segs[1] EXCEPT !.lastTouch = clock] \in Segment
    BY <2>3 DEF TypeOK, Segment
  <2>5. segs' = [segs EXCEPT ![1] = [segs[1] EXCEPT !.lastTouch = clock]]
    BY <2>1, <2>3
  <2>6. segs' \in Seq(Segment) /\ Len(segs') = Len(segs)
    BY <2>2, <2>3, <2>4, <2>5
  <2> QED BY <1>2, <2>2, <2>3, <2>5, <2>6
<1> QED BY <1>1, <1>2

\* A purge pass keeps the segments before the first expired one, unchanged.
LEMMA PurgeList ==
  ASSUME TypeOK, NEW n \in 0..Len(segs), Purge(n)
  PROVE  /\ segs' \in Seq(Segment)
         /\ Len(segs') = n
         /\ \A i \in 1..n : segs'[i] = segs[i]
         /\ \A i \in 1..n : ~IsExpired(segs[i])
         /\ n < Len(segs) => IsExpired(segs[n + 1])
<1>1. segs' = SubSeq(segs, 1, n) /\ WalkEnds(n) /\ segs \in Seq(Segment)
  BY DEF Purge, TypeOK
<1>2. segs' \in Seq(Segment) /\ Len(segs') = n /\ \A i \in 1..n : segs'[i] = segs[i]
  BY <1>1
<1> QED BY <1>1, <1>2 DEF WalkEnds

\* Every step of the buffer preserves the types.
LEMMA TypeStep == TypeOK /\ [Next]_vars => TypeOK'
<1> SUFFICES ASSUME TypeOK, [Next]_vars PROVE TypeOK'
  OBVIOUS
<1>1. CASE NewEntry
  BY <1>1, NewEntryList DEF TypeOK, NewEntry
<1>2. CASE PurgePass
  <2> PICK n \in 0..Len(segs) : Purge(n)
    BY <1>2 DEF PurgePass
  <2> QED BY PurgeList DEF TypeOK, Purge, PurgeReturns
<1>3. CASE Tick
  BY <1>3, ClockAssumption DEF TypeOK, Tick
<1>4. CASE StepBack
  BY <1>4, ClockAssumption DEF TypeOK, StepBack
<1>5. CASE UNCHANGED vars
  BY <1>5 DEF TypeOK, vars
<1> QED BY <1>1, <1>2, <1>3, <1>4, <1>5 DEF Next

\* The clock, the segments and the number of goroutines keep their types.
THEOREM TypeCorrect == Spec => []TypeOK
<1>1. Init => TypeOK
  BY ClockAssumption DEF Init, TypeOK
<1> QED BY <1>1, TypeStep, PTL DEF Spec

-----------------------------------------------------------------------------
\* Every step keeps one purge goroutine for a non-empty buffer, none for an empty.
LEMMA OnePurgeLoopStep ==
  TypeOK /\ OnePurgeLoop /\ [Next]_vars => OnePurgeLoop'
<1> SUFFICES ASSUME TypeOK, OnePurgeLoop, [Next]_vars PROVE OnePurgeLoop'
  OBVIOUS
<1>1. CASE NewEntry
  BY <1>1, NewEntryList DEF OnePurgeLoop, NewEntry, StartsLoop
<1>2. CASE PurgePass
  <2> PICK n \in 0..Len(segs) : Purge(n)
    BY <1>2 DEF PurgePass
  <2>1. segs # <<>> /\ loops = 1
    BY DEF Purge, OnePurgeLoop
  <2>2. Len(segs') = n /\ segs' \in Seq(Segment)
    BY PurgeList
  <2>3. (segs' = <<>>) <=> (n = 0)
    BY <2>2
  <2> QED BY <2>1, <2>3 DEF Purge, PurgeReturns, OnePurgeLoop
<1>3. CASE Tick
  BY <1>3 DEF OnePurgeLoop, Tick
<1>4. CASE StepBack
  BY <1>4 DEF OnePurgeLoop, StepBack
<1>5. CASE UNCHANGED vars
  BY <1>5 DEF OnePurgeLoop, vars
<1> QED BY <1>1, <1>2, <1>3, <1>4, <1>5 DEF Next

\* However entries, purge passes and corrections of the clock interleave, one
\* purge goroutine runs while the buffer holds a segment and none otherwise.
THEOREM OnePurgeLoopAlways == Spec => []OnePurgeLoop
<1>1. Init => OnePurgeLoop
  BY DEF Init, OnePurgeLoop
<1> QED BY <1>1, TypeCorrect, OnePurgeLoopStep, PTL DEF Spec

-----------------------------------------------------------------------------
\* The strengthening behind the early end of both walks: with a clock that is
\* never set back the segments are ordered in time and none is of the future.
OrderInv == TouchedWhileOpen /\ SegmentsInOrder /\ NoFutureSegment

\* Every step but the clock's being set back keeps the segments in order.
LEMMA OrderForward ==
  ASSUME TypeOK, OrderInv, NewEntry \/ PurgePass \/ Tick \/ UNCHANGED vars
  PROVE  OrderInv'
<1> USE DEF OrderInv, TouchedWhileOpen, SegmentsInOrder, NoFutureSegment
<1>0. \A i \in 1..Len(segs) : /\ segs[i] \in Segment
                              /\ segs[i].created \in Nat
                              /\ segs[i].lastTouch \in Nat
  BY SegmentFields
<1>1. CASE NewEntry
  <2>1. clock \in Nat /\ clock' = clock /\ segs \in Seq(Segment) /\ segs' \in Seq(Segment)
    BY <1>1, NewEntryList DEF NewEntry, TypeOK
  <2>2. CASE NeedsSegment
    <3>1. /\ Len(segs') = Len(segs) + 1
          /\ segs'[1].created = clock /\ segs'[1].lastTouch = clock
          /\ \A i \in 1..Len(segs) : segs'[i + 1] = segs[i]
      BY <1>1, <2>2, NewEntryList DEF NewSegment
    <3>2. \A i \in 2..Len(segs') : i - 1 \in 1..Len(segs) /\ segs'[i] = segs[i - 1]
      <4> TAKE i \in 2..Len(segs')
      <4>1. i - 1 \in 1..Len(segs)
        BY <2>1, <3>1
      <4>2. segs'[(i - 1) + 1] = segs[i - 1]
        BY <4>1, <3>1
      <4> QED BY <4>1, <4>2
    <3>3. TouchedWhileOpen'
      <4> SUFFICES ASSUME NEW i \in 1..Len(segs')
                   PROVE  /\ segs'[i].created <= segs'[i].lastTouch
                          /\ segs'[i].lastTouch < segs'[i].created + SegDuration
        OBVIOUS
      <4>1. CASE i = 1
        BY <4>1, <3>1, <2>1, DurationsAssumption
      <4>2. CASE i # 1
        BY <4>2, <3>1, <3>2, <2>1
      <4> QED BY <4>1, <4>2
    <3>4. NoFutureSegment'
      <4> SUFFICES ASSUME NEW i \in 1..Len(segs') PROVE segs'[i].lastTouch <= clock'
        OBVIOUS
      <4>1. CASE i = 1
        BY <4>1, <3>1, <2>1
      <4>2. CASE i # 1
        <5>1. i - 1 \in 1..Len(segs) /\ segs'[i] = segs[i - 1]
          BY <4>2, <3>1, <3>2, <2>1
        <5> QED BY <5>1, <2>1
      <4> QED BY <4>1, <4>2
    <3>5. SegmentsInOrder'
      <4> SUFFICES ASSUME NEW i \in 1..Len(segs'), NEW j \in 1..Len(segs'), i < j
                   PROVE  segs'[j].lastTouch <= segs'[i].created
        OBVIOUS
      <4>1. j - 1 \in 1..Len(segs) /\ segs'[j] = segs[j - 1]
        BY <3>2, <2>1, <3>1
      <4>2. CASE i = 1
        BY <4>1, <4>2, <3>1, <2>1, <1>0
      <4>3. CASE i # 1
        <5>1. i - 1 \in 1..Len(segs) /\ segs'[i] = segs[i - 1] /\ i - 1 < j - 1
          BY <4>3, <3>2, <2>1, <3>1
        <5> QED BY <5>1, <4>1
      <4> QED BY <4>2, <4>3
    <3> QED BY <3>3, <3>4, <3>5
  <2>3. CASE ~NeedsSegment
    <3>1. /\ Len(segs') = Len(segs) /\ 1 \in 1..Len(segs)
          /\ segs'[1].created = segs[1].created /\ segs'[1].lastTouch = clock
          /\ \A i \in 2..Len(segs) : segs'[i] = segs[i]
      <4>1. /\ Len(segs') = Len(segs) /\ segs # <<>>
            /\ segs'[1] = [segs[1] EXCEPT !.lastTouch = clock]
            /\ \A i \in 2..Len(segs) : segs'[i] = segs[i]
        BY <1>1, <2>3, NewEntryList
      <4>2. 1 \in 1..Len(segs)
        BY <4>1, <2>1
      <4>3. segs[1] \in [created : Nat, lastTouch : Nat]
        BY <4>2, <1>0 DEF Segment
      <4> QED BY <4>1, <4>2, <4>3
    <3>2. segs[1].created <= clock /\ clock < segs[1].created + SegDuration
      <4>1. IsOpen(segs[1])
        BY <1>1, <2>3, NewEntryList
      <4>2. segs[1].created <= segs[1].lastTouch /\ segs[1].lastTouch <= clock
        BY <3>1
      <4> QED BY <4>1, <4>2, <2>1, <3>1, <1>0, DurationsAssumption DEF IsOpen, Elapsed
    <3> QED BY <2>1, <3>1, <3>2, <1>0
  <2> QED BY <2>2, <2>3
<1>2. CASE PurgePass
  <2> PICK n \in 0..Len(segs) : Purge(n)
    BY <1>2 DEF PurgePass
  <2>1. n \in Nat /\ n <= Len(segs) /\ Len(segs) \in Nat
    BY DEF TypeOK
  <2> QED BY PurgeList, <2>1 DEF Purge
<1>3. CASE Tick
  BY <1>3, <1>0 DEF Tick, TypeOK
<1>4. CASE UNCHANGED vars
  BY <1>4 DEF vars
<1> QED BY <1>1, <1>2, <1>3, <1>4

\* Every step keeps the segments in order while the clock only advances.
LEMMA OrderStep ==
  ASSUME MaxBack = 0, TypeOK, OrderInv, [Next]_vars
  PROVE  OrderInv'
<1>1. ~StepBack
  BY DEF StepBack
<1> QED BY <1>1, OrderForward DEF Next

\* While the clock is never set back the segments stay ordered in time.
THEOREM OrderAlways == ASSUME MaxBack = 0 PROVE Spec => []OrderInv
<1>1. Init => OrderInv
  BY DEF Init, OrderInv, TouchedWhileOpen, SegmentsInOrder, NoFutureSegment
<1>2. TypeOK /\ OrderInv /\ [Next]_vars => OrderInv'
  BY OrderStep
<1> QED BY <1>1, <1>2, TypeCorrect, PTL DEF Spec

-----------------------------------------------------------------------------
\* What holds even when the clock is set back: stamps come from the clock, so
\* Elapsed tells a stamp of the future from every stamp of the past.
StampInv ==
  /\ TouchedWhileOpen
  /\ \A i \in 1..Len(segs) : segs[i].lastTouch <= MaxClock

\* Every action keeps the stamps of the segments in their bounds.
LEMMA StampStep ==
  ASSUME TypeOK, StampInv, [Next]_vars
  PROVE  StampInv'
<1> USE DEF StampInv, TouchedWhileOpen
<1>0. \A i \in 1..Len(segs) : /\ segs[i] \in Segment
                              /\ segs[i].created \in Nat
                              /\ segs[i].lastTouch \in Nat
  BY SegmentFields
<1>1. CASE NewEntry
  <2>1. /\ clock \in Nat /\ clock <= MaxClock /\ clock' = clock
        /\ segs \in Seq(Segment) /\ segs' \in Seq(Segment)
    BY <1>1, NewEntryList, ClockAssumption DEF NewEntry, TypeOK
  <2>2. CASE NeedsSegment
    <3>1. /\ Len(segs') = Len(segs) + 1
          /\ segs'[1].created = clock /\ segs'[1].lastTouch = clock
          /\ \A i \in 1..Len(segs) : segs'[i + 1] = segs[i]
      BY <1>1, <2>2, NewEntryList DEF NewSegment
    <3>2. ASSUME NEW i \in 1..Len(segs'), i # 1
          PROVE  i - 1 \in 1..Len(segs) /\ segs'[i] = segs[i - 1]
      <4>1. i - 1 \in 1..Len(segs)
        BY <2>1, <3>1, <3>2
      <4>2. segs'[(i - 1) + 1] = segs[i - 1]
        BY <4>1, <3>1
      <4> QED BY <4>1, <4>2
    <3> SUFFICES ASSUME NEW i \in 1..Len(segs')
                 PROVE  /\ segs'[i].created <= segs'[i].lastTouch
                        /\ segs'[i].lastTouch < segs'[i].created + SegDuration
                        /\ segs'[i].lastTouch <= MaxClock
      OBVIOUS
    <3>3. CASE i = 1
      BY <3>3, <3>1, <2>1, DurationsAssumption
    <3>4. CASE i # 1
      BY <3>4, <3>2
    <3> QED BY <3>3, <3>4
  <2>3. CASE ~NeedsSegment
    <3>1. /\ Len(segs') = Len(segs) /\ segs # <<>> /\ IsOpen(segs[1])
          /\ segs'[1] = [segs[1] EXCEPT !.lastTouch = clock]
          /\ \A i \in 2..Len(segs) : segs'[i] = segs[i]
      BY <1>1, <2>3, NewEntryList
    <3>2. 1 \in 1..Len(segs)
      BY <3>1, <2>1
    <3>3. segs[1] \in [created : Nat, lastTouch : Nat]
      BY <3>2, <1>0 DEF Segment
    <3>4. segs'[1].created = segs[1].created /\ segs'[1].lastTouch = clock
      BY <3>1, <3>3
    <3>5. segs[1].created <= clock /\ clock < segs[1].created + SegDuration
      <4>1. segs[1].created <= MaxClock /\ segs[1].created \in Nat
        BY <3>2, <1>0, ClockAssumption
      <4> QED BY <4>1, <3>1, <2>1, DurationsAssumption, ClockAssumption
              DEF IsOpen, Elapsed
    <3>6. \A i \in 1..Len(segs') : i = 1 \/ i \in 2..Len(segs)
      BY <3>1, <2>1
    <3> QED BY <2>1, <3>1, <3>4, <3>5, <3>6
  <2> QED BY <2>2, <2>3
<1>2. CASE PurgePass
  <2> PICK n \in 0..Len(segs) : Purge(n)
    BY <1>2 DEF PurgePass
  <2>1. n \in Nat /\ n <= Len(segs) /\ Len(segs) \in Nat
    BY DEF TypeOK
  <2> QED BY PurgeList, <2>1 DEF Purge
<1>3. CASE Tick \/ StepBack \/ UNCHANGED vars
  BY <1>3 DEF Tick, StepBack, vars
<1> QED BY <1>1, <1>2, <1>3 DEF Next

\* Only a bound on the stamps is needed for the next theorem, not an order.
LEMMA StampAlways == Spec => []StampInv
<1>1. Init => StampInv
  BY DEF Init, StampInv, TouchedWhileOpen
<1>2. TypeOK /\ StampInv /\ [Next]_vars => StampInv'
  BY StampStep
<1> QED BY <1>1, <1>2, TypeCorrect, PTL DEF Spec

\* A segment takes entries only while it is open, even if the clock is set
\* back while it is the top segment.
THEOREM TouchedWhileOpenAlways == Spec => []TouchedWhileOpen
<1>1. StampInv => TouchedWhileOpen
  BY DEF StampInv
<1> QED BY <1>1, StampAlways, PTL

-----------------------------------------------------------------------------
\* What lets a walk stop early.
LEMMA OrderGivesSuffix == TypeOK /\ OrderInv => ExpiredIsSuffix
<1> SUFFICES ASSUME TypeOK, OrderInv,
                    NEW i \in 1..Len(segs), NEW j \in 1..Len(segs),
                    i < j, IsExpired(segs[i])
             PROVE  IsExpired(segs[j])
  BY DEF ExpiredIsSuffix
<1>1. /\ segs[j].lastTouch <= segs[i].created
      /\ segs[i].created <= segs[i].lastTouch
      /\ segs[i].lastTouch <= clock
  BY DEF OrderInv, TouchedWhileOpen, SegmentsInOrder, NoFutureSegment
<1>2. /\ segs[i].created \in Nat /\ segs[i].lastTouch \in Nat
      /\ segs[j].lastTouch \in Nat /\ clock \in Nat
  BY SegmentFields, ClockAssumption DEF TypeOK
<1> QED BY <1>1, <1>2, DurationsAssumption DEF IsExpired, Elapsed

\* While the clock is never set back, a walk that stops at the first expired
\* segment has passed every live one, for every duration and retention time.
THEOREM ExpiredIsSuffixAlways == ASSUME MaxBack = 0 PROVE Spec => []ExpiredIsSuffix
<1> QED BY OrderAlways, TypeCorrect, OrderGivesSuffix, PTL

\* While the clock is never set back, no purge pass drops a live segment.
THEOREM PurgeDropsOnlyExpiredAlways ==
  ASSUME MaxBack = 0 PROVE Spec => PurgeDropsOnlyExpired
<1>1. TypeOK /\ ExpiredIsSuffix /\ [Next]_vars =>
        [Len(segs') < Len(segs) =>
           \A i \in (Len(segs') + 1)..Len(segs) : IsExpired(segs[i])]_vars
  <2> SUFFICES ASSUME TypeOK, ExpiredIsSuffix, [Next]_vars, Len(segs') < Len(segs),
                      NEW i \in (Len(segs') + 1)..Len(segs)
               PROVE  IsExpired(segs[i])
    OBVIOUS
  <2>1. CASE NewEntry
    BY <2>1, NewEntryList DEF TypeOK
  <2>2. CASE PurgePass
    <3> PICK n \in 0..Len(segs) : Purge(n)
      BY <2>2 DEF PurgePass
    <3>1. n \in Nat /\ Len(segs) \in Nat /\ Len(segs') = n /\ IsExpired(segs[n + 1])
      BY PurgeList DEF TypeOK
    <3>2. CASE i = n + 1
      BY <3>1, <3>2
    <3>3. CASE i # n + 1
      BY <3>1, <3>3 DEF ExpiredIsSuffix
    <3> QED BY <3>2, <3>3
  <2>3. CASE Tick \/ StepBack \/ UNCHANGED vars
    BY <2>3 DEF Tick, StepBack, vars, TypeOK
  <2> QED BY <2>1, <2>2, <2>3 DEF Next
<1> QED BY <1>1, TypeCorrect, ExpiredIsSuffixAlways, PTL DEF Spec, PurgeDropsOnlyExpired

-----------------------------------------------------------------------------
\* 2. The hash cache.

\* The cache uses its buffer only through the buffer's own operations.
LEMMA StepEmbeds == [CacheNext]_cacheVars => [Next]_vars
<1> SUFFICES ASSUME [CacheNext]_cacheVars PROVE [Next]_vars
  OBVIOUS
<1>1. ASSUME NEW h \in Hash, NEW id \in Id, SeenHashBy(h, id) PROVE [Next]_vars
  BY <1>1 DEF SeenHashBy, Find, FindTouch, Insert, Next
<1>2. ASSUME NEW h \in Hash, Find(h) \/ FindWithDelete(h) PROVE [Next]_vars
  BY <1>2 DEF Find, FindTouch, FindWithDelete
<1>3. CASE PurgeCache
  BY <1>3 DEF PurgeCache, PurgePass, Next
<1>4. CASE CacheTick \/ CacheStepBack
  BY <1>4 DEF CacheTick, CacheStepBack, Next
<1>5. CASE UNCHANGED cacheVars
  BY <1>5 DEF cacheVars, vars
<1> QED BY <1>1, <1>2, <1>3, <1>4, <1>5 DEF CacheNext, CacheForward

\* The embedded buffer behaves as ExpiringBuffer says, whatever is looked up:
\* every theorem about the buffer holds of the cache.
THEOREM EmbedsBuffer == CacheSpec => Spec
<1>1. CacheInit => Init
  BY DEF CacheInit
<1> QED BY <1>1, StepEmbeds, PTL DEF CacheSpec, Spec

-----------------------------------------------------------------------------
\* Type correctness.

Map == [Hash -> Promise!Entry \cup {NoEntry}]

\* What Put stores is an entry.
LEMMA FreshType ==
  ASSUME clock \in Nat, NEW id \in Id PROVE Promise!Fresh(id) \in Promise!Entry
BY EntryAssumption DEF Promise!Fresh, Promise!Entry

\* What findIntern stores back is an entry: the wrapping counter stays a byte.
LEMMA VisitedType ==
  ASSUME clock \in Nat, NEW e \in Promise!Entry PROVE Promise!Visited(e) \in Promise!Entry
<1>1. (e.visits + 1) % VisitMod \in 0..(VisitMod - 1)
  BY EntryAssumption DEF Promise!Entry
<1> QED BY <1>1, EntryAssumption DEF Promise!Visited, Promise!Entry

\* What an insertion does to the maps.
LEMMA InsertMaps ==
  ASSUME CacheTypeOK, NEW h \in Hash, NEW id \in Id, Insert(h, id)
  PROVE  /\ themaps' \in Seq(Map) /\ Len(themaps') = Len(segs')
         /\ NeedsSegment =>
              /\ themaps'[1] = [EmptyMap EXCEPT ![h] = Promise!Fresh(id)]
              /\ \A i \in 1..Len(segs) : themaps'[i + 1] = themaps[i]
         /\ ~NeedsSegment =>
              /\ 1 \in 1..Len(segs)
              /\ themaps'[1] = [themaps[1] EXCEPT ![h] = Promise!Fresh(id)]
              /\ \A i \in 2..Len(segs) : themaps'[i] = themaps[i]
<1>0. /\ TypeOK /\ NewEntry /\ clock \in Nat
      /\ themaps \in Seq(Map) /\ segs \in Seq(Segment) /\ Len(themaps) = Len(segs)
  BY DEF CacheTypeOK, TypeOK, Insert, Map
<1>1. Promise!Fresh(id) \in Promise!Entry
  BY <1>0, FreshType
<1>2. CASE NeedsSegment
  <2>1. themaps' = <<[EmptyMap EXCEPT ![h] = Promise!Fresh(id)]>> \o themaps
    BY <1>2 DEF Insert
  <2>2. [EmptyMap EXCEPT ![h] = Promise!Fresh(id)] \in Map
    BY <1>1 DEF EmptyMap, Map
  <2>3. Len(segs') = Len(segs) + 1
    BY <1>0, <1>2, NewEntryList
  <2> QED BY <1>0, <1>2, <2>1, <2>2, <2>3
<1>3. CASE ~NeedsSegment
  <2>1. Len(segs') = Len(segs) /\ segs # <<>>
    BY <1>0, <1>3, NewEntryList
  <2>2. 1 \in 1..Len(segs) /\ themaps[1] \in Map
    BY <1>0, <2>1
  <2>3. themaps' = [themaps EXCEPT ![1] = [themaps[1] EXCEPT ![h] = Promise!Fresh(id)]]
    BY <1>3, <2>2, <1>0 DEF Insert
  <2>4. [themaps[1] EXCEPT ![h] = Promise!Fresh(id)] \in Map
    BY <1>1, <2>2 DEF Map
  <2> QED BY <1>0, <1>3, <2>1, <2>2, <2>3, <2>4
<1> QED BY <1>2, <1>3

\* What a visit and a deletion do: one entry is replaced.
Replaced(i, h, e) ==
  /\ themaps' \in Seq(Map) /\ Len(themaps') = Len(themaps)
  /\ themaps'[i][h] = e
  /\ \A j \in 1..Len(segs), g \in Hash :
       j # i \/ g # h => themaps'[j][g] = themaps[j][g]

\* Storing one entry in the map of one segment changes that entry alone.
LEMMA ReplaceMaps ==
  ASSUME CacheTypeOK, NEW i \in 1..Len(segs), NEW h \in Hash,
         NEW e \in Promise!Entry \cup {NoEntry},
         themaps' = [themaps EXCEPT ![i][h] = e]
  PROVE  Replaced(i, h, e)
<1>1. themaps \in Seq(Map) /\ Len(themaps) = Len(segs) /\ i \in 1..Len(themaps)
  BY DEF CacheTypeOK, Map
<1>2. themaps[i] \in Map
  BY <1>1
<1>3. themaps' = [themaps EXCEPT ![i] = [themaps[i] EXCEPT ![h] = e]]
  BY <1>1
<1>4. [themaps[i] EXCEPT ![h] = e] \in Map
  BY <1>2 DEF Map
<1>5. themaps' \in Seq(Map) /\ Len(themaps') = Len(themaps)
  BY <1>1, <1>3, <1>4
<1>6. themaps'[i] = [themaps[i] EXCEPT ![h] = e]
      /\ \A j \in 1..Len(themaps) : j # i => themaps'[j] = themaps[j]
  BY <1>1, <1>3
<1>7. themaps'[i][h] = e /\ \A g \in Hash : g # h => themaps'[i][g] = themaps[i][g]
  BY <1>6, <1>2 DEF Map
<1> QED BY <1>1, <1>5, <1>6, <1>7 DEF Replaced

\* A map holds an entry or nothing for every hash.
LEMMA EntryAt ==
  ASSUME CacheTypeOK, NEW i \in 1..Len(segs), NEW h \in Hash
  PROVE  themaps[i][h] \in Promise!Entry \cup {NoEntry}
<1>1. themaps \in Seq(Map) /\ Len(themaps) = Len(segs)
  BY DEF CacheTypeOK, Map
<1>2. themaps[i] \in Map
  BY <1>1
<1> QED BY <1>2 DEF Map

\* A counted visit replaces the entry where it was found and nothing else.
LEMMA FindTouchMaps ==
  ASSUME CacheTypeOK, NEW i \in 1..Len(segs), NEW h \in Hash, FindTouch(i, h)
  PROVE  /\ FoundAt(i, h) /\ UNCHANGED vars
         /\ themaps[i][h] \in Promise!Entry
         /\ Promise!Visited(themaps[i][h]) \in Promise!Entry
         /\ Replaced(i, h, Promise!Visited(themaps[i][h]))
<1>1. FoundAt(i, h) /\ UNCHANGED vars /\ themaps[i][h] # NoEntry
  BY DEF FindTouch, FoundAt, Holds
<1>2. themaps[i][h] \in Promise!Entry
  BY <1>1, EntryAt
<1>3. clock \in Nat
  BY ClockAssumption DEF CacheTypeOK, TypeOK
<1>4. Promise!Visited(themaps[i][h]) \in Promise!Entry
  BY <1>2, <1>3, VisitedType
<1>5. themaps' = [themaps EXCEPT ![i][h] = Promise!Visited(themaps[i][h])]
  <2>1. i \in DOMAIN themaps /\ h \in DOMAIN themaps[i]
    <3>1. themaps \in Seq(Map) /\ Len(themaps) = Len(segs)
      BY DEF CacheTypeOK, Map
    <3>2. themaps[i] \in Map
      BY <3>1
    <3> QED BY <3>1, <3>2 DEF Map
  <2> QED BY <2>1 DEF FindTouch
<1>6. Replaced(i, h, Promise!Visited(themaps[i][h]))
  <2> PICK e \in Promise!Entry \cup {NoEntry} : e = Promise!Visited(themaps[i][h])
    BY <1>4
  <2>1. themaps' = [themaps EXCEPT ![i][h] = e]
    BY <1>5
  <2>2. Replaced(i, h, e)
    BY <2>1, ReplaceMaps
  <2> QED BY <2>2
<1> QED BY <1>1, <1>2, <1>4, <1>6

\* A purge keeps the maps of the segments it keeps.
LEMMA PurgeMaps ==
  ASSUME CacheTypeOK, NEW n \in 0..Len(segs), Purge(n),
         themaps' = SubSeq(themaps, 1, n)
  PROVE  /\ themaps' \in Seq(Map) /\ Len(themaps') = n
         /\ \A i \in 1..n : themaps'[i] = themaps[i]
<1>1. themaps \in Seq(Map) /\ Len(themaps) = Len(segs) /\ segs \in Seq(Segment)
  BY DEF CacheTypeOK, Map, TypeOK
<1> QED BY <1>1

\* Every step of the cache preserves the types and gives every segment its map.
LEMMA CacheTypeStep == CacheTypeOK /\ [CacheNext]_cacheVars => CacheTypeOK'
<1> SUFFICES ASSUME CacheTypeOK, [CacheNext]_cacheVars PROVE CacheTypeOK'
  OBVIOUS
<1>0. TypeOK /\ TypeOK'
  BY StepEmbeds, TypeStep DEF CacheTypeOK
<1> SUFFICES themaps' \in Seq(Map) /\ Len(themaps') = Len(segs')
  BY <1>0 DEF CacheTypeOK, Map
<1>1. ASSUME NEW h \in Hash, Find(h)
      PROVE  themaps' \in Seq(Map) /\ Len(themaps') = Len(segs')
  <2> PICK i \in 1..Len(segs) : FindTouch(i, h)
    BY <1>1 DEF Find
  <2> QED BY FindTouchMaps DEF CacheTypeOK, vars, Replaced
<1>2. ASSUME NEW h \in Hash, NEW id \in Id, SeenHashBy(h, id)
      PROVE  themaps' \in Seq(Map) /\ Len(themaps') = Len(segs')
  BY <1>1, <1>2, InsertMaps DEF SeenHashBy
<1>3. ASSUME NEW h \in Hash, FindWithDelete(h)
      PROVE  themaps' \in Seq(Map) /\ Len(themaps') = Len(segs')
  <2> PICK i \in 1..Len(segs) : themaps' = [themaps EXCEPT ![i][h] = NoEntry]
    BY <1>3 DEF FindWithDelete
  <2>1. Replaced(i, h, NoEntry)
    BY ReplaceMaps
  <2> QED BY <1>3, <2>1 DEF FindWithDelete, CacheTypeOK, vars, Replaced
<1>4. CASE PurgeCache
  <2> PICK n \in 0..Len(segs) : Purge(n) /\ themaps' = SubSeq(themaps, 1, n)
    BY <1>4 DEF PurgeCache
  <2> QED BY <1>0, PurgeMaps, PurgeList
<1>5. CASE CacheTick \/ CacheStepBack \/ UNCHANGED cacheVars
  BY <1>5 DEF CacheTick, CacheStepBack, Tick, StepBack, cacheVars, CacheTypeOK, Map
<1> QED BY <1>1, <1>2, <1>3, <1>4, <1>5 DEF CacheNext, CacheForward

\* Every segment has its map, of entries of the right type.
THEOREM CacheTypeCorrect == CacheSpec => []CacheTypeOK
<1>1. CacheInit => CacheTypeOK
  BY ClockAssumption DEF CacheInit, Init, CacheTypeOK, TypeOK
<1> QED BY <1>1, CacheTypeStep, PTL DEF CacheSpec

-----------------------------------------------------------------------------
\* Which segments a lookup visits, and where it finds a hash, before and after
\* each action.  With a clock that is never set back.

LEMMA InsertHolds ==
  ASSUME MaxBack = 0, CacheTypeOK, OrderInv, NEW h \in Hash, NEW id \in Id, Insert(h, id)
  PROVE  /\ NeedsSegment =>
              /\ \A g \in Hash : Holds(1, g)' <=> g = h
              /\ \A i \in 1..Len(segs), g \in Hash : Holds(i + 1, g)' <=> Holds(i, g)
         /\ ~NeedsSegment =>
              /\ \A g \in Hash : Holds(1, g)' <=> (g = h \/ Holds(1, g))
              /\ \A i \in 2..Len(segs), g \in Hash : Holds(i, g)' <=> Holds(i, g)
<1>0. /\ TypeOK /\ NewEntry /\ clock' = clock /\ clock \in Nat
      /\ segs \in Seq(Segment) /\ segs' \in Seq(Segment)
  BY NewEntryList DEF CacheTypeOK, TypeOK, Insert, NewEntry
<1>1. Promise!Fresh(id) # NoEntry
  BY <1>0, FreshType, EntryAssumption
<1>2. \A i \in 1..Len(segs) : segs[i].created \in Nat /\ segs[i].lastTouch \in Nat
  BY <1>0, SegmentFields
<1>3. CASE NeedsSegment
  <2>1. /\ Len(segs') = Len(segs) + 1 /\ segs'[1] = NewSegment
        /\ \A i \in 1..Len(segs) : segs'[i + 1] = segs[i]
    BY <1>0, <1>3, NewEntryList
  <2>2. ~IsExpired(segs[1])'
    BY <2>1, <1>0, DurationsAssumption DEF IsExpired, Elapsed, NewSegment
  <2>3. \A i \in 1..Len(segs) : IsExpired(segs[i + 1])' <=> IsExpired(segs[i])
    BY <2>1, <1>0 DEF IsExpired, Elapsed
  <2>4. Visited(1)'
    BY <2>1, <2>2, <1>0 DEF Visited
  <2>5. ASSUME NEW i \in 1..Len(segs) PROVE Visited(i + 1)' <=> Visited(i)
    <3>1. ASSUME Visited(i) PROVE Visited(i + 1)'
      <4>1. i + 1 \in 1..Len(segs')
        BY <2>1, <1>0
      <4>2. ASSUME NEW j \in 1..(i + 1) PROVE ~IsExpired(segs[j])'
        <5>1. CASE j = 1
          BY <5>1, <2>2
        <5>2. CASE j # 1
          <6>1. j - 1 \in 1..i /\ j - 1 \in 1..Len(segs) /\ (j - 1) + 1 = j
            BY <5>2, <1>0
          <6> QED BY <6>1, <2>3, <3>1 DEF Visited
        <5> QED BY <5>1, <5>2
      <4> QED BY <4>1, <4>2 DEF Visited
    <3>2. ASSUME Visited(i + 1)' PROVE Visited(i)
      <4>1. ASSUME NEW j \in 1..i PROVE ~IsExpired(segs[j])
        <5>1. j + 1 \in 1..(i + 1) /\ j \in 1..Len(segs)
          BY <1>0
        <5> QED BY <5>1, <2>3, <3>2 DEF Visited
      <4> QED BY <4>1 DEF Visited
    <3> QED BY <3>1, <3>2
  <2>6. /\ themaps'[1] = [EmptyMap EXCEPT ![h] = Promise!Fresh(id)]
        /\ \A i \in 1..Len(segs) : themaps'[i + 1] = themaps[i]
    BY <1>3, InsertMaps
  <2>7. \A g \in Hash : themaps'[1][g] # NoEntry <=> g = h
    BY <2>6, <1>1 DEF EmptyMap
  <2> QED BY <1>3, <2>4, <2>5, <2>6, <2>7 DEF Holds
<1>4. CASE ~NeedsSegment
  <2>1. /\ Len(segs') = Len(segs) /\ segs # <<>> /\ IsOpen(segs[1])
        /\ segs'[1] = [segs[1] EXCEPT !.lastTouch = clock]
        /\ \A i \in 2..Len(segs) : segs'[i] = segs[i]
    BY <1>0, <1>4, NewEntryList
  <2>2. 1 \in 1..Len(segs) /\ segs[1] \in [created : Nat, lastTouch : Nat]
    <3>1. 1 \in 1..Len(segs)
      BY <2>1, <1>0
    <3> QED BY <3>1, <1>0, SegmentFields DEF Segment
  <2>3. ~IsExpired(segs[1])
    <3>1. segs[1].created <= segs[1].lastTouch /\ segs[1].lastTouch <= clock
      BY <2>2 DEF OrderInv, TouchedWhileOpen, NoFutureSegment
    <3> QED BY <3>1, <2>1, <2>2, <1>0, <1>2, DurationsAssumption
            DEF IsOpen, IsExpired, Elapsed
  <2>4. ~IsExpired(segs[1])'
    <3>1. segs'[1].lastTouch = clock
      BY <2>1, <2>2
    <3> QED BY <3>1, <1>0, DurationsAssumption DEF IsExpired, Elapsed
  <2>5. \A i \in 2..Len(segs) : IsExpired(segs[i])' <=> IsExpired(segs[i])
    BY <2>1, <1>0 DEF IsExpired, Elapsed
  <2>6. ASSUME NEW i \in 1..Len(segs) PROVE Visited(i)' <=> Visited(i)
    <3>1. \A j \in 1..i : IsExpired(segs[j])' <=> IsExpired(segs[j])
      <4> TAKE j \in 1..i
      <4>1. CASE j = 1
        BY <4>1, <2>3, <2>4
      <4>2. CASE j # 1
        BY <4>2, <2>5, <1>0
      <4> QED BY <4>1, <4>2
    <3> QED BY <3>1, <2>1 DEF Visited
  <2>7. Visited(1)
    BY <2>2, <2>3 DEF Visited
  <2>8. /\ themaps'[1] = [themaps[1] EXCEPT ![h] = Promise!Fresh(id)]
        /\ \A i \in 2..Len(segs) : themaps'[i] = themaps[i]
    BY <1>4, InsertMaps
  <2>9. themaps[1] \in Map
    BY <2>2, <1>0 DEF CacheTypeOK, Map
  <2>10. \A g \in Hash : themaps'[1][g] # NoEntry <=> (g = h \/ themaps[1][g] # NoEntry)
    BY <2>8, <2>9, <1>1 DEF Map
  <2>11. \A g \in Hash : Holds(1, g)' <=> (g = h \/ Holds(1, g))
    BY <2>2, <2>6, <2>7, <2>10 DEF Holds
  <2>12. \A i \in 2..Len(segs), g \in Hash : Holds(i, g)' <=> Holds(i, g)
    <3> TAKE i \in 2..Len(segs), g \in Hash
    <3>1. i \in 1..Len(segs)
      BY <1>0
    <3> QED BY <3>1, <2>6, <2>8 DEF Holds
  <2> QED BY <1>4, <2>11, <2>12
<1> QED BY <1>3, <1>4

\* A walk finds after a purge what it found before, where it found it.
LEMMA PurgeHolds ==
  ASSUME CacheTypeOK, NEW n \in 0..Len(segs), Purge(n),
         themaps' = SubSeq(themaps, 1, n), NEW g \in Hash
  PROVE  /\ \A i \in 1..Len(segs) : Holds(i, g) => i \in 1..n
         /\ \A i \in 1..n : Holds(i, g)' <=> Holds(i, g)
<1>1. /\ Len(segs') = n /\ clock' = clock /\ n \in Nat /\ Len(segs) \in Nat
      /\ \A i \in 1..n : segs'[i] = segs[i] /\ ~IsExpired(segs[i])
      /\ n < Len(segs) => IsExpired(segs[n + 1])
  BY PurgeList DEF CacheTypeOK, Purge, TypeOK
<1>2. \A i \in 1..n : themaps'[i] = themaps[i]
  BY PurgeMaps
<1>3. \A i \in 1..n : ~IsExpired(segs[i])'
  BY <1>1 DEF IsExpired, Elapsed
<1>4. \A i \in 1..n : Visited(i) /\ Visited(i)'
  BY <1>1, <1>3 DEF Visited
<1>5. \A i \in 1..Len(segs) : Visited(i) => i \in 1..n
  BY <1>1 DEF Visited
<1> QED BY <1>2, <1>4, <1>5 DEF Holds

\* As the clock advances a walk finds nothing it did not find before.
LEMMA TickHolds ==
  ASSUME CacheTypeOK, OrderInv, CacheTick, NEW g \in Hash, NEW i \in 1..Len(segs),
         Holds(i, g)'
  PROVE  Holds(i, g)
<1>1. segs' = segs /\ themaps' = themaps /\ clock \in Nat /\ clock' = clock + 1
  BY ClockAssumption DEF CacheTick, Tick, CacheTypeOK, TypeOK
<1>2. ASSUME NEW j \in 1..i PROVE ~IsExpired(segs[j])
  <2>1. ~IsExpired(segs[j])'
    BY DEF Holds, Visited
  <2>2. j \in 1..Len(segs)
    BY DEF CacheTypeOK, TypeOK
  <2>3. segs[j].lastTouch \in Nat /\ segs[j].lastTouch <= clock
    BY <2>2, SegmentFields DEF OrderInv, NoFutureSegment, CacheTypeOK
  <2> QED BY <2>1, <2>3, <1>1, DurationsAssumption DEF IsExpired, Elapsed
<1> QED BY <1>1, <1>2 DEF Holds, Visited

\* A visit keeps every hash where it is; a deletion removes one.
LEMMA TouchHolds ==
  ASSUME CacheTypeOK, NEW i \in 1..Len(segs), NEW h \in Hash, FindTouch(i, h)
  PROVE  \A j \in 1..Len(segs), g \in Hash : Holds(j, g)' <=> Holds(j, g)
<1>1. \A j \in 1..Len(segs) : Visited(j)' <=> Visited(j)
  BY FindTouchMaps DEF Visited, IsExpired, Elapsed, vars
<1>2. themaps[i][h] # NoEntry /\ themaps'[i][h] # NoEntry
  BY FindTouchMaps, EntryAssumption DEF Replaced
<1>3. \A j \in 1..Len(segs), g \in Hash :
        j # i \/ g # h => themaps'[j][g] = themaps[j][g]
  BY FindTouchMaps DEF Replaced
<1> QED BY <1>1, <1>2, <1>3 DEF Holds

\* Deleting an entry hides that entry from walks and no other.
LEMMA DeleteHolds ==
  ASSUME CacheTypeOK, NEW i \in 1..Len(segs), NEW h \in Hash, UNCHANGED vars,
         Replaced(i, h, NoEntry)
  PROVE  \A j \in 1..Len(segs), g \in Hash :
           Holds(j, g)' <=> Holds(j, g) /\ (j # i \/ g # h)
<1>1. \A j \in 1..Len(segs) : Visited(j)' <=> Visited(j)
  BY DEF Visited, IsExpired, Elapsed, vars
<1>2. \A j \in 1..Len(segs), g \in Hash :
        themaps'[j][g] # NoEntry <=> themaps[j][g] # NoEntry /\ (j # i \/ g # h)
  BY DEF Replaced
<1> QED BY <1>1, <1>2 DEF Holds

\* Every step keeps a hash at one place of the segments a walk visits.
LEMMA OneCopyStep ==
  ASSUME MaxBack = 0, CacheTypeOK, OrderInv, OneCopy, [CacheNext]_cacheVars
  PROVE  OneCopy'
<1>0. segs \in Seq(Segment) /\ TypeOK
  BY DEF CacheTypeOK, TypeOK
<1>1. ASSUME NEW h \in Hash, Find(h) PROVE OneCopy'
  <2> PICK i \in 1..Len(segs) : FindTouch(i, h)
    BY <1>1 DEF Find
  <2>1. segs' = segs
    BY FindTouchMaps DEF vars
  <2> QED BY <2>1, TouchHolds DEF OneCopy
<1>2. ASSUME NEW h \in Hash, NEW id \in Id, Absent(h), Insert(h, id) PROVE OneCopy'
  <2> SUFFICES ASSUME NEW g \in Hash, NEW i \in 1..Len(segs'), NEW j \in 1..Len(segs'),
                      Holds(i, g)', Holds(j, g)', i < j
               PROVE  FALSE
    <3>1. segs' \in Seq(Segment)
      BY <1>2, <1>0, NewEntryList DEF Insert
    <3> QED BY <3>1 DEF OneCopy
  <2>0. /\ segs' \in Seq(Segment)
        /\ Len(segs') = IF NeedsSegment THEN Len(segs) + 1 ELSE Len(segs)
    BY <1>2, <1>0, NewEntryList DEF Insert
  <2>1. CASE NeedsSegment
    <3>1. j - 1 \in 1..Len(segs) /\ (j - 1) + 1 = j
      BY <2>0, <2>1, <1>0
    <3>2. Holds(j - 1, g)
      BY <3>1, <2>1, <1>2, InsertHolds
    <3>3. CASE i = 1
      BY <3>1, <3>2, <3>3, <2>1, <1>2, InsertHolds DEF Absent
    <3>4. CASE i # 1
      <4>1. i - 1 \in 1..Len(segs) /\ (i - 1) + 1 = i
        BY <3>4, <2>0, <2>1, <1>0
      <4>2. Holds(i - 1, g)
        BY <4>1, <2>1, <1>2, InsertHolds
      <4> QED BY <3>1, <3>2, <4>1, <4>2 DEF OneCopy
    <3> QED BY <3>3, <3>4
  <2>2. CASE ~NeedsSegment
    <3>1. j \in 2..Len(segs) /\ j \in 1..Len(segs) /\ i \in 1..Len(segs)
      BY <2>0, <2>2, <1>0
    <3>2. Holds(j, g)
      BY <3>1, <2>2, <1>2, InsertHolds
    <3>3. CASE i = 1
      BY <3>1, <3>2, <3>3, <2>2, <1>2, InsertHolds DEF Absent, OneCopy
    <3>4. CASE i # 1
      <4>1. i \in 2..Len(segs)
        BY <3>1, <3>4
      <4>2. Holds(i, g)
        BY <4>1, <2>2, <1>2, InsertHolds
      <4> QED BY <3>1, <3>2, <4>2 DEF OneCopy
    <3> QED BY <3>3, <3>4
  <2> QED BY <2>1, <2>2
<1>3. ASSUME NEW h \in Hash, FindWithDelete(h) PROVE OneCopy'
  <2> PICK i \in 1..Len(segs) : themaps' = [themaps EXCEPT ![i][h] = NoEntry]
    BY <1>3 DEF FindWithDelete
  <2>1. Replaced(i, h, NoEntry) /\ UNCHANGED vars /\ segs' = segs
    BY <1>3, ReplaceMaps DEF FindWithDelete, vars
  <2> QED BY <2>1, DeleteHolds DEF OneCopy
<1>4. CASE PurgeCache
  <2> PICK n \in 0..Len(segs) : Purge(n) /\ themaps' = SubSeq(themaps, 1, n)
    BY <1>4 DEF PurgeCache
  <2>1. Len(segs') = n /\ \A i \in 1..n : i \in 1..Len(segs)
    BY <1>0, PurgeList
  <2> QED BY <2>1, PurgeHolds DEF OneCopy
<1>5. CASE CacheTick
  <2>1. segs' = segs
    BY <1>5 DEF CacheTick, Tick
  <2> QED BY <2>1, <1>5, TickHolds DEF OneCopy
<1>6. CASE CacheStepBack
  <2> PICK d \in 1..MaxBack : TRUE
    BY <1>6 DEF CacheStepBack, StepBack
  <2> QED OBVIOUS
<1>7. CASE UNCHANGED cacheVars
  BY <1>7 DEF cacheVars, OneCopy, Holds, Visited, IsExpired, Elapsed
<1> QED BY <1>1, <1>2, <1>3, <1>4, <1>5, <1>6, <1>7 DEF CacheNext, CacheForward, SeenHashBy

\* With a clock that is never set back no lookup ever has two entries of one
\* hash to choose from, in whatever order the cache is visited and purged.
THEOREM OneCopyAlways == ASSUME MaxBack = 0 PROVE CacheSpec => []OneCopy
<1>1. CacheInit => OneCopy
  BY DEF CacheInit, Init, OneCopy
<1>2. CacheTypeOK /\ OrderInv /\ OneCopy /\ [CacheNext]_cacheVars => OneCopy'
  BY OneCopyStep
<1> QED BY <1>1, <1>2, CacheTypeCorrect, EmbedsBuffer, OrderAlways, PTL DEF CacheSpec

-----------------------------------------------------------------------------
\* The age of an entry is known from its segment.

LEMMA EntriesStep ==
  ASSUME MaxBack = 0, CacheTypeOK, OrderInv, EntriesOfSegment, [CacheNext]_cacheVars
  PROVE  EntriesOfSegment'
<1> USE DEF EntriesOfSegment
<1>0. segs \in Seq(Segment) /\ TypeOK /\ clock \in Nat
  BY ClockAssumption DEF CacheTypeOK, TypeOK
<1>1. ASSUME NEW h \in Hash, Find(h) PROVE EntriesOfSegment'
  <2> PICK i \in 1..Len(segs) : FindTouch(i, h)
    BY <1>1 DEF Find
  <2>1. segs' = segs /\ themaps[i][h] \in Promise!Entry /\ themaps[i][h] # NoEntry
    BY FindTouchMaps, EntryAssumption DEF vars
  <2>2. /\ themaps'[i][h] = Promise!Visited(themaps[i][h])
        /\ \A j \in 1..Len(segs), g \in Hash :
             j # i \/ g # h => themaps'[j][g] = themaps[j][g]
    BY FindTouchMaps DEF Replaced
  <2>3. themaps'[i][h].firstSeen = themaps[i][h].firstSeen
    BY <2>2 DEF Promise!Visited
  <2> QED BY <2>1, <2>2, <2>3
<1>2. ASSUME NEW h \in Hash, NEW id \in Id, Insert(h, id) PROVE EntriesOfSegment'
  <2>0. NewEntry /\ segs' \in Seq(Segment) /\ Promise!Fresh(id).firstSeen = clock
    BY <1>2, <1>0, NewEntryList DEF Insert, Promise!Fresh
  <2> SUFFICES ASSUME NEW i \in 1..Len(segs'), NEW g \in Hash, themaps'[i][g] # NoEntry
               PROVE  /\ segs'[i].created <= themaps'[i][g].firstSeen
                      /\ themaps'[i][g].firstSeen <= segs'[i].lastTouch
    OBVIOUS
  <2>1. CASE NeedsSegment
    <3>1. /\ Len(segs') = Len(segs) + 1 /\ segs'[1] = NewSegment
          /\ \A j \in 1..Len(segs) : segs'[j + 1] = segs[j]
          /\ themaps'[1] = [EmptyMap EXCEPT ![h] = Promise!Fresh(id)]
          /\ \A j \in 1..Len(segs) : themaps'[j + 1] = themaps[j]
      <4>1. /\ Len(segs') = Len(segs) + 1 /\ segs'[1] = NewSegment
            /\ \A j \in 1..Len(segs) : segs'[j + 1] = segs[j]
        BY <1>0, <2>0, <2>1, NewEntryList
      <4> QED BY <1>2, <2>1, <4>1, InsertMaps
    <3>2. CASE i = 1
      <4>1. g = h /\ themaps'[1][g] = Promise!Fresh(id)
        <5>1. themaps'[1][g] = IF g = h THEN Promise!Fresh(id) ELSE NoEntry
          BY <3>1 DEF EmptyMap
        <5> QED BY <5>1, <3>2
      <4>2. segs'[1].created = clock /\ segs'[1].lastTouch = clock
        BY <3>1 DEF NewSegment
      <4>3. themaps'[1][g].firstSeen = clock
        BY <4>1, <2>0
      <4> QED BY <3>2, <4>2, <4>3, <1>0
    <3>3. CASE i # 1
      <4>1. i - 1 \in 1..Len(segs) /\ (i - 1) + 1 = i
        BY <3>1, <3>3, <1>0, <2>0
      <4>2. segs'[i] = segs[i - 1] /\ themaps'[i] = themaps[i - 1]
        BY <3>1, <4>1
      <4> QED BY <4>1, <4>2
    <3> QED BY <3>2, <3>3
  <2>2. CASE ~NeedsSegment
    <3>1. /\ Len(segs') = Len(segs) /\ 1 \in 1..Len(segs)
          /\ segs'[1] = [segs[1] EXCEPT !.lastTouch = clock]
          /\ \A j \in 2..Len(segs) : segs'[j] = segs[j]
          /\ themaps'[1] = [themaps[1] EXCEPT ![h] = Promise!Fresh(id)]
          /\ \A j \in 2..Len(segs) : themaps'[j] = themaps[j]
      BY <1>0, <1>2, <2>0, <2>2, NewEntryList, InsertMaps
    <3>2. CASE i = 1
      <4>1. segs[1] \in [created : Nat, lastTouch : Nat]
        BY <3>1, <1>0, SegmentFields DEF Segment
      <4>2. segs'[1].created = segs[1].created /\ segs'[1].lastTouch = clock
        BY <3>1, <4>1
      <4>3. segs[1].created <= segs[1].lastTouch /\ segs[1].lastTouch <= clock
        BY <3>1 DEF OrderInv, TouchedWhileOpen, NoFutureSegment
      <4>4. themaps[1] \in Map
        BY <3>1 DEF CacheTypeOK, Map
      <4>5. CASE g = h
        <5>1. themaps'[1][g] = Promise!Fresh(id)
          BY <3>1, <4>4, <4>5 DEF Map
        <5> QED BY <3>2, <4>1, <4>2, <4>3, <5>1, <2>0, <1>0
      <4>6. CASE g # h
        <5>1. themaps'[1][g] = themaps[1][g] /\ themaps[1][g] # NoEntry
          BY <3>1, <3>2, <4>4, <4>6 DEF Map
        <5>2. themaps[1][g] \in Promise!Entry
          BY <3>1, <5>1, EntryAt
        <5>3. themaps[1][g].firstSeen \in Nat
          BY <5>2 DEF Promise!Entry
        <5>4. /\ segs[1].created <= themaps[1][g].firstSeen
              /\ themaps[1][g].firstSeen <= segs[1].lastTouch
          BY <3>1, <5>1
        <5> QED BY <3>2, <4>1, <4>2, <4>3, <5>1, <5>3, <5>4, <1>0
      <4> QED BY <4>5, <4>6
    <3>3. CASE i # 1
      <4>1. i \in 2..Len(segs) /\ i \in 1..Len(segs)
        BY <3>1, <3>3, <1>0
      <4> QED BY <3>1, <4>1
    <3> QED BY <3>2, <3>3
  <2> QED BY <2>1, <2>2
<1>3. ASSUME NEW h \in Hash, FindWithDelete(h) PROVE EntriesOfSegment'
  <2> PICK i \in 1..Len(segs) : themaps' = [themaps EXCEPT ![i][h] = NoEntry]
    BY <1>3 DEF FindWithDelete
  <2>1. Replaced(i, h, NoEntry) /\ segs' = segs
    BY <1>3, ReplaceMaps DEF FindWithDelete, vars
  <2> QED BY <2>1 DEF Replaced
<1>4. CASE PurgeCache
  <2> PICK n \in 0..Len(segs) : Purge(n) /\ themaps' = SubSeq(themaps, 1, n)
    BY <1>4 DEF PurgeCache
  <2>1. Len(segs') = n /\ \A i \in 1..n : i \in 1..Len(segs) /\ segs'[i] = segs[i]
    BY <1>0, PurgeList
  <2> QED BY <2>1, PurgeMaps
<1>5. CASE CacheTick \/ CacheStepBack \/ UNCHANGED cacheVars
  BY <1>5 DEF CacheTick, CacheStepBack, Tick, StepBack, cacheVars
<1> QED BY <1>1, <1>2, <1>3, <1>4, <1>5 DEF CacheNext, CacheForward, SeenHashBy

\* Entries date from the time their segment was open, in every reachable state.
LEMMA EntriesAlways == ASSUME MaxBack = 0 PROVE CacheSpec => []EntriesOfSegment
<1>1. CacheInit => EntriesOfSegment
  BY DEF CacheInit, Init, EntriesOfSegment
<1>2. CacheTypeOK /\ OrderInv /\ EntriesOfSegment /\ [CacheNext]_cacheVars
        => EntriesOfSegment'
  BY EntriesStep
<1> QED BY <1>1, <1>2, CacheTypeCorrect, EmbedsBuffer, OrderAlways, PTL DEF CacheSpec

-----------------------------------------------------------------------------
\* What is left of EntriesOfSegment when the clock may be set back.
MadeInSegment ==
  \A i \in 1..Len(segs), h \in Hash :
    themaps[i][h] # NoEntry => segs[i].created <= themaps[i][h].firstSeen

\* Every step, the clock set back included, keeps entries younger than their segment.
LEMMA MadeStep ==
  ASSUME CacheTypeOK, StampInv, MadeInSegment, [CacheNext]_cacheVars
  PROVE  MadeInSegment'
<1> USE DEF MadeInSegment
<1>0. segs \in Seq(Segment) /\ TypeOK /\ clock \in Nat /\ clock <= MaxClock
  BY ClockAssumption DEF CacheTypeOK, TypeOK
<1>1. ASSUME NEW h \in Hash, Find(h) PROVE MadeInSegment'
  <2> PICK i \in 1..Len(segs) : FindTouch(i, h)
    BY <1>1 DEF Find
  <2>1. segs' = segs /\ themaps[i][h] \in Promise!Entry /\ themaps[i][h] # NoEntry
    BY FindTouchMaps, EntryAssumption DEF vars
  <2>2. /\ themaps'[i][h] = Promise!Visited(themaps[i][h])
        /\ \A j \in 1..Len(segs), g \in Hash :
             j # i \/ g # h => themaps'[j][g] = themaps[j][g]
    BY FindTouchMaps DEF Replaced
  <2>3. themaps'[i][h].firstSeen = themaps[i][h].firstSeen
    BY <2>2 DEF Promise!Visited
  <2> QED BY <2>1, <2>2, <2>3
<1>2. ASSUME NEW h \in Hash, NEW id \in Id, Insert(h, id) PROVE MadeInSegment'
  <2>0. NewEntry /\ segs' \in Seq(Segment) /\ Promise!Fresh(id).firstSeen = clock
    BY <1>2, <1>0, NewEntryList DEF Insert, Promise!Fresh
  <2> SUFFICES ASSUME NEW i \in 1..Len(segs'), NEW g \in Hash, themaps'[i][g] # NoEntry
               PROVE  segs'[i].created <= themaps'[i][g].firstSeen
    OBVIOUS
  <2>1. CASE NeedsSegment
    <3>1. /\ Len(segs') = Len(segs) + 1 /\ segs'[1] = NewSegment
          /\ \A j \in 1..Len(segs) : segs'[j + 1] = segs[j]
          /\ themaps'[1] = [EmptyMap EXCEPT ![h] = Promise!Fresh(id)]
          /\ \A j \in 1..Len(segs) : themaps'[j + 1] = themaps[j]
      <4>1. /\ Len(segs') = Len(segs) + 1 /\ segs'[1] = NewSegment
            /\ \A j \in 1..Len(segs) : segs'[j + 1] = segs[j]
        BY <1>0, <2>0, <2>1, NewEntryList
      <4> QED BY <1>2, <2>1, <4>1, InsertMaps
    <3>2. CASE i = 1
      <4>1. g = h /\ themaps'[1][g] = Promise!Fresh(id)
        <5>1. themaps'[1][g] = IF g = h THEN Promise!Fresh(id) ELSE NoEntry
          BY <3>1 DEF EmptyMap
        <5> QED BY <5>1, <3>2
      <4>2. segs'[1].created = clock
        BY <3>1 DEF NewSegment
      <4> QED BY <3>2, <4>1, <4>2, <2>0, <1>0
    <3>3. CASE i # 1
      <4>1. i - 1 \in 1..Len(segs) /\ (i - 1) + 1 = i
        BY <3>1, <3>3, <1>0, <2>0
      <4>2. segs'[i] = segs[i - 1] /\ themaps'[i] = themaps[i - 1]
        BY <3>1, <4>1
      <4> QED BY <4>1, <4>2
    <3> QED BY <3>2, <3>3
  <2>2. CASE ~NeedsSegment
    <3>1. /\ Len(segs') = Len(segs) /\ 1 \in 1..Len(segs) /\ IsOpen(segs[1])
          /\ segs'[1] = [segs[1] EXCEPT !.lastTouch = clock]
          /\ \A j \in 2..Len(segs) : segs'[j] = segs[j]
          /\ themaps'[1] = [themaps[1] EXCEPT ![h] = Promise!Fresh(id)]
          /\ \A j \in 2..Len(segs) : themaps'[j] = themaps[j]
      BY <1>0, <1>2, <2>0, <2>2, NewEntryList, InsertMaps
    <3>2. CASE i = 1
      <4>1. segs[1] \in [created : Nat, lastTouch : Nat]
        BY <3>1, <1>0, SegmentFields DEF Segment
      <4>2. segs'[1].created = segs[1].created
        BY <3>1, <4>1
      <4>3. segs[1].created <= segs[1].lastTouch /\ segs[1].lastTouch <= MaxClock
        BY <3>1 DEF StampInv, TouchedWhileOpen
      <4>4. segs[1].created <= clock
        BY <3>1, <4>1, <4>3, <1>0, ClockAssumption, DurationsAssumption
           DEF IsOpen, Elapsed
      <4>5. themaps[1] \in Map
        BY <3>1 DEF CacheTypeOK, Map
      <4>6. CASE g = h
        <5>1. themaps'[1][g] = Promise!Fresh(id)
          BY <3>1, <4>5, <4>6 DEF Map
        <5> QED BY <3>2, <4>2, <4>4, <5>1, <2>0
      <4>7. CASE g # h
        <5>1. themaps'[1][g] = themaps[1][g] /\ themaps[1][g] # NoEntry
          BY <3>1, <3>2, <4>5, <4>7 DEF Map
        <5> QED BY <3>1, <3>2, <4>2, <5>1
      <4> QED BY <4>6, <4>7
    <3>3. CASE i # 1
      <4>1. i \in 2..Len(segs) /\ i \in 1..Len(segs)
        BY <3>1, <3>3, <1>0
      <4> QED BY <3>1, <4>1
    <3> QED BY <3>2, <3>3
  <2> QED BY <2>1, <2>2
<1>3. ASSUME NEW h \in Hash, FindWithDelete(h) PROVE MadeInSegment'
  <2> PICK i \in 1..Len(segs) : themaps' = [themaps EXCEPT ![i][h] = NoEntry]
    BY <1>3 DEF FindWithDelete
  <2>1. Replaced(i, h, NoEntry) /\ segs' = segs
    BY <1>3, ReplaceMaps DEF FindWithDelete, vars
  <2> QED BY <2>1 DEF Replaced
<1>4. CASE PurgeCache
  <2> PICK n \in 0..Len(segs) : Purge(n) /\ themaps' = SubSeq(themaps, 1, n)
    BY <1>4 DEF PurgeCache
  <2>1. Len(segs') = n /\ \A i \in 1..n : i \in 1..Len(segs) /\ segs'[i] = segs[i]
    BY <1>0, PurgeList
  <2> QED BY <2>1, PurgeMaps
<1>5. CASE CacheTick \/ CacheStepBack \/ UNCHANGED cacheVars
  BY <1>5 DEF CacheTick, CacheStepBack, Tick, StepBack, cacheVars
<1> QED BY <1>1, <1>2, <1>3, <1>4, <1>5 DEF CacheNext, CacheForward, SeenHashBy

\* The age of a live entry is bounded by the age of its segment.
LEMMA NothingStaleFound ==
  CacheTypeOK /\ StampInv /\ MadeInSegment => FindsNothingStale
<1> SUFFICES ASSUME CacheTypeOK, StampInv, MadeInSegment, NEW h \in Hash,
                    Lookup(h) # NoEntry
             PROVE  clock < Lookup(h).firstSeen + Retention + SegDuration
  BY DEF FindsNothingStale
<1>0. /\ TypeOK /\ clock \in Nat /\ clock <= MaxClock /\ segs \in Seq(Segment)
  BY ClockAssumption DEF CacheTypeOK, TypeOK
<1> DEFINE i == CHOOSE i \in 1..Len(segs) : FoundAt(i, h)
<1>3. i \in 1..Len(segs) /\ FoundAt(i, h) /\ Lookup(h) = themaps[i][h]
  BY DEF Lookup
<1> HIDE DEF i
<1>4. themaps[i][h] # NoEntry /\ ~IsExpired(segs[i])
  BY <1>0, <1>3 DEF FoundAt, Holds, Visited
<1>5. themaps[i][h].firstSeen \in Nat
  BY <1>3, <1>4, EntryAt DEF Promise!Entry
<1>6. segs[i].created \in Nat /\ segs[i].lastTouch \in Nat
  BY <1>0, <1>3, SegmentFields
<1>7. /\ segs[i].lastTouch < segs[i].created + SegDuration
      /\ segs[i].lastTouch <= MaxClock
      /\ segs[i].created <= themaps[i][h].firstSeen
  BY <1>3, <1>4 DEF StampInv, TouchedWhileOpen, MadeInSegment
<1>8. clock < segs[i].lastTouch + Retention
  BY <1>0, <1>4, <1>6, <1>7, ClockAssumption, DurationsAssumption DEF IsExpired, Elapsed
<1> QED BY <1>0, <1>3, <1>5, <1>6, <1>7, <1>8, DurationsAssumption

\* No lookup ever returns an entry of Retention + SegDuration ago or older,
\* however the clock is set back: a hash seen again after that is new.
THEOREM FindsNothingStaleAlways == CacheSpec => []FindsNothingStale
<1>1. CacheInit => MadeInSegment
  BY DEF CacheInit, Init, MadeInSegment
<1>2. CacheTypeOK /\ StampInv /\ MadeInSegment /\ [CacheNext]_cacheVars => MadeInSegment'
  BY MadeStep
<1> QED BY <1>1, <1>2, NothingStaleFound, CacheTypeCorrect, EmbedsBuffer, StampAlways,
           PTL DEF CacheSpec

-----------------------------------------------------------------------------
\* The cache implements its promise.

\* With one copy a lookup finds the entry wherever it is.
LookupRight ==
  \A h \in Hash :
    /\ \A i \in 1..Len(segs) : Holds(i, h) => Lookup(h) = themaps[i][h]
    /\ Absent(h) => Lookup(h) = NoEntry

\* A lookup finds the one copy there is, in whatever segment it lies.
LEMMA OneCopyLookup == CacheTypeOK /\ OneCopy => LookupRight
<1> SUFFICES ASSUME CacheTypeOK, OneCopy, NEW h \in Hash
             PROVE  /\ \A i \in 1..Len(segs) : Holds(i, h) => Lookup(h) = themaps[i][h]
                    /\ Absent(h) => Lookup(h) = NoEntry
  BY DEF LookupRight
<1>1. ASSUME NEW i \in 1..Len(segs), Holds(i, h) PROVE Lookup(h) = themaps[i][h]
  <2>0. segs \in Seq(Segment)
    BY DEF CacheTypeOK, TypeOK
  <2>1. \A j \in 1..(i - 1) : j \in 1..Len(segs) /\ j # i
    BY <2>0
  <2>2. FoundAt(i, h)
    BY <1>1, <2>1 DEF FoundAt, OneCopy
  <2>3. \A j \in 1..Len(segs) : FoundAt(j, h) => j = i
    BY <1>1 DEF FoundAt, OneCopy
  <2>4. (CHOOSE j \in 1..Len(segs) : FoundAt(j, h)) = i
    BY <2>2, <2>3
  <2> QED BY <2>2, <2>4 DEF Lookup
<1>2. Absent(h) => Lookup(h) = NoEntry
  BY DEF Lookup, Absent, FoundAt
<1> QED BY <1>1, <1>2

\* Lookups find the one copy in every reachable state.
LEMMA LookupAlways == ASSUME MaxBack = 0 PROVE CacheSpec => []LookupRight
BY OneCopyLookup, CacheTypeCorrect, OneCopyAlways, PTL

\* If every hash is held by the same segments with the same entries, apart
\* from one hash, then only the lookup of that hash changes.
LEMMA OtherLookups ==
  ASSUME LookupRight, LookupRight', NEW g \in Hash,
         Absent(g) => Absent(g)',
         \A i \in 1..Len(segs) : Holds(i, g) =>
            \E j \in 1..Len(segs') : Holds(j, g)' /\ themaps'[j][g] = themaps[i][g]
  PROVE  Lookup(g)' = Lookup(g)
<1>1. CASE Absent(g)
  BY <1>1 DEF LookupRight
<1>2. CASE ~Absent(g)
  <2> PICK i \in 1..Len(segs) : Holds(i, g)
    BY <1>2 DEF Absent
  <2> PICK j \in 1..Len(segs') : Holds(j, g)' /\ themaps'[j][g] = themaps[i][g]
    OBVIOUS
  <2>1. Lookup(g) = themaps[i][g]
    BY DEF LookupRight
  <2>2. Lookup(g)' = themaps'[j][g]
    BY DEF LookupRight
  <2> QED BY <2>1, <2>2
<1> QED BY <1>1, <1>2

\* A counted visit changes what is found for its hash, and for no other.
LEMMA LookupFindTouch ==
  ASSUME CacheTypeOK, LookupRight, LookupRight',
         NEW i \in 1..Len(segs), NEW h \in Hash, FindTouch(i, h)
  PROVE  /\ Lookup(h) \in Promise!Entry
         /\ Lookup(h)' = Promise!Visited(Lookup(h))
         /\ \A g \in Hash : g # h => Lookup(g)' = Lookup(g)
<1>1. segs' = segs /\ Holds(i, h) /\ themaps[i][h] \in Promise!Entry
  BY FindTouchMaps DEF FoundAt, vars
<1>2. Holds(i, h)'
  BY <1>1, TouchHolds
<1>3. Lookup(h) = themaps[i][h] /\ Lookup(h)' = themaps'[i][h]
  BY <1>1, <1>2 DEF LookupRight
<1>4. /\ themaps'[i][h] = Promise!Visited(themaps[i][h])
      /\ \A j \in 1..Len(segs), g \in Hash : g # h => themaps'[j][g] = themaps[j][g]
  BY FindTouchMaps DEF Replaced
<1>5. ASSUME NEW g \in Hash, g # h PROVE Lookup(g)' = Lookup(g)
  <2>1. Absent(g) => Absent(g)'
    BY <1>1, TouchHolds DEF Absent
  <2>2. \A j \in 1..Len(segs) : Holds(j, g) =>
          Holds(j, g)' /\ themaps'[j][g] = themaps[j][g]
    BY <1>4, <1>5, TouchHolds
  <2> QED BY <1>1, <2>1, <2>2, OtherLookups
<1> QED BY <1>1, <1>3, <1>4, <1>5

\* A deletion makes the hash unknown, and no other.
LEMMA LookupDelete ==
  ASSUME CacheTypeOK, LookupRight, LookupRight', OneCopy,
         NEW h \in Hash, FindWithDelete(h)
  PROVE  /\ Lookup(h) # NoEntry /\ Lookup(h)' = NoEntry
         /\ \A g \in Hash : g # h => Lookup(g)' = Lookup(g)
<1> PICK i \in 1..Len(segs) :
      FoundAt(i, h) /\ themaps' = [themaps EXCEPT ![i][h] = NoEntry]
  BY DEF FindWithDelete
<1>1. UNCHANGED vars /\ segs' = segs /\ Holds(i, h) /\ themaps[i][h] # NoEntry
  BY DEF FindWithDelete, FoundAt, Holds, vars
<1>2. Replaced(i, h, NoEntry)
  BY ReplaceMaps
<1>3. \A j \in 1..Len(segs), g \in Hash :
        Holds(j, g)' <=> Holds(j, g) /\ (j # i \/ g # h)
  BY <1>1, <1>2, DeleteHolds
<1>4. Lookup(h) # NoEntry
  BY <1>1 DEF LookupRight
<1>5. Lookup(h)' = NoEntry
  <2>1. Absent(h)'
    BY <1>1, <1>3 DEF Absent, OneCopy
  <2> QED BY <2>1 DEF LookupRight
<1>6. ASSUME NEW g \in Hash, g # h PROVE Lookup(g)' = Lookup(g)
  <2>1. Absent(g) => Absent(g)'
    BY <1>1, <1>3 DEF Absent
  <2>2. \A j \in 1..Len(segs) : Holds(j, g) =>
          Holds(j, g)' /\ themaps'[j][g] = themaps[j][g]
    BY <1>2, <1>3, <1>6 DEF Replaced
  <2> QED BY <1>1, <2>1, <2>2, OtherLookups
<1> QED BY <1>4, <1>5, <1>6

\* An insertion makes an absent hash known, with a fresh entry, and touches no
\* other, even when it pushes a segment in front of theirs.
LEMMA LookupInsert ==
  ASSUME MaxBack = 0, CacheTypeOK, OrderInv, LookupRight, LookupRight',
         NEW h \in Hash, NEW id \in Id, Absent(h), Insert(h, id)
  PROVE  /\ Lookup(h) = NoEntry /\ Lookup(h)' = Promise!Fresh(id)
         /\ \A g \in Hash : g # h => Lookup(g)' = Lookup(g)
<1>0. /\ segs \in Seq(Segment) /\ segs' \in Seq(Segment) /\ segs' # <<>>
      /\ Len(segs') = IF NeedsSegment THEN Len(segs) + 1 ELSE Len(segs)
  BY NewEntryList DEF CacheTypeOK, TypeOK, Insert
<1>1. 1 \in 1..Len(segs')
  BY <1>0
<1>2. Lookup(h) = NoEntry
  BY DEF LookupRight
<1>3. CASE NeedsSegment
  <2>1. /\ themaps'[1] = [EmptyMap EXCEPT ![h] = Promise!Fresh(id)]
        /\ \A i \in 1..Len(segs) : themaps'[i + 1] = themaps[i]
    BY <1>3, InsertMaps
  <2>2. themaps'[1][h] = Promise!Fresh(id)
    BY <2>1 DEF EmptyMap
  <2>3. Holds(1, h)'
    BY <1>3, InsertHolds
  <2>4. Lookup(h)' = Promise!Fresh(id)
    BY <1>1, <2>2, <2>3 DEF LookupRight
  <2>5. ASSUME NEW g \in Hash, g # h PROVE Lookup(g)' = Lookup(g)
    <3>1. \A i \in 1..Len(segs) : Holds(i, g) =>
            Holds(i + 1, g)' /\ themaps'[i + 1][g] = themaps[i][g]
      BY <1>3, <2>1, InsertHolds
    <3>2. \A i \in 1..Len(segs) : i + 1 \in 1..Len(segs')
      BY <1>0, <1>3
    <3>3. ASSUME Absent(g), NEW j \in 1..Len(segs') PROVE ~Holds(j, g)'
      <4>1. CASE j = 1
        BY <1>3, <2>5, <4>1, InsertHolds
      <4>2. CASE j # 1
        <5>1. j - 1 \in 1..Len(segs) /\ (j - 1) + 1 = j
          BY <4>2, <1>0, <1>3
        <5>2. Holds((j - 1) + 1, g)' <=> Holds(j - 1, g)
          BY <1>3, <5>1, InsertHolds
        <5> QED BY <5>1, <5>2, <3>3 DEF Absent
      <4> QED BY <4>1, <4>2
    <3>4. Absent(g) => Absent(g)'
      BY <3>3 DEF Absent
    <3> QED BY <3>1, <3>2, <3>4, OtherLookups
  <2> QED BY <1>2, <2>4, <2>5
<1>4. CASE ~NeedsSegment
  <2>1. /\ 1 \in 1..Len(segs)
        /\ themaps'[1] = [themaps[1] EXCEPT ![h] = Promise!Fresh(id)]
        /\ \A i \in 2..Len(segs) : themaps'[i] = themaps[i]
    BY <1>4, InsertMaps
  <2>2. themaps[1] \in Map
    BY <2>1 DEF CacheTypeOK, Map
  <2>3. /\ themaps'[1][h] = Promise!Fresh(id)
        /\ \A i \in 1..Len(segs), g \in Hash : g # h => themaps'[i][g] = themaps[i][g]
    BY <2>1, <2>2 DEF Map
  <2>4. /\ Holds(1, h)'
        /\ \A i \in 1..Len(segs), g \in Hash : g # h => (Holds(i, g)' <=> Holds(i, g))
    <3>1. \A i \in 1..Len(segs) : i = 1 \/ i \in 2..Len(segs)
      BY <1>0
    <3> QED BY <1>4, <3>1, InsertHolds
  <2>5. Lookup(h)' = Promise!Fresh(id)
    BY <1>1, <2>3, <2>4 DEF LookupRight
  <2>6. ASSUME NEW g \in Hash, g # h PROVE Lookup(g)' = Lookup(g)
    <3>1. Len(segs') = Len(segs)
      BY <1>0, <1>4
    <3>2. Absent(g) => Absent(g)'
      BY <2>4, <2>6, <3>1 DEF Absent
    <3>3. \A i \in 1..Len(segs) : Holds(i, g) =>
            Holds(i, g)' /\ themaps'[i][g] = themaps[i][g]
      BY <2>3, <2>4, <2>6
    <3> QED BY <3>1, <3>2, <3>3, OtherLookups
  <2> QED BY <1>2, <2>5, <2>6
<1> QED BY <1>3, <1>4

\* A purge pass changes no lookup: what it drops was not found any more.
LEMMA LookupPurge ==
  ASSUME CacheTypeOK, LookupRight, LookupRight', PurgeCache
  PROVE  \A g \in Hash : Lookup(g)' = Lookup(g)
<1> PICK n \in 0..Len(segs) : Purge(n) /\ themaps' = SubSeq(themaps, 1, n)
  BY DEF PurgeCache
<1>0. segs \in Seq(Segment) /\ TypeOK
  BY DEF CacheTypeOK, TypeOK
<1>1. Len(segs') = n /\ \A i \in 1..n : i \in 1..Len(segs)
  BY <1>0, PurgeList
<1> TAKE g \in Hash
<1>2. Absent(g) => Absent(g)'
  BY <1>1, PurgeHolds DEF Absent
<1>3. \A i \in 1..Len(segs) : Holds(i, g) =>
        i \in 1..n /\ Holds(i, g)' /\ themaps'[i][g] = themaps[i][g]
  BY PurgeHolds, PurgeMaps
<1> QED BY <1>1, <1>2, <1>3, OtherLookups

\* What a tick hides was first seen Retention ago, what it leaves visible was
\* first seen less than Retention + SegDuration ago.
LEMMA LookupTick ==
  ASSUME CacheTypeOK, OrderInv, OneCopy, EntriesOfSegment, LookupRight, LookupRight',
         CacheTick, NEW g \in Hash
  PROVE  \/ /\ Lookup(g)' = Lookup(g)
            /\ Promise!MayKeep(g)
         \/ /\ Lookup(g)' = NoEntry
            /\ Promise!MayForget(g)
<1>0. /\ segs' = segs /\ themaps' = themaps /\ clock \in Nat /\ clock' = clock + 1
      /\ segs \in Seq(Segment)
  BY ClockAssumption DEF CacheTick, Tick, CacheTypeOK, TypeOK
<1>m. [h \in Hash |-> Lookup(h)][g] = Lookup(g)
  OBVIOUS
<1>1. CASE Absent(g)
  <2>1. Absent(g)'
    BY <1>1, <1>0, TickHolds DEF Absent
  <2>2. Lookup(g) = NoEntry /\ Lookup(g)' = NoEntry
    BY <1>1, <2>1 DEF LookupRight
  <2> QED BY <2>2, <1>m DEF Promise!MayKeep
<1>2. CASE ~Absent(g)
  <2> PICK i \in 1..Len(segs) : Holds(i, g)
    BY <1>2 DEF Absent
  <2>1. Lookup(g) = themaps[i][g] /\ themaps[i][g] # NoEntry
    BY DEF LookupRight, Holds
  <2>2. themaps[i][g].firstSeen \in Nat
    BY <2>1, EntryAt DEF Promise!Entry
  <2>3. /\ segs[i].created \in Nat /\ segs[i].lastTouch \in Nat
        /\ segs[i].created <= themaps[i][g].firstSeen
        /\ themaps[i][g].firstSeen <= segs[i].lastTouch
        /\ segs[i].lastTouch < segs[i].created + SegDuration
        /\ segs[i].lastTouch <= clock
    BY <2>1, SegmentFields
       DEF EntriesOfSegment, OrderInv, TouchedWhileOpen, NoFutureSegment, CacheTypeOK
  <2>4. CASE Holds(i, g)'
    <3>1. Lookup(g)' = Lookup(g)
      BY <1>0, <2>1, <2>4 DEF LookupRight
    <3>2. ~IsExpired(segs[i])'
      BY <2>4, <1>0 DEF Holds, Visited
    <3>3. clock + 1 < segs[i].lastTouch + Retention
      BY <3>2, <1>0, <2>3, DurationsAssumption DEF IsExpired, Elapsed
    <3>4. clock + 1 < themaps[i][g].firstSeen + Retention + SegDuration
      BY <3>3, <1>0, <2>2, <2>3, DurationsAssumption
    <3> QED BY <3>1, <3>4, <2>1, <1>m DEF Promise!MayKeep
  <2>5. CASE ~Holds(i, g)'
    <3>1. Absent(g)'
      <4>1. ASSUME NEW j \in 1..Len(segs), Holds(j, g)' PROVE FALSE
        <5>1. Holds(j, g)
          BY <4>1, TickHolds
        <5>2. j = i
          BY <5>1 DEF OneCopy
        <5> QED BY <4>1, <5>2, <2>5
      <4> QED BY <4>1, <1>0 DEF Absent
    <3>2. PICK k \in 1..i : IsExpired(segs[k])'
      BY <2>1, <2>5, <1>0 DEF Holds, Visited
    <3>3. k \in 1..Len(segs) /\ segs[k].lastTouch \in Nat
      BY <1>0, SegmentFields DEF CacheTypeOK
    <3>4. segs[i].lastTouch <= segs[k].lastTouch /\ segs[k].lastTouch <= clock
      BY <3>3, <1>0, <2>3, SegmentFields
         DEF OrderInv, SegmentsInOrder, TouchedWhileOpen, NoFutureSegment, CacheTypeOK
    <3>5. clock + 1 >= segs[k].lastTouch + Retention
      BY <3>2, <3>3, <3>4, <1>0, DurationsAssumption DEF IsExpired, Elapsed
    <3>6. clock + 1 >= themaps[i][g].firstSeen + Retention
      BY <3>3, <3>4, <3>5, <2>2, <2>3, <1>0, DurationsAssumption
    <3>7. Lookup(g)' = NoEntry
      BY <3>1 DEF LookupRight
    <3> QED BY <3>6, <3>7, <2>1, <1>m DEF Promise!MayForget
  <2> QED BY <2>4, <2>5
<1> QED BY <1>1, <1>2

\* Every step of the cache is a step of the promise, or none.
LEMMA PromiseStep ==
  ASSUME MaxBack = 0, CacheTypeOK, OrderInv, OneCopy, EntriesOfSegment,
         LookupRight, LookupRight', [CacheNext]_cacheVars
  PROVE  [Promise!Next]_(Promise!memVars)
<1> DEFINE Mem == [h \in Hash |-> Lookup(h)]
<1>a. Mem' = [h \in Hash |-> Lookup(h)']
  OBVIOUS
<1>1. ASSUME NEW h \in Hash, Find(h) PROVE Promise!Found(h) /\ UNCHANGED clock
  <2> PICK i \in 1..Len(segs) : FindTouch(i, h)
    BY <1>1 DEF Find
  <2>1. clock' = clock
    BY FindTouchMaps DEF vars
  <2>2. /\ Lookup(h) # NoEntry
        /\ Lookup(h)' = Promise!Visited(Lookup(h))
        /\ \A g \in Hash : g # h => Lookup(g)' = Lookup(g)
    BY LookupFindTouch, EntryAssumption
  <2>3. Mem' = [Mem EXCEPT ![h] = Promise!Visited(Mem[h])]
    BY <1>a, <2>2
  <2> QED BY <2>1, <2>2, <2>3 DEF Promise!Found
<1>2. ASSUME NEW h \in Hash, NEW id \in Id, SeenHashBy(h, id)
      PROVE  Promise!Seen(h, id) /\ UNCHANGED clock
  <2>1. CASE Find(h)
    <3>1. /\ Mem[h] # NoEntry /\ clock' = clock
          /\ Mem' = [Mem EXCEPT ![h] = Promise!Visited(Mem[h])]
      BY <1>1, <2>1 DEF Promise!Found
    <3>2. Mem' = [Mem EXCEPT ![h] = IF Mem[h] = NoEntry THEN Promise!Fresh(id)
                                                    ELSE Promise!Visited(Mem[h])]
      BY <3>1
    <3> QED BY <3>1, <3>2 DEF Promise!Seen
  <2>2. CASE Absent(h) /\ Insert(h, id)
    <3>1. clock' = clock
      BY <2>2 DEF Insert, NewEntry
    <3>2. /\ Lookup(h) = NoEntry /\ Lookup(h)' = Promise!Fresh(id)
          /\ \A g \in Hash : g # h => Lookup(g)' = Lookup(g)
      BY <2>2, LookupInsert
    <3>3. Mem' = [Mem EXCEPT ![h] = IF Mem[h] = NoEntry THEN Promise!Fresh(id)
                                                    ELSE Promise!Visited(Mem[h])]
      BY <1>a, <3>2
    <3> QED BY <3>1, <3>3 DEF Promise!Seen
  <2> QED BY <1>2, <2>1, <2>2 DEF SeenHashBy
<1>3. ASSUME NEW h \in Hash, FindWithDelete(h) PROVE Promise!Deleted(h) /\ UNCHANGED clock
  <2>1. clock' = clock
    BY <1>3 DEF FindWithDelete, vars
  <2>2. /\ Lookup(h) # NoEntry /\ Lookup(h)' = NoEntry
        /\ \A g \in Hash : g # h => Lookup(g)' = Lookup(g)
    BY <1>3, LookupDelete
  <2>3. Mem' = [Mem EXCEPT ![h] = NoEntry]
    BY <1>a, <2>2
  <2> QED BY <2>1, <2>2, <2>3 DEF Promise!Deleted
<1>4. CASE PurgeCache
  <2>1. clock' = clock
    BY <1>4 DEF PurgeCache, Purge
  <2>2. Mem' = Mem
    BY <1>4, <1>a, LookupPurge
  <2> QED BY <2>1, <2>2 DEF Promise!memVars
<1>5. CASE CacheTick
  <2>1. clock < MaxClock /\ clock' = clock + 1
    BY <1>5 DEF CacheTick, Tick
  <2> DEFINE gone == {g \in Hash : ~(Lookup(g)' = Lookup(g) /\ Promise!MayKeep(g))}
  <2>2. \A g \in gone : Lookup(g)' = NoEntry /\ Promise!MayForget(g)
    BY <1>5, LookupTick
  <2>3. \A g \in Hash \ gone : Lookup(g)' = Lookup(g) /\ Promise!MayKeep(g)
    OBVIOUS
  <2>4. Mem' = [g \in Hash |-> IF g \in gone THEN NoEntry ELSE Mem[g]]
    BY <1>a, <2>2, <2>3
  <2> HIDE DEF gone
  <2>5. Promise!Forget(gone)
    BY <2>2, <2>3, <2>4 DEF Promise!Forget
  <2>6. gone \in SUBSET Hash
    BY DEF gone
  <2> QED BY <2>1, <2>5, <2>6 DEF Promise!Next, Promise!Advance
<1>6. CASE CacheStepBack
  <2> PICK d \in 1..MaxBack : TRUE
    BY <1>6 DEF CacheStepBack, StepBack
  <2> QED OBVIOUS
<1>7. CASE UNCHANGED cacheVars
  <2>1. clock' = clock /\ \A h \in Hash : Lookup(h)' = Lookup(h)
    BY <1>7 DEF cacheVars, Lookup, Absent, FoundAt, Holds, Visited, IsExpired, Elapsed
  <2>2. Mem' = Mem
    BY <1>a, <2>1
  <2> QED BY <2>1, <2>2 DEF Promise!memVars
<1> QED BY <1>1, <1>2, <1>3, <1>4, <1>5, <1>6, <1>7 DEF CacheNext, CacheForward, Promise!Next

\* While the clock is never set back, every run of the cache is a run of its
\* promise, for every number of hashes and sources and all durations.
THEOREM KeepsPromiseAlways == ASSUME MaxBack = 0 PROVE CacheSpec => KeepsPromise
<1>1. CacheInit => Promise!Init
  BY DEF CacheInit, Init, Promise!Init, Lookup
<1>2. CacheTypeOK /\ OrderInv /\ OneCopy /\ EntriesOfSegment /\ LookupRight
        /\ LookupRight' /\ [CacheNext]_cacheVars => [Promise!Next]_(Promise!memVars)
  BY PromiseStep
<1> QED BY <1>1, <1>2, CacheTypeCorrect, EmbedsBuffer, OrderAlways, OneCopyAlways,
           EntriesAlways, LookupAlways, PTL
        DEF CacheSpec, KeepsPromise, Promise!Spec

-----------------------------------------------------------------------------
\* 3. The buffers of event time stamps.

\* Recording and purging touch the segments only by the buffer's operations.
LEMMA EventStepEmbeds == [EventNext]_eventVars => [Next]_vars
BY DEF EventNext, RecordTS, PurgeEvents, EventTick, EventStepBack, Next,
       eventVars, vars

-----------------------------------------------------------------------------
\* What the actions do to the events.

\* The events of every segment are events, with their time stamps.
LEMMA EventFields ==
  ASSUME EventTypeOK, NEW i \in 1..Len(segs), NEW e \in eventTs[i]
  PROVE  e \in Event /\ e.ts \in Nat
<1>1. eventTs[i] \in SUBSET Event
  BY DEF EventTypeOK
<1> QED BY <1>1 DEF Event

\* An event is put into a new segment, or into the open one beside the others.
LEMMA RecordedEvents ==
  ASSUME EventTypeOK, NEW e \in Event,
         NewEntry,
         eventTs' = IF NeedsSegment THEN <<{e}>> \o eventTs
                                    ELSE [eventTs EXCEPT ![1] = @ \cup {e}]
  PROVE  /\ eventTs' \in Seq(SUBSET Event)
         /\ Len(eventTs') = Len(segs')
         /\ NeedsSegment => /\ eventTs'[1] = {e}
                            /\ \A i \in 1..Len(segs) : eventTs'[i + 1] = eventTs[i]
         /\ ~NeedsSegment => /\ eventTs'[1] = eventTs[1] \cup {e}
                             /\ \A i \in 2..Len(segs) : eventTs'[i] = eventTs[i]
<1>1. TypeOK /\ eventTs \in Seq(SUBSET Event) /\ Len(eventTs) = Len(segs)
  BY DEF EventTypeOK
<1>2. CASE NeedsSegment
  <2>1. eventTs' = <<{e}>> \o eventTs /\ {e} \in SUBSET Event
    BY <1>2
  <2>2. Len(segs') = Len(segs) + 1
    BY <1>1, <1>2, NewEntryList
  <2> QED BY <1>1, <1>2, <2>1, <2>2
<1>3. CASE ~NeedsSegment
  <2>1. Len(segs') = Len(segs) /\ segs # <<>> /\ segs \in Seq(Segment)
    BY <1>1, <1>3, NewEntryList DEF TypeOK
  <2>2. 1 \in 1..Len(eventTs)
    BY <1>1, <2>1
  <2>3. eventTs' = [eventTs EXCEPT ![1] = eventTs[1] \cup {e}]
    BY <1>3, <2>2
  <2>4. eventTs[1] \cup {e} \in SUBSET Event
    BY <1>1, <2>2
  <2> QED BY <1>1, <1>3, <2>1, <2>2, <2>3, <2>4
<1> QED BY <1>2, <1>3

\* A purge pass keeps the events of the segments it keeps.
LEMMA PurgedEvents ==
  ASSUME EventTypeOK, NEW n \in 0..Len(segs), Purge(n),
         eventTs' = SubSeq(eventTs, 1, Len(segs'))
  PROVE  /\ eventTs' \in Seq(SUBSET Event)
         /\ Len(eventTs') = n
         /\ \A i \in 1..n : eventTs'[i] = eventTs[i]
<1>1. TypeOK /\ eventTs \in Seq(SUBSET Event) /\ Len(eventTs) = Len(segs)
  BY DEF EventTypeOK
<1>2. Len(segs') = n
  BY <1>1, PurgeList
<1> QED BY <1>1, <1>2

\* Every step keeps the types.
LEMMA EventTypeStep == EventTypeOK /\ [EventNext]_eventVars => EventTypeOK'
<1> SUFFICES ASSUME EventTypeOK, [EventNext]_eventVars PROVE EventTypeOK'
  OBVIOUS
<1>0. TypeOK /\ TypeOK'
  BY TypeStep, EventStepEmbeds DEF EventTypeOK
<1>1. CASE RecordTS
  <2> PICK id \in EventId :
        /\ recorded' = recorded \cup {[ts |-> clock, id |-> id]}
        /\ eventTs' = IF NeedsSegment THEN <<{[ts |-> clock, id |-> id]}>> \o eventTs
                      ELSE [eventTs EXCEPT ![1] = @ \cup {[ts |-> clock, id |-> id]}]
    BY <1>1 DEF RecordTS
  <2>1. [ts |-> clock, id |-> id] \in Event
    BY <1>0, ClockAssumption DEF TypeOK, Event
  <2>2. NewEntry /\ stepped' = stepped
    BY <1>1 DEF RecordTS
  <2>3. eventTs' \in Seq(SUBSET Event) /\ Len(eventTs') = Len(segs')
    BY <2>1, <2>2, RecordedEvents
  <2>4. recorded' \subseteq Event
    BY <2>1 DEF EventTypeOK
  <2> QED BY <1>0, <2>2, <2>3, <2>4 DEF EventTypeOK
<1>2. CASE PurgeEvents
  <2> PICK n \in 0..Len(segs) : Purge(n)
    BY <1>2 DEF PurgeEvents, PurgePass
  <2>1. eventTs' = SubSeq(eventTs, 1, Len(segs')) /\ UNCHANGED <<recorded, stepped>>
    BY <1>2 DEF PurgeEvents
  <2>2. Len(segs') = n
    BY <1>0, PurgeList
  <2> QED BY <1>0, <2>1, <2>2, PurgedEvents DEF EventTypeOK
<1>3. CASE EventTick
  BY <1>0, <1>3 DEF EventTypeOK, EventTick, Tick
<1>4. CASE EventStepBack
  BY <1>0, <1>4 DEF EventTypeOK, EventStepBack, StepBack
<1>5. CASE UNCHANGED eventVars
  BY <1>0, <1>5 DEF EventTypeOK, eventVars
<1> QED BY <1>1, <1>2, <1>3, <1>4, <1>5 DEF EventNext

-----------------------------------------------------------------------------
\* The strengthening of CountExact: the types, the bounds of the stamps, where
\* the events are, and, until the clock is set back, the order of the segments.
EventInv ==
  /\ EventTypeOK
  /\ StampInv
  /\ EventsOfSegment
  /\ ~stepped => OrderInv /\ HeldOrOld

\* The segments stay in order until the clock is set back.
LEMMA EventOrderStep ==
  ASSUME EventInv, [EventNext]_eventVars, ~stepped' PROVE OrderInv'
<1>1. TypeOK /\ ~stepped /\ OrderInv
  BY DEF EventInv, EventTypeOK, EventNext, RecordTS, PurgeEvents, EventTick,
         EventStepBack, eventVars
<1>2. ~EventStepBack
  BY DEF EventStepBack
<1>3. NewEntry \/ PurgePass \/ Tick \/ UNCHANGED vars
  BY <1>2 DEF EventNext, RecordTS, PurgeEvents, EventTick, eventVars, vars
<1> QED BY <1>1, <1>3, OrderForward

\* A touched segment was made before the event put into it, even if the clock was
\* set back since.
LEMMA OpenMadeBefore ==
  ASSUME TypeOK, StampInv, ~NeedsSegment PROVE segs[1].created <= clock
<1>1. segs # <<>> /\ IsOpen(segs[1])
  BY DEF NeedsSegment
<1>2. 1 \in 1..Len(segs) /\ clock \in Nat
  BY <1>1, ClockAssumption DEF TypeOK
<1>3. segs[1].created \in Nat /\ segs[1].created <= MaxClock
  BY <1>2, SegmentFields, ClockAssumption DEF StampInv, TouchedWhileOpen
<1> QED BY <1>1, <1>2, <1>3, DurationsAssumption, ClockAssumption DEF IsOpen, Elapsed

\* The events stay where they were recorded.
LEMMA EventsOfSegmentStep ==
  ASSUME EventInv, [EventNext]_eventVars PROVE EventsOfSegment'
<1>0. /\ EventTypeOK /\ TypeOK /\ StampInv /\ EventsOfSegment
      /\ ~stepped => NoFutureSegment
      /\ clock \in Nat /\ Len(segs) \in Nat /\ Len(eventTs) = Len(segs)
  BY ClockAssumption DEF EventInv, EventTypeOK, TypeOK, OrderInv
<1>1. CASE RecordTS
  <2> PICK id \in EventId :
        /\ recorded' = recorded \cup {[ts |-> clock, id |-> id]}
        /\ eventTs' = IF NeedsSegment THEN <<{[ts |-> clock, id |-> id]}>> \o eventTs
                      ELSE [eventTs EXCEPT ![1] = @ \cup {[ts |-> clock, id |-> id]}]
    BY <1>1 DEF RecordTS
  <2> DEFINE e == [ts |-> clock, id |-> id]
  <2>1. e \in Event /\ e.ts = clock
    BY <1>0 DEF Event
  <2>2. NewEntry /\ stepped' = stepped /\ recorded' = recorded \cup {e}
    BY <1>1 DEF RecordTS
  <2>3. eventTs' = IF NeedsSegment THEN <<{e}>> \o eventTs
                                   ELSE [eventTs EXCEPT ![1] = @ \cup {e}]
    OBVIOUS
  <2> HIDE DEF e
  <2>4. CASE NeedsSegment
    <3>1. /\ Len(segs') = Len(segs) + 1 /\ segs'[1] = NewSegment
          /\ \A i \in 1..Len(segs) : segs'[i + 1] = segs[i]
      BY <1>0, <2>2, <2>4, NewEntryList
    <3>2. /\ eventTs'[1] = {e}
          /\ \A i \in 1..Len(segs) : eventTs'[i + 1] = eventTs[i]
      BY <1>0, <2>1, <2>2, <2>3, <2>4, RecordedEvents
    <3> SUFFICES ASSUME NEW i \in 1..Len(segs'), NEW f \in eventTs'[i]
                 PROVE  /\ f \in recorded'
                        /\ segs'[i].created <= f.ts
                        /\ ~stepped' => f.ts <= segs'[i].lastTouch
      BY DEF EventsOfSegment
    <3>3. CASE i = 1
      BY <3>3, <3>1, <3>2, <2>1, <2>2, <1>0 DEF NewSegment
    <3>4. CASE i # 1
      <4>1. i - 1 \in 1..Len(segs)
        BY <3>4, <3>1, <1>0
      <4>2. segs'[i] = segs[i - 1] /\ eventTs'[i] = eventTs[i - 1]
        <5>1. segs'[(i - 1) + 1] = segs[i - 1] /\ eventTs'[(i - 1) + 1] = eventTs[i - 1]
          BY <4>1, <3>1, <3>2
        <5>2. (i - 1) + 1 = i
          OBVIOUS
        <5> QED BY <5>1, <5>2
      <4> QED BY <4>1, <4>2, <2>2, <1>0 DEF EventsOfSegment
    <3> QED BY <3>3, <3>4
  <2>5. CASE ~NeedsSegment
    <3>1. /\ Len(segs') = Len(segs) /\ segs # <<>>
          /\ segs'[1] = [segs[1] EXCEPT !.lastTouch = clock]
          /\ \A i \in 2..Len(segs) : segs'[i] = segs[i]
      BY <1>0, <2>2, <2>5, NewEntryList
    <3>2. /\ eventTs'[1] = eventTs[1] \cup {e}
          /\ \A i \in 2..Len(segs) : eventTs'[i] = eventTs[i]
      BY <1>0, <2>1, <2>2, <2>3, <2>5, RecordedEvents
    <3>3. 1 \in 1..Len(segs)
      BY <3>1, <1>0 DEF TypeOK
    <3>4. segs'[1].created = segs[1].created /\ segs'[1].lastTouch = clock
      <4>1. segs[1] \in [created : Nat, lastTouch : Nat]
        BY <3>3, <1>0, SegmentFields DEF Segment
      <4> QED BY <4>1, <3>1
    <3> SUFFICES ASSUME NEW i \in 1..Len(segs'), NEW f \in eventTs'[i]
                 PROVE  /\ f \in recorded'
                        /\ segs'[i].created <= f.ts
                        /\ ~stepped' => f.ts <= segs'[i].lastTouch
      BY DEF EventsOfSegment
    <3>5. CASE i = 1 /\ f = e
      BY <3>5, <3>4, <2>1, <2>2, <1>0, <2>5, OpenMadeBefore
    <3>6. CASE i = 1 /\ f \in eventTs[1]
      <4>1. /\ f \in recorded /\ segs[1].created <= f.ts
            /\ ~stepped => f.ts <= segs[1].lastTouch
        BY <3>6, <3>3, <1>0 DEF EventsOfSegment
      <4>2. ~stepped => segs[1].lastTouch <= clock
        BY <3>3, <1>0 DEF NoFutureSegment
      <4>3. f.ts \in Nat /\ segs[1].lastTouch \in Nat
        BY <3>6, <3>3, <1>0, EventFields, SegmentFields
      <4> QED BY <4>1, <4>2, <4>3, <3>6, <3>4, <2>2, <1>0
    <3>7. CASE i # 1
      <4>1. i \in 2..Len(segs) /\ i \in 1..Len(segs)
        BY <3>7, <3>1, <1>0
      <4>2. segs'[i] = segs[i] /\ eventTs'[i] = eventTs[i]
        BY <4>1, <3>1, <3>2
      <4> QED BY <4>1, <4>2, <2>2, <1>0 DEF EventsOfSegment
    <3>8. i = 1 => f = e \/ f \in eventTs[1]
      BY <3>2
    <3> QED BY <3>5, <3>6, <3>7, <3>8
  <2> QED BY <2>4, <2>5
<1>2. CASE PurgeEvents
  <2> PICK n \in 0..Len(segs) : Purge(n)
    BY <1>2 DEF PurgeEvents, PurgePass
  <2>1. eventTs' = SubSeq(eventTs, 1, Len(segs')) /\ UNCHANGED <<recorded, stepped>>
    BY <1>2 DEF PurgeEvents
  <2>2. Len(segs') = n /\ \A i \in 1..n : segs'[i] = segs[i]
    BY <1>0, PurgeList
  <2>3. \A i \in 1..n : eventTs'[i] = eventTs[i]
    BY <1>0, <2>1, PurgedEvents
  <2>4. \A i \in 1..n : i \in 1..Len(segs)
    BY <1>0
  <2> QED BY <2>1, <2>2, <2>3, <2>4, <1>0 DEF EventsOfSegment
<1>3. CASE EventTick
  BY <1>3, <1>0 DEF EventTick, Tick, EventsOfSegment
<1>4. CASE EventStepBack
  BY <1>4, <1>0 DEF EventStepBack, StepBack, EventsOfSegment
<1>5. CASE UNCHANGED eventVars
  BY <1>5, <1>0 DEF eventVars, EventsOfSegment
<1> QED BY <1>1, <1>2, <1>3, <1>4, <1>5 DEF EventNext

\* An event leaves the buffer only when it is old, until the clock is set back.
LEMMA HeldOrOldStep ==
  ASSUME EventInv, [EventNext]_eventVars, ~stepped' PROVE HeldOrOld'
<1>0. /\ EventTypeOK /\ TypeOK /\ EventsOfSegment
      /\ clock \in Nat /\ Len(segs) \in Nat /\ Len(eventTs) = Len(segs)
      /\ recorded \subseteq Event
  BY ClockAssumption DEF EventInv, EventTypeOK, TypeOK
<1>00. ~stepped /\ OrderInv /\ HeldOrOld /\ ~EventStepBack
  BY DEF EventInv, EventTypeOK, EventNext, RecordTS, PurgeEvents, EventTick,
         EventStepBack, eventVars
<1>1. CASE RecordTS
  <2> PICK id \in EventId :
        /\ recorded' = recorded \cup {[ts |-> clock, id |-> id]}
        /\ eventTs' = IF NeedsSegment THEN <<{[ts |-> clock, id |-> id]}>> \o eventTs
                      ELSE [eventTs EXCEPT ![1] = @ \cup {[ts |-> clock, id |-> id]}]
    BY <1>1 DEF RecordTS
  <2> DEFINE e == [ts |-> clock, id |-> id]
  <2>1. e \in Event
    BY <1>0 DEF Event
  <2>2. NewEntry /\ recorded' = recorded \cup {e} /\ clock' = clock
    BY <1>1 DEF RecordTS, NewEntry
  <2>3. eventTs' = IF NeedsSegment THEN <<{e}>> \o eventTs
                                   ELSE [eventTs EXCEPT ![1] = @ \cup {e}]
    OBVIOUS
  <2> HIDE DEF e
  <2>4. Len(segs') >= 1 /\ Len(segs') \in Nat /\ e \in eventTs'[1]
    <3>1. segs' \in Seq(Segment) /\ segs' # <<>>
      BY <1>0, <2>2, NewEntryList
    <3>2. e \in eventTs'[1]
      BY <1>0, <2>1, <2>2, <2>3, RecordedEvents
    <3> QED BY <3>1, <3>2
  <2>5. ASSUME NEW i \in 1..Len(segs), NEW f \in eventTs[i]
        PROVE  \E k \in 1..Len(segs') : f \in eventTs'[k]
    <3>1. CASE NeedsSegment
      <4>1. i + 1 \in 1..Len(segs')
        BY <3>1, <1>0, <2>2, NewEntryList
      <4>2. eventTs'[i + 1] = eventTs[i]
        BY <3>1, <1>0, <2>1, <2>2, <2>3, RecordedEvents
      <4> QED BY <4>1, <4>2
    <3>2. CASE ~NeedsSegment
      <4>1. i \in 1..Len(segs')
        BY <3>2, <1>0, <2>2, NewEntryList
      <4>2. /\ eventTs'[1] = eventTs[1] \cup {e}
            /\ \A k \in 2..Len(segs) : eventTs'[k] = eventTs[k]
        BY <3>2, <1>0, <2>1, <2>2, <2>3, RecordedEvents
      <4>3. i = 1 \/ i \in 2..Len(segs)
        BY <1>0
      <4> QED BY <4>1, <4>2, <4>3
    <3> QED BY <3>1, <3>2
  <2> SUFFICES ASSUME NEW f \in recorded',
                      ~(\E k \in 1..Len(segs') : f \in eventTs'[k])
               PROVE  f.ts + Retention <= clock'
    BY DEF HeldOrOld
  <2>6. f # e
    <3>1. 1 \in 1..Len(segs')
      BY <2>4
    <3> QED BY <3>1, <2>4
  <2>7. f \in recorded /\ ~(\E i \in 1..Len(segs) : f \in eventTs[i])
    BY <2>2, <2>5, <2>6
  <2> QED BY <2>7, <2>2, <1>00 DEF HeldOrOld
<1>2. CASE PurgeEvents
  <2> PICK n \in 0..Len(segs) : Purge(n)
    BY <1>2 DEF PurgeEvents, PurgePass
  <2>1. /\ eventTs' = SubSeq(eventTs, 1, Len(segs')) /\ UNCHANGED <<recorded, stepped>>
        /\ clock' = clock
    BY <1>2 DEF PurgeEvents, PurgePass, Purge
  <2>2. Len(segs') = n /\ (n < Len(segs) => IsExpired(segs[n + 1]))
    BY <1>0, PurgeList
  <2>3. \A i \in 1..n : eventTs'[i] = eventTs[i]
    BY <1>0, <2>1, PurgedEvents
  <2> SUFFICES ASSUME NEW f \in recorded,
                      NEW i \in 1..Len(segs), f \in eventTs[i],
                      ~(\E k \in 1..Len(segs') : f \in eventTs'[k])
               PROVE  f.ts + Retention <= clock
    BY <2>1, <1>00 DEF HeldOrOld
  <2>4. i > n
    BY <2>2, <2>3, <1>0
  <2>5. IsExpired(segs[i])
    <3>1. ExpiredIsSuffix /\ n + 1 \in 1..Len(segs) /\ IsExpired(segs[n + 1])
      BY <1>0, <1>00, <2>2, <2>4, OrderGivesSuffix
    <3>2. i = n + 1 \/ n + 1 < i
      BY <2>4, <1>0
    <3> QED BY <3>1, <3>2 DEF ExpiredIsSuffix
  <2>6. f.ts <= segs[i].lastTouch /\ segs[i].lastTouch <= clock
    BY <1>0, <1>00 DEF EventsOfSegment, OrderInv, NoFutureSegment
  <2>7. f.ts \in Nat /\ segs[i].lastTouch \in Nat
    BY <1>0, EventFields, SegmentFields
  <2> QED BY <2>5, <2>6, <2>7, <1>0, DurationsAssumption DEF IsExpired, Elapsed
<1>3. CASE EventTick
  <2>1. clock' = clock + 1 /\ UNCHANGED <<segs, eventTs, recorded>>
    BY <1>3 DEF EventTick, Tick
  <2> SUFFICES ASSUME NEW f \in recorded,
                      ~(\E k \in 1..Len(segs) : f \in eventTs[k])
               PROVE  f.ts + Retention <= clock'
    BY <2>1 DEF HeldOrOld
  <2>2. f.ts + Retention <= clock /\ f.ts \in Nat
    BY <1>0, <1>00 DEF HeldOrOld, Event
  <2> QED BY <2>1, <2>2, <1>0, DurationsAssumption
<1>4. CASE UNCHANGED eventVars
  BY <1>4, <1>00 DEF eventVars, HeldOrOld
<1> QED BY <1>1, <1>2, <1>3, <1>4, <1>00 DEF EventNext

\* The strengthening is inductive.
LEMMA EventInvStep == EventInv /\ [EventNext]_eventVars => EventInv'
<1> SUFFICES ASSUME EventInv, [EventNext]_eventVars PROVE EventInv'
  OBVIOUS
<1>1. EventTypeOK'
  BY EventTypeStep DEF EventInv
<1>2. StampInv'
  BY StampStep, EventStepEmbeds DEF EventInv, EventTypeOK
<1>3. EventsOfSegment'
  BY EventsOfSegmentStep
<1>4. ~stepped' => OrderInv' /\ HeldOrOld'
  BY EventOrderStep, HeldOrOldStep
<1> QED BY <1>1, <1>2, <1>3, <1>4 DEF EventInv

-----------------------------------------------------------------------------
\* What a walk finds when the strengthening holds.

\* An event found in a segment was recorded in the window.
LEMMA SinceExact ==
  ASSUME EventInv, NEW i \in 1..Len(segs), NEW earliest \in Int,
         NEW e \in Since(i, earliest)
  PROVE  e \in recorded /\ e.ts >= earliest
BY DEF EventInv, EventsOfSegment, Since

\* While the clock is not set back, a walk visits the segment of every event
\* younger than the retention.
LEMMA NewerWalked ==
  ASSUME EventInv, ~stepped, NEW e \in Newer(clock - Retention)
  PROVE  \E i \in Walked : e \in eventTs[i]
<1>1. /\ EventTypeOK /\ TypeOK /\ OrderInv /\ HeldOrOld /\ EventsOfSegment
      /\ clock \in Nat /\ e \in recorded /\ e.ts > clock - Retention /\ e.ts \in Nat
  BY ClockAssumption DEF EventInv, EventTypeOK, TypeOK, Newer, Event
<1>2. PICK i \in 1..Len(segs) : e \in eventTs[i]
  BY <1>1, DurationsAssumption DEF HeldOrOld
<1>3. e.ts <= segs[i].lastTouch /\ segs[i].lastTouch <= clock /\ segs[i].lastTouch \in Nat
  <2>1. e.ts <= segs[i].lastTouch
    BY <1>1, <1>2 DEF EventsOfSegment
  <2>2. segs[i].lastTouch <= clock
    BY <1>1 DEF OrderInv, NoFutureSegment
  <2> QED BY <2>1, <2>2, <1>1, SegmentFields
<1>4. ~IsExpired(segs[i])
  BY <1>1, <1>3, DurationsAssumption DEF IsExpired, Elapsed
<1>5. \A j \in 1..i : ~IsExpired(segs[j])
  <2> TAKE j \in 1..i
  <2>1. j \in 1..Len(segs) /\ (j = i \/ j < i)
    BY <1>1 DEF TypeOK
  <2> QED BY <2>1, <1>1, <1>4, OrderGivesSuffix DEF ExpiredIsSuffix
<1> QED BY <1>2, <1>5 DEF Walked, Visited

\* ForEachEntry finds what it should over every window.
LEMMA ForEachExact ==
  ASSUME EventInv, NEW earliest \in Int PROVE Exact(ForEachEntry(earliest), earliest)
<1>1. ASSUME NEW e \in ForEachEntry(earliest) PROVE e \in recorded /\ e.ts >= earliest
  BY <1>1, SinceExact DEF ForEachEntry, Walked
<1>2. ASSUME ~stepped, NEW e \in Newer(clock - Retention), e.ts >= earliest
      PROVE  e \in ForEachEntry(earliest)
  BY <1>2, NewerWalked DEF ForEachEntry, Since
<1> QED BY <1>1, <1>2 DEF Exact

\* CountAll finds what it should though it looks at no event of most segments.
LEMMA CountAllExact ==
  ASSUME EventInv PROVE Exact(CountAll, clock - Retention)
<1> DEFINE earliest == clock - Retention
<1>0. earliest \in Int /\ TypeOK /\ EventTypeOK /\ EventsOfSegment
  BY ClockAssumption, DurationsAssumption DEF EventInv, EventTypeOK, TypeOK
<1> DEFINE Of(i) == IF CountsWhole(i, earliest) THEN eventTs[i] ELSE Since(i, earliest)
<1>a. CountAll = UNION {Of(i) : i \in Walked}
  BY DEF CountAll
<1>1. ASSUME NEW i \in 1..Len(segs), NEW e \in Of(i)
      PROVE  e \in recorded /\ e.ts >= earliest
  <2>1. CASE CountsWhole(i, earliest)
    <3>1. e \in eventTs[i] /\ segs[i].created >= earliest
      BY <2>1, <1>1 DEF CountsWhole
    <3>2. segs[i].created \in Nat /\ e.ts \in Nat
      BY <1>0, <3>1, EventFields, SegmentFields
    <3> HIDE DEF earliest
    <3> QED BY <3>1, <3>2, <1>0 DEF EventsOfSegment
  <2>2. CASE ~CountsWhole(i, earliest)
    BY <2>2, <1>0, <1>1, SinceExact
  <2> QED BY <2>1, <2>2
<1>2. ASSUME ~stepped, NEW e \in Newer(clock - Retention), e.ts >= earliest
      PROVE  e \in CountAll
  <2> PICK i \in Walked : e \in eventTs[i]
    BY <1>2, NewerWalked
  <2>1. e \in Of(i)
    BY <1>2 DEF Since
  <2> QED BY <2>1, <1>a
<1>3. ASSUME NEW e \in CountAll PROVE e \in recorded /\ e.ts >= earliest
  <2> HIDE DEF Of
  <2>1. PICK i \in Walked : e \in Of(i)
    BY <1>a, <1>3
  <2>2. i \in 1..Len(segs)
    BY DEF Walked
  <2> QED BY <2>1, <2>2, <1>1
<1> QED BY <1>2, <1>3 DEF Exact

\* The strengthening holds at every time.
LEMMA EventInvAlways == EventSpec => []EventInv
<1>1. ASSUME EventInit PROVE EventInv
  <2>1. /\ clock = 0 /\ segs = <<>> /\ loops = 0
        /\ eventTs = <<>> /\ recorded = {}
        /\ Len(segs) = 0 /\ Len(eventTs) = 0
    BY <1>1 DEF EventInit, Init
  <2>2. TypeOK
    BY <2>1, ClockAssumption DEF TypeOK
  <2>3. stepped \in BOOLEAN
    BY <1>1 DEF EventInit
  <2>4. eventTs \in Seq(SUBSET Event) /\ recorded \subseteq Event
    BY <2>1
  <2>5. EventTypeOK
    BY <2>1, <2>2, <2>3, <2>4 DEF EventTypeOK
  <2>6. StampInv /\ OrderInv
    BY <2>1 DEF StampInv, TouchedWhileOpen, OrderInv, SegmentsInOrder, NoFutureSegment
  <2>7. EventsOfSegment /\ HeldOrOld
    BY <2>1 DEF EventsOfSegment, HeldOrOld
  <2> QED BY <2>5, <2>6, <2>7 DEF EventInv
<1> QED BY <1>1, EventInvStep, PTL DEF EventSpec

\* The events and the segments keep their types.
THEOREM EventTypeCorrect == EventSpec => []EventTypeOK
<1>1. EventInv => EventTypeOK
  BY DEF EventInv
<1> QED BY <1>1, EventInvAlways, PTL

\* Nothing older than the window is ever counted, and, while the clock is not
\* set back, nothing younger is missed: for any number of events and segments,
\* all durations and every window.
THEOREM CountExactAlways == EventSpec => []CountExact
<1>1. EventInv => CountExact
  <2> SUFFICES ASSUME EventInv PROVE CountExact
    OBVIOUS
  <2>1. \A earliest \in 0..MaxClock : earliest \in Int
    OBVIOUS
  <2> QED BY <2>1, CountAllExact, ForEachExact DEF CountExact
<1> QED BY <1>1, EventInvAlways, PTL

-----------------------------------------------------------------------------
\* The time returned with the count, which a walk computes segment by segment.

\* Every set of numbers that is not empty has a least one.
LEMMA Least ==
  ASSUME NEW T \in SUBSET Nat, T # {} PROVE \E n \in T : \A m \in T : n <= m
<1>1. PICK n \in T : \A m \in T : ~ (<<m, n>> \in {ss \in Nat \X Nat : ss[1] < ss[2]})
  BY NatLessThanWellFounded, WFMin DEF OpToRel
<1>2. ASSUME NEW m \in T PROVE n <= m
  <2>1. m \in Nat /\ n \in Nat
    OBVIOUS
  <2>2. ~(m < n)
    BY <1>1, <2>1
  <2> QED BY <2>1, <2>2
<1> QED BY <1>2

\* f follows step from base up to m.
Follows(f, m, base, step) ==
  /\ f[0] = base
  /\ \A i \in 1..m : f[i] = step[<<i, f[i - 1]>>]

\* A function can be defined by its value at 0 and a step from each to the next.
LEMMA RecursionExists ==
  ASSUME NEW n \in Nat, NEW V, NEW base \in V, NEW step \in [(1..n) \X V -> V]
  PROVE  \E f \in [0..n -> V] : Follows(f, n, base, step)
<1> DEFINE Bad == {m \in 0..n : ~ \E f \in [0..m -> V] : Follows(f, m, base, step)}
<1>1. SUFFICES ASSUME Bad # {} PROVE FALSE
  <2>1. n \in 0..n
    OBVIOUS
  <2> QED BY <2>1, <1>1
<1>2. PICK m \in Bad : \A k \in Bad : m <= k
  <2>1. Bad \in SUBSET Nat
    OBVIOUS
  <2> HIDE DEF Bad
  <2> QED BY <1>1, <2>1, Least
<1>3. 0 \notin Bad
  <2> DEFINE f == [i \in 0..0 |-> base]
  <2>1. f \in [0..0 -> V] /\ Follows(f, 0, base, step)
    BY DEF Follows
  <2> QED BY <2>1
<1>4. m - 1 \in 0..n /\ m \in 1..n /\ m - 1 \notin Bad
  <2>1. m \in 0..n /\ m # 0
    BY <1>2, <1>3
  <2>2. m - 1 \notin Bad
    BY <1>2, <2>1
  <2> QED BY <2>1, <2>2
<1>5. PICK g \in [0..(m - 1) -> V] : Follows(g, m - 1, base, step)
  BY <1>4
<1> DEFINE f == [i \in 0..m |-> IF i = m THEN step[<<m, g[m - 1]>>] ELSE g[i]]
<1>6. m - 1 \in 0..(m - 1) /\ m \in Nat /\ m > 0
  BY <1>4
<1>7. g[m - 1] \in V
  BY <1>6
<1>8. step[<<m, g[m - 1]>>] \in V
  BY <1>4, <1>7
<1>9. \A i \in 0..m : i # m => i \in 0..(m - 1) /\ f[i] = g[i]
  BY <1>6
<1>10. f \in [0..m -> V]
  BY <1>8, <1>9
<1>11. Follows(f, m, base, step)
  <2>1. f[0] = base
    BY <1>5, <1>6, <1>9 DEF Follows
  <2>2. f[m] = step[<<m, g[m - 1]>>] /\ f[m - 1] = g[m - 1]
    BY <1>6, <1>9
  <2>3. ASSUME NEW i \in 1..m, i # m PROVE f[i] = step[<<i, f[i - 1]>>]
    <3>1. i \in 1..(m - 1) /\ i \in 0..m /\ i - 1 \in 0..m /\ i - 1 # m
      BY <2>3, <1>6
    <3>2. f[i] = g[i] /\ f[i - 1] = g[i - 1]
      BY <3>1, <2>3, <1>9
    <3> QED BY <3>1, <3>2, <1>5 DEF Follows
  <2> HIDE DEF f
  <2> QED BY <2>1, <2>2, <2>3 DEF Follows
<1> HIDE DEF f
<1> QED BY <1>4, <1>10, <1>11


\* A bound from below gives a set of integers a least one.
LEMMA LeastFrom ==
  ASSUME NEW b \in Int, NEW T \in SUBSET Int, T # {}, \A t \in T : b <= t
  PROVE  \E t \in T : \A u \in T : t <= u
<1> DEFINE D == {t - b : t \in T}
<1>1. D \in SUBSET Nat /\ D # {}
  <2>1. \A t \in T : t \in Int /\ t - b \in Nat
    OBVIOUS
  <2> QED BY <2>1
<1>2. PICK d \in D : \A c \in D : d <= c
  <2> HIDE DEF D
  <2> QED BY <1>1, Least
<1>3. PICK t \in T : d = t - b
  BY <1>2
<1>4. ASSUME NEW u \in T PROVE t <= u
  <2>1. u - b \in D /\ u \in Int /\ t \in Int
    OBVIOUS
  <2>2. t - b <= u - b
    BY <1>2, <1>3, <2>1
  <2> QED BY <2>1, <2>2
<1> QED BY <1>4

\* retEarliest becomes the least of what it was and the stamps looked at.
LEMMA LoweredLeast ==
  ASSUME NEW b \in Int, NEW seen \in Int, NEW stamps \in SUBSET Int,
         b <= seen, \A t \in stamps : b <= t
  PROVE  /\ Lowered(seen, stamps) \in stamps \cup {seen}
         /\ Lowered(seen, stamps) <= seen
         /\ \A u \in stamps : Lowered(seen, stamps) <= u
<1> DEFINE T == stamps \cup {seen}
<1>1. T \in SUBSET Int /\ T # {} /\ \A t \in T : b <= t
  OBVIOUS
<1>2. \E t \in T : \A u \in T : t <= u
  <2> HIDE DEF T
  <2> QED BY <1>1, LeastFrom
<1>3. Lowered(seen, stamps) \in T /\ \A u \in T : Lowered(seen, stamps) <= u
  BY <1>2 DEF Lowered
<1> QED BY <1>3

\* A segment that a walk visits was not touched, nor made, in the future.
LEMMA VisitedPast ==
  ASSUME EventInv, NEW i \in 1..Len(segs), Visited(i)
  PROVE  /\ segs[i].created \in Nat /\ segs[i].lastTouch \in Nat /\ clock \in Nat
         /\ segs[i].created <= segs[i].lastTouch /\ segs[i].lastTouch <= clock
<1>1. TypeOK /\ StampInv /\ clock \in Nat /\ clock <= MaxClock
  BY ClockAssumption DEF EventInv, EventTypeOK, TypeOK
<1>2. /\ segs[i].created \in Nat /\ segs[i].lastTouch \in Nat
      /\ segs[i].created <= segs[i].lastTouch /\ segs[i].lastTouch <= MaxClock
  BY <1>1, SegmentFields DEF StampInv, TouchedWhileOpen
<1>3. ~IsExpired(segs[i])
  <2>1. i \in 1..i
    OBVIOUS
  <2> QED BY <2>1 DEF Visited
<1>4. segs[i].lastTouch <= clock
  BY <1>1, <1>2, <1>3, ClockAssumption, DurationsAssumption DEF IsExpired, Elapsed
<1> QED BY <1>1, <1>2, <1>4

\* The events of a segment that CountAll counts.
CountedOf(i) ==
  IF CountsWhole(i, clock - Retention) THEN eventTs[i] ELSE Since(i, clock - Retention)

\* retEarliest after segment i, when it was t before.
EarliestAfter(i, t) ==
  IF ~Visited(i) THEN t
  ELSE IF CountsWhole(i, clock - Retention) THEN segs[i].created
  ELSE Lowered(t, {e.ts : e \in Since(i, clock - Retention)})

\* t lies in the retention and, unless the clock was set back, no event counted
\* in the first i segments is before it.
Covers(i, t) ==
  /\ t \in (clock - Retention)..clock
  /\ ~stepped => \A j \in 1..i : Visited(j) => \A e \in CountedOf(j) : e.ts >= t

\* One more segment, visited or not, counted whole or event by event.
LEMMA CoversOneMore ==
  ASSUME EventInv, NEW i \in 1..Len(segs), NEW t, Covers(i - 1, t)
  PROVE  Covers(i, EarliestAfter(i, t))
<1> DEFINE earliest == clock - Retention
<1>0. /\ clock \in Nat /\ Retention \in Nat /\ earliest \in Int /\ TypeOK /\ EventTypeOK
      /\ EventsOfSegment /\ t \in Int /\ earliest <= t /\ t <= clock
      /\ i \in Nat /\ Len(segs) \in Nat
  BY ClockAssumption, DurationsAssumption DEF EventInv, EventTypeOK, TypeOK, Covers
<1>1. \A j \in 1..i : j \in 1..Len(segs) /\ (j = i \/ j \in 1..(i - 1))
  BY <1>0
<1>2. CASE ~Visited(i)
  BY <1>1, <1>2 DEF Covers, EarliestAfter
<1>3. CASE Visited(i) /\ CountsWhole(i, earliest)
  <2>0. EarliestAfter(i, t) = segs[i].created
    BY <1>3 DEF EarliestAfter
  <2>1. segs[i].created \in earliest..clock
    BY <1>0, <1>3, VisitedPast DEF CountsWhole
  <2>2. ASSUME ~stepped, NEW j \in 1..i, Visited(j), NEW e \in CountedOf(j)
        PROVE  e.ts >= segs[i].created
    <3>1. j \in 1..Len(segs) /\ e \in eventTs[j]
      BY <1>1, <2>2 DEF CountedOf, Since
    <3>2. e.ts \in Nat /\ segs[j].created \in Nat /\ segs[j].created <= e.ts
      BY <1>0, <3>1, EventFields, SegmentFields DEF EventsOfSegment
    <3>3. CASE j = i
      BY <3>2, <3>3
    <3>4. CASE j < i
      <4>1. segs[i].lastTouch <= segs[j].created
        BY <3>1, <3>4, <2>2 DEF EventInv, OrderInv, SegmentsInOrder
      <4>2. segs[i].created <= segs[i].lastTouch /\ segs[i].created \in Nat /\ segs[i].lastTouch \in Nat
        BY <1>3, VisitedPast
      <4> QED BY <4>1, <4>2, <3>2
    <3>5. j = i \/ j < i
      BY <1>0
    <3> QED BY <3>3, <3>4, <3>5
  <2> QED BY <2>0, <2>1, <2>2 DEF Covers
<1>4. CASE Visited(i) /\ ~CountsWhole(i, earliest)
  <2> DEFINE stamps == {e.ts : e \in Since(i, earliest)}
             low == Lowered(t, stamps)
  <2>0. EarliestAfter(i, t) = low
    BY <1>4 DEF EarliestAfter
  <2>1. stamps \in SUBSET Int /\ \A u \in stamps : earliest <= u
    <3>1. ASSUME NEW e \in Since(i, earliest) PROVE e.ts \in Nat /\ earliest <= e.ts
      BY <1>0, EventFields DEF Since
    <3> QED BY <3>1
  <2>2. low \in stamps \cup {t} /\ low <= t /\ \A u \in stamps : low <= u
    <3> HIDE DEF stamps, earliest
    <3> QED BY <1>0, <2>1, LoweredLeast
  <2>3. low \in Int /\ low \in earliest..clock
    <3> HIDE DEF stamps, earliest, low
    <3>1. low \in Int /\ earliest <= low
      BY <1>0, <2>1, <2>2
    <3> QED BY <1>0, <2>2, <3>1
  <2>4. ASSUME ~stepped, NEW j \in 1..i, Visited(j), NEW e \in CountedOf(j)
        PROVE  e.ts >= low
    <3> HIDE DEF low
    <3>1. CASE j = i
      <4>1. e \in Since(i, earliest)
        BY <3>1, <1>4, <2>4 DEF CountedOf
      <4>2. low <= e.ts
        BY <4>1, <2>2
      <4> QED BY <4>2
    <3>2. CASE j \in 1..(i - 1)
      <4>1. e.ts >= t
        BY <3>2, <2>4 DEF Covers
      <4>2. e \in eventTs[j] /\ j \in 1..Len(segs)
        BY <1>1, <2>4 DEF CountedOf, Since
      <4>3. e.ts \in Nat
        BY <4>2, <1>0, EventFields
      <4> QED BY <4>1, <4>3, <2>2, <2>3, <1>0
    <3> QED BY <3>1, <3>2, <1>1
  <2> HIDE DEF low
  <2> QED BY <2>0, <2>3, <2>4 DEF Covers
<1> QED BY <1>2, <1>3, <1>4

\* The walk of CountAll, step by step.
LEMMA EarliestByStep ==
  ASSUME EventInv
  PROVE  \E f : /\ EarliestCounted = f[Len(segs)]
                /\ f[0] = clock
                /\ \A i \in 1..Len(segs) : f[i] = EarliestAfter(i, f[i - 1])
<1> DEFINE n == Len(segs)
           V == (clock - Retention)..clock
           step == [p \in (1..n) \X V |-> EarliestAfter(p[1], p[2])]
           after[i \in 0..Len(segs)] ==
             IF i = 0 THEN clock
             ELSE IF ~Visited(i) THEN after[i - 1]
             ELSE IF CountsWhole(i, clock - Retention) THEN segs[i].created
             ELSE Lowered(after[i - 1], {e.ts : e \in Since(i, clock - Retention)})
<1>1. n \in Nat /\ clock \in V
  BY ClockAssumption, DurationsAssumption DEF EventInv, EventTypeOK, TypeOK
<1>2. \A i \in 1..n, t \in V : EarliestAfter(i, t) \in V
  <2>1. ASSUME NEW i \in 1..n, NEW t \in V PROVE EarliestAfter(i, t) \in V
    <3>0. TypeOK /\ clock \in Nat /\ Retention \in Nat /\ t \in Int
          /\ clock - Retention \in Int /\ clock - Retention <= t /\ t <= clock
      BY ClockAssumption, DurationsAssumption DEF EventInv, EventTypeOK, TypeOK
    <3>1. CASE ~Visited(i)
      BY <3>1 DEF EarliestAfter
    <3>2. CASE Visited(i) /\ CountsWhole(i, clock - Retention)
      BY <3>0, <3>2, VisitedPast DEF CountsWhole, EarliestAfter
    <3>3. CASE Visited(i) /\ ~CountsWhole(i, clock - Retention)
      <4> DEFINE stamps == {e.ts : e \in Since(i, clock - Retention)}
      <4>1. stamps \in SUBSET Int /\ \A u \in stamps : clock - Retention <= u
        <5>1. ASSUME NEW e \in Since(i, clock - Retention)
              PROVE  e.ts \in Nat /\ clock - Retention <= e.ts
          BY <3>0, EventFields DEF Since, EventInv
        <5> QED BY <5>1
      <4>2. Lowered(t, stamps) \in stamps \cup {t} /\ Lowered(t, stamps) <= t
        <5> HIDE DEF stamps
        <5> QED BY <3>0, <4>1, LoweredLeast
      <4>3. EarliestAfter(i, t) = Lowered(t, stamps)
        BY <3>3 DEF EarliestAfter
      <4> DEFINE low == Lowered(t, stamps)
      <4>4. low \in Int /\ clock - Retention <= low /\ low <= clock
        <5> HIDE DEF stamps, low
        <5>1. low \in Int /\ clock - Retention <= low
          <6> DEFINE b == clock - Retention
          <6> HIDE DEF b
          <6> QED BY <4>1, <4>2, <3>0 DEF low
        <5>2. low <= t
          BY <4>2 DEF low
        <5> QED BY <5>1, <5>2, <3>0
      <4>5. EarliestAfter(i, t) = low
        BY <4>3
      <4> HIDE DEF low
      <4> QED BY <4>5, <4>4, <3>0
    <3> QED BY <3>1, <3>2, <3>3
  <2> QED BY <2>1
<1>3. step \in [(1..n) \X V -> V]
  <2> HIDE DEF n, V
  <2> QED BY <1>2
<1>4. PICK f \in [0..n -> V] : Follows(f, n, clock, step)
  <2> HIDE DEF step, n, V
  <2> QED BY <1>1, <1>3, RecursionExists
<1>5. \A i \in 1..n : f[i] = EarliestAfter(i, f[i - 1])
  <2> SUFFICES ASSUME NEW i \in 1..n PROVE f[i] = EarliestAfter(i, f[i - 1])
    OBVIOUS
  <2>1. i - 1 \in 0..n
    BY <1>1
  <2>2. step[<<i, f[i - 1]>>] = EarliestAfter(i, f[i - 1])
    <3> HIDE DEF n, V
    <3> QED BY <2>1
  <2> QED BY <1>4, <2>2 DEF Follows
<1>6. f = [i \in 0..n |-> IF i = 0 THEN clock ELSE EarliestAfter(i, f[i - 1])]
  <2>1. \A i \in 0..n : f[i] = IF i = 0 THEN clock ELSE EarliestAfter(i, f[i - 1])
    BY <1>1, <1>4, <1>5 DEF Follows
  <2> HIDE DEF n, V
  <2> QED BY <2>1
<1>7. after = [i \in 0..n |-> IF i = 0 THEN clock ELSE EarliestAfter(i, after[i - 1])]
  <2>1. f = [i \in 0..Len(segs) |->
             IF i = 0 THEN clock
             ELSE IF ~Visited(i) THEN f[i - 1]
             ELSE IF CountsWhole(i, clock - Retention) THEN segs[i].created
             ELSE Lowered(f[i - 1], {e.ts : e \in Since(i, clock - Retention)})]
    BY <1>6, Zenon DEF EarliestAfter
  <2> QED BY <2>1, Zenon DEF EarliestAfter
<1>8. EarliestCounted = after[n]
  BY Zenon DEF EarliestCounted
<1>9. after[0] = clock /\ \A i \in 1..n : after[i] = EarliestAfter(i, after[i - 1])
  <2>1. \A i \in 0..n : after[i] = IF i = 0 THEN clock ELSE EarliestAfter(i, after[i - 1])
    <3> HIDE DEF n
    <3> QED BY <1>7
  <2>2. 0 \in 0..n /\ \A i \in 1..n : i \in 0..n /\ i # 0
    BY <1>1
  <2> HIDE DEF after, n
  <2> QED BY <2>1, <2>2
<1> HIDE DEF after
<1> QED BY <1>8, <1>9

\* What CountAll returns covers all it counts.
LEMMA EarliestCovers == EventInv => IntervalCoversCount
<1> SUFFICES ASSUME EventInv PROVE IntervalCoversCount
  OBVIOUS
<1> DEFINE n == Len(segs)
<1>0. n \in Nat /\ clock \in Nat /\ Retention \in Nat
  BY ClockAssumption, DurationsAssumption DEF EventInv, EventTypeOK, TypeOK
<1>1. PICK f : /\ EarliestCounted = f[n]
               /\ f[0] = clock
               /\ \A i \in 1..n : f[i] = EarliestAfter(i, f[i - 1])
  BY EarliestByStep
<1> DEFINE Bad == {i \in 0..n : ~Covers(i, f[i])}
<1>2. 0 \notin Bad
  BY <1>0, <1>1 DEF Covers
<1>3. ASSUME NEW i \in Bad, \A j \in Bad : i <= j PROVE FALSE
  <2>1. i \in 1..n /\ i - 1 \in 0..n
    BY <1>0, <1>2
  <2>2. i - 1 \notin Bad
    BY <1>3, <2>1
  <2>3. Covers(i - 1, f[i - 1])
    BY <2>1, <2>2
  <2>4. Covers(i, EarliestAfter(i, f[i - 1]))
    BY <2>1, <2>3, CoversOneMore
  <2> QED BY <1>1, <2>1, <2>4
<1>4. Bad = {}
  <2>1. Bad \in SUBSET Nat
    BY <1>0
  <2> HIDE DEF Bad
  <2> QED BY <2>1, <1>3, Least
<1>5. Covers(n, EarliestCounted)
  <2>1. n \in 0..n
    BY <1>0
  <2> QED BY <2>1, <1>1, <1>4
<1>6. ASSUME ~stepped, NEW e \in CountAll PROVE e.ts >= EarliestCounted
  <2>1. PICK i \in Walked : e \in CountedOf(i)
    BY <1>6 DEF CountAll, CountedOf
  <2>2. i \in 1..n /\ Visited(i)
    BY DEF Walked
  <2> QED BY <2>1, <2>2, <1>5, <1>6 DEF Covers
<1> QED BY <1>5, <1>6 DEF Covers, IntervalCoversCount

\* The time returned with the count lies in the retention, also when the clock
\* was set back, and while it was not no event counted is before it: for any
\* number of segments and events (eventtsbuf.go:56-84).
THEOREM IntervalCoversCountAlways == EventSpec => []IntervalCoversCount
BY EarliestCovers, EventInvAlways, PTL
=============================================================================
