----------------------------- MODULE HashCache -----------------------------
(***************************************************************************)
(* The hash cache of tanglebeat/hashcache/hashcache.go: an expiring buffer *)
(* whose segments carry a map from short hash to entry.  Each segment of   *)
(* the buffer, segs[i], has its map in themaps[i], as cacheSegment embeds  *)
(* ExpiringSegmentBase.                                                    *)
(***************************************************************************)
EXTENDS ExpiringBuffer

CONSTANTS Hash, Id, NoEntry, VisitMod

VARIABLE themaps

cacheVars == <<clock, segs, loops, themaps>>

\* The entry of the first segment, from the top, that a walk finds h in.
Holds(i, h) == Visited(i) /\ themaps[i][h] # NoEntry

FoundAt(i, h) == Holds(i, h) /\ \A j \in 1..(i - 1) : ~Holds(j, h)

Absent(h) == \A i \in 1..Len(segs) : ~Holds(i, h)

Lookup(h) ==
  IF \E i \in 1..Len(segs) : FoundAt(i, h)
  THEN themaps[CHOOSE i \in 1..Len(segs) : FoundAt(i, h)][h]
  ELSE NoEntry

\* The promise, with its entries and their updates.
Promise == INSTANCE RetentionCache WITH mem <- [h \in Hash |-> Lookup(h)]

ASSUME EntryAssumption ==
  /\ VisitMod \in Nat \ {0, 1}
  /\ 0 \in Id
  /\ NoEntry \notin Promise!Entry

EmptyMap == [h \in Hash |-> NoEntry]

-----------------------------------------------------------------------------
\* findIntern with touch: the entry is counted where it lies, the segment is
\* not touched.
FindTouch(i, h) ==
  /\ FoundAt(i, h)
  /\ themaps' = [themaps EXCEPT ![i][h] = Promise!Visited(@)]
  /\ UNCHANGED vars

Find(h) == \E i \in 1..Len(segs) : FindTouch(i, h)

\* InsertNewNolock: NewEntry and Put into the map of the top segment.
Insert(h, id) ==
  /\ NewEntry
  /\ themaps' =
       IF NeedsSegment
       THEN <<[EmptyMap EXCEPT ![h] = Promise!Fresh(id)]>> \o themaps
       ELSE [themaps EXCEPT ![1][h] = Promise!Fresh(id)]

Mut_SeenHashBy(h, id) == Find(h) \/ Insert(h, id)

\* The lookup and the insertion are one critical section.
SeenHashBy(h, id) == Find(h) \/ (Absent(h) /\ Insert(h, id))

FindWithDelete(h) ==
  /\ \E i \in 1..Len(segs) :
       /\ FoundAt(i, h)
       /\ themaps' = [themaps EXCEPT ![i][h] = NoEntry]
  /\ UNCHANGED vars

\* A purged segment goes with its map.
PurgeCache ==
  \E n \in 0..Len(segs) : Purge(n) /\ themaps' = SubSeq(themaps, 1, n)

CacheTick == Tick /\ UNCHANGED themaps

CacheStepBack == StepBack /\ UNCHANGED themaps

CacheInit == Init /\ themaps = <<>>

\* What happens while the clock only advances.
CacheForward ==
  \/ \E h \in Hash, id \in Id : SeenHashBy(h, id)
  \/ \E h \in Hash : Find(h)
  \/ \E h \in Hash : FindWithDelete(h)
  \/ PurgeCache
  \/ CacheTick

CacheNext == CacheForward \/ CacheStepBack

CacheSpec == CacheInit /\ [][CacheNext]_cacheVars

\* The clock runs and never back; the purge goroutine wakes from every sleep.
CacheFairSpec ==
  /\ CacheInit /\ [][CacheForward]_cacheVars
  /\ WF_cacheVars(CacheTick)
  /\ WF_cacheVars(PurgeCache)

-----------------------------------------------------------------------------
\* Every segment has its map.
CacheTypeOK ==
  /\ TypeOK
  /\ themaps \in Seq([Hash -> Promise!Entry \cup {NoEntry}])
  /\ Len(themaps) = Len(segs)

\* The segments a lookup visits hold a hash at most once, so that its visits
\* are counted in one place.
OneCopy ==
  \A h \in Hash : \A i, j \in 1..Len(segs) :
    Holds(i, h) /\ Holds(j, h) => i = j

\* An entry was put while its segment was open, and a visit never renews it.
EntriesOfSegment ==
  \A i \in 1..Len(segs), h \in Hash :
    themaps[i][h] # NoEntry =>
      segs[i].created <= themaps[i][h].firstSeen /\
      themaps[i][h].firstSeen <= segs[i].lastTouch

\* An entry that is found was first seen less than Retention + SegDuration ago,
\* even when the clock was set back and segments lie out of order.
FindsNothingStale ==
  \A h \in Hash : Lookup(h) # NoEntry =>
    clock < Lookup(h).firstSeen + Retention + SegDuration

\* Whatever is looked up, inserted or purged in whatever order: an entry is
\* found and counted for Retention after it was first seen, it is never found
\* Retention + SegDuration after, and only FindWithDelete removes it earlier.
KeepsPromise == Promise!Spec
=============================================================================
