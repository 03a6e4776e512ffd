--------------------------- MODULE RetentionCache ---------------------------
(***************************************************************************)
(* What a hash cache promises to its users: one entry per hash, counted    *)
(* on every visit, kept for at least Retention after it was first seen and *)
(* forgotten before Retention + SegDuration, however often it was visited. *)
(* HashCache.tla is shown to implement this module; MsgFilter.tla uses it. *)
(***************************************************************************)
EXTENDS Integers

CONSTANTS
  Hash,          \* the short hashes
  Id,            \* the ids of the sources, bytes
  NoEntry,       \* stands for a hash that is not in a map
  VisitMod,      \* 256: Visits is a byte
  SegDuration,
  Retention,
  MaxClock       \* the last time considered (a bound)

VARIABLES
  clock,   \* UnixMsNow()
  mem      \* the entry a lookup of the hash finds

memVars == <<clock, mem>>

\* CacheEntry without Data, which the cache never reads.
Entry == [firstSeen : Nat, lastSeen : Nat,
          visits : 0..(VisitMod - 1), firstVisitId : Id]

\* The entry cacheSegment.Put stores.
Fresh(id) == [firstSeen |-> clock, lastSeen |-> clock,
              visits |-> 1, firstVisitId |-> id]

\* The entry findIntern stores back: Visits wraps, FirstVisitId is not copied.
Visited(e) == [firstSeen |-> e.firstSeen, lastSeen |-> clock,
               visits |-> (e.visits + 1) % VisitMod, firstVisitId |-> 0]

\* SeenHashBy finds and counts the hash or inserts it.
Seen(h, id) ==
  mem' = [mem EXCEPT ![h] = IF @ = NoEntry THEN Fresh(id) ELSE Visited(@)]

\* Find, which counts the visit of a hash it finds.
Found(h) ==
  /\ mem[h] # NoEntry
  /\ mem' = [mem EXCEPT ![h] = Visited(@)]

Deleted(h) ==
  /\ mem[h] # NoEntry
  /\ mem' = [mem EXCEPT ![h] = NoEntry]

\* As time passes the cache may forget a hash first seen Retention ago and
\* has forgotten every hash first seen Retention + SegDuration ago.
Mut_MayForget(h) ==
  mem[h] # NoEntry /\ clock + 1 + SegDuration >= mem[h].firstSeen + Retention
MayForget(h) == mem[h] # NoEntry /\ clock + 1 >= mem[h].firstSeen + Retention

MayKeep(h) ==
  mem[h] # NoEntry => clock + 1 < mem[h].firstSeen + Retention + SegDuration

Forget(gone) ==
  /\ \A h \in gone : MayForget(h)
  /\ \A h \in Hash \ gone : MayKeep(h)
  /\ mem' = [h \in Hash |-> IF h \in gone THEN NoEntry ELSE mem[h]]

Advance ==
  /\ clock < MaxClock
  /\ clock' = clock + 1
  /\ \E gone \in SUBSET Hash : Forget(gone)

Init ==
  /\ clock = 0
  /\ mem = [h \in Hash |-> NoEntry]

Next ==
  \/ \E h \in Hash, id \in Id : Seen(h, id) /\ UNCHANGED clock
  \/ \E h \in Hash : (Found(h) \/ Deleted(h)) /\ UNCHANGED clock
  \/ Advance

Spec == Init /\ [][Next]_memVars
=============================================================================
