--------------------------- MODULE ExpiringBuffer ---------------------------
(***************************************************************************)
(* The expiring buffer of lib/ebuffer/expiringbuffer.go: a linked list of  *)
(* segments, newest first, and one background goroutine that purges it.    *)
(* Every other cache and time-stamp buffer of the program embeds it.       *)
(*                                                                         *)
(* One action is one critical section of the buffer's mutex.  All the      *)
(* readings of the wall clock inside a critical section give one value.    *)
(* The five seconds the purge goroutine sleeps between two passes are      *)
(* abstracted: a pass may come at any time while the goroutine lives.      *)
(***************************************************************************)
EXTENDS Integers, Sequences

CONSTANTS
  SegDuration,   \* segDurationMs: how long a segment takes new entries
  Retention,     \* retentionPeriodMs: how long after its last touch it lives
  Wrap,          \* 2^64: the modulus of the unsigned time arithmetic
  MaxBack,       \* the largest backward step of the wall clock
  FeedEnd,       \* no entry is added after this time (a bound)
  MaxSegs,       \* the longest list considered (a bound)
  MaxClock       \* the last time considered (a bound)

ASSUME DurationsAssumption ==
  /\ SegDuration \in Nat \ {0}
  /\ Retention \in Nat
  /\ SegDuration <= Retention

ASSUME ClockAssumption ==
  /\ MaxBack \in Nat
  /\ FeedEnd \in Nat
  /\ MaxSegs \in Nat
  /\ MaxClock \in Nat
  /\ Wrap \in Nat
  /\ Wrap >= MaxClock + Retention

VARIABLES
  clock,   \* UnixMsNow()
  segs,    \* the list that starts at buf.top; segs[i + 1] is prev of segs[i]
  loops    \* number of running purgeLoop goroutines

vars == <<clock, segs, loops>>

Segment == [created : Nat, lastTouch : Nat]

-----------------------------------------------------------------------------
\* UnixMsNow() - t in uint64: it wraps when the clock was set back below t.
Elapsed(t) == IF t <= clock THEN clock - t ELSE Wrap - (t - clock)

IsExpired(s) == Elapsed(s.lastTouch) >= Retention

IsOpen(s) == Elapsed(s.created) < SegDuration

\* A walk from the top ends at the first expired segment: it visits 1 .. n.
WalkEnds(n) ==
  /\ n \in 0..Len(segs)
  /\ \A i \in 1..n : ~IsExpired(segs[i])
  /\ n < Len(segs) => IsExpired(segs[n + 1])

\* The segments ForEachSegment__ hands to its callback.
Visited(i) ==
  /\ i \in 1..Len(segs)
  /\ \A j \in 1..i : ~IsExpired(segs[j])

\* NewExpiringSegmentBase, Put and Touch under one reading of the clock.
NewSegment == [created |-> clock, lastTouch |-> clock]

NeedsSegment == segs = <<>> \/ ~IsOpen(segs[1])

\* The constructor makes the former top the prev of the new segment.
Pushed == <<NewSegment>> \o segs

Mut_Retouched == segs

\* Touch of the open top segment.
Retouched == [segs EXCEPT ![1].lastTouch = clock]

Mut_StartsLoop == NeedsSegment

StartsLoop == segs = <<>>

\* NewEntry pushes a segment when there is none or the top one is closed,
\* touches the top, and starts a purge goroutine when the buffer was empty.
NewEntry ==
  /\ clock <= FeedEnd
  /\ NeedsSegment => Len(segs) < MaxSegs
  /\ segs' = IF NeedsSegment THEN Pushed
                             ELSE Retouched
  /\ loops' = IF StartsLoop THEN loops + 1 ELSE loops
  /\ UNCHANGED clock

Mut_PurgeReturns(n) == n < Len(segs)

\* purge() returns false, which ends purgeLoop, when it leaves no segment.
PurgeReturns(n) == n = 0

\* One pass of a purge goroutine, which returns when it leaves nothing.
Purge(n) ==
  /\ loops > 0
  /\ WalkEnds(n)
  /\ segs' = SubSeq(segs, 1, n)
  /\ loops' = IF PurgeReturns(n) THEN loops - 1 ELSE loops
  /\ UNCHANGED clock

PurgePass == \E n \in 0..Len(segs) : Purge(n)

Tick ==
  /\ clock < MaxClock
  /\ clock' = clock + 1
  /\ UNCHANGED <<segs, loops>>

\* The wall clock is set back (an NTP correction).
StepBack ==
  /\ \E d \in 1..MaxBack : d <= clock /\ clock' = clock - d
  /\ UNCHANGED <<segs, loops>>

Init ==
  /\ clock = 0
  /\ segs = <<>>
  /\ loops = 0

Next == NewEntry \/ PurgePass \/ Tick \/ StepBack

Spec == Init /\ [][Next]_vars

-----------------------------------------------------------------------------
\* Every variable has its type.
TypeOK ==
  /\ clock \in 0..MaxClock
  /\ segs \in Seq(Segment)
  /\ loops \in Nat

\* NewEntry starts a goroutine only on an empty buffer, a goroutine ends only
\* when it has emptied it: there is exactly one while the buffer holds
\* anything and none otherwise, so nothing leaks and nothing stays unpurged.
OnePurgeLoop == loops = IF segs = <<>> THEN 0 ELSE 1

\* A segment takes entries only while it is open, however long it lives.
TouchedWhileOpen ==
  \A i \in 1..Len(segs) :
    /\ segs[i].created <= segs[i].lastTouch
    /\ segs[i].lastTouch < segs[i].created + SegDuration

\* Older segments were closed before newer ones were made.
SegmentsInOrder ==
  \A i, j \in 1..Len(segs) :
    i < j => segs[j].lastTouch <= segs[i].created

\* No segment is stamped with a time to come.
NoFutureSegment ==
  \A i \in 1..Len(segs) : segs[i].lastTouch <= clock

\* What lets both walks stop at the first expired segment: everything behind
\* an expired segment is expired too.
ExpiredIsSuffix ==
  \A i, j \in 1..Len(segs) :
    i < j /\ IsExpired(segs[i]) => IsExpired(segs[j])

\* A purge pass never drops a segment whose retention time has not passed.
PurgeDropsOnlyExpired ==
  [][ Len(segs') < Len(segs) =>
        \A i \in (Len(segs') + 1)..Len(segs) : IsExpired(segs[i]) ]_vars

\* Once nothing is added any more the buffer becomes empty and its goroutine
\* ends (expiringbuffer_test.go waits for it).
Drains == <>[](segs = <<>> /\ loops = 0)
=============================================================================
