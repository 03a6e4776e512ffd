----------------------------- MODULE EventBuffer -----------------------------
(***************************************************************************)
(* The buffers of event time stamps of lib/ebuffer/eventtsbuf.go and       *)
(* eventtsbufint.go: an expiring buffer whose segments carry the events    *)
(* recorded while they were open.  Rates of transactions, confirmations    *)
(* and echoes are computed from what CountAll and ForEachEntry find.       *)
(*                                                                         *)
(* An event is its time stamp and a name that tells it from others of the  *)
(* same millisecond; the int that RecordInt puts beside it is as good as   *)
(* the name.  The count is the number of events counted.                   *)
(***************************************************************************)
EXTENDS ExpiringBuffer

CONSTANT EventId   \* the names of the events

VARIABLES
  eventTs,    \* eventTs[i]: the events of segs[i]
  recorded,   \* every event ever recorded (history)
  stepped     \* the clock has been set back (history)

eventVars == <<clock, segs, loops, eventTs, recorded, stepped>>

Event == [ts : Nat, id : EventId]

-----------------------------------------------------------------------------
EventInit == Init /\ eventTs = <<>> /\ recorded = {} /\ stepped = FALSE

\* RecordTS and RecordInt put the present time into the top segment NewEntry
\* made or touched.
RecordTS ==
  /\ NewEntry
  /\ \E id \in EventId :
       LET e == [ts |-> clock, id |-> id] IN
       /\ id \notin {f.id : f \in recorded}
       /\ recorded' = recorded \cup {e}
       /\ eventTs' = IF NeedsSegment THEN <<{e}>> \o eventTs
                                     ELSE [eventTs EXCEPT ![1] = @ \cup {e}]
  /\ UNCHANGED stepped

\* The segments take their events with them.
PurgeEvents ==
  /\ PurgePass
  /\ eventTs' = SubSeq(eventTs, 1, Len(segs'))
  /\ UNCHANGED <<recorded, stepped>>

EventTick == Tick /\ UNCHANGED <<eventTs, recorded, stepped>>

EventStepBack == StepBack /\ stepped' = TRUE /\ UNCHANGED <<eventTs, recorded>>

EventNext == RecordTS \/ PurgeEvents \/ EventTick \/ EventStepBack

EventSpec == EventInit /\ [][EventNext]_eventVars

-----------------------------------------------------------------------------
\* The segments a walk hands to its callback.
Walked == {i \in 1..Len(segs) : Visited(i)}

Since(i, earliest) == {e \in eventTs[i] : e.ts >= earliest}

\* Looks only at when the segment was last touched.
Mut_CountsWhole(i, earliest) ==
  segs[i].lastTouch >= earliest /\ i < Len(segs)

\* CountAll counts a segment made within the retention without looking at
\* its events, unless it is the last of the list.
CountsWhole(i, earliest) == segs[i].created >= earliest /\ i < Len(segs)

\* The events CountAll counts.
CountAll ==
  LET earliest == clock - Retention
  IN  UNION {IF CountsWhole(i, earliest) THEN eventTs[i] ELSE Since(i, earliest) :
               i \in Walked}

\* The comparison is the wrong way round.
Mut_Lowered(seen, stamps) ==
  CHOOSE t \in stamps \cup {seen} : \A u \in stamps \cup {seen} : u <= t

\* retEarliest after a segment whose events were looked at.
Lowered(seen, stamps) ==
  CHOOSE t \in stamps \cup {seen} : \A u \in stamps \cup {seen} : t <= u

\* The time CountAll returns with the count: it goes from the newest segment to
\* the oldest, and a segment counted whole puts the time it was made.
EarliestCounted ==
  LET earliest == clock - Retention
      after[i \in 0..Len(segs)] ==
        IF i = 0 THEN clock
        ELSE IF ~Visited(i) THEN after[i - 1]
        ELSE IF CountsWhole(i, earliest) THEN segs[i].created
        ELSE Lowered(after[i - 1], {e.ts : e \in Since(i, earliest)})
  IN  after[Len(segs)]

\* The events ForEachEntry hands to its callback, ToFloat64's among others.
ForEachEntry(earliest) == UNION {Since(i, earliest) : i \in Walked}

-----------------------------------------------------------------------------
\* Every variable has its type, and every segment its events.
EventTypeOK ==
  /\ TypeOK
  /\ eventTs \in Seq(SUBSET Event)
  /\ Len(eventTs) = Len(segs)
  /\ recorded \subseteq Event
  /\ stepped \in BOOLEAN

\* The events of a segment were recorded after it was made and, while the clock
\* is not set back, until it was last touched.
EventsOfSegment ==
  \A i \in 1..Len(segs) : \A e \in eventTs[i] :
    /\ e \in recorded
    /\ segs[i].created <= e.ts
    /\ ~stepped => e.ts <= segs[i].lastTouch

\* An event recorded is held until it is Retention old.
HeldOrOld ==
  \A e \in recorded :
    (\E i \in 1..Len(segs) : e \in eventTs[i]) \/ e.ts + Retention <= clock

Newer(t) == {e \in recorded : e.ts > t}

\* The events found are in the window, and, while the clock is not set back,
\* those of the retention are all found.
Exact(found, earliest) ==
  /\ \A e \in found : e \in recorded /\ e.ts >= earliest
  /\ ~stepped => \A e \in Newer(clock - Retention) : e.ts >= earliest => e \in found

\* CountAll, which counts whole segments and walks only to the first expired
\* one, counts nothing older than the retention, whatever the clock does, and
\* misses nothing younger while the clock is not set back; so does ForEachEntry
\* over every window (eventtsbuf.go:56-84, eventtsbufint.go:59-89).
CountExact ==
  /\ Exact(CountAll, clock - Retention)
  /\ \A earliest \in 0..MaxClock : Exact(ForEachEntry(earliest), earliest)

\* getStats divides the count by the time since EarliestCounted: that time lies
\* in the retention even when the clock was set back (in unsigned arithmetic a
\* later one would give an immense interval), and no event counted is before it.
IntervalCoversCount ==
  /\ EarliestCounted \in (clock - Retention)..clock
  /\ ~stepped => \A e \in CountAll : e.ts >= EarliestCounted
=============================================================================
