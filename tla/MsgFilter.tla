----------------------------- MODULE MsgFilter -----------------------------
(***************************************************************************)
(* The message filter of tanglebeat/inputpart: the input routines put what *)
(* they read into the bounded channel toFilterChan, one goroutine takes    *)
(* the messages out, counts them in its caches and hands those that reach  *)
(* their quorum to the output.  A cache is used by what it promises        *)
(* (RetentionCache, which HashCache implements).                           *)
(*                                                                         *)
(* Filtering one message is one step: only the filter goroutine touches    *)
(* the caches, the milestone index and lastLMI, and it reads the valve of  *)
(* the message's routine once.  Left out are the counters kept only for    *)
(* display, the echo of promotion transactions, and what toOutput does     *)
(* with the message.  So are malformed messages: they are dropped before   *)
(* anything is counted, but for an lmi message without an index, which     *)
(* ends the program with an index out of range (msgfilter.go:173).         *)
(***************************************************************************)
EXTENDS Integers, Sequences, FiniteSets

CONSTANTS
  Reader,         \* the input routines, by their ids; a routine has its own uri
  Throttled,      \* the routines whose valve may be closed (a bound)
  Hash,           \* the hashes of messages
  Feed,           \* the messages the nodes may send
  NoEntry, VisitMod, SegDuration, Retention,   \* of the caches
  TxQuorum, SnQuorum, LmiQuorum, LmhsQuorum,
  LmhsInterval,   \* TimeIntervalMilestoneHashToPassMsec
  QuorumUpdates,  \* the visits published as 'seen' messages, {} if disabled
  ChanBufSize,    \* filterChanBufSize
  MaxFeed,        \* the number of messages received (a bound)
  MaxClock        \* the last time considered (a bound)

Message == [topic : {"tx", "sn", "lmi", "lmhs"}, hash : Hash, index : Nat]

ASSUME FeedAssumption ==
  /\ Feed \subseteq Message
  /\ \A m \in Feed : m.topic \in {"sn", "lmi"} => m.index > 0

ASSUME QuorumAssumption ==
  /\ {TxQuorum, SnQuorum, LmiQuorum, LmhsQuorum} \subseteq 1..(VisitMod - 1)
  /\ ChanBufSize \in Nat \ {0}
  /\ 0 \in Reader /\ Reader \subseteq Nat

VARIABLES
  clock,         \* UnixMsNow()
  received,      \* how many messages the routines have read
  toFilterChan,  \* the messages in the channel, with their routines
  outputClosed,  \* the routines whose valve is closed
  txcache, sncache, lmhsCache,
  largestIndex, largestIndexCandidate, largestIndexCandidateUri,
  lastLMI, lastLMITimesSeen,
  out,           \* what was handed to the output, in order
  witnesses      \* history: the routines that reported a milestone index

chanVars == <<received, toFilterChan, outputClosed>>
milestoneVars == <<largestIndex, largestIndexCandidate, largestIndexCandidateUri>>
lmiVars == <<lastLMI, lastLMITimesSeen>>
cacheVars == <<txcache, sncache, lmhsCache>>
vars == <<clock, chanVars, cacheVars, milestoneVars, lmiVars,
          out, witnesses>>

HashesOf(topic) == {m.hash : m \in {n \in Feed : n.topic = topic}}

Tx == INSTANCE RetentionCache WITH
        mem <- txcache, Hash <- HashesOf("tx"), Id <- Reader
Sn == INSTANCE RetentionCache WITH
        mem <- sncache, Hash <- HashesOf("sn"), Id <- Reader
Lmhs == INSTANCE RetentionCache WITH
        mem <- lmhsCache, Hash <- HashesOf("lmhs"), Id <- Reader

\* A retention period of 0 is replaced by the default (cfg/config.go:93).
ASSUME CacheAssumption ==
  /\ VisitMod \in Nat \ {0, 1}
  /\ Retention \in Nat \ {0}
  /\ LmhsInterval \in Nat
  /\ MaxFeed \in Nat
  /\ NoEntry \notin Tx!Entry

Indexes == {m.index : m \in Feed}

NoUri == -1   \* the empty uri

Init ==
  /\ clock = 0
  /\ received = 0
  /\ toFilterChan = <<>>
  /\ outputClosed = {}
  /\ txcache = [h \in HashesOf("tx") |-> NoEntry]
  /\ sncache = [h \in HashesOf("sn") |-> NoEntry]
  /\ lmhsCache = [h \in HashesOf("lmhs") |-> NoEntry]
  /\ largestIndex = 0
  /\ largestIndexCandidate = 0
  /\ largestIndexCandidateUri = NoUri
  /\ lastLMI = 0
  /\ lastLMITimesSeen = 0
  /\ out = <<>>
  /\ witnesses = [i \in Indexes |-> {}]

-----------------------------------------------------------------------------
Receive(r, m) ==
  /\ received < MaxFeed
  /\ Len(toFilterChan) < ChanBufSize
  /\ received' = received + 1
  /\ toFilterChan' = Append(toFilterChan, [routine |-> r, msg |-> m])
  /\ UNCHANGED <<clock, outputClosed, cacheVars, milestoneVars, lmiVars,
                 out, witnesses>>

\* outputValveLoop sets the valve of one routine after the other, from
\* statistics that are not modelled.
SetOutputClosed(r) ==
  /\ outputClosed' \in {outputClosed \cup {r}, outputClosed \ {r}}
  /\ UNCHANGED <<clock, received, toFilterChan, cacheVars, milestoneVars,
                 lmiVars, out, witnesses>>

\* A message handed to the output with the visits and the age of its entry.
Output(m, visits, first) ==
  [topic |-> m.topic, hash |-> m.hash, index |-> m.index,
   visits |-> visits, firstSeen |-> first, at |-> clock]

\* When toOutput is called: at the visit that reaches the quorum, no other.
TxPasses(e) == e.visits = TxQuorum

Mut_SnPasses(e) == e.visits >= SnQuorum
SnPasses(e) == e.visits = SnQuorum

LmhsPasses(e) == e.visits = LmhsQuorum /\ e.lastSeen - e.firstSeen < LmhsInterval

LmiPasses(index, timesSeen) == index = lastLMI /\ timesSeen = LmiQuorum

\* What toOutput and publishQuorumUpdate publish.
Released(m, e, reached) ==
  IF reached THEN <<Output(m, e.visits, e.firstSeen)>> ELSE <<>>

QuorumUpdate(m, e) ==
  IF e.visits \in QuorumUpdates
  THEN <<[Output(m, e.visits, e.firstSeen) EXCEPT !.topic = "seen"]>>
  ELSE <<>>

FilterTXMsg(r, m) ==
  /\ m.topic = "tx"
  /\ \/ /\ r \in outputClosed
        /\ UNCHANGED <<txcache, out>>
     \/ /\ r \notin outputClosed
        /\ Tx!Seen(m.hash, r)
        /\ LET e == txcache'[m.hash] IN
             out' = out \o Released(m, e, TxPasses(e)) \o QuorumUpdate(m, e)
  /\ UNCHANGED <<sncache, lmhsCache, milestoneVars, lmiVars, witnesses>>

\* checkCurrentMilestoneIndex: an index becomes the largest when it comes from
\* two routines with no other larger index in between.
Mut_Confirms(index, uri) == largestIndexCandidate = index
Confirms(index, uri) == largestIndexCandidate = index /\ largestIndexCandidateUri # uri

CheckMilestone(index, uri) ==
  LET confirmed == Confirms(index, uri) IN
  /\ witnesses' = [witnesses EXCEPT ![index] = @ \cup {uri}]
  /\ IF index <= largestIndex
     THEN UNCHANGED milestoneVars
     ELSE /\ largestIndex' = IF confirmed THEN index ELSE largestIndex
          /\ largestIndexCandidate' = IF confirmed THEN largestIndexCandidate ELSE index
          /\ largestIndexCandidateUri' = IF confirmed THEN largestIndexCandidateUri ELSE uri

\* checkObsoleteMsg: an index equal to the largest is not obsolete.
Mut_Obsolete(index) == index < lastLMI
Obsolete(index) == index < largestIndex

FilterSNMsg(r, m) ==
  /\ m.topic = "sn"
  /\ \/ /\ largestIndex = 0 \/ Obsolete(m.index)
        /\ UNCHANGED <<milestoneVars, sncache, out, witnesses>>
     \/ /\ largestIndex > 0 /\ ~Obsolete(m.index)
        /\ CheckMilestone(m.index, r)
        /\ \/ /\ r \in outputClosed
              /\ UNCHANGED <<sncache, out>>
           \/ /\ r \notin outputClosed
              /\ Sn!Seen(m.hash, r)
              /\ LET e == sncache'[m.hash] IN
                   out' = out \o Released(m, e, SnPasses(e))
  /\ UNCHANGED <<txcache, lmhsCache, lmiVars>>

\* The first sighting of an index resets the counter to zero.
Mut_CountLMI(index) ==
  \/ index = lastLMI /\ lastLMITimesSeen' = lastLMITimesSeen + 1 /\ UNCHANGED lastLMI
  \/ index # lastLMI /\ lastLMI' = index /\ lastLMITimesSeen' = 0

CountLMI(index) ==
  \/ index < lastLMI /\ UNCHANGED lmiVars
  \/ index = lastLMI /\ lastLMITimesSeen' = lastLMITimesSeen + 1 /\ UNCHANGED lastLMI
  \/ index > lastLMI /\ lastLMI' = index /\ lastLMITimesSeen' = 0

FilterLMIMsg(r, m) ==
  /\ m.topic = "lmi"
  /\ IF largestIndex = 0 THEN CheckMilestone(m.index, r)
                         ELSE UNCHANGED <<milestoneVars, witnesses>>
  /\ \/ /\ r \in outputClosed
        /\ UNCHANGED <<lmiVars, out>>
     \/ /\ r \notin outputClosed
        /\ CountLMI(m.index)
        /\ out' = IF LmiPasses(m.index, lastLMITimesSeen')
                  THEN Append(out, Output(m, LmiQuorum, 0)) ELSE out
  /\ UNCHANGED cacheVars

FilterLMHSMsg(r, m) ==
  /\ m.topic = "lmhs"
  /\ \/ /\ r \in outputClosed
        /\ UNCHANGED <<lmhsCache, out>>
     \/ /\ r \notin outputClosed
        /\ Lmhs!Seen(m.hash, r)
        /\ LET e == lmhsCache'[m.hash] IN
             out' = out \o Released(m, e, LmhsPasses(e))
  /\ UNCHANGED <<txcache, sncache, milestoneVars, lmiVars, witnesses>>

\* msgFilterLoop takes one message and filters it.
FilterMsg ==
  /\ toFilterChan # <<>>
  /\ toFilterChan' = Tail(toFilterChan)
  /\ LET r == Head(toFilterChan).routine
         m == Head(toFilterChan).msg
     IN  FilterTXMsg(r, m) \/ FilterSNMsg(r, m) \/ FilterLMIMsg(r, m) \/ FilterLMHSMsg(r, m)
  /\ UNCHANGED <<clock, received, outputClosed>>

\* Time passes and the caches forget.
Tick ==
  /\ clock < MaxClock
  /\ clock' = clock + 1
  /\ \E gone \in SUBSET HashesOf("tx") : Tx!Forget(gone)
  /\ \E gone \in SUBSET HashesOf("sn") : Sn!Forget(gone)
  /\ \E gone \in SUBSET HashesOf("lmhs") : Lmhs!Forget(gone)
  /\ UNCHANGED <<chanVars, milestoneVars, lmiVars, out, witnesses>>

Next ==
  \/ \E r \in Reader, m \in Feed : Receive(r, m)
  \/ \E r \in Throttled : SetOutputClosed(r)
  \/ FilterMsg
  \/ Tick

Spec == Init /\ [][Next]_vars

-----------------------------------------------------------------------------
Outputs(topic, h) == {i \in DOMAIN out : out[i].topic = topic /\ out[i].hash = h}

\* A message leaves the filter exactly once, when it is counted for the last
\* time its quorum asks for (tanglebeat.yml:10): an entry of the cache that has
\* reached the quorum has one message at the output, any other has none.
ExactlyOnce(topic, cache, quorum) ==
  \A h \in HashesOf(topic) : cache[h] # NoEntry =>
    Cardinality({i \in Outputs(topic, h) : out[i].firstSeen = cache[h].firstSeen})
      = IF cache[h].visits >= quorum THEN 1 ELSE 0

\* So it is for transactions and for confirmations, each in their cache.
EachExactlyOnce ==
  /\ ExactlyOnce("tx", txcache, TxQuorum)
  /\ ExactlyOnce("sn", sncache, SnQuorum)

\* The same hash passes again only when the cache has forgotten it: the entries
\* it passed with were made at least Retention apart.
ReleasesApart ==
  \A i, j \in DOMAIN out :
    /\ i < j
    /\ out[i].topic = out[j].topic /\ out[i].topic \in {"tx", "sn", "lmhs"}
    /\ out[i].hash = out[j].hash
    => out[j].firstSeen >= out[i].firstSeen + Retention

\* No routine alone moves the milestone index, whatever indexes it reports and
\* however reports of others come in between.
MilestoneNeedsTwo ==
  largestIndex > 0 => Cardinality(witnesses[largestIndex]) >= 2

\* Milestones leave the filter in increasing order and each at most once.
LmiIncreasing ==
  \A i, j \in DOMAIN out :
    i < j /\ out[i].topic = "lmi" /\ out[j].topic = "lmi" => out[i].index < out[j].index

\* A confirmation leaves the filter only after two routines agreed on a first
\* milestone, and never for a milestone already superseded.
SnNotObsolete ==
  [][ \A i \in (Len(out) + 1)..Len(out') :
        out'[i].topic = "sn" => largestIndex > 0 /\ out'[i].index >= largestIndex' ]_vars
=============================================================================
