---------------------------- MODULE MsgFilter_proofs ----------------------------
(***************************************************************************)
(* Proofs about MsgFilter, for any routines, messages, quorums and caches. *)
(***************************************************************************)
EXTENDS MsgFilter, FiniteSetTheorems, SequenceTheorems, TLAPS

Entry == Tx!Entry

Cache(topic) == [HashesOf(topic) -> Entry \cup {NoEntry}]

OutMessage == [topic : {"tx", "sn", "lmi", "lmhs", "seen"}, hash : Hash, index : Nat,
               visits : Nat, firstSeen : Nat, at : Nat]

ChanTypeOK ==
  /\ received \in 0..MaxFeed
  /\ toFilterChan \in Seq([routine : Reader, msg : Feed])

CacheTypeOK ==
  /\ txcache \in Cache("tx") /\ sncache \in Cache("sn") /\ lmhsCache \in Cache("lmhs")

MilestoneTypeOK ==
  /\ largestIndex \in Nat /\ largestIndexCandidate \in Nat
  /\ largestIndexCandidateUri \in Reader \cup {NoUri}
  /\ witnesses \in [Indexes -> SUBSET Reader]

LmiTypeOK == lastLMI \in Nat /\ lastLMITimesSeen \in Nat

\* Every variable the properties depend on has its type.
TypeOK ==
  /\ clock \in Nat
  /\ ChanTypeOK /\ CacheTypeOK /\ MilestoneTypeOK /\ LmiTypeOK
  /\ out \in Seq(OutMessage)

-----------------------------------------------------------------------------
\* A visit more, which wraps.
VisitsAfter(visits) == (visits + 1) % VisitMod

\* The byte that counts visits goes up by one unless it wraps.
LEMMA VisitsWrap ==
  ASSUME NEW v \in 0..(VisitMod - 1)
  PROVE  /\ VisitsAfter(v) \in 0..(VisitMod - 1)
         /\ VisitsAfter(v) # 0 => VisitsAfter(v) = v + 1
         /\ v + 1 < VisitMod => VisitsAfter(v) = v + 1
  BY CacheAssumption DEF VisitsAfter

\* What a step does to a cache and to what was released from it, o and p being
\* the output, c and d the cache and now and then the clock before and after it.

Extends(o, p) == Len(o) <= Len(p) /\ \A i \in DOMAIN o : p[i] = o[i]

New(o, p) == DOMAIN p \ DOMAIN o

\* The cache is left alone and nothing is released from it.
Left(topic, c, d, o, p) == d = c /\ \A i \in New(o, p) : p[i].topic # topic

\* A hash is counted, and its message released when it reaches the quorum.
Visit(topic, quorum, c, d, o, p, now, h, e) ==
  /\ e \in Entry
  /\ d = [c EXCEPT ![h] = e]
  /\ c[h] = NoEntry => e.firstSeen = now /\ e.visits = 1
  /\ c[h] # NoEntry => e.firstSeen = c[h].firstSeen /\ e.visits = VisitsAfter(c[h].visits)
  /\ \A i \in New(o, p) : p[i].topic = topic =>
       i = Len(o) + 1 /\ p[i].hash = h /\ p[i].firstSeen = e.firstSeen /\ e.visits = quorum
  /\ e.visits = quorum /\ topic # "lmhs" =>
       \E i \in New(o, p) : p[i].topic = topic /\ p[i].hash = h /\ p[i].firstSeen = e.firstSeen

\* Time passes, and what was first seen Retention ago may be forgotten.
Aging(topic, c, d, o, p, now) ==
  /\ p = o
  /\ d \in Cache(topic)
  /\ \A h \in HashesOf(topic) :
       \/ d[h] = c[h]
       \/ d[h] = NoEntry /\ c[h] # NoEntry /\ now + 1 >= c[h].firstSeen + Retention

CacheStep(topic, quorum, c, d, o, p, now, then) ==
  \/ then = now /\ Left(topic, c, d, o, p)
  \/ then = now /\ \E h \in HashesOf(topic), e \in Entry : Visit(topic, quorum, c, d, o, p, now, h, e)
  \/ then = now + 1 /\ Aging(topic, c, d, o, p, now)

\* Appending one message at most.
Adds(o, p, a) ==
  /\ \A i \in New(o, p) : i = Len(o) + 1 /\ Len(a) = 1 /\ p[i] = a[1]
  /\ Len(a) = 1 => Len(o) + 1 \in New(o, p)

\* Appending at most one message to the output extends it and adds just that.
LEMMA Appended ==
  ASSUME NEW S, NEW o \in Seq(S), NEW a \in Seq(S), Len(a) \in 0..1
  PROVE  /\ o \o a \in Seq(S)
         /\ Extends(o, o \o a)
         /\ Adds(o, o \o a, a)
<1>1. /\ o \o a \in Seq(S)
      /\ Len(o \o a) = Len(o) + Len(a)
      /\ \A i \in 1..(Len(o) + Len(a)) :
           (o \o a)[i] = IF i <= Len(o) THEN o[i] ELSE a[i - Len(o)]
  BY ConcatProperties
<1>0. Len(o) \in Nat /\ (Len(a) = 0 \/ Len(a) = 1)
  <2>1. Len(o) \in Nat /\ Len(a) \in Nat
    BY LenProperties
  <2> QED BY <2>1
<1>2. /\ DOMAIN o = 1..Len(o) /\ DOMAIN (o \o a) = 1..(Len(o) + Len(a))
  BY <1>1, LenProperties
<1>3. Extends(o, o \o a)
  BY <1>0, <1>1, <1>2 DEF Extends
<1>4. ASSUME NEW i \in New(o, o \o a)
      PROVE  i = Len(o) + 1 /\ Len(a) = 1 /\ (o \o a)[i] = a[1]
  <2>1. i = Len(o) + 1 /\ Len(a) = 1
    <3>1. i \in 1..(Len(o) + Len(a)) /\ ~(i \in 1..Len(o))
      BY <1>2, <1>4 DEF New
    <3>2. CASE Len(a) = 0
      BY <1>0, <3>1, <3>2
    <3>3. CASE Len(a) = 1
      BY <1>0, <3>1, <3>3
    <3> QED BY <1>0, <3>2, <3>3
  <2> QED BY <1>0, <1>1, <1>2, <2>1
<1>5. Len(a) = 1 => Len(o) + 1 \in New(o, o \o a)
  BY <1>0, <1>2 DEF New
<1> QED BY <1>1, <1>3, <1>4, <1>5 DEF Adds

\* What was at the output stays there.
LEMMA ExtendsTrans ==
  ASSUME NEW S, NEW o \in Seq(S), NEW p \in Seq(S), NEW q \in Seq(S),
         Extends(o, p), Extends(p, q)
  PROVE  /\ Extends(o, q)
         /\ \A i \in New(o, q) : i \in New(p, q) \/ (i \in New(o, p) /\ q[i] = p[i])
         /\ \A i \in New(o, p) : i \in New(o, q) /\ q[i] = p[i]
<1>1. /\ DOMAIN o = 1..Len(o) /\ DOMAIN p = 1..Len(p) /\ DOMAIN q = 1..Len(q)
      /\ Len(o) \in Nat /\ Len(p) \in Nat /\ Len(q) \in Nat
  BY LenProperties
<1> QED BY <1>1 DEF Extends, New

-----------------------------------------------------------------------------
\* The messages and the entries.

LEMMA FeedType ==
  ASSUME NEW m \in Feed
  PROVE  /\ m.topic \in {"tx", "sn", "lmi", "lmhs"} /\ m.hash \in Hash /\ m.index \in Nat
         /\ m.hash \in HashesOf(m.topic) /\ m.index \in Indexes
         /\ m.topic \in {"sn", "lmi"} => m.index > 0
<1>1. m \in Message
  BY FeedAssumption
<1>2. m.topic \in {"tx", "sn", "lmi", "lmhs"} /\ m.hash \in Hash /\ m.index \in Nat
  BY <1>1 DEF Message
<1>3. m.hash \in HashesOf(m.topic) /\ m.index \in Indexes
  BY DEF HashesOf, Indexes
<1> QED BY <1>2, <1>3, FeedAssumption

\* The entry e a visit from r leaves for h in the cache d, which was c.
Counted(x, r) ==
  IF x = NoEntry
  THEN [firstSeen |-> clock, lastSeen |-> clock, visits |-> 1, firstVisitId |-> r]
  ELSE [firstSeen |-> x.firstSeen, lastSeen |-> clock,
        visits |-> VisitsAfter(x.visits), firstVisitId |-> 0]

Counts(c, d, h, r, e) == e = Counted(c[h], r) /\ d = [c EXCEPT ![h] = e]

\* A visit leaves a cache of entries, and the entry it returns is one.
LEMMA CountsType ==
  ASSUME clock \in Nat, NEW r \in Reader, NEW topic, NEW c \in Cache(topic), NEW d,
         NEW h \in HashesOf(topic), NEW e, Counts(c, d, h, r, e)
  PROVE  /\ e \in Entry /\ d \in Cache(topic)
         /\ e.visits \in Nat /\ e.firstSeen \in Nat
<1>0. VisitMod \in Nat \ {0, 1} /\ 0 \in Reader
  BY CacheAssumption, QuorumAssumption
<1>1. c[h] # NoEntry => c[h] \in Entry /\ c[h].firstSeen \in Nat /\ c[h].visits \in Nat
  BY DEF Cache, Entry, Tx!Entry
<1>2. /\ 1 \in 0..(VisitMod - 1)
      /\ c[h] # NoEntry => VisitsAfter(c[h].visits) \in 0..(VisitMod - 1)
  <2>1. c[h] # NoEntry => c[h].visits \in 0..(VisitMod - 1)
    BY DEF Cache, Entry, Tx!Entry
  <2> QED BY <1>0, <2>1, VisitsWrap
<1>3. e \in Entry
  BY <1>0, <1>1, <1>2 DEF Counts, Counted, Entry, Tx!Entry
<1>5. d \in Cache(topic)
  BY <1>3 DEF Cache, Counts
<1>6. e.visits \in Nat /\ e.firstSeen \in Nat
  BY <1>3 DEF Entry, Tx!Entry
<1> QED BY <1>3, <1>5, <1>6

\* A message released with an entry.
LEMMA OutputType ==
  ASSUME clock \in Nat, NEW m \in Feed, NEW visits \in Nat, NEW first \in Nat
  PROVE  /\ Output(m, visits, first) \in OutMessage
         /\ Output(m, visits, first).topic = m.topic
         /\ Output(m, visits, first).hash = m.hash
         /\ Output(m, visits, first).index = m.index
         /\ Output(m, visits, first).firstSeen = first
         /\ Output(m, visits, first).at = clock
  BY FeedType DEF Output, OutMessage

\* The "seen" copy of an output message is an output message.
LEMMA SeenType ==
  ASSUME clock \in Nat, NEW m \in Feed, NEW visits \in Nat, NEW first \in Nat
  PROVE  /\ [Output(m, visits, first) EXCEPT !.topic = "seen"] \in OutMessage
         /\ [Output(m, visits, first) EXCEPT !.topic = "seen"].topic = "seen"
  BY FeedType DEF Output, OutMessage

\* A visit, and the message a it releases if it reaches the quorum.
Passes(m, e, a, quorum) ==
  \/ a = <<Output(m, e.visits, e.firstSeen)>> /\ e.visits = quorum
  \/ a = <<>> /\ (e.visits = quorum => m.topic = "lmhs")

Messages(m, e, o, p) ==
  \A i \in New(o, p) : /\ p[i].topic = m.topic /\ p[i].index = m.index
                       /\ p[i].firstSeen = e.firstSeen /\ p[i].at = clock

\* What one counted visit does to its cache and to the output: the message it
\* releases, if any, is the one of the entry it returns.
LEMMA Release ==
  ASSUME clock \in Nat, out \in Seq(OutMessage), NEW r \in Reader, NEW m \in Feed,
         NEW topic, m.topic = topic, NEW quorum,
         NEW c \in Cache(topic), NEW d, NEW e, Counts(c, d, m.hash, r, e),
         NEW a, Passes(m, e, a, quorum), NEW p, p = out \o a
  PROVE  /\ d \in Cache(topic) /\ p \in Seq(OutMessage) /\ Extends(out, p)
         /\ Adds(out, p, a) /\ Messages(m, e, out, p)
         /\ Visit(topic, quorum, c, d, out, p, clock, m.hash, e)
<1>1. m.hash \in HashesOf(topic)
  BY FeedType
<1>2. /\ e \in Entry /\ d \in Cache(topic)
      /\ e.visits \in Nat /\ e.firstSeen \in Nat
  BY <1>1, CountsType
<1>3. c[m.hash] = NoEntry => e.firstSeen = clock /\ e.visits = 1
  BY DEF Counts, Counted
<1>4. c[m.hash] # NoEntry => e.firstSeen = c[m.hash].firstSeen /\ e.visits = VisitsAfter(c[m.hash].visits)
  BY DEF Counts, Counted
<1>5. /\ a \in Seq(OutMessage) /\ Len(a) \in 0..1
      /\ Len(a) = 1 => /\ a # <<>> /\ e.visits = quorum
                       /\ a[1].topic = topic /\ a[1].hash = m.hash /\ a[1].index = m.index
                       /\ a[1].firstSeen = e.firstSeen /\ a[1].at = clock
      /\ e.visits = quorum /\ topic # "lmhs" => Len(a) = 1
  <2> DEFINE x == Output(m, e.visits, e.firstSeen)
  <2>0. (a = <<x>> /\ e.visits = quorum) \/ (a = <<>> /\ (e.visits = quorum => topic = "lmhs"))
    BY DEF Passes
  <2>1. CASE a = <<x>> /\ e.visits = quorum
    <3>1. x \in OutMessage
      BY <1>2, OutputType
    <3>2. /\ x.topic = topic /\ x.hash = m.hash /\ x.index = m.index
          /\ x.firstSeen = e.firstSeen /\ x.at = clock
      BY <1>2, OutputType
    <3> HIDE DEF x
    <3>3. a \in Seq(OutMessage) /\ Len(a) = 1 /\ a[1] = x /\ a # <<>>
      BY <2>1, <3>1
    <3> QED BY <2>1, <3>2, <3>3
  <2>2. CASE a = <<>> /\ (e.visits = quorum => topic = "lmhs")
    BY <2>2
  <2> QED BY <2>0, <2>1, <2>2
<1>6. p \in Seq(OutMessage) /\ Extends(out, p) /\ Adds(out, p, a)
  BY <1>5, Appended
<1>7. \A i \in New(out, p) :
        /\ i = Len(out) + 1 /\ p[i].topic = topic /\ p[i].hash = m.hash
        /\ p[i].index = m.index /\ p[i].firstSeen = e.firstSeen /\ p[i].at = clock
        /\ a # <<>> /\ e.visits = quorum
  BY <1>5, <1>6 DEF Adds
<1>8. e.visits = quorum /\ topic # "lmhs" =>
        \E i \in New(out, p) : /\ p[i].topic = topic /\ p[i].hash = m.hash
                               /\ p[i].firstSeen = e.firstSeen
  BY <1>5, <1>6, <1>7 DEF Adds
<1>9. Visit(topic, quorum, c, d, out, p, clock, m.hash, e)
  <2>1. d = [c EXCEPT ![m.hash] = e]
    BY DEF Counts
  <2>2. \A i \in New(out, p) : p[i].topic = topic =>
          /\ i = Len(out) + 1 /\ p[i].hash = m.hash
          /\ p[i].firstSeen = e.firstSeen /\ e.visits = quorum
    BY <1>7
  <2> QED BY <1>1, <1>2, <1>3, <1>4, <1>8, <2>1, <2>2 DEF Visit
<1> QED BY <1>2, <1>6, <1>7, <1>9 DEF Messages

-----------------------------------------------------------------------------
\* What filtering a message does to the cache of its topic and to the output.

\* A transaction.
LEMMA FilterTX ==
  ASSUME TypeOK, NEW r \in Reader, NEW m \in Feed, FilterTXMsg(r, m)
  PROVE  /\ txcache' \in Cache("tx")
         /\ out' \in Seq(OutMessage) /\ Extends(out, out')
         /\ \A i \in New(out, out') : out'[i].topic \in {"tx", "seen"}
         /\ CacheStep("tx", TxQuorum, txcache, txcache', out, out', clock, clock)
<1>0. /\ clock \in Nat /\ txcache \in Cache("tx") /\ out \in Seq(OutMessage)
      /\ m.topic = "tx" /\ m.hash \in HashesOf("tx")
  BY FeedType DEF TypeOK, CacheTypeOK, FilterTXMsg
<1>1. CASE UNCHANGED <<txcache, out>>
  BY <1>0, <1>1 DEF CacheStep, Left, Extends, New
<1>2. CASE r \notin outputClosed
  <2> DEFINE e == txcache'[m.hash]
             a == Released(m, e, TxPasses(e))
             b == QuorumUpdate(m, e)
             p == out \o a
  <2>1. out' = p \o b /\ Tx!Seen(m.hash, r)
    BY <1>2 DEF FilterTXMsg
  <2>2. Counts(txcache, txcache', m.hash, r, e)
    BY <1>0, <2>1 DEF Tx!Seen, Tx!Fresh, Tx!Visited, Counts, Counted, VisitsAfter, Cache
  <2>3. Passes(m, e, a, TxQuorum)
    BY DEF Released, Passes, TxPasses
  <2> HIDE DEF a, e
  <2>4. /\ txcache' \in Cache("tx") /\ p \in Seq(OutMessage) /\ Extends(out, p)
        /\ Messages(m, e, out, p)
        /\ Visit("tx", TxQuorum, txcache, txcache', out, p, clock, m.hash, e)
    BY <1>0, <2>2, <2>3, Release
  <2>5. /\ b \in Seq(OutMessage) /\ Len(b) \in 0..1
        /\ Len(b) = 1 => b[1].topic = "seen"
    <3>1. e.visits \in Nat /\ e.firstSeen \in Nat
      BY <1>0, <2>2, CountsType
    <3> QED BY <1>0, <3>1, SeenType DEF QuorumUpdate
  <2> HIDE DEF b, p
  <2>6. out' \in Seq(OutMessage) /\ Extends(p, out') /\ Adds(p, out', b)
    BY <2>1, <2>4, <2>5, Appended
  <2>7. /\ Extends(out, out')
        /\ \A i \in New(out, out') : i \in New(p, out') \/ (i \in New(out, p) /\ out'[i] = p[i])
        /\ \A i \in New(out, p) : i \in New(out, out') /\ out'[i] = p[i]
    BY <1>0, <2>4, <2>6, ExtendsTrans
  <2>8. \A i \in New(out, out') :
          out'[i].topic = "seen" \/ (i \in New(out, p) /\ out'[i] = p[i])
    BY <2>5, <2>6, <2>7 DEF Adds
  <2>9. Visit("tx", TxQuorum, txcache, txcache', out, out', clock, m.hash, e)
    <3>1. \A i \in New(out, out') : out'[i].topic = "tx" =>
            /\ i = Len(out) + 1 /\ out'[i].hash = m.hash
            /\ out'[i].firstSeen = e.firstSeen /\ e.visits = TxQuorum
      BY <2>4, <2>8 DEF Visit
    <3>2. e.visits = TxQuorum =>
            \E i \in New(out, out') :
              /\ out'[i].topic = "tx" /\ out'[i].hash = m.hash
              /\ out'[i].firstSeen = e.firstSeen
      BY <2>4, <2>7 DEF Visit
    <3> QED BY <2>4, <3>1, <3>2 DEF Visit
  <2> QED BY <1>0, <2>4, <2>6, <2>7, <2>8, <2>9 DEF CacheStep, Visit, Messages
<1> QED BY <1>1, <1>2 DEF FilterTXMsg

\* A confirmation.
LEMMA FilterSN ==
  ASSUME TypeOK, NEW r \in Reader, NEW m \in Feed, FilterSNMsg(r, m)
  PROVE  /\ sncache' \in Cache("sn")
         /\ out' \in Seq(OutMessage) /\ Extends(out, out')
         /\ \A i \in New(out, out') :
              out'[i].topic = "sn" /\ out'[i].index = m.index /\ largestIndex > 0 /\ ~Obsolete(m.index)
         /\ CacheStep("sn", SnQuorum, sncache, sncache', out, out', clock, clock)
<1>0. /\ clock \in Nat /\ sncache \in Cache("sn") /\ out \in Seq(OutMessage)
      /\ m.topic = "sn" /\ m.hash \in HashesOf("sn")
  BY FeedType DEF TypeOK, CacheTypeOK, FilterSNMsg
<1>1. CASE UNCHANGED <<sncache, out>>
  BY <1>0, <1>1 DEF CacheStep, Left, Extends, New
<1>2. CASE r \notin outputClosed /\ largestIndex > 0 /\ ~Obsolete(m.index)
           /\ ~UNCHANGED <<sncache, out>>
  <2> DEFINE e == sncache'[m.hash]
             a == Released(m, e, SnPasses(e))
  <2>1. out' = out \o a /\ Sn!Seen(m.hash, r)
    BY <1>2 DEF FilterSNMsg
  <2>2. Counts(sncache, sncache', m.hash, r, e)
    BY <1>0, <2>1 DEF Sn!Seen, Sn!Fresh, Sn!Visited, Counts, Counted, VisitsAfter, Cache
  <2>3. Passes(m, e, a, SnQuorum)
    BY DEF Released, Passes, SnPasses
  <2> HIDE DEF a, e
  <2>4. /\ sncache' \in Cache("sn") /\ out' \in Seq(OutMessage) /\ Extends(out, out')
        /\ Messages(m, e, out, out')
        /\ Visit("sn", SnQuorum, sncache, sncache', out, out', clock, m.hash, e)
    BY <1>0, <2>1, <2>2, <2>3, Release
  <2> QED BY <1>0, <1>2, <2>4 DEF CacheStep, Visit, Messages
<1> QED BY <1>1, <1>2 DEF FilterSNMsg

\* A milestone hash.
LEMMA FilterLMHS ==
  ASSUME TypeOK, NEW r \in Reader, NEW m \in Feed, FilterLMHSMsg(r, m)
  PROVE  /\ lmhsCache' \in Cache("lmhs")
         /\ out' \in Seq(OutMessage) /\ Extends(out, out')
         /\ \A i \in New(out, out') : out'[i].topic = "lmhs"
         /\ CacheStep("lmhs", LmhsQuorum, lmhsCache, lmhsCache', out, out', clock, clock)
<1>0. /\ clock \in Nat /\ lmhsCache \in Cache("lmhs") /\ out \in Seq(OutMessage)
      /\ m.topic = "lmhs" /\ m.hash \in HashesOf("lmhs")
  BY FeedType DEF TypeOK, CacheTypeOK, FilterLMHSMsg
<1>1. CASE UNCHANGED <<lmhsCache, out>>
  BY <1>0, <1>1 DEF CacheStep, Left, Extends, New
<1>2. CASE r \notin outputClosed
  <2> DEFINE e == lmhsCache'[m.hash]
             a == Released(m, e, LmhsPasses(e))
  <2>1. out' = out \o a /\ Lmhs!Seen(m.hash, r)
    BY <1>2 DEF FilterLMHSMsg
  <2>2. Counts(lmhsCache, lmhsCache', m.hash, r, e)
    BY <1>0, <2>1 DEF Lmhs!Seen, Lmhs!Fresh, Lmhs!Visited, Counts, Counted, VisitsAfter, Cache
  <2>3. Passes(m, e, a, LmhsQuorum)
    BY <1>0 DEF Released, Passes, LmhsPasses
  <2> HIDE DEF a, e
  <2>4. /\ lmhsCache' \in Cache("lmhs") /\ out' \in Seq(OutMessage) /\ Extends(out, out')
        /\ Messages(m, e, out, out')
        /\ Visit("lmhs", LmhsQuorum, lmhsCache, lmhsCache', out, out', clock, m.hash, e)
    BY <1>0, <2>1, <2>2, <2>3, Release
  <2> QED BY <1>0, <1>2, <2>4 DEF CacheStep, Visit, Messages
<1> QED BY <1>1, <1>2 DEF FilterLMHSMsg

\* A milestone index.
LEMMA FilterLMI ==
  ASSUME TypeOK, NEW r \in Reader, NEW m \in Feed, FilterLMIMsg(r, m)
  PROVE  /\ out' \in Seq(OutMessage) /\ Extends(out, out')
         /\ \A i \in New(out, out') :
              /\ out'[i].topic = "lmi" /\ out'[i].index = m.index /\ i = Len(out) + 1
              /\ CountLMI(m.index) /\ LmiPasses(m.index, lastLMITimesSeen')
         /\ UNCHANGED lmiVars \/ CountLMI(m.index)
<1>0. clock \in Nat /\ out \in Seq(OutMessage) /\ LmiQuorum \in Nat
  BY QuorumAssumption, CacheAssumption DEF TypeOK
<1>1. CASE UNCHANGED <<lmiVars, out>>
  BY <1>0, <1>1 DEF Extends, New
<1>2. CASE CountLMI(m.index) /\ out' = out
  BY <1>0, <1>2 DEF Extends, New
<1>3. CASE /\ CountLMI(m.index) /\ LmiPasses(m.index, lastLMITimesSeen')
           /\ out' = Append(out, Output(m, LmiQuorum, 0))
  <2>1. /\ Output(m, LmiQuorum, 0) \in OutMessage
        /\ Output(m, LmiQuorum, 0).topic = "lmi" /\ Output(m, LmiQuorum, 0).index = m.index
    BY <1>0, OutputType DEF FilterLMIMsg
  <2> QED BY <1>0, <1>3, <2>1 DEF Extends, New
<1> QED BY <1>1, <1>2, <1>3 DEF FilterLMIMsg

-----------------------------------------------------------------------------
\* Steps.

\* The filter takes one message, read by a routine.
LEMMA Filtered ==
  ASSUME TypeOK, FilterMsg
  PROVE  /\ \E r \in Reader, m \in Feed :
              FilterTXMsg(r, m) \/ FilterSNMsg(r, m) \/ FilterLMIMsg(r, m) \/ FilterLMHSMsg(r, m)
         /\ toFilterChan' \in Seq([routine : Reader, msg : Feed])
         /\ Len(toFilterChan) \in Nat /\ Len(toFilterChan') = Len(toFilterChan) - 1
         /\ UNCHANGED <<clock, received, outputClosed>>
<1>1. toFilterChan \in Seq([routine : Reader, msg : Feed]) /\ toFilterChan # <<>>
  BY DEF TypeOK, ChanTypeOK, FilterMsg
<1>2. /\ Head(toFilterChan) \in [routine : Reader, msg : Feed]
      /\ toFilterChan' \in Seq([routine : Reader, msg : Feed])
      /\ Len(toFilterChan) \in Nat /\ Len(toFilterChan') = Len(toFilterChan) - 1
  BY <1>1, HeadTailProperties, LenProperties DEF FilterMsg
<1>3. Head(toFilterChan).routine \in Reader /\ Head(toFilterChan).msg \in Feed
  BY <1>2
<1> QED BY <1>2, <1>3 DEF FilterMsg

\* A cache from which nothing is released.
LEMMA LeftAlone ==
  ASSUME NEW topic, NEW quorum, NEW c, NEW o, NEW p, NEW now,
         \A i \in New(o, p) : p[i].topic # topic
  PROVE  CacheStep(topic, quorum, c, c, o, p, now, now)
  BY DEF CacheStep, Left

\* Time passes for a cache.
LEMMA Forgets ==
  ASSUME NEW topic, NEW quorum, NEW c \in Cache(topic), NEW o, NEW now,
         NEW gone \in SUBSET HashesOf(topic), NEW d,
         \A h \in gone : c[h] # NoEntry /\ now + 1 >= c[h].firstSeen + Retention,
         d = [h \in HashesOf(topic) |-> IF h \in gone THEN NoEntry ELSE c[h]]
  PROVE  d \in Cache(topic) /\ CacheStep(topic, quorum, c, d, o, o, now, now + 1)
<1>1. d \in Cache(topic)
  BY DEF Cache
<1>2. Aging(topic, c, d, o, o, now)
  BY <1>1 DEF Aging
<1> QED BY <1>1, <1>2 DEF CacheStep

CacheSteps ==
  /\ CacheStep("tx", TxQuorum, txcache, txcache', out, out', clock, clock')
  /\ CacheStep("sn", SnQuorum, sncache, sncache', out, out', clock, clock')
  /\ CacheStep("lmhs", LmhsQuorum, lmhsCache, lmhsCache', out, out', clock, clock')

\* What any step does to the caches and to the output.
LEMMA StepEffect ==
  ASSUME TypeOK, [Next]_vars
  PROVE  /\ clock' \in Nat /\ CacheTypeOK' /\ out' \in Seq(OutMessage) /\ Extends(out, out')
         /\ CacheSteps
<1>0. /\ clock \in Nat /\ out \in Seq(OutMessage)
      /\ txcache \in Cache("tx") /\ sncache \in Cache("sn") /\ lmhsCache \in Cache("lmhs")
  BY DEF TypeOK, CacheTypeOK
<1>1. CASE UNCHANGED <<clock, cacheVars, out>>
  <2>1. UNCHANGED <<clock, txcache, sncache, lmhsCache, out>>
    BY <1>1 DEF cacheVars
  <2>2. New(out, out') = {} /\ Extends(out, out')
    BY <1>0, <2>1 DEF New, Extends
  <2> QED BY <1>0, <2>1, <2>2, LeftAlone DEF CacheTypeOK, CacheSteps
<1>2. CASE FilterMsg
  <2>1. PICK r \in Reader, m \in Feed :
          FilterTXMsg(r, m) \/ FilterSNMsg(r, m) \/ FilterLMIMsg(r, m) \/ FilterLMHSMsg(r, m)
    BY <1>2, Filtered
  <2>2. UNCHANGED clock
    BY <1>2, Filtered
  <2>3. CASE FilterTXMsg(r, m)
    <3>1. UNCHANGED <<sncache, lmhsCache>>
      BY <2>3 DEF FilterTXMsg
    <3>2. /\ txcache' \in Cache("tx") /\ out' \in Seq(OutMessage) /\ Extends(out, out')
          /\ \A i \in New(out, out') : out'[i].topic \in {"tx", "seen"}
          /\ CacheStep("tx", TxQuorum, txcache, txcache', out, out', clock, clock)
      BY <2>3, FilterTX
    <3>3. \A i \in New(out, out') : out'[i].topic # "sn" /\ out'[i].topic # "lmhs"
      BY <3>2
    <3> QED BY <1>0, <2>2, <3>1, <3>2, <3>3, LeftAlone DEF CacheTypeOK, CacheSteps
  <2>4. CASE FilterSNMsg(r, m)
    <3>1. UNCHANGED <<txcache, lmhsCache>>
      BY <2>4 DEF FilterSNMsg
    <3>2. /\ sncache' \in Cache("sn") /\ out' \in Seq(OutMessage) /\ Extends(out, out')
          /\ CacheStep("sn", SnQuorum, sncache, sncache', out, out', clock, clock)
      BY <2>4, FilterSN
    <3>3. \A i \in New(out, out') : out'[i].topic # "tx" /\ out'[i].topic # "lmhs"
      BY <2>4, FilterSN
    <3> QED BY <1>0, <2>2, <3>1, <3>2, <3>3, LeftAlone DEF CacheTypeOK, CacheSteps
  <2>5. CASE FilterLMIMsg(r, m)
    <3>1. UNCHANGED <<txcache, sncache, lmhsCache>>
      BY <2>5 DEF FilterLMIMsg, cacheVars
    <3>2. out' \in Seq(OutMessage) /\ Extends(out, out')
      BY <2>5, FilterLMI
    <3>3. \A i \in New(out, out') :
            out'[i].topic # "tx" /\ out'[i].topic # "sn" /\ out'[i].topic # "lmhs"
      BY <2>5, FilterLMI
    <3> QED BY <1>0, <2>2, <3>1, <3>2, <3>3, LeftAlone DEF CacheTypeOK, CacheSteps
  <2>6. CASE FilterLMHSMsg(r, m)
    <3>1. UNCHANGED <<txcache, sncache>>
      BY <2>6 DEF FilterLMHSMsg
    <3>2. /\ lmhsCache' \in Cache("lmhs") /\ out' \in Seq(OutMessage) /\ Extends(out, out')
          /\ CacheStep("lmhs", LmhsQuorum, lmhsCache, lmhsCache', out, out', clock, clock)
      BY <2>6, FilterLMHS
    <3>3. \A i \in New(out, out') : out'[i].topic # "tx" /\ out'[i].topic # "sn"
      BY <2>6, FilterLMHS
    <3> QED BY <1>0, <2>2, <3>1, <3>2, <3>3, LeftAlone DEF CacheTypeOK, CacheSteps
  <2> QED BY <2>1, <2>3, <2>4, <2>5, <2>6
<1>3. CASE Tick
  <2>1. clock' = clock + 1 /\ out' = out
    BY <1>3 DEF Tick
  <2>2. /\ txcache' \in Cache("tx")
        /\ CacheStep("tx", TxQuorum, txcache, txcache', out, out', clock, clock')
    <3>1. PICK gone \in SUBSET HashesOf("tx") : Tx!Forget(gone)
      BY <1>3 DEF Tick
    <3> QED BY <1>0, <2>1, <3>1, Forgets DEF Tx!Forget, Tx!MayForget
  <2>3. /\ sncache' \in Cache("sn")
        /\ CacheStep("sn", SnQuorum, sncache, sncache', out, out', clock, clock')
    <3>1. PICK gone \in SUBSET HashesOf("sn") : Sn!Forget(gone)
      BY <1>3 DEF Tick
    <3> QED BY <1>0, <2>1, <3>1, Forgets DEF Sn!Forget, Sn!MayForget
  <2>4. /\ lmhsCache' \in Cache("lmhs")
        /\ CacheStep("lmhs", LmhsQuorum, lmhsCache, lmhsCache', out, out', clock, clock')
    <3>1. PICK gone \in SUBSET HashesOf("lmhs") : Lmhs!Forget(gone)
      BY <1>3 DEF Tick
    <3> QED BY <1>0, <2>1, <3>1, Forgets DEF Lmhs!Forget, Lmhs!MayForget
  <2>5. clock' \in Nat /\ out' \in Seq(OutMessage) /\ Extends(out, out')
    BY <1>0, <2>1 DEF Extends
  <2> QED BY <2>2, <2>3, <2>4, <2>5 DEF CacheTypeOK, CacheSteps
<1>4. [Next]_vars => UNCHANGED <<clock, cacheVars, out>> \/ FilterMsg \/ Tick
  BY DEF Next, vars, Receive, SetOutputClosed
<1> QED BY <1>1, <1>2, <1>3, <1>4

\* Checking a milestone keeps what two routines have reported.
MilestoneInv ==
  /\ \A i \in Indexes : IsFiniteSet(witnesses[i])
  /\ largestIndexCandidate > 0 =>
       /\ largestIndexCandidate \in Indexes
       /\ largestIndexCandidateUri \in witnesses[largestIndexCandidate]
  /\ largestIndex > 0 =>
       /\ largestIndex \in Indexes
       /\ \E q, r \in witnesses[largestIndex] : q # r

\* The table of reported milestones keeps its invariant, and the largest index
\* moves only to the index reported.
LEMMA Milestone ==
  ASSUME MilestoneTypeOK, MilestoneInv, NEW r \in Reader, NEW m \in Feed,
         CheckMilestone(m.index, r), m.index > 0
  PROVE  /\ MilestoneTypeOK' /\ MilestoneInv'
         /\ largestIndex' = largestIndex \/ largestIndex' = m.index
<1> DEFINE index == m.index
<1>0. /\ index \in Nat /\ index \in Indexes /\ index > 0
      /\ witnesses' = [witnesses EXCEPT ![index] = @ \cup {r}]
      /\ witnesses \in [Indexes -> SUBSET Reader]
  BY FeedType DEF CheckMilestone, MilestoneTypeOK
<1>1. /\ witnesses' \in [Indexes -> SUBSET Reader]
      /\ \A i \in Indexes : witnesses[i] \subseteq witnesses'[i]
      /\ r \in witnesses'[index]
  BY <1>0
<1>2. ASSUME NEW i \in Indexes
      PROVE  IsFiniteSet(witnesses'[i])
  <2>1. IsFiniteSet(witnesses[i]) /\ IsFiniteSet(witnesses[i] \cup {r})
    BY FS_AddElement DEF MilestoneInv
  <2>2. witnesses'[i] = witnesses[i] \/ witnesses'[i] = witnesses[i] \cup {r}
    BY <1>0
  <2> QED BY <2>1, <2>2
<1> HIDE DEF index
<1>3. CASE UNCHANGED milestoneVars
  <2>1. UNCHANGED <<largestIndex, largestIndexCandidate, largestIndexCandidateUri>>
    BY <1>3 DEF milestoneVars
  <2> QED BY <1>1, <1>2, <2>1 DEF MilestoneTypeOK, MilestoneInv
<1>4. CASE ~UNCHANGED milestoneVars /\ Confirms(index, r)
  <2>1. largestIndex' = index /\ UNCHANGED <<largestIndexCandidate, largestIndexCandidateUri>>
    BY <1>4 DEF CheckMilestone, index
  <2>2. largestIndexCandidateUri \in witnesses'[index] /\ largestIndexCandidateUri # r
    BY <1>0, <1>1, <1>4 DEF Confirms, MilestoneInv
  <2> QED BY <1>0, <1>1, <1>2, <2>1, <2>2 DEF MilestoneTypeOK, MilestoneInv, index
<1>5. CASE ~UNCHANGED milestoneVars /\ ~Confirms(index, r)
  <2>1. UNCHANGED largestIndex /\ largestIndexCandidate' = index /\ largestIndexCandidateUri' = r
    BY <1>5 DEF CheckMilestone, index
  <2> QED BY <1>0, <1>1, <1>2, <2>1 DEF MilestoneTypeOK, MilestoneInv
<1> QED BY <1>3, <1>4, <1>5

\* Only a confirmation, or an index when there is none yet, is checked.
LEMMA MilestoneStep ==
  TypeOK /\ MilestoneInv /\ [Next]_vars => MilestoneTypeOK' /\ MilestoneInv'
<1> SUFFICES ASSUME TypeOK, MilestoneInv, [Next]_vars PROVE MilestoneTypeOK' /\ MilestoneInv'
  OBVIOUS
<1>1. CASE UNCHANGED <<milestoneVars, witnesses>>
  BY <1>1 DEF TypeOK, MilestoneTypeOK, MilestoneInv, milestoneVars
<1>2. CASE \E r \in Reader, m \in Feed : m.index > 0 /\ CheckMilestone(m.index, r)
  BY <1>2, Milestone DEF TypeOK
<1>3. CASE FilterMsg
  <2>1. PICK r \in Reader, m \in Feed :
          FilterTXMsg(r, m) \/ FilterSNMsg(r, m) \/ FilterLMIMsg(r, m) \/ FilterLMHSMsg(r, m)
    BY <1>3, Filtered
  <2>2. \/ UNCHANGED <<milestoneVars, witnesses>>
        \/ m.topic \in {"sn", "lmi"} /\ CheckMilestone(m.index, r)
    BY <2>1 DEF FilterTXMsg, FilterSNMsg, FilterLMIMsg, FilterLMHSMsg
  <2> QED BY <1>1, <1>2, <2>2, FeedType
<1>4. [Next]_vars => UNCHANGED <<milestoneVars, witnesses>> \/ FilterMsg
  BY DEF Next, vars, Receive, SetOutputClosed, Tick
<1> QED BY <1>1, <1>3, <1>4

\* The counter of the last milestone index changes with what is filtered.
LEMMA LmiChange ==
  ASSUME TypeOK, [Next]_vars
  PROVE  /\ LmiTypeOK'
         /\ \/ UNCHANGED lmiVars /\ \A i \in New(out, out') : out'[i].topic # "lmi"
            \/ \E m \in Feed :
                 /\ CountLMI(m.index)
                 /\ \A i \in New(out, out') :
                      /\ out'[i].topic = "lmi" /\ out'[i].index = m.index /\ i = Len(out) + 1
                      /\ LmiPasses(m.index, lastLMITimesSeen')
<1>0. lastLMI \in Nat /\ lastLMITimesSeen \in Nat
  BY DEF TypeOK, LmiTypeOK
<1>1. CASE UNCHANGED <<lmiVars, out>>
  BY <1>0, <1>1 DEF lmiVars, LmiTypeOK, New
<1>2. CASE FilterMsg
  <2>1. PICK r \in Reader, m \in Feed :
          FilterTXMsg(r, m) \/ FilterSNMsg(r, m) \/ FilterLMIMsg(r, m) \/ FilterLMHSMsg(r, m)
    BY <1>2, Filtered
  <2>2. UNCHANGED lmiVars => LmiTypeOK'
    BY <1>0 DEF lmiVars, LmiTypeOK
  <2>3. CASE FilterTXMsg(r, m)
    <3>1. UNCHANGED lmiVars /\ \A i \in New(out, out') : out'[i].topic \in {"tx", "seen"}
      BY <2>3, FilterTX DEF FilterTXMsg
    <3> QED BY <2>2, <3>1
  <2>4. CASE FilterSNMsg(r, m)
    <3>1. UNCHANGED lmiVars /\ \A i \in New(out, out') : out'[i].topic = "sn"
      BY <2>4, FilterSN DEF FilterSNMsg
    <3> QED BY <2>2, <3>1
  <2>5. CASE FilterLMHSMsg(r, m)
    <3>1. UNCHANGED lmiVars /\ \A i \in New(out, out') : out'[i].topic = "lmhs"
      BY <2>5, FilterLMHS DEF FilterLMHSMsg
    <3> QED BY <2>2, <3>1
  <2>6. CASE FilterLMIMsg(r, m)
    <3>1. CASE CountLMI(m.index)
      <4>1. LmiTypeOK'
        <5>1. m.index \in Nat
          BY FeedType
        <5> QED BY <1>0, <3>1, <5>1 DEF CountLMI, LmiTypeOK, lmiVars
      <4>2. \A i \in New(out, out') :
              /\ out'[i].topic = "lmi" /\ out'[i].index = m.index /\ i = Len(out) + 1
              /\ LmiPasses(m.index, lastLMITimesSeen')
        BY <2>6, FilterLMI
      <4> QED BY <3>1, <4>1, <4>2
    <3>2. CASE ~CountLMI(m.index)
      <4>1. UNCHANGED lmiVars /\ New(out, out') = {}
        BY <2>6, <3>2, FilterLMI
      <4> QED BY <2>2, <4>1
    <3> QED BY <3>1, <3>2
  <2> QED BY <2>1, <2>3, <2>4, <2>5, <2>6
<1>3. [Next]_vars => UNCHANGED <<lmiVars, out>> \/ FilterMsg
  BY DEF Next, vars, Receive, SetOutputClosed, Tick
<1> QED BY <1>1, <1>2, <1>3

\* The channel keeps its type.
LEMMA ChanStep == TypeOK /\ [Next]_vars => ChanTypeOK'
<1> SUFFICES ASSUME TypeOK, [Next]_vars PROVE ChanTypeOK'
  OBVIOUS
<1> USE DEF TypeOK, ChanTypeOK
<1>1. CASE UNCHANGED <<received, toFilterChan>>
  BY <1>1
<1>2. ASSUME NEW r \in Reader, NEW m \in Feed, Receive(r, m)
      PROVE  ChanTypeOK'
  <2>1. received' \in 0..MaxFeed
    BY <1>2, CacheAssumption DEF Receive
  <2>2. toFilterChan' \in Seq([routine : Reader, msg : Feed])
    BY <1>2 DEF Receive
  <2> QED BY <2>1, <2>2
<1>3. CASE FilterMsg
  BY <1>3, Filtered
<1>4. [Next]_vars => \/ UNCHANGED <<received, toFilterChan>> \/ FilterMsg
                     \/ \E r \in Reader, m \in Feed : Receive(r, m)
  BY DEF Next, vars, chanVars, SetOutputClosed, Tick
<1> QED BY <1>1, <1>2, <1>3, <1>4

TypeInv == TypeOK /\ MilestoneInv

\* Every step keeps the type invariant.
LEMMA TypeStep == TypeInv /\ [Next]_vars => TypeInv'
  BY StepEffect, ChanStep, MilestoneStep, LmiChange DEF TypeInv, TypeOK

\* The filter starts in its type invariant.
LEMMA TypeInit == Init => TypeInv
<1> SUFFICES ASSUME Init PROVE TypeInv
  OBVIOUS
<1> USE DEF Init
<1>1. ChanTypeOK
  BY CacheAssumption DEF ChanTypeOK
<1>2. CacheTypeOK
  BY DEF CacheTypeOK, Cache
<1>3. MilestoneTypeOK /\ LmiTypeOK
  BY DEF MilestoneTypeOK, LmiTypeOK
<1>4. MilestoneInv
  BY FS_EmptySet DEF MilestoneInv
<1>5. clock \in Nat /\ out \in Seq(OutMessage)
  OBVIOUS
<1> QED BY <1>1, <1>2, <1>3, <1>4, <1>5 DEF TypeInv, TypeOK

\* Every variable has its type, and two routines have reported the largest index.
THEOREM TypeCorrect == Spec => []TypeInv
  BY TypeInit, TypeStep, PTL DEF Spec

-----------------------------------------------------------------------------
\* Milestones and confirmations.

\* No routine alone moves the milestone index.
THEOREM MilestoneNeedsTwoAlways == Spec => []MilestoneNeedsTwo
<1>1. TypeInv => MilestoneNeedsTwo
  <2> SUFFICES ASSUME TypeInv, largestIndex > 0
               PROVE  Cardinality(witnesses[largestIndex]) >= 2
    BY DEF MilestoneNeedsTwo
  <2> DEFINE W == witnesses[largestIndex]
  <2>1. PICK q, r \in W : q # r
    BY DEF TypeInv, MilestoneInv
  <2>2. IsFiniteSet(W)
    BY DEF TypeInv, MilestoneInv
  <2> HIDE DEF W
  <2>3. Cardinality({q} \cup {r}) = 2
    <3>1. IsFiniteSet({q}) /\ Cardinality({q}) = 1
      BY FS_Singleton
    <3> QED BY <2>1, <3>1, FS_AddElement
  <2>4. {q} \cup {r} \subseteq W
    BY <2>1
  <2>5. Cardinality({q} \cup {r}) <= Cardinality(W)
    BY <2>2, <2>4, FS_Subset
  <2>6. Cardinality(W) \in Nat
    BY <2>2, FS_CardinalityType
  <2>7. Cardinality(W) >= 2
    BY <2>3, <2>5, <2>6
  <2> QED BY <2>7 DEF W
<1> QED BY <1>1, TypeCorrect, PTL

\* A milestone at the output is older than the last, or the last and counted to
\* its quorum.
LmiInv ==
  \A i \in DOMAIN out : out[i].topic = "lmi" =>
    \/ out[i].index < lastLMI
    \/ out[i].index = lastLMI /\ lastLMITimesSeen >= LmiQuorum

\* Every step keeps the relation of the last milestone index to the output, on
\* which the order of the milestones at the output rests.
LEMMA LmiStep ==
  TypeOK /\ LmiInv /\ LmiIncreasing /\ [Next]_vars => LmiInv' /\ LmiIncreasing'
<1> SUFFICES ASSUME TypeOK, LmiInv, LmiIncreasing, [Next]_vars
             PROVE  LmiInv' /\ LmiIncreasing'
  OBVIOUS
<1>0. /\ lastLMI \in Nat /\ lastLMITimesSeen \in Nat /\ LmiQuorum \in Nat \ {0}
      /\ out \in Seq(OutMessage) /\ out' \in Seq(OutMessage) /\ Extends(out, out')
  BY StepEffect, QuorumAssumption, CacheAssumption DEF TypeOK, LmiTypeOK
<1>a. /\ DOMAIN out = 1..Len(out) /\ Len(out) \in Nat
      /\ DOMAIN out' = 1..Len(out') /\ Len(out') \in Nat
  BY <1>0, LenProperties
<1>b. /\ \A i \in DOMAIN out : out[i].index \in Nat
      /\ \A i \in DOMAIN out' : (i \in DOMAIN out /\ out'[i] = out[i]) \/ i \in New(out, out')
  <2>1. ASSUME NEW i \in DOMAIN out PROVE out[i].index \in Nat
    <3>1. out[i] \in OutMessage
      BY <1>0, <1>a, <2>1, ElementOfSeq
    <3> QED BY <3>1 DEF OutMessage
  <2>2. \A i \in DOMAIN out' : (i \in DOMAIN out /\ out'[i] = out[i]) \/ i \in New(out, out')
    BY <1>0 DEF New, Extends
  <2> QED BY <2>1, <2>2
<1>1. CASE UNCHANGED lmiVars /\ \A i \in New(out, out') : out'[i].topic # "lmi"
  <2>1. \A i \in DOMAIN out' : out'[i].topic = "lmi" => i \in DOMAIN out /\ out'[i] = out[i]
    BY <1>b, <1>1
  <2> QED BY <1>1, <2>1 DEF LmiInv, LmiIncreasing, lmiVars
<1>2. ASSUME NEW m \in Feed, CountLMI(m.index),
             \A i \in New(out, out') :
               /\ out'[i].topic = "lmi" /\ out'[i].index = m.index /\ i = Len(out) + 1
               /\ LmiPasses(m.index, lastLMITimesSeen')
      PROVE  LmiInv' /\ LmiIncreasing'
  <2>0. m.index \in Nat
    BY FeedType
  <2>1. LmiInv'
    <3> SUFFICES ASSUME NEW i \in DOMAIN out', out'[i].topic = "lmi"
                 PROVE  \/ out'[i].index < lastLMI'
                        \/ out'[i].index = lastLMI' /\ lastLMITimesSeen' >= LmiQuorum
      BY DEF LmiInv
    <3>1. CASE i \in DOMAIN out /\ out'[i] = out[i]
      <4>1. \/ out[i].index < lastLMI
            \/ out[i].index = lastLMI /\ lastLMITimesSeen >= LmiQuorum
        BY <3>1 DEF LmiInv
      <4>2. out[i].index \in Nat
        BY <1>b, <3>1
      <4> QED BY <1>0, <1>2, <2>0, <3>1, <4>1, <4>2 DEF CountLMI, lmiVars
    <3>2. CASE i \in New(out, out')
      <4>1. out'[i].index = m.index /\ m.index = lastLMI /\ lastLMITimesSeen' = LmiQuorum
        BY <1>2, <3>2 DEF LmiPasses
      <4>2. lastLMI' = lastLMI
        BY <1>0, <1>2, <4>1 DEF CountLMI, lmiVars
      <4> QED BY <1>0, <4>1, <4>2
    <3> QED BY <1>b, <3>1, <3>2
  <2>2. LmiIncreasing'
    <3> SUFFICES ASSUME NEW i \in DOMAIN out', NEW j \in DOMAIN out', i < j,
                        out'[i].topic = "lmi", out'[j].topic = "lmi"
                 PROVE  out'[i].index < out'[j].index
      BY DEF LmiIncreasing
    <3>1. CASE j \in DOMAIN out
      <4>1. i \in DOMAIN out /\ out'[i] = out[i] /\ out'[j] = out[j]
        BY <1>0, <1>a, <3>1 DEF Extends
      <4> QED BY <3>1, <4>1 DEF LmiIncreasing
    <3>2. CASE j \notin DOMAIN out
      <4>1. j \in New(out, out') /\ j = Len(out) + 1
        BY <1>2, <3>2 DEF New
      <4>2. i \in DOMAIN out /\ out'[i] = out[i]
        BY <1>0, <1>a, <4>1 DEF Extends
      <4>3. out'[j].index = m.index /\ m.index = lastLMI /\ lastLMITimesSeen' = LmiQuorum
        BY <1>2, <4>1 DEF LmiPasses
      <4>4. lastLMITimesSeen' = lastLMITimesSeen + 1
        BY <1>0, <1>2, <4>3 DEF CountLMI, lmiVars
      <4>5. lastLMITimesSeen < LmiQuorum
        BY <1>0, <4>3, <4>4
      <4>6. out[i].index < lastLMI
        BY <1>0, <4>2, <4>5 DEF LmiInv
      <4> QED BY <4>2, <4>3, <4>6
    <3> QED BY <3>1, <3>2
  <2> QED BY <2>1, <2>2
<1> QED BY <1>1, <1>2, LmiChange

\* Milestones leave the filter in increasing order, each at most once.
THEOREM LmiIncreasingAlways == Spec => []LmiIncreasing
<1>1. Init => LmiInv /\ LmiIncreasing
  BY DEF Init, LmiInv, LmiIncreasing
<1> QED BY <1>1, LmiStep, TypeCorrect, PTL DEF Spec, TypeInv

\* A confirmation leaves the filter only after two routines agreed on a first
\* milestone, and never for one already superseded.
THEOREM SnNotObsoleteAlways == Spec => SnNotObsolete
<1>1. TypeInv /\ [Next]_vars =>
        [\A i \in (Len(out) + 1)..Len(out') :
           out'[i].topic = "sn" => largestIndex > 0 /\ out'[i].index >= largestIndex']_vars
  <2> SUFFICES ASSUME TypeInv, [Next]_vars,
                      NEW i \in (Len(out) + 1)..Len(out'), out'[i].topic = "sn"
               PROVE  largestIndex > 0 /\ out'[i].index >= largestIndex'
    OBVIOUS
  <2>0. /\ TypeOK /\ largestIndex \in Nat
        /\ out \in Seq(OutMessage) /\ out' \in Seq(OutMessage)
    BY StepEffect DEF TypeInv, TypeOK, MilestoneTypeOK
  <2>1. i \in New(out, out')
    <3>1. /\ DOMAIN out = 1..Len(out) /\ Len(out) \in Nat
          /\ DOMAIN out' = 1..Len(out') /\ Len(out') \in Nat
      BY <2>0, LenProperties
    <3> QED BY <3>1 DEF New
  <2>2. FilterMsg
    <3>1. UNCHANGED out \/ FilterMsg
      BY DEF Next, vars, Receive, SetOutputClosed, Tick
    <3> QED BY <2>1, <3>1 DEF New
  <2>3. PICK r \in Reader, m \in Feed :
          FilterTXMsg(r, m) \/ FilterSNMsg(r, m) \/ FilterLMIMsg(r, m) \/ FilterLMHSMsg(r, m)
    BY <2>0, <2>2, Filtered
  <2>4. FilterSNMsg(r, m)
    BY <2>0, <2>1, <2>3, FilterTX, FilterLMI, FilterLMHS
  <2>5. out'[i].index = m.index /\ largestIndex > 0 /\ ~Obsolete(m.index)
    BY <2>0, <2>1, <2>4, FilterSN
  <2>6. m.index \in Nat /\ m.index > 0
    BY <2>4, FeedType DEF FilterSNMsg
  <2>7. largestIndex' = largestIndex \/ largestIndex' = m.index
    <3>1. UNCHANGED milestoneVars \/ CheckMilestone(m.index, r)
      BY <2>4 DEF FilterSNMsg
    <3> QED BY <3>1 DEF CheckMilestone, milestoneVars
  <2> QED BY <2>0, <2>5, <2>6, <2>7 DEF Obsolete
<1> QED BY <1>1, TypeCorrect, PTL DEF Spec, SnNotObsolete

-----------------------------------------------------------------------------
\* What leaves the filter from a cache.

\* A message at the output was released by an entry that was old enough to be
\* forgotten, or by the entry of the cache, which has reached its quorum.
ReleaseInv(topic, quorum, c, o, now) ==
  \A i \in DOMAIN o : o[i].topic = topic =>
    /\ o[i].hash \in HashesOf(topic)
    /\ c[o[i].hash] = NoEntry => o[i].firstSeen + Retention <= now
    /\ c[o[i].hash] # NoEntry =>
         \/ o[i].firstSeen + Retention <= c[o[i].hash].firstSeen
         \/ o[i].firstSeen = c[o[i].hash].firstSeen /\ c[o[i].hash].visits >= quorum

\* ReleasesApart for one topic.
Apart(topic, o) ==
  \A i, j \in DOMAIN o :
    i < j /\ o[i].topic = topic /\ o[j].topic = topic /\ o[i].hash = o[j].hash
      => o[j].firstSeen >= o[i].firstSeen + Retention

\* An entry that has reached its quorum has a message at the output.
ReachedInv(topic, quorum, c, o) ==
  \A h \in HashesOf(topic) : c[h] # NoEntry /\ c[h].visits >= quorum =>
    \E i \in DOMAIN o : o[i].topic = topic /\ o[i].hash = h /\ o[i].firstSeen = c[h].firstSeen

\* No entry has been counted VisitMod times.
NoWrap(topic, c) == \A h \in HashesOf(topic) : c[h] # NoEntry => c[h].visits > 0

\* The values a step is about.
Step(topic, quorum, c, d, o, p, now, then) ==
  /\ quorum \in 1..(VisitMod - 1)
  /\ c \in Cache(topic) /\ d \in Cache(topic)
  /\ o \in Seq(OutMessage) /\ p \in Seq(OutMessage) /\ Extends(o, p)
  /\ now \in Nat
  /\ CacheStep(topic, quorum, c, d, o, p, now, then)

\* Entries and messages are records of numbers.
LEMMA Values ==
  ASSUME NEW topic, NEW c \in Cache(topic), NEW o \in Seq(OutMessage)
  PROVE  /\ \A h \in HashesOf(topic) : c[h] # NoEntry =>
              /\ c[h] \in Entry /\ c[h].firstSeen \in Nat /\ c[h].visits \in Nat
              /\ c[h].visits \in 0..(VisitMod - 1)
         /\ \A i \in DOMAIN o : o[i].firstSeen \in Nat
<1>1. ASSUME NEW h \in HashesOf(topic), c[h] # NoEntry
      PROVE  /\ c[h] \in Entry /\ c[h].firstSeen \in Nat /\ c[h].visits \in Nat
             /\ c[h].visits \in 0..(VisitMod - 1)
  <2>1. c[h] \in Entry
    BY <1>1 DEF Cache
  <2>2. c[h].firstSeen \in Nat /\ c[h].visits \in 0..(VisitMod - 1)
    BY <2>1 DEF Entry, Tx!Entry
  <2> QED BY <2>1, <2>2
<1>2. ASSUME NEW i \in DOMAIN o
      PROVE  o[i].firstSeen \in Nat
  <2>1. o[i] \in OutMessage
    BY <1>2, ElementOfSeq, LenProperties
  <2> QED BY <2>1 DEF OutMessage
<1> QED BY <1>1, <1>2

\* A message of an extended output was there before or is new, and the new ones
\* come after the old ones.
LEMMA OldOrNew ==
  ASSUME NEW o \in Seq(OutMessage), NEW p \in Seq(OutMessage), Extends(o, p)
  PROVE  /\ \A i \in DOMAIN p : (i \in DOMAIN o /\ p[i] = o[i]) \/ i \in New(o, p)
         /\ \A i, j \in DOMAIN p : i < j /\ j \in DOMAIN o => i \in DOMAIN o
         /\ \A i \in DOMAIN p : i < Len(o) + 1 => i \in DOMAIN o
         /\ \A i \in DOMAIN o : i \in DOMAIN p /\ p[i] = o[i]
<1>1. /\ DOMAIN o = 1..Len(o) /\ Len(o) \in Nat
      /\ DOMAIN p = 1..Len(p) /\ Len(p) \in Nat
  BY LenProperties
<1>2. \A i \in DOMAIN p : (i \in DOMAIN o /\ p[i] = o[i]) \/ i \in New(o, p)
  BY DEF New, Extends
<1>3. \A i, j \in DOMAIN p : i < j /\ j \in DOMAIN o => i \in DOMAIN o
  BY <1>1
<1>4. \A i \in DOMAIN p : i < Len(o) + 1 => i \in DOMAIN o
  BY <1>1
<1>5. \A i \in DOMAIN o : i \in DOMAIN p /\ p[i] = o[i]
  BY <1>1 DEF Extends
<1> QED BY <1>2, <1>3, <1>4, <1>5

\* The visit that reaches the quorum finds no message released by its entry.
LEMMA ReachingOnce ==
  ASSUME NEW topic, NEW quorum \in 1..(VisitMod - 1), NEW c \in Cache(topic),
         NEW h \in HashesOf(topic), NEW e \in Entry, NEW o \in Seq(OutMessage),
         NEW now \in Nat, ReleaseInv(topic, quorum, c, o, now),
         c[h] = NoEntry => e.firstSeen = now,
         c[h] # NoEntry => e.firstSeen = c[h].firstSeen /\ e.visits = VisitsAfter(c[h].visits),
         e.visits = quorum,
         NEW i \in DOMAIN o, o[i].topic = topic, o[i].hash = h
  PROVE  o[i].firstSeen + Retention <= e.firstSeen
<1>1. CASE c[h] = NoEntry
  BY <1>1 DEF ReleaseInv
<1>2. CASE c[h] # NoEntry
  <2>1. c[h].visits \in 0..(VisitMod - 1) /\ c[h].visits \in Nat
    BY <1>2, Values
  <2>2. quorum \in Nat /\ quorum > 0
    BY CacheAssumption
  <2>3. quorum = c[h].visits + 1
    BY <1>2, <2>1, <2>2, VisitsWrap
  <2>4. ~(c[h].visits >= quorum)
    BY <2>1, <2>2, <2>3
  <2> QED BY <1>2, <2>4 DEF ReleaseInv
<1> QED BY <1>1, <1>2

\* A step keeps the releases of a topic apart.
LEMMA ApartStep ==
  ASSUME NEW topic, NEW quorum, NEW c, NEW d, NEW o, NEW p, NEW now, NEW then,
         Step(topic, quorum, c, d, o, p, now, then),
         ReleaseInv(topic, quorum, c, o, now), Apart(topic, o)
  PROVE  Apart(topic, p)
<1> USE DEF Step
<1> SUFFICES ASSUME NEW i \in DOMAIN p, NEW j \in DOMAIN p, i < j,
                    p[i].topic = topic, p[j].topic = topic, p[i].hash = p[j].hash
             PROVE  p[j].firstSeen >= p[i].firstSeen + Retention
  BY DEF Apart
<1>1. CASE j \in DOMAIN o
  <2>1. i \in DOMAIN o /\ p[i] = o[i] /\ p[j] = o[j]
    BY <1>1, OldOrNew
  <2> QED BY <1>1, <2>1 DEF Apart
<1>2. CASE j \notin DOMAIN o
  <2>1. j \in New(o, p)
    BY <1>2 DEF New
  <2>2. PICK h \in HashesOf(topic), e \in Entry :
          Visit(topic, quorum, c, d, o, p, now, h, e)
    BY <2>1 DEF CacheStep, Left, Aging, New
  <2>3. /\ j = Len(o) + 1 /\ p[j].hash = h /\ p[j].firstSeen = e.firstSeen
        /\ e.visits = quorum
    BY <2>1, <2>2 DEF Visit
  <2>4. i \in DOMAIN o /\ p[i] = o[i]
    BY <2>3, OldOrNew
  <2>5. o[i].firstSeen + Retention <= e.firstSeen
    BY <2>2, <2>3, <2>4, ReachingOnce DEF Visit
  <2>6. e.firstSeen \in Nat /\ o[i].firstSeen \in Nat /\ Retention \in Nat
    BY <2>4, Values, CacheAssumption DEF Entry, Tx!Entry
  <2> QED BY <2>3, <2>4, <2>5, <2>6
<1> QED BY <1>1, <1>2

\* A step after which no entry has wrapped keeps what is known of the releases.
LEMMA ReleaseStep ==
  ASSUME NEW topic, NEW quorum, NEW c, NEW d, NEW o, NEW p, NEW now, NEW then,
         Step(topic, quorum, c, d, o, p, now, then), NoWrap(topic, d),
         ReleaseInv(topic, quorum, c, o, now)
  PROVE  ReleaseInv(topic, quorum, d, p, then)
<1> USE DEF Step
<1> SUFFICES ASSUME NEW i \in DOMAIN p, p[i].topic = topic
             PROVE  /\ p[i].hash \in HashesOf(topic)
                    /\ d[p[i].hash] = NoEntry => p[i].firstSeen + Retention <= then
                    /\ d[p[i].hash] # NoEntry =>
                         \/ p[i].firstSeen + Retention <= d[p[i].hash].firstSeen
                         \/ /\ p[i].firstSeen = d[p[i].hash].firstSeen
                            /\ d[p[i].hash].visits >= quorum
  BY DEF ReleaseInv
<1> DEFINE g == p[i].hash
<1>0. quorum \in Nat /\ quorum > 0 /\ Retention \in Nat /\ NoEntry \notin Entry
  BY CacheAssumption DEF Entry
<1>1. CASE Left(topic, c, d, o, p) /\ then = now
  <2>1. d = c /\ i \in DOMAIN o /\ p[i] = o[i]
    BY <1>1, OldOrNew DEF Left
  <2> QED BY <1>1, <2>1 DEF ReleaseInv
<1>2. CASE Aging(topic, c, d, o, p, now) /\ then = now + 1
  <2>1. p = o
    BY <1>2 DEF Aging
  <2>2. g \in HashesOf(topic) /\ o[i].firstSeen \in Nat
    BY <2>1, Values DEF ReleaseInv
  <2>3. CASE d[g] = c[g]
    <3>1. c[g] = NoEntry => p[i].firstSeen + Retention <= now + 1
      BY <1>0, <2>1, <2>2 DEF ReleaseInv
    <3> QED BY <1>2, <2>1, <2>2, <2>3, <3>1 DEF ReleaseInv
  <2>4. CASE d[g] = NoEntry /\ c[g] # NoEntry /\ now + 1 >= c[g].firstSeen + Retention
    <3>1. c[g].firstSeen \in Nat
      BY <2>2, <2>4, Values
    <3>2. \/ o[i].firstSeen + Retention <= c[g].firstSeen
          \/ o[i].firstSeen = c[g].firstSeen
      BY <2>1, <2>4 DEF ReleaseInv
    <3> QED BY <1>0, <1>2, <2>1, <2>2, <2>4, <3>1, <3>2
  <2> QED BY <1>2, <2>2, <2>3, <2>4 DEF Aging
<1>3. ASSUME NEW h \in HashesOf(topic), NEW e \in Entry,
             Visit(topic, quorum, c, d, o, p, now, h, e), then = now
      PROVE  /\ g \in HashesOf(topic)
             /\ d[g] = NoEntry => p[i].firstSeen + Retention <= then
             /\ d[g] # NoEntry => \/ p[i].firstSeen + Retention <= d[g].firstSeen
                                  \/ p[i].firstSeen = d[g].firstSeen /\ d[g].visits >= quorum
  <2>1. d[h] = e /\ d[h] # NoEntry /\ \A k \in HashesOf(topic) : k # h => d[k] = c[k]
    BY <1>0, <1>3 DEF Visit, Cache
  <2>2. CASE i \in New(o, p)
    <3>1. g = h /\ p[i].firstSeen = e.firstSeen /\ e.visits = quorum
      BY <1>3, <2>2 DEF Visit
    <3> QED BY <1>0, <2>1, <3>1
  <2>3. CASE i \in DOMAIN o /\ p[i] = o[i]
    <3>1. g \in HashesOf(topic) /\ o[i].firstSeen \in Nat
      BY <2>3, Values DEF ReleaseInv
    <3>2. CASE g # h
      BY <1>3, <2>1, <2>3, <3>1, <3>2 DEF ReleaseInv
    <3>3. CASE g = h /\ c[h] = NoEntry
      BY <1>3, <2>1, <2>3, <3>3 DEF ReleaseInv, Visit
    <3>4. CASE g = h /\ c[h] # NoEntry
      <4>1. c[h].visits \in 0..(VisitMod - 1) /\ c[h].visits \in Nat
        BY <3>4, Values
      <4>2. e.firstSeen = c[h].firstSeen /\ e.visits = VisitsAfter(c[h].visits)
        BY <1>3, <3>4 DEF Visit
      <4>3. e.visits # 0
        BY <2>1 DEF NoWrap
      <4>4. e.visits = c[h].visits + 1
        BY <4>1, <4>2, <4>3, VisitsWrap
      <4>5. \/ o[i].firstSeen + Retention <= c[h].firstSeen
            \/ o[i].firstSeen = c[h].firstSeen /\ c[h].visits >= quorum
        BY <2>3, <3>4 DEF ReleaseInv
      <4> QED BY <1>0, <2>1, <2>3, <3>4, <4>1, <4>2, <4>4, <4>5
    <3> QED BY <3>2, <3>3, <3>4
  <2> QED BY <2>2, <2>3, OldOrNew
<1> QED BY <1>1, <1>2, <1>3 DEF CacheStep

\* A step that reaches the quorum of an entry releases its message.
LEMMA ReachedStep ==
  ASSUME NEW topic, NEW quorum, NEW c, NEW d, NEW o, NEW p, NEW now, NEW then,
         Step(topic, quorum, c, d, o, p, now, then), topic # "lmhs",
         ReachedInv(topic, quorum, c, o)
  PROVE  ReachedInv(topic, quorum, d, p)
<1> USE DEF Step
<1> SUFFICES ASSUME NEW g \in HashesOf(topic), d[g] # NoEntry, d[g].visits >= quorum
             PROVE  \E i \in DOMAIN p : /\ p[i].topic = topic /\ p[i].hash = g
                                        /\ p[i].firstSeen = d[g].firstSeen
  BY DEF ReachedInv
<1>0. quorum \in Nat /\ quorum > 0
  BY CacheAssumption
<1>1. ASSUME c[g] # NoEntry, c[g].visits >= quorum, d[g].firstSeen = c[g].firstSeen
      PROVE  \E i \in DOMAIN p : /\ p[i].topic = topic /\ p[i].hash = g
                                 /\ p[i].firstSeen = d[g].firstSeen
  <2>1. PICK i \in DOMAIN o :
          o[i].topic = topic /\ o[i].hash = g /\ o[i].firstSeen = c[g].firstSeen
    BY <1>1 DEF ReachedInv
  <2>2. i \in DOMAIN p /\ p[i] = o[i]
    BY OldOrNew
  <2> QED BY <1>1, <2>1, <2>2
<1>2. CASE d[g] = c[g]
  BY <1>1, <1>2
<1>3. ASSUME NEW h \in HashesOf(topic), NEW e \in Entry,
             Visit(topic, quorum, c, d, o, p, now, h, e), d[g] # c[g]
      PROVE  \E i \in DOMAIN p : /\ p[i].topic = topic /\ p[i].hash = g
                                 /\ p[i].firstSeen = d[g].firstSeen
  <2>1. g = h /\ d[g] = e
    BY <1>3 DEF Visit, Cache
  <2>2. CASE e.visits = quorum
    <3>1. \E i \in New(o, p) : /\ p[i].topic = topic /\ p[i].hash = h
                               /\ p[i].firstSeen = e.firstSeen
      BY <1>3, <2>2 DEF Visit
    <3> QED BY <2>1, <3>1 DEF New
  <2>3. CASE e.visits # quorum
    <3>1. e.visits \in Nat /\ e.visits > quorum /\ e.visits # 1
      BY <1>0, <2>1, <2>3 DEF Entry, Tx!Entry
    <3>2. c[h] # NoEntry /\ e.firstSeen = c[h].firstSeen /\ e.visits = VisitsAfter(c[h].visits)
      BY <1>3, <3>1 DEF Visit
    <3>3. c[h].visits \in 0..(VisitMod - 1) /\ c[h].visits \in Nat
      BY <3>2, Values
    <3>4. e.visits = c[h].visits + 1
      BY <1>0, <3>1, <3>2, <3>3, VisitsWrap
    <3>5. c[h].visits >= quorum
      BY <1>0, <3>1, <3>3, <3>4
    <3> QED BY <1>1, <2>1, <3>2, <3>5
  <2> QED BY <2>2, <2>3
<1> QED BY <1>2, <1>3 DEF CacheStep, Left, Aging

\* Visits is a byte: what follows holds until an entry has been counted so often
\* that it wraps (hashcache.go:80).
NeverWraps == NoWrap("tx", txcache) /\ NoWrap("sn", sncache) /\ NoWrap("lmhs", lmhsCache)

OnceInv ==
  /\ ReleaseInv("tx", TxQuorum, txcache, out, clock) /\ Apart("tx", out)
  /\ ReleaseInv("sn", SnQuorum, sncache, out, clock) /\ Apart("sn", out)
  /\ ReleaseInv("lmhs", LmhsQuorum, lmhsCache, out, clock) /\ Apart("lmhs", out)
  /\ ReachedInv("tx", TxQuorum, txcache, out)
  /\ ReachedInv("sn", SnQuorum, sncache, out)

\* A step of the filter is a step of each of its three caches.
LEMMA Steps ==
  ASSUME TypeOK, [Next]_vars
  PROVE  /\ Step("tx", TxQuorum, txcache, txcache', out, out', clock, clock')
         /\ Step("sn", SnQuorum, sncache, sncache', out, out', clock, clock')
         /\ Step("lmhs", LmhsQuorum, lmhsCache, lmhsCache', out, out', clock, clock')
  BY StepEffect, QuorumAssumption DEF Step, CacheSteps, TypeOK, CacheTypeOK

\* A step after which no count has wrapped keeps the release invariant.
LEMMA OnceStep == TypeOK /\ OnceInv /\ [Next]_vars /\ NeverWraps' => OnceInv'
<1> SUFFICES ASSUME TypeOK, OnceInv, [Next]_vars, NeverWraps' PROVE OnceInv'
  OBVIOUS
<1>1. NoWrap("tx", txcache') /\ NoWrap("sn", sncache') /\ NoWrap("lmhs", lmhsCache')
  BY DEF NeverWraps, NoWrap
<1>2. ReleaseInv("tx", TxQuorum, txcache', out', clock') /\ Apart("tx", out')
  BY <1>1, Steps, ApartStep, ReleaseStep DEF OnceInv
<1>3. ReleaseInv("sn", SnQuorum, sncache', out', clock') /\ Apart("sn", out')
  BY <1>1, Steps, ApartStep, ReleaseStep DEF OnceInv
<1>4. ReleaseInv("lmhs", LmhsQuorum, lmhsCache', out', clock') /\ Apart("lmhs", out')
  BY <1>1, Steps, ApartStep, ReleaseStep DEF OnceInv
<1>5. /\ ReachedInv("tx", TxQuorum, txcache', out')
      /\ ReachedInv("sn", SnQuorum, sncache', out')
  BY Steps, ReachedStep DEF OnceInv
<1> QED BY <1>2, <1>3, <1>4, <1>5 DEF OnceInv, ReleaseInv, Apart, ReachedInv

\* The release invariant holds of empty caches and an empty output.
LEMMA OnceInit == Init => OnceInv
  BY DEF Init, OnceInv, ReleaseInv, Apart, ReachedInv

\* The release invariant holds of every behaviour in which no count wraps.
LEMMA OnceUnlessWrapped == Spec /\ []NeverWraps => []OnceInv
<1>1. TypeInv => TypeOK
  BY DEF TypeInv
<1> QED BY <1>1, OnceInit, OnceStep, TypeCorrect, PTL DEF Spec

\* An entry that has reached its quorum has one message at the output, any other none.
LEMMA OneMessage ==
  ASSUME NEW topic, NEW quorum, NEW c \in Cache(topic), out \in Seq(OutMessage),
         ReleaseInv(topic, quorum, c, out, clock), Apart(topic, out),
         ReachedInv(topic, quorum, c, out)
  PROVE  ExactlyOnce(topic, c, quorum)
<1> SUFFICES ASSUME NEW h \in HashesOf(topic), c[h] # NoEntry
             PROVE  Cardinality({i \in Outputs(topic, h) : out[i].firstSeen = c[h].firstSeen})
                      = IF c[h].visits >= quorum THEN 1 ELSE 0
  BY DEF ExactlyOnce
<1> DEFINE M == {i \in Outputs(topic, h) : out[i].firstSeen = c[h].firstSeen}
<1>0. /\ Retention \in Nat /\ Retention > 0 /\ c[h].firstSeen \in Nat
      /\ DOMAIN out = 1..Len(out) /\ Len(out) \in Nat
  BY Values, CacheAssumption, LenProperties
<1>1. \A i \in M : c[h].visits >= quorum
  <2> SUFFICES ASSUME NEW i \in M PROVE c[h].visits >= quorum
    OBVIOUS
  <2>1. /\ i \in DOMAIN out /\ out[i].topic = topic /\ out[i].hash = h
        /\ out[i].firstSeen = c[h].firstSeen
    BY DEF Outputs
  <2>2. ~(out[i].firstSeen + Retention <= c[h].firstSeen)
    BY <1>0, <2>1
  <2> QED BY <2>1, <2>2 DEF ReleaseInv
<1>2. \A i, j \in M : i = j
  <2> SUFFICES ASSUME NEW i \in M, NEW j \in M, i < j PROVE FALSE
    BY <1>0 DEF Outputs
  <2>1. out[j].firstSeen >= out[i].firstSeen + Retention
    BY DEF Apart, Outputs
  <2> QED BY <1>0, <2>1
<1>3. c[h].visits >= quorum => \E i \in M : TRUE
  BY DEF ReachedInv, Outputs
<1> HIDE DEF M
<1>4. CASE c[h].visits >= quorum
  <2>1. PICK i \in M : M = {i}
    BY <1>2, <1>3, <1>4
  <2>2. Cardinality(M) = 1
    BY <2>1, FS_Singleton
  <2> QED BY <1>4, <2>2 DEF M
<1>5. CASE ~(c[h].visits >= quorum)
  <2>1. Cardinality(M) = 0
    BY <1>1, <1>5, FS_EmptySet
  <2> QED BY <1>5, <2>1 DEF M
<1> QED BY <1>4, <1>5

\* The release invariant gives the two properties of the output.
LEMMA OnceInvImplies == TypeOK /\ OnceInv => EachExactlyOnce /\ ReleasesApart
<1> SUFFICES ASSUME TypeOK, OnceInv PROVE EachExactlyOnce /\ ReleasesApart
  OBVIOUS
<1>1. EachExactlyOnce
  BY OneMessage DEF TypeOK, CacheTypeOK, OnceInv, EachExactlyOnce
<1>2. ReleasesApart
  BY DEF OnceInv, Apart, ReleasesApart
<1> QED BY <1>1, <1>2

\* Unless an entry wraps, a message leaves the filter once when it reaches its quorum,
THEOREM EachExactlyOnceUnlessWrapped == Spec /\ []NeverWraps => []EachExactlyOnce
<1>1. TypeInv => TypeOK
  BY DEF TypeInv
<1> QED BY <1>1, OnceUnlessWrapped, OnceInvImplies, TypeCorrect, PTL

\* and the same hash again only after Retention.
THEOREM ReleasesApartUnlessWrapped == Spec /\ []NeverWraps => []ReleasesApart
<1>1. TypeInv => TypeOK
  BY DEF TypeInv
<1> QED BY <1>1, OnceUnlessWrapped, OnceInvImplies, TypeCorrect, PTL

-----------------------------------------------------------------------------
\* How often an entry is counted.

\* An entry is visited by messages that were filtered, n of them at most.
VisitsWithin(topic, c, n) ==
  \A h \in HashesOf(topic) : c[h] # NoEntry => c[h].visits \in 1..n

filtered == received - Len(toFilterChan)

CountInv ==
  /\ filtered \in Nat
  /\ VisitsWithin("tx", txcache, filtered)
  /\ VisitsWithin("sn", sncache, filtered)
  /\ VisitsWithin("lmhs", lmhsCache, filtered)

\* A step adds a visit only when it filters a message.
LEMMA CountStep ==
  ASSUME NEW topic, NEW quorum, NEW c, NEW d, NEW o, NEW p, NEW now, NEW then,
         Step(topic, quorum, c, d, o, p, now, then),
         NEW n \in Nat, NEW m \in Nat, n <= m, m < VisitMod,
         then # now \/ d = c \/ m = n + 1,
         VisitsWithin(topic, c, n)
  PROVE  VisitsWithin(topic, d, m)
<1> USE DEF Step
<1> SUFFICES ASSUME NEW g \in HashesOf(topic), d[g] # NoEntry
             PROVE  d[g].visits \in 1..m
  BY DEF VisitsWithin
<1>1. CASE d[g] = c[g]
  BY <1>1 DEF VisitsWithin
<1>2. CASE d[g] # c[g]
  <2>1. PICK h \in HashesOf(topic), e \in Entry :
          then = now /\ Visit(topic, quorum, c, d, o, p, now, h, e)
    BY <1>2 DEF CacheStep, Left, Aging
  <2>2. g = h /\ d[g] = e /\ m = n + 1
    BY <1>2, <2>1 DEF Visit, Cache
  <2>3. CASE c[h] = NoEntry
    BY <2>1, <2>2, <2>3 DEF Visit
  <2>4. CASE c[h] # NoEntry
    <3>1. c[h].visits \in 1..n /\ c[h].visits \in 0..(VisitMod - 1)
      BY <2>4, Values DEF VisitsWithin
    <3>2. VisitsAfter(c[h].visits) = c[h].visits + 1
      <4>1. c[h].visits + 1 < VisitMod
        BY <2>2, <3>1, CacheAssumption
      <4> QED BY <3>1, <4>1, VisitsWrap
    <3>3. e.visits = c[h].visits + 1
      BY <2>1, <2>4, <3>2 DEF Visit
    <3> QED BY <2>2, <3>1, <3>3
  <2> QED BY <2>3, <2>4
<1> QED BY <1>1, <1>2

\* Receiving and filtering messages.
LEMMA FilteredStep ==
  ASSUME TypeOK, CountInv, [Next]_vars
  PROVE  /\ filtered' \in Nat /\ filtered <= filtered' /\ filtered' <= MaxFeed
         /\ \/ clock' # clock
            \/ UNCHANGED <<txcache, sncache, lmhsCache>>
            \/ filtered' = filtered + 1
<1>0. /\ received \in 0..MaxFeed /\ received' \in 0..MaxFeed /\ MaxFeed \in Nat
      /\ toFilterChan \in Seq([routine : Reader, msg : Feed])
      /\ toFilterChan' \in Seq([routine : Reader, msg : Feed])
  BY ChanStep, CacheAssumption DEF TypeOK, ChanTypeOK
<1>1. /\ Len(toFilterChan) \in Nat /\ Len(toFilterChan') \in Nat
      /\ filtered \in Nat
  BY <1>0, LenProperties DEF CountInv
<1>2. ASSUME NEW r \in Reader, NEW m \in Feed, Receive(r, m)
      PROVE  filtered' = filtered /\ UNCHANGED <<txcache, sncache, lmhsCache>>
  <2>1. received' = received + 1 /\ UNCHANGED <<txcache, sncache, lmhsCache>>
    BY <1>2 DEF Receive, cacheVars
  <2>2. Len(toFilterChan') = Len(toFilterChan) + 1
    BY <1>0, <1>2 DEF Receive
  <2> QED BY <1>0, <1>1, <2>1, <2>2 DEF filtered
<1>3. CASE FilterMsg
  <2>1. received' = received /\ Len(toFilterChan') = Len(toFilterChan) - 1
    BY <1>3, Filtered
  <2>2. filtered' = filtered + 1
    BY <1>0, <1>1, <2>1 DEF filtered
  <2> QED BY <1>0, <1>1, <2>2 DEF filtered
<1>4. CASE Tick
  <2>1. clock' # clock /\ filtered' = filtered
    BY <1>4 DEF Tick, chanVars, filtered, TypeOK
  <2> QED BY <1>0, <1>1, <2>1 DEF filtered
<1>5. CASE UNCHANGED <<received, toFilterChan, cacheVars>>
  BY <1>0, <1>1, <1>5 DEF filtered, cacheVars
<1>6. [Next]_vars => \/ \E r \in Reader, m \in Feed : Receive(r, m)
                     \/ FilterMsg \/ Tick
                     \/ UNCHANGED <<received, toFilterChan, cacheVars>>
  BY DEF Next, vars, chanVars, SetOutputClosed
<1>7. ASSUME NEW r \in Reader, NEW m \in Feed, Receive(r, m)
      PROVE  filtered' <= MaxFeed
  BY <1>0, <1>1, <1>2, <1>7 DEF filtered
<1> QED BY <1>1, <1>2, <1>3, <1>4, <1>5, <1>6, <1>7

\* With fewer messages than a byte counts, every step keeps the count of visits
\* within the messages filtered.
LEMMA CountInvStep ==
  ASSUME MaxFeed < VisitMod
  PROVE  TypeOK /\ CountInv /\ [Next]_vars => CountInv'
<1> SUFFICES ASSUME TypeOK, CountInv, [Next]_vars PROVE CountInv'
  OBVIOUS
<1>1. filtered \in Nat /\ filtered' \in Nat /\ filtered <= filtered' /\ filtered' < VisitMod
  BY FilteredStep, CacheAssumption DEF CountInv
<1>2. VisitsWithin("tx", txcache', filtered')
  BY <1>1, Steps, FilteredStep, CountStep DEF CountInv
<1>3. VisitsWithin("sn", sncache', filtered')
  BY <1>1, Steps, FilteredStep, CountStep DEF CountInv
<1>4. VisitsWithin("lmhs", lmhsCache', filtered')
  BY <1>1, Steps, FilteredStep, CountStep DEF CountInv
<1> QED BY <1>1, <1>2, <1>3, <1>4 DEF CountInv, VisitsWithin

\* No entry wraps while fewer messages are received than a byte can count.
THEOREM NeverWrapsInTime == ASSUME MaxFeed < VisitMod PROVE Spec => []NeverWraps
<1>1. Init => CountInv
  <2> SUFFICES ASSUME Init PROVE CountInv
    OBVIOUS
  <2>1. filtered = 0
    <3>1. received = 0 /\ Len(toFilterChan) = 0
      BY DEF Init
    <3> QED BY <3>1 DEF filtered
  <2> QED BY <2>1 DEF Init, CountInv, VisitsWithin
<1>2. TypeInv => TypeOK
  BY DEF TypeInv
<1>3. CountInv => NeverWraps
  BY DEF CountInv, VisitsWithin, NeverWraps, NoWrap
<1> QED BY <1>1, <1>2, <1>3, CountInvStep, TypeCorrect, PTL DEF Spec

\* So that then a message leaves the filter once when it reaches its quorum,
THEOREM EachExactlyOnceInTime == ASSUME MaxFeed < VisitMod PROVE Spec => []EachExactlyOnce
  BY NeverWrapsInTime, EachExactlyOnceUnlessWrapped, PTL

\* and the same hash again only after Retention.
THEOREM ReleasesApartInTime == ASSUME MaxFeed < VisitMod PROVE Spec => []ReleasesApart
  BY NeverWrapsInTime, ReleasesApartUnlessWrapped, PTL
=============================================================================
