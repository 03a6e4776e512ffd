# Tanglebeat in TLA+

Tanglebeat collects the message streams of many IOTA nodes, filters them down to
one trusted stream, and measures the network with it; its companion `tbsender`
sends transfer bundles and confirms them by promoting and reattaching. This
directory models the parts of both programs whose correctness depends on the
order of events, checks them with TLC on small instances, and proves what can be
proved for every instance with TLAPS.

## The system

| Component | State | Operations | Talks to |
|---|---|---|---|
| Expiring buffer (`lib/ebuffer/expiringbuffer.go`) | a list of segments, newest first, with time stamps; one purge goroutine | `NewEntry`, `ForEachSegment__`, `purge` | embedded by every cache below |
| Event buffers (`lib/ebuffer/eventtsbuf.go`, `eventtsbufint.go`) | the time stamps of events per segment | `RecordTS`, `RecordInt`, `CountAll`, `ForEachEntry` | input routines, echo: rates of messages |
| Hash cache (`tanglebeat/hashcache`) | a map of entries per segment | `SeenHashBy`, `Find`, `FindNoTouch`, `FindWithDelete`, `Stats`, `ForEachEntry` | message filter, echo, value bundles, sender part |
| Input routines, reader set (`inputpart/inroutines.go`, `inreaders`) | per source: running, reading, restart time, counters, valve | `Run`, `runStarter`, `setIdle__`, `getStats` | feed the message filter through a channel of 100 |
| Message filter (`inputpart/msgfilter.go`, `sncache.go`) | `txcache`, `sncache`, `lmhsCache`, milestone index and its candidate, last milestone | `filterTXMsg`, `filterSNMsg`, `filterLMIMsg`, `filterLMHSMsg` | output publisher, metrics, value bundles, echo |
| Output valve (`inputpart/outvalve.go`) | a flag per routine | `outputValveLoop` | the filter reads the flag |
| Value bundles (`inputpart/valuebundle.go`) | entries of each value bundle, confirmed, counted, posted value | `updateBundleData`, `markConfirmed`, `updateBundleMetricsLoop` | called by the filter's output |
| Echo (`inputpart/echo.go`) | when a promotion was sent and seen | `TxSentForEcho`, `checkForEcho` | sender part, filter |
| Sender part (`tanglebeat/senderpart`) | updates already published, state and statistics of sequences | `processUpdate` | reads the feeds of senders |
| Confirmer (`lib/confirmer/confirmer.go`) | one task: running flag, update channel, three routines | `StartConfirmerTask`, its cancel function, `postConfirmerUpdate` | sequence, monitor |
| Confirmation monitor (`lib/confirmer/confmon.go`, `stopwatch.go`) | callbacks of each bundle, pollers, stopwatches | `OnConfirmation`, `CancelConfirmationPolling`, `checkBundle`, `nanozmqLoop` | calls the confirmer back |
| Sequence (`tbsender/sequence.go`) | `finishedOk` of the task it follows | `Run` | bundle source, confirmer, publisher |
| Bundle source and generator (`tbsender/bundle_source`, `transfer_bundle_gen.go`) | the bundle in progress, the address index on disk | `PutAndWaitForResult`, `processConfirmation`, `runGenerator` | sequence |
| Multi API (`lib/multiapi`) | one goroutine for each endpoint of a call, a channel of answers | `__multiCall__` and the functions of the API | generator, confirmer, monitor |
| API error counter (`tbsender/apierrorcount.go`) | times of errors | `CheckError`, `cleanOldErrors`, `checkErrorCounter` | every caller of the multi API |
| Publisher (`lib/nanomsg/publisher.go`) | a channel without buffer, a socket | `PublishData`, its loop | filter's output, sender part, `tbsender` |

What is hard here, and what makes each part correct:

- **Time-driven purging under concurrent insertion.** One purge goroutine per
  non-empty buffer; nothing dropped before its time; both walks stop at the first
  expired segment; the wall clock may be set back, and its arithmetic is unsigned.
- **Counting in windows.** The rates shown come from whole segments counted without a
  look at their events; they must be those of the window all the same.
- **A routine that ends while its messages wait.** They are counted after its counters and
  buffers are gone, or for its next run.
- **Many answers, one result.** An error that comes first must not become the result, a silent
  endpoint must not hold the caller, nor the answers of slow ones their goroutines.
- **Counting to a quorum.** A message leaves the filter exactly once, at one
  sighting, while sources repeat, valves close and caches forget.
- **Agreement on the milestone.** No source alone moves the index; nothing old
  leaves after something newer.
- **Starting and stopping tasks.** Routines, posters and monitor callbacks of one
  task overlap the end of the task and the start of the next; the channel is closed
  by its reader; locks are held over sends.
- **Confirmation reported twice, late or never**, by pollers and a feed.
- **A restart between sending, confirmation and saving**, with nodes whose answers lag: the
  iotas must be found again, and not spent twice.
- **A value computed from part of a bundle** and cached, while the rest arrives in any
  order: the cached value must be withdrawn; the counters, added to after the lock is released, may
  lag by one turn of the loop and must not repeat.

`PROJECT.json` lists these hazards at the lines where they bite.

## Modules

| Module | Models | Checked by | Proofs |
|---|---|---|---|
| `ExpiringBuffer` | `expiringbuffer.go` | through `HashCache` | `Buffers_proofs` |
| `EventBuffer` | `eventtsbuf.go`, `eventtsbufint.go`, extends `ExpiringBuffer` | `MCEventBuffer.cfg` | `Buffers_proofs` |
| `RetentionCache` | what a hash cache promises (abstract) | through `HashCache` | |
| `HashCache` | `hashcache.go`, extends `ExpiringBuffer` | `MCHashCache.cfg` | `Buffers_proofs` |
| `MsgFilter` | `msgfilter.go`, `sncache.go`, `processout.go`, `outvalve.go`; uses `RetentionCache` three times | `MCMsgFilter.cfg` | `MsgFilter_proofs` |
| `InputRoutines` | `inroutines.go`, `inputsocket.go`, `inreaders`, the counters of `msgfilter.go`, start-up | `MCInputRoutines.cfg` | `InputRoutines_proofs` |
| `ConfirmerTask` | what the confirmer promises the sequence (abstract) | through `Confirmer` | `Confirmer_proofs` |
| `Confirmer` | `lib/confirmer`, the loop of `sequence.go` | `MCConfirmer*.cfg` | `Confirmer_proofs` |
| `ValueBundle` | `valuebundle.go` | `MCValueBundle.cfg` | `ValueBundle_proofs` |
| `TransferSequence` | `transfer_bundle_gen.go`, `bundle_gen.go`, what `sequence.go` does with a task | `MCTransferSequence.cfg` | `TransferSequence_proofs` |
| `ApiCalls` | `lib/multiapi`, `apierrorcount.go` | `MCApiCalls.cfg` | `ApiCalls_proofs` |
| `SenderFeed` | `inreaders`, `update_collector.go` with the state and metrics it updates, `lib/nanomsg/publisher.go` | `MCSenderFeed.cfg` | `SenderFeed_proofs` |

The composition is by refinement: `HashCache` is `ExpiringBuffer` with a map per
segment and is shown to implement `RetentionCache`; `MsgFilter` is written over
`RetentionCache`, so that its runs need not carry segments. `Confirmer` is shown to implement
`ConfirmerTask`. `EventBuffer` extends the same
buffer. `InputRoutines` and `MsgFilter` are two sides of one channel: the former follows the
routines and their counters, the latter what leaves the filter.

In every module an action stands for one critical section of the lock that
protects its state, with everything done inside it, unless the section calls a node: then its
begin and its end are two actions. A definition whose name begins
with `Mut_` is the following definition with a plausible mistake; no specification
uses it, and every property of a passing run is known to fail with one of them.

### ExpiringBuffer

`clock` is `UnixMsNow()`, `segs` the linked list from `buf.top`, `loops` the number
of purge goroutines. `NewEntry`, `Purge` (one call of `purge` and, when it returns
false, the end of `purgeLoop`) are the operations; `Tick` and `StepBack` move the
clock. Differences of times are taken modulo `Wrap` as unsigned integers are. The
sleep of five seconds between two passes is abstracted to "at some time", which
covers every sleep. What a segment contains is left to the modules that extend this one.

### EventBuffer

`eventTs[i]` holds the events of `segs[i]`. `RecordTS` is the only operation besides those of the
buffer; the walks are operators: `CountAll`, with the shortcut for a segment made within the
window, `EarliestCounted`, the time returned with the count, and `ForEachEntry` over a
window. An event is its time and a name; the int of `RecordInt` is left out, since only the
callback of a walk looks at it. `recorded` and `stepped` are history variables.

### HashCache and RetentionCache

`themaps[i]` is the map of `segs[i]`. A hash is what `ShortHash` makes of it: two
messages whose first twelve trytes agree are one hash to the program and here. A
visit replaces the entry in the segment where it lies; it does not touch the segment,
loses `FirstVisitId` and wraps `Visits`, as `findIntern` does. `RetentionCache` keeps
one entry per hash and lets it go at any time from `Retention` after it was first seen,
and at the latest before `Retention + SegDuration`.

### MsgFilter

Messages are drawn from `Feed`; a routine puts one into `toFilterChan` and blocks
when it is full; `FilterMsg` is one turn of `msgFilterLoop`. The filter goroutine alone
touches caches and indexes, so that a turn is one step; it reads the valve once per
message. `out` is what was handed to the publisher, `witnesses` a history variable. Left out:
counters for display, echo, what `toOutput` does next, and
malformed messages. These are dropped before anything is counted, with one exception: an `lmi`
message without a second field is indexed without a look at its length (msgfilter.go:173) and ends
the program.

### InputRoutines

`pc[r][k]` is where the goroutine of the `k`-th run of routine `r` is: `init`, `dial` (opening its
socket), `read`, `send` (in `toFilter`), `uninit`, `setIdle`. Runs are told apart so that an
overlap of two would be seen. `FilterMsg` is the filter's goroutine, reduced to what it counts for
the routine of the message; `buffers` says whether the routine's event buffers exist, and
`crashed` that a nil one was used. The program starts the set's starter before the set is
filled and makes the echo buffer last, so that `CreateInputRoutine` and
`StartEchoLatencyRoutine` interleave with everything else. `FilterMsg` takes and counts in one
step, so that a place in the channel is free one message early. `read` and `leftOver` are history
variables.

### ApiCalls

`asker[c][e]` is the goroutine that asks endpoint `e` for call `c`, `collects` the one that reads
their answers, `closed` the work of the one that waits for all of them. The channel has no buffer:
an answer is sent and collected in one step (`Collect`). A call of one endpoint, or one of which only
the first is asked, has no goroutines (`CallFirst`, `FirstAnswers`). `errorTs` is the error
counter's list; `failures` is the same without cleaning, a history variable. The names of
the functions, their arguments and results are left out: they end in one of the two calls, and
the client's timeout makes an error of silence, or never answers.

### Confirmer

`seqpc` is where `TransferSequence.Run` is; `StartConfirmerTask`, `ReadUpdate`,
`StopConfirmerTask`, `TaskEnded` (the return of `wgTaskEnd.Wait`),
`CancelConfirmationPolling` and `PutConfirmationResult` are its steps. Each routine of
each task has its place in `routine`, and each poster is counted, per kind of update,
in `waiting` (it has not got `runningMutex.RLock`, or has not run yet) and then in
`sending`. `RLock` is refused while the sequence waits for the lock, as Go's
`RWMutex` does. Update types are merged into confirmations and others, since the
sequence distinguishes no more; errors are among the others. `Bundle` and
`bundleHash` choose the bundle of each task: a task that failed may be followed by
one for the same bundle, a task that succeeded may not. Of the generator nothing else
is here: `TransferSequence` models it. The refusal "Confirmer task is already running" has no disjunct, because
`TaskStoppedWhenIdle` shows that it cannot be met. `NothingToDo` skips a reattachment
that is due only when the bound `MaxPosts` is used up.

A promotion and a reattachment hold `conf.mutex` while they call nodes. Each is two steps
(`PromoteBegins`, `PromoteEnds`, `ReattachBegins`, `ReattachEnds`), and `MutexFree` keeps the other
routines out meanwhile. `StartConfirmerTask` does not take that mutex, so that it may come in
between: `trytes` (`lastBundleTrytes`) and `tail` (`nextTailHashToPromote`) are known by the bundle
they belong to, `inHand` is what is being attached, and the end of the call may write what was in
hand over what the start has set. `ReattachRefused` is the assertion of confirmerlib.go:97-103, met
after that. `overlapped` notes that a task began in this way; `OwnTails` says that otherwise a task
works on its own bundle only. Whether a promotion is stored (`PromoteChain`) is left open. An `Add`
of `wgTaskEnd` that meets the return of `Wait` may panic (confirmer.go:218 and 272); this is left out.

`ConfirmerTask` is what is left of this for the sequence: no locks, no channel, no posters, no
routines; a task that runs, was given up or confirmed, or is over, the tasks whose confirmation the monitor has
seen (`reported`), and a number of reports on their way (`pending`). A confirmation is reported once and
before its task is over; a report is lost only when the sequence waits for none; a success takes
one. To which task a report comes is not promised, since a late one comes to the next
(`confirmer_success`). In `Confirmer`, `Phase`, `Reported` and `Pending` say where each of
these is found: a report waits for the lock, is being sent, or lies in the channel.

### ValueBundle

`bundles` maps the hash of each cached bundle to its `transferBundleData`; `volume` and
`transfers` are the two Prometheus counters. `UpdateBundleData` and the two halves of
`markConfirmed` (`FindConfirmed`, `MarkConfirmed`: the mutex is released between them) belong
to the filter's goroutine and exclude each other; `UpdateBundleMetrics` is the walk of one turn of the
loop, whose `ForEachEntry` holds the mutex throughout, and `AddToCounters` what the turn does after
that without it; between them `toAdd` holds what it will add. A turn that posts nothing changes
nothing and is not a step. `Content` gives the transactions of each bundle, `Stray` those that
contradict them (an inconsistent entry, or one of a shorter bundle of the same hash); both
arrive in any order and as often as they like, as reattachments do. The cache may forget any
bundle at any time: a module over `RetentionCache` would allow less, and nothing here needs
more. `forgotten` is a history variable. Indexes count from 1. The errors of reading an index are
ignored (valuebundle.go:239-240): such an entry counts as the first of its bundle and is among the
strays. A negative index passes the test of valuebundle.go:52 and ends the program at line 76 or 92;
this is left out.

### TransferSequence

`pc` is where `runGenerator` is: asking for the balance (`check`), looking for a bundle to go on
with (`find`), sending one (`send`), handing it over (`put`), waiting for the result (`wait`).
`saved` is the file of the last index. It is opened without truncation, so a number written over
a longer one keeps the end of the longer one (`Overwritten`, with the width of the decimal
numeral); the error of a write is ignored, so the file may also stay as it is. The nodes and the
tangle are external: `purse`, `sent` and `confirmed` say what is true, and an answer that differs
from it is counted in `lapses`. A node may lag, so it may deny a balance, a bundle or a
confirmation that is there, or report a balance that has moved on; it does not invent one. Whether
an address was spent from is answered by the tangle until `VersionChange`: then the nodes have forgotten
what was spent before and deny it from there on (`denied`), which the comment at
transfer_bundle_gen.go:171-173 tells of.
Errors that only make the program ask again change nothing and are not steps.

The confirmer is reduced to what the generator can notice: the task, whether the monitor has
its bundle, a confirmation in its channel, and the callbacks that have not posted yet. Such a
callback posts to whichever task runs when it gets to it, as `Confirmer` shows
(`confirmer_success`). The deadlock of `confirmer_stop` is left out here. `Crash` keeps the file
and the tangle and loses everything else; between any two steps it may happen.

### SenderFeed

`pc` is where the goroutine of each source is: not running (`idle`), opening its socket (`dial`),
waiting for an update (`read`), and then at the stages of `processUpdate`: `count`, `state`,
`publish`. The stages are steps of their own, since the sources run concurrently and share the
statistics and the state shown. `RunStarter` starts any routine that is idle, at any time: the
delays of the reader set (ten seconds, ten minutes) are abstracted to that. The nodes are external:
the updates of one sequence are numbered as it publishes them, and each source gets them in
order or misses them, as a PUB socket has it. `publishedUpdates` holds time stamps, because the
cache's key is the sequence and the time stamp; nothing is forgotten, since the cache keeps a key
for an hour. `chIn` is the update the publisher's loop is sending; its channel has no buffer, so
that `PublishData` needs a loop that waits, and after five seconds `PublishTimeout` ends the
routine. `Cleanup` is the removal of a sequence not heard of for 20 minutes. `lost` is a history
variable. Promotions noted for the echo are left out.

## Runs

| Run | Question | Result |
|---|---|---|
| `cache` | clock advancing: one purge goroutine, one copy of a hash, drained in the end, and the retention promise implemented? | holds |
| `event_buffer` | is what is counted exactly the window, also with a clock set back, and does the interval cover the count? | holds |
| `filter` | do messages of all topics leave once per entry, at their quorum and in order; is the index agreed by two; are stale confirmations dropped? | holds |
| `input_routines` | one goroutine for a routine, exact counters, nothing nil but at start-up, every routine started again? | holds, with the start-up as named |
| `api_calls` | the first good answer, failure only of all, no goroutine left, the program ended by more errors than a threshold and, but for the threshold zero, by no fewer? | holds |
| `confirmer` | no send on a closed channel, no task left running, none of its routines working on but once, its own tails in use unless a call overlapped its start, each callback called at most once and only for the running task; is the promise `ConfirmerTask` implemented? | holds |
| `confirmer_live` | do routines end, are confirmations read? | holds |
| `value_bundles` | is a posted value that of the entries known, a bundle counted once, the volume behind by no more than the turn under way will add, a complete confirmed bundle posted at its value? | holds |
| `travelling` | is the transfer resumed where the iotas are, does the generator wait for them, who may make it spend an address twice, does it go on? | holds |
| `sender_feed` | is every update seen in one place, each confirmation counted once, does each update leave or fail? | holds |
| `confirmer_stop` | does stopping never deadlock (comment)? | no: the lock is held over a blocked send |
| `confirmer_success` | does success mean confirmed (comment)? | no: a late confirmation hits the next task |

The last two runs are disagreements between the code and its own documentation;
`PROJECT.json` quotes both sides.

### Other disagreements seen while modelling

These are modelled as the code has them, and no run is spent on them:

- One source that repeats a message makes the quorum alone: `filterTXMsg` counts
  sightings (msgfilter.go:108), the repository's README speaks of different sources
  (README.md:42, README.md:191), a TODO admits it (hashcache.go:170).
- `Visits` is a byte (hashcache.go:80): at the 256th sighting and the following ones it
  starts again, and the quorum releases the message a second time. The configuration says that a
  message is passed when seen that many times (tanglebeat.yml:10-11). `EachExactlyOnce` is checked
  with fewer messages than that, and proved for as long as no entry wraps.
- A transaction that is filtered before `MustInitInputRoutines` has come to the echo buffer ends the
  program (inroutines.go:60 and 80, echo.go:57): the starter of the routines runs already.
  `CrashOnlyBeforeEcho` says that this is the only way.
- `ago1min` of `hashcache.go:208` is ten minutes ago, as in the function for ten minutes below it.
- `GetOutputStats` locks the mutex of another structure (zmqstats.go:72-75).
- `reading` is set when a routine's socket is open and never reset (inputreader.go:101), so that a
  routine that waits for its restart is shown as reading; `lmiCount` and `lastLmi` keep the counts of
  former runs, while `uninit` resets the others.
- The first sighting of a promotion is stored behind the place where it is read (echo.go:62-63,
  metricszmq.go:108): the latency of the first echo is always zero. The averages are never
  reset between turns (echo.go:89-119), so that each turn adds to the former.
- A valve loop closes and opens valves one by one: all may be closed in the middle of a pass.
- `IsBundleHashConfirmedMulti` of a bundle not seen yet counts as an error of the API, because a
  search without result is one (multicallfuns.go:82-84).
- One structure is used for three calls in a row (transfer_bundle_gen.go:349-374): when there is one
  endpoint for attaching, its errors and durations are put down to the endpoint that chose the tips.
- With the tail read without the lock (confirmer.go:282), an answer about a former tail is stored after
  a reattachment.
- `CountGT` of the ring array compares with `>=`; the hold of silent routines, the ring array
  and the event buffer with data are called by nothing.
- Transactions are released before any milestone is known: the comment at
  msgfilter.go:72 says they wait, the test is commented out (msgfilter.go:79-82).
- `StopStopwatch` writes the stop time into a copy of the map's entry (stopwatch.go:39-41),
  so that the "first stop" of stopwatch.go:10 has no effect. In `Confirmer` it changes nothing.
- A routine adds itself to `wgTaskEnd` only when it first runs (confirmer.go:272, 327,
  370), so a task may end before one of its routines has begun; the routine then works
  once during the next task, in spite of "no routine is running" (confirmer.go:167).
  `Confirmer` has these routines in state `new`, and `LeftoversEnd` says that once is all.
- For the same reason "no need to lock state because no routine is running" (confirmer.go:167) fails:
  such a routine may be promoting or reattaching when the next task starts. What it stores afterwards
  replaces the tails of the new task. If these are the trytes, the assertion of
  confirmerlib.go:100-102 refuses every reattachment of that task; and the tail that is checked and
  promoted is the former bundle's. `OwnTails` says that this takes a call during the start: a routine
  left over that works before or after it does no such harm.
- The volume counter is more than the value of the transfers when part of a bundle balances
  and is posted before the rest takes value away: a turn whose total is negative subtracts
  nothing (valuebundle.go:213). `VolumeCoversPosted` is the half that holds.
- The value posted is stored under the cache's mutex, the counters are added to after it is released
  (valuebundle.go:190-220): a page of statistics made in between shows more than the counters.
- A reminder sent back to an address the bundle spends from is subtracted although it was
  never added when that address loses by the bundle (valuebundle.go:161-171).
- "Produces new bundles only upon and immediately after confirmation of the previous transfer"
  (bundle_gen.go:17): when the second search for a bundle's tails finds none, its error is not
  looked at (transfer_bundle_gen.go:443) and a second bundle is sent while the first is pending.
  `DoubleSpendTakesLapse` is what holds instead.
- After a success that was another bundle's, or a balance that had moved on
  (transfer_bundle_gen.go:159), the generator waits at the next address, and nobody promotes the
  bundle that would bring the iotas there. A restart helps. `Travels` excepts this case by name.
- An address the iotas have left is passed only if a node says that it was spent from. When the nodes
  deny it, "sometimes stuck after iri ver change" (transfer_bundle_gen.go:171-173), the generator waits there for ever,
  and a restart at that address does not help. `Travels` excepts this case too (`StuckAtDenied`), and shows
  that there is no third.
- "error count in 1 min exceeded" (apierrorcount.go:98): with the threshold 0, which the configuration
  permits, any error still kept ends the program, however old, since the loop compares before it looks at
  the time. `ExitExact` is exact for the other thresholds.
- A confirmation found by asking for the balance (sequence.go:180-184) ends the task as a failure,
  and no `confirm` update is published for the bundle.
- "counter of confimed bundles with positive moved volume of iotas" (README.md:291): when the first
  half of a bundle that moves nothing balances, it is posted and counted (valuebundle.go:203);
  when the rest is known its value is taken back, its count is not.
- Two updates that a sequence makes in the same millisecond are one to the cache
  (update_collector.go:87); the second is never published, and if it is a confirmation it is not counted.
  In the model an update is its time stamp: no property sees the one that is dropped.
- A source may overtake another between the cache and the publisher (update_collector.go:91-96), so
  that updates leave out of order and the state shown of a sequence goes back.
- A source that ends after a failed publication leaves behind its socket and the goroutine
  that reads it, blocked at its next update (update_chan.go:42). The restart opens another.
- `TotalDurationGTTAMsec` is given the duration of attachToTangle (confirmer.go:241), though it is
  published as "total milliseconds spent on tipsel" (sender_update/types.go).
- With one endpoint `__multiCall__` leaves `retEndpoint` unset (multicall.go:57-60), so that errors
  are counted for no endpoint; a test expects it set (multiapi_test.go:54).
- A confirmation that comes before the first transaction of its bundle is dropped
  (valuebundle.go:105), and the bundle is never counted.

### Bounds

- `SegDuration`, `Retention`: a few ticks, chosen so that several segments live at
  once and are closed, expired and purged while others are added. The code's defaults
  have `SegDuration` well below `Retention`, and `SegDuration <= Retention` is assumed.
- `MaxClock`, `FeedEnd`: the time of a run. `FeedEnd` comes well before `MaxClock` where
  draining is checked.
- `MaxSegs`: not reached before `FeedEnd` when the clock only advances.
- `Wrap`: 64 instead of 2^64; only `Wrap >= MaxClock + Retention` matters.
- `VisitMod`: in the filter 8, larger than the messages received, so that wrapping (described
  above) does not hide the rest; 2 for the cache, where it must wrap.
- `EventBuffer`: `SegDuration` 3 and `Retention` 4, so that a segment lies partly in the window;
  four events, a clock that may be set back by 2, nine ticks: the list holds several segments, and
  the last is counted event by event.
- `InputRoutines`: two routines, two runs of each and two messages, with a channel of one: a reader
  blocks, a run ends with a message on its way and the next begins before it is counted.
- `ApiCalls`: one call of up to three endpoints, so that two goroutines are late; calls share nothing but
  the counter, whose other errors are `OtherError` (three). The conditions have windows 1 and 3 (one
  and ten minutes) and thresholds 1 and 2, a third one the threshold 0; `CleanAbove` 1 makes cleaning happen.
- `MaxFeed`, `ChanBufSize`: enough messages for two quorums of one hash, or one of each
  of two hashes; a channel short enough to be full.
- `Throttled`: one routine with a valve that moves, one or two without.
- `MaxTasks` 2 and `MaxPosts` 1 to 3: two tasks are what overlapping needs; three
  updates are one in the channel, one sending, one waiting. `MaxPosts` bounds the promotions and
  reattachments begun; those refused are bounded by the updates that wait to be read.
- `Content`: "pay" has an entry without value, a payment and a reminder; "two" balances when
  half known, so that it is posted, withdrawn and posted again.
  Together with `Strays` they meet every branch of `updateBundleData` and `sumBundle`.
- `Index0` 9, `MaxIndex` 12: the index in the file grows a digit, and three transfers follow each
  other. `MaxLapses` 3 allows an address to be spent twice and overtaken; with `MaxCrashes` 2 the
  program crashes again after it resumed.
- `MaxForgets`: 1, so that a bundle is collected anew after it was counted.
- `Source` of `SenderFeed`: three, one that waits while another sends and the third overtakes;
  `MaxUpdates` 4, two of them of the same millisecond.
- `Kind`: `confirmer` and `confirmer_live` have all three routines, the latter with one task; without
  "promote" is the configuration `PromoteDisable`.

`CHECK_DEADLOCK FALSE` stands where a run ends by its bounds, and for the confirmer, whose
sequence ends when there are no more tasks.

### Fairness

- `HashCache!CacheFairSpec`, without `CacheStepBack`: the clock runs and is not set back, and a purge goroutine that sleeps wakes.
- `Confirmer!FairSpec`: every goroutine that can run does (weak fairness of `Run`,
  `RoutineStep`, `CheckBundle`). Strong fairness where Go is fair between contenders:
  `RWMutex` admits a waiting reader after the writer and blocked senders on a channel are
  served in order. A routine that enters its `select` with `chCancel` closed, before its timer, takes
  that branch: `EnterSelect` has this as a step, so that no fairness is needed for it. A
  call of a node returns in the end, by the timeout of its client at the latest. Nothing is assumed of the tangle: a bundle need not be
  confirmed, and the nanozmq feed may be silent.
- `ValueBundle!FairSpec`: the loop that sleeps four seconds wakes. Nothing is assumed of the
  messages: `ConfirmedIsPosted` begins with a bundle that is complete and confirmed.
- `TransferSequence!FairSpec`: the goroutines run, and a bundle that has a task, and is thus promoted,
  is confirmed if it still can be. The latter is an assumption about the tangle, the one
  that `tbsender` itself is built on; without it no transfer ever ends. Answers fail or lag
  `MaxLapses` times only, so that they are true in the end, but for what the nodes deny after a
  change of their version, which they may deny for ever.
- `InputRoutines!FairSpec`: goroutines that can go on do, the starter wakes, and the senders blocked
  on the channel are served in order (strong fairness of `ToFilter`). Nothing makes a node send, or
  a socket open or fail.
- `ApiCalls!FairSpec`: the goroutines of a call go on. No endpoint need answer.
- `SenderFeed!FairSpec`: a routine that has an update goes on (the `select` of `PublishData` ends
  by its timer at the latest), and a PUB socket does not block the loop. Nothing makes a source
  start, or an update arrive.

## Proofs

Every safety invariant and every action property that a run checks is also stated by a theorem,
for all values of the constants that satisfy the named assumptions of the modules (durations and
thresholds are natural numbers, a quorum is at least one and below the wrap of `Visits`, "no
entry", "no bundle" and the like are not values). Two kinds of theorems have a hypothesis of their own:

- `MaxBack = 0`, the wall clock is not set back, where the property is false otherwise. The run
  `cache` has the same bound.
- `[]NeverWraps`, no counter of visits passes 255, for `EachExactlyOnce` and `ReleasesApart`, which
  are false once it does (see above). `NeverWrapsInTime` shows that the hypothesis holds whenever
  fewer messages than that are received, as in the run `filter`.

Each invariant that was strengthened was first checked by TLC in its strengthened form.

### `Buffers_proofs`: expiring buffer, hash cache, event buffers

- `TypeCorrect`, `OnePurgeLoopAlways`: inductive as they stand, for any clock.
- `TouchedWhileOpenAlways`: for any clock. The strengthening `StampInv` adds that the clock
  and the stamps stay below `MaxClock`, so that a difference that wraps is at least
  `Retention`, hence never open.
- `OrderAlways`, with `MaxBack = 0`: `OrderInv` is `TouchedWhileOpen`, plus segments in order
  of time (each closed before the next was made) and none of the future. It is needed
  because `ExpiredIsSuffix` says nothing about stamps and is not kept by `Tick` alone.
  `ExpiredIsSuffixAlways` and `PurgeDropsOnlyExpiredAlways` follow from it.
- `EmbedsBuffer`: the cache uses its buffer only through the buffer's operations, so every
  theorem above holds of it. `CacheTypeCorrect`.
- `OneCopyAlways`, with `MaxBack = 0`: needs `OrderInv`, since a segment that is not visited
  must never be visited again. With a clock set back it is false: an expired segment
  becomes visible again beside a newer copy.
- `FindsNothingStaleAlways`, for any clock, from `StampInv` and `MadeInSegment` (an entry is
  not older than its segment).
- `KeepsPromiseAlways`, with `MaxBack = 0`: the refinement of `RetentionCache`. Each step of
  the cache is matched by a step of the promise; the tick needs `EntriesOfSegment` (an entry
  was put between the creation and the last touch of its segment) to bound when a segment
  that expires may have been first seen.
- `EventTypeCorrect`; `CountExactAlways`, for any durations, number of events and setbacks of the
  clock: `EventInv` adds that the events of a segment lie between its creation and its last
  touch (`EventsOfSegment`) and, while the clock was not set back, that segments are ordered
  (`OrderInv`) and every event recorded is held or old (`HeldOrOld`). The order is what makes the
  walk's early end harmless. After a setback only the first half is claimed: nothing too old.
- `IntervalCoversCountAlways`: the time returned is a minimum lowered segment by segment; after the
  first `n` segments it lies in the window and is not after any event counted in them (`Covers`).

### `MsgFilter_proofs`: any routines, messages, quorums and caches

- `TypeCorrect`: `MilestoneInv` adds that the candidate was reported by the routine noted with it and
  the index by two routines. `MilestoneNeedsTwoAlways` is its last conjunct.
- `LmiIncreasingAlways`: `LmiInv` adds that a milestone at the output is older than the last one, or is
  the last one, counted to its quorum and so never equal to it again.
- `SnNotObsoleteAlways`: an action property; the test for the index comes after the cache, in the
  same turn.
- `EachExactlyOnceUnlessWrapped`, `ReleasesApartUnlessWrapped`: the three caches are treated alike.
  A step leaves a cache alone, lets it forget, or visits one hash (`CacheStep`); `OnceInv` adds
  that what left belongs to the entry that is there, which has reached its quorum, or was first seen
  `Retention` before it (`ReleaseInv`), and that an entry past its quorum has left (`ReachedInv`,
  except for milestone hashes, which may be too late). `MayForget` of `RetentionCache` gives the
  `Retention`: no entry is forgotten earlier.
- `NeverWrapsInTime`, `EachExactlyOnceInTime`, `ReleasesApartInTime`: `CountInv`, an entry has been
  visited by the messages filtered and no others.

### `Confirmer_proofs`: any bundles, routines, tasks and updates

`ConfirmerInv` is one inductive invariant, since its parts need each other: where the sequence is
determines whether the lock is held and the channel closed (`StopInv`); callbacks registered are
those of the running task, for its own bundle, and not called yet (`CallInv`); the routines of a
task that was stopped are cancelled (`CancelledInv`); what is left of an ended task is in a state
that works once at most, and a task to come has no routines (`LeftoverInv`); one routine at a time
calls a node, and what it has in hand is a bundle (`HoldInv`), that of the running task unless a call
overlapped its start (`TailInv`).

- `TypeCorrect`: the numbers of posters and pollers never go below zero, the channel never holds
  more than one update. `wgTaskEnd` counts a finite set of routines (`FiniteRoutines`), so that zero
  means that none is in its loop (`NoneActive`).
- `NeverSendsOnClosedAlways`: the writer gets the lock only when no poster holds it, and closes the
  channel under the lock.
- `TaskStoppedWhenIdleAlways`, `LeftoversEndAlways`: from `StopInv` and `LeftoverInv`.
- `OwnTailsAlways`: a conjunct of `TailInv`. What is in hand is needed beside the tails, since the end of a
  call stores it.
- `CallbackOnceAlways`, and the action property `CallbackOfRunningTaskAlways`: from `CallInv`. A callback
  leaves the monitor's map in the step that calls it, and cancelling takes it out before the
  task ends.
- `KeepsTaskPromiseAlways`: the refinement of `ConfirmerTask`, action by action. `ReadInv` adds that the
  channel is empty between tasks, so that making a new one loses nothing, and that a task that
  goes on has not been told of a confirmation, so that no report it could use is thrown away.
- `SuccessTakesReportAlways`: from the promise alone. `SuccessInv` counts with the successes the
  reports on their way and the one taken by the task that is ending. It is what remains of "success means
  confirmed", which the run `confirmer_success` refutes: a success may be owed to another bundle,
  but never to none.

### `ValueBundle_proofs`: any bundles, strays and number of forgotten bundles

- `TypeCorrect`: `TypeInv` adds that a bundle cached has at least one entry.
- `PostedIsCurrentAlways`: `CurrentInv` adds that a bundle's value was computed from the entries
  it has. `SumEntries` is kept opaque: the argument is about when the cached value is dropped,
  not about sums.
- `TransfersCountedOnceAlways`: `CountInv` adds that the cached bundles are a finite set.
- `VolumeCoversPostedAlways`: the walk of a turn sets aside the sum of the differences posted, or nothing
  when it is negative, while what is posted changes by that sum (`SumPlus`); the counter grows by what
  was set aside (`Gain`), so that between two turns it covers what is posted by itself; forgetting a bundle
  moves its value from one sum to the other (`SumTakeOut`).

### `TransferSequence_proofs`: any first and last index, any number of lapses and crashes

- `TypeCorrect`: `TypeInv` adds that the file is not ahead of the index; a number is
  not narrower than a smaller one. This is why the missing truncation does no harm.
- `RestartFindsIotasAlways`, `WaitsForIotasAlways`: `TravelInv` adds that bundles spend only
  addresses the iotas have reached, that the generator leaves `check` only at such an address,
  and that what is saved lies behind.
- `DoubleSpendTakesLapseAlways`: `SpendInv` adds that a generator about to send from an address that
  was spent has already been paid for by a lapse. What the nodes deny does not matter to these three:
  it only keeps the generator from moving on.

### `InputRoutines_proofs`: any routines, runs, messages and capacity of the channel

- `TypeCorrect`, `OneRunAlways`: `RunInv` says in which places a run's goroutine may be when the
  flags `running` and `initialized` are set.
- `CrashOnlyBeforeEchoAlways`: a routine's buffers exist exactly while it is initialised.
- `CountsExactAlways`: `WayInv` adds that a message is read by a run that has begun and is on its way
  in one place at most, `CountInv` that a message left over was read before its routine was
  initialised; each step of the filter then moves one message from the way into one counter.

### `ApiCalls_proofs`: any calls, endpoints, conditions and errors

- `FailsOnlyIfAllAlways`: `CallInv` adds which answers are there at each place of a goroutine, that the
  last answer collected is one of those asked, and that a channel closed means all were collected.
- `ExitExactAlways`, thresholds of zero included: `ErrInv` says that errors are in order of time, none of the future, and that the list
  kept is the list of all errors without a beginning (`Forgot`) in which every error is too old for
  any window. That the loop of `cleanOldErrors` drops a beginning and nothing else needs the order.

### `SenderFeed_proofs`: any finite set of sources, any updates and time stamps

- `TypeCorrect`: an update is in a source's hand exactly while it is processed.
- `ConservedAlways`: `PlaceInv` adds that an update with a source, with the publisher or lost has been
  seen and is in no other of these places, so that each step adds one to both sides or to none.
- `CountedOnceAlways`: `CountInv` adds that what has not been seen, or is still to be counted, has
  not been counted, and that a confirmation past that stage has been, once.

### Recursion and sums

The library's induction theorems take an operator as a parameter, which none of the provers can
instantiate. Three proofs are about loops over data all the same: `EarliestCounted`, a recursive
function over the segments; `Kept`, one over the errors; the sums of `ValueBundle`, folds
over finite sets. They argue by a least counterexample: a non-empty set of numbers has a least element
(`Least`, from the well-foundedness of the order), a non-empty set of finite subsets one of least
cardinality (`LeastSubset`). With it a function that obeys the recursive equation is shown to exist
and to be unique (`RecursionExists`, `SumsExist`, `SumsUnique`), so that the equation may
be used, and then a least index or set at which the claim fails is refuted.

### What is proved and what is only checked

Proved but checked by no run, since other properties of the runs rest on them: the type
invariants of most modules, `TouchedWhileOpen`, `ExpiredIsSuffix`, `PurgeDropsOnlyExpired`,
`FindsNothingStale`, `NeverWrapsInTime` and `SuccessTakesReport`.

Only model-checked: the liveness properties `Drains`, `Restarts`, `FirstAnswerReturned`, `NothingLeft`,
`RoutinesEnd`, `ConfirmationRead`, `ConfirmedIsPosted`, `Travels` and `Settles` (they need fairness and
`ENABLED`, which the prover does not handle). What `SumEntries` makes of particular entries, a recursion
over a sequence with early ends, is checked by TLC through the runs and otherwise opaque.

## Not modelled

`PROJECT.json` gives the status of each component. Left out for good:

- Echo: a lookup and an insertion in a hash cache, which `HashCache` models, and averages of what
  they noted. What is wrong with the averages is above; that the buffer may be used before it
  exists is in `InputRoutines`.
- Input metrics and statistics: gauges and snapshots that copy or average the state of modelled
  parts. The valve's decision depends on them; in `MsgFilter` it may fall either way at any time.
- Ring array, event buffer with data, hold of silent routines: nothing calls them.
- Web pages, logging, configuration and start-up wiring, the disabled milestone confirmation metrics.

## Plan

1. `ExpiringBuffer`, `RetentionCache`, `HashCache`: refinement and invariants proved. Done.
2. `EventBuffer`: counting over a window, both invariants proved. Done.
3. `MsgFilter` over `RetentionCache`, invariants and action property proved. Done.
4. `Confirmer` with monitor, stopwatches and sequence, invariants and action property proved. Done.
5. `ValueBundle`: collection, confirmation and posting, invariants proved. Done.
6. `TransferSequence`: generator, bundle source and the index on disk, invariants proved. Done.
7. `SenderFeed`: reader set, sender updates and publisher, invariants proved. Done.
8. `InputRoutines`: start-up, restarts and counters of the routines, invariants proved. Done.
9. `ApiCalls`: the multi API and the error counter, invariants proved. Done.
10. `ConfirmerTask`, which `Confirmer` implements, refinement proved. Done.
11. Open: an abstract specification of what the filter promises its subscribers, over the caches and
    the index together.
