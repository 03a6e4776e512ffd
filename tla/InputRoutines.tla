---------------------------- MODULE InputRoutines ----------------------------
(***************************************************************************)
(* The input routines of tanglebeat/inputpart/inroutines.go, started and   *)
(* started again by the set of tanglebeat/inreaders, and the counters the  *)
(* filter's goroutine keeps for each of them.                              *)
(*                                                                         *)
(* A routine initialises its counters and buffers, opens its socket, reads *)
(* until there is an error and discards counters and buffers; its messages *)
(* are still in the filter's channel then, and are counted when the filter *)
(* gets to them.  The program makes the routines one by one while the      *)
(* starter of the set already runs, and the echo buffer that the filter    *)
(* looks into after all of them.                                           *)
(*                                                                         *)
(* One action is one critical section of a routine's lock, of the set's or *)
(* of the channel.  The nodes are external.  What the filter does with a   *)
(* message besides counting it is in MsgFilter, and what the buffers of    *)
(* time stamps hold in EventBuffer.  Messages of the topics lmi and lmhs   *)
(* take the same way; their counters, which no end resets, are left out.   *)
(***************************************************************************)
EXTENDS Integers, Sequences, FiniteSets

CONSTANTS
  Routine,       \* the configured sources; their uris differ
  ChanBufSize,   \* filterChanBufSize
  MaxRuns,       \* how often a routine is started (a bound)
  MaxReads       \* the number of messages read (a bound)

ASSUME BoundAssumption ==
  /\ ChanBufSize \in Nat \ {0}
  /\ MaxRuns \in Nat \ {0}
  /\ MaxReads \in Nat

VARIABLES
  added,         \* the routines AddInputReader has put into the set
  echoReady,     \* echoBuffer # nil
  crashed,       \* the program has ended by a nil pointer
  running, initialized,   \* flags of each routine
  txCount, ctxCount, obsoleteSnCount,
  buffers,       \* tsLastTXSomeMin, tsLastSNSomeMin # nil
  pc,            \* pc[r][k]: where the goroutine of the k-th run of r is
  blocked,       \* the messages whose readers are in toFilter
  toFilterChan,  \* the channel
  read,          \* every message read (history)
  leftOver       \* leftOver[r]: what was on its way when r was initialised (history)

flagVars == <<running, initialized>>
counterVars == <<txCount, ctxCount, obsoleteSnCount, buffers>>
startVars == <<added, echoReady>>
msgVars == <<blocked, toFilterChan, read>>
vars == <<startVars, crashed, flagVars, counterVars, pc, msgVars, leftOver>>

Run == 1..MaxRuns
Topic == {"tx", "sn"}
Message == [routine : Routine, run : Run, topic : Topic, n : 1..MaxReads]

Location == {"none", "init", "dial", "read", "send", "uninit", "setIdle", "done"}

\* The goroutines between the go statement and their end.
Alive(r, k) == pc[r][k] \notin {"none", "done"}

Goto(r, k, from, to) == pc[r][k] = from /\ pc' = [pc EXCEPT ![r][k] = to]

\* The messages read that the filter has not counted yet.
OnWay ==
  blocked \cup {toFilterChan[i] : i \in 1..Len(toFilterChan)}

Init ==
  /\ added = {}
  /\ echoReady = FALSE /\ crashed = FALSE
  /\ running = [r \in Routine |-> FALSE]
  /\ initialized = [r \in Routine |-> FALSE]
  /\ txCount = [r \in Routine |-> 0]
  /\ ctxCount = [r \in Routine |-> 0]
  /\ obsoleteSnCount = [r \in Routine |-> 0]
  /\ buffers = [r \in Routine |-> FALSE]
  /\ pc = [r \in Routine |-> [k \in Run |-> "none"]]
  /\ blocked = {} /\ toFilterChan = <<>>
  /\ read = {}
  /\ leftOver = [r \in Routine |-> {}]

-----------------------------------------------------------------------------
\* MustInitInputRoutines creates the routines one after the other,
CreateInputRoutine(r) ==
  /\ r \notin added
  /\ added' = added \cup {r}
  /\ UNCHANGED <<echoReady, crashed, flagVars, counterVars, pc, msgVars, leftOver>>

\* and after the last of them the echo buffer.
StartEchoLatencyRoutine ==
  /\ added = Routine /\ ~echoReady
  /\ echoReady' = TRUE
  /\ UNCHANGED <<added, crashed, flagVars, counterVars, pc, msgVars, leftOver>>

\* Looks at whether the routine works, not at whether it is running.
Mut_Startable(r) == ~initialized[r]

\* The time to restart may come at any time after a run.
Startable(r) == ~running[r]

\* runStarter marks a routine running and starts its goroutine.
RunStarter(r, k) ==
  /\ r \in added
  /\ Startable(r)
  /\ \A j \in 1..(k - 1) : pc[r][j] # "none"
  /\ Goto(r, k, "none", "init")
  /\ running' = [running EXCEPT ![r] = TRUE]
  /\ UNCHANGED <<startVars, crashed, initialized, counterVars, msgVars, leftOver>>

\* init: new buffers.  The counters were reset at the end of the former run.
InitRoutine(r, k) ==
  /\ Goto(r, k, "init", "dial")
  /\ initialized' = [initialized EXCEPT ![r] = TRUE]
  /\ buffers' = [buffers EXCEPT ![r] = TRUE]
  /\ leftOver' = [leftOver EXCEPT ![r] = OnWay]
  /\ UNCHANGED <<startVars, crashed, running, msgVars,
                 txCount, ctxCount, obsoleteSnCount>>

\* NewZmqSocket or NewNanomsgSocket, which may fail.
OpenSocket(r, k) ==
  /\ Goto(r, k, "dial", "read") \/ Goto(r, k, "dial", "uninit")
  /\ UNCHANGED <<startVars, crashed, flagVars, counterVars, msgVars, leftOver>>

\* RecvMsg gives a message of an expected topic, or an error.
RecvMsg(r, k) ==
  /\ Goto(r, k, "read", "send")
  /\ Cardinality(read) < MaxReads
  /\ \E topic \in Topic :
       LET m == [routine |-> r, run |-> k, topic |-> topic, n |-> Cardinality(read) + 1]
       IN  read' = read \cup {m} /\ blocked' = blocked \cup {m}
  /\ UNCHANGED <<startVars, crashed, flagVars, counterVars, toFilterChan, leftOver>>

RecvFails(r, k) ==
  /\ Goto(r, k, "read", "uninit")
  /\ UNCHANGED <<startVars, crashed, flagVars, counterVars, msgVars, leftOver>>

\* toFilter blocks while the channel is full.
ToFilter(r, k) ==
  /\ Goto(r, k, "send", "read")
  /\ Len(toFilterChan) < ChanBufSize
  /\ \E m \in blocked :
       /\ m.routine = r /\ m.run = k
       /\ blocked' = blocked \ {m}
       /\ toFilterChan' = Append(toFilterChan, m)
  /\ UNCHANGED <<startVars, crashed, flagVars, counterVars, read, leftOver>>

\* The counter of confirmations alone is reset.
Mut_Reset(r) ==
  /\ ctxCount' = [ctxCount EXCEPT ![r] = 0]
  /\ obsoleteSnCount' = [obsoleteSnCount EXCEPT ![r] = 0]
  /\ UNCHANGED txCount

\* The counters uninit resets.
Reset(r) ==
  /\ txCount' = [txCount EXCEPT ![r] = 0]
  /\ ctxCount' = [ctxCount EXCEPT ![r] = 0]
  /\ obsoleteSnCount' = [obsoleteSnCount EXCEPT ![r] = 0]

\* The deferred uninit of Run.
Uninit(r, k) ==
  /\ Goto(r, k, "uninit", "setIdle")
  /\ Reset(r)
  /\ buffers' = [buffers EXCEPT ![r] = FALSE]
  /\ initialized' = [initialized EXCEPT ![r] = FALSE]
  /\ UNCHANGED <<startVars, crashed, running, msgVars, leftOver>>

\* Leaves the flag as it is.
Mut_SetIdle(r, k) ==
  /\ Goto(r, k, "setIdle", "done")
  /\ UNCHANGED <<startVars, crashed, flagVars, counterVars, msgVars, leftOver>>

\* setIdle__ after Run has returned.
SetIdle(r, k) ==
  /\ Goto(r, k, "setIdle", "done")
  /\ running' = [running EXCEPT ![r] = FALSE]
  /\ UNCHANGED <<startVars, crashed, initialized, counterVars, msgVars, leftOver>>

RoutineStep(r, k) ==
  \/ InitRoutine(r, k)
  \/ OpenSocket(r, k)
  \/ RecvMsg(r, k)
  \/ RecvFails(r, k)
  \/ ToFilter(r, k)
  \/ Uninit(r, k)
  \/ SetIdle(r, k)

-----------------------------------------------------------------------------
\* Counts whether the routine works or not; RecordTS on a nil buffer ends the
\* program.
Mut_AccountTx(r) ==
  /\ txCount' = [txCount EXCEPT ![r] = @ + 1]
  /\ crashed' = ~buffers[r]
  /\ UNCHANGED <<ctxCount, obsoleteSnCount, buffers>>

\* accountTx, and checkForEcho if the valve is open.
AccountTx(r) ==
  /\ txCount' = IF initialized[r] THEN [txCount EXCEPT ![r] = @ + 1] ELSE txCount
  /\ \E outputClosed \in BOOLEAN :
       crashed' = \/ initialized[r] /\ ~buffers[r]
                  \/ ~outputClosed /\ ~echoReady
  /\ UNCHANGED <<ctxCount, obsoleteSnCount, buffers>>

\* A confirmation is dropped before the first milestone, counted as obsolete or
\* counted; MsgFilter decides which.
AccountSn(r) ==
  /\ \/ UNCHANGED <<crashed, ctxCount, obsoleteSnCount>>
     \/ /\ initialized[r]
        /\ obsoleteSnCount' = [obsoleteSnCount EXCEPT ![r] = @ + 1]
        /\ UNCHANGED <<crashed, ctxCount>>
     \/ /\ initialized[r]
        /\ ctxCount' = [ctxCount EXCEPT ![r] = @ + 1]
        /\ crashed' = ~buffers[r]
        /\ UNCHANGED obsoleteSnCount
  /\ UNCHANGED <<txCount, buffers>>

\* msgFilterLoop takes the next message and filterMsg counts it for its routine,
\* whatever became of that; a place in the channel is free one message early.
FilterMsg ==
  /\ toFilterChan # <<>>
  /\ LET m == Head(toFilterChan) IN
       \/ m.topic = "tx" /\ AccountTx(m.routine)
       \/ m.topic = "sn" /\ AccountSn(m.routine)
  /\ toFilterChan' = Tail(toFilterChan)
  /\ UNCHANGED <<startVars, flagVars, pc, blocked, read, leftOver>>

Next ==
  /\ ~crashed
  /\ \/ \E r \in Routine : CreateInputRoutine(r)
     \/ StartEchoLatencyRoutine
     \/ \E r \in Routine, k \in Run : RunStarter(r, k) \/ RoutineStep(r, k)
     \/ FilterMsg

Spec == Init /\ [][Next]_vars

\* Every goroutine that can go on does; the starter wakes from every sleep, and
\* blocked senders get their turn at the channel.  Nothing is assumed of the
\* nodes: they need not send, and a socket need not open or fail.
FairSpec ==
  /\ Spec
  /\ WF_vars(~crashed /\ FilterMsg)
  /\ \A r \in Routine :
       /\ WF_vars(~crashed /\ CreateInputRoutine(r))
       /\ \A k \in Run :
            /\ WF_vars(~crashed /\ RunStarter(r, k))
            /\ WF_vars(~crashed /\ (InitRoutine(r, k) \/ Uninit(r, k) \/ SetIdle(r, k)))
            /\ SF_vars(~crashed /\ ToFilter(r, k))

-----------------------------------------------------------------------------
\* Every variable has its type, and what a routine has discarded is nil.
TypeOK ==
  /\ added \subseteq Routine
  /\ {echoReady, crashed} \subseteq BOOLEAN
  /\ {running, initialized, buffers} \subseteq [Routine -> BOOLEAN]
  /\ {txCount, ctxCount, obsoleteSnCount} \subseteq [Routine -> Nat]
  /\ pc \in [Routine -> [Run -> Location]]
  /\ toFilterChan \in Seq(Message) /\ Len(toFilterChan) <= ChanBufSize
  /\ {blocked, read} \subseteq SUBSET Message
  /\ leftOver \in [Routine -> SUBSET Message]

\* A message of a routine that has ended is counted, or not, without touching
\* buffers it has discarded; the one way to a nil pointer is a transaction that
\* is filtered before the echo buffer is made (inroutines.go:80, echo.go:57).
CrashOnlyBeforeEcho == crashed => ~echoReady

\* A routine has one goroutine, which ends before the next is started, so that
\* the end of one run never discards the counters and buffers of the next.
OneRun ==
  \A r \in Routine, k \in Run :
    /\ Alive(r, k) => \A l \in Run : Alive(r, l) => k = l
    /\ pc[r][k] \in {"dial", "read", "send"} => initialized[r]

\* The messages of r a counter of the present run may stand for: those read in
\* this run, and those of earlier runs that were still on their way.
Due(r, topic) ==
  {m \in read : /\ m.routine = r /\ m.topic = topic
                /\ pc[r][m.run] # "done" \/ m \in leftOver[r]}

\* While a routine works, each transaction it was due has been counted once or is on
\* its way, and a confirmation is counted at most once, in one of its counters.
CountsExact ==
  \A r \in Routine : initialized[r] =>
    /\ txCount[r] = Cardinality(Due(r, "tx") \ OnWay)
    /\ ctxCount[r] + obsoleteSnCount[r] <= Cardinality(Due(r, "sn") \ OnWay)

\* A routine whose socket fails is started again, and one that waits for room in
\* the channel reads on.
Restarts ==
  /\ \A r \in Routine, k \in 1..(MaxRuns - 1) :
       pc[r][k] = "uninit" ~> crashed \/ pc[r][k + 1] # "none"
  /\ \A r \in Routine :
       (\E k \in Run : pc[r][k] = "send") ~> crashed \/ \A k \in Run : pc[r][k] # "send"
=============================================================================
