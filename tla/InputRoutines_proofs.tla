------------------------ MODULE InputRoutines_proofs ------------------------
(***************************************************************************)
(* Proofs about InputRoutines: one goroutine for each routine, nothing nil *)
(* when it is used after the start-up, and counters that are exact.        *)
(***************************************************************************)
EXTENDS InputRoutines, TLAPS, FiniteSetTheorems

\* The places of a run between its init and its uninit.
Working(r, k) == pc[r][k] \in {"dial", "read", "send", "uninit"}

\* A routine is marked running while it has a goroutine; it has one at most; it
\* is initialised while that works; the buffers come and go with the flag.
RunInv ==
  /\ running \in [Routine -> BOOLEAN]
  /\ initialized \in [Routine -> BOOLEAN]
  /\ buffers = initialized
  /\ pc \in [Routine -> [Run -> Location]]
  /\ \A r \in Routine, k \in Run :
       /\ Alive(r, k) => running[r]
       /\ Working(r, k) => initialized[r]
  /\ \A r \in Routine, k, l \in Run : Alive(r, k) /\ Alive(r, l) => k = l
  /\ crashed => ~echoReady

-----------------------------------------------------------------------------
\* What Goto does to the places of the goroutines.
LEMMA GotoMoves ==
  ASSUME pc \in [Routine -> [Run -> Location]],
         NEW r \in Routine, NEW k \in Run, NEW from, NEW to \in Location,
         Goto(r, k, from, to)
  PROVE  /\ pc' \in [Routine -> [Run -> Location]]
         /\ pc[r][k] = from /\ pc'[r][k] = to
         /\ \A s \in Routine, l \in Run :
              (s # r \/ l # k) => pc'[s][l] = pc[s][l]
  BY DEF Goto

\* A step of a goroutine that stays at work, or begins it with its flag.
LEMMA WorkKeeps ==
  ASSUME RunInv, ~crashed, NEW r \in Routine, NEW k \in Run,
         NEW from \in Location \ {"none", "done"}, NEW to \in Location \ {"none", "init"},
         Goto(r, k, from, to),
         UNCHANGED <<crashed, echoReady>>,
         running' \in [Routine -> BOOLEAN], initialized' \in [Routine -> BOOLEAN],
         buffers' = initialized',
         \A s \in Routine \ {r} : running'[s] = running[s] /\ initialized'[s] = initialized[s],
         to # "done" => running'[r] = running[r],
         to \in {"dial", "read", "send", "uninit"} => initialized'[r]
  PROVE  RunInv'
<1>1. /\ pc' \in [Routine -> [Run -> Location]]
      /\ pc[r][k] = from /\ pc'[r][k] = to
      /\ \A s \in Routine, l \in Run : (s # r \/ l # k) => pc'[s][l] = pc[s][l]
  BY GotoMoves DEF RunInv
<1>2. Alive(r, k)
  BY <1>1 DEF Alive
<1>3. \A l \in Run : Alive(r, l) => l = k
  BY <1>2 DEF RunInv
<1>4. ASSUME NEW s \in Routine, NEW l \in Run, Alive(s, l)'
      PROVE  Alive(s, l) /\ running'[s]
  <2>1. Alive(s, l)
    BY <1>1, <1>2, <1>4 DEF Alive
  <2>2. CASE s # r
    BY <2>1, <2>2 DEF RunInv
  <2>3. CASE s = r
    <3>1. l = k
      BY <1>3, <2>1, <2>3
    <3>2. to # "done"
      BY <1>1, <1>4, <2>3, <3>1 DEF Alive
    <3>. QED
      BY <2>1, <2>3, <3>2 DEF RunInv
  <2>. QED
    BY <2>1, <2>2, <2>3
<1>5. ASSUME NEW s \in Routine, NEW l \in Run, Working(s, l)'
      PROVE  initialized'[s]
  <2>1. CASE s # r
    BY <1>1, <1>5, <2>1 DEF RunInv, Working
  <2>2. CASE s = r /\ l # k
    <3>1. Alive(r, l)
      BY <1>1, <1>5, <2>2 DEF Working, Alive
    <3>. QED
      BY <1>3, <2>2, <3>1
  <2>3. CASE s = r /\ l = k
    BY <1>1, <1>5, <2>3 DEF Working
  <2>. QED
    BY <2>1, <2>2, <2>3
<1>6. \A s \in Routine, l, m \in Run : Alive(s, l)' /\ Alive(s, m)' => l = m
  BY <1>4 DEF RunInv
<1>7. crashed' => ~echoReady'
  OBVIOUS
<1>. QED
  BY <1>1, <1>4, <1>5, <1>6, <1>7 DEF RunInv

-----------------------------------------------------------------------------
\* The strengthening holds at the start,
LEMMA RunInvInit == Init => RunInv
  BY DEF Init, RunInv, Alive, Working, Location

\* and every step keeps it.
LEMMA RunInvStep == RunInv /\ [Next]_vars => RunInv'
<1>. SUFFICES ASSUME RunInv, [Next]_vars
              PROVE  RunInv'
  OBVIOUS
<1>1. CASE UNCHANGED vars
  BY <1>1 DEF vars, startVars, flagVars, counterVars, msgVars, RunInv, Alive, Working
<1>2. ASSUME NEW r \in Routine, CreateInputRoutine(r)
      PROVE  RunInv'
  BY <1>2 DEF CreateInputRoutine, flagVars, counterVars, RunInv, Alive, Working
<1>3. ASSUME ~crashed, StartEchoLatencyRoutine
      PROVE  RunInv'
  BY <1>3 DEF StartEchoLatencyRoutine, flagVars, counterVars, RunInv, Alive, Working
<1>4. ASSUME NEW r \in Routine, NEW k \in Run, RunStarter(r, k)
      PROVE  RunInv'
  <2>1. /\ pc' \in [Routine -> [Run -> Location]]
        /\ pc'[r][k] = "init"
        /\ \A s \in Routine, l \in Run : (s # r \/ l # k) => pc'[s][l] = pc[s][l]
    BY <1>4, GotoMoves DEF RunStarter, RunInv, Location
  <2>2. /\ ~running[r] /\ running' = [running EXCEPT ![r] = TRUE]
        /\ UNCHANGED <<initialized, buffers, crashed, echoReady>>
    BY <1>4 DEF RunStarter, Startable, counterVars, startVars
  <2>3. \A l \in Run : ~Alive(r, l)
    BY <2>2 DEF RunInv
  <2>4. running' \in [Routine -> BOOLEAN] /\ running'[r]
    BY <2>2 DEF RunInv
  <2>5. \A s \in Routine, l \in Run : Alive(s, l)' => running'[s]
    <3>. TAKE s \in Routine, l \in Run
    <3>1. CASE s = r
      BY <2>4, <3>1
    <3>2. CASE s # r
      BY <2>1, <2>2, <3>2 DEF Alive, RunInv
    <3>. QED
      BY <3>1, <3>2
  <2>6. \A s \in Routine, l \in Run : Working(s, l)' => initialized'[s]
    <3>. TAKE s \in Routine, l \in Run
    <3>1. CASE s = r /\ l = k
      BY <2>1, <3>1 DEF Working
    <3>2. CASE s # r \/ l # k
      BY <2>1, <2>2, <3>2 DEF Working, RunInv
    <3>. QED
      BY <3>1, <3>2
  <2>7. \A s \in Routine, l, m \in Run : Alive(s, l)' /\ Alive(s, m)' => l = m
    <3>. TAKE s \in Routine, l, m \in Run
    <3>1. CASE s = r
      BY <2>1, <2>3, <3>1 DEF Alive
    <3>2. CASE s # r
      BY <2>1, <3>2 DEF Alive, RunInv
    <3>. QED
      BY <3>1, <3>2
  <2>. QED
    BY <2>1, <2>2, <2>4, <2>5, <2>6, <2>7 DEF RunInv
<1>5. ASSUME ~crashed, NEW r \in Routine, NEW k \in Run, RoutineStep(r, k)
      PROVE  RunInv'
  <2>1. CASE InitRoutine(r, k)
    <3>1. /\ initialized' = [initialized EXCEPT ![r] = TRUE]
          /\ buffers' = [buffers EXCEPT ![r] = TRUE]
          /\ Goto(r, k, "init", "dial")
          /\ UNCHANGED <<running, crashed, echoReady>>
      BY <2>1 DEF InitRoutine, startVars
    <3>2. /\ buffers' = initialized' /\ initialized' \in [Routine -> BOOLEAN]
          /\ initialized'[r]
          /\ \A s \in Routine \ {r} : initialized'[s] = initialized[s]
      BY <3>1 DEF RunInv
    <3>3. running' \in [Routine -> BOOLEAN]
      BY <3>1 DEF RunInv
    <3>. QED
      BY <1>5, <3>1, <3>2, <3>3, WorkKeeps DEF Location
  <2>2. CASE Uninit(r, k)
    <3>1. /\ initialized' = [initialized EXCEPT ![r] = FALSE]
          /\ buffers' = [buffers EXCEPT ![r] = FALSE]
          /\ Goto(r, k, "uninit", "setIdle")
          /\ UNCHANGED <<running, crashed, echoReady>>
      BY <2>2 DEF Uninit, startVars
    <3>2. /\ buffers' = initialized' /\ initialized' \in [Routine -> BOOLEAN]
          /\ \A s \in Routine \ {r} : initialized'[s] = initialized[s]
      BY <3>1 DEF RunInv
    <3>3. running' \in [Routine -> BOOLEAN]
      BY <3>1 DEF RunInv
    <3>. QED
      BY <1>5, <3>1, <3>2, <3>3, WorkKeeps DEF Location
  <2>3. CASE SetIdle(r, k)
    <3>1. /\ running' = [running EXCEPT ![r] = FALSE]
          /\ Goto(r, k, "setIdle", "done")
          /\ UNCHANGED <<initialized, buffers, crashed, echoReady>>
      BY <2>3 DEF SetIdle, startVars, counterVars
    <3>2. /\ running' \in [Routine -> BOOLEAN]
          /\ \A s \in Routine \ {r} : running'[s] = running[s]
      BY <3>1 DEF RunInv
    <3>3. initialized' \in [Routine -> BOOLEAN] /\ buffers' = initialized'
      BY <3>1 DEF RunInv
    <3>. QED
      BY <1>5, <3>1, <3>2, <3>3, WorkKeeps DEF Location
  <2>4. ASSUME NEW from \in {"dial", "read", "send"}, NEW to \in {"read", "send", "uninit"},
               Goto(r, k, from, to),
               UNCHANGED <<startVars, crashed, flagVars, counterVars>>
        PROVE  RunInv'
    <3>1. UNCHANGED <<running, initialized, buffers, crashed, echoReady>>
      BY <2>4 DEF startVars, flagVars, counterVars
    <3>2. initialized[r]
      BY <2>4 DEF RunInv, Working, Goto
    <3>3. /\ running' \in [Routine -> BOOLEAN] /\ initialized' \in [Routine -> BOOLEAN]
          /\ buffers' = initialized'
      BY <3>1 DEF RunInv
    <3>. QED
      BY <1>5, <2>4, <3>1, <3>2, <3>3, WorkKeeps DEF Location
  <2>5. CASE OpenSocket(r, k)
    BY <2>4, <2>5 DEF OpenSocket
  <2>6. CASE RecvMsg(r, k)
    BY <2>4, <2>6 DEF RecvMsg
  <2>7. CASE RecvFails(r, k)
    BY <2>4, <2>7 DEF RecvFails
  <2>8. CASE ToFilter(r, k)
    BY <2>4, <2>8 DEF ToFilter
  <2>. QED
    BY <1>5, <2>1, <2>2, <2>3, <2>5, <2>6, <2>7, <2>8 DEF RoutineStep
<1>6. ASSUME ~crashed, FilterMsg
      PROVE  RunInv'
  <2>1. UNCHANGED <<running, initialized, pc, echoReady, buffers>>
    BY <1>6 DEF FilterMsg, startVars, flagVars, AccountTx, AccountSn
  <2>2. crashed' => ~echoReady
    <3>1. PICK r : \/ AccountTx(r)
                   \/ AccountSn(r)
      BY <1>6 DEF FilterMsg
    <3>2. CASE AccountTx(r)
      BY <3>2 DEF AccountTx, RunInv
    <3>3. CASE AccountSn(r)
      BY <1>6, <3>3 DEF AccountSn, RunInv
    <3>. QED
      BY <3>1, <3>2, <3>3
  <2>. QED
    BY <2>1, <2>2 DEF RunInv, Alive, Working
<1>. QED
  BY <1>1, <1>2, <1>3, <1>4, <1>5, <1>6 DEF Next

\* At any time, for any routines, runs and capacity of the channel.
LEMMA RunInvAlways == Spec => []RunInv
  BY RunInvInit, RunInvStep, PTL DEF Spec

-----------------------------------------------------------------------------
\* A routine has one goroutine and is initialised while that works, so that the
\* end of a run never discards what the next has made (inroutines.go:118-147).
THEOREM OneRunAlways == Spec => []OneRun
<1>1. RunInv => OneRun
  BY DEF RunInv, OneRun, Working
<1>. QED
  BY <1>1, RunInvAlways, PTL

\* Once the echo buffer is made no nil pointer is used (inroutines.go:80).
THEOREM CrashOnlyBeforeEchoAlways == Spec => []CrashOnlyBeforeEcho
<1>1. RunInv => CrashOnlyBeforeEcho
  BY DEF RunInv, CrashOnlyBeforeEcho
<1>. QED
  BY <1>1, RunInvAlways, PTL

-----------------------------------------------------------------------------
\* The messages on their way are different and have been read, each by a run
\* that has been started.
WayInv ==
  /\ toFilterChan \in Seq(Message)
  /\ blocked \subseteq read /\ read \subseteq Message /\ IsFiniteSet(read)
  /\ \A i \in 1..Len(toFilterChan) :
       /\ toFilterChan[i] \in read \ blocked
       /\ \A j \in 1..Len(toFilterChan) : toFilterChan[i] = toFilterChan[j] => i = j
  /\ \A m \in read : /\ m.n <= Cardinality(read)
                     /\ pc[m.routine][m.run] \notin {"none", "init"}

\* What is on its way has been read.
LEMMA OnWaySub == ASSUME WayInv PROVE OnWay \subseteq read
BY DEF WayInv, OnWay

\* The next message read is a new one.
LEMMA RecvMsgNew ==
  ASSUME RunInv, WayInv, NEW r \in Routine, NEW k \in Run, RecvMsg(r, k)
  PROVE  \E m \in Message :
           /\ m.routine = r /\ m.run = k /\ m \notin read
           /\ m.n = Cardinality(read) + 1
           /\ read' = read \cup {m} /\ blocked' = blocked \cup {m}
           /\ OnWay' = OnWay \cup {m}
           /\ toFilterChan' = toFilterChan
<1>1. PICK topic \in Topic :
        LET m == [routine |-> r, run |-> k, topic |-> topic, n |-> Cardinality(read) + 1]
        IN  read' = read \cup {m} /\ blocked' = blocked \cup {m}
  BY DEF RecvMsg
<1> DEFINE m == [routine |-> r, run |-> k, topic |-> topic, n |-> Cardinality(read) + 1]
<1>2. Cardinality(read) \in Nat /\ Cardinality(read) < MaxReads
  BY FS_CardinalityType DEF WayInv, RecvMsg
<1>3. m \in Message
  BY <1>2, BoundAssumption DEF Message
<1>4. m \notin read
  BY <1>2 DEF WayInv
<1>5. toFilterChan' = toFilterChan /\ read' = read \cup {m} /\ blocked' = blocked \cup {m}
  BY <1>1 DEF RecvMsg
<1>6. m.routine = r /\ m.run = k /\ m.n = Cardinality(read) + 1
  OBVIOUS
<1> HIDE DEF m
<1>7. OnWay' = OnWay \cup {m}
  BY <1>5 DEF OnWay
<1> QED BY <1>3, <1>4, <1>5, <1>6, <1>7

\* The blocked message enters the channel.
LEMMA ToFilterMoves ==
  ASSUME WayInv, NEW r \in Routine, NEW k \in Run, ToFilter(r, k)
  PROVE  \E m \in blocked :
           /\ blocked' = blocked \ {m}
           /\ toFilterChan' = Append(toFilterChan, m)
           /\ OnWay' = OnWay /\ read' = read
<1>1. PICK m \in blocked : blocked' = blocked \ {m} /\ toFilterChan' = Append(toFilterChan, m)
  BY DEF ToFilter
<1>2. m \in Message /\ toFilterChan \in Seq(Message)
  BY DEF WayInv
<1>3. /\ Len(toFilterChan') = Len(toFilterChan) + 1
      /\ toFilterChan'[Len(toFilterChan) + 1] = m
      /\ \A i \in 1..Len(toFilterChan) : toFilterChan'[i] = toFilterChan[i]
  BY <1>1, <1>2
<1>4. {toFilterChan'[i] : i \in 1..Len(toFilterChan')}
        = {toFilterChan[i] : i \in 1..Len(toFilterChan)} \cup {m}
  BY <1>2, <1>3
<1>5. OnWay' = OnWay
  BY <1>1, <1>4 DEF OnWay
<1>6. read' = read
  BY DEF ToFilter
<1> QED BY <1>1, <1>5, <1>6

\* The message the filter takes is the one that leaves the way.
LEMMA FilterTakes ==
  ASSUME WayInv, FilterMsg
  PROVE  /\ Head(toFilterChan) \in OnWay
         /\ OnWay' = OnWay \ {Head(toFilterChan)}
         /\ read' = read
<1>1. /\ toFilterChan # <<>> /\ toFilterChan' = Tail(toFilterChan)
      /\ blocked' = blocked /\ read' = read /\ toFilterChan \in Seq(Message)
  BY DEF FilterMsg, WayInv
<1>2. /\ Head(toFilterChan) = toFilterChan[1] /\ 1 \in 1..Len(toFilterChan)
      /\ Len(toFilterChan') = Len(toFilterChan) - 1
      /\ \A i \in 1..Len(toFilterChan') : toFilterChan'[i] = toFilterChan[i + 1]
  BY <1>1
<1>3. {toFilterChan'[i] : i \in 1..Len(toFilterChan')}
        = {toFilterChan[i] : i \in 2..Len(toFilterChan)}
  <2>1. \A i \in 1..Len(toFilterChan') : i + 1 \in 2..Len(toFilterChan)
    BY <1>1, <1>2
  <2>2. \A i \in 2..Len(toFilterChan) :
          /\ i - 1 \in 1..Len(toFilterChan')
          /\ toFilterChan'[i - 1] = toFilterChan[i]
    <3> TAKE i \in 2..Len(toFilterChan)
    <3>1. i - 1 \in 1..Len(toFilterChan') /\ (i - 1) + 1 = i
      BY <1>1, <1>2
    <3> QED BY <3>1, <1>2
  <2> QED BY <2>1, <2>2, <1>2
<1>4. \A i \in 2..Len(toFilterChan) : i \in 1..Len(toFilterChan) /\ i # 1
  BY <1>1
<1>5. toFilterChan[1] \notin blocked
      /\ \A i \in 2..Len(toFilterChan) : toFilterChan[i] # toFilterChan[1]
  BY <1>2, <1>4 DEF WayInv
<1>6. {toFilterChan[i] : i \in 1..Len(toFilterChan)}
        = {toFilterChan[i] : i \in 2..Len(toFilterChan)} \cup {toFilterChan[1]}
  <2>1. \A i \in 1..Len(toFilterChan) : i = 1 \/ i \in 2..Len(toFilterChan)
    BY <1>1
  <2> QED BY <2>1, <1>2, <1>4
<1>7. toFilterChan[1] \in OnWay /\ OnWay' = OnWay \ {toFilterChan[1]}
  BY <1>1, <1>3, <1>5, <1>6 DEF OnWay
<1> QED BY <1>1, <1>2, <1>7

\* A step that moves no message keeps them in their places, as long as no run is
\* put back before its start.
LEMMA WayKept ==
  ASSUME WayInv, UNCHANGED msgVars,
         \A r \in Routine, k \in Run :
           pc[r][k] \notin {"none", "init"} => pc'[r][k] \notin {"none", "init"}
  PROVE  WayInv'
BY DEF WayInv, msgVars, Message

\* Every step keeps the messages in their places.
LEMMA WayStep == RunInv /\ WayInv /\ [Next]_vars => WayInv'
<1> SUFFICES ASSUME RunInv, WayInv, [Next]_vars PROVE WayInv'
  OBVIOUS
<1>0. \A r \in Routine, k \in Run, from, to \in Location \ {"none"} :
        Goto(r, k, from, to) /\ to # "init" =>
          \A s \in Routine, l \in Run :
            pc[s][l] \notin {"none", "init"} => pc'[s][l] \notin {"none", "init"}
  BY DEF Goto, RunInv
<1>1. ASSUME UNCHANGED <<msgVars, pc>> PROVE WayInv'
  BY <1>1, WayKept
<1>2. ASSUME NEW r \in Routine, NEW k \in Run, RunStarter(r, k) PROVE WayInv'
  <2>1. /\ pc[r][k] = "none" /\ pc' = [pc EXCEPT ![r][k] = "init"] /\ UNCHANGED msgVars
    BY <1>2 DEF RunStarter, Goto
  <2> QED BY <2>1, WayKept DEF RunInv
<1>3. ASSUME NEW r \in Routine, NEW k \in Run,
             InitRoutine(r, k) \/ OpenSocket(r, k) \/ RecvFails(r, k)
               \/ Uninit(r, k) \/ SetIdle(r, k)
      PROVE  WayInv'
  <2>1. UNCHANGED msgVars
    BY <1>3 DEF InitRoutine, OpenSocket, RecvFails, Uninit, SetIdle
  <2>2. \E from, to \in Location \ {"none"} : Goto(r, k, from, to) /\ to # "init"
    BY <1>3 DEF InitRoutine, OpenSocket, RecvFails, Uninit, SetIdle, Location
  <2> QED BY <2>1, <2>2, <1>0, WayKept
<1>4. ASSUME NEW r \in Routine, NEW k \in Run, RecvMsg(r, k) PROVE WayInv'
  <2>1. Goto(r, k, "read", "send")
    BY <1>4 DEF RecvMsg
  <2>2. /\ \A s \in Routine, l \in Run :
            pc[s][l] \notin {"none", "init"} => pc'[s][l] \notin {"none", "init"}
        /\ pc'[r][k] = "send"
    BY <2>1, <1>0, GotoMoves DEF Location, RunInv
  <2>3. PICK m \in Message :
           /\ m.routine = r /\ m.run = k /\ m \notin read
           /\ m.n = Cardinality(read) + 1
           /\ read' = read \cup {m} /\ blocked' = blocked \cup {m}
           /\ toFilterChan' = toFilterChan
    BY <1>4, RecvMsgNew
  <2>4. /\ IsFiniteSet(read') /\ Cardinality(read') = Cardinality(read) + 1
        /\ Cardinality(read) \in Nat
    <3>1. IsFiniteSet(read)
      BY DEF WayInv
    <3>2. /\ IsFiniteSet(read \cup {m})
          /\ Cardinality(read \cup {m}) =
               IF m \in read THEN Cardinality(read) ELSE Cardinality(read) + 1
      BY <3>1, FS_AddElement
    <3> QED BY <2>3, <3>1, <3>2, FS_CardinalityType
  <2>5. \A x \in read' : /\ x.n <= Cardinality(read')
                         /\ pc'[x.routine][x.run] \notin {"none", "init"}
    <3> TAKE x \in read'
    <3>1. CASE x = m
      BY <3>1, <2>2, <2>3, <2>4
    <3>2. CASE x \in read
      <4>1. x \in Message /\ x.n <= Cardinality(read)
            /\ pc[x.routine][x.run] \notin {"none", "init"}
        BY <3>2 DEF WayInv
      <4>2. x.n \in Int /\ x.routine \in Routine /\ x.run \in Run
        BY <4>1 DEF Message
      <4> QED BY <4>1, <4>2, <2>2, <2>4
    <3> QED BY <3>1, <3>2, <2>3
  <2>6. blocked' \subseteq read' /\ read' \subseteq Message
    BY <2>3 DEF WayInv
  <2>7. \A i \in 1..Len(toFilterChan') :
          /\ toFilterChan'[i] \in read' \ blocked'
          /\ \A j \in 1..Len(toFilterChan') : toFilterChan'[i] = toFilterChan'[j] => i = j
    BY <2>3 DEF WayInv
  <2>8. toFilterChan' \in Seq(Message)
    BY <2>3 DEF WayInv
  <2> QED BY <2>4, <2>5, <2>6, <2>7, <2>8 DEF WayInv
<1>5. ASSUME NEW r \in Routine, NEW k \in Run, ToFilter(r, k) PROVE WayInv'
  <2>1. Goto(r, k, "send", "read")
    BY <1>5 DEF ToFilter
  <2>2. \A s \in Routine, l \in Run :
          pc[s][l] \notin {"none", "init"} => pc'[s][l] \notin {"none", "init"}
    BY <2>1, <1>0 DEF Location
  <2>3. PICK m \in blocked : /\ blocked' = blocked \ {m}
                             /\ toFilterChan' = Append(toFilterChan, m)
                             /\ read' = read
    BY <1>5, ToFilterMoves
  <2>4. m \in Message /\ toFilterChan \in Seq(Message) /\ m \in read
    BY DEF WayInv
  <2>5. /\ toFilterChan' \in Seq(Message)
        /\ Len(toFilterChan') = Len(toFilterChan) + 1
        /\ toFilterChan'[Len(toFilterChan) + 1] = m
        /\ \A i \in 1..Len(toFilterChan) : toFilterChan'[i] = toFilterChan[i]
    BY <2>3, <2>4
  <2>6. \A i \in 1..Len(toFilterChan') :
          i \in 1..Len(toFilterChan) \/ i = Len(toFilterChan) + 1
    BY <2>4, <2>5
  <2>7. \A i \in 1..Len(toFilterChan') :
          /\ toFilterChan'[i] \in read' \ blocked'
          /\ \A j \in 1..Len(toFilterChan') : toFilterChan'[i] = toFilterChan'[j] => i = j
    BY <2>3, <2>4, <2>5, <2>6 DEF WayInv
  <2>8. \A x \in read' : /\ x.n <= Cardinality(read')
                         /\ pc'[x.routine][x.run] \notin {"none", "init"}
    BY <2>2, <2>3 DEF WayInv, Message
  <2>9. blocked' \subseteq read' /\ read' \subseteq Message /\ IsFiniteSet(read')
    BY <2>3 DEF WayInv
  <2> QED BY <2>5, <2>7, <2>8, <2>9 DEF WayInv
<1>6. CASE FilterMsg
  <2>1. /\ toFilterChan # <<>> /\ toFilterChan' = Tail(toFilterChan)
        /\ UNCHANGED <<blocked, read, pc>> /\ toFilterChan \in Seq(Message)
    BY <1>6 DEF FilterMsg, WayInv
  <2>2. /\ toFilterChan' \in Seq(Message)
        /\ Len(toFilterChan') = Len(toFilterChan) - 1 /\ Len(toFilterChan) \in Nat
        /\ \A i \in 1..Len(toFilterChan') : toFilterChan'[i] = toFilterChan[i + 1]
    BY <2>1
  <2>3. \A i \in 1..Len(toFilterChan') : i + 1 \in 1..Len(toFilterChan)
    BY <2>2
  <2>4. \A i \in 1..Len(toFilterChan') :
          /\ toFilterChan'[i] \in read' \ blocked'
          /\ \A j \in 1..Len(toFilterChan') : toFilterChan'[i] = toFilterChan'[j] => i = j
    <3> TAKE i \in 1..Len(toFilterChan')
    <3>1. toFilterChan'[i] \in read' \ blocked'
      BY <2>1, <2>2, <2>3 DEF WayInv
    <3>2. ASSUME NEW j \in 1..Len(toFilterChan'), toFilterChan'[i] = toFilterChan'[j]
          PROVE  i = j
      <4>1. toFilterChan[i + 1] = toFilterChan[j + 1]
        BY <2>2, <3>2
      <4>2. i + 1 = j + 1
        BY <4>1, <2>3 DEF WayInv
      <4> QED BY <4>2
    <3> QED BY <3>1, <3>2
  <2> QED BY <2>1, <2>2, <2>4 DEF WayInv
<1>7. CASE UNCHANGED vars
  BY <1>1, <1>7 DEF vars
<1>8. CASE StartEchoLatencyRoutine \/ \E r \in Routine : CreateInputRoutine(r)
  BY <1>1, <1>8 DEF StartEchoLatencyRoutine, CreateInputRoutine
<1> QED BY <1>2, <1>3, <1>4, <1>5, <1>6, <1>7, <1>8 DEF Next, RoutineStep

-----------------------------------------------------------------------------
\* The messages the counters stand for.
Counted(r, topic) == Due(r, topic) \ OnWay

\* A routine that does not work has counted nothing.  Of one that works, a message
\* of an earlier run that is on its way was so when it was initialised.
CountOf(r) ==
  /\ ~initialized[r] => txCount[r] = 0 /\ ctxCount[r] = 0 /\ obsoleteSnCount[r] = 0
  /\ initialized[r] =>
       /\ \E k \in Run : Working(r, k)
       /\ \A m \in OnWay :
            m.routine = r /\ pc[r][m.run] = "done" => m \in leftOver[r]
       /\ txCount[r] = Cardinality(Counted(r, "tx"))
       /\ ctxCount[r] + obsoleteSnCount[r] <= Cardinality(Counted(r, "sn"))

CountTypeOK ==
  /\ txCount \in [Routine -> Nat]
  /\ ctxCount \in [Routine -> Nat]
  /\ obsoleteSnCount \in [Routine -> Nat]
  /\ leftOver \in [Routine -> SUBSET Message]

\* The strengthening of CountsExact.
CountInv == RunInv /\ WayInv /\ CountTypeOK /\ \A r \in Routine : CountOf(r)

\* Counted messages are finitely many.
LEMMA CountedFinite ==
  ASSUME WayInv, NEW r, NEW topic
  PROVE  IsFiniteSet(Counted(r, topic)) /\ Cardinality(Counted(r, topic)) \in Nat
<1>1. Counted(r, topic) \in SUBSET read /\ IsFiniteSet(read)
  BY DEF Counted, Due, WayInv
<1> QED BY <1>1, FS_Subset, FS_CardinalityType

\* The messages of a routine that are read and no longer on their way.
Arrived(r) == {m \in read \ OnWay : m.routine = r}

\* What a step leaves as it is when it does not concern what r has counted.
SameFor(r) ==
  /\ initialized'[r] = initialized[r] /\ leftOver'[r] = leftOver[r]
  /\ txCount'[r] = txCount[r] /\ ctxCount'[r] = ctxCount[r]
  /\ obsoleteSnCount'[r] = obsoleteSnCount[r]

\* A step that takes no message of r off its way and ends no run of r whose
\* messages count keeps the counters of r exact.
LEMMA CountKept ==
  ASSUME WayInv, NEW r \in Routine, CountOf(r), SameFor(r),
         \A m \in read : m.routine = r => (pc'[r][m.run] = "done" <=> pc[r][m.run] = "done"),
         Arrived(r)' = Arrived(r),
         \A m \in OnWay' : m.routine = r /\ pc'[r][m.run] = "done" => m \in OnWay,
         initialized[r] => \E k \in Run : Working(r, k)'
  PROVE  CountOf(r)'
<1>1. \A topic : Counted(r, topic) =
                   {m \in Arrived(r) : /\ m.topic = topic
                                       /\ pc[r][m.run] # "done" \/ m \in leftOver[r]}
  BY DEF Counted, Due, Arrived
<1>2. \A topic : Counted(r, topic)' =
                   {m \in Arrived(r)' : /\ m.topic = topic
                                        /\ pc'[r][m.run] # "done" \/ m \in leftOver'[r]}
  BY DEF Counted, Due, Arrived
<1>3. \A m \in Arrived(r) : pc'[r][m.run] = "done" <=> pc[r][m.run] = "done"
  BY DEF Arrived
<1>4. ASSUME NEW topic PROVE Counted(r, topic)' = Counted(r, topic)
  <2>1. leftOver'[r] = leftOver[r] /\ Arrived(r)' = Arrived(r)
    BY DEF SameFor
  <2>2. {m \in Arrived(r) : m.topic = topic /\ (pc'[r][m.run] # "done" \/ m \in leftOver[r])}
        = {m \in Arrived(r) : m.topic = topic /\ (pc[r][m.run] # "done" \/ m \in leftOver[r])}
    BY <1>3
  <2> QED BY <1>1, <1>2, <2>1, <2>2
<1>5. OnWay \subseteq read
  BY OnWaySub
<1>6. ASSUME initialized[r], NEW m \in OnWay', m.routine = r, pc'[r][m.run] = "done"
      PROVE  m \in leftOver'[r]
  BY <1>5, <1>6 DEF CountOf, SameFor
<1> QED BY <1>4, <1>6 DEF CountOf, SameFor

\* Only the working goroutine of a routine is alive.
LEMMA WorkingAlone ==
  ASSUME RunInv, NEW r \in Routine, NEW k \in Run, Alive(r, k), ~Working(r, k)
  PROVE  ~(\E l \in Run : Working(r, l))
BY DEF RunInv, Alive, Working

\* Every step keeps the types of the counters.
LEMMA CountTypeStep == WayInv /\ CountTypeOK /\ [Next]_vars => CountTypeOK'
<1> SUFFICES ASSUME WayInv, CountTypeOK, [Next]_vars PROVE CountTypeOK'
  OBVIOUS
<1>1. ASSUME UNCHANGED <<counterVars, leftOver>> PROVE CountTypeOK'
  BY <1>1 DEF CountTypeOK, counterVars
<1>2. ASSUME NEW r \in Routine, NEW k \in Run, InitRoutine(r, k) PROVE CountTypeOK'
  <2>1. OnWay \subseteq Message
    BY OnWaySub DEF WayInv
  <2> QED BY <1>2, <2>1 DEF InitRoutine, CountTypeOK
<1>3. ASSUME NEW r \in Routine, NEW k \in Run, Uninit(r, k) PROVE CountTypeOK'
  BY <1>3 DEF Uninit, Reset, CountTypeOK
<1>4. CASE FilterMsg
  <2>1. PICK r \in Routine : AccountTx(r) \/ AccountSn(r)
    <3>1. Head(toFilterChan) \in Message
      BY <1>4, FilterTakes, OnWaySub DEF WayInv
    <3> QED BY <1>4, <3>1 DEF FilterMsg, Message
  <2>2. leftOver' = leftOver
    BY <1>4 DEF FilterMsg
  <2>3. \A f \in [Routine -> Nat] : [f EXCEPT ![r] = @ + 1] \in [Routine -> Nat]
    OBVIOUS
  <2>4. /\ txCount' = txCount \/ txCount' = [txCount EXCEPT ![r] = @ + 1]
        /\ ctxCount' = ctxCount \/ ctxCount' = [ctxCount EXCEPT ![r] = @ + 1]
        /\ \/ obsoleteSnCount' = obsoleteSnCount
           \/ obsoleteSnCount' = [obsoleteSnCount EXCEPT ![r] = @ + 1]
    BY <2>1 DEF AccountTx, AccountSn
  <2> QED BY <2>2, <2>3, <2>4 DEF CountTypeOK
<1>5. ASSUME NEW r \in Routine, NEW k \in Run,
             RunStarter(r, k) \/ OpenSocket(r, k) \/ RecvMsg(r, k) \/ RecvFails(r, k)
               \/ ToFilter(r, k) \/ SetIdle(r, k)
      PROVE  CountTypeOK'
  BY <1>1, <1>5 DEF RunStarter, OpenSocket, RecvMsg, RecvFails, ToFilter, SetIdle
<1>6. CASE \/ StartEchoLatencyRoutine \/ UNCHANGED vars
           \/ \E r \in Routine : CreateInputRoutine(r)
  BY <1>1, <1>6 DEF StartEchoLatencyRoutine, CreateInputRoutine, vars
<1> QED BY <1>2, <1>3, <1>4, <1>5, <1>6 DEF Next, RoutineStep

\* A goroutine's step that is neither the start nor the end of its work keeps all
\* counters exact.
LEMMA WorkCountKept ==
  ASSUME CountInv, NEW r \in Routine, NEW k \in Run,
         OpenSocket(r, k) \/ RecvMsg(r, k) \/ RecvFails(r, k) \/ ToFilter(r, k),
         NEW s \in Routine
  PROVE  CountOf(s)'
<1>0. RunInv /\ WayInv /\ CountOf(s)
  BY DEF CountInv
<1>1. PICK from \in {"dial", "read", "send"}, to \in {"read", "send", "uninit"} :
        Goto(r, k, from, to)
  BY DEF OpenSocket, RecvMsg, RecvFails, ToFilter
<1>2. /\ pc[r][k] = from /\ pc'[r][k] = to
      /\ \A q \in Routine, l \in Run : (q # r \/ l # k) => pc'[q][l] = pc[q][l]
  BY <1>0, <1>1, GotoMoves DEF RunInv, Location
<1>3. SameFor(s)
  BY DEF OpenSocket, RecvMsg, RecvFails, ToFilter, flagVars, counterVars, SameFor
<1>4. \A l \in Run : pc'[s][l] = "done" <=> pc[s][l] = "done"
  BY <1>2
<1>5. \A m \in read : m.run \in Run /\ m \in Message
  BY <1>0 DEF WayInv, Message
<1>6. \A l \in Run : Working(s, l) => Working(s, l)'
  BY <1>2 DEF Working
<1>7. /\ Arrived(s)' = Arrived(s)
      /\ \A m \in OnWay' : m.routine = s /\ pc'[s][m.run] = "done" => m \in OnWay
  <2>1. CASE OpenSocket(r, k) \/ RecvFails(r, k)
    <3>1. UNCHANGED <<read, OnWay>>
      BY <2>1 DEF OpenSocket, RecvFails, msgVars, OnWay
    <3> QED BY <3>1 DEF Arrived
  <2>2. CASE ToFilter(r, k)
    <3>1. UNCHANGED <<read, OnWay>>
      BY <1>0, <2>2, ToFilterMoves
    <3> QED BY <3>1 DEF Arrived
  <2>3. CASE RecvMsg(r, k)
    <3>1. PICK m \in Message :
            /\ m.routine = r /\ m.run = k
            /\ m \notin read /\ read' = read \cup {m} /\ OnWay' = OnWay \cup {m}
      BY <1>0, <2>3, RecvMsgNew
    <3>2. read' \ OnWay' = read \ OnWay
      BY <3>1
    <3>3. pc'[r][k] # "done"
      BY <1>2
    <3> QED BY <3>1, <3>2, <3>3 DEF Arrived
  <2> QED BY <2>1, <2>2, <2>3
<1>8. \A m \in read : m.routine = s => (pc'[s][m.run] = "done" <=> pc[s][m.run] = "done")
  BY <1>4, <1>5
<1>9. initialized[s] => \E l \in Run : Working(s, l)'
  BY <1>0, <1>6 DEF CountOf
<1> QED BY <1>0, <1>3, <1>7, <1>8, <1>9, CountKept

\* The start and the end of a run: the other routines keep their counters.
LEMMA OtherRoutineKept ==
  ASSUME CountInv, NEW r \in Routine, NEW k \in Run,
         InitRoutine(r, k) \/ Uninit(r, k) \/ SetIdle(r, k) \/ RunStarter(r, k),
         NEW s \in Routine \ {r}
  PROVE  CountOf(s)'
<1>0. RunInv /\ WayInv /\ CountOf(s) /\ CountTypeOK
  BY DEF CountInv
<1>1. \A l \in Run : pc'[s][l] = pc[s][l]
  BY <1>0 DEF InitRoutine, Uninit, SetIdle, RunStarter, Goto, RunInv
<1>2. UNCHANGED <<read, OnWay>>
  BY DEF InitRoutine, Uninit, SetIdle, RunStarter, msgVars, OnWay
<1>3. initialized'[s] = initialized[s]
  BY <1>0 DEF InitRoutine, Uninit, SetIdle, RunStarter, RunInv
<1>4. SameFor(s)
  BY <1>0, <1>3 DEF InitRoutine, Uninit, Reset, SetIdle, RunStarter, counterVars, SameFor,
                    CountTypeOK
<1>5. \A m \in read : m.run \in Run
  BY <1>0 DEF WayInv, Message
<1>6. initialized[s] => \E l \in Run : Working(s, l)'
  BY <1>0, <1>1 DEF CountOf, Working
<1>7. Arrived(s)' = Arrived(s)
  BY <1>2 DEF Arrived
<1> QED BY <1>0, <1>1, <1>2, <1>4, <1>5, <1>6, <1>7, CountKept

\* The routine itself: it starts to count at zero, with nothing due.
LEMMA InitCounts ==
  ASSUME CountInv, NEW r \in Routine, NEW k \in Run, InitRoutine(r, k)
  PROVE  CountOf(r)'
<1>0. RunInv /\ WayInv /\ CountOf(r) /\ CountTypeOK
  BY DEF CountInv
<1>1. /\ pc[r][k] = "init" /\ pc'[r][k] = "dial"
      /\ \A l \in Run : l # k => pc'[r][l] = pc[r][l]
  BY <1>0, GotoMoves DEF InitRoutine, RunInv, Location
<1>2. Alive(r, k) /\ ~Working(r, k)
  BY <1>1 DEF Alive, Working
<1>3. ~initialized[r]
  BY <1>0, <1>2, WorkingAlone DEF CountOf
<1>4. /\ txCount'[r] = 0 /\ ctxCount'[r] = 0 /\ obsoleteSnCount'[r] = 0
      /\ read' = read
  BY <1>0, <1>3 DEF CountOf, InitRoutine, msgVars
<1>5. initialized'[r] /\ Working(r, k)'
  BY <1>0, <1>1 DEF InitRoutine, RunInv, Working
<1>6. leftOver'[r] = OnWay /\ OnWay' = OnWay
  BY <1>0 DEF InitRoutine, CountTypeOK, msgVars, OnWay
<1>7. \A m \in read : m.routine = r => pc'[r][m.run] = "done"
  <2> TAKE m \in read
  <2>1. HAVE m.routine = r
  <2>2. m.run \in Run /\ pc[r][m.run] \notin {"none", "init"}
    BY <1>0, <2>1 DEF WayInv, Message
  <2>3. m.run # k /\ ~Alive(r, m.run)
    BY <1>0, <1>1, <1>2, <2>2 DEF RunInv
  <2> QED BY <1>1, <2>2, <2>3 DEF Alive
<1>8. Counted(r, "tx")' = {} /\ Counted(r, "sn")' = {}
  BY <1>4, <1>6, <1>7 DEF Counted, Due
<1>9. Cardinality({}) = 0
  BY FS_EmptySet
<1> QED BY <1>4, <1>5, <1>6, <1>8, <1>9 DEF CountOf

\* It ends with nothing counted, and waits so.
LEMMA EndCounts ==
  ASSUME CountInv, NEW r \in Routine, NEW k \in Run,
         Uninit(r, k) \/ SetIdle(r, k) \/ RunStarter(r, k)
  PROVE  CountOf(r)'
<1>0. RunInv /\ CountOf(r) /\ CountTypeOK
  BY DEF CountInv
<1>1. CASE Uninit(r, k)
  <2>1. ~initialized'[r]
    BY <1>0, <1>1 DEF Uninit, RunInv
  <2>2. txCount'[r] = 0 /\ ctxCount'[r] = 0 /\ obsoleteSnCount'[r] = 0
    BY <1>0, <1>1 DEF Uninit, Reset, CountTypeOK
  <2> QED BY <2>1, <2>2 DEF CountOf
<1>2. ASSUME ~initialized[r], UNCHANGED <<initialized, counterVars>> PROVE CountOf(r)'
  BY <1>0, <1>2 DEF CountOf, counterVars
<1>3. CASE SetIdle(r, k)
  <2>1. Alive(r, k) /\ ~Working(r, k)
    BY <1>3 DEF SetIdle, Goto, Alive, Working
  <2>2. ~initialized[r]
    BY <1>0, <2>1, WorkingAlone DEF CountOf
  <2> QED BY <1>2, <1>3, <2>2 DEF SetIdle
<1>4. CASE RunStarter(r, k)
  <2>1. ~running[r]
    BY <1>4 DEF RunStarter, Startable
  <2>2. \A l \in Run : ~Working(r, l)
    BY <1>0, <2>1 DEF RunInv, Working, Alive
  <2>3. ~initialized[r]
    BY <1>0, <2>2 DEF CountOf
  <2> QED BY <1>2, <1>4, <2>3 DEF RunStarter
<1> QED BY <1>1, <1>3, <1>4

\* The message the filter takes leaves its way once: the counters of its routine
\* gain what the set of counted messages gains, those of the others nothing.
LEMMA FilterCounts ==
  ASSUME CountInv, FilterMsg, NEW s \in Routine PROVE CountOf(s)'
<1> DEFINE m == Head(toFilterChan)
<1>0. RunInv /\ WayInv /\ CountOf(s) /\ CountTypeOK
  BY DEF CountInv
<1>1. m \in OnWay /\ OnWay' = OnWay \ {m} /\ read' = read
  BY <1>0, FilterTakes
<1>2. m \in read /\ m \in Message /\ m.routine \in Routine /\ m.topic \in {"tx", "sn"}
  <2>1. m \in read /\ m \in Message
    BY <1>0, <1>1, OnWaySub DEF WayInv
  <2> QED BY <2>1 DEF Message, Topic
<1>3. /\ \/ m.topic = "tx" /\ AccountTx(m.routine)
         \/ m.topic = "sn" /\ AccountSn(m.routine)
      /\ pc' = pc /\ initialized' = initialized /\ leftOver' = leftOver
  BY DEF FilterMsg, flagVars
<1> HIDE DEF m
<1>4. CASE m.routine # s
  <2>1. Arrived(s)' = Arrived(s)
    BY <1>1, <1>2, <1>4 DEF Arrived
  <2>2. SameFor(s)
    BY <1>0, <1>3, <1>4 DEF SameFor, AccountTx, AccountSn, CountTypeOK
  <2>3. initialized[s] => \E k \in Run : Working(s, k)'
    BY <1>0, <1>3 DEF CountOf, Working
  <2> QED BY <1>0, <1>1, <1>3, <2>1, <2>2, <2>3, CountKept
<1>5. CASE m.routine = s /\ ~initialized[s]
  <2>1. /\ txCount'[s] = txCount[s] /\ ctxCount'[s] = ctxCount[s]
        /\ obsoleteSnCount'[s] = obsoleteSnCount[s]
    BY <1>3, <1>5 DEF AccountTx, AccountSn
  <2> QED BY <1>0, <1>3, <1>5, <2>1 DEF CountOf
<1>6. CASE m.routine = s /\ initialized[s]
  <2>1. \A topic : Due(s, topic)' = Due(s, topic)
    <3>1. UNCHANGED <<read, pc, leftOver>>
      BY <1>1, <1>3
    <3> QED BY <3>1 DEF Due
  <2>2. m \in Due(s, m.topic)
    BY <1>0, <1>1, <1>2, <1>6 DEF Due, CountOf
  <2>4. \A topic : topic # m.topic => Counted(s, topic)' = Counted(s, topic)
    BY <1>1, <2>1 DEF Counted, Due
  <2>5. ASSUME NEW topic, topic = m.topic
        PROVE  /\ Cardinality(Counted(s, topic)') = Cardinality(Counted(s, topic)) + 1
               /\ Cardinality(Counted(s, topic)) \in Nat
    <3>1. IsFiniteSet(Counted(s, topic)) /\ Cardinality(Counted(s, topic)) \in Nat
      BY <1>0, CountedFinite
    <3>2. m \notin Counted(s, topic)
      BY <1>1 DEF Counted
    <3>3. Counted(s, topic)' = Counted(s, topic) \cup {m}
      BY <1>1, <2>1, <2>2, <2>5 DEF Counted
    <3> HIDE DEF Counted
    <3>4. Cardinality(Counted(s, topic) \cup {m}) =
            IF m \in Counted(s, topic) THEN Cardinality(Counted(s, topic))
                                       ELSE Cardinality(Counted(s, topic)) + 1
      BY <3>1, FS_AddElement
    <3> QED BY <3>1, <3>2, <3>3, <3>4
  <2>6. txCount[s] = Cardinality(Counted(s, "tx"))
        /\ ctxCount[s] + obsoleteSnCount[s] <= Cardinality(Counted(s, "sn"))
    BY <1>0, <1>6 DEF CountOf
  <2>7. txCount[s] \in Nat /\ ctxCount[s] \in Nat /\ obsoleteSnCount[s] \in Nat
    BY <1>0 DEF CountTypeOK
  <2>8. /\ txCount'[s] = Cardinality(Counted(s, "tx")')
        /\ ctxCount'[s] + obsoleteSnCount'[s] <= Cardinality(Counted(s, "sn")')
    <3>1. CASE m.topic = "tx" /\ AccountTx(s)
      <4>1. /\ txCount'[s] = txCount[s] + 1
            /\ ctxCount' = ctxCount /\ obsoleteSnCount' = obsoleteSnCount
        BY <1>0, <1>6, <3>1 DEF AccountTx, CountTypeOK
      <4>2. Counted(s, "sn")' = Counted(s, "sn")
        BY <2>4, <3>1
      <4>3. Cardinality(Counted(s, "tx")') = Cardinality(Counted(s, "tx")) + 1
        BY <2>5, <3>1
      <4> QED BY <4>1, <4>2, <4>3, <2>6
    <3>2. CASE m.topic = "sn" /\ AccountSn(s)
      <4>1. /\ txCount' = txCount
            /\ ctxCount'[s] + obsoleteSnCount'[s] <= ctxCount[s] + obsoleteSnCount[s] + 1
        BY <1>0, <2>7, <3>2 DEF AccountSn, CountTypeOK
      <4>2. Counted(s, "tx")' = Counted(s, "tx")
        BY <2>4, <3>2
      <4>3. Cardinality(Counted(s, "sn")) \in Nat
            /\ Cardinality(Counted(s, "sn")') = Cardinality(Counted(s, "sn")) + 1
        BY <2>5, <3>2
      <4>4. ctxCount'[s] \in Nat /\ obsoleteSnCount'[s] \in Nat
        BY <1>0, <2>7, <3>2 DEF AccountSn, CountTypeOK
      <4>5. txCount'[s] = Cardinality(Counted(s, "tx")')
        BY <4>1, <4>2, <2>6
      <4>6. ctxCount'[s] + obsoleteSnCount'[s] <= Cardinality(Counted(s, "sn")')
        BY <4>1, <4>3, <4>4, <2>6, <2>7
      <4> QED BY <4>5, <4>6
    <3> QED BY <1>3, <1>6, <3>1, <3>2
  <2>9. \E k \in Run : Working(s, k)'
    BY <1>0, <1>3, <1>6 DEF CountOf, Working
  <2>10. \A x \in OnWay' : x.routine = s /\ pc'[s][x.run] = "done" => x \in leftOver'[s]
    BY <1>0, <1>1, <1>3, <1>6 DEF CountOf
  <2> QED BY <1>3, <1>6, <2>8, <2>9, <2>10 DEF CountOf
<1> QED BY <1>4, <1>5, <1>6

\* The strengthening is inductive.
LEMMA CountInvStep == CountInv /\ [Next]_vars => CountInv'
<1> SUFFICES ASSUME CountInv, [Next]_vars PROVE CountInv'
  OBVIOUS
<1>1. RunInv' /\ WayInv' /\ CountTypeOK'
  BY RunInvStep, WayStep, CountTypeStep DEF CountInv
<1>2. ASSUME NEW s \in Routine PROVE CountOf(s)'
  <2>1. ASSUME UNCHANGED <<flagVars, counterVars, pc, msgVars, leftOver>>
        PROVE  CountOf(s)'
    <3>1. CountOf(s) /\ UNCHANGED <<initialized, txCount, ctxCount, obsoleteSnCount, pc,
                                    read, blocked, toFilterChan, leftOver>>
      BY <2>1 DEF flagVars, counterVars, msgVars, CountInv
    <3>2. OnWay' = OnWay
      BY <3>1 DEF OnWay
    <3>3. Counted(s, "tx")' = Counted(s, "tx") /\ Counted(s, "sn")' = Counted(s, "sn")
      BY <3>1, <3>2 DEF Counted, Due
    <3>4. \A k \in Run : Working(s, k) <=> Working(s, k)'
      BY <3>1 DEF Working
    <3> QED BY <3>1, <3>2, <3>3, <3>4 DEF CountOf
  <2>2. CASE UNCHANGED vars
    BY <2>1, <2>2 DEF vars
  <2>3. CASE StartEchoLatencyRoutine \/ \E r \in Routine : CreateInputRoutine(r)
    BY <2>1, <2>3 DEF StartEchoLatencyRoutine, CreateInputRoutine
  <2>4. CASE FilterMsg
    BY <2>4, FilterCounts
  <2>5. ASSUME NEW r \in Routine, NEW k \in Run, RunStarter(r, k) \/ RoutineStep(r, k)
        PROVE  CountOf(s)'
    <3>1. CASE s = r
      BY <2>5, <3>1, WorkCountKept, InitCounts, EndCounts DEF RoutineStep
    <3>2. CASE s # r
      BY <2>5, <3>2, WorkCountKept, OtherRoutineKept DEF RoutineStep
    <3> QED BY <3>1, <3>2
  <2> QED BY <2>2, <2>3, <2>4, <2>5 DEF Next
<1> QED BY <1>1, <1>2 DEF CountInv

\* What the invariants above leave of the types.
RestTypeOK ==
  /\ added \subseteq Routine /\ echoReady \in BOOLEAN /\ crashed \in BOOLEAN
  /\ Len(toFilterChan) <= ChanBufSize

\* Every step keeps the rest of the types.
LEMMA RestTypeStep == WayInv /\ RestTypeOK /\ [Next]_vars => RestTypeOK'
<1> SUFFICES ASSUME WayInv, RestTypeOK, [Next]_vars PROVE RestTypeOK'
  OBVIOUS
<1>1. ASSUME UNCHANGED <<startVars, crashed, toFilterChan>> PROVE RestTypeOK'
  BY <1>1 DEF RestTypeOK, startVars
<1>2. CASE StartEchoLatencyRoutine \/ \E r \in Routine : CreateInputRoutine(r)
  BY <1>2 DEF RestTypeOK, StartEchoLatencyRoutine, CreateInputRoutine, msgVars
<1>3. ASSUME NEW r \in Routine, NEW k \in Run, ToFilter(r, k) PROVE RestTypeOK'
  <2>1. UNCHANGED <<startVars, crashed>> /\ Len(toFilterChan) < ChanBufSize
    BY <1>3 DEF ToFilter
  <2>2. PICK m \in Message : toFilterChan' = Append(toFilterChan, m)
    BY <1>3 DEF ToFilter, WayInv
  <2>3. Len(toFilterChan') = Len(toFilterChan) + 1 /\ Len(toFilterChan) \in Nat
    BY <2>2 DEF WayInv
  <2> QED BY <2>1, <2>3, BoundAssumption DEF RestTypeOK, startVars
<1>4. CASE FilterMsg
  <2>1. Len(toFilterChan') = Len(toFilterChan) - 1 /\ Len(toFilterChan) \in Nat
    BY <1>4 DEF FilterMsg, WayInv
  <2>2. UNCHANGED startVars /\ \E r : AccountTx(r) \/ AccountSn(r)
    BY <1>4 DEF FilterMsg
  <2>3. crashed' \in BOOLEAN
    BY <2>2, Zenon DEF AccountTx, AccountSn, RestTypeOK
  <2> QED BY <2>1, <2>2, <2>3, BoundAssumption DEF RestTypeOK, startVars
<1>5. ASSUME NEW r \in Routine, NEW k \in Run,
             RunStarter(r, k) \/ InitRoutine(r, k) \/ OpenSocket(r, k) \/ RecvMsg(r, k)
               \/ RecvFails(r, k) \/ Uninit(r, k) \/ SetIdle(r, k)
      PROVE  RestTypeOK'
  BY <1>1, <1>5 DEF RunStarter, InitRoutine, OpenSocket, RecvMsg, RecvFails, Uninit,
                    SetIdle, msgVars
<1>6. CASE UNCHANGED vars
  BY <1>1, <1>6 DEF vars, msgVars
<1> QED BY <1>2, <1>3, <1>4, <1>5, <1>6 DEF Next, RoutineStep

\* The strengthening holds at every time.
LEMMA CountInvAlways == Spec => []CountInv
<1>1. Init => CountInv
  <2> SUFFICES ASSUME Init PROVE CountInv
    OBVIOUS
  <2>1. RunInv
    BY RunInvInit
  <2>2. WayInv
    <3>1. toFilterChan = <<>> /\ blocked = {} /\ read = {} /\ Len(toFilterChan) = 0
      BY DEF Init
    <3>2. toFilterChan \in Seq(Message) /\ IsFiniteSet(read)
      BY <3>1, FS_EmptySet
    <3> QED BY <3>1, <3>2 DEF WayInv
  <2>3. CountTypeOK
    BY DEF Init, CountTypeOK
  <2>4. \A r \in Routine : CountOf(r)
    BY DEF Init, CountOf
  <2> QED BY <2>1, <2>2, <2>3, <2>4 DEF CountInv
<1> QED BY <1>1, CountInvStep, PTL DEF Spec

\* While a routine works its counters are exact, for any routines, runs, messages
\* and capacity of the channel, though messages of earlier runs still arrive
\* (inroutines.go:118-147, msgfilter.go:108).
THEOREM CountsExactAlways == Spec => []CountsExact
<1>1. CountInv => CountsExact
  BY DEF CountInv, CountOf, Counted, CountsExact
<1> QED BY <1>1, CountInvAlways, PTL

\* Every variable keeps its type, and the channel its capacity.
THEOREM TypeCorrect == Spec => []TypeOK
<1>1. Init => RestTypeOK
  <2> SUFFICES ASSUME Init PROVE RestTypeOK
    OBVIOUS
  <2>1. Len(toFilterChan) = 0 /\ added = {} /\ echoReady = FALSE /\ crashed = FALSE
    BY DEF Init
  <2>2. Len(toFilterChan) <= ChanBufSize
    BY <2>1, BoundAssumption
  <2>3. added \subseteq Routine
    BY <2>1
  <2>4. echoReady \in BOOLEAN /\ crashed \in BOOLEAN
    BY <2>1, Zenon
  <2> QED BY <2>2, <2>3, <2>4 DEF RestTypeOK
<1>2. CountInv /\ RestTypeOK => TypeOK
  <2> SUFFICES ASSUME CountInv, RestTypeOK PROVE TypeOK
    OBVIOUS
  <2>1. /\ {running, initialized, buffers} \subseteq [Routine -> BOOLEAN]
        /\ pc \in [Routine -> [Run -> Location]]
    BY DEF CountInv, RunInv
  <2>2. /\ {txCount, ctxCount, obsoleteSnCount} \subseteq [Routine -> Nat]
        /\ leftOver \in [Routine -> SUBSET Message]
    BY DEF CountInv, CountTypeOK
  <2>3. toFilterChan \in Seq(Message) /\ {blocked, read} \subseteq SUBSET Message
    BY DEF CountInv, WayInv
  <2>4. {echoReady, crashed} \subseteq BOOLEAN
    BY DEF RestTypeOK
  <2> QED BY <2>1, <2>2, <2>3, <2>4 DEF RestTypeOK, TypeOK
<1>3. CountInv => WayInv
  BY DEF CountInv
<1>4. Spec => []RestTypeOK
  BY <1>1, <1>3, CountInvAlways, RestTypeStep, PTL DEF Spec
<1> QED BY <1>2, <1>4, CountInvAlways, PTL
=============================================================================
