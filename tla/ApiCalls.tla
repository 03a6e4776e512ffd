------------------------------ MODULE ApiCalls ------------------------------
(***************************************************************************)
(* Calls of the node API: lib/multiapi asks every endpoint of a list at    *)
(* once and returns the first answer that is no error, and the counter of  *)
(* errors of tbsender/apierrorcount.go that may end the program.           *)
(*                                                                         *)
(* A call to several endpoints is a goroutine for each, one that collects  *)
(* their answers from an unbuffered channel, one that closes the channel   *)
(* after the last, and the caller.  The endpoints are external: they       *)
(* answer, with a result or an error, or they do not.  A call's arguments  *)
(* and results are left out; the functions of the API differ only in       *)
(* these, and an empty answer of FindTransactions is an error.             *)
(***************************************************************************)
EXTENDS Integers, Sequences, FiniteSets

CONSTANTS
  Call,        \* the calls made
  Endpoint,    \* the endpoints configured
  Condition,   \* the enabled exit conditions: [window, threshold]
  MaxWindow,   \* how long errors are kept: the 10 minutes of cleanOldErrors
  CleanAbove,  \* the number of errors up to which nothing is cleaned
  MaxOther,    \* the number of errors of local operations (a bound)
  MaxClock     \* the end of time (a bound)

ASSUME ConditionAssumption ==
  /\ Condition \subseteq [window : 1..MaxWindow, threshold : Nat]
  /\ MaxWindow \in Nat /\ CleanAbove \in Nat
  /\ MaxOther \in Nat /\ MaxClock \in Nat

VARIABLES
  pc,        \* pc[c]: where the caller is
  asked,     \* asked[c]: the endpoints of the call
  asker,     \* asker[c][e]: the goroutine that asks e
  answer,    \* answer[c][e]: what e has answered
  closed,    \* closed[c]: chInterimResult is closed
  collects,  \* collects[c]: the collecting goroutine runs
  lastRes,   \* lastRes[c]: the endpoint of the last answer collected
  result,    \* result[c]: the endpoint whose answer is the call's result
  errorTs,   \* the times of errors, as the counter keeps them
  failures,  \* the times of all errors (history)
  other,     \* the number of local errors
  clock, exited

callVars == <<pc, asked, asker, answer, closed, collects, lastRes, result>>
errorVars == <<errorTs, failures, other>>
vars == <<callVars, errorVars, clock, exited>>

Nobody == "nobody"
ASSUME NobodyAssumption == Nobody \notin Endpoint

Init ==
  /\ pc = [c \in Call |-> "idle"]
  /\ asked = [c \in Call |-> {}]
  /\ asker = [c \in Call |-> [e \in Endpoint |-> "none"]]
  /\ answer = [c \in Call |-> [e \in Endpoint |-> "none"]]
  /\ closed = [c \in Call |-> FALSE]
  /\ collects = [c \in Call |-> FALSE]
  /\ lastRes = [c \in Call |-> Nobody]
  /\ result = [c \in Call |-> Nobody]
  /\ errorTs = <<>> /\ failures = <<>> /\ other = 0
  /\ clock = 0 /\ exited = FALSE

-----------------------------------------------------------------------------
\* With one endpoint, or several of which only the first is asked, the caller
\* asks itself.
CallFirst(c) ==
  /\ pc[c] = "idle"
  /\ \E e \in Endpoint : asked' = [asked EXCEPT ![c] = {e}]
  /\ pc' = [pc EXCEPT ![c] = "asks"]
  /\ UNCHANGED <<asker, answer, closed, collects, lastRes, result, errorVars, clock, exited>>

FirstAnswers(c) ==
  /\ pc[c] = "asks"
  /\ \E e \in asked[c], a \in {"ok", "err"} :
       /\ answer' = [answer EXCEPT ![c][e] = a]
       /\ result' = [result EXCEPT ![c] = e]
  /\ pc' = [pc EXCEPT ![c] = "returned"]
  /\ UNCHANGED <<asked, asker, closed, collects, lastRes, errorVars, clock, exited>>

\* The call of several endpoints starts all goroutines.
MultiCall(c) ==
  /\ pc[c] = "idle"
  /\ \E es \in SUBSET Endpoint :
       /\ Cardinality(es) > 1
       /\ asked' = [asked EXCEPT ![c] = es]
       /\ asker' = [asker EXCEPT ![c] = [e \in Endpoint |-> IF e \in es THEN "asks" ELSE "none"]]
  /\ collects' = [collects EXCEPT ![c] = TRUE]
  /\ pc' = [pc EXCEPT ![c] = "waits"]
  /\ UNCHANGED <<answer, closed, lastRes, result, errorVars, clock, exited>>

\* An endpoint answers, or the client's timeout makes an error of its silence.
EndpointAnswers(c, e) ==
  /\ asker[c][e] = "asks"
  /\ \E a \in {"ok", "err"} : answer' = [answer EXCEPT ![c][e] = a]
  /\ asker' = [asker EXCEPT ![c][e] = "sends"]
  /\ UNCHANGED <<pc, asked, closed, collects, lastRes, result, errorVars, clock, exited>>

\* The goroutine that has sent its answer ends: wg.Done.
AskerEnds(c, e) ==
  /\ asker[c][e] = "ends"
  /\ asker' = [asker EXCEPT ![c][e] = "done"]
  /\ UNCHANGED <<pc, asked, answer, closed, collects, lastRes, result, errorVars, clock, exited>>

\* The call has goroutines.
Many(c) == \E e \in Endpoint : asker[c][e] # "none"

\* wg.Wait has returned.
CloseChannel(c) ==
  /\ Many(c) /\ ~closed[c]
  /\ \A e \in asked[c] : asker[c][e] = "done"
  /\ closed' = [closed EXCEPT ![c] = TRUE]
  /\ UNCHANGED <<pc, asked, asker, answer, collects, lastRes, result, errorVars, clock, exited>>

\* The first answer is the result, whatever it is.
Mut_Releases(c, e) == result[c] = Nobody

\* The first answer without an error is the result: the caller goes on.
Releases(c, e) == result[c] = Nobody /\ answer[c][e] = "ok"

\* Answers are taken until the first that is the result.
Mut_Collect(c, e) ==
  /\ collects[c] /\ asker[c][e] = "sends"
  /\ asker' = [asker EXCEPT ![c][e] = "ends"]
  /\ lastRes' = [lastRes EXCEPT ![c] = e]
  /\ result' = IF Releases(c, e) THEN [result EXCEPT ![c] = e] ELSE result
  /\ collects' = [collects EXCEPT ![c] = ~Releases(c, e)]
  /\ UNCHANGED <<pc, asked, answer, closed, errorVars, clock, exited>>

\* Every answer is taken, so that every goroutine can end.
Collect(c, e) ==
  /\ collects[c] /\ asker[c][e] = "sends"
  /\ asker' = [asker EXCEPT ![c][e] = "ends"]
  /\ lastRes' = [lastRes EXCEPT ![c] = e]
  /\ result' = IF Releases(c, e) THEN [result EXCEPT ![c] = e] ELSE result
  /\ UNCHANGED <<pc, asked, answer, closed, collects, errorVars, clock, exited>>

\* After the close the last answer is the result if all were errors.
CollectEnds(c) ==
  /\ collects[c] /\ closed[c]
  /\ collects' = [collects EXCEPT ![c] = FALSE]
  /\ result' = IF result[c] = Nobody THEN [result EXCEPT ![c] = lastRes[c]] ELSE result
  /\ UNCHANGED <<pc, asked, asker, answer, closed, lastRes, errorVars, clock, exited>>

\* Waits for the end of the collector.
Mut_Return(c) ==
  /\ pc[c] = "waits" /\ ~collects[c] /\ result[c] # Nobody
  /\ pc' = [pc EXCEPT ![c] = "returned"]
  /\ UNCHANGED <<asked, asker, answer, closed, collects, lastRes, result, errorVars, clock, exited>>

\* waitResult.Wait has returned.
Return(c) ==
  /\ pc[c] = "waits" /\ result[c] # Nobody
  /\ pc' = [pc EXCEPT ![c] = "returned"]
  /\ UNCHANGED <<asked, asker, answer, closed, collects, lastRes, result, errorVars, clock, exited>>

-----------------------------------------------------------------------------
\* addError
AddError ==
  /\ errorTs' = Append(errorTs, clock)
  /\ failures' = Append(failures, clock)

\* CheckError, by the caller
CheckError(c) ==
  /\ pc[c] = "returned"
  /\ pc' = [pc EXCEPT ![c] = "checked"]
  /\ \/ answer[c][result[c]] = "err" /\ AddError
     \/ answer[c][result[c]] = "ok" /\ UNCHANGED <<errorTs, failures>>
  /\ UNCHANGED <<asked, asker, answer, closed, collects, lastRes, result, other, clock, exited>>

\* The error of an operation that asks no endpoint is counted as well.
OtherError ==
  /\ other < MaxOther
  /\ other' = other + 1
  /\ AddError
  /\ UNCHANGED <<callVars, clock, exited>>

\* Keeps what every window still needs but the longest.
Mut_KeepsError(ts) == clock - ts < MaxWindow - 1

KeepsError(ts) == clock - ts < MaxWindow

\* The loop of cleanOldErrors, which copies what it keeps.
Kept ==
  LET tmp[i \in 0..Len(errorTs)] ==
        IF i = 0 THEN <<>>
        ELSE IF KeepsError(errorTs[i]) THEN Append(tmp[i - 1], errorTs[i])
        ELSE tmp[i - 1]
  IN  tmp[Len(errorTs)]

\* cleanOldErrors, now and then
CleanOldErrors ==
  /\ Len(errorTs) > CleanAbove
  /\ errorTs' = Kept
  /\ UNCHANGED <<callVars, failures, other, clock, exited>>

\* The loop of check1minCondition and check10minCondition compares its count
\* before it looks at an error.
Exceeded(cond) ==
  \E i \in DOMAIN errorTs :
    Cardinality({j \in 1..(i - 1) : clock - errorTs[j] < cond.window}) >= cond.threshold

\* checkErrorCounter, now and then
CheckErrorCounter ==
  /\ exited' = (\E cond \in Condition : Exceeded(cond))
  /\ UNCHANGED <<callVars, errorVars, clock>>

Tick ==
  /\ clock < MaxClock
  /\ clock' = clock + 1
  /\ UNCHANGED <<callVars, errorVars, exited>>

-----------------------------------------------------------------------------
CallStep(c) ==
  \/ CallFirst(c)
  \/ FirstAnswers(c)
  \/ MultiCall(c)
  \/ CloseChannel(c)
  \/ CollectEnds(c)
  \/ Return(c)
  \/ CheckError(c)
  \/ \E e \in Endpoint : EndpointAnswers(c, e) \/ AskerEnds(c, e) \/ Collect(c, e)

Next ==
  /\ ~exited
  /\ \/ \E c \in Call : CallStep(c)
     \/ OtherError
     \/ CleanOldErrors
     \/ CheckErrorCounter
     \/ Tick

Spec == Init /\ [][Next]_vars

\* The goroutines of a call and its caller go on when they can.  No endpoint
\* need answer.
FairSpec ==
  /\ Spec
  /\ \A c \in Call :
       /\ WF_vars(~exited /\ (CloseChannel(c) \/ CollectEnds(c)))
       /\ WF_vars(~exited /\ (Return(c) \/ CheckError(c)))
       /\ \A e \in Endpoint : WF_vars(~exited /\ (AskerEnds(c, e) \/ Collect(c, e)))

-----------------------------------------------------------------------------
\* A call fails only if every endpoint asked has failed, and otherwise returns
\* the answer of one that has not, whichever goroutine was first
\* (multicall.go:97-106).
FailsOnlyIfAll ==
  \A c \in Call : pc[c] \in {"returned", "checked"} =>
    /\ result[c] \in asked[c]
    /\ \/ answer[c][result[c]] = "ok"
       \/ \A e \in asked[c] : answer[c][e] = "err"

\* A check of the counter ends the program if more errors than a threshold have
\* happened within its window, and only then unless the threshold is zero, when
\* an error of any age that is still kept is enough: what was cleaned would not
\* have counted, and the comparison before the look at an error is otherwise the
\* same as one after the loop (apierrorcount.go:61-126).
ExitExact ==
  \A cond \in Condition :
    LET recent ==
          Cardinality({i \in DOMAIN failures : clock - failures[i] < cond.window})
    IN  /\ recent > cond.threshold => Exceeded(cond)
        /\ Exceeded(cond) /\ cond.threshold > 0 => recent > cond.threshold

\* One good answer is enough: the caller goes on though others never answer.
FirstAnswerReturned ==
  \A c \in Call :
    (\E e \in Endpoint : asker[c][e] = "sends" /\ answer[c][e] = "ok")
      ~> exited \/ pc[c] = "checked"

\* When all have answered, no goroutine is left behind on the channel, whoever
\* of them was late.
NothingLeft ==
  \A c \in Call :
    (Many(c) /\ \A e \in asked[c] : answer[c][e] # "none")
      ~> exited \/ /\ pc[c] = "checked" /\ closed[c] /\ ~collects[c]
                   /\ \A e \in Endpoint : asker[c][e] \in {"none", "done"}
=============================================================================
