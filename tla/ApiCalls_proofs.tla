--------------------------- MODULE ApiCalls_proofs ---------------------------
(***************************************************************************)
(* Proofs about ApiCalls: what a call returns, for any calls and any       *)
(* endpoints, and when the counter of errors ends the program, for any     *)
(* conditions and any errors.                                              *)
(***************************************************************************)
EXTENDS ApiCalls, WellFoundedInduction, FiniteSetTheorems, TLAPS

Place == {"idle", "asks", "waits", "returned", "checked"}
Asker == {"none", "asks", "sends", "ends", "done"}

\* Every variable of the calls has its type.
CallTypeOK ==
  /\ pc \in [Call -> Place]
  /\ asked \in [Call -> SUBSET Endpoint]
  /\ asker \in [Call -> [Endpoint -> Asker]]
  /\ answer \in [Call -> [Endpoint -> {"none", "ok", "err"}]]
  /\ closed \in [Call -> BOOLEAN]
  /\ collects \in [Call -> BOOLEAN]
  /\ lastRes \in [Call -> Endpoint \cup {Nobody}]
  /\ result \in [Call -> Endpoint \cup {Nobody}]

\* A call that has no goroutines yet.
Fresh(c) ==
  /\ \A e \in Endpoint : asker[c][e] = "none"
  /\ ~closed[c] /\ ~collects[c]
  /\ lastRes[c] = Nobody /\ result[c] = Nobody

\* The goroutine of e has given its answer to the collector.
Collected(c, e) == asker[c][e] \in {"ends", "done"}

\* Where the goroutines are tells what the answers are and what was chosen.
AnswersOf(c) ==
  \A e \in Endpoint :
    /\ asker[c][e] # "none" => e \in asked[c]
    /\ asker[c][e] \in {"sends", "ends", "done"} => answer[c][e] \in {"ok", "err"}
    /\ Collected(c, e) => lastRes[c] # Nobody
    /\ Collected(c, e) /\ result[c] = Nobody => answer[c][e] = "err"

\* The result is good, or no endpoint is still asked and all have failed.
ResultOf(c) ==
  result[c] # Nobody =>
    /\ result[c] \in asked[c]
    /\ \/ answer[c][result[c]] = "ok" /\ asker[c][result[c]] # "asks"
       \/ \A e \in asked[c] : answer[c][e] = "err" /\ asker[c][e] # "asks"

CallInv(c) ==
  /\ pc[c] \in {"idle", "asks"} => Fresh(c)
  /\ pc[c] = "asks" => \A d, e \in asked[c] : d = e
  /\ pc[c] \in {"returned", "checked"} => result[c] # Nobody
  /\ lastRes[c] # Nobody => lastRes[c] \in asked[c]
  /\ closed[c] => Many(c) /\ \A e \in asked[c] : asker[c][e] = "done"
  /\ AnswersOf(c)
  /\ ResultOf(c)

\* The strengthening of FailsOnlyIfAll.
ApiInv == CallTypeOK /\ \A c \in Call : CallInv(c)

\* The variables of one call.
CallUnchanged(d) ==
  /\ pc'[d] = pc[d] /\ asked'[d] = asked[d] /\ asker'[d] = asker[d]
  /\ answer'[d] = answer[d] /\ closed'[d] = closed[d] /\ collects'[d] = collects[d]
  /\ lastRes'[d] = lastRes[d] /\ result'[d] = result[d]

\* A step that leaves a call alone keeps what holds of it.
LEMMA UnchangedKeeps ==
  ASSUME NEW d \in Call, CallInv(d), CallUnchanged(d) PROVE CallInv(d)'
BY DEF CallInv, CallUnchanged, Fresh, Many, AnswersOf, Collected, ResultOf

\* Every step of a call keeps the types and leaves the other calls alone.
LEMMA CallStepTypes ==
  ASSUME CallTypeOK, NEW c \in Call, CallStep(c)
  PROVE  CallTypeOK' /\ \A d \in Call \ {c} : CallUnchanged(d)
<1> USE DEF CallTypeOK, CallUnchanged, Place, Asker
<1>1. CASE CallFirst(c)
  BY <1>1 DEF CallFirst
<1>2. CASE FirstAnswers(c)
  BY <1>2 DEF FirstAnswers
<1>3. CASE MultiCall(c)
  BY <1>3 DEF MultiCall
<1>4. CASE CloseChannel(c)
  BY <1>4 DEF CloseChannel
<1>5. CASE CollectEnds(c)
  BY <1>5 DEF CollectEnds
<1>6. CASE Return(c)
  BY <1>6 DEF Return
<1>7. CASE CheckError(c)
  BY <1>7 DEF CheckError
<1>8. ASSUME NEW e \in Endpoint, EndpointAnswers(c, e)
      PROVE  CallTypeOK' /\ \A d \in Call \ {c} : CallUnchanged(d)
  BY <1>8 DEF EndpointAnswers
<1>9. ASSUME NEW e \in Endpoint, AskerEnds(c, e)
      PROVE  CallTypeOK' /\ \A d \in Call \ {c} : CallUnchanged(d)
  BY <1>9 DEF AskerEnds
<1>10. ASSUME NEW e \in Endpoint, Collect(c, e)
       PROVE  CallTypeOK' /\ \A d \in Call \ {c} : CallUnchanged(d)
  BY <1>10 DEF Collect
<1> QED BY <1>1, <1>2, <1>3, <1>4, <1>5, <1>6, <1>7, <1>8, <1>9, <1>10 DEF CallStep

-----------------------------------------------------------------------------
\* The start of a call leaves no trace of an answer.
LEMMA StartKeeps ==
  ASSUME CallTypeOK, NEW c \in Call, CallInv(c), CallFirst(c) \/ MultiCall(c)
  PROVE  CallInv(c)'
<1>0. /\ Fresh(c)
      /\ UNCHANGED <<answer, closed, lastRes, result>>
  BY DEF CallInv, CallFirst, MultiCall
<1>1. CASE CallFirst(c)
  <2>1. pc'[c] = "asks" /\ UNCHANGED <<asker, collects>>
    BY <1>1 DEF CallFirst, CallTypeOK
  <2>2. \A d, e \in asked'[c] : d = e
    BY <1>1 DEF CallFirst, CallTypeOK
  <2> QED BY <1>0, <2>1, <2>2 DEF CallInv, Fresh, AnswersOf, Collected, ResultOf
<1>2. CASE MultiCall(c)
  <2>1. PICK es \in SUBSET Endpoint :
          /\ asked'[c] = es
          /\ asker'[c] = [e \in Endpoint |-> IF e \in es THEN "asks" ELSE "none"]
    BY <1>2 DEF MultiCall, CallTypeOK
  <2>2. pc'[c] = "waits"
    BY <1>2 DEF MultiCall, CallTypeOK
  <2> QED BY <1>0, <2>1, <2>2 DEF CallInv, Fresh, AnswersOf, Collected, ResultOf
<1> QED BY <1>1, <1>2

\* The answer to the caller itself is the result, good or bad.
LEMMA FirstAnswersKeeps ==
  ASSUME CallTypeOK, NEW c \in Call, CallInv(c), FirstAnswers(c) PROVE CallInv(c)'
<1>0. /\ Fresh(c) /\ pc[c] = "asks"
      /\ UNCHANGED <<asked, asker, closed, lastRes>>
      /\ pc'[c] = "returned"
  BY DEF CallInv, FirstAnswers, CallTypeOK
<1>1. PICK e \in asked[c] : \E a \in {"ok", "err"} :
        /\ answer' = [answer EXCEPT ![c][e] = a]
        /\ result' = [result EXCEPT ![c] = e]
  BY DEF FirstAnswers
<1>2. PICK a \in {"ok", "err"} : answer' = [answer EXCEPT ![c][e] = a]
  BY <1>1
<1>3. e \in Endpoint /\ answer'[c][e] = a /\ result'[c] = e
  BY <1>1, <1>2 DEF CallTypeOK
<1>4. \A f \in asked'[c] : f = e
  BY <1>0, <1>1 DEF CallInv
<1>5. AnswersOf(c)'
  BY <1>0 DEF AnswersOf, Collected, Fresh
<1>6. ResultOf(c)'
  BY <1>0, <1>1, <1>3, <1>4 DEF ResultOf, Fresh
<1>7. result'[c] # Nobody
  BY <1>3, NobodyAssumption
<1> QED BY <1>0, <1>5, <1>6, <1>7 DEF CallInv, Fresh

\* A goroutine's answer is not chosen before it is collected.
LEMMA EndpointAnswersKeeps ==
  ASSUME CallTypeOK, NEW c \in Call, CallInv(c),
         NEW e \in Endpoint, EndpointAnswers(c, e)
  PROVE  CallInv(c)'
<1>0. asker[c][e] = "asks" /\ UNCHANGED <<pc, asked, closed, collects, lastRes, result>>
  BY DEF EndpointAnswers
<1>1. PICK a \in {"ok", "err"} : answer' = [answer EXCEPT ![c][e] = a]
  BY DEF EndpointAnswers
<1>2. asker' = [asker EXCEPT ![c][e] = "sends"]
  BY DEF EndpointAnswers
<1>3. /\ answer'[c][e] = a /\ asker'[c][e] = "sends"
      /\ \A d \in Endpoint \ {e} : answer'[c][d] = answer[c][d] /\ asker'[c][d] = asker[c][d]
  BY <1>1, <1>2 DEF CallTypeOK
<1>4. pc[c] \notin {"idle", "asks"} /\ ~closed[c] /\ e \in asked[c]
  BY <1>0 DEF CallInv, Fresh, AnswersOf
<1>5. AnswersOf(c)'
  BY <1>0, <1>3, <1>4 DEF CallInv, AnswersOf, Collected
<1>6. ResultOf(c)'
  <2>1. ASSUME result[c] # Nobody
        PROVE  /\ result[c] \in asked[c] /\ result[c] # e
               /\ answer[c][result[c]] = "ok" /\ asker[c][result[c]] # "asks"
    BY <2>1, <1>0, <1>4 DEF CallInv, ResultOf
  <2>2. asked[c] \subseteq Endpoint
    BY DEF CallTypeOK
  <2> QED BY <2>1, <2>2, <1>0, <1>3 DEF ResultOf
<1> QED BY <1>0, <1>4, <1>5, <1>6 DEF CallInv

\* A goroutine that ends has been collected.
LEMMA AskerEndsKeeps ==
  ASSUME CallTypeOK, NEW c \in Call, CallInv(c), NEW e \in Endpoint, AskerEnds(c, e)
  PROVE  CallInv(c)'
<1>0. /\ asker[c][e] = "ends"
      /\ UNCHANGED <<pc, asked, answer, closed, collects, lastRes, result>>
  BY DEF AskerEnds
<1>1. /\ asker'[c][e] = "done"
      /\ \A d \in Endpoint \ {e} : asker'[c][d] = asker[c][d]
  BY DEF AskerEnds, CallTypeOK
<1>2. pc[c] \notin {"idle", "asks"} /\ ~closed[c] /\ asked[c] \subseteq Endpoint
  BY <1>0 DEF CallInv, Fresh, AnswersOf, CallTypeOK
<1>3. AnswersOf(c)'
  BY <1>0, <1>1 DEF CallInv, AnswersOf, Collected
<1>4. ResultOf(c)'
  BY <1>0, <1>1, <1>2 DEF CallInv, ResultOf
<1> QED BY <1>0, <1>2, <1>3, <1>4 DEF CallInv

\* The collector takes an answer: the first that is no error is the result.
LEMMA CollectKeeps ==
  ASSUME CallTypeOK, NEW c \in Call, CallInv(c), NEW e \in Endpoint, Collect(c, e)
  PROVE  CallInv(c)'
<1>0. /\ collects[c] /\ asker[c][e] = "sends"
      /\ UNCHANGED <<pc, asked, answer, closed, collects>>
      /\ lastRes'[c] = e
  BY DEF Collect, CallTypeOK
<1>1. /\ asker'[c][e] = "ends"
      /\ \A d \in Endpoint \ {e} : asker'[c][d] = asker[c][d]
  BY DEF Collect, CallTypeOK
<1>2. /\ pc[c] \notin {"idle", "asks"} /\ ~closed[c]
      /\ e \in asked[c] /\ asked[c] \subseteq Endpoint
      /\ answer[c][e] \in {"ok", "err"}
  BY <1>0 DEF CallInv, Fresh, AnswersOf, CallTypeOK
<1>3. result'[c] = IF Releases(c, e) THEN e ELSE result[c]
  BY DEF Collect, CallTypeOK
<1>4. e # Nobody
  BY NobodyAssumption
<1>5. AnswersOf(c)'
  BY <1>0, <1>1, <1>2, <1>3, <1>4 DEF CallInv, AnswersOf, Collected, Releases
<1>6. ResultOf(c)'
  <2>1. CASE Releases(c, e)
    BY <2>1, <1>0, <1>1, <1>2, <1>3 DEF ResultOf, Releases
  <2>2. CASE ~Releases(c, e)
    BY <2>2, <1>0, <1>1, <1>2, <1>3 DEF CallInv, ResultOf
  <2> QED BY <2>1, <2>2
<1>7. result[c] # Nobody => result'[c] # Nobody
  BY <1>3, <1>4
<1> QED BY <1>0, <1>2, <1>4, <1>5, <1>6, <1>7 DEF CallInv

\* After the close all have answered: without a good answer the last one is taken.
LEMMA CollectEndsKeeps ==
  ASSUME CallTypeOK, NEW c \in Call, CallInv(c), CollectEnds(c) PROVE CallInv(c)'
<1>0. closed[c] /\ collects[c] /\ UNCHANGED <<pc, asked, asker, answer, closed, lastRes>>
  BY DEF CollectEnds
<1>1. /\ pc[c] \notin {"idle", "asks"} /\ asked[c] \subseteq Endpoint
      /\ \A e \in asked[c] : asker[c][e] = "done"
      /\ \E e \in Endpoint : asker[c][e] # "none"
  BY <1>0 DEF CallInv, Fresh, CallTypeOK, Many
<1>2. result'[c] = IF result[c] = Nobody THEN lastRes[c] ELSE result[c]
  BY DEF CollectEnds, CallTypeOK
<1>3. lastRes[c] # Nobody /\ lastRes[c] \in asked[c]
  BY <1>1 DEF CallInv, AnswersOf, Collected
<1>4. result[c] = Nobody => \A e \in asked[c] : answer[c][e] = "err" /\ asker[c][e] # "asks"
  BY <1>1 DEF CallInv, AnswersOf, Collected
<1>5. AnswersOf(c)'
  BY <1>0, <1>2, <1>3 DEF CallInv, AnswersOf, Collected
<1>6. ResultOf(c)'
  BY <1>0, <1>2, <1>3, <1>4 DEF CallInv, ResultOf
<1>7. result[c] # Nobody => result'[c] # Nobody
  BY <1>2
<1> QED BY <1>0, <1>1, <1>5, <1>6, <1>7 DEF CallInv, Many

\* The steps that only move the caller or close the channel.
LEMMA OthersKeep ==
  ASSUME CallTypeOK, NEW c \in Call, CallInv(c),
         CloseChannel(c) \/ Return(c) \/ CheckError(c)
  PROVE  CallInv(c)'
<1>0. UNCHANGED <<asked, asker, answer, collects, lastRes, result>>
  BY DEF CloseChannel, Return, CheckError
<1>1. AnswersOf(c)' /\ ResultOf(c)'
  BY <1>0 DEF CallInv, AnswersOf, Collected, ResultOf
<1>2. CASE CloseChannel(c)
  <2>1. Many(c) /\ (\A e \in asked[c] : asker[c][e] = "done") /\ pc' = pc
    BY <1>2 DEF CloseChannel
  <2>2. pc[c] \notin {"idle", "asks"}
    BY <2>1 DEF CallInv, Fresh, Many
  <2> QED BY <1>0, <1>1, <2>1, <2>2 DEF CallInv, Many
<1>3. CASE Return(c) \/ CheckError(c)
  <2>1. /\ pc'[c] \in {"returned", "checked"} /\ closed' = closed
        /\ result[c] # Nobody
    BY <1>3 DEF Return, CheckError, CallTypeOK, CallInv
  <2> QED BY <1>0, <1>1, <2>1 DEF CallInv, Many
<1> QED BY <1>2, <1>3

-----------------------------------------------------------------------------
\* The strengthening is inductive.
LEMMA ApiInvStep == ApiInv /\ [Next]_vars => ApiInv'
<1> SUFFICES ASSUME ApiInv, [Next]_vars PROVE ApiInv'
  OBVIOUS
<1>1. ASSUME NEW c \in Call, CallStep(c) PROVE ApiInv'
  <2>1. CallTypeOK' /\ \A d \in Call \ {c} : CallUnchanged(d)
    BY <1>1, CallStepTypes DEF ApiInv
  <2>2. CallInv(c)'
    BY <1>1, StartKeeps, FirstAnswersKeeps, EndpointAnswersKeeps, AskerEndsKeeps,
       CollectKeeps, CollectEndsKeeps, OthersKeep DEF ApiInv, CallStep
  <2>3. ASSUME NEW d \in Call \ {c} PROVE CallInv(d)'
    BY <2>1, <2>3, UnchangedKeeps DEF ApiInv
  <2> QED BY <2>1, <2>2, <2>3 DEF ApiInv
<1>2. ASSUME UNCHANGED callVars PROVE ApiInv'
  <2>1. CallTypeOK'
    BY <1>2 DEF ApiInv, CallTypeOK, callVars
  <2>2. \A c \in Call : CallUnchanged(c)
    BY <1>2 DEF CallUnchanged, callVars
  <2> QED BY <2>1, <2>2, UnchangedKeeps DEF ApiInv
<1>3. CASE OtherError \/ CleanOldErrors \/ CheckErrorCounter \/ Tick \/ UNCHANGED vars
  BY <1>2, <1>3 DEF OtherError, CleanOldErrors, CheckErrorCounter, Tick, vars
<1> QED BY <1>1, <1>3 DEF Next

\* The strengthening holds at every time.
LEMMA ApiInvAlways == Spec => []ApiInv
<1>1. Init => ApiInv
  <2> SUFFICES ASSUME Init PROVE ApiInv
    OBVIOUS
  <2>1. CallTypeOK
    BY DEF Init, CallTypeOK, Place, Asker
  <2>2. ASSUME NEW c \in Call PROVE CallInv(c)
    BY DEF Init, CallInv, Fresh, AnswersOf, Collected, ResultOf
  <2> QED BY <2>1, <2>2 DEF ApiInv
<1> QED BY <1>1, ApiInvStep, PTL DEF Spec

\* A call of any number of endpoints fails only if every one asked has failed,
\* however the goroutines that ask, collect, close and return interleave.
THEOREM FailsOnlyIfAllAlways == Spec => []FailsOnlyIfAll
<1>1. ApiInv => FailsOnlyIfAll
  BY DEF ApiInv, CallInv, ResultOf, FailsOnlyIfAll
<1> QED BY <1>1, ApiInvAlways, PTL

-----------------------------------------------------------------------------
\* The errors counted.

\* Every set of numbers that is not empty has a least one.
LEMMA Least ==
  ASSUME NEW T \in SUBSET Nat, T # {} PROVE \E n \in T : \A m \in T : n <= m
<1>1. PICK n \in T : \A m \in T : ~ (<<m, n>> \in {ss \in Nat \X Nat : ss[1] < ss[2]})
  BY NatLessThanWellFounded, WFMin DEF OpToRel
<1>2. ASSUME NEW m \in T PROVE n <= m
  <2>1. m \in Nat /\ n \in Nat
    OBVIOUS
  <2>2. ~(m < n)
    BY <1>1, <2>1
  <2> QED BY <2>1, <2>2
<1> QED BY <1>2

\* f follows step from base up to m.
Follows(f, m, base, step) ==
  /\ f[0] = base
  /\ \A i \in 1..m : f[i] = step[<<i, f[i - 1]>>]

\* A function can be defined by its value at 0 and a step from each to the next.
LEMMA RecursionExists ==
  ASSUME NEW n \in Nat, NEW V, NEW base \in V, NEW step \in [(1..n) \X V -> V]
  PROVE  \E f \in [0..n -> V] : Follows(f, n, base, step)
<1> DEFINE Bad == {m \in 0..n : ~ \E f \in [0..m -> V] : Follows(f, m, base, step)}
<1>1. SUFFICES ASSUME Bad # {} PROVE FALSE
  <2>1. n \in 0..n
    OBVIOUS
  <2> QED BY <2>1, <1>1
<1>2. PICK m \in Bad : \A k \in Bad : m <= k
  <2>1. Bad \in SUBSET Nat
    OBVIOUS
  <2> HIDE DEF Bad
  <2> QED BY <1>1, <2>1, Least
<1>3. 0 \notin Bad
  <2> DEFINE f == [i \in 0..0 |-> base]
  <2>1. f \in [0..0 -> V] /\ Follows(f, 0, base, step)
    BY DEF Follows
  <2> QED BY <2>1
<1>4. m - 1 \in 0..n /\ m \in 1..n /\ m - 1 \notin Bad
  <2>1. m \in 0..n /\ m # 0
    BY <1>2, <1>3
  <2>2. m - 1 \notin Bad
    BY <1>2, <2>1
  <2> QED BY <2>1, <2>2
<1>5. PICK g \in [0..(m - 1) -> V] : Follows(g, m - 1, base, step)
  BY <1>4
<1> DEFINE f == [i \in 0..m |-> IF i = m THEN step[<<m, g[m - 1]>>] ELSE g[i]]
<1>6. m - 1 \in 0..(m - 1) /\ m \in Nat /\ m > 0
  BY <1>4
<1>7. g[m - 1] \in V
  BY <1>6
<1>8. step[<<m, g[m - 1]>>] \in V
  BY <1>4, <1>7
<1>9. \A i \in 0..m : i # m => i \in 0..(m - 1) /\ f[i] = g[i]
  BY <1>6
<1>10. f \in [0..m -> V]
  BY <1>8, <1>9
<1>11. Follows(f, m, base, step)
  <2>1. f[0] = base
    BY <1>5, <1>6, <1>9 DEF Follows
  <2>2. f[m] = step[<<m, g[m - 1]>>] /\ f[m - 1] = g[m - 1]
    BY <1>6, <1>9
  <2>3. ASSUME NEW i \in 1..m, i # m PROVE f[i] = step[<<i, f[i - 1]>>]
    <3>1. i \in 1..(m - 1) /\ i \in 0..m /\ i - 1 \in 0..m /\ i - 1 # m
      BY <2>3, <1>6
    <3>2. f[i] = g[i] /\ f[i - 1] = g[i - 1]
      BY <3>1, <2>3, <1>9
    <3> QED BY <3>1, <3>2, <1>5 DEF Follows
  <2> HIDE DEF f
  <2> QED BY <2>1, <2>2, <2>3 DEF Follows
<1> HIDE DEF f
<1> QED BY <1>4, <1>10, <1>11

\* s holds the errors m + 1 to i; those before are too old and these are not.
Copied(s, i, m) ==
  /\ s \in Seq(Nat) /\ Len(s) = i - m
  /\ \A j \in 1..(i - m) : s[j] = errorTs[m + j]
  /\ \A j \in 1..m : ~KeepsError(errorTs[j])
  /\ \A j \in (m + 1)..i : KeepsError(errorTs[j])

\* Times that never decrease.
Sorted(s) == \A i, j \in 1..Len(s) : i <= j => s[i] <= s[j]

\* One turn of the loop: of errors in the order of their times those that are
\* dropped come first.
LEMMA CopiesOneMore ==
  ASSUME errorTs \in Seq(Nat), clock \in Nat, Sorted(errorTs),
         NEW i \in 1..Len(errorTs), NEW m \in 0..(i - 1), NEW s, Copied(s, i - 1, m)
  PROVE  /\ KeepsError(errorTs[i]) => Copied(Append(s, errorTs[i]), i, m)
         /\ ~KeepsError(errorTs[i]) => m = i - 1 /\ Copied(s, i, i)
<1>0. /\ i \in Nat /\ m \in Nat /\ i > m /\ Len(errorTs) \in Nat /\ MaxWindow \in Nat
      /\ \A j \in 1..i : errorTs[j] \in Nat /\ errorTs[j] <= errorTs[i]
  BY ConditionAssumption DEF Sorted
<1>1. ASSUME KeepsError(errorTs[i]) PROVE Copied(Append(s, errorTs[i]), i, m)
  <2>1. /\ Append(s, errorTs[i]) \in Seq(Nat) /\ Len(Append(s, errorTs[i])) = i - m
        /\ Append(s, errorTs[i])[i - m] = errorTs[i]
        /\ \A j \in 1..(i - 1 - m) : Append(s, errorTs[i])[j] = s[j]
    BY <1>0 DEF Copied
  <2>2. \A j \in 1..(i - m) : Append(s, errorTs[i])[j] = errorTs[m + j]
    <3> SUFFICES ASSUME NEW j \in 1..(i - m) PROVE Append(s, errorTs[i])[j] = errorTs[m + j]
      OBVIOUS
    <3>1. CASE j = i - m
      BY <3>1, <2>1, <1>0
    <3>2. CASE j # i - m
      BY <3>2, <2>1, <1>0 DEF Copied
    <3> QED BY <3>1, <3>2
  <2>3. \A j \in (m + 1)..i : KeepsError(errorTs[j])
    <3> SUFFICES ASSUME NEW j \in (m + 1)..i PROVE KeepsError(errorTs[j])
      OBVIOUS
    <3>1. j = i \/ j \in (m + 1)..(i - 1)
      BY <1>0
    <3> QED BY <3>1, <1>1 DEF Copied
  <2> QED BY <2>1, <2>2, <2>3 DEF Copied
<1>2. ASSUME ~KeepsError(errorTs[i]) PROVE m = i - 1 /\ Copied(s, i, i)
  <2>1. \A j \in 1..i : ~KeepsError(errorTs[j])
    BY <1>2, <1>0 DEF KeepsError
  <2>2. m = i - 1
    <3>1. m + 1 \in (m + 1)..(i - 1) \/ m = i - 1
      BY <1>0
    <3> QED BY <3>1, <2>1, <1>0 DEF Copied
  <2>3. s \in Seq(Nat) /\ Len(s) = i - i
    BY <2>2, <1>0 DEF Copied
  <2> QED BY <2>1, <2>2, <2>3, <1>0 DEF Copied
<1> QED BY <1>1, <1>2

\* The loop of cleanOldErrors drops the first errors and keeps the others.
LEMMA KeptIsSuffix ==
  ASSUME errorTs \in Seq(Nat), clock \in Nat, Sorted(errorTs)
  PROVE  \E m \in 0..Len(errorTs) : Copied(Kept, Len(errorTs), m)
<1> DEFINE n == Len(errorTs)
           next(i, s) == IF KeepsError(errorTs[i]) THEN Append(s, errorTs[i]) ELSE s
           step == [p \in (1..n) \X Seq(Nat) |-> next(p[1], p[2])]
           tmp[i \in 0..Len(errorTs)] ==
              IF i = 0 THEN <<>>
              ELSE IF KeepsError(errorTs[i]) THEN Append(tmp[i - 1], errorTs[i])
              ELSE tmp[i - 1]
<1>1. /\ n \in Nat /\ <<>> \in Seq(Nat)
      /\ \A i \in 1..n : errorTs[i] \in Nat
  OBVIOUS
<1>2. \A i \in 1..n, s \in Seq(Nat) : next(i, s) \in Seq(Nat)
  <2> SUFFICES ASSUME NEW i \in 1..n, NEW s \in Seq(Nat) PROVE next(i, s) \in Seq(Nat)
    OBVIOUS
  <2>1. Append(s, errorTs[i]) \in Seq(Nat)
    BY <1>1
  <2> QED BY <2>1
<1>3. step \in [(1..n) \X Seq(Nat) -> Seq(Nat)]
  <2> HIDE DEF n, next
  <2> QED BY <1>2
<1>4. PICK f \in [0..n -> Seq(Nat)] : Follows(f, n, <<>>, step)
  <2> HIDE DEF step, n
  <2> QED BY <1>1, <1>3, RecursionExists
<1>5. \A i \in 1..n : f[i] = next(i, f[i - 1])
  <2> SUFFICES ASSUME NEW i \in 1..n PROVE f[i] = next(i, f[i - 1])
    OBVIOUS
  <2>1. i - 1 \in 0..n
    BY <1>1
  <2>2. step[<<i, f[i - 1]>>] = next(i, f[i - 1])
    <3> HIDE DEF n, next
    <3> QED BY <2>1
  <2> QED BY <1>4, <2>2 DEF Follows
<1>6. f = [i \in 0..n |-> IF i = 0 THEN <<>> ELSE next(i, f[i - 1])]
  <2> HIDE DEF next
  <2>1. \A i \in 0..n : f[i] = IF i = 0 THEN <<>> ELSE next(i, f[i - 1])
    BY <1>1, <1>4, <1>5 DEF Follows
  <2> HIDE DEF n
  <2> QED BY <2>1
<1>7. tmp = [i \in 0..n |-> IF i = 0 THEN <<>> ELSE next(i, tmp[i - 1])]
  <2>1. f = [i \in 0..Len(errorTs) |->
              IF i = 0 THEN <<>>
              ELSE IF KeepsError(errorTs[i]) THEN Append(f[i - 1], errorTs[i])
              ELSE f[i - 1]]
    BY <1>6, Zenon
  <2> QED BY <2>1, Zenon
<1>8. Kept = tmp[n]
  BY Zenon DEF Kept
<1>9. tmp[0] = <<>> /\ \A i \in 1..n : tmp[i] = next(i, tmp[i - 1])
  <2>1. \A i \in 0..n : tmp[i] = IF i = 0 THEN <<>> ELSE next(i, tmp[i - 1])
    <3> HIDE DEF n, next
    <3> QED BY <1>7
  <2>2. 0 \in 0..n /\ \A i \in 1..n : i \in 0..n /\ i # 0
    BY <1>1
  <2> HIDE DEF tmp, next, n
  <2> QED BY <2>1, <2>2
<1> DEFINE Bad == {i \in 0..n : \A m \in 0..i : ~Copied(tmp[i], i, m)}
<1>10. 0 \notin Bad
  <2> HIDE DEF tmp
  <2>1. Copied(tmp[0], 0, 0)
    BY <1>9 DEF Copied
  <2> QED BY <2>1
<1>11. ASSUME NEW i \in Bad, \A j \in Bad : i <= j PROVE FALSE
  <2> HIDE DEF tmp
  <2>1. i \in 1..n /\ i - 1 \in 0..n
    BY <1>10, <1>1
  <2>2. i - 1 \notin Bad
    BY <1>11, <2>1
  <2>3. PICK m \in 0..(i - 1) : Copied(tmp[i - 1], i - 1, m)
    BY <2>1, <2>2
  <2>4. /\ KeepsError(errorTs[i]) => Copied(Append(tmp[i - 1], errorTs[i]), i, m)
        /\ ~KeepsError(errorTs[i]) => Copied(tmp[i - 1], i, i)
    BY <2>1, <2>3, CopiesOneMore
  <2>5. m \in 0..i /\ i \in 0..i
    BY <2>1
  <2>6. Copied(tmp[i], i, m) \/ Copied(tmp[i], i, i)
    BY <1>9, <2>1, <2>4
  <2> QED BY <2>5, <2>6
<1>12. Bad = {}
  <2>1. Bad \in SUBSET Nat
    BY <1>1
  <2> HIDE DEF Bad
  <2> QED BY <2>1, <1>11, Least
<1>13. n \in 0..n
  BY <1>1
<1> HIDE DEF tmp
<1> QED BY <1>8, <1>12, <1>13

-----------------------------------------------------------------------------
\* The first k errors have been dropped, all of them too old for every window.
Forgot(k) ==
  /\ Len(errorTs) = Len(failures) - k
  /\ \A i \in 1..Len(errorTs) : errorTs[i] = failures[k + i]
  /\ \A i \in 1..k : clock - failures[i] >= MaxWindow

\* The counter's variables have their types.
ErrTypeOK == clock \in Nat /\ errorTs \in Seq(Nat) /\ failures \in Seq(Nat)

\* Errors are counted in the order of their times, and only a beginning of them
\* has been dropped.
ErrInv ==
  /\ ErrTypeOK
  /\ Sorted(failures)
  /\ \A i \in 1..Len(failures) : failures[i] <= clock
  /\ \E k \in 0..Len(failures) : Forgot(k)

\* Another error is the latest.
LEMMA AddErrorKeeps ==
  ASSUME ErrInv, AddError, UNCHANGED clock PROVE ErrInv'
<1> DEFINE n == Len(failures)
<1>0. /\ ErrTypeOK /\ n \in Nat /\ Len(errorTs) \in Nat
      /\ \A i \in 1..n : failures[i] \in Nat /\ failures[i] <= clock
  BY DEF ErrInv, ErrTypeOK
<1>1. PICK k \in 0..n : Forgot(k)
  BY DEF ErrInv
<1>2. /\ ErrTypeOK'
      /\ Len(failures') = n + 1 /\ Len(errorTs') = Len(errorTs) + 1
      /\ failures'[n + 1] = clock /\ errorTs'[Len(errorTs) + 1] = clock
      /\ \A i \in 1..n : failures'[i] = failures[i]
      /\ \A i \in 1..Len(errorTs) : errorTs'[i] = errorTs[i]
  BY <1>0 DEF AddError, ErrTypeOK
<1>3. \A i \in 1..Len(failures') : i \in 1..n \/ i = n + 1
  BY <1>0, <1>2
<1>4. \A i \in 1..Len(failures') : failures'[i] <= clock'
  <2> SUFFICES ASSUME NEW i \in 1..Len(failures') PROVE failures'[i] <= clock
    OBVIOUS
  <2>1. CASE i = n + 1
    BY <2>1, <1>2, <1>0 DEF ErrTypeOK
  <2>2. CASE i \in 1..n
    BY <2>2, <1>2, <1>0
  <2> QED BY <2>1, <2>2, <1>3
<1>5. Sorted(failures)'
  <2> SUFFICES ASSUME NEW i \in 1..Len(failures'), NEW j \in 1..Len(failures'), i <= j
               PROVE  failures'[i] <= failures'[j]
    BY DEF Sorted
  <2>1. CASE j = n + 1
    BY <2>1, <1>2, <1>4
  <2>2. CASE j # n + 1
    <3>1. i \in 1..n /\ j \in 1..n
      BY <2>2, <1>2, <1>3, <1>0
    <3> QED BY <3>1, <1>2 DEF ErrInv, Sorted
  <2> QED BY <2>1, <2>2
<1>6. Forgot(k)'
  <2>1. Len(errorTs') = Len(failures') - k
    BY <1>0, <1>1, <1>2 DEF Forgot
  <2>2. ASSUME NEW i \in 1..Len(errorTs') PROVE errorTs'[i] = failures'[k + i]
    <3>1. CASE i = Len(errorTs) + 1
      BY <3>1, <1>0, <1>1, <1>2 DEF Forgot
    <3>2. CASE i # Len(errorTs) + 1
      <4>1. i \in 1..Len(errorTs) /\ k + i \in 1..n
        BY <3>2, <1>0, <1>1, <1>2 DEF Forgot
      <4> QED BY <4>1, <1>1, <1>2 DEF Forgot
    <3> QED BY <3>1, <3>2
  <2>3. ASSUME NEW i \in 1..k PROVE clock' - failures'[i] >= MaxWindow
    <3>1. i \in 1..n
      BY <1>0
    <3> QED BY <3>1, <1>1, <1>2 DEF Forgot
  <2> QED BY <2>1, <2>2, <2>3 DEF Forgot
<1>7. k \in 0..Len(failures')
  BY <1>0, <1>2
<1> QED BY <1>2, <1>4, <1>5, <1>6, <1>7 DEF ErrInv

\* Cleaning drops errors that are too old, behind those dropped before.
LEMMA CleanKeeps ==
  ASSUME ErrInv, errorTs' = Kept, UNCHANGED <<failures, clock>> PROVE ErrInv'
<1> DEFINE n == Len(failures)
<1>0. /\ ErrTypeOK /\ n \in Nat /\ Len(errorTs) \in Nat /\ MaxWindow \in Nat
      /\ \A i \in 1..n : failures[i] \in Nat /\ failures[i] <= clock
  BY ConditionAssumption DEF ErrInv, ErrTypeOK
<1>1. PICK k \in 0..n : Forgot(k)
  BY DEF ErrInv
<1>2. \A i \in 1..Len(errorTs) : errorTs[i] = failures[k + i] /\ k + i \in 1..n
  BY <1>0, <1>1 DEF Forgot
<1>3. Sorted(errorTs)
  <2> SUFFICES ASSUME NEW i \in 1..Len(errorTs), NEW j \in 1..Len(errorTs), i <= j
               PROVE  errorTs[i] <= errorTs[j]
    BY DEF Sorted
  <2>1. k + i <= k + j
    BY <1>0
  <2> QED BY <2>1, <1>2 DEF ErrInv, Sorted
<1>4. PICK m \in 0..Len(errorTs) : Copied(Kept, Len(errorTs), m)
  BY <1>0, <1>3, KeptIsSuffix DEF ErrTypeOK
<1>5. /\ k + m \in 0..n /\ Len(errorTs) = n - k
      /\ errorTs' \in Seq(Nat) /\ Len(errorTs') = n - (k + m)
  BY <1>0, <1>1, <1>4 DEF Forgot, Copied
<1>6. ASSUME NEW i \in 1..Len(errorTs') PROVE errorTs'[i] = failures'[(k + m) + i]
  <2>1. m + i \in 1..Len(errorTs) /\ i \in 1..(Len(errorTs) - m) /\ k + (m + i) = (k + m) + i
    BY <1>0, <1>5
  <2>2. errorTs'[i] = errorTs[m + i]
    BY <2>1, <1>4 DEF Copied
  <2> QED BY <2>1, <2>2, <1>2
<1>7. ASSUME NEW i \in 1..(k + m) PROVE clock - failures[i] >= MaxWindow
  <2>1. CASE i \in 1..k
    BY <2>1, <1>1 DEF Forgot
  <2>2. CASE i \notin 1..k
    <3>1. i - k \in 1..m /\ i - k \in 1..Len(errorTs) /\ k + (i - k) = i /\ i \in 1..n
      BY <2>2, <1>0, <1>5
    <3>2. ~KeepsError(errorTs[i - k])
      BY <3>1, <1>4 DEF Copied
    <3>3. errorTs[i - k] = failures[i]
      BY <3>1, <1>2
    <3> QED BY <3>1, <3>2, <3>3, <1>0 DEF KeepsError, ErrTypeOK
  <2> QED BY <2>1, <2>2
<1>8. Forgot(k + m)'
  BY <1>5, <1>6, <1>7 DEF Forgot
<1>9. ErrTypeOK' /\ Sorted(failures)' /\ \A i \in 1..Len(failures') : failures'[i] <= clock'
  BY <1>0, <1>5 DEF ErrInv, ErrTypeOK, Sorted
<1> QED BY <1>5, <1>8, <1>9 DEF ErrInv

\* As time goes on what was too old stays so.
LEMMA TickKeeps ==
  ASSUME ErrInv, Tick PROVE ErrInv'
<1> DEFINE n == Len(failures)
<1>0. /\ ErrTypeOK /\ n \in Nat /\ MaxWindow \in Nat
      /\ \A i \in 1..n : failures[i] \in Nat /\ failures[i] <= clock
      /\ clock' = clock + 1 /\ UNCHANGED <<errorTs, failures>>
  BY ConditionAssumption DEF ErrInv, ErrTypeOK, Tick, errorVars
<1>1. PICK k \in 0..n : Forgot(k)
  BY DEF ErrInv
<1>2. ASSUME NEW i \in 1..k PROVE clock' - failures[i] >= MaxWindow
  <2>1. i \in 1..n
    BY <1>0
  <2>2. clock - failures[i] >= MaxWindow
    BY <1>1 DEF Forgot
  <2> QED BY <2>1, <2>2, <1>0 DEF ErrTypeOK
<1>3. Forgot(k)'
  BY <1>0, <1>1, <1>2 DEF Forgot
<1>4. ErrTypeOK' /\ Sorted(failures)' /\ \A i \in 1..Len(failures') : failures'[i] <= clock'
  BY <1>0 DEF ErrInv, ErrTypeOK, Sorted
<1> QED BY <1>0, <1>3, <1>4 DEF ErrInv

\* The invariant of the counter is inductive; the calls leave it alone but for
\* the errors they add.
LEMMA ErrInvStep == ErrInv /\ [Next]_vars => ErrInv'
<1> SUFFICES ASSUME ErrInv, [Next]_vars PROVE ErrInv'
  OBVIOUS
<1>1. ASSUME UNCHANGED <<errorTs, failures, clock>> PROVE ErrInv'
  BY <1>1 DEF ErrInv, ErrTypeOK, Sorted, Forgot
<1>2. ASSUME NEW c \in Call, CallStep(c) PROVE ErrInv'
  <2>1. CASE CheckError(c)
    BY <2>1, <1>1, AddErrorKeeps DEF CheckError
  <2>2. CASE ~CheckError(c)
    BY <2>2, <1>1, <1>2 DEF CallStep, CallFirst, FirstAnswers, MultiCall, CloseChannel,
       CollectEnds, Return, EndpointAnswers, AskerEnds, Collect, errorVars
  <2> QED BY <2>1, <2>2
<1>3. CASE OtherError
  BY <1>3, AddErrorKeeps DEF OtherError
<1>4. CASE CleanOldErrors
  BY <1>4, CleanKeeps DEF CleanOldErrors
<1>5. CASE CheckErrorCounter \/ UNCHANGED vars
  BY <1>5, <1>1 DEF CheckErrorCounter, errorVars, vars
<1>6. CASE Tick
  BY <1>6, TickKeeps
<1> QED BY <1>2, <1>3, <1>4, <1>5, <1>6 DEF Next

-----------------------------------------------------------------------------
\* Of errors in order, those within a window are the last ones.
LEMMA RecentAreLast ==
  ASSUME ErrInv, NEW w \in Nat
  PROVE  \E p \in 0..Len(failures) :
           \A i \in 1..Len(failures) : clock - failures[i] < w <=> i > p
<1> DEFINE n == Len(failures)
           T == {p \in 0..n : \A i \in 1..n : i > p => clock - failures[i] < w}
<1>0. /\ n \in Nat /\ clock \in Nat
      /\ \A i \in 1..n : failures[i] \in Nat
      /\ \A i, j \in 1..n : i <= j => failures[i] <= failures[j]
  BY DEF ErrInv, ErrTypeOK, Sorted
<1>1. n \in T /\ T \in SUBSET Nat
  BY <1>0
<1>2. PICK p \in T : \A q \in T : p <= q
  <2> HIDE DEF T
  <2> QED BY <1>1, Least
<1>3. p \in 0..n /\ \A i \in 1..n : i > p => clock - failures[i] < w
  OBVIOUS
<1>4. ASSUME NEW i \in 1..n, i <= p PROVE ~(clock - failures[i] < w)
  <2> SUFFICES ASSUME clock - failures[i] < w PROVE FALSE
    OBVIOUS
  <2>1. i - 1 \in 0..n /\ i - 1 < p
    BY <1>0, <1>3, <1>4
  <2>2. ASSUME NEW j \in 1..n, j > i - 1 PROVE clock - failures[j] < w
    <3>1. i <= j
      BY <2>2, <1>0
    <3>2. failures[i] <= failures[j] /\ failures[i] \in Nat /\ failures[j] \in Nat
      BY <3>1, <1>0
    <3> QED BY <3>2, <1>0
  <2>3. i - 1 \in T
    BY <2>1, <2>2
  <2> HIDE DEF T
  <2> QED BY <2>1, <2>3, <1>2, <1>3, <1>0
<1>5. ASSUME NEW i \in 1..n PROVE clock - failures[i] < w <=> i > p
  BY <1>0, <1>3, <1>4
<1> QED BY <1>3, <1>5

\* The comparison before the look at each error finds more than the threshold.
LEMMA ErrInvExact == ErrInv => ExitExact
<1> SUFFICES ASSUME ErrInv, NEW cond \in Condition
             PROVE  LET recent == Cardinality({i \in DOMAIN failures :
                                                 clock - failures[i] < cond.window})
                    IN  /\ recent > cond.threshold => Exceeded(cond)
                        /\ Exceeded(cond) /\ cond.threshold > 0 => recent > cond.threshold
  BY DEF ExitExact
<1> DEFINE n == Len(failures)
           w == cond.window
           th == cond.threshold
<1>0. /\ n \in Nat /\ Len(errorTs) \in Nat /\ clock \in Nat /\ MaxWindow \in Nat
      /\ w \in Nat /\ w <= MaxWindow /\ th \in Nat
      /\ \A i \in 1..n : failures[i] \in Nat
      /\ DOMAIN failures = 1..n /\ DOMAIN errorTs = 1..Len(errorTs)
  BY ConditionAssumption DEF ErrInv, ErrTypeOK
<1>1. PICK p \in 0..n : \A i \in 1..n : clock - failures[i] < w <=> i > p
  BY <1>0, RecentAreLast
<1>2. PICK k \in 0..n : Forgot(k)
  BY DEF ErrInv
<1>3. k <= p
  <2> SUFFICES ASSUME k > p PROVE FALSE
    BY <1>0
  <2>1. k \in 1..n /\ k \in 1..k
    BY <1>0
  <2>2. clock - failures[k] >= MaxWindow
    BY <2>1, <1>2 DEF Forgot
  <2>3. clock - failures[k] < w /\ failures[k] \in Nat
    BY <2>1, <1>1, <1>0
  <2> QED BY <2>2, <2>3, <1>0
<1>4. Cardinality({i \in DOMAIN failures : clock - failures[i] < w}) = n - p
  <2>1. {i \in DOMAIN failures : clock - failures[i] < w} = (p + 1)..n
    BY <1>0, <1>1
  <2>2. Cardinality((p + 1)..n) = IF p + 1 > n THEN 0 ELSE n - (p + 1) + 1
    <3>1. p + 1 \in Int /\ n \in Int
      BY <1>0
    <3> QED BY <3>1, FS_Interval
  <2>3. (IF p + 1 > n THEN 0 ELSE n - (p + 1) + 1) = n - p
    <3>1. n \in Nat /\ p \in Nat /\ p <= n
      BY <1>0
    <3> HIDE DEF n
    <3> QED BY <3>1
  <2> QED BY <2>1, <2>2, <2>3, Zenon
<1>5. ASSUME NEW i \in 1..Len(errorTs)
      PROVE  Cardinality({j \in 1..(i - 1) : clock - errorTs[j] < w})
               = IF i > p - k THEN i - 1 - (p - k) ELSE 0
  <2>1. {j \in 1..(i - 1) : clock - errorTs[j] < w} = (p - k + 1)..(i - 1)
    <3>1. ASSUME NEW j \in 1..(i - 1) PROVE clock - errorTs[j] < w <=> j > p - k
      <4>1. j \in 1..Len(errorTs) /\ k + j \in 1..n /\ (k + j > p <=> j > p - k)
        BY <1>0, <1>2, <1>3 DEF Forgot
      <4>2. errorTs[j] = failures[k + j]
        BY <4>1, <1>2 DEF Forgot
      <4> QED BY <4>1, <4>2, <1>1
    <3> QED BY <3>1, <1>0, <1>3
  <2>2. Cardinality((p - k + 1)..(i - 1)) =
          IF p - k + 1 > i - 1 THEN 0 ELSE (i - 1) - (p - k + 1) + 1
    <3>1. p - k + 1 \in Int /\ i - 1 \in Int
      BY <1>0
    <3> QED BY <3>1, FS_Interval
  <2>3. (IF p - k + 1 > i - 1 THEN 0 ELSE (i - 1) - (p - k + 1) + 1)
           = (IF i > p - k THEN i - 1 - (p - k) ELSE 0)
    BY <1>0
  <2> QED BY <2>1, <2>2, <2>3, Zenon
<1>6. Exceeded(cond) <=> \E i \in 1..Len(errorTs) :
        (IF i > p - k THEN i - 1 - (p - k) ELSE 0) >= th
  BY <1>0, <1>5 DEF Exceeded
<1>7. Len(errorTs) = n - k
  BY <1>2 DEF Forgot
<1>8. ASSUME n - p > th PROVE Exceeded(cond)
  <2>1. n - k \in 1..Len(errorTs) /\ n - k > p - k /\ n - k - 1 - (p - k) >= th
    BY <1>7, <1>8, <1>0, <1>3
  <2> QED BY <2>1, <1>6
<1>9. ASSUME Exceeded(cond), th > 0 PROVE n - p > th
  <2>1. PICK i \in 1..Len(errorTs) : (IF i > p - k THEN i - 1 - (p - k) ELSE 0) >= th
    BY <1>6, <1>9
  <2>2. i > p - k /\ i - 1 - (p - k) >= th /\ i <= n - k
    BY <2>1, <1>7, <1>9, <1>0
  <2> QED BY <2>2, <1>0
<1> QED BY <1>4, <1>8, <1>9

\* For any conditions, errors and times a check ends the program if more errors
\* than a threshold happened within its window, and only then unless the
\* threshold is zero, however often and whenever old errors are cleaned away
\* (apierrorcount.go:61-126).
THEOREM ExitExactAlways == Spec => []ExitExact
<1>1. Init => ErrInv
  <2> SUFFICES ASSUME Init PROVE ErrInv
    OBVIOUS
  <2>1. ErrTypeOK /\ Len(failures) = 0 /\ Len(errorTs) = 0
    BY DEF Init, ErrTypeOK
  <2>2. Forgot(0) /\ Sorted(failures)
    BY <2>1 DEF Forgot, Sorted
  <2> QED BY <2>1, <2>2 DEF ErrInv
<1> QED BY <1>1, ErrInvStep, ErrInvExact, PTL DEF Spec
=============================================================================
