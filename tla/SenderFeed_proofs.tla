------------------------- MODULE SenderFeed_proofs -------------------------
(***************************************************************************)
(* Proofs about SenderFeed, for any sources, updates and time stamps: its  *)
(* types, that every update seen is in one place, and that confirmations   *)
(* are counted once.                                                       *)
(***************************************************************************)
EXTENDS SenderFeed, FiniteSetTheorems, TLAPS

Phase == {"idle", "dial", "read", "count", "state", "publish"}
Busy == {"count", "state", "publish"}

\* TypeOK in three parts.
SourceType ==
  /\ pc \in [Source -> Phase]
  /\ received \in [Source -> 0..MaxUpdates]
  /\ hand \in [Source -> Update \cup {NoUpdate}]

HandType == \A s \in Source : hand[s] # NoUpdate <=> pc[s] \in Busy

FeedType ==
  /\ publishedUpdates \subseteq {UpdateTs[u] : u \in Update}
  /\ counted \in [Update -> Nat]
  /\ lastState \in Update \cup {NoUpdate}
  /\ chIn \in Update \cup {NoUpdate}
  /\ out \in Seq(Update) /\ lost \subseteq Update

TypeInv == SourceType /\ HandType /\ FeedType

\* The feed starts in its type invariant.
LEMMA TypeInit == ASSUME Init PROVE TypeInv
<1>1. MaxUpdates \in Nat
  BY FeedAssumption
<1>2. SourceType
  BY <1>1 DEF Init, SourceType, Phase
<1>3. HandType
  BY DEF Init, HandType, Busy
<1>4. FeedType
  BY DEF Init, FeedType
<1> QED BY <1>2, <1>3, <1>4 DEF TypeInv

\* The source that works holds an update.
LEMMA HandKnown ==
  ASSUME TypeInv, NEW s \in Source, pc[s] \in Busy
  PROVE  hand[s] \in Update /\ hand[s] # NoUpdate
BY FeedAssumption DEF TypeInv, SourceType, HandType

\* Every step keeps the types of the sources.
LEMMA SourceTypeNext == ASSUME TypeInv, [Next]_vars PROVE SourceType'
<1> USE DEF TypeInv, SourceType, Phase, Goto
<1>1. ASSUME NEW s \in Source, RunStarter(s) PROVE SourceType'
  BY <1>1 DEF RunStarter
<1>2. ASSUME NEW s \in Source, NewUpdateChan(s) PROVE SourceType'
  BY <1>2 DEF NewUpdateChan
<1>3. ASSUME NEW s \in Source, ProcessUpdate(s) PROVE SourceType'
  <2>1. PICK u \in Update :
          /\ received' = [received EXCEPT ![s] = u]
          /\ \/ UNCHANGED <<pc, hand>>
             \/ hand' = [hand EXCEPT ![s] = u] /\ pc' = [pc EXCEPT ![s] = "count"]
    BY <1>3 DEF ProcessUpdate
  <2>2. u \in 0..MaxUpdates
    BY FeedAssumption DEF Update
  <2>3. received' \in [Source -> 0..MaxUpdates]
    BY <2>1, <2>2
  <2> QED BY <2>1, <2>3
<1>4. ASSUME NEW s \in Source, CountUpdate(s) PROVE SourceType'
  BY <1>4 DEF CountUpdate
<1>5. ASSUME NEW s \in Source, UpdateLastState(s) PROVE SourceType'
  BY <1>5 DEF UpdateLastState
<1>6. ASSUME NEW s \in Source, PublishData(s) PROVE SourceType'
  BY <1>6 DEF PublishData
<1>7. ASSUME NEW s \in Source, PublishTimeout(s) PROVE SourceType'
  BY <1>7 DEF PublishTimeout
<1>8. ASSUME Loop \/ Cleanup \/ UNCHANGED vars PROVE SourceType'
  BY <1>8 DEF Loop, Cleanup, vars, sourceVars
<1> QED BY <1>1, <1>2, <1>3, <1>4, <1>5, <1>6, <1>7, <1>8 DEF Next, Work

\* A source holds an update exactly in the phases where it works on one.
LEMMA HandTypeNext == ASSUME TypeInv, [Next]_vars PROVE HandType'
<1>0. pc \in [Source -> Phase] /\ hand \in [Source -> Update \cup {NoUpdate}]
  BY DEF TypeInv, SourceType
<1>1. ASSUME NEW s \in Source, RunStarter(s) \/ NewUpdateChan(s) PROVE HandType'
  BY <1>0, <1>1 DEF TypeInv, HandType, RunStarter, NewUpdateChan, Goto, Busy
<1>2. ASSUME NEW s \in Source, ProcessUpdate(s) PROVE HandType'
  <2>1. PICK u \in Update :
          \/ UNCHANGED <<pc, hand>>
          \/ hand' = [hand EXCEPT ![s] = u] /\ pc' = [pc EXCEPT ![s] = "count"]
    BY <1>2 DEF ProcessUpdate, Goto
  <2>2. u # NoUpdate
    BY FeedAssumption
  <2> QED BY <1>0, <2>1, <2>2 DEF TypeInv, HandType, Busy
<1>3. ASSUME NEW s \in Source, CountUpdate(s) \/ UpdateLastState(s) PROVE HandType'
  BY <1>0, <1>3 DEF TypeInv, HandType, CountUpdate, UpdateLastState, Goto, Busy
<1>4. ASSUME NEW s \in Source, PublishData(s) \/ PublishTimeout(s) PROVE HandType'
  BY <1>0, <1>4 DEF TypeInv, HandType, PublishData, PublishTimeout, Goto, Busy
<1>5. ASSUME Loop \/ Cleanup \/ UNCHANGED vars PROVE HandType'
  BY <1>5 DEF TypeInv, HandType, Loop, Cleanup, vars, sourceVars
<1> QED BY <1>1, <1>2, <1>3, <1>4, <1>5 DEF Next, Work

\* Every step keeps the types of the channel, the output and the counters.
LEMMA FeedTypeNext == ASSUME TypeInv, [Next]_vars PROVE FeedType'
<1>0. FeedType
  BY DEF TypeInv
<1>1. ASSUME NEW s \in Source, RunStarter(s) \/ NewUpdateChan(s) PROVE FeedType'
  BY <1>0, <1>1 DEF RunStarter, NewUpdateChan, FeedType, pubVars
<1>2. ASSUME NEW s \in Source, ProcessUpdate(s) PROVE FeedType'
  <2>1. publishedUpdates' \subseteq {UpdateTs[u] : u \in Update}
    BY <1>0, <1>2 DEF ProcessUpdate, SeenHashBy, FeedType
  <2>2. UNCHANGED <<counted, lastState, chIn, out, lost>>
    BY <1>2 DEF ProcessUpdate, pubVars
  <2> QED BY <1>0, <2>1, <2>2 DEF FeedType
<1>3. ASSUME NEW s \in Source, CountUpdate(s) PROVE FeedType'
  <2>1. hand[s] \in Update
    BY <1>3, HandKnown DEF CountUpdate, Goto, Busy
  <2>2. counted' \in [Update -> Nat]
    BY <1>0, <1>3, <2>1 DEF CountUpdate, FeedType
  <2>3. UNCHANGED <<publishedUpdates, lastState, chIn, out, lost>>
    BY <1>3 DEF CountUpdate, pubVars
  <2> QED BY <1>0, <2>2, <2>3 DEF FeedType
<1>4. ASSUME NEW s \in Source, UpdateLastState(s) PROVE FeedType'
  <2>1. hand[s] \in Update
    BY <1>4, HandKnown DEF UpdateLastState, Goto, Busy
  <2> QED BY <1>0, <1>4, <2>1 DEF UpdateLastState, FeedType, pubVars
<1>5. ASSUME NEW s \in Source, PublishData(s) \/ PublishTimeout(s) PROVE FeedType'
  <2>1. hand[s] \in Update
    BY <1>5, HandKnown DEF PublishData, PublishTimeout, Goto, Busy
  <2> QED BY <1>0, <1>5, <2>1 DEF PublishData, PublishTimeout, FeedType, pubVars
<1>6. ASSUME Loop PROVE FeedType'
  <2>1. chIn \in Update
    BY <1>0, <1>6 DEF Loop, FeedType
  <2>2. Append(out, chIn) \in Seq(Update)
    BY <1>0, <2>1 DEF FeedType
  <2> QED BY <1>0, <1>6, <2>1, <2>2 DEF Loop, Send, FeedType
<1>7. ASSUME Cleanup \/ UNCHANGED vars PROVE FeedType'
  BY <1>0, <1>7 DEF Cleanup, vars, FeedType, pubVars
<1> QED BY <1>1, <1>2, <1>3, <1>4, <1>5, <1>6, <1>7 DEF Next, Work

\* The types of the sender part.
THEOREM TypeCorrect == Spec => []TypeOK
<1>1. Init => TypeInv
  BY TypeInit
<1>2. TypeInv /\ [Next]_vars => TypeInv'
  BY SourceTypeNext, HandTypeNext, FeedTypeNext DEF TypeInv
<1>3. TypeInv => TypeOK
  BY DEF TypeInv, SourceType, HandType, FeedType, TypeOK, Phase, Busy
<1> QED BY <1>1, <1>2, <1>3, PTL DEF Spec

-----------------------------------------------------------------------------
\* No update is in two places, and all that are in one were seen.
PlaceInv ==
  /\ \A s \in Source : hand[s] # NoUpdate =>
       /\ UpdateTs[hand[s]] \in publishedUpdates
       /\ hand[s] \notin lost /\ hand[s] # chIn
  /\ \A s, t \in Source : hand[s] # NoUpdate /\ hand[s] = hand[t] => s = t
  /\ chIn # NoUpdate => UpdateTs[chIn] \in publishedUpdates /\ chIn \notin lost
  /\ \A u \in lost : UpdateTs[u] \in publishedUpdates

\* Every step keeps an update under way in one place: one hand, the channel or the
\* lost ones.
LEMMA PlaceNext == ASSUME TypeInv, PlaceInv, [Next]_vars PROVE PlaceInv'
<1>0. hand \in [Source -> Update \cup {NoUpdate}] /\ NoUpdate \notin Update
      /\ lost \subseteq Update /\ chIn \in Update \cup {NoUpdate}
  BY FeedAssumption DEF TypeInv, SourceType, FeedType
<1>1. ASSUME UNCHANGED <<hand, publishedUpdates, chIn, lost>> PROVE PlaceInv'
  BY <1>1 DEF PlaceInv
<1>2. ASSUME NEW s \in Source, ProcessUpdate(s) PROVE PlaceInv'
  <2>0. UNCHANGED <<chIn, lost>>
    BY <1>2 DEF ProcessUpdate, pubVars
  <2>1. PICK u \in Update :
          \/ UNCHANGED <<hand, publishedUpdates>>
          \/ /\ UpdateTs[u] \notin publishedUpdates
             /\ publishedUpdates' = publishedUpdates \cup {UpdateTs[u]}
             /\ hand' = [hand EXCEPT ![s] = u]
    BY <1>2 DEF ProcessUpdate, SeenHashBy
  <2>2. CASE UNCHANGED <<hand, publishedUpdates>>
    BY <1>1, <2>0, <2>2
  <2>3. CASE /\ UpdateTs[u] \notin publishedUpdates
             /\ publishedUpdates' = publishedUpdates \cup {UpdateTs[u]}
             /\ hand' = [hand EXCEPT ![s] = u]
    <3>1. hand'[s] = u /\ \A t \in Source \ {s} : hand'[t] = hand[t]
      BY <1>0, <2>3
    <3>2. u \notin lost /\ u # chIn /\ \A t \in Source : hand[t] # u
      BY <1>0, <2>3 DEF PlaceInv
    <3>3. UpdateTs[u] \in publishedUpdates' /\ publishedUpdates \subseteq publishedUpdates'
      BY <2>3
    <3> QED BY <1>0, <2>0, <3>1, <3>2, <3>3 DEF PlaceInv
  <2> QED BY <2>1, <2>2, <2>3
<1>3. ASSUME NEW s \in Source, PublishData(s) PROVE PlaceInv'
  <2>1. hand[s] \in Update /\ hand[s] # NoUpdate
    BY <1>3, HandKnown DEF PublishData, Goto, Busy
  <2>2. hand'[s] = NoUpdate /\ \A t \in Source \ {s} : hand'[t] = hand[t]
    BY <1>0, <1>3 DEF PublishData
  <2>3. chIn' = hand[s] /\ UNCHANGED <<publishedUpdates, lost>>
    BY <1>3 DEF PublishData
  <2> QED BY <1>0, <2>1, <2>2, <2>3 DEF PlaceInv
<1>4. ASSUME NEW s \in Source, PublishTimeout(s) PROVE PlaceInv'
  <2>1. hand[s] \in Update /\ hand[s] # NoUpdate
    BY <1>4, HandKnown DEF PublishTimeout, Goto, Busy
  <2>2. hand'[s] = NoUpdate /\ \A t \in Source \ {s} : hand'[t] = hand[t]
    BY <1>0, <1>4 DEF PublishTimeout
  <2>3. lost' = lost \cup {hand[s]} /\ UNCHANGED <<publishedUpdates, chIn>>
    BY <1>4 DEF PublishTimeout, pubVars
  <2> QED BY <1>0, <2>1, <2>2, <2>3 DEF PlaceInv
<1>5. ASSUME Loop PROVE PlaceInv'
  <2>1. chIn # NoUpdate /\ chIn' = NoUpdate /\ lost' \in {lost, lost \cup {chIn}}
        /\ UNCHANGED <<hand, publishedUpdates>>
    BY <1>5 DEF Loop, Send, sourceVars
  <2> QED BY <1>0, <2>1 DEF PlaceInv
<1>6. ASSUME NEW s \in Source,
             RunStarter(s) \/ NewUpdateChan(s) \/ CountUpdate(s) \/ UpdateLastState(s)
      PROVE  UNCHANGED <<hand, publishedUpdates, chIn, lost>>
  BY <1>6 DEF RunStarter, NewUpdateChan, CountUpdate, UpdateLastState, pubVars
<1>7. ASSUME Cleanup \/ UNCHANGED vars PROVE UNCHANGED <<hand, publishedUpdates, chIn, lost>>
  BY <1>7 DEF Cleanup, vars, sourceVars, pubVars
<1> QED BY <1>1, <1>2, <1>3, <1>4, <1>5, <1>6, <1>7 DEF Next, Work

-----------------------------------------------------------------------------
\* The sources that hold an update.
Holders == {s \in Source : hand[s] # NoUpdate}

Pending == IF chIn = NoUpdate THEN 0 ELSE 1

\* The sets the conservation of updates counts are finite.
LEMMA Finite ==
  ASSUME TypeInv
  PROVE  /\ IsFiniteSet(publishedUpdates) /\ Cardinality(publishedUpdates) \in Nat
         /\ IsFiniteSet(lost) /\ Cardinality(lost) \in Nat
         /\ IsFiniteSet(Holders) /\ Cardinality(Holders) \in Nat
         /\ Len(out) \in Nat /\ Pending \in Nat
<1>0. MaxUpdates \in Int /\ 1 \in Int /\ IsFiniteSet(Source)
  BY FeedAssumption
<1>1. IsFiniteSet(Update)
  BY <1>0, FS_Interval, Zenon DEF Update
<1>2. UpdateTs \in Surjection(Update, {UpdateTs[u] : u \in Update})
  BY FeedAssumption DEF Surjection
<1>3. IsFiniteSet({UpdateTs[u] : u \in Update})
  BY <1>1, <1>2, FS_Surjection
<1>4. IsFiniteSet(publishedUpdates)
  BY <1>3, FS_Subset DEF TypeInv, FeedType
<1>5. IsFiniteSet(lost)
  BY <1>1, FS_Subset DEF TypeInv, FeedType
<1>6. IsFiniteSet(Holders)
  BY <1>0, FS_Subset DEF Holders
<1>7. Len(out) \in Nat /\ Pending \in Nat
  BY DEF TypeInv, FeedType, Pending
<1> QED BY <1>4, <1>5, <1>6, <1>7, FS_CardinalityType

\* Every step keeps as many updates in the four places as were published.
LEMMA ConservedNext == ASSUME TypeInv, PlaceInv, Conserved, [Next]_vars PROVE Conserved'
<1>0. Cardinality(publishedUpdates) =
        Len(out) + Cardinality(lost) + Pending + Cardinality(Holders)
  BY DEF Conserved, Pending, Holders
<1>1. ASSUME Cardinality(publishedUpdates)' =
               Len(out)' + Cardinality(lost)' + Pending' + Cardinality(Holders)'
      PROVE  Conserved'
  BY <1>1 DEF Conserved, Pending, Holders
<1>2. hand \in [Source -> Update \cup {NoUpdate}] /\ NoUpdate \notin Update
  BY FeedAssumption DEF TypeInv, SourceType
<1>3. ASSUME UNCHANGED <<hand, publishedUpdates, chIn, out, lost>> PROVE Conserved'
  BY <1>3 DEF Conserved
<1>4. ASSUME NEW s \in Source, ProcessUpdate(s) PROVE Conserved'
  <2>0. UNCHANGED <<chIn, out, lost>>
    BY <1>4 DEF ProcessUpdate, pubVars
  <2>1. PICK u \in Update :
          \/ UNCHANGED <<hand, publishedUpdates>>
          \/ /\ UpdateTs[u] \notin publishedUpdates /\ pc[s] = "read"
             /\ publishedUpdates' = publishedUpdates \cup {UpdateTs[u]}
             /\ hand' = [hand EXCEPT ![s] = u]
    BY <1>4 DEF ProcessUpdate, SeenHashBy
  <2>2. CASE UNCHANGED <<hand, publishedUpdates>>
    BY <1>3, <2>0, <2>2
  <2>3. CASE /\ UpdateTs[u] \notin publishedUpdates /\ pc[s] = "read"
             /\ publishedUpdates' = publishedUpdates \cup {UpdateTs[u]}
             /\ hand' = [hand EXCEPT ![s] = u]
    <3>1. s \notin Holders
      BY <2>3 DEF TypeInv, HandType, Busy, Holders
    <3>2. Holders' = Holders \cup {s}
      BY <1>2, <2>3 DEF Holders
    <3>3. Cardinality(Holders') = Cardinality(Holders) + 1
      BY <3>1, <3>2, Finite, FS_AddElement
    <3>4. Cardinality(publishedUpdates') = Cardinality(publishedUpdates) + 1
      BY <2>3, Finite, FS_AddElement
    <3>5. Pending' = Pending
      BY <2>0 DEF Pending
    <3> QED BY <1>0, <1>1, <2>0, <3>3, <3>4, <3>5, Finite
  <2> QED BY <2>1, <2>2, <2>3
<1>5. ASSUME NEW s \in Source, hand[s] # NoUpdate, hand' = [hand EXCEPT ![s] = NoUpdate]
      PROVE  Cardinality(Holders') = Cardinality(Holders) - 1
  <2>1. s \in Holders
    BY <1>5 DEF Holders
  <2>2. Holders' = Holders \ {s}
    BY <1>2, <1>5 DEF Holders
  <2> QED BY <2>1, <2>2, Finite, FS_RemoveElement
<1>6. ASSUME NEW s \in Source, PublishData(s) PROVE Conserved'
  <2>1. hand[s] \in Update /\ hand[s] # NoUpdate
    BY <1>6, HandKnown DEF PublishData, Goto, Busy
  <2>2. UNCHANGED <<publishedUpdates, out, lost>> /\ hand' = [hand EXCEPT ![s] = NoUpdate]
    BY <1>6 DEF PublishData
  <2>3. Pending = 0 /\ Pending' = 1
    BY <1>2, <1>6, <2>1 DEF PublishData, Pending
  <2>4. Cardinality(Holders') = Cardinality(Holders) - 1
    BY <1>5, <2>1, <2>2
  <2> QED BY <1>0, <1>1, <2>2, <2>3, <2>4, Finite
<1>7. ASSUME NEW s \in Source, PublishTimeout(s) PROVE Conserved'
  <2>1. hand[s] \in Update /\ hand[s] # NoUpdate
    BY <1>7, HandKnown DEF PublishTimeout, Goto, Busy
  <2>2. UNCHANGED <<publishedUpdates, chIn, out>> /\ hand' = [hand EXCEPT ![s] = NoUpdate]
        /\ lost' = lost \cup {hand[s]}
    BY <1>7 DEF PublishTimeout, pubVars
  <2>3. hand[s] \notin lost
    BY <2>1 DEF PlaceInv
  <2>4. Cardinality(lost') = Cardinality(lost) + 1
    BY <2>2, <2>3, Finite, FS_AddElement
  <2>5. Cardinality(Holders') = Cardinality(Holders) - 1
    BY <1>5, <2>1, <2>2
  <2>6. Pending' = Pending
    BY <2>2 DEF Pending
  <2> QED BY <1>0, <1>1, <2>2, <2>4, <2>5, <2>6, Finite
<1>8. ASSUME Loop PROVE Conserved'
  <2>1. UNCHANGED <<hand, publishedUpdates>> /\ chIn # NoUpdate /\ chIn' = NoUpdate
    BY <1>8 DEF Loop, Send, sourceVars
  <2>2. Holders' = Holders /\ Pending = 1 /\ Pending' = 0
    BY <2>1 DEF Holders, Pending
  <2>3. CASE out' = Append(out, chIn) /\ UNCHANGED lost
    <3>1. Len(out') = Len(out) + 1
      BY <2>1, <2>3 DEF TypeInv, FeedType
    <3> QED BY <1>0, <1>1, <2>1, <2>2, <2>3, <3>1, Finite
  <2>4. CASE lost' = lost \cup {chIn} /\ UNCHANGED out
    <3>1. chIn \notin lost
      BY <2>1 DEF PlaceInv
    <3>2. Cardinality(lost') = Cardinality(lost) + 1
      BY <2>4, <3>1, Finite, FS_AddElement
    <3> QED BY <1>0, <1>1, <2>1, <2>2, <2>4, <3>2, Finite
  <2> QED BY <1>8, <2>3, <2>4 DEF Loop, Send
<1>9. ASSUME NEW s \in Source,
             RunStarter(s) \/ NewUpdateChan(s) \/ CountUpdate(s) \/ UpdateLastState(s)
      PROVE  UNCHANGED <<hand, publishedUpdates, chIn, out, lost>>
  BY <1>9 DEF RunStarter, NewUpdateChan, CountUpdate, UpdateLastState, pubVars
<1>10. ASSUME Cleanup \/ UNCHANGED vars
       PROVE  UNCHANGED <<hand, publishedUpdates, chIn, out, lost>>
  BY <1>10 DEF Cleanup, vars, sourceVars, pubVars
<1> QED BY <1>3, <1>4, <1>6, <1>7, <1>8, <1>9, <1>10 DEF Next, Work

\* Every update that was seen is in one place, in update_collector.go, in the
\* publisher, sent or lost.
THEOREM ConservedAlways == Spec => []Conserved
<1>1. Init => TypeInv /\ PlaceInv /\ Conserved
  <2>1. ASSUME Init PROVE PlaceInv
    BY <2>1 DEF Init, PlaceInv
  <2>2. ASSUME Init PROVE Conserved
    <3>1. {s \in Source : hand[s] # NoUpdate} = {}
      BY <2>2 DEF Init
    <3> QED BY <2>2, <3>1, FS_EmptySet DEF Init, Conserved
  <2> QED BY <2>1, <2>2, TypeInit
<1>2. TypeInv /\ PlaceInv /\ Conserved /\ [Next]_vars => (TypeInv /\ PlaceInv /\ Conserved)'
  BY SourceTypeNext, HandTypeNext, FeedTypeNext, PlaceNext, ConservedNext DEF TypeInv
<1> QED BY <1>1, <1>2, PTL DEF Spec

-----------------------------------------------------------------------------
\* What was counted was seen; a source counts an update it has not counted, and
\* passes on only what it has.
CountInv ==
  /\ \A u \in Update : counted[u] # 0 => UpdateTs[u] \in publishedUpdates
  /\ \A s \in Source : pc[s] = "count" => counted[hand[s]] = 0
  /\ \A s \in Source : pc[s] \in {"state", "publish"} /\ hand[s] \in Confirms =>
       counted[hand[s]] = 1
  /\ chIn \in Confirms => counted[chIn] = 1
  /\ CountedOnce

\* Every step keeps the relation of the counts to the places of the updates.
LEMMA CountNext ==
  ASSUME TypeInv, PlaceInv, CountInv, [Next]_vars PROVE CountInv'
<1>0. /\ hand \in [Source -> Update \cup {NoUpdate}] /\ pc \in [Source -> Phase]
      /\ NoUpdate \notin Update /\ counted \in [Update -> Nat] /\ Confirms \subseteq Update
      /\ out \in Seq(Update)
  BY FeedAssumption DEF TypeInv, SourceType, FeedType
<1> USE DEF Goto
<1>1. ASSUME NEW s \in Source, RunStarter(s) \/ NewUpdateChan(s) PROVE CountInv'
  <2>1. UNCHANGED <<hand, publishedUpdates, counted, chIn, out, lost>>
    BY <1>1 DEF RunStarter, NewUpdateChan, pubVars
  <2>2. \A t \in Source : pc'[t] = pc[t] \/ pc'[t] \in {"idle", "dial", "read"}
    BY <1>0, <1>1 DEF RunStarter, NewUpdateChan
  <2>3. CountedOnce' = CountedOnce
    BY <2>1 DEF CountedOnce, Sent
  <2> QED BY <2>1, <2>2, <2>3 DEF CountInv
<1>2. ASSUME NEW s \in Source, ProcessUpdate(s) PROVE CountInv'
  <2>0. UNCHANGED <<counted, chIn, out, lost>>
    BY <1>2 DEF ProcessUpdate, pubVars
  <2>1. CountedOnce'
    BY <2>0 DEF CountInv, CountedOnce, Sent
  <2>2. PICK u \in Update :
          \/ UNCHANGED <<pc, hand, publishedUpdates>>
          \/ /\ UpdateTs[u] \notin publishedUpdates
             /\ publishedUpdates' = publishedUpdates \cup {UpdateTs[u]}
             /\ hand' = [hand EXCEPT ![s] = u] /\ pc' = [pc EXCEPT ![s] = "count"]
    BY <1>2 DEF ProcessUpdate, SeenHashBy
  <2>3. CASE UNCHANGED <<pc, hand, publishedUpdates>>
    BY <2>0, <2>1, <2>3 DEF CountInv
  <2>4. CASE /\ UpdateTs[u] \notin publishedUpdates
             /\ publishedUpdates' = publishedUpdates \cup {UpdateTs[u]}
             /\ hand' = [hand EXCEPT ![s] = u] /\ pc' = [pc EXCEPT ![s] = "count"]
    <3>1. hand'[s] = u /\ pc'[s] = "count"
      BY <1>0, <2>4
    <3>2. \A t \in Source \ {s} : hand'[t] = hand[t] /\ pc'[t] = pc[t]
      BY <1>0, <2>4
    <3>3. counted[u] = 0
      BY <2>4 DEF CountInv
    <3> QED BY <2>0, <2>1, <2>4, <3>1, <3>2, <3>3 DEF CountInv
  <2> QED BY <2>2, <2>3, <2>4
<1>3. ASSUME NEW s \in Source, CountUpdate(s) PROVE CountInv'
  <2> DEFINE u == hand[s]
  <2>0. UNCHANGED <<hand, publishedUpdates, chIn, out, lost>>
    BY <1>3 DEF CountUpdate, pubVars
  <2>1. pc[s] = "count" /\ pc'[s] = "state" /\ \A t \in Source \ {s} : pc'[t] = pc[t]
    BY <1>0, <1>3 DEF CountUpdate
  <2>2. u \in Update /\ u # NoUpdate /\ counted[u] = 0
    BY <2>1, HandKnown DEF CountInv, Busy
  <2>3. \A v \in Update \ {u} : counted'[v] = counted[v]
    BY <1>0, <1>3 DEF CountUpdate
  <2>4. counted'[u] = IF u \in Confirms THEN 1 ELSE 0
    BY <1>0, <1>3, <2>2 DEF CountUpdate
  <2>5. UpdateTs[u] \in publishedUpdates /\ u # chIn /\ \A t \in Source \ {s} : hand[t] # u
    BY <2>2 DEF PlaceInv
  <2> HIDE DEF u
  <2>6. \A v \in Update : counted'[v] # 0 => UpdateTs[v] \in publishedUpdates
    BY <2>3, <2>4, <2>5 DEF CountInv
  <2>7. \A t \in Source : pc'[t] = "count" => counted'[hand[t]] = 0
    <3> TAKE t \in Source
    <3> HAVE pc'[t] = "count"
    <3>1. t # s /\ pc[t] = "count"
      BY <2>1
    <3>2. hand[t] \in Update \ {u}
      BY <2>5, <3>1, HandKnown DEF Busy
    <3> QED BY <2>3, <3>1, <3>2 DEF CountInv
  <2>8. \A t \in Source : pc'[t] \in {"state", "publish"} /\ hand[t] \in Confirms =>
          counted'[hand[t]] = 1
    BY <1>0, <2>1, <2>3, <2>4, <2>5 DEF CountInv, u
  <2>9. chIn \in Confirms => counted'[chIn] = 1
    BY <1>0, <2>3, <2>5 DEF CountInv
  <2>10. \A v \in Update : counted'[v] <= 1
    BY <2>3, <2>4 DEF CountInv, CountedOnce
  <2>11. \A v \in Confirms \cap (Sent \cup lost) : counted'[v] = 1
    BY <1>0, <2>2, <2>3 DEF CountInv, CountedOnce
  <2>12. CountedOnce'
    BY <2>0, <2>10, <2>11 DEF CountedOnce, Sent
  <2> QED BY <2>0, <2>6, <2>7, <2>8, <2>9, <2>12 DEF CountInv
<1>4. ASSUME NEW s \in Source, UpdateLastState(s) PROVE CountInv'
  <2>1. UNCHANGED <<hand, publishedUpdates, counted, chIn, out, lost>>
    BY <1>4 DEF UpdateLastState, pubVars
  <2>2. \A t \in Source : pc'[t] = pc[t] \/ (pc[t] = "state" /\ pc'[t] = "publish")
    BY <1>0, <1>4 DEF UpdateLastState
  <2>3. CountedOnce'
    BY <2>1 DEF CountInv, CountedOnce, Sent
  <2> QED BY <2>1, <2>2, <2>3 DEF CountInv
<1>5. ASSUME NEW s \in Source, PublishData(s) PROVE CountInv'
  <2>1. pc[s] = "publish" /\ pc'[s] = "read" /\ \A t \in Source \ {s} : pc'[t] = pc[t]
    BY <1>0, <1>5 DEF PublishData
  <2>2. \A t \in Source \ {s} : hand'[t] = hand[t]
    BY <1>0, <1>5 DEF PublishData
  <2>3. chIn' = hand[s] /\ UNCHANGED <<publishedUpdates, counted, out, lost>>
    BY <1>5 DEF PublishData
  <2>4. CountedOnce'
    BY <2>3 DEF CountInv, CountedOnce, Sent
  <2> QED BY <2>1, <2>2, <2>3, <2>4 DEF CountInv
<1>6. ASSUME NEW s \in Source, PublishTimeout(s) PROVE CountInv'
  <2>1. pc[s] = "publish" /\ pc'[s] = "idle" /\ \A t \in Source \ {s} : pc'[t] = pc[t]
    BY <1>0, <1>6 DEF PublishTimeout
  <2>2. \A t \in Source \ {s} : hand'[t] = hand[t]
    BY <1>0, <1>6 DEF PublishTimeout
  <2>3. lost' = lost \cup {hand[s]} /\ UNCHANGED <<publishedUpdates, counted, chIn, out>>
    BY <1>6 DEF PublishTimeout, pubVars
  <2>4. CountedOnce'
    BY <2>1, <2>3 DEF CountInv, CountedOnce, Sent
  <2> QED BY <2>1, <2>2, <2>3, <2>4 DEF CountInv
<1>7. ASSUME Loop PROVE CountInv'
  <2>1. chIn # NoUpdate /\ chIn' = NoUpdate /\ UNCHANGED <<pc, hand, publishedUpdates, counted>>
    BY <1>7 DEF Loop, Send, sourceVars
  <2>2. chIn \in Update
    BY <2>1 DEF TypeInv, FeedType
  <2>3. Sent' \cup lost' \subseteq Sent \cup lost \cup {chIn}
    <3>1. CASE out' = Append(out, chIn) /\ UNCHANGED lost
      BY <1>0, <2>2, <3>1 DEF Sent
    <3>2. CASE lost' = lost \cup {chIn} /\ UNCHANGED out
      BY <3>2 DEF Sent
    <3> QED BY <1>7, <3>1, <3>2 DEF Loop, Send
  <2>4. CountedOnce'
    BY <2>1, <2>3 DEF CountInv, CountedOnce
  <2> QED BY <1>0, <2>1, <2>4 DEF CountInv
<1>8. ASSUME Cleanup \/ UNCHANGED vars PROVE CountInv'
  <2>1. UNCHANGED <<pc, hand, publishedUpdates, counted, chIn, out, lost>>
    BY <1>8 DEF Cleanup, vars, sourceVars, pubVars
  <2>2. CountedOnce'
    BY <2>1 DEF CountInv, CountedOnce, Sent
  <2> QED BY <2>1, <2>2 DEF CountInv
<1> QED BY <1>1, <1>2, <1>3, <1>4, <1>5, <1>6, <1>7, <1>8 DEF Next, Work

\* Confirmations are counted once, those whose publication fails included, in
\* senderUpdateToStats and updateSenderMetrics.
THEOREM CountedOnceAlways == Spec => []CountedOnce
<1>1. Init => TypeInv /\ PlaceInv /\ CountInv
  <2>1. ASSUME Init PROVE PlaceInv
    BY <2>1 DEF Init, PlaceInv
  <2>2. ASSUME Init PROVE CountInv
    <3>1. Sent = {} /\ lost = {} /\ chIn \notin Confirms
      BY <2>2, FeedAssumption DEF Init, Sent
    <3>2. \A u \in Update : counted[u] = 0
      BY <2>2 DEF Init
    <3>3. \A s \in Source : pc[s] = "idle"
      BY <2>2 DEF Init
    <3> QED BY <3>1, <3>2, <3>3 DEF CountInv, CountedOnce
  <2> QED BY <2>1, <2>2, TypeInit
<1>2. TypeInv /\ PlaceInv /\ CountInv /\ [Next]_vars => (TypeInv /\ PlaceInv /\ CountInv)'
  BY SourceTypeNext, HandTypeNext, FeedTypeNext, PlaceNext, CountNext DEF TypeInv
<1>3. CountInv => CountedOnce
  BY DEF CountInv
<1> QED BY <1>1, <1>2, <1>3, PTL DEF Spec
=============================================================================
