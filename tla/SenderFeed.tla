----------------------------- MODULE SenderFeed -----------------------------
(***************************************************************************)
(* The sender part of tanglebeat: the starter of the reader set            *)
(* (inreaders) runs a routine for each source of sender updates, the       *)
(* routines (update_collector.go) drop what another source has brought     *)
(* already, count the rest, show it as the state of its sequence and hand  *)
(* it to the publisher (lib/nanomsg), which gives up after five seconds.   *)
(*                                                                         *)
(* The updates are those of one sequence, numbered as it published them.   *)
(* They reach a source in order, or not at all.  A hash stays in the cache *)
(* for an hour, longer than an update is under way, so that it is never    *)
(* forgotten here.  The output is enabled.                                 *)
(***************************************************************************)
EXTENDS Integers, Sequences, FiniteSets

CONSTANTS
  Source,      \* the sources of updates, by uri
  MaxUpdates,  \* the number of updates (a bound)
  UpdateTs,    \* the time stamp of each update, in milliseconds
  Confirms,    \* the updates that report a confirmation
  NoUpdate

Update == 1..MaxUpdates

ASSUME FeedAssumption ==
  /\ IsFiniteSet(Source) /\ MaxUpdates \in Nat
  /\ UpdateTs \in [Update -> Nat]
  /\ Confirms \subseteq Update
  /\ NoUpdate \notin Update

VARIABLES
  pc,                \* where each source's goroutine is; "idle": not running
  received,          \* the last update each source has received
  hand,              \* the update each source is processing
  publishedUpdates,  \* the cache: UpdateTs of what was seen
  counted,           \* how often each update went into the statistics
  lastState,         \* the update senders[SeqUID] shows
  chIn,              \* what the publisher's loop is sending
  out,               \* what was sent, in order
  lost               \* history: publications that failed

sourceVars == <<pc, received, hand>>
pubVars == <<chIn, out>>
vars == <<sourceVars, publishedUpdates, counted, lastState, pubVars, lost>>

Init ==
  /\ pc = [s \in Source |-> "idle"]
  /\ received = [s \in Source |-> 0]
  /\ hand = [s \in Source |-> NoUpdate]
  /\ publishedUpdates = {}
  /\ counted = [u \in Update |-> 0]
  /\ lastState = NoUpdate
  /\ chIn = NoUpdate /\ out = <<>> /\ lost = {}

Goto(s, from, to) == pc[s] = from /\ pc' = [pc EXCEPT ![s] = to]

-----------------------------------------------------------------------------
\* The reader set.

\* A source that does not run is started when its time has come.
RunStarter(s) ==
  /\ Goto(s, "idle", "dial")
  /\ UNCHANGED <<received, hand, publishedUpdates, counted, lastState, pubVars, lost>>

\* The socket is opened, or the routine ends with an error.
NewUpdateChan(s) ==
  /\ Goto(s, "dial", "read") \/ Goto(s, "dial", "idle")
  /\ UNCHANGED <<received, hand, publishedUpdates, counted, lastState, pubVars, lost>>

-----------------------------------------------------------------------------
\* The routine of a source.

\* The cache is asked, but what is new is not put into it.
Mut_SeenHashBy(u) == UNCHANGED publishedUpdates

SeenHashBy(u) == publishedUpdates' = publishedUpdates \cup {UpdateTs[u]}

\* The next update arrives, others may be missed.  The cache knows an update of
\* a sequence by its time stamp.
ProcessUpdate(s) ==
  /\ pc[s] = "read"
  /\ \E u \in Update :
       /\ u > received[s]
       /\ received' = [received EXCEPT ![s] = u]
       /\ \/ /\ UpdateTs[u] \in publishedUpdates
             /\ UNCHANGED <<pc, hand, publishedUpdates>>
          \/ /\ UpdateTs[u] \notin publishedUpdates
             /\ SeenHashBy(u)
             /\ hand' = [hand EXCEPT ![s] = u]
             /\ Goto(s, "read", "count")
  /\ UNCHANGED <<counted, lastState, pubVars, lost>>

CountUpdate(s) ==
  /\ Goto(s, "count", "state")
  /\ counted' = IF hand[s] \in Confirms
                THEN [counted EXCEPT ![hand[s]] = @ + 1] ELSE counted
  /\ UNCHANGED <<received, hand, publishedUpdates, lastState, pubVars, lost>>

UpdateLastState(s) ==
  /\ Goto(s, "state", "publish")
  /\ lastState' = hand[s]
  /\ UNCHANGED <<received, hand, publishedUpdates, counted, pubVars, lost>>

\* An update that is no longer the state shown is dropped.
Mut_PublishData(s) ==
  /\ chIn = NoUpdate
  /\ Goto(s, "publish", "read")
  /\ chIn' = IF hand[s] = lastState THEN hand[s] ELSE NoUpdate
  /\ hand' = [hand EXCEPT ![s] = NoUpdate]
  /\ UNCHANGED <<received, publishedUpdates, counted, lastState, out, lost>>

\* The loop takes the update from the channel, which has no buffer.
PublishData(s) ==
  /\ chIn = NoUpdate
  /\ Goto(s, "publish", "read")
  /\ chIn' = hand[s]
  /\ hand' = [hand EXCEPT ![s] = NoUpdate]
  /\ UNCHANGED <<received, publishedUpdates, counted, lastState, out, lost>>

\* The update is processed once more after a timeout.
Mut_PublishTimeout(s) ==
  /\ chIn # NoUpdate
  /\ Goto(s, "publish", "count")
  /\ UNCHANGED <<received, hand, publishedUpdates, counted, lastState, pubVars, lost>>

\* The loop is busy for five seconds: the routine ends, to be run again.
PublishTimeout(s) ==
  /\ chIn # NoUpdate
  /\ Goto(s, "publish", "idle")
  /\ hand' = [hand EXCEPT ![s] = NoUpdate]
  /\ lost' = lost \cup {hand[s]}
  /\ UNCHANGED <<received, publishedUpdates, counted, lastState, pubVars>>

Work(s) ==
  CountUpdate(s) \/ UpdateLastState(s) \/ PublishData(s) \/ PublishTimeout(s)

-----------------------------------------------------------------------------
\* The loop sends the data, or goes on when the socket refuses it.
Send ==
  /\ chIn' = NoUpdate
  /\ \/ out' = Append(out, chIn) /\ UNCHANGED lost
     \/ lost' = lost \cup {chIn} /\ UNCHANGED out

Loop ==
  /\ chIn # NoUpdate
  /\ Send
  /\ UNCHANGED <<sourceVars, publishedUpdates, counted, lastState>>

\* A sequence that has not been heard of for 20 minutes is not shown any more.
Cleanup ==
  /\ lastState # NoUpdate
  /\ lastState' = NoUpdate
  /\ UNCHANGED <<sourceVars, publishedUpdates, counted, pubVars, lost>>

Next ==
  \/ \E s \in Source : RunStarter(s) \/ NewUpdateChan(s) \/ ProcessUpdate(s) \/ Work(s)
  \/ Loop
  \/ Cleanup

Spec == Init /\ [][Next]_vars

\* A routine that has an update goes on, and the socket does not block the loop.
FairSpec ==
  /\ Spec
  /\ \A s \in Source : WF_vars(Work(s))
  /\ WF_vars(Loop)

-----------------------------------------------------------------------------
Sent == {out[i] : i \in DOMAIN out}

\* Every variable has its type; a source holds an update exactly while it
\* processes it.
TypeOK ==
  /\ pc \in [Source -> {"idle", "dial", "read", "count", "state", "publish"}]
  /\ received \in [Source -> 0..MaxUpdates]
  /\ hand \in [Source -> Update \cup {NoUpdate}]
  /\ \A s \in Source : hand[s] # NoUpdate <=> pc[s] \in {"count", "state", "publish"}
  /\ publishedUpdates \subseteq {UpdateTs[u] : u \in Update}
  /\ counted \in [Update -> Nat]
  /\ lastState \in Update \cup {NoUpdate}
  /\ chIn \in Update \cup {NoUpdate}
  /\ out \in Seq(Update) /\ lost \subseteq Update

\* Every update that was seen is in one place, whichever sources brought it: with
\* one source, with the publisher, sent, or lost with a failed publication.
Conserved ==
  Cardinality(publishedUpdates) =
    Len(out) + Cardinality(lost) + (IF chIn = NoUpdate THEN 0 ELSE 1)
      + Cardinality({s \in Source : hand[s] # NoUpdate})

\* A confirmation is counted once before its update is published, and is counted
\* also when the publication fails.
CountedOnce ==
  /\ \A u \in Update : counted[u] <= 1
  /\ \A u \in Confirms \cap (Sent \cup lost) : counted[u] = 1

\* An update that was seen is published in the end, or its publication fails.
Settles ==
  \A u \in Update :
    UpdateTs[u] \in publishedUpdates ~>
      \E v \in Sent \cup lost : UpdateTs[v] = UpdateTs[u]
=============================================================================
