-------------------------- MODULE DurableDelivery --------------------------
(***************************************************************************)
(* The outbox in front of the queue.  The queue is what AtLeastOnce        *)
(* promises, which Delivery implements: a message whose publish is         *)
(* confirmed has been accepted by it, one whose publish is unconfirmed may *)
(* have been.  What the queue does with what it has accepted goes on       *)
(* beside the dispatchers.                                                 *)
(***************************************************************************)
EXTENDS Outbox

VARIABLES
  status,    \* what the queue has made of each message
  committed  \* history: messages whose transaction has committed

durableVars == <<vars, status, committed>>

Queue == INSTANCE AtLeastOnce

DurableTypeOK ==
  /\ TypeOK
  /\ status \in [Message -> Queue!Statuses]
  /\ committed \subseteq Message

DurableInit == Init /\ Queue!Init /\ committed = {}

\* A message that has come before is taken for the same one.
Accepts(m) == Queue!Accept(m) \/ (status[m] # "unsent" /\ UNCHANGED status)

Commits(m) == Enqueue(m) /\ committed' = committed \cup {m} /\ UNCHANGED status

\* The queue has the message before the dispatcher sees the confirm; without a
\* confirm it may have it all the same.
Publishes(d) ==
  /\ Publish(d)
  /\ \E i \in batch[d] :
       /\ batch'[d] = batch[d] \ {i}
       /\ Accepts(i.msg) \/ (~ confirmed'[i.msg] /\ UNCHANGED status)
  /\ UNCHANGED committed

\* Everything else that the dispatchers and the retention do.
WorksOn ==
  /\ \/ \E m \in Message : PurgePublishedBefore(m) \/ Ripen(m)
     \/ \E d \in Dispatcher :
          \/ Claim(d) \/ MarkSucceeds(d) \/ MarkLosesLease(d)
          \/ MarkErrors(d) \/ ReleaseNext(d) \/ Crash(d)
     \/ ExecuteLate
  /\ UNCHANGED <<status, committed>>

\* Handlers succeed with messages, and messages are parked.
Consumes ==
  /\ \/ \E m \in Message : Queue!Succeed(m)
     \/ \E ms \in SUBSET Message : Queue!Park(ms)
  /\ UNCHANGED <<vars, committed>>

DurableNext ==
  \/ \E m \in Message : Commits(m)
  \/ \E d \in Dispatcher : Publishes(d)
  \/ WorksOn \/ Consumes

DurableSpec == DurableInit /\ [][DurableNext]_durableVars

-----------------------------------------------------------------------------
\* A message whose transaction has committed is in the outbox, where a dispatcher
\* or an operator finds it, or the queue has accepted it and owes it: no lease,
\* crash, late mark or purge lets it vanish between the two.
\* (outbox_dispatcher.go:17, "cannot silently lose a committed domain event")
NothingCommittedVanishes ==
  \A m \in committed :
    row[m].status \in {"pending", "leased", "dead"} \/ status[m] # "unsent"
=============================================================================
