------------------------------- MODULE MCBridge -------------------------------
(***************************************************************************)
(* Model checking of EventBridge and, for liveness, of                     *)
(* NotificationDelivery in one run.  They share no variable and no         *)
(* constant: a behaviour is one of a single module, chosen with its        *)
(* initial state, while the variables of the other keep theirs.            *)
(***************************************************************************)
EXTENDS EventBridge, NotificationDelivery

VARIABLE part

reminderVars == <<part, bridgeVars, vars>>

RemindersInit == BridgeInit /\ Init /\ part \in {"bridge", "delivery"}

Bridge(A) == part = "bridge" /\ A /\ UNCHANGED <<part, vars>>

Notifies(A) == part = "delivery" /\ A /\ UNCHANGED <<part, bridgeVars>>

RemindersNext == Bridge(BridgeNext) \/ Notifies(Next)

\* The polls and the bridge go on for as long as the worker runs, which is
\* restarted when it ends; nobody has to settle what is due.
BridgeFairness ==
  /\ WF_reminderVars(Bridge(StartSweep \/ \E d \in Deadline : PublishNext(d)))
  /\ WF_reminderVars(Bridge(\E x \in Exception : PublishExpiry(x)))
  /\ WF_reminderVars(Bridge(TakeEvent \/ EnqueueHeld \/ DropHeld))

\* The fairness of NotificationDelivery's FairSpec.
DeliveryFairness ==
  /\ \A n \in Notification :
       /\ WF_reminderVars(Notifies(FallDue(n))) /\ WF_reminderVars(Notifies(Lapse(n)))
       /\ WF_reminderVars(Notifies(AckOverdue(n)))
       /\ SF_reminderVars(Notifies(\E w \in Worker, taken \in SUBSET Notification :
                                     n \in taken /\ claimDueNotifications(w, taken)))
  /\ \A n \in Root :
       SF_reminderVars(Notifies(\E ns \in SUBSET Root : n \in ns /\ Escalate(ns)))
  /\ \A w \in Worker : WF_reminderVars(Notifies(Deliver(w) \/ RecordOutcome(w)))
  /\ WF_reminderVars(Notifies(ExecuteLate))

RemindersSpec ==
  RemindersInit /\ [][RemindersNext]_reminderVars /\ BridgeFairness /\ DeliveryFairness
=============================================================================
