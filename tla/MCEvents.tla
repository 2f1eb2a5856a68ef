------------------------------ MODULE MCEvents ------------------------------
(***************************************************************************)
(* Model checking of NotificationRules and, for liveness, of Outbox in one *)
(* run.  They share no variable and no constant: a behaviour is one of a   *)
(* single module, chosen with its initial state, while the variables of    *)
(* the other keep theirs.                                                  *)
(***************************************************************************)
EXTENDS Outbox, NotificationRules

CONSTANT thing

OneEntity == [e \in Event |-> thing]

VARIABLE part

allVars == <<part, vars, ruleVars>>

EventsInit == Init /\ RulesInit /\ part \in {"outbox", "rules"}

Delivers(A) == part = "outbox" /\ A /\ UNCHANGED <<part, ruleVars>>

Rules(A) == part = "rules" /\ A /\ UNCHANGED <<part, vars>>

EventsNext == Delivers(Next) \/ Rules(RulesNext)

\* The fairness of Outbox's FairSpec.
OutboxFairness ==
  /\ \A m \in Message :
       /\ WF_allVars(Delivers(Ripen(m)))
       /\ SF_allVars(Delivers(\E d \in Dispatcher, dying, taken \in SUBSET Message :
                                m \in dying \cup taken /\ ClaimBatch(d, dying, taken)))
  /\ \A d \in Dispatcher :
       WF_allVars(Delivers(Publish(d) \/ MarkSucceeds(d) \/ MarkLosesLease(d) \/ ReleaseNext(d)))
  /\ WF_allVars(Delivers(ExecuteLate))

\* The queue delivers what is owed, and a run that has begun goes on.
RulesFairness == \A e \in Event : WF_allVars(Rules(Receive(e) \/ Works(e)))

EventsSpec == EventsInit /\ [][EventsNext]_allVars /\ OutboxFairness /\ RulesFairness
=============================================================================
