-------------------------- MODULE NotificationRules --------------------------
(***************************************************************************)
(* The handler of notification.event messages:                             *)
(* NotificationEngine.ProcessEvent, which turns one event into             *)
(* notification rows, rule by rule and recipient by recipient.  Nothing    *)
(* spans its statements: what a run has inserted stays when it fails       *)
(* later, and the queue repeats the run.                                   *)
(*                                                                         *)
(* What the queue promises is taken from module Delivery: a message is     *)
(* owed until a run succeeds or MaxRuns runs have failed.  Its inbox lease *)
(* keeps its runs apart: a run that overran its lease beside the next one, *)
(* which Delivery admits (ExclusiveUnlessOverrun), is not modelled.  What  *)
(* becomes of the rows is module NotificationDelivery; here they only grow *)
(* cold.                                                                   *)
(***************************************************************************)
EXTENDS Integers, FiniteSets

CONSTANTS Event,       \* events, by their message IDs
          EntityOf,    \* the entity an event is about
          Rule,        \* active rules that match, each with a cooldown
          Recipient,   \* a rule's recipients whose preferences let it through
          Idle,
          MaxRuns,     \* runs of the handler before a message is parked
          MaxReturns   \* bound on the messages enqueued again after a purge

Entities == {EntityOf[e] : e \in Event}
Target == Event \X Rule \X Recipient

\* rules: yet to be tried; todo: recipients left of the rule under way
Run == [rules : SUBSET Rule, rule : Rule \cup {Idle}, todo : SUBSET Recipient,
        failed : BOOLEAN]

ASSUME RulesAssumption ==
  /\ Idle \notin Rule /\ Idle \notin Run /\ Recipient # {}
  /\ EntityOf \in [Event -> Entities]
  /\ MaxRuns \in Nat \ {0} /\ MaxReturns \in Nat

VARIABLES
  stage,     \* the message of each event
  attempts,  \* runs that did not complete it
  runs,      \* the run each event is in: its inbox lease admits one
  notes,     \* notification rows of each target: how many, and how they count
  muted,     \* history: a run skipped a rule in its cooldown, and whose rows it saw
  raced,     \* history: two runs were inside a rule for one entity
  returns

ruleVars == <<stage, attempts, runs, notes, muted, raced, returns>>

RulesTypeOK ==
  /\ stage \in [Event -> {"absent", "owed", "done", "parked"}]
  /\ attempts \in [Event -> 0..MaxRuns]
  /\ runs \in [Event -> Run \cup {Idle}]
  /\ notes \in [Target -> [rows : Nat, state : {"none", "recent", "cold"}]]
  /\ muted \subseteq Event \X Rule \X {"own", "other"}
  /\ raced \subseteq Rule \X Entities
  /\ returns \in 0..MaxReturns

RulesInit ==
  /\ stage = [e \in Event |-> "absent"]
  /\ attempts = [e \in Event |-> 0]
  /\ runs = [e \in Event |-> Idle]
  /\ notes = [t \in Target |-> [rows |-> 0, state |-> "none"]]
  /\ muted = {} /\ raced = {} /\ returns = 0

-----------------------------------------------------------------------------
(* The queue. *)

Arrive(e) ==
  /\ stage[e] = "absent"
  /\ stage' = [stage EXCEPT ![e] = "owed"]
  /\ UNCHANGED <<attempts, runs, notes, muted, raced, returns>>

\* A deadline's message is enqueued again: its outbox row was purged after
\* OUTBOX_RETENTION, its inbox row after the shorter QUEUE_IDEMPOTENCY_TTL.
Return(e) ==
  /\ returns < MaxReturns /\ stage[e] \in {"done", "parked"}
  /\ returns' = returns + 1
  /\ stage' = [stage EXCEPT ![e] = "owed"]
  /\ attempts' = [attempts EXCEPT ![e] = 0]
  /\ UNCHANGED <<runs, notes, muted, raced>>

Running(e) == runs[e] # Idle

Receive(e) ==
  /\ stage[e] = "owed" /\ ~Running(e)
  /\ runs' = [runs EXCEPT ![e] = [rules |-> Rule, rule |-> Idle, todo |-> {}, failed |-> FALSE]]
  /\ UNCHANGED <<stage, attempts, notes, muted, raced, returns>>

-----------------------------------------------------------------------------
(* ProcessEvent. *)

\* Events of the entity whose rows under rule r checkCooldown finds: created
\* within the cooldown and not dead.
Recent(r, entity) ==
  {e \in Event : EntityOf[e] = entity /\ \E p \in Recipient : notes[<<e, r, p>>].state = "recent"}

\* mutant: the query compares the event instead of its entity
checkCooldown_PerEvent(e, r) == Recent(r, EntityOf[e]) \cap {e}
checkCooldown(e, r) == Recent(r, EntityOf[e])

\* The loop of the run comes to rule r.
AtRule(e, r) == Running(e) /\ runs[e].rule = Idle /\ r \in runs[e].rules

SkipRule(e, r) ==
  /\ AtRule(e, r)
  /\ LET seen == checkCooldown(e, r) IN
       /\ seen # {}
       /\ muted' = muted \cup {<<e, r, IF seen = {e} THEN "own" ELSE "other">>}
  /\ runs' = [runs EXCEPT ![e].rules = @ \ {r}]
  /\ UNCHANGED <<stage, attempts, notes, raced, returns>>

\* The run of another event carries out rule r for the entity.
Overlapped(e, r) ==
  \E f \in Event \ {e} : /\ Running(f) /\ runs[f].rule = r
                         /\ EntityOf[f] = EntityOf[e]

OpenRule(e, r) ==
  /\ AtRule(e, r)
  /\ checkCooldown(e, r) = {}
  /\ runs' = [runs EXCEPT ![e].rule = r, ![e].todo = Recipient]
  /\ raced' = IF Overlapped(e, r) THEN raced \cup {<<r, EntityOf[e]>>} ELSE raced
  /\ UNCHANGED <<stage, attempts, notes, muted, returns>>

\* The cooldown query, the recipients or the template fail: on to the next rule.
RuleErrors(e, r) ==
  /\ AtRule(e, r)
  /\ runs' = [runs EXCEPT ![e].rules = @ \ {r}, ![e].failed = TRUE]
  /\ UNCHANGED <<stage, attempts, notes, muted, raced, returns>>

\* The run of e once recipient p is dealt with: after the last, the next rule.
Without(e, p) ==
  IF runs[e].todo = {p}
    THEN [runs[e] EXCEPT !.rules = @ \ {runs[e].rule}, !.rule = Idle, !.todo = {}]
    ELSE [runs[e] EXCEPT !.todo = @ \ {p}]

\* mutant: a delivery key that nothing conflicts with
Kept_NoConflict(n) == [rows |-> n.rows + 1, state |-> "recent"]

\* ON CONFLICT (organization_id, delivery_key): the first row stays as it is.
Kept(n) == IF n.rows = 0 THEN [rows |-> 1, state |-> "recent"] ELSE n

CreateRecord(e, p) ==
  /\ Running(e) /\ p \in runs[e].todo
  /\ notes' = [notes EXCEPT ![<<e, runs[e].rule, p>>] = Kept(@)]
  /\ runs' = [runs EXCEPT ![e] = Without(e, p)]
  /\ UNCHANGED <<stage, attempts, muted, raced, returns>>

\* The channel, the preference or the insert fails for p: the next recipient.
RecipientErrors(e, p) ==
  /\ Running(e) /\ p \in runs[e].todo
  /\ runs' = [runs EXCEPT ![e] = [Without(e, p) EXCEPT !.failed = TRUE]]
  /\ UNCHANGED <<stage, attempts, notes, muted, raced, returns>>

-----------------------------------------------------------------------------
(* The end of a run. *)

\* mutant: the errors of the recipients are logged and not joined
RunVerdict_Ignored(run) == "done"
RunVerdict(run) == IF run.failed THEN "owed" ELSE "done"

\* mutant: a message whose runs are used up is offered once more
Settled_Unlimited(e, outcome) == outcome

Settled(e, outcome) ==
  IF outcome = "owed" /\ attempts[e] + 1 = MaxRuns THEN "parked" ELSE outcome

EndRun(e, outcome) ==
  /\ runs' = [runs EXCEPT ![e] = Idle]
  /\ stage' = [stage EXCEPT ![e] = Settled(e, outcome)]
  /\ attempts' = [attempts EXCEPT ![e] = IF outcome = "owed" THEN @ + 1 ELSE @]
  /\ UNCHANGED <<notes, muted, raced, returns>>

\* mutant: only a run without errors is ever reported to the queue
Finish_WhenClean(e) ==
  /\ Running(e) /\ runs[e].rule = Idle /\ runs[e].rules = {} /\ ~runs[e].failed
  /\ EndRun(e, RunVerdict(runs[e]))

Finish(e) ==
  /\ Running(e) /\ runs[e].rule = Idle /\ runs[e].rules = {}
  /\ EndRun(e, RunVerdict(runs[e]))

\* The rules cannot be read, the worker dies, or the completion is not recorded.
Abandon(e) ==
  /\ Running(e)
  /\ EndRun(e, "owed")

-----------------------------------------------------------------------------
(* A row ages past the rule's cooldown_minutes, or fails for good. *)

Cool(t) ==
  /\ notes[t].state = "recent"
  /\ notes' = [notes EXCEPT ![t].state = "cold"]
  /\ UNCHANGED <<stage, attempts, runs, muted, raced, returns>>

-----------------------------------------------------------------------------

Works(e) ==
  \/ \E r \in Rule : SkipRule(e, r) \/ OpenRule(e, r) \/ RuleErrors(e, r)
  \/ \E p \in Recipient : CreateRecord(e, p) \/ RecipientErrors(e, p)
  \/ Finish(e)

RulesNext ==
  \/ \E e \in Event : \/ Arrive(e) \/ Return(e)
                      \/ Receive(e) \/ Works(e) \/ Abandon(e)
  \/ \E t \in Target : Cool(t)

RulesSpec == RulesInit /\ [][RulesNext]_ruleVars

-----------------------------------------------------------------------------
(* Properties. *)

\* However often an event is redelivered, retried or enqueued again after a
\* purge, a recipient gets one notification of it per rule.
NotifiedOnce == \A t \in Target : notes[t].rows <= 1

\* A recipient without a notification of an event that was processed to the
\* end was kept from it by the rule's cooldown; and the cooldown an event
\* started itself stops only a repeated run of it, whose predecessor failed
\* between two recipients.
MissedOnlyByCooldown ==
  /\ \A t \in Target : stage[t[1]] = "done" /\ notes[t].rows = 0 =>
       \E why \in {"own", "other"} : <<t[1], t[2], why>> \in muted
  /\ \A e \in Event, r \in Rule : <<e, r, "own">> \in muted => attempts[e] > 0 \/ returns > 0

\* Within its cooldown a rule notifies about one event of an entity, unless two
\* runs were inside the rule at once: the check and the inserts are separate.
CooldownUnlessRaced ==
  \A r \in Rule, entity \in Entities :
    Cardinality(Recent(r, entity)) > 1 => <<r, entity>> \in raced

\* Every event is processed to the end or parked for an operator.
EveryEventIsHandled ==
  \A e \in Event : (stage[e] = "owed") ~> (stage[e] \in {"done", "parked"})
=============================================================================
