------------------------ MODULE NotificationDelivery ------------------------
(***************************************************************************)
(* Durable delivery of notifications (internal/service/                    *)
(* notification_delivery.go, internal/repository/notification_repo.go):    *)
(* workers claim due rows of the notifications table under a lease, send   *)
(* them through a provider and record the outcome; delivered notifications *)
(* that nobody acknowledges are escalated to further channels.             *)
(*                                                                         *)
(* retry_count grows by one with every claim and never shrinks, so its     *)
(* value at the claim stands for the claim's random lease_token (0: none). *)
(* Deadlines are one bit each (due, lapsed, an overdue acknowledgement),   *)
(* which may pass at any moment, also under a worker still at work.        *)
(***************************************************************************)
EXTENDS Integers, FiniteSets

CONSTANTS Root,        \* notifications that events give rise to
          Channel,     \* escalation channels, of every rule that escalates
          Escalating,  \* root notifications whose rule escalates
          InApp,       \* notifications that are delivered in the application
          Digest,      \* root notifications that may share a digest
          Worker,      \* worker replicas; a replica keeps its OwnerID
          None,
          MaxRetries,  \* max_retries of every notification
          ClaimBatch,  \* NotificationDeliveryConfig.ClaimBatch
          MaxLate      \* bound on the statements that are late at once

\* parent_notification_id and channel_id of an escalation, its delivery_key.
Escalation == [parent : Root, channel : Channel]
Notification == Root \cup Escalation

ASSUME NotificationAssumption ==
  /\ None \notin Worker /\ Root \cap Escalation = {}
  /\ Escalating \subseteq Root /\ Digest \subseteq Root /\ InApp \subseteq Notification
  /\ MaxRetries \in Nat \ {0} /\ ClaimBatch \in Nat \ {0} /\ MaxLate \in Nat

VARIABLES
  row,       \* notifications
  hands,     \* what each worker has claimed and not yet sent
  job,       \* the outcomes of the group it has sent, still to be recorded
  late,      \* statements whose caller gave up on them
  inactive,  \* escalation channels that are deactivated or deleted
  sends,     \* history: how often a provider took the notification
  mishap     \* history: an attempt overran its lease, or its success was lost

vars == <<row, hands, job, late, inactive, sends, mishap>>

Claims == 1..MaxRetries
Open == {"pending", "failed"}
Delivered == {"sent", "delivered"}

Row == [status : {"absent", "bounced"} \cup Open \cup Delivered,
        owner : Worker \cup {None}, claim : {0} \cup Claims, tries : {0} \cup Claims,
        due : BOOLEAN, lapsed : BOOLEAN, dead : BOOLEAN,
        ack : {"none", "awaited", "overdue"}, acked : BOOLEAN, escalated : BOOLEAN]

Absent == [status |-> "absent", owner |-> None, claim |-> 0, tries |-> 0, due |-> FALSE,
           lapsed |-> FALSE, dead |-> FALSE, ack |-> "none", acked |-> FALSE,
           escalated |-> FALSE]
Created == [Absent EXCEPT !.status = "pending"]

Item == [msg : Notification, claim : Claims]
Statement == [op : {"complete", "retry", "die"}, by : Worker,
              msg : Notification, claim : Claims]

TypeOK ==
  /\ row \in [Notification -> Row]
  /\ hands \in [Worker -> SUBSET Item]
  /\ job \in [Worker -> SUBSET Statement]
  /\ late \in SUBSET Statement
  /\ inactive \in SUBSET Channel
  /\ sends \in [Notification -> Nat]
  /\ mishap \in SUBSET Notification

Init ==
  /\ row = [n \in Notification |-> Absent]
  /\ hands = [w \in Worker |-> {}]
  /\ job = [w \in Worker |-> {}]
  /\ late = {} /\ inactive = {}
  /\ sends = [n \in Notification |-> 0]
  /\ mishap = {}

InHand(n) == \E w \in Worker : \/ \E i \in hands[w] : i.msg = n
                               \/ \E q \in job[w] : q.msg = n
Carried(n) == InHand(n) \/ \E q \in late : q.msg = n

-----------------------------------------------------------------------------
(* Producers, recipients, providers and administrators. *)

\* ON CONFLICT: a second createNotificationRecord of a delivery key has no effect.
createNotificationRecord(n) ==
  /\ row[n].status = "absent"
  /\ row' = [row EXCEPT ![n] = Created]
  /\ UNCHANGED <<hands, job, late, inactive, sends, mishap>>

\* COALESCE(next_retry_at, scheduled_for) passes.
FallDue(n) ==
  /\ row[n].status \in Open /\ ~ row[n].dead /\ ~ row[n].due
  /\ row' = [row EXCEPT ![n].due = TRUE]
  /\ UNCHANGED <<hands, job, late, inactive, sends, mishap>>

\* leased_until passes.
Lapse(n) ==
  /\ row[n].owner # None /\ ~ row[n].lapsed
  /\ row' = [row EXCEPT ![n].lapsed = TRUE]
  /\ mishap' = IF InHand(n) THEN mishap \cup {n} ELSE mishap
  /\ UNCHANGED <<hands, job, late, inactive, sends>>

\* acknowledgement_due_at passes.
AckOverdue(n) ==
  /\ row[n].ack = "awaited"
  /\ row' = [row EXCEPT ![n].ack = "overdue"]
  /\ UNCHANGED <<hands, job, late, inactive, sends, mishap>>

Acknowledge(n) ==
  /\ row[n].status \in Delivered /\ ~ row[n].acked
  /\ row' = [row EXCEPT ![n].acked = TRUE]
  /\ UNCHANGED <<hands, job, late, inactive, sends, mishap>>

Bounced_KeepsLease(r) ==   \* mutant: the lease is not cleared
  [r EXCEPT !.status = "bounced", !.dead = TRUE]
Bounced(r) ==
  [r EXCEPT !.status = "bounced", !.dead = TRUE,
            !.owner = None, !.claim = 0, !.lapsed = FALSE]

\* A provider may bounce whatever it has taken, at any later time.
RecordBounce(n) ==
  /\ sends[n] > 0
  /\ row' = [row EXCEPT ![n] = Bounced(@)]
  /\ UNCHANGED <<hands, job, late, inactive, sends, mishap>>

\* is_active and deleted_at of notification_channels.
SwitchChannel(c) ==
  /\ inactive' = IF c \in inactive THEN inactive \ {c} ELSE inactive \cup {c}
  /\ UNCHANGED <<row, hands, job, late, sends, mishap>>

-----------------------------------------------------------------------------
(* createDueEscalations, one transaction. *)

Overdue_OnlySent ==   \* mutant: delivered in the application is forgotten
  {n \in Root : /\ row[n].status = "sent" /\ row[n].ack = "overdue"
                /\ ~ row[n].acked /\ ~ row[n].escalated}
Overdue == {n \in Root : /\ row[n].status \in Delivered /\ row[n].ack = "overdue"
                         /\ ~ row[n].acked /\ ~ row[n].escalated}

ChildrenOf(n) == {[parent |-> n, channel |-> c] : c \in Channel}

\* An inactive channel of any of them rolls all of them back.
Escalate(ns) ==
  /\ ns # {} /\ ns \subseteq Overdue /\ Cardinality(ns) <= ClaimBatch /\ inactive = {}
  /\ row' = [n \in Notification |->
       IF n \in ns THEN [row[n] EXCEPT !.escalated = TRUE]
       ELSE IF row[n].status = "absent" /\ n \in UNION {ChildrenOf(p) : p \in ns}
       THEN Created
       ELSE row[n]]
  /\ UNCHANGED <<hands, job, late, inactive, sends, mishap>>

createDueEscalations == \E ns \in SUBSET Root : Escalate(ns)

-----------------------------------------------------------------------------
(* deliverDueForTenant: claim, send group by group, record each outcome. *)

\* mutant: leased_until is not looked at
Claimable_WhileLeased ==
  {n \in Notification : /\ row[n].status \in Open /\ ~ row[n].dead
                        /\ row[n].tries < MaxRetries /\ row[n].due}
Claimable_OnlyPending ==   \* mutant: failed rows are not claimed again
  {n \in Notification : /\ row[n].status = "pending" /\ ~ row[n].dead
                        /\ row[n].tries < MaxRetries /\ row[n].due
                        /\ row[n].owner = None \/ row[n].lapsed}
Claimable ==
  {n \in Notification : /\ row[n].status \in Open /\ ~ row[n].dead
                        /\ row[n].tries < MaxRetries /\ row[n].due
                        /\ row[n].owner = None \/ row[n].lapsed}

\* FOR UPDATE SKIP LOCKED LIMIT ClaimBatch: rows another claim has locked are skipped.
claimDueNotifications(w, taken) ==
  /\ hands[w] = {} /\ job[w] = {}
  /\ taken # {} /\ taken \subseteq Claimable /\ Cardinality(taken) <= ClaimBatch
  /\ row' = [n \in Notification |->
       IF n \in taken
       THEN [row[n] EXCEPT !.owner = w, !.claim = row[n].tries + 1,
                           !.tries = row[n].tries + 1, !.lapsed = FALSE]
       ELSE row[n]]
  /\ hands' = [hands EXCEPT ![w] = {[msg |-> n, claim |-> row[n].tries + 1] : n \in taken}]
  /\ UNCHANGED <<job, late, inactive, sends, mishap>>

\* What Dispatch, or a channel that cannot be loaded, makes of an attempt.
Outcome(answer, claim) ==
  CASE answer = "ok" -> "complete"
    [] answer = "permanent" \/ (answer = "transient" /\ claim >= MaxRetries) -> "die"
    [] OTHER -> "retry"

\* A group is one notification, or some that share a digest.
IsGroup(items) ==
  /\ items # {}
  /\ Cardinality(items) = 1 \/ {i.msg : i \in items} \subseteq Digest

\* A transient error leaves open whether the provider has taken the message.
deliverClaimedGroup(w, items, answer, taken) ==
  /\ job[w] = {} /\ items \subseteq hands[w] /\ IsGroup(items)
  /\ answer = "ok" => taken
  /\ answer = "permanent" => ~ taken
  /\ hands' = [hands EXCEPT ![w] = @ \ items]
  /\ job' = [job EXCEPT ![w] = {[op |-> Outcome(answer, i.claim), by |-> w,
                                 msg |-> i.msg, claim |-> i.claim] : i \in items}]
  /\ LET ns == {i.msg : i \in items}
     IN  /\ sends' = [n \in Notification |->
                        IF taken /\ n \in ns THEN sends[n] + 1 ELSE sends[n]]
         /\ mishap' = IF taken /\ answer # "ok" THEN mishap \cup ns ELSE mishap
  /\ UNCHANGED <<row, late, inactive>>

Deliver(w) ==
  \E items \in SUBSET hands[w], answer \in {"ok", "transient", "permanent"}, taken \in BOOLEAN :
    deliverClaimedGroup(w, items, answer, taken)

\* WHERE lease_owner AND lease_token
Matches(q) == row[q.msg].owner = q.by /\ row[q.msg].claim = q.claim

Unleased(r) == [r EXCEPT !.owner = None, !.claim = 0, !.lapsed = FALSE]

\* The SET clauses of completeNotificationDelivery and failNotificationDelivery.
Recorded(q) ==
  LET r == Unleased(row[q.msg])
  IN  CASE q.op = "complete" ->
             [r EXCEPT !.status = IF q.msg \in InApp THEN "delivered" ELSE "sent",
                       !.dead = FALSE,
                       !.ack = IF q.msg \in Escalating THEN "awaited" ELSE @]
        [] q.op = "retry" -> [r EXCEPT !.status = "failed", !.dead = FALSE, !.due = FALSE]
        [] q.op = "die" -> [r EXCEPT !.status = "failed", !.dead = TRUE]

Applied(q) == IF Matches(q) THEN [row EXCEPT ![q.msg] = Recorded(q)] ELSE row

\* A lost lease is reported and the loop goes on; an error may hide a statement
\* that is executed now, later or never.
RecordOutcome(w) ==
  \E q \in job[w] :
    /\ job' = [job EXCEPT ![w] = @ \ {q}]
    /\ \/ row' = Applied(q) /\ UNCHANGED <<late, mishap>>
       \/ /\ Cardinality(late) < MaxLate
          /\ late' = late \cup {q}
          /\ mishap' = IF q.op = "complete" THEN mishap \cup {q.msg} ELSE mishap
          /\ UNCHANGED row
    /\ UNCHANGED <<hands, inactive, sends>>

ExecuteLate ==
  \E q \in late :
    /\ late' = late \ {q}
    /\ row' = Applied(q) \/ row' = row
    /\ UNCHANGED <<hands, job, inactive, sends, mishap>>

\* The process dies, or only loses its database connection and the answer of
\* its claim with it.
Crash(w) ==
  /\ hands[w] # {} \/ job[w] # {}
  /\ hands' = [hands EXCEPT ![w] = {}]
  /\ job' = [job EXCEPT ![w] = {}]
  /\ mishap' = mishap \cup {q.msg : q \in {p \in job[w] : p.op = "complete"}}
  /\ UNCHANGED <<row, late, inactive, sends>>

-----------------------------------------------------------------------------
Next ==
  \/ \E n \in Root : createNotificationRecord(n)
  \/ \E n \in Notification : \/ FallDue(n) \/ Lapse(n) \/ AckOverdue(n)
                             \/ Acknowledge(n) \/ RecordBounce(n)
  \/ \E c \in Channel : SwitchChannel(c)
  \/ createDueEscalations
  \/ \E w \in Worker : \/ \E taken \in SUBSET Notification : claimDueNotifications(w, taken)
                       \/ Deliver(w) \/ RecordOutcome(w) \/ Crash(w)
  \/ ExecuteLate

Spec == Init /\ [][Next]_vars

\* Deadlines pass, a worker goes on with its batch, late statements end, and the
\* oldest rows come first (ORDER BY): a row that can be claimed, or escalated,
\* again and again is not skipped for ever.
Fairness ==
  /\ \A n \in Notification :
       /\ WF_vars(FallDue(n)) /\ WF_vars(Lapse(n)) /\ WF_vars(AckOverdue(n))
       /\ SF_vars(\E w \in Worker, taken \in SUBSET Notification :
                    n \in taken /\ claimDueNotifications(w, taken))
  /\ \A n \in Root : SF_vars(\E ns \in SUBSET Root : n \in ns /\ Escalate(ns))
  /\ \A w \in Worker : WF_vars(Deliver(w) \/ RecordOutcome(w))
  /\ WF_vars(ExecuteLate)

FairSpec == Spec /\ Fairness

-----------------------------------------------------------------------------
\* A provider gets a notification twice only if an attempt overran its lease, or
\* the success of an attempt was lost: an unclear answer, a crash, a failed update.
TwiceOnlyByMishap ==
  \A n \in Notification : sends[n] > 1 => n \in mishap

\* Whatever happens, it gets it only for claims that were charged, so at most
\* max_retries times: no attempt is made for a claim that is over.
SendsAreCharged == \A n \in Notification : sends[n] <= row[n].tries

SendsAreFew == TwiceOnlyByMishap /\ SendsAreCharged

\* A notification counts as sent or delivered only if a provider has taken it,
\* whichever worker's late statement says so.
SentWasTaken ==
  \A n \in Notification : row[n].status \in Delivered => sends[n] > 0

Ended(r) == r.status \in Delivered \/ r.dead

\* What was delivered can only bounce, and what is dead or bounced stays so: no
\* statement of a worker that lost its lease to a bounce or to another worker
\* revives a notification.
FinalStep ==
  \A n \in Notification :
    /\ row[n].status \in Delivered => row'[n].status \in {row[n].status, "bounced"}
    /\ row[n].dead => row'[n].dead /\ row'[n].status \in {row[n].status, "bounced"}

TerminalIsFinal == [][FinalStep]_vars

\* Retries are used up, and no worker or statement will record an outcome.
Stranded(n) ==
  /\ row[n].status \in Open /\ ~ row[n].dead /\ row[n].tries = MaxRetries
  /\ ~ Carried(n)

\* Every notification is delivered or dead in the end, unless its last attempt is
\* left without an outcome.
EveryNotificationEnds ==
  \A n \in Notification :
    row[n].status = "pending" ~> Ended(row[n]) \/ Stranded(n)

\* An overdue acknowledgement is answered by escalations to all channels, unless
\* it comes after all, the notification bounces or some channel is inactive.
EveryOverdueIsAnswered ==
  \A n \in Root :
    row[n].ack = "overdue" ~> \/ row[n].acked \/ row[n].status = "bounced" \/ inactive # {}
                              \/ \A c \in Channel :
                                   row[[parent |-> n, channel |-> c]].status # "absent"

\* COMMENT ON COLUMN notifications.dead_at IS 'Terminal retry exhaustion
\* timestamp': a notification that has exhausted its retries is dead.
ExhaustedIsDead == \A n \in Notification : ~ Stranded(n)
=============================================================================
