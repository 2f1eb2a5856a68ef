------------------------------- MODULE Outbox -------------------------------
(***************************************************************************)
(* The transactional outbox (internal/pkg/queue/outbox.go) and the         *)
(* dispatchers that move its rows to the broker (outbox_dispatcher.go).    *)
(*                                                                         *)
(* A row of queue_outbox is leased to one dispatcher, published, and only  *)
(* then marked.  Every mark is one UPDATE fenced by owner and token; when  *)
(* its caller gets an error instead of an answer, the UPDATE may still be  *)
(* executed later (late).  Deadlines are abstracted to one bit per row:    *)
(* ripe says that available_at or leased_until has passed, and it may pass *)
(* at any moment, also while a dispatcher is still at work on the row.     *)
(***************************************************************************)
EXTENDS Integers, FiniteSets

CONSTANTS Message,      \* message IDs, the unique key of queue_outbox
          Dispatcher,   \* worker replicas; a replica keeps its owner ID
          Token,        \* lease tokens (gen_random_uuid)
          None,
          MaxAttempts,  \* OutboxConfig.MaxAttempts
          BatchSize,    \* OutboxConfig.BatchSize
          MaxInserts,   \* bound on the rows ever inserted
          MaxCrashes,   \* bound on the crashes of a behaviour
          MaxLate       \* bound on the statements that are late at once

ASSUME OutboxAssumption ==
  /\ None \notin Token /\ None \notin Dispatcher
  /\ MaxAttempts \in Nat \ {0} /\ BatchSize \in Nat \ {0}
  /\ MaxInserts \in Nat /\ MaxCrashes \in Nat /\ MaxLate \in Nat

VARIABLES
  row,        \* queue_outbox, by message ID
  mode,       \* where each dispatcher is in DispatchOnce
  batch,      \* the claimed messages it has not come to yet
  job,        \* the message it has published and must mark, with the verdict
  late,       \* statements whose caller gave up on them
  confirmed,  \* history: a dispatcher saw the broker's confirm of this row
  offers,     \* history: how often this row was handed to the publisher
  inserts, crashes

vars == <<row, mode, batch, job, late, confirmed, offers, inserts, crashes>>

Statuses == {"absent", "pending", "leased", "published", "dead"}
Verdicts == {"published", "failed", "dead"}
Item == [msg : Message, token : Token]
Job == [item : Item, verdict : Verdicts]
Statement == [op : Verdicts \cup {"release"}, by : Dispatcher, item : Item]

Row == [status : Statuses, owner : Dispatcher \cup {None}, token : Token \cup {None},
        attempts : 0..MaxAttempts, ripe : BOOLEAN]

\* A row without a lease (chk_queue_outbox_lease).
Unleased(s, n, r) ==
  [status |-> s, owner |-> None, token |-> None, attempts |-> n, ripe |-> r]

Absent == Unleased("absent", 0, FALSE)

TypeOK ==
  /\ row \in [Message -> Row]
  /\ mode \in [Dispatcher -> {"idle", "publishing", "releasing"}]
  /\ batch \in [Dispatcher -> SUBSET Item]
  /\ job \in [Dispatcher -> Job \cup {None}]
  /\ late \in SUBSET Statement
  /\ confirmed \in [Message -> BOOLEAN]
  /\ offers \in [Message -> Nat]
  /\ inserts \in 0..MaxInserts /\ crashes \in 0..MaxCrashes

Init ==
  /\ row = [m \in Message |-> Absent]
  /\ mode = [d \in Dispatcher |-> "idle"]
  /\ batch = [d \in Dispatcher |-> {}]
  /\ job = [d \in Dispatcher |-> None]
  /\ late = {}
  /\ confirmed = [m \in Message |-> FALSE]
  /\ offers = [m \in Message |-> 0]
  /\ inserts = 0 /\ crashes = 0

\* The message is in some dispatcher's hands, or in a late statement.
Carried(m) ==
  \/ \E d \in Dispatcher : \/ \E i \in batch[d] : i.msg = m
                           \/ job[d] # None /\ job[d].item.msg = m
  \/ \E q \in late : q.item.msg = m

Fresh(m, t) ==
  /\ t # row[m].token
  /\ \A d \in Dispatcher : /\ [msg |-> m, token |-> t] \notin batch[d]
                           /\ job[d] # None => job[d].item # [msg |-> m, token |-> t]
  /\ \A q \in late : q.item # [msg |-> m, token |-> t]

-----------------------------------------------------------------------------
(* Producers and retention. *)

\* INSERT ... ON CONFLICT (message_id) DO NOTHING: a second Enqueue of a
\* message that has a row changes nothing, identical or not.
Enqueue(m) ==
  /\ row[m].status = "absent" /\ inserts < MaxInserts
  /\ row' = [row EXCEPT ![m] = Unleased("pending", 0, TRUE)]
  /\ confirmed' = [confirmed EXCEPT ![m] = FALSE]
  /\ offers' = [offers EXCEPT ![m] = 0]
  /\ inserts' = inserts + 1
  /\ UNCHANGED <<mode, batch, job, late, crashes>>

\* Retention is days and outlasts whatever is still under way for the row.
PurgePublishedBefore(m) ==
  /\ row[m].status = "published" /\ ~ Carried(m)
  /\ row' = [row EXCEPT ![m] = Absent]
  /\ UNCHANGED <<mode, batch, job, late, confirmed, offers, inserts, crashes>>

\* available_at or leased_until passes.
Ripen(m) ==
  /\ row[m].status \in {"pending", "leased"} /\ ~ row[m].ripe
  /\ row' = [row EXCEPT ![m].ripe = TRUE]
  /\ UNCHANGED <<mode, batch, job, late, confirmed, offers, inserts, crashes>>

-----------------------------------------------------------------------------
(* ClaimBatch, one transaction of two statements. *)

Exhausted ==
  {m \in Message : /\ row[m].status = "leased" /\ row[m].ripe
                   /\ row[m].attempts >= MaxAttempts}

\* mutant: a leased row is never taken over
Claimable_OnlyPending ==
  {m \in Message : /\ row[m].attempts < MaxAttempts
                   /\ row[m].status = "pending" /\ row[m].ripe}
Claimable_NoLimit ==   \* mutant: dispatch_attempts < MaxAttempts is dropped
  {m \in Message : row[m].status \in {"pending", "leased"} /\ row[m].ripe}
Claimable ==
  {m \in Message : /\ row[m].attempts < MaxAttempts
                   /\ row[m].status \in {"pending", "leased"} /\ row[m].ripe}

\* FOR UPDATE SKIP LOCKED LIMIT: up to BatchSize rows, without those another
\* claim has locked; RETURNING gives them in no particular order.  A row whose
\* envelope does not decode or validate rolls the claim back; Enqueue has checked
\* each envelope that gets here, so that is left out.
ClaimBatch(d, dying, taken) ==
  /\ mode[d] = "idle"
  /\ dying \subseteq Exhausted /\ taken \subseteq Claimable /\ dying \cup taken # {}
  /\ Cardinality(dying) <= BatchSize /\ Cardinality(taken) <= BatchSize
  /\ \E lease \in [taken -> Token] :
       /\ \A m \in taken : Fresh(m, lease[m])
       /\ row' = [m \in Message |->
            IF m \in dying THEN Unleased("dead", row[m].attempts, FALSE)
            ELSE IF m \in taken
            THEN [status |-> "leased", owner |-> d, token |-> lease[m],
                  attempts |-> row[m].attempts + 1, ripe |-> FALSE]
            ELSE row[m]]
       /\ batch' = [batch EXCEPT ![d] = {[msg |-> m, token |-> lease[m]] : m \in taken}]
  /\ mode' = [mode EXCEPT ![d] = IF taken = {} THEN "idle" ELSE "publishing"]
  /\ UNCHANGED <<job, late, confirmed, offers, inserts, crashes>>

Claim(d) == \E dying, taken \in SUBSET Message : ClaimBatch(d, dying, taken)

-----------------------------------------------------------------------------
(* The UPDATEs of MarkPublished, MarkFailed, MarkDead, ReleaseUnattempted.   *)

Matches_AnyStatus(q) ==   \* mutant: the WHERE clause names the row only
  row[q.item.msg].status # "absent"

\* WHERE id AND status = 'leased' AND lease_owner AND lease_token
Matches(q) ==
  LET r == row[q.item.msg]
  IN  r.status = "leased" /\ r.owner = q.by /\ r.token = q.item.token

Marked_RefundsFailure(r, op) ==   \* mutant: a failed publish costs no attempt
  IF op \in {"published", "dead"} THEN Unleased(op, r.attempts, FALSE)
  ELSE Unleased("pending", IF r.attempts = 0 THEN 0 ELSE r.attempts - 1, FALSE)
Marked(r, op) ==
  CASE op = "published" -> Unleased("published", r.attempts, FALSE)
    [] op = "dead"      -> Unleased("dead", r.attempts, FALSE)
    [] op = "failed" /\ r.attempts >= MaxAttempts -> Unleased("dead", r.attempts, FALSE)
    [] op = "failed" /\ r.attempts < MaxAttempts  -> Unleased("pending", r.attempts, FALSE)
    [] op = "release"   ->   \* GREATEST(dispatch_attempts - 1, 0)
         Unleased("pending", IF r.attempts = 0 THEN 0 ELSE r.attempts - 1, FALSE)

Applied(q) ==
  IF Matches(q) THEN [row EXCEPT ![q.item.msg] = Marked(@, q.op)] ELSE row

MarkOf(d) == [op |-> job[d].verdict, by |-> d, item |-> job[d].item]
ReleaseOf(d, i) == [op |-> "release", by |-> d, item |-> i]

-----------------------------------------------------------------------------
(* DispatchOnce. *)

Verdict_Optimistic(answer) ==   \* mutant: an unconfirmed publish counts as done
  IF answer = "permanent" THEN "dead" ELSE "published"

\* What the publisher's answer makes of the message: isPermanentBrokerError.
Verdict(answer) ==
  CASE answer = "confirmed"   -> "published"
    [] answer = "permanent"   -> "dead"
    [] answer = "unconfirmed" -> "failed"

\* PublishEnvelope, with the retries it makes on its own; "unconfirmed" also
\* covers a message the broker has taken.
Publish(d) ==
  /\ mode[d] = "publishing" /\ job[d] = None
  /\ \E i \in batch[d], answer \in {"confirmed", "permanent", "unconfirmed"} :
       /\ batch' = [batch EXCEPT ![d] = @ \ {i}]
       /\ job' = [job EXCEPT ![d] = [item |-> i, verdict |-> Verdict(answer)]]
       /\ confirmed' = [confirmed EXCEPT ![i.msg] = @ \/ answer = "confirmed"]
       /\ offers' = [offers EXCEPT ![i.msg] = @ + 1]
  /\ UNCHANGED <<row, mode, late, inserts, crashes>>

\* The loop goes on with what is left; after a transient failure what is left
\* is released instead.
Continue(d, next) ==
  mode' = [mode EXCEPT ![d] = IF batch[d] = {} THEN "idle" ELSE next]

MarkSucceeds(d) ==
  /\ job[d] # None /\ Matches(MarkOf(d))
  /\ row' = Applied(MarkOf(d))
  /\ job' = [job EXCEPT ![d] = None]
  /\ Continue(d, IF job[d].verdict = "failed" THEN "releasing" ELSE "publishing")
  /\ UNCHANGED <<batch, late, confirmed, offers, inserts, crashes>>

\* DispatchOnce returns and forgets the batch; its rows stay leased.
GiveUp(d) ==
  /\ mode' = [mode EXCEPT ![d] = "idle"]
  /\ batch' = [batch EXCEPT ![d] = {}]
  /\ job' = [job EXCEPT ![d] = None]

\* ErrOutboxLeaseLost
MarkLosesLease(d) ==
  /\ job[d] # None /\ ~ Matches(MarkOf(d))
  /\ GiveUp(d)
  /\ UNCHANGED <<row, late, confirmed, offers, inserts, crashes>>

MarkErrors(d) ==
  /\ job[d] # None /\ Cardinality(late) < MaxLate
  /\ GiveUp(d)
  /\ late' = late \cup {MarkOf(d)}
  /\ UNCHANGED <<row, confirmed, offers, inserts, crashes>>

\* ReleaseUnattempted for one message; its errors do not stop the loop.
ReleaseNext(d) ==
  /\ mode[d] = "releasing"
  /\ \E i \in batch[d] :
       /\ batch' = [batch EXCEPT ![d] = @ \ {i}]
       /\ mode' = [mode EXCEPT ![d] = IF batch[d] = {i} THEN "idle" ELSE @]
       /\ \/ row' = Applied(ReleaseOf(d, i)) /\ UNCHANGED late
          \/ /\ Cardinality(late) < MaxLate
             /\ late' = late \cup {ReleaseOf(d, i)} /\ UNCHANGED row
  /\ UNCHANGED <<job, confirmed, offers, inserts, crashes>>

ExecuteLate ==
  \E q \in late :
    /\ late' = late \ {q}
    /\ row' = Applied(q) \/ row' = row
    /\ UNCHANGED <<mode, batch, job, confirmed, offers, inserts, crashes>>

\* The process dies, and is restarted under its owner ID.
Crash(d) ==
  /\ mode[d] # "idle" /\ crashes < MaxCrashes
  /\ GiveUp(d)
  /\ crashes' = crashes + 1
  /\ UNCHANGED <<row, late, confirmed, offers, inserts>>

Next ==
  \/ \E m \in Message : Enqueue(m) \/ PurgePublishedBefore(m) \/ Ripen(m)
  \/ \E d \in Dispatcher :
       \/ Claim(d) \/ Publish(d) \/ MarkSucceeds(d) \/ MarkLosesLease(d)
       \/ MarkErrors(d) \/ ReleaseNext(d) \/ Crash(d)
  \/ ExecuteLate

Spec == Init /\ [][Next]_vars

\* Deadlines pass, a dispatcher goes on with its batch, late statements end,
\* and the oldest rows are claimed first (ORDER BY available_at): a row that
\* can be claimed or declared dead again and again is not skipped for ever.
Fairness ==
  /\ \A m \in Message :
       /\ WF_vars(Ripen(m))
       /\ SF_vars(\E d \in Dispatcher, dying, taken \in SUBSET Message :
                    m \in dying \cup taken /\ ClaimBatch(d, dying, taken))
  /\ \A d \in Dispatcher :
       WF_vars(Publish(d) \/ MarkSucceeds(d) \/ MarkLosesLease(d) \/ ReleaseNext(d))
  /\ WF_vars(ExecuteLate)

FairSpec == Spec /\ Fairness

-----------------------------------------------------------------------------
\* A row is marked published only when the broker has confirmed its message,
\* however leases, crashes and late statements interleave.
\* (outbox_dispatcher.go:17, "cannot silently lose a committed domain event")
PublishedWasConfirmed ==
  \A m \in Message : row[m].status = "published" => confirmed[m]

\* Every hand-over to the publisher is paid for by an attempt that is never
\* refunded, so a row is handed over at most MaxAttempts times although
\* ReleaseUnattempted takes attempts back.
OffersArePaid ==
  \A m \in Message : row[m].status # "absent" => offers[m] <= row[m].attempts

\* A row that was published or declared dead is never queued again.
FinalStep ==
  \A m \in Message :
    row[m].status \in {"published", "dead"}
      => row'[m] \in {row[m]} \cup (IF row[m].status = "published" THEN {Absent} ELSE {})

TerminalIsFinal == [][FinalStep]_vars

\* Every committed message is published or declared dead in the end: no crash,
\* lost lease, lost answer or broker outage leaves its row where nothing takes it.
EveryMessageSettles ==
  \A m \in Message :
    row[m].status \in {"pending", "leased"} ~> row[m].status \in {"published", "dead"}
=============================================================================
