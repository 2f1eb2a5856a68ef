------------------------------ MODULE Delivery ------------------------------
(***************************************************************************)
(* Consumption of one logical queue (internal/pkg/queue/queue.go) with its *)
(* primary, retry, dead and quarantine broker queues (topology.go) and the *)
(* durable inbox that makes attempts idempotent (postgres_inbox.go).       *)
(*                                                                         *)
(* A copy is one message of the broker; a job may publish further copies   *)
(* of the message it handles.  A broken session gives all copies it holds  *)
(* back to the broker, and the job it interrupted goes on without its own. *)
(* Deadlines are one bit per inbox row: lapsed says that leased_until, or  *)
(* expires_at of a completed row, has passed; it may pass at any moment.   *)
(* A hash stands for the fingerprint of the encoded envelope: publishing   *)
(* again adds another trace context and a retry another failure reason, so *)
(* two copies of a message may differ in their hash.                       *)
(***************************************************************************)
EXTENDS Integers, FiniteSets

CONSTANTS Message,        \* envelope IDs
          Malformed,      \* those whose deliveries do not decode or validate
          Worker,         \* consumer processes; a process keeps its owner ID
          Copy,           \* bound on the copies at the broker at once
          Hash,           \* hashes of encoded envelopes
          None,
          MaxAttempts,    \* Config.MaxAttempts
          DeliveryLimit,  \* x-delivery-limit of the primary queue
          Prefetch,       \* Config.Prefetch
          MaxSends,       \* bound on the publications of a message
          MaxLate         \* bound on the statements that are late at once

ASSUME DeliveryAssumption ==
  /\ None \notin Message \cup Worker \cup Hash \cup Copy
  /\ Malformed \subseteq Message
  /\ MaxAttempts \in Nat \ {0} /\ DeliveryLimit \in Nat /\ Prefetch \in Nat \ {0}
  /\ MaxSends \in Nat /\ MaxLate \in Nat

VARIABLES
  copy,     \* the broker's queues
  inbox,    \* queue_inbox, by message and attempt
  job,      \* the delivery each worker processes, and how far it is
  late,     \* inbox statements whose caller gave up on them
  sent,     \* publications of each message by its producers
  done,     \* history: a run of the handler was taken for a success
  failed,   \* history: a run failed permanently, or on the last attempt
  overrun   \* history: attempts whose lease lapsed under its holder

vars == <<copy, inbox, job, late, sent, done, failed, overrun>>

Attempt == 1..MaxAttempts
Live == {"primary", "retry"}
Parked == {"dead", "quarantine"}

Gone == [place |-> "none", msg |-> None, attempt |-> 0, hash |-> None,
         returns |-> 0, holder |-> None]
At(where, m, a, p) == [place |-> where, msg |-> m, attempt |-> a, hash |-> p,
                       returns |-> 0, holder |-> None]
CopyType == [place : Live \cup Parked, msg : Message, attempt : Attempt, hash : Hash,
             returns : 0..DeliveryLimit, holder : Worker \cup {None}] \cup {Gone}

NoRow == [status |-> "none", owner |-> None, hash |-> None, lapsed |-> FALSE]
RowType == [status : {"processing"}, owner : Worker, hash : Hash, lapsed : BOOLEAN]
             \cup [status : {"completed"}, owner : {None}, hash : Hash, lapsed : BOOLEAN]
             \cup {NoRow}

\* The stages between Begin and the inbox's last word hold a claim on the row.
ClaimStages == {"handling", "completing", "publishing", "forgetting", "recording"}
JobType == [copy : Copy, msg : Message, attempt : Attempt, hash : Hash,
            stage : ClaimStages \cup {"acking", "nacking"}, target : {"retry"} \cup Parked]
Statement == [op : {"complete", "forget"}, by : Worker, msg : Message,
              attempt : Attempt, hash : Hash]

TypeOK ==
  /\ copy \in [Copy -> CopyType]
  /\ inbox \in [Message -> [Attempt -> RowType]]
  /\ job \in [Worker -> JobType \cup {None}]
  /\ late \in SUBSET Statement
  /\ sent \in [Message -> 0..MaxSends]
  /\ done \in SUBSET Message /\ failed \in SUBSET Message
  /\ overrun \in SUBSET (Message \X Attempt)

Init ==
  /\ copy = [c \in Copy |-> Gone]
  /\ inbox = [m \in Message |-> [a \in Attempt |-> NoRow]]
  /\ job = [w \in Worker |-> None]
  /\ late = {}
  /\ sent = [m \in Message |-> 0]
  /\ done = {} /\ failed = {} /\ overrun = {}

-----------------------------------------------------------------------------
(* The broker. *)

Returned_Unlimited(k) ==   \* mutant: the primary queue has no delivery limit
  [k EXCEPT !.holder = None]

\* A delivery given back counts against the limit and is dead-lettered above it.
Returned(k) ==
  IF k.returns < DeliveryLimit THEN [k EXCEPT !.returns = @ + 1, !.holder = None]
  ELSE [k EXCEPT !.place = "dead", !.holder = None]

SessionEnded(w) ==
  [c \in Copy |-> IF copy[c].holder = w THEN Returned(copy[c]) ELSE copy[c]]

\* PublishEnvelope of a producer or an outbox dispatcher, also of a duplicate.
Send(m) ==
  /\ sent[m] < MaxSends
  /\ \E c \in Copy, p \in Hash :
       /\ copy[c] = Gone
       /\ copy' = [copy EXCEPT ![c] = At("primary", m, 1, p)]
  /\ sent' = [sent EXCEPT ![m] = @ + 1]
  /\ UNCHANGED <<inbox, job, late, done, failed, overrun>>

\* x-message-ttl of the retry queue; its dead-letter exchange is the primary's.
RetryExpires(c) ==
  /\ copy[c].place = "retry"
  /\ copy' = [copy EXCEPT ![c].place = "primary"]
  /\ UNCHANGED <<inbox, job, late, sent, done, failed, overrun>>

\* The session of a worker is up unless its job has outlived it.
Connected(w) == job[w] # None => copy[job[w].copy].holder = w

Deliver(w, c) ==
  /\ Connected(w) /\ copy[c].place = "primary" /\ copy[c].holder = None
  /\ Cardinality({k \in Copy : copy[k].holder = w}) < Prefetch
  /\ copy' = [copy EXCEPT ![c].holder = w]
  /\ UNCHANGED <<inbox, job, late, sent, done, failed, overrun>>

\* The channel or the connection breaks; a job notices when it acknowledges.
Disconnect(w) ==
  /\ \E c \in Copy : copy[c].holder = w
  /\ copy' = SessionEnded(w)
  /\ UNCHANGED <<inbox, job, late, sent, done, failed, overrun>>

Crash(w) ==
  /\ job[w] # None
  /\ job' = [job EXCEPT ![w] = None]
  /\ copy' = SessionEnded(w)
  /\ UNCHANGED <<inbox, late, sent, done, failed, overrun>>

-----------------------------------------------------------------------------
(* The inbox, as Begin, Complete and Forget read and write it.  Renew keeps  *)
(* a lease from lapsing and is not a step of its own.                        *)

Leased(w, p) == [status |-> "processing", owner |-> w, hash |-> p, lapsed |-> FALSE]

Takeable_WhenProcessing(r, p) ==   \* mutant: the lease's expiry is not looked at
  r.status = "none" \/ (r.hash = p /\ (r.status = "processing" \/ r.lapsed))
Takeable(r, p) == r.status = "none" \/ (r.hash = p /\ r.lapsed)

Owned(q) ==
  LET r == inbox[q.msg][q.attempt]
  IN  r.status = "processing" /\ r.owner = q.by /\ r.hash = q.hash

Executed(q) ==
  CASE q.op = "complete" /\ Owned(q) /\ ~ inbox[q.msg][q.attempt].lapsed
         -> [inbox EXCEPT ![q.msg][q.attempt] =
               [status |-> "completed", owner |-> None, hash |-> q.hash, lapsed |-> FALSE]]
    [] q.op = "forget" /\ Owned(q) -> [inbox EXCEPT ![q.msg][q.attempt] = NoRow]
    [] OTHER -> inbox

\* What Complete answers: nil when it or an earlier one completed the row.
Completes(q) ==
  LET r == Executed(q)[q.msg][q.attempt]
  IN  r.status = "completed" /\ r.hash = q.hash /\ ~ r.lapsed

StatementOf(w, op) == [op |-> op, by |-> w, msg |-> job[w].msg,
                       attempt |-> job[w].attempt, hash |-> job[w].hash]

ExecuteLate ==
  \E q \in late :
    /\ late' = late \ {q}
    /\ inbox' = Executed(q) \/ inbox' = inbox
    /\ UNCHANGED <<copy, job, sent, done, failed, overrun>>

Claimed(m, a) ==
  \/ \E w \in Worker : /\ job[w] # None /\ job[w].stage \in ClaimStages
                       /\ job[w].msg = m /\ job[w].attempt = a
  \/ \E q \in late : q.msg = m /\ q.attempt = a

\* leased_until of a processing row, expires_at of a completed one.
Lapse(m, a) ==
  /\ inbox[m][a].status # "none" /\ ~ inbox[m][a].lapsed
  /\ inbox' = [inbox EXCEPT ![m][a].lapsed = TRUE]
  /\ overrun' = IF Claimed(m, a) THEN overrun \cup {<<m, a>>} ELSE overrun
  /\ UNCHANGED <<copy, job, late, sent, done, failed>>

PurgeExpired(m, a) ==
  /\ inbox[m][a].status = "completed" /\ inbox[m][a].lapsed
  /\ inbox' = [inbox EXCEPT ![m][a] = NoRow]
  /\ UNCHANGED <<copy, job, late, sent, done, failed, overrun>>

-----------------------------------------------------------------------------
(* processDelivery up to the handler. *)

Takes(w, c) == job[w] = None /\ copy[c].holder = w
Valid(c) == copy[c].msg \notin Malformed
RowOf(c) == inbox[copy[c].msg][copy[c].attempt]

JobOn(c, stage, target) ==
  [copy |-> c, msg |-> copy[c].msg, attempt |-> copy[c].attempt,
   hash |-> copy[c].hash, stage |-> stage, target |-> target]

RejectMalformed(w, c) ==
  /\ Takes(w, c) /\ ~ Valid(c)
  /\ job' = [job EXCEPT ![w] = JobOn(c, "publishing", "quarantine")]
  /\ UNCHANGED <<copy, inbox, late, sent, done, failed, overrun>>

BeginLeased(w, c) ==
  /\ Takeable(RowOf(c), copy[c].hash)
  /\ inbox' = [inbox EXCEPT ![copy[c].msg][copy[c].attempt] = Leased(w, copy[c].hash)]

\* DeduplicationNew
Begin(w, c) ==
  /\ Takes(w, c) /\ Valid(c)
  /\ BeginLeased(w, c)
  /\ job' = [job EXCEPT ![w] = JobOn(c, "handling", "retry")]
  /\ UNCHANGED <<copy, late, sent, done, failed, overrun>>

\* DeduplicationComplete
BeginComplete(w, c) ==
  /\ Takes(w, c) /\ Valid(c)
  /\ RowOf(c).status = "completed" /\ RowOf(c).hash = copy[c].hash /\ ~ RowOf(c).lapsed
  /\ job' = [job EXCEPT ![w] = JobOn(c, "acking", "retry")]
  /\ UNCHANGED <<copy, inbox, late, sent, done, failed, overrun>>

BeginRefused_Acked(w, c) ==   \* mutant: a duplicate in progress is acknowledged
  /\ Takes(w, c) /\ Valid(c) /\ RowOf(c).status = "processing"
  /\ job' = [job EXCEPT ![w] = JobOn(c, "acking", "retry")]
  /\ UNCHANGED <<copy, inbox, late, sent, done, failed, overrun>>
\* DeduplicationInProgress and ErrDeduplicationConflict: nacked, and the error
\* ends the session with everything it has prefetched.
BeginRefused(w, c) ==
  /\ Takes(w, c) /\ Valid(c)
  /\ \/ RowOf(c).status = "processing" /\ RowOf(c).hash = copy[c].hash /\ ~ RowOf(c).lapsed
     \/ RowOf(c).status # "none" /\ RowOf(c).hash # copy[c].hash
  /\ copy' = SessionEnded(w)
  /\ UNCHANGED <<inbox, job, late, sent, done, failed, overrun>>

\* A database error; the transaction may have been committed all the same.
BeginErrors(w, c) ==
  /\ Takes(w, c) /\ Valid(c)
  /\ BeginLeased(w, c) \/ UNCHANGED inbox
  /\ copy' = SessionEnded(w)
  /\ UNCHANGED <<job, late, sent, done, failed, overrun>>

-----------------------------------------------------------------------------
(* processDelivery from the handler on. *)

InStage(w, stage) == job[w] # None /\ job[w].stage = stage
Proceeds(w, stage) == job' = [job EXCEPT ![w].stage = stage]

\* The delivery is nacked, and the error ends the session.
Nacked(w) ==
  /\ job' = [job EXCEPT ![w] = None]
  /\ copy' = SessionEnded(w)

HandlerSucceeds(w) ==
  /\ InStage(w, "handling")
  /\ Proceeds(w, "completing")
  /\ done' = done \cup {job[w].msg}
  /\ UNCHANGED <<copy, inbox, late, sent, failed, overrun>>

failureRoute_OffByOne(attempt, permanent) ==   \* mutant: > for >=
  IF permanent \/ attempt > MaxAttempts THEN "dead" ELSE "retry"
failureRoute(attempt, permanent) ==
  IF permanent \/ attempt >= MaxAttempts THEN "dead" ELSE "retry"

\* The handler's error, or that of the heartbeat which cancelled it.
HandlerFails(w) ==
  /\ InStage(w, "handling")
  /\ \E permanent \in BOOLEAN :
       LET route == failureRoute(job[w].attempt, permanent)
       IN  /\ job' = [job EXCEPT ![w].stage = "publishing", ![w].target = route]
           /\ failed' = IF route = "dead" THEN failed \cup {job[w].msg} ELSE failed
  /\ UNCHANGED <<copy, inbox, late, sent, done, overrun>>

CompleteSucceeds(w) ==
  /\ InStage(w, "completing") /\ Completes(StatementOf(w, "complete"))
  /\ inbox' = Executed(StatementOf(w, "complete"))
  /\ Proceeds(w, "acking")
  /\ UNCHANGED <<copy, late, sent, done, failed, overrun>>

\* ErrDeduplicationLeaseLost
CompleteLosesLease(w) ==
  /\ InStage(w, "completing") /\ ~ Completes(StatementOf(w, "complete"))
  /\ Nacked(w)
  /\ UNCHANGED <<inbox, late, sent, done, failed, overrun>>

CompleteErrors(w) ==
  /\ InStage(w, "completing") /\ Cardinality(late) < MaxLate
  /\ late' = late \cup {StatementOf(w, "complete")}
  /\ Nacked(w)
  /\ UNCHANGED <<inbox, sent, done, failed, overrun>>

\* The broker has taken what the job publishes; envelope.Attempt++ on a retry.
Accepts(w, c, p) ==
  /\ copy[c] = Gone
  /\ copy' = [copy EXCEPT ![c] =
       At(job[w].target, job[w].msg,
          IF job[w].target = "retry" THEN job[w].attempt + 1 ELSE job[w].attempt, p)]

PublishConfirmed(w) ==
  /\ InStage(w, "publishing")
  /\ \E c \in Copy, p \in Hash : Accepts(w, c, p)
  /\ Proceeds(w, IF job[w].target = "quarantine" THEN "acking" ELSE "recording")
  /\ UNCHANGED <<inbox, late, sent, done, failed, overrun>>

\* publishWithReconnect tries again although the broker has taken the message.
PublishRetries(w) ==
  /\ InStage(w, "publishing")
  /\ \E c \in Copy, p \in Hash : Accepts(w, c, p)
  /\ UNCHANGED <<inbox, job, late, sent, done, failed, overrun>>

PublishFails_Recorded(w) ==   \* mutant: the publish error is only logged
  /\ InStage(w, "publishing")
  /\ Proceeds(w, "recording")
  /\ UNCHANGED <<copy, inbox, late, sent, done, failed, overrun>>

\* The publish ends without a confirm, whether the broker took it or not.
PublishFails(w) ==
  /\ InStage(w, "publishing")
  /\ (\E c \in Copy, p \in Hash : Accepts(w, c, p)) \/ UNCHANGED copy
  /\ Proceeds(w, IF job[w].target = "quarantine" THEN "nacking" ELSE "forgetting")
  /\ UNCHANGED <<inbox, late, sent, done, failed, overrun>>

\* The result of Forget is ignored.
Forget(w) ==
  /\ InStage(w, "forgetting")
  /\ \/ inbox' = Executed(StatementOf(w, "forget")) /\ UNCHANGED late
     \/ /\ Cardinality(late) < MaxLate /\ UNCHANGED inbox
        /\ late' = late \cup {StatementOf(w, "forget")}
  /\ Nacked(w)
  /\ UNCHANGED <<sent, done, failed, overrun>>

\* markAttemptComplete: an error is only logged.
Record(w) ==
  /\ InStage(w, "recording")
  /\ \/ inbox' = Executed(StatementOf(w, "complete")) /\ UNCHANGED late
     \/ /\ Cardinality(late) < MaxLate /\ UNCHANGED inbox
        /\ late' = late \cup {StatementOf(w, "complete")}
  /\ Proceeds(w, "acking")
  /\ UNCHANGED <<copy, sent, done, failed, overrun>>

\* On a session that has ended the acknowledgement has no effect.
Ack(w) ==
  /\ InStage(w, "acking")
  /\ copy' = IF Connected(w) THEN [copy EXCEPT ![job[w].copy] = Gone] ELSE copy
  /\ job' = [job EXCEPT ![w] = None]
  /\ UNCHANGED <<inbox, late, sent, done, failed, overrun>>

Nack(w) ==
  /\ InStage(w, "nacking")
  /\ Nacked(w)
  /\ UNCHANGED <<inbox, late, sent, done, failed, overrun>>

-----------------------------------------------------------------------------
Receives(w, c) ==
  \/ RejectMalformed(w, c) \/ Begin(w, c) \/ BeginComplete(w, c)
  \/ BeginRefused(w, c) \/ BeginErrors(w, c)

Works(w) ==
  \/ HandlerSucceeds(w) \/ HandlerFails(w)
  \/ CompleteSucceeds(w) \/ CompleteLosesLease(w) \/ CompleteErrors(w)
  \/ PublishConfirmed(w) \/ PublishFails(w)
  \/ Forget(w) \/ Record(w) \/ Ack(w) \/ Nack(w)

Next ==
  \/ \E m \in Message : Send(m) \/ \E a \in Attempt : Lapse(m, a) \/ PurgeExpired(m, a)
  \/ \E c \in Copy : RetryExpires(c)
  \/ \E w \in Worker : \/ Disconnect(w) \/ Crash(w) \/ Works(w) \/ PublishRetries(w)
                       \/ \E c \in Copy : Deliver(w, c) \/ Receives(w, c)
  \/ ExecuteLate

Spec == Init /\ [][Next]_vars

\* Delayed retries come back, the broker delivers what is queued, workers take
\* what they are given, handlers return.  publishWithReconnect repeats a publish
\* until the broker confirms it, refuses it for good or the worker's context
\* ends; that none of these ever happens is excluded.  Nothing is assumed of
\* leases, of the database, or of which of them it is.
Fairness ==
  /\ \A c \in Copy : /\ WF_vars(RetryExpires(c))
                     /\ SF_vars(\E w \in Worker : Deliver(w, c))
  /\ \A w \in Worker : WF_vars(Works(w)) /\ WF_vars(\E c \in Copy : Receives(w, c))

FairSpec == Spec /\ Fairness
-----------------------------------------------------------------------------
Kept(m, a) ==
  \/ m \in done
  \/ \E c \in Copy : /\ copy[c].msg = m
                     /\ \/ copy[c].place \in Parked
                        \/ copy[c].place \in Live /\ copy[c].attempt > a

\* A message the broker took from a producer is never lost: until a handler has
\* succeeded with it, one of the four queues has a copy of it, however acks,
\* nacks, duplicates, lapsed leases and late inbox statements interleave.
NothingIsLost == \A m \in Message : sent[m] > 0 => Kept(m, 0)

\* The queue keeps the promise of AtLeastOnce.
StatusOf(m) ==
  IF m \in done THEN "succeeded"
  ELSE IF \E c \in Copy : copy[c].msg = m /\ copy[c].place \in Parked THEN "parked"
  ELSE IF \E c \in Copy : copy[c].msg = m THEN "owed" ELSE "unsent"

Promise == INSTANCE AtLeastOnce WITH status <- [m \in Message |-> StatusOf(m)]

KeepsPromise == Promise!Spec

\* Two workers run the same attempt at the same time only after its lease lapsed
\* while a worker, or a statement a worker had given up on, still relied on it.
\* (The inbox compares owners and not runs: postgres_inbox.go Renew to Forget.)
ExclusiveUnlessOverrun ==
  \A v, w \in Worker :
    /\ v # w /\ InStage(v, "handling") /\ InStage(w, "handling")
    /\ job[v].msg = job[w].msg /\ job[v].attempt = job[w].attempt
    => <<job[w].msg, job[w].attempt>> \in overrun

\* Every accepted message comes to an end, a success or a parked copy, even if
\* workers crash, sessions break and publishes fail again and again.
EveryMessageEnds ==
  \A m \in Message :
    sent[m] > 0 ~> \/ m \in done
                   \/ \E c \in Copy : copy[c].msg = m /\ copy[c].place \in Parked

\* queue/README.md: the .dead queue retains permanent failures and jobs that
\* exhausted their attempts.
DeadRetainsFailures ==
  \A c \in Copy : copy[c].place = "dead" => copy[c].msg \in failed
=============================================================================
