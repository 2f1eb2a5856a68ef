----------------------------- MODULE Governance -----------------------------
(***************************************************************************)
(* Data lifecycle governance of one tenant (internal/repository/           *)
(* data_governance_repo.go, sql/migrations 000052 and 000056): retention   *)
(* assignments, their reviews and exceptions, legal holds, the chain of    *)
(* governance events, and the triggers that let a record be deleted.       *)
(* The tenant has a policy: its records need an assignment.                *)
(*                                                                         *)
(* Every operation is one transaction under READ COMMITTED, modelled in    *)
(* steps: it locks its rows and checks (Begin), appends its event under    *)
(* the lock of the chain's head (AppendEvent), and commits or rolls back.  *)
(* What it reads without a lock may be stale when it commits.  A lock that *)
(* is taken is waited for; a deadlock the database ends by a rollback.     *)
(***************************************************************************)
EXTENDS Integers, FiniteSets, Sequences

CONSTANTS Record,     \* records of the governed families
          Evidence,   \* those in control_evidence
          Reviewed,   \* those whose schedule requires a review
          Hold,       \* legal holds
          Clerk,      \* requests served at the same time
          MaxTime,    \* bound on the clock and on dates
          MaxEvents   \* bound on the events of a behaviour

ASSUME GovernanceAssumption ==
  /\ Evidence \subseteq Record /\ Reviewed \subseteq Record
  /\ MaxTime \in Nat \ {0} /\ MaxEvents \in Nat

Time == 0..MaxTime

VARIABLES
  now,
  assigned,  \* record_retention_assignments: the one assignment of a record
  pending,   \* retention_exceptions: dates that await a decision, at most one
  hold,      \* legal_holds.status
  held,      \* legal_hold_records that are not released
  deleted,
  head,      \* last_sequence of the chain's head
  chain,     \* chain_sequence of the events, in the order of their commits
  task,      \* the transaction each clerk is in
  crossed    \* history: records on which a deletion overlapped another request

governed == <<assigned, pending, hold, held, deleted>>
govVars == <<now, governed, head, chain, task, crossed>>

\* approvedDue is history: the due date the approving reviewer had read.
Assignment == [state : {"absent", "active", "exception", "disposition_pending"},
               review : {"not_required", "pending", "approved", "rejected"},
               due : Time, version : Nat, approvedDue : Time]

Unassigned == [state |-> "absent", review |-> "pending", due |-> 0, version |-> 0,
               approvedDue |-> 0]

Request ==
  [op : {"approve", "reject", "extend", "refuse", "delete"}, rec : Record]
    \cup [op : {"assign", "except"}, rec : Record, date : Time]
    \cup [op : {"create", "close"}, hold : Hold]
    \cup [op : {"place", "free"}, rec : Record, hold : Hold]

\* saw is what a reviewer has read; number is the event's chain_sequence.
Task == [stage : {"idle"}]
          \cup [stage : {"read"}, rec : Record, saw : Assignment]
          \cup [stage : {"open", "appended"}, req : Request, saw : Assignment, number : Nat]

Idler == [stage |-> "idle"]

GovTypeOK ==
  /\ now \in Time
  /\ assigned \in [Record -> Assignment]
  /\ pending \in [Record -> SUBSET Time]
  /\ \A r \in Record : \A d, e \in pending[r] : d = e
  /\ hold \in [Hold -> {"none", "active", "closed"}]
  /\ held \subseteq Hold \X Record
  /\ deleted \subseteq Record
  /\ head \in Nat /\ chain \in Seq(Nat)
  /\ task \in [Clerk -> Task]
  /\ crossed \subseteq Record

GovInit ==
  /\ now = 0
  /\ assigned = [r \in Record |-> Unassigned]
  /\ pending = [r \in Record |-> {}]
  /\ hold = [h \in Hold |-> "none"]
  /\ held = {} /\ deleted = {}
  /\ head = 0 /\ chain = <<>>
  /\ task = [c \in Clerk |-> Idler]
  /\ crossed = {}

-----------------------------------------------------------------------------
(* Locks and checks. *)

InTransaction(c) == task[c].stage \in {"open", "appended"}

OnRecord(q) == q.op \notin {"create", "close"}

\* mutant: the hold is read without FOR UPDATE when a record is added to it
RowsOf_HoldUnlocked(q) ==
  CASE q.op \in {"assign", "except", "approve", "reject", "extend", "refuse"} ->
         {<<"assignment", q.rec>>}
    [] q.op = "place" -> IF q.rec \in Evidence THEN {<<"record", q.rec>>} ELSE {}
    [] q.op \in {"free", "create", "close"} -> {<<"hold", q.hold>>}
    [] q.op = "delete" -> {<<"record", q.rec>>}

\* mutant: placing a hold on evidence does not lock its row
RowsOf_EvidenceUnlocked(q) ==
  CASE q.op \in {"assign", "except", "approve", "reject", "extend", "refuse"} ->
         {<<"assignment", q.rec>>}
    [] q.op \in {"place", "free", "create", "close"} -> {<<"hold", q.hold>>}
    [] q.op = "delete" -> {<<"record", q.rec>>}

\* The rows a request locks, or inserts under a unique key.  Placing a hold
\* locks the record's own row for evidence only.
RowsOf(q) ==
  CASE q.op \in {"assign", "except", "approve", "reject", "extend", "refuse"} ->
         {<<"assignment", q.rec>>}
    [] q.op = "place" -> {<<"hold", q.hold>>} \cup
                         IF q.rec \in Evidence THEN {<<"record", q.rec>>} ELSE {}
    [] q.op \in {"free", "create", "close"} -> {<<"hold", q.hold>>}
    [] q.op = "delete" -> {<<"record", q.rec>>}

\* mutant: a due date in the future does not protect a record
Cleared_AnyDate(r) ==
  LET a == assigned[r] IN
  /\ a.state \notin {"absent", "exception"}
  /\ r \in Reviewed => a.review = "approved"

\* What enforce_governed_record_disposition asks of the assignment.
Cleared(r) ==
  LET a == assigned[r] IN
  /\ a.state \notin {"absent", "exception"}
  /\ a.due <= now
  /\ r \in Reviewed => a.review = "approved"

OnHold(r) == \E h \in Hold : <<h, r>> \in held /\ hold[h] = "active"

\* mutant: the review does not compare ExpectedVersion
SameVersion_Ignored(r, saw) == TRUE
SameVersion(r, saw) == assigned[r].version = saw.version

\* The checks of a request, made on what is committed when it has its locks.
Allowed(q, saw) ==
  CASE q.op = "assign" -> q.rec \notin deleted /\ assigned[q.rec].state = "absent"
    [] q.op = "except" -> /\ assigned[q.rec].state # "absent" /\ pending[q.rec] = {}
                          /\ assigned[q.rec].due < q.date
    [] q.op \in {"approve", "reject"} -> SameVersion(q.rec, saw)
    [] q.op \in {"extend", "refuse"} -> pending[q.rec] # {}
    [] q.op = "create" -> hold[q.hold] = "none"
    [] q.op = "close" -> hold[q.hold] = "active"
    [] q.op = "place" -> /\ hold[q.hold] = "active" /\ q.rec \notin deleted
                         /\ <<q.hold, q.rec>> \notin held
    [] q.op = "free" -> <<q.hold, q.rec>> \in held
    [] q.op = "delete" -> q.rec \notin deleted /\ Cleared(q.rec) /\ ~OnHold(q.rec)

-----------------------------------------------------------------------------
(* What a request changes. *)

\* mutant: the requested date is taken for a period
Extended_FromNow(r, a) ==
  [a EXCEPT !.due = now + CHOOSE d \in pending[r] : TRUE, !.state = "active",
            !.version = @ + 1, !.review = IF r \in Reviewed THEN "pending" ELSE "not_required"]

\* An approved exception: a later date, and the review starts over.
Extended(r, a) ==
  [a EXCEPT !.due = CHOOSE d \in pending[r] : TRUE, !.state = "active", !.version = @ + 1,
            !.review = IF r \in Reviewed THEN "pending" ELSE "not_required"]

Assigned(q, saw) ==
  LET a == assigned[q.rec] IN
  CASE q.op = "assign" ->
         [state |-> "active", due |-> q.date, version |-> 1, approvedDue |-> 0,
          review |-> IF q.rec \in Reviewed THEN "pending" ELSE "not_required"]
    [] q.op = "approve" -> [a EXCEPT !.review = "approved", !.state = "disposition_pending",
                                     !.version = @ + 1, !.approvedDue = saw.due]
    [] q.op = "reject" -> [a EXCEPT !.review = "rejected", !.state = "active", !.version = @ + 1]
    [] q.op = "except" -> [a EXCEPT !.state = "exception", !.version = @ + 1]
    [] q.op = "extend" -> Extended(q.rec, a)
    [] q.op = "refuse" -> [a EXCEPT !.state = "active", !.version = @ + 1]
    [] OTHER -> a

\* ReleaseLegalHold releases the hold's records before it closes the hold.
FreedBy(h) == {<<h, r>> : r \in Record}

Apply(q, saw) ==
  /\ assigned' = IF OnRecord(q) THEN [assigned EXCEPT ![q.rec] = Assigned(q, saw)] ELSE assigned
  /\ pending' = CASE q.op = "except" -> [pending EXCEPT ![q.rec] = {q.date}]
                  [] q.op \in {"extend", "refuse"} -> [pending EXCEPT ![q.rec] = {}]
                  [] OTHER -> pending
  /\ hold' = CASE q.op = "create" -> [hold EXCEPT ![q.hold] = "active"]
               [] q.op = "close" -> [hold EXCEPT ![q.hold] = "closed"]
               [] OTHER -> hold
  /\ held' = CASE q.op = "place" -> held \cup {<<q.hold, q.rec>>}
               [] q.op = "free" -> held \ {<<q.hold, q.rec>>}
               [] q.op = "close" -> held \ FreedBy(q.hold)
               [] OTHER -> held
  /\ deleted' = IF q.op = "delete" THEN deleted \cup {q.rec} ELSE deleted

-----------------------------------------------------------------------------
(* The steps of a transaction. *)

Tick ==
  /\ now < MaxTime /\ now' = now + 1
  /\ UNCHANGED <<governed, head, chain, task, crossed>>

\* A reviewer reads the assignment; the decision is another request.
ReadAssignment(c, r) ==
  /\ task[c] = Idler /\ assigned[r].state # "absent"
  /\ task' = [task EXCEPT ![c] = [stage |-> "read", rec |-> r, saw |-> assigned[r]]]
  /\ UNCHANGED <<now, governed, head, chain, crossed>>

\* A deletion and another request about the same record.
Crosses(p, q) ==
  /\ OnRecord(p) /\ OnRecord(q) /\ p.rec = q.rec
  /\ "delete" \in {p.op, q.op}

Start(c, q, saw) ==
  /\ Len(chain) < MaxEvents \/ q.op = "delete"
  /\ \A d \in Clerk : InTransaction(d) => RowsOf(q) \cap RowsOf(task[d].req) = {}
  /\ Allowed(q, saw)
  /\ task' = [task EXCEPT ![c] = [stage |-> "open", req |-> q, saw |-> saw, number |-> 0]]
  /\ crossed' = IF \E d \in Clerk : InTransaction(d) /\ Crosses(q, task[d].req)
                  THEN crossed \cup {q.rec} ELSE crossed
  /\ UNCHANGED <<now, governed, head, chain>>

Begin(c, q) ==
  /\ task[c] = Idler /\ q.op \notin {"approve", "reject"}
  /\ Start(c, q, Unassigned)

ReviewDisposition(c, decision) ==
  /\ task[c].stage = "read"
  /\ Start(c, [op |-> decision, rec |-> task[c].rec], task[c].saw)

\* mutant: the head is read without FOR UPDATE
HeadIsFree_Unlocked(c) == TRUE
HeadIsFree(c) == \A d \in Clerk \ {c} : task[d].stage # "appended"

\* append_data_governance_event_chain; the outbox message is inserted with it.
AppendEvent(c) ==
  /\ task[c].stage = "open" /\ task[c].req.op # "delete"
  /\ HeadIsFree(c)
  /\ task' = [task EXCEPT ![c].stage = "appended", ![c].number = head + 1]
  /\ UNCHANGED <<now, governed, head, chain, crossed>>

Commit(c) ==
  /\ task[c].stage = "appended"
  /\ Apply(task[c].req, task[c].saw)
  /\ head' = task[c].number
  /\ chain' = Append(chain, task[c].number)
  /\ task' = [task EXCEPT ![c] = Idler]
  /\ UNCHANGED <<now, crossed>>

\* A deletion is not a governance event.
CommitDelete(c) ==
  /\ task[c].stage = "open" /\ task[c].req.op = "delete"
  /\ Apply(task[c].req, task[c].saw)
  /\ task' = [task EXCEPT ![c] = Idler]
  /\ UNCHANGED <<now, head, chain, crossed>>

\* An error, such as an outbox that refuses the message, a deadlock or a crash;
\* or the reviewer decides nothing.
Rollback(c) ==
  /\ task[c] # Idler
  /\ task' = [task EXCEPT ![c] = Idler]
  /\ UNCHANGED <<now, governed, head, chain, crossed>>

GovNext ==
  \/ Tick
  \/ \E c \in Clerk :
       \/ \E r \in Record : ReadAssignment(c, r)
       \/ \E q \in Request : Begin(c, q)
       \/ \E decision \in {"approve", "reject"} : ReviewDisposition(c, decision)
       \/ AppendEvent(c) \/ Commit(c) \/ CommitDelete(c) \/ Rollback(c)

GovSpec == GovInit /\ [][GovNext]_govVars

-----------------------------------------------------------------------------
(* Properties. *)

\* Events are numbered without a gap or a duplicate in the order they commit,
\* however transactions overlap and whichever of them roll back.
ChainIsGapless == chain = [i \in 1..head |-> i]

\* An approval is one of the due date in force: the reviewer had read it, and
\* an exception that moves it takes the approval back.
ApprovedAsRead ==
  \A r \in Record : assigned[r].review = "approved" => assigned[r].approvedDue = assigned[r].due

\* A record that is held is held by an active hold, although adding it and
\* closing the hold are different transactions.
ClosedHoldHoldsNothing == \A p \in held : hold[p[1]] = "active"

\* A held record still exists, unless its deletion overlapped another request
\* about it; evidence exists even then.
HeldIsPreserved ==
  \A p \in held : p[2] \in deleted => p[2] \in crossed /\ p[2] \notin Evidence

\* Legal holds keep what they promise: nothing is in a hold that is closed, and
\* what is in a hold exists.
HoldsProtect == ClosedHoldHoldsNothing /\ HeldIsPreserved

\* A record is deleted when its retention has ended and, if it needs a review,
\* somebody who had read its due date approved, unless the deletion overlapped
\* another request about it: the trigger locks neither assignment nor hold.
DeletedWhenCleared ==
  [][\A r \in deleted' \ deleted :
       \/ r \in crossed
       \/ /\ assigned[r].state # "absent" /\ assigned[r].due <= now
          /\ r \in Reviewed => /\ assigned[r].review = "approved"
                               /\ assigned[r].approvedDue = assigned[r].due]_govVars

\* Transactions that overlap take effect as if each had been checked and applied
\* at once: a change of the records is the effect of one request, and the request
\* is allowed in the very state that it changes.  Only a deletion, which locks
\* neither assignment nor hold, and a placement may be overtaken.
Overtakable == {"place", "delete"}

AsIfAtOnce ==
  [][governed' # governed =>
       \E c \in Clerk :
         LET q == task[c].req IN
         /\ InTransaction(c) /\ Apply(q, task[c].saw)
         /\ Allowed(q, task[c].saw) \/ (q.op \in Overtakable /\ q.rec \in crossed)]_govVars

\* docs/data-lifecycle-governance.md: the database rejects a deletion while "a
\* retention exception is pending".
PendingExceptionProtects ==
  [][\A r \in deleted' \ deleted : pending[r] = {} \/ r \in crossed]_govVars
=============================================================================
