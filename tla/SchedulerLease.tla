--------------------------- MODULE SchedulerLease ---------------------------
(***************************************************************************)
(* The renewable PostgreSQL lease behind every periodic worker task        *)
(* (internal/pkg/coordination/lease.go) and the loop that runs a task      *)
(* under it (Coordinator.Run).  One task, that is one row of               *)
(* scheduler_leases; rows of different tasks never touch each other.       *)
(*                                                                         *)
(* A statement sent to the database is executed some time after it was     *)
(* sent, whatever its sender has become by then: it crashed, its context   *)
(* was cancelled, or its release timed out.  Time is a set of countdowns,  *)
(* all moved by Tick.  AnswerTime and StopTime say what a timely replica   *)
(* is; nothing in the code enforces them, so a countdown may be overrun,   *)
(* and late records that one was.                                          *)
(***************************************************************************)
EXTENDS Integers

CONSTANTS Replica,     \* worker processes; a replica keeps its owner ID
          Token,       \* lease tokens (uuid.New)
          None,
          LeaseTime,   \* CoordinatorConfig.Lease
          AnswerTime,  \* a timely replica has the answer to a statement by then
          StopTime,    \* timely work returns this soon after its cancellation
          MaxCrashes   \* bound on the crashes of a behaviour

\* interval := c.config.Lease / 3
Beat == LeaseTime \div 3

ASSUME NoneAssumption == None \notin Replica /\ None \notin Token

ASSUME TimingAssumption ==
  /\ LeaseTime \in Nat /\ AnswerTime \in Nat /\ StopTime \in Nat
  /\ Beat \in Nat /\ AnswerTime <= Beat
  /\ Beat + 2 * AnswerTime + StopTime < LeaseTime

ASSUME CrashesAssumption == MaxCrashes \in Nat

VARIABLES
  row,      \* the task's row: lease_owner, lease_token, time until leased_until
  phase,    \* where each replica is in Coordinator.Run
  tok,      \* the token of the lease a replica believes it holds
  request,  \* a Renew or Release statement the database has yet to execute
  beat,     \* time to the next tick of the heartbeat's ticker
  due,      \* time by which the answer, or the end of the work, is due
  late,     \* some replica has overrun beat or due
  crashes

vars == <<row, phase, tok, request, beat, due, late, crashes>>

Free == [owner |-> None, token |-> None, ttl |-> 0]

\* The heartbeat has a Renew statement under way.
Renewals == {"renewing", "renewed", "refused"}

\* The work function is running.
ExecutingPhases == {"working", "stopping"} \cup Renewals

\* The replica waits for something that is due.
WaitingPhases == {"starting", "stopping"} \cup Renewals

Phases == {"idle", "finished", "releasing", "down"}
            \cup ExecutingPhases \cup WaitingPhases

Statement == [op : {"renew", "release"}, token : Token]

Executing(r) == phase[r] \in ExecutingPhases

TypeOK ==
  /\ row \in [owner : Replica \cup {None}, token : Token \cup {None}, ttl : 0..LeaseTime]
  /\ phase \in [Replica -> Phases]
  /\ tok \in [Replica -> Token \cup {None}]
  /\ request \in [Replica -> Statement \cup {None}]
  /\ beat \in [Replica -> 0..Beat]
  /\ due \in [Replica -> 0..(AnswerTime + StopTime)]
  /\ late \in BOOLEAN
  /\ crashes \in 0..MaxCrashes

Init ==
  /\ row = Free
  /\ phase = [r \in Replica |-> "idle"]
  /\ tok = [r \in Replica |-> None]
  /\ request = [r \in Replica |-> None]
  /\ beat = [r \in Replica |-> 0]
  /\ due = [r \in Replica |-> 0]
  /\ late = FALSE
  /\ crashes = 0

-----------------------------------------------------------------------------
(* The row, as the three statements of PostgresLeaseStore read and write it. *)

\* WHERE lease_owner IS NULL OR leased_until <= NOW()
Acquirable_OnlyReleased == row.owner = None   \* mutant: expiry is forgotten
Acquirable == row.owner = None \/ row.ttl = 0

\* WHERE lease_owner = $2 AND lease_token = $3
Holds_ByOwner(r, t) == row.owner = r   \* mutant: the token is not compared
Holds(r, t) == row.owner = r /\ row.token = t

\* A token no row, replica or statement still carries.
Fresh(t) ==
  /\ t # row.token
  /\ \A s \in Replica : t # tok[s] /\ (request[s] # None => t # request[s].token)

\* mutant: leased_until grows by the duration instead of being set from NOW()
Executed_Extends(r, q) ==
  CASE q.op = "renew" /\ Holds(r, q.token) /\ row.ttl > 0 -> [row EXCEPT !.ttl = @ + LeaseTime]
    [] q.op = "release" /\ Holds(r, q.token)              -> Free
    [] OTHER                                              -> row

\* The row once statement q of replica r is executed; a statement whose WHERE
\* clause matches no row changes nothing.
Executed(r, q) ==
  CASE q.op = "renew" /\ Holds(r, q.token) /\ row.ttl > 0 -> [row EXCEPT !.ttl = LeaseTime]
    [] q.op = "release" /\ Holds(r, q.token)              -> Free
    [] OTHER                                              -> row

-----------------------------------------------------------------------------
(* TryAcquire.  Losing the advisory lock, and finding the lease taken,       *)
(* change nothing.  The statement's commit and its answer are two steps: the *)
(* answer may come late, or be lost and leave a lease nobody believes in.    *)

TryAcquire(r) ==
  /\ phase[r] = "idle"
  /\ Acquirable
  /\ \E t \in Token :
       /\ Fresh(t)
       /\ row' = [owner |-> r, token |-> t, ttl |-> LeaseTime]
       /\ tok' = [tok EXCEPT ![r] = t]
  /\ phase' = [phase EXCEPT ![r] = "starting"]
  /\ due' = [due EXCEPT ![r] = AnswerTime]
  /\ UNCHANGED <<request, beat, late, crashes>>

\* The lease is returned: the work and the heartbeat's ticker start.
StartWork(r) ==
  /\ phase[r] = "starting"
  /\ phase' = [phase EXCEPT ![r] = "working"]
  /\ beat' = [beat EXCEPT ![r] = Beat]
  /\ UNCHANGED <<row, tok, request, due, late, crashes>>

\* TryAcquire returns an error although the row was committed.
AcquireFails(r) ==
  /\ phase[r] = "starting"
  /\ phase' = [phase EXCEPT ![r] = "idle"]
  /\ tok' = [tok EXCEPT ![r] = None]
  /\ UNCHANGED <<row, request, beat, due, late, crashes>>

-----------------------------------------------------------------------------
(* The heartbeat goroutine. *)

\* A statement of an earlier run that is still on the wire gives its place in
\* request to this one: it is as good as lost, since its token matches no row that
\* anybody has acquired since.
SendRenew(r) ==
  /\ phase[r] = "working" /\ beat[r] = 0
  /\ phase' = [phase EXCEPT ![r] = "renewing"]
  /\ request' = [request EXCEPT ![r] = [op |-> "renew", token |-> tok[r]]]
  /\ beat' = [beat EXCEPT ![r] = Beat]
  /\ due' = [due EXCEPT ![r] = AnswerTime]
  /\ UNCHANGED <<row, tok, late, crashes>>

\* current = renewed
RenewReturns(r) ==
  /\ phase[r] = "renewed"
  /\ phase' = [phase EXCEPT ![r] = "working"]
  /\ UNCHANGED <<row, tok, request, beat, due, late, crashes>>

\* mutant: a failed renewal is retried at the next tick, the work goes on
RenewFails_Tolerated(r) ==
  /\ phase[r] \in Renewals
  /\ phase' = [phase EXCEPT ![r] = "working"]
  /\ UNCHANGED <<row, tok, request, beat, due, late, crashes>>

\* renewErr # nil: ErrLeaseLost, or an error that hides what the database did.
RenewFails(r) ==
  /\ phase[r] \in Renewals
  /\ phase' = [phase EXCEPT ![r] = "stopping"]
  /\ due' = [due EXCEPT ![r] = StopTime]
  /\ UNCHANGED <<row, tok, request, beat, late, crashes>>

-----------------------------------------------------------------------------
(* The body of Coordinator.Run. *)

\* The worker's context is cancelled while the work runs.
Shutdown(r) ==
  /\ phase[r] \in {"working"} \cup Renewals
  /\ phase' = [phase EXCEPT ![r] = "stopping"]
  /\ due' = [due EXCEPT ![r] = StopTime]
  /\ UNCHANGED <<row, tok, request, beat, late, crashes>>

\* invokeWork returns, with or without an error, and the heartbeat is awaited.
WorkReturns(r) ==
  /\ Executing(r)
  /\ phase' = [phase EXCEPT ![r] = "finished"]
  /\ UNCHANGED <<row, tok, request, beat, due, late, crashes>>

SendRelease(r) ==
  /\ phase[r] = "finished"
  /\ phase' = [phase EXCEPT ![r] = "releasing"]
  /\ request' = [request EXCEPT ![r] = [op |-> "release", token |-> tok[r]]]
  /\ UNCHANGED <<row, tok, beat, due, late, crashes>>

\* Run returns: Release was answered, failed, or ReleaseTimeout passed.
RunReturns(r) ==
  /\ phase[r] = "releasing"
  /\ phase' = [phase EXCEPT ![r] = "idle"]
  /\ tok' = [tok EXCEPT ![r] = None]
  /\ UNCHANGED <<row, request, beat, due, late, crashes>>

-----------------------------------------------------------------------------
(* The database, the processes and the clock. *)

\* The answer of a renewal is seen only by a heartbeat that still waits for it.
Execute(r) ==
  /\ request[r] # None
  /\ row' = Executed(r, request[r])
  /\ request' = [request EXCEPT ![r] = None]
  /\ phase' = [phase EXCEPT ![r] =
                 IF phase[r] # "renewing" THEN @
                 ELSE IF Holds(r, request[r].token) /\ row.ttl > 0 THEN "renewed"
                 ELSE "refused"]
  /\ UNCHANGED <<tok, beat, due, late, crashes>>

\* A statement on the wire when its connection breaks is never executed.
LoseStatement(r) ==
  /\ request[r] # None
  /\ request' = [request EXCEPT ![r] = None]
  /\ UNCHANGED <<row, phase, tok, beat, due, late, crashes>>

Crash(r) ==
  /\ phase[r] # "down" /\ crashes < MaxCrashes
  /\ phase' = [phase EXCEPT ![r] = "down"]
  /\ tok' = [tok EXCEPT ![r] = None]
  /\ crashes' = crashes + 1
  /\ UNCHANGED <<row, request, beat, due, late>>

Restart(r) ==
  /\ phase[r] = "down"
  /\ phase' = [phase EXCEPT ![r] = "idle"]
  /\ UNCHANGED <<row, tok, request, beat, due, late, crashes>>

Overdue(r) ==
  \/ phase[r] = "working" /\ beat[r] = 0
  \/ phase[r] \in WaitingPhases /\ due[r] = 0

Less(n) == IF n = 0 THEN 0 ELSE n - 1

Tick ==
  /\ row' = [row EXCEPT !.ttl = Less(@)]
  /\ beat' = [r \in Replica |-> Less(beat[r])]
  /\ due' = [r \in Replica |-> Less(due[r])]
  /\ late' = (late \/ \E r \in Replica : Overdue(r))
  /\ UNCHANGED <<phase, tok, request, crashes>>

Step(r) ==
  \/ TryAcquire(r) \/ StartWork(r) \/ AcquireFails(r)
  \/ SendRenew(r) \/ RenewReturns(r) \/ RenewFails(r)
  \/ Shutdown(r) \/ WorkReturns(r) \/ SendRelease(r) \/ RunReturns(r)
  \/ Execute(r) \/ LoseStatement(r)
  \/ Crash(r) \/ Restart(r)

Next == Tick \/ \E r \in Replica : Step(r)

Spec == Init /\ [][Next]_vars

\* What runs must go on: the clock, work that is awaited, Run's own steps, the
\* ticker of a task that is free to be taken and the restart of a dead worker.
\* A statement is executed or lost, nobody says which, but not for ever under way.
Fairness ==
  /\ WF_vars(Tick)
  /\ \A r \in Replica :
       /\ WF_vars(TryAcquire(r))
       /\ WF_vars(WorkReturns(r))
       /\ WF_vars(StartWork(r) \/ AcquireFails(r))
       /\ WF_vars(SendRelease(r))
       /\ WF_vars(RunReturns(r))
       /\ WF_vars(Restart(r))
       /\ WF_vars(Execute(r) \/ LoseStatement(r))

FairSpec == Spec /\ Fairness

-----------------------------------------------------------------------------
\* Two replicas run the work of a task at once only after some replica was
\* late: its heartbeat, an answer it waited for, or the end of work it had
\* cancelled.  (lease.go: TryAcquire, Renew, Release and Coordinator.Run.)
OverlapOnlyIfLate ==
  late \/ \A r, s \in Replica : Executing(r) /\ Executing(s) => r = s

\* The package comment, lease.go:1: leases for work that must execute on at
\* most one replica at a time.
AtMostOneReplica ==
  \A r, s \in Replica : Executing(r) /\ Executing(s) => r = s

\* A lease ends before its expiry only by the release of the very run that
\* took it, and no renewal brings an expired lease back, whatever statements
\* of earlier runs, of crashed or of cancelled processes are still executed.
FencedStep ==
  /\ row.token # None /\ row.ttl > 0 /\ row'.token # row.token
       => \E r \in Replica : /\ request[r] = [op |-> "release", token |-> row.token]
                            /\ \A s \in Replica : Executing(s) => tok[s] # row.token
  /\ row'.token = row.token => (row'.ttl > row.ttl => row.ttl > 0)

LeaseFenced == [][FencedStep]_vars

\* No lease is held for ever: when its holder is done, crashes or never learns
\* that it holds it, the task is released or taken over.
EveryLeaseEnds ==
  \A t \in Token : row.token = t ~> row.token # t
=============================================================================
