------------------------ MODULE SchedulerLeaseProofs ------------------------
(***************************************************************************)
(* TLAPS proofs about SchedulerLease, for any number of replicas and       *)
(* tokens and any timing that TimingAssumption allows.                     *)
(*                                                                         *)
(* Mutual exclusion is not inductive by itself: it holds because the row   *)
(* of a replica that executes still carries its token and outlasts, by     *)
(* Margin, everything the replica may yet do before its work has stopped.  *)
(* The margin in turn needs that no statement of an earlier run can touch  *)
(* that row (Owned).                                                       *)
(***************************************************************************)
EXTENDS SchedulerLease, TLAPS

\* From TryAcquire's commit to the end of Run the replica has a token.
RunPhases == {"starting", "finished", "releasing"} \cup ExecutingPhases

\* A replica has a token exactly while Run has a lease.
Holding == \A r \in Replica : tok[r] # None <=> phase[r] \in RunPhases

\* Who may carry which token.
Owned ==
  /\ \A r, s \in Replica : tok[r] # None /\ tok[r] = tok[s] => r = s
  /\ \A r, s \in Replica :
       tok[r] # None /\ request[s] # None /\ request[s].token = tok[r] => r = s
  /\ \A r \in Replica :
       (/\ phase[r] \in {"starting"} \cup ExecutingPhases
        /\ request[r] # None /\ request[r].token = tok[r]) => request[r].op = "renew"
  /\ \A r \in Replica : tok[r] # None /\ row.token = tok[r] => row.owner = r

\* A row is free entirely or not at all.
RowShape == row.token = None <=> row.owner = None

\* What is left of the replica's run fits in what is left of its lease.
Covers(r) ==
  /\ phase[r] = "starting" => row.ttl > due[r] + Beat + AnswerTime + StopTime
  /\ phase[r] \in {"working", "renewed"} => row.ttl > beat[r] + AnswerTime + StopTime
  /\ phase[r] \in Renewals => row.ttl > due[r] + StopTime
  /\ phase[r] = "stopping" => row.ttl > due[r]

Margin ==
  ~ late => \A r \in Replica :
    phase[r] \in {"starting"} \cup ExecutingPhases => row.token = tok[r] /\ Covers(r)

\* The answer to a renewal is due before the next tick of the heartbeat.
Timers ==
  \A r \in Replica :
    /\ phase[r] \in Renewals => due[r] <= beat[r] /\ due[r] <= AnswerTime
    /\ phase[r] = "starting" => due[r] <= AnswerTime
    /\ phase[r] = "stopping" => due[r] <= StopTime

IInv == TypeOK /\ Holding /\ Owned /\ RowShape /\ Timers /\ Margin

-----------------------------------------------------------------------------
\* What a statement does to the row: nothing, extend the lease it names, or
\* free the row it names.
LEMMA ExecutedCases ==
  ASSUME NEW r \in Replica, request[r] # None, TypeOK, NEW q, q = request[r]
  PROVE  \/ Executed(r, q) = row
         \/ /\ q.op = "renew" /\ row.owner = r /\ row.token = q.token /\ row.ttl > 0
            /\ Executed(r, q) = [row EXCEPT !.ttl = LeaseTime]
         \/ /\ q.op = "release" /\ row.owner = r /\ row.token = q.token
            /\ Executed(r, q) = Free
  BY DEF Executed, Holds

\* Every state is well typed; a statement has a token because its sender has.
LEMMA Typing == Spec => [](TypeOK /\ Holding)
<1> USE NoneAssumption, TimingAssumption, CrashesAssumption
    DEF NoneAssumption, TimingAssumption, CrashesAssumption
<1>1. Init => TypeOK /\ Holding
  <2> SUFFICES ASSUME Init PROVE TypeOK /\ Holding
    OBVIOUS
  <2>1. TypeOK
    <3>1. late \in BOOLEAN
      BY Zenon DEF Init
    <3> QED
      BY <3>1 DEF Init, TypeOK, Free, Phases
  <2>2. Holding
    BY DEF Init, Holding, RunPhases, ExecutingPhases, Renewals
  <2> QED
    BY <2>1, <2>2
<1>2. TypeOK /\ Holding /\ [Next]_vars => TypeOK' /\ Holding'
  <2> SUFFICES ASSUME TypeOK, Holding, [Next]_vars PROVE TypeOK' /\ Holding'
    OBVIOUS
  <2> USE DEF TypeOK, Holding, RunPhases, Phases, ExecutingPhases, WaitingPhases, Renewals, Statement
  <2>1. ASSUME NEW r \in Replica, TryAcquire(r) PROVE TypeOK' /\ Holding'
    BY <2>1 DEF TryAcquire
  <2>2. ASSUME NEW r \in Replica, StartWork(r) PROVE TypeOK' /\ Holding'
    BY <2>2 DEF StartWork
  <2>3. ASSUME NEW r \in Replica, AcquireFails(r) PROVE TypeOK' /\ Holding'
    BY <2>3 DEF AcquireFails
  <2>4. ASSUME NEW r \in Replica, SendRenew(r) PROVE TypeOK' /\ Holding'
    BY <2>4 DEF SendRenew
  <2>5. ASSUME NEW r \in Replica, RenewReturns(r) PROVE TypeOK' /\ Holding'
    BY <2>5 DEF RenewReturns
  <2>6. ASSUME NEW r \in Replica, RenewFails(r) PROVE TypeOK' /\ Holding'
    BY <2>6 DEF RenewFails
  <2>7. ASSUME NEW r \in Replica, Shutdown(r) PROVE TypeOK' /\ Holding'
    BY <2>7 DEF Shutdown
  <2>8. ASSUME NEW r \in Replica, WorkReturns(r) PROVE TypeOK' /\ Holding'
    BY <2>8 DEF WorkReturns, Executing
  <2>9. ASSUME NEW r \in Replica, SendRelease(r) PROVE TypeOK' /\ Holding'
    BY <2>9 DEF SendRelease
  <2>10. ASSUME NEW r \in Replica, RunReturns(r) PROVE TypeOK' /\ Holding'
    BY <2>10 DEF RunReturns
  <2>11. ASSUME NEW r \in Replica, Execute(r) PROVE TypeOK' /\ Holding'
    <3>1. row' \in [owner : Replica \cup {None}, token : Token \cup {None}, ttl : 0..LeaseTime]
      BY <2>11, ExecutedCases DEF Execute, Free
    <3> QED
      BY <2>11, <3>1 DEF Execute
  <2>12. ASSUME NEW r \in Replica, LoseStatement(r) PROVE TypeOK' /\ Holding'
    BY <2>12 DEF LoseStatement
  <2>13. ASSUME NEW r \in Replica, Crash(r) PROVE TypeOK' /\ Holding'
    BY <2>13 DEF Crash
  <2>14. ASSUME NEW r \in Replica, Restart(r) PROVE TypeOK' /\ Holding'
    BY <2>14 DEF Restart
  <2>15. CASE Tick
    BY <2>15 DEF Tick, Less
  <2>16. CASE UNCHANGED vars
    BY <2>16 DEF vars
  <2> QED
    BY <2>1, <2>2, <2>3, <2>4, <2>5, <2>6, <2>7, <2>8, <2>9, <2>10, <2>11, <2>12, <2>13, <2>14, <2>15, <2>16 DEF Next, Step
<1> QED
  BY <1>1, <1>2, PTL DEF Spec

-----------------------------------------------------------------------------
\* The inductive step of the invariant, given that the next state is typed.
LEMMA Invariance ==
  IInv /\ TypeOK' /\ Holding' /\ [Next]_vars => Owned' /\ RowShape' /\ Timers' /\ Margin'
<1> SUFFICES ASSUME IInv, TypeOK', Holding', [Next]_vars
             PROVE  Owned' /\ RowShape' /\ Timers' /\ Margin'
  OBVIOUS
<1> USE NoneAssumption, TimingAssumption
    DEF NoneAssumption, TimingAssumption, IInv, TypeOK
<1>1. ASSUME NEW r \in Replica, TryAcquire(r) PROVE Owned' /\ RowShape' /\ Timers' /\ Margin'
  <2>1. Owned'
    BY <1>1 DEF TryAcquire, Fresh, Owned, Holding, RunPhases, ExecutingPhases, Renewals
  <2>2. RowShape'
    BY <1>1 DEF TryAcquire, Fresh, RowShape
  <2>3. Timers'
    BY <1>1 DEF TryAcquire, Fresh, Timers, Renewals
  <2>4. Margin'
    <3> SUFFICES ASSUME ~ late, NEW s \in Replica,
                        phase'[s] \in {"starting"} \cup ExecutingPhases
                 PROVE  row'.token = tok'[s] /\ Covers(s)'
      BY <1>1 DEF TryAcquire, Margin
    <3>1. CASE s = r
      BY <1>1, <3>1 DEF TryAcquire, Covers, ExecutingPhases, Renewals
    <3>2. CASE s # r
      <4>1. row.token = tok[s] /\ tok[s] # None /\ row.ttl > 0
        BY <1>1, <3>2 DEF TryAcquire, Margin, Covers, Holding, RunPhases, ExecutingPhases, Renewals
      <4> QED
        BY <1>1, <4>1 DEF TryAcquire, Acquirable, RowShape
    <3> QED
      BY <3>1, <3>2
  <2> QED
    BY <2>1, <2>2, <2>3, <2>4
<1>2. ASSUME NEW r \in Replica, StartWork(r) PROVE Owned' /\ RowShape' /\ Timers' /\ Margin'
  <2>1. Owned'
    BY <1>2 DEF StartWork, Owned, Holding, RunPhases, ExecutingPhases, Renewals
  <2>2. RowShape'
    BY <1>2 DEF StartWork, RowShape
  <2>3. Timers'
    BY <1>2 DEF StartWork, Timers, Renewals
  <2>4. Margin'
    BY <1>2 DEF StartWork, Margin, Covers, Timers, Owned, ExecutingPhases, Renewals
  <2> QED
    BY <2>1, <2>2, <2>3, <2>4
<1>3. ASSUME NEW r \in Replica, AcquireFails(r) PROVE Owned' /\ RowShape' /\ Timers' /\ Margin'
  <2>1. Owned'
    BY <1>3 DEF AcquireFails, Owned, Holding, RunPhases, ExecutingPhases, Renewals
  <2>2. RowShape'
    BY <1>3 DEF AcquireFails, RowShape
  <2>3. Timers'
    BY <1>3 DEF AcquireFails, Timers, Renewals
  <2>4. Margin'
    BY <1>3 DEF AcquireFails, Margin, Covers, Timers, Owned, ExecutingPhases, Renewals
  <2> QED
    BY <2>1, <2>2, <2>3, <2>4
<1>4. ASSUME NEW r \in Replica, SendRenew(r) PROVE Owned' /\ RowShape' /\ Timers' /\ Margin'
  <2>1. Owned'
    BY <1>4 DEF SendRenew, Owned, Holding, RunPhases, ExecutingPhases, Renewals
  <2>2. RowShape'
    BY <1>4 DEF SendRenew, RowShape
  <2>3. Timers'
    BY <1>4 DEF SendRenew, Timers, Renewals
  <2>4. Margin'
    BY <1>4 DEF SendRenew, Margin, Covers, Timers, Owned, ExecutingPhases, Renewals
  <2> QED
    BY <2>1, <2>2, <2>3, <2>4
<1>5. ASSUME NEW r \in Replica, RenewReturns(r) PROVE Owned' /\ RowShape' /\ Timers' /\ Margin'
  <2>1. Owned'
    BY <1>5 DEF RenewReturns, Owned, Holding, RunPhases, ExecutingPhases, Renewals
  <2>2. RowShape'
    BY <1>5 DEF RenewReturns, RowShape
  <2>3. Timers'
    BY <1>5 DEF RenewReturns, Timers, Renewals
  <2>4. Margin'
    BY <1>5 DEF RenewReturns, Margin, Covers, Timers, Owned, ExecutingPhases, Renewals
  <2> QED
    BY <2>1, <2>2, <2>3, <2>4
<1>6. ASSUME NEW r \in Replica, RenewFails(r) PROVE Owned' /\ RowShape' /\ Timers' /\ Margin'
  <2>1. Owned'
    BY <1>6 DEF RenewFails, Owned, Holding, RunPhases, ExecutingPhases, Renewals
  <2>2. RowShape'
    BY <1>6 DEF RenewFails, RowShape
  <2>3. Timers'
    BY <1>6 DEF RenewFails, Timers, Renewals
  <2>4. Margin'
    BY <1>6 DEF RenewFails, Margin, Covers, Timers, Owned, ExecutingPhases, Renewals
  <2> QED
    BY <2>1, <2>2, <2>3, <2>4
<1>7. ASSUME NEW r \in Replica, Shutdown(r) PROVE Owned' /\ RowShape' /\ Timers' /\ Margin'
  <2>1. Owned'
    BY <1>7 DEF Shutdown, Owned, Holding, RunPhases, ExecutingPhases, Renewals
  <2>2. RowShape'
    BY <1>7 DEF Shutdown, RowShape
  <2>3. Timers'
    BY <1>7 DEF Shutdown, Timers, Renewals
  <2>4. Margin'
    BY <1>7 DEF Shutdown, Margin, Covers, Timers, Owned, ExecutingPhases, Renewals
  <2> QED
    BY <2>1, <2>2, <2>3, <2>4
<1>8. ASSUME NEW r \in Replica, WorkReturns(r) PROVE Owned' /\ RowShape' /\ Timers' /\ Margin'
  <2>1. Owned'
    BY <1>8 DEF WorkReturns, Executing, ExecutingPhases, Renewals, Owned, Holding, RunPhases, ExecutingPhases, Renewals
  <2>2. RowShape'
    BY <1>8 DEF WorkReturns, Executing, ExecutingPhases, Renewals, RowShape
  <2>3. Timers'
    BY <1>8 DEF WorkReturns, Executing, ExecutingPhases, Renewals, Timers, Renewals
  <2>4. Margin'
    BY <1>8 DEF WorkReturns, Executing, ExecutingPhases, Renewals, Margin, Covers, Timers, Owned, ExecutingPhases, Renewals
  <2> QED
    BY <2>1, <2>2, <2>3, <2>4
<1>9. ASSUME NEW r \in Replica, SendRelease(r) PROVE Owned' /\ RowShape' /\ Timers' /\ Margin'
  <2>1. Owned'
    BY <1>9 DEF SendRelease, Owned, Holding, RunPhases, ExecutingPhases, Renewals
  <2>2. RowShape'
    BY <1>9 DEF SendRelease, RowShape
  <2>3. Timers'
    BY <1>9 DEF SendRelease, Timers, Renewals
  <2>4. Margin'
    BY <1>9 DEF SendRelease, Margin, Covers, Timers, Owned, ExecutingPhases, Renewals
  <2> QED
    BY <2>1, <2>2, <2>3, <2>4
<1>10. ASSUME NEW r \in Replica, RunReturns(r) PROVE Owned' /\ RowShape' /\ Timers' /\ Margin'
  <2>1. Owned'
    BY <1>10 DEF RunReturns, Owned, Holding, RunPhases, ExecutingPhases, Renewals
  <2>2. RowShape'
    BY <1>10 DEF RunReturns, RowShape
  <2>3. Timers'
    BY <1>10 DEF RunReturns, Timers, Renewals
  <2>4. Margin'
    BY <1>10 DEF RunReturns, Margin, Covers, Timers, Owned, ExecutingPhases, Renewals
  <2> QED
    BY <2>1, <2>2, <2>3, <2>4
<1>11. ASSUME NEW r \in Replica, Execute(r) PROVE Owned' /\ RowShape' /\ Timers' /\ Margin'
  <2>1. Owned'
    <3>1. row'.token \in {row.token, None} /\ (row'.token = row.token => row'.owner = row.owner)
      BY <1>11, ExecutedCases DEF Execute, Free, RowShape
    <3> QED
      BY <1>11, <3>1 DEF Execute, Owned, Holding, RunPhases, ExecutingPhases, Renewals
  <2>2. RowShape'
    BY <1>11, ExecutedCases DEF Execute, Free, RowShape
  <2>3. Timers'
    BY <1>11 DEF Execute, Timers, Renewals
  <2>4. Margin'
    <3> SUFFICES ASSUME ~ late, NEW s \in Replica,
                        phase'[s] \in {"starting"} \cup ExecutingPhases
                 PROVE  row'.token = tok'[s] /\ Covers(s)'
      BY <1>11 DEF Execute, Margin
    <3>1. /\ phase[s] \in {"starting"} \cup ExecutingPhases
          /\ row.token = tok[s] /\ Covers(s) /\ tok[s] # None
      BY <1>11 DEF Execute, Margin, Holding, RunPhases, ExecutingPhases, Renewals
    <3>2. row' = row \/ row' = [row EXCEPT !.ttl = LeaseTime]
      BY <1>11, <3>1, ExecutedCases DEF Execute, Owned
    <3>3. row'.token = tok'[s]
      BY <1>11, <3>1, <3>2 DEF Execute
    <3>4. phase'[s] = "renewed" => phase[s] = "renewed" \/ row'.ttl = LeaseTime
      BY <1>11, <3>1, ExecutedCases DEF Execute, Executed, Holds, Owned
    <3>5. Covers(s)'
      BY <1>11, <3>1, <3>2, <3>4 DEF Execute, Covers, Timers, Renewals
    <3> QED
      BY <3>3, <3>5
  <2> QED
    BY <2>1, <2>2, <2>3, <2>4
<1>12. ASSUME NEW r \in Replica, LoseStatement(r) PROVE Owned' /\ RowShape' /\ Timers' /\ Margin'
  <2>1. Owned'
    BY <1>12 DEF LoseStatement, Owned, Holding, RunPhases, ExecutingPhases, Renewals
  <2>2. RowShape'
    BY <1>12 DEF LoseStatement, RowShape
  <2>3. Timers'
    BY <1>12 DEF LoseStatement, Timers, Renewals
  <2>4. Margin'
    BY <1>12 DEF LoseStatement, Margin, Covers, Timers, Owned, ExecutingPhases, Renewals
  <2> QED
    BY <2>1, <2>2, <2>3, <2>4
<1>13. ASSUME NEW r \in Replica, Crash(r) PROVE Owned' /\ RowShape' /\ Timers' /\ Margin'
  <2>1. Owned'
    BY <1>13 DEF Crash, Owned, Holding, RunPhases, ExecutingPhases, Renewals
  <2>2. RowShape'
    BY <1>13 DEF Crash, RowShape
  <2>3. Timers'
    BY <1>13 DEF Crash, Timers, Renewals
  <2>4. Margin'
    BY <1>13 DEF Crash, Margin, Covers, Timers, Owned, ExecutingPhases, Renewals
  <2> QED
    BY <2>1, <2>2, <2>3, <2>4
<1>14. ASSUME NEW r \in Replica, Restart(r) PROVE Owned' /\ RowShape' /\ Timers' /\ Margin'
  <2>1. Owned'
    BY <1>14 DEF Restart, Owned, Holding, RunPhases, ExecutingPhases, Renewals
  <2>2. RowShape'
    BY <1>14 DEF Restart, RowShape
  <2>3. Timers'
    BY <1>14 DEF Restart, Timers, Renewals
  <2>4. Margin'
    BY <1>14 DEF Restart, Margin, Covers, Timers, Owned, ExecutingPhases, Renewals
  <2> QED
    BY <2>1, <2>2, <2>3, <2>4
<1>15. ASSUME Tick PROVE Owned' /\ RowShape' /\ Timers' /\ Margin'
  <2>1. Owned'
    BY <1>15 DEF Tick, Less, Owned, Holding, RunPhases, ExecutingPhases, Renewals
  <2>2. RowShape'
    BY <1>15 DEF Tick, Less, RowShape
  <2>3. Timers'
    BY <1>15 DEF Tick, Less, Timers, Renewals
  <2>4. Margin'
    <3> SUFFICES ASSUME ~ late', NEW s \in Replica,
                        phase[s] \in {"starting"} \cup ExecutingPhases
                 PROVE  row'.token = tok[s] /\ Covers(s)'
      BY <1>15 DEF Tick, Margin
    <3>1. ~ late /\ ~ Overdue(s)
      BY <1>15 DEF Tick
    <3>2. row.token = tok[s] /\ Covers(s) /\ row'.token = row.token
      BY <1>15, <3>1 DEF Tick, Margin
    <3>3. row.ttl > 0 /\ row'.ttl = row.ttl - 1
      BY <1>15, <3>2 DEF Tick, Less, Covers, ExecutingPhases, Renewals
    <3>4. /\ phase[s] \in WaitingPhases => due'[s] = due[s] - 1
          /\ phase[s] = "working" => beat'[s] = beat[s] - 1
          /\ phase[s] = "renewed" => beat'[s] = beat[s] - 1
      BY <1>15, <3>1 DEF Tick, Less, Overdue, Timers, WaitingPhases, Renewals
    <3>5. Covers(s)'
      BY <1>15, <3>2, <3>3, <3>4 DEF Tick, Covers, WaitingPhases, Renewals
    <3> QED
      BY <3>2, <3>5
  <2> QED
    BY <2>1, <2>2, <2>3, <2>4
<1>16. ASSUME UNCHANGED vars PROVE Owned' /\ RowShape' /\ Timers' /\ Margin'
  BY <1>16 DEF vars, Owned, RowShape, Timers, Margin, Covers
<1> QED
  BY <1>1, <1>2, <1>3, <1>4, <1>5, <1>6, <1>7, <1>8, <1>9, <1>10, <1>11, <1>12, <1>13, <1>14, <1>15, <1>16 DEF Next, Step
-----------------------------------------------------------------------------
\* The inductive invariant holds in every reachable state.
THEOREM InductiveInvariant == Spec => []IInv
<1>1. Init => Owned /\ RowShape /\ Timers /\ Margin
  BY NoneAssumption DEF NoneAssumption, Init, Owned, RowShape, Timers, Margin, Free,
     ExecutingPhases, Renewals
<1>2. IInv /\ TypeOK' /\ Holding' /\ [Next]_vars => IInv'
  BY Invariance DEF IInv
<1> QED
  BY <1>1, <1>2, Typing, PTL DEF Spec, IInv

\* TypeOK is an invariant of the lease.
THEOREM TypeCorrect == Spec => []TypeOK
BY Typing, PTL

\* Work of one task never runs on two replicas unless a replica overran one of
\* its deadlines: TryAcquire, Renew, Release and the heartbeat of Coordinator.Run
\* keep the lease of an executing replica ahead of all it may still do.
THEOREM MutualExclusion == Spec => []OverlapOnlyIfLate
<1>1. IInv => OverlapOnlyIfLate
  BY DEF IInv, Holding, RunPhases, Owned, Margin, OverlapOnlyIfLate, Executing
<1> QED
  BY <1>1, InductiveInvariant, PTL

\* The step by which a lease changes hands, or is extended.
LEMMA EveryStepFenced == IInv /\ [Next]_vars => FencedStep
<1> SUFFICES ASSUME IInv, [Next]_vars PROVE FencedStep
  OBVIOUS
<1>1. ASSUME row' = row PROVE FencedStep
  BY <1>1 DEF FencedStep, IInv, TypeOK
<1>2. ASSUME NEW r \in Replica, TryAcquire(r) PROVE FencedStep
  BY <1>2 DEF FencedStep, TryAcquire, Acquirable, Fresh, IInv, RowShape
<1>3. ASSUME NEW r \in Replica, Execute(r) PROVE FencedStep
  <2>1. row' = Executed(r, request[r]) /\ request[r] \in Statement
    BY <1>3 DEF Execute, IInv, TypeOK
  <2>2. CASE row' = row
    BY <1>1, <2>2
  <2>3. CASE row' = [row EXCEPT !.ttl = LeaseTime] /\ row.ttl > 0
    BY <2>3 DEF FencedStep, IInv, TypeOK
  <2>4. CASE /\ request[r].op = "release" /\ row.token = request[r].token /\ row' = Free
    <3>1. request[r] = [op |-> "release", token |-> row.token] /\ row.token # None
      BY <2>1, <2>4, NoneAssumption DEF Statement, NoneAssumption
    <3>2. \A s \in Replica : Executing(s) => tok[s] # row.token
      BY <1>3, <2>4, <3>1 DEF Execute, Executing, IInv, Owned, Holding, RunPhases
    <3>3. row'.token # row.token
      BY <2>4, <3>1 DEF Free
    <3> QED
      BY <2>4, <3>1, <3>2, <3>3 DEF FencedStep, Free
  <2> QED
    BY <1>3, <2>1, <2>2, <2>3, <2>4, ExecutedCases DEF Execute, IInv
<1>4. ASSUME Tick PROVE FencedStep
  BY <1>4 DEF FencedStep, Tick, Less, IInv, TypeOK
<1>5. [Next]_vars => \/ row' = row \/ Tick
                    \/ \E r \in Replica : TryAcquire(r) \/ Execute(r)
  BY DEF Next, Step, vars, StartWork, AcquireFails, SendRenew, RenewReturns, RenewFails, Shutdown, WorkReturns, SendRelease, RunReturns, LoseStatement, Crash, Restart
<1> QED
  BY <1>1, <1>2, <1>3, <1>4, <1>5

\* The fence of the row lease, whatever late statement is executed: nobody but
\* its own finished run ends an unexpired lease, and nobody revives an expired one.
THEOREM Fencing == Spec => LeaseFenced
<1>1. IInv /\ [Next]_vars => [FencedStep]_vars
  BY EveryStepFenced
<1> QED
  BY <1>1, InductiveInvariant, PTL DEF Spec, LeaseFenced
=============================================================================
