------------------------- MODULE PolicyApprovalProofs -------------------------
(***************************************************************************)
(* TLAPS proofs about PolicyApproval, for any editors, titles and bounds.  *)
(*                                                                         *)
(* What an open transaction was checked on is still true when it commits   *)
(* (Prepared), because of its lock (OneTransaction) and because a          *)
(* submission finds no workflow under way: until it commits nobody decides *)
(* and nobody publishes.  Only the current version may have changed.  What *)
(* a workflow is about (UnderWay) and the statuses of the three tables     *)
(* (StatusesAgree) then follow each other.                                 *)
(***************************************************************************)
EXTENDS PolicyApproval, TLAPS

Decisions == {"approve", "reject"}

OneTransaction ==
  \A d, e \in Editor :
    \/ d = e
    \/ /\ ~(Opened(d, {"revise"}) /\ Opened(e, {"revise"}))
       /\ ~(Opened(d, Submissions) /\ Opened(e, Submissions))
       /\ Opened(d, Decisions) /\ Opened(e, Decisions) => request[d].of # request[e].of

\* A submission of this kind of this version is still what was checked.
Submittable(kind, of) ==
  /\ Active = {} /\ of \in Written
  /\ IF kind = "retirement"
       THEN version[of].status = "published" /\ policy.status \in {"draft", "published"}
       ELSE version[of].status = "draft" /\ policy.status = "draft"

Prepared ==
  \A e \in Editor :
    /\ Opened(e, {"revise"}) => request[e].number = version[policy.current].number + 1
    /\ Opened(e, Submissions) => /\ Submittable(request[e].op, request[e].saw.current)
                                 /\ request[e].total > 0
    /\ Opened(e, Decisions) => request[e].of \in Active
    /\ Reads(e, "edit") => request[e].saw.status = "draft"
    /\ Reads(e, "delete") => request[e].saw.status \in {"draft", "retired"}

UnderWay ==
  \A w \in Active :
    LET a == workflow[w] IN
    /\ a.of \in Written
    /\ 1 <= a.step /\ a.step <= a.total /\ a.decided = 1..(a.step - 1)
    /\ a.kind = "retirement" => version[a.of].status = "published"
                                /\ policy.status \in {"draft", "published"}
    /\ a.kind = "authoring" =>
         /\ a.of = policy.current \/ version[policy.current].status = "draft"
         /\ ~overtook => a.of = policy.current /\ policy.status = "under_review"

\* Versions a user has answered for, or is about to.
Answered == {v \in Version : answer[v] # "none"}
              \cup {request[e].of : e \in {d \in Editor : Opened(d, Answers)}}

\* What the tables say whichever workflows there are.
RowsFit ==
  /\ policy.current \in Written
  /\ \A v \in Version \ Written : version[v].status = "draft"
  /\ policy.status = "draft" => version[policy.current].status = "draft"
  /\ \A v \in Answered : version[v].status \in {"published", "archived"}

PolicyInv ==
  /\ PolicyTypeOK /\ OneTransaction /\ Prepared /\ UnderWay /\ RowsFit
  /\ HistoryIsLinear /\ ReleasedWasApproved /\ StatusesAgree

-----------------------------------------------------------------------------
(* Shapes. *)

LEMMA JobShape ==
  ASSUME PolicyTypeOK, NEW e \in Editor
  PROVE  /\ request[e] \in Job
         /\ request[e].stage \in {"idle", "read", "open"}
         /\ request[e].stage = "idle" <=> request[e] = Free
         /\ request[e].stage = "read" => request[e].saw \in Policy
         /\ Opened(e, {"revise"}) => request[e].number \in Nat
         /\ Opened(e, Submissions) => request[e].saw \in Policy /\ request[e].total \in Nat
         /\ Opened(e, Decisions) => request[e].of \in Workflow
         /\ Opened(e, Answers) => request[e].of \in Version
BY DEF PolicyTypeOK, Job, Free, Opened, Submissions, Decisions, Answers

LEMMA AnsweredShape ==
  ASSUME PolicyTypeOK
  PROVE  Answered \subseteq Version
BY JobShape DEF Answered

LEMMA PolicyShape ==
  ASSUME PolicyTypeOK
  PROVE  /\ policy \in Policy /\ policy.current \in Version /\ policy.title \in Title
         /\ \A v \in Version :
              /\ version[v] = [number |-> version[v].number, status |-> version[v].status]
              /\ version[v].number \in Nat
              /\ version[v].status \in {"draft", "under_review", "approved", "published",
                                        "archived"}
         /\ \A w \in Workflow :
              /\ workflow[w] \in Approval
              /\ workflow[w].of \in Version /\ workflow[w].kind \in {"authoring", "retirement"}
              /\ workflow[w].step \in Nat /\ workflow[w].total \in Nat
              /\ workflow[w].status \in {"absent", "in_progress", "approved", "rejected"}
BY DEF PolicyTypeOK, Policy, Approval

-----------------------------------------------------------------------------
(* The invariant holds at first. *)

LEMMA PolicyInvHolds == PolicyInit => PolicyInv
<1> SUFFICES ASSUME PolicyInit PROVE PolicyInv
  OBVIOUS
<1> USE PolicyAssumption DEF PolicyAssumption, Version, Workflow
<1>1. 1 \in Version /\ Active = {} /\ Written = {1}
  <2>1. \A v \in Version : version[v].number = IF v = 1 THEN 1 ELSE 0
    BY DEF PolicyInit
  <2>2. Written = {1}
    BY <2>1 DEF Written
  <2> QED
    BY <2>2 DEF PolicyInit, Active
<1>2. PolicyTypeOK
  <2>1. policy \in Policy /\ overtook \in BOOLEAN
        /\ request \in [Editor -> Job]
        /\ answer \in [Version -> {"none", "attested", "declined"}]
    BY <1>1 DEF PolicyInit, Policy, Job, Free
  <2>2. version \in [Version -> [number : Nat, status : {"draft", "under_review", "approved",
                                                        "published", "archived"}]]
    BY DEF PolicyInit
  <2>3. /\ workflow \in [Workflow -> Approval]
        /\ \A w \in Workflow : workflow[w].decided = {} /\ workflow[w].step = 0
                               /\ workflow[w].total = 0
    BY <1>1 DEF PolicyInit, Approval
  <2> QED
    BY <2>1, <2>2, <2>3 DEF PolicyTypeOK
<1>3. OneTransaction /\ Prepared
  <2>1. \A e \in Editor : request[e].stage = "idle"
    BY DEF PolicyInit, Free
  <2> QED
    BY <2>1 DEF OneTransaction, Prepared, Opened, Reads
<1>4. UnderWay /\ RowsFit
  <2>1. Answered = {}
    BY DEF PolicyInit, Answered, Opened, Free
  <2> QED
    BY <1>1, <2>1 DEF PolicyInit, UnderWay, RowsFit
<1>5. HistoryIsLinear
  BY <1>1 DEF PolicyInit, HistoryIsLinear
<1>6. ReleasedWasApproved /\ StatusesAgree
  BY <1>1 DEF PolicyInit, ReleasedWasApproved, StatusesAgree
<1> QED
  BY <1>2, <1>3, <1>4, <1>5, <1>6 DEF PolicyInv

-----------------------------------------------------------------------------
(* Steps that leave the statuses alone. *)

\* Nothing but the title and the deletion of the policy changes.
SameHistory ==
  /\ policy' \in Policy
  /\ policy'.status = policy.status /\ policy'.current = policy.current
  /\ UNCHANGED <<version, workflow, overtook>>

LEMMA HistoryStays ==
  ASSUME PolicyInv, SameHistory, UNCHANGED answer,
         \A v \in Answered' : version[v].status \in {"published", "archived"}
  PROVE  /\ UnderWay' /\ RowsFit' /\ HistoryIsLinear' /\ ReleasedWasApproved' /\ StatusesAgree'
         /\ Active' = Active /\ Written' = Written
<1>1. Active' = Active /\ Written' = Written
  BY DEF SameHistory, Active, Written
<1>2. UnderWay' /\ RowsFit'
  BY <1>1 DEF PolicyInv, SameHistory, UnderWay, RowsFit
<1>3. HistoryIsLinear' /\ ReleasedWasApproved'
  BY <1>1 DEF PolicyInv, SameHistory, HistoryIsLinear, ReleasedWasApproved
<1>4. StatusesAgree'
  BY <1>1 DEF PolicyInv, SameHistory, StatusesAgree
<1> QED
  BY <1>1, <1>2, <1>3, <1>4

\* An editor that is done holds nothing.
LEMMA EditorLeaves ==
  ASSUME PolicyInv, NEW e \in Editor, Done(e)
  PROVE  /\ request' \in [Editor -> Job]
         /\ OneTransaction'
         /\ request'[e] = Free
         /\ \A d \in Editor \ {e} : request'[d] = request[d]
         /\ UNCHANGED answer => Answered' \subseteq Answered
<1>1. request' \in [Editor -> Job] /\ request'[e] = Free
      /\ \A d \in Editor \ {e} : request'[d] = request[d]
  BY DEF PolicyInv, PolicyTypeOK, Done, Job, Free
<1>2. OneTransaction'
  BY <1>1 DEF PolicyInv, OneTransaction, Opened, Free
<1>3. UNCHANGED answer => Answered' \subseteq Answered
  BY <1>1 DEF Answered, Opened, Free
<1> QED
  BY <1>1, <1>2, <1>3

LEMMA LeavingStays ==
  ASSUME PolicyInv, NEW e \in Editor, Done(e), SameHistory, UNCHANGED answer
  PROVE  PolicyInv'
<1>1. PolicyTypeOK'
  BY EditorLeaves DEF PolicyInv, PolicyTypeOK, SameHistory
<1>2. \A v \in Answered' : version[v].status \in {"published", "archived"}
  BY EditorLeaves DEF PolicyInv, RowsFit
<1>3. Prepared'
  BY <1>2, EditorLeaves, HistoryStays DEF PolicyInv, Prepared, Submittable, SameHistory, Opened, Reads, Free
<1> QED
  BY <1>1, <1>2, <1>3, EditorLeaves, HistoryStays DEF PolicyInv

LEMMA EditStep ==
  ASSUME PolicyInv, NEW e \in Editor,
         Update(e) \/ AssignOwner(e) \/ Delete(e) \/ EditorFails(e)
  PROVE  PolicyInv'
<1>1. Reads(e, "assign") => request[e].saw.title \in Title
  BY JobShape DEF PolicyInv, Reads, Policy
<1>2. SameHistory /\ Done(e) /\ UNCHANGED answer
  BY <1>1, PolicyShape DEF PolicyInv, SameHistory, Update, AssignOwner, Delete, EditorFails, docs, Policy
<1> QED
  BY <1>2, LeavingStays

\* What a user answers for was published when it was read.
LEMMA AcknowledgeStep ==
  ASSUME PolicyInv, NEW e \in Editor, AcknowledgePolicy(e)
  PROVE  PolicyInv'
<1> DEFINE of == request[e].of
<1>1. /\ Opened(e, Answers) /\ Done(e) /\ UNCHANGED <<policy, version, workflow, overtook>>
      /\ of \in Version /\ of \in Answered
      /\ answer' \in [Version -> {"none", "attested", "declined"}]
      /\ \A v \in Version \ {of} : answer'[v] = answer[v]
  BY JobShape DEF PolicyInv, PolicyTypeOK, AcknowledgePolicy, Answered
<1>2. version[of].status \in {"published", "archived"}
  BY <1>1 DEF PolicyInv, RowsFit
<1>3. Active' = Active /\ Written' = Written
  BY <1>1 DEF Active, Written
<1>4. Answered' \subseteq Answered
  BY <1>1, EditorLeaves DEF Answered, Opened, Free
<1>5. PolicyTypeOK' /\ OneTransaction'
  BY <1>1, EditorLeaves DEF PolicyInv, PolicyTypeOK
<1>6. Prepared'
  BY <1>1, <1>3, EditorLeaves DEF PolicyInv, Prepared, Submittable, Opened, Reads, Free
<1>7. UnderWay' /\ RowsFit'
  BY <1>1, <1>3, <1>4 DEF PolicyInv, UnderWay, RowsFit
<1>8. HistoryIsLinear' /\ StatusesAgree'
  BY <1>1, <1>3 DEF PolicyInv, HistoryIsLinear, StatusesAgree
<1>9. ReleasedWasApproved'
  BY <1>1, <1>2 DEF PolicyInv, ReleasedWasApproved
<1> QED
  BY <1>5, <1>6, <1>7, <1>8, <1>9 DEF PolicyInv

-----------------------------------------------------------------------------
(* Steps that begin something. *)

\* Only the editor's own request changes.
Requests(e, job) ==
  /\ request' = [request EXCEPT ![e] = job]
  /\ UNCHANGED <<docs, overtook>>

LEMMA BeginningStays ==
  ASSUME PolicyInv, NEW e \in Editor, NEW job \in Job, Requests(e, job), OneTransaction',
         Opened(e, {"revise"})' => job.number = version[policy.current].number + 1,
         Opened(e, Submissions)' => Submittable(job.op, job.saw.current) /\ job.total > 0,
         Opened(e, Decisions)' => job.of \in Active,
         Opened(e, Answers)' => version[job.of].status \in {"published", "archived"},
         Reads(e, "edit")' => job.saw.status = "draft",
         Reads(e, "delete")' => job.saw.status \in {"draft", "retired"}
  PROVE  PolicyInv'
<1>1. SameHistory /\ UNCHANGED answer /\ UNCHANGED policy
  BY PolicyShape DEF PolicyInv, SameHistory, Requests, docs
<1>2. /\ request' \in [Editor -> Job] /\ request'[e] = job
      /\ \A d \in Editor \ {e} : request'[d] = request[d]
  BY DEF PolicyInv, PolicyTypeOK, Requests
<1>3. PolicyTypeOK'
  BY <1>1, <1>2 DEF PolicyInv, PolicyTypeOK, SameHistory
<1>4. \A v \in Answered' : version[v].status \in {"published", "archived"}
  <2>1. Answered' \subseteq Answered \cup {job.of : d \in {d \in {e} : Opened(e, Answers)'}}
    BY <1>1, <1>2 DEF Answered, Opened
  <2> QED
    BY <2>1 DEF PolicyInv, RowsFit
<1>5. Prepared'
  BY <1>1, <1>2, <1>4, HistoryStays DEF PolicyInv, Prepared, Submittable, SameHistory, Opened, Reads
<1> QED
  BY <1>1, <1>3, <1>4, <1>5, HistoryStays DEF PolicyInv

LEMMA ReadStep ==
  ASSUME PolicyInv, NEW e \in Editor, NEW op \in {"revise", "edit", "assign", "delete"}, Read(e, op)
  PROVE  PolicyInv'
<1> DEFINE job == [stage |-> "read", op |-> op, saw |-> policy]
<1>1. job \in Job /\ Requests(e, job)
  BY PolicyShape DEF PolicyInv, Job, Read, Requests
<1>2. /\ request'[e] = job
      /\ \A d \in Editor \ {e} : request'[d] = request[d]
  BY <1>1 DEF PolicyInv, PolicyTypeOK, Requests
<1>3. OneTransaction'
  BY <1>2 DEF PolicyInv, OneTransaction, Opened
<1>4. /\ op = "edit" => policy.status = "draft"
      /\ op = "delete" => policy.status \in {"draft", "retired"}
  BY DEF Read, Editable, Deletable
<1> QED
  BY <1>1, <1>2, <1>3, <1>4, BeginningStays DEF Opened, Reads

LEMMA NewestIsCurrent ==
  ASSUME PolicyInv
  PROVE  Newest = version[policy.current].number
<1> DEFINE Numbers == {version[v].number : v \in Version}
           top == version[policy.current].number
<1>1. /\ policy.current \in Version /\ top \in Numbers
      /\ \A v \in Version : version[v].number <= top /\ version[v].number \in Nat
  BY PolicyShape DEF PolicyInv, HistoryIsLinear
<1>2. \E n \in Numbers : \A v \in Version : version[v].number <= n
  BY <1>1
<1>3. \A n \in Numbers : (\A v \in Version : version[v].number <= n) => n = top
  <2> SUFFICES ASSUME NEW u \in Version,
                      \A v \in Version : version[v].number <= version[u].number
               PROVE  version[u].number = top
    OBVIOUS
  <2> QED
    BY <1>1
<1>4. Newest \in Numbers /\ \A v \in Version : version[v].number <= Newest
  BY <1>2 DEF Newest
<1> QED
  BY <1>3, <1>4

LEMMA OpenVersionStep ==
  ASSUME PolicyInv, NEW e \in Editor, OpenVersion(e)
  PROVE  PolicyInv'
<1> DEFINE job == [stage |-> "open", op |-> "revise", number |-> Newest + 1]
<1>1. Newest \in Nat /\ Newest = version[policy.current].number
  BY NewestIsCurrent, PolicyShape DEF PolicyInv
<1>2. job \in Job /\ Requests(e, job)
  BY <1>1 DEF Job, OpenVersion, Requests
<1>3. /\ request'[e] = job
      /\ \A d \in Editor \ {e} : request'[d] = request[d] /\ ~Opened(d, {"revise"})
  BY <1>2 DEF PolicyInv, PolicyTypeOK, Requests, OpenVersion, LockIsFree
<1>4. OneTransaction'
  BY <1>3 DEF PolicyInv, OneTransaction, Opened, Submissions, Decisions
<1> QED
  BY <1>1, <1>2, <1>3, <1>4, BeginningStays DEF Opened, Reads, Submissions, Decisions, Answers

LEMMA OpenWorkflowStep ==
  ASSUME PolicyInv, NEW e \in Editor, NEW kind \in Submissions, NEW total \in 1..MaxSteps,
         OpenWorkflow(e, kind, total)
  PROVE  PolicyInv'
<1> DEFINE job == [stage |-> "open", op |-> kind, saw |-> policy, total |-> total]
<1>1. total \in Nat /\ total > 0
  BY PolicyAssumption DEF PolicyAssumption
<1>2. job \in Job /\ Requests(e, job)
  BY <1>1, PolicyShape DEF PolicyInv, Job, OpenWorkflow, Requests, Submissions
<1>3. /\ request'[e] = job
      /\ \A d \in Editor \ {e} : request'[d] = request[d] /\ ~Opened(d, Submissions)
  BY <1>2 DEF PolicyInv, PolicyTypeOK, Requests, OpenWorkflow, LockIsFree
<1>4. OneTransaction'
  BY <1>3 DEF PolicyInv, OneTransaction, Opened, Submissions, Decisions
<1>5. Submittable(kind, policy.current)
  BY DEF PolicyInv, OpenWorkflow, Submittable, RowsFit, StatusesAgree
<1> QED
  BY <1>1, <1>2, <1>3, <1>4, <1>5, BeginningStays DEF Opened, Reads, Submissions, Decisions, Answers

LEMMA OpenDecisionStep ==
  ASSUME PolicyInv, NEW e \in Editor, NEW w \in Workflow, NEW op \in Decisions,
         OpenDecision(e, w, op)
  PROVE  PolicyInv'
<1> DEFINE job == [stage |-> "open", op |-> op, of |-> w]
<1>1. job \in Job /\ Requests(e, job) /\ w \in Active
  BY DEF Job, OpenDecision, Undecided, Requests, Decisions, Active
<1>2. /\ request'[e] = job
      /\ \A d \in Editor \ {e} : /\ request'[d] = request[d]
                                 /\ Opened(d, Decisions) => request[d].of # w
  BY <1>1 DEF PolicyInv, PolicyTypeOK, Requests, OpenDecision, Decisions
<1>3. /\ Opened(e, Decisions)' /\ request'[e].of = w
      /\ ~Opened(e, {"revise"})' /\ ~Opened(e, Submissions)'
  BY <1>2 DEF Opened, Submissions, Decisions
<1>4. OneTransaction'
  BY <1>2, <1>3 DEF PolicyInv, OneTransaction, Opened, Submissions, Decisions
<1> QED
  BY <1>1, <1>2, <1>4, BeginningStays DEF Opened, Reads, Submissions, Decisions, Answers

LEMMA OpenAnswerStep ==
  ASSUME PolicyInv, NEW e \in Editor, NEW op \in Answers, OpenAnswer(e, op)
  PROVE  PolicyInv'
<1> DEFINE job == [stage |-> "open", op |-> op, of |-> policy.current]
<1>1. job \in Job /\ Requests(e, job)
  BY PolicyShape DEF PolicyInv, Job, OpenAnswer, Requests, Answers
<1>2. /\ request'[e] = job
      /\ \A d \in Editor \ {e} : request'[d] = request[d]
  BY <1>1 DEF PolicyInv, PolicyTypeOK, Requests
<1>3. /\ ~Opened(e, Decisions)' /\ ~Opened(e, {"revise"})' /\ ~Opened(e, Submissions)'
      /\ ~Reads(e, "edit")' /\ ~Reads(e, "delete")'
  BY <1>2 DEF Opened, Reads, Submissions, Decisions, Answers
<1>4. OneTransaction'
  BY <1>2, <1>3 DEF PolicyInv, OneTransaction, Opened
<1>5. version[policy.current].status = "published"
  BY DEF PolicyInv, OpenAnswer, StatusesAgree
<1> QED
  BY <1>1, <1>3, <1>4, <1>5, BeginningStays

-----------------------------------------------------------------------------
(* Steps that change statuses. *)

\* No workflow and no submission is under way when a policy is published.
LEMMA PublishStep ==
  ASSUME PolicyInv, Publish
  PROVE  PolicyInv'
<1> DEFINE c == policy.current
<1>1. /\ c \in Version /\ c \in Written /\ version[c].status = "approved"
      /\ policy.status = "approved"
  BY PolicyShape DEF PolicyInv, RowsFit, Publish, Publishable
<1>2. Active = {}
  <2> SUFFICES ASSUME NEW w \in Active PROVE FALSE
    OBVIOUS
  <2>1. w \in Workflow /\ workflow[w].kind \in {"authoring", "retirement"}
    BY PolicyShape DEF Active, PolicyInv
  <2>2. workflow[w].kind = "authoring" => version[workflow[w].of].status = "under_review"
    BY <2>1, PolicyShape DEF PolicyInv, StatusesAgree
  <2> QED
    BY <1>1, <2>1, <2>2 DEF PolicyInv, UnderWay
<1>3. \A e \in Editor : ~Opened(e, Submissions) /\ ~Opened(e, Decisions)
  BY <1>1, <1>2 DEF PolicyInv, Prepared, Submittable
<1>4. /\ policy' = [policy EXCEPT !.status = "published"] /\ policy' \in Policy
      /\ policy'.current = c /\ policy'.status = "published"
      /\ UNCHANGED <<workflow, answer, request, overtook>>
  BY <1>1 DEF PolicyInv, PolicyTypeOK, Publish, Policy
<1>5. /\ DOMAIN version' = Version
      /\ version'[c].status = "published"
      /\ \A v \in Version : /\ version'[v] \in [number : Nat, status : {"draft", "under_review",
                                                 "approved", "published", "archived"}]
                            /\ version'[v].number = version[v].number
      /\ \A v \in Version \ {c} :
           version'[v].status = IF version[v].status = "published" THEN "archived"
                                ELSE version[v].status
  <2>1. \A v \in Version : version'[v] =
          IF v = c THEN [version[v] EXCEPT !.status = "published"]
          ELSE IF version[v].status = "published" THEN [version[v] EXCEPT !.status = "archived"]
          ELSE version[v]
    BY DEF Publish, Superseded
  <2>2. DOMAIN version' = Version
    BY DEF Publish
  <2> SUFFICES ASSUME NEW v \in Version
               PROVE  /\ version'[v] \in [number : Nat, status : {"draft", "under_review",
                                           "approved", "published", "archived"}]
                      /\ version'[v].number = version[v].number
                      /\ version'[v].status = IF v = c THEN "published"
                                              ELSE IF version[v].status = "published"
                                                     THEN "archived" ELSE version[v].status
    BY <1>1, <2>2
  <2>3. version[v] \in [number : Nat, status : {"draft", "under_review", "approved", "published",
                                               "archived"}]
    BY DEF PolicyInv, PolicyTypeOK
  <2>4. CASE v = c
    BY <2>1, <2>3, <2>4
  <2>5. CASE v # c
    BY <2>1, <2>3, <2>5
  <2> QED
    BY <2>4, <2>5
<1>6. Active' = {} /\ Written' = Written
  BY <1>2, <1>4, <1>5 DEF Active, Written
<1>7. PolicyTypeOK'
  <2>1. version' = [v \in Version |-> version'[v]]
    BY DEF Publish
  <2> QED
    BY <1>4, <1>5, <2>1 DEF PolicyInv, PolicyTypeOK
<1>8. OneTransaction' /\ Prepared'
  BY <1>1, <1>3, <1>4, <1>5, <1>6 DEF PolicyInv, OneTransaction, Prepared, Opened, Reads, Submissions,
     Decisions
<1>9. UnderWay' /\ RowsFit'
  <2>1. UnderWay'
    BY <1>6 DEF UnderWay
  <2>2. \A v \in Version \ Written : v # c /\ version'[v].status = "draft"
    BY <1>1, <1>5 DEF PolicyInv, RowsFit
  <2>3. \A v \in Answered' : version'[v].status \in {"published", "archived"}
    <3>1. Answered' = Answered
      BY <1>4 DEF Answered, Opened
    <3> QED
      BY <1>5, <3>1, AnsweredShape DEF PolicyInv, RowsFit
  <2> QED
    BY <1>1, <1>4, <1>6, <2>1, <2>2, <2>3 DEF RowsFit
<1>10. HistoryIsLinear'
  <2>1. \A u, v \in Written' : version'[u].number = version'[v].number => u = v
    BY <1>5, <1>6 DEF PolicyInv, HistoryIsLinear, Written
  <2>2. \A v \in Version : version'[v].number <= version'[policy'.current].number
    BY <1>1, <1>4, <1>5 DEF PolicyInv, HistoryIsLinear
  <2>3. \A v \in Version : version'[v].status = "published" => v = c
    BY <1>5
  <2> QED
    BY <1>6, <2>1, <2>2, <2>3 DEF HistoryIsLinear
<1>11. ReleasedWasApproved'
  BY <1>1, <1>4, <1>5, PolicyShape DEF PolicyInv, ReleasedWasApproved, RowsFit
<1>12. StatusesAgree'
  BY <1>1, <1>2, <1>4, <1>5, <1>6, PolicyShape DEF PolicyInv, StatusesAgree
<1> QED
  BY <1>7, <1>8, <1>9, <1>10, <1>11, <1>12 DEF PolicyInv

\* A new version is a draft, as its row has counted before it was written.
LEMMA CreateVersionStep ==
  ASSUME PolicyInv, NEW e \in Editor, CreateVersion(e)
  PROVE  PolicyInv'
<1>1. PICK v \in Version, t \in Title :
        /\ Written = 1..(v - 1)
        /\ version' = [version EXCEPT ![v] = [number |-> request[e].number, status |-> "draft"]]
        /\ policy' = [policy EXCEPT !.status = "draft", !.title = t, !.current = v]
  BY DEF CreateVersion
<1> DEFINE n == request[e].number
           top == version[policy.current].number
<1>2. /\ Opened(e, {"revise"}) /\ Done(e) /\ UNCHANGED <<workflow, answer>>
      /\ overtook' = (overtook \/ ~Revisable(policy.status))
  BY DEF CreateVersion
<1>3. n = top + 1 /\ top \in Nat /\ n \in Nat /\ n > 0
  <2>1. n = top + 1
    BY <1>2 DEF PolicyInv, Prepared
  <2>2. top \in Nat
    BY PolicyShape DEF PolicyInv
  <2> QED
    BY <2>1, <2>2
<1>4. v \notin Written /\ version[v].status = "draft"
  <2>1. v \in Nat
    BY PolicyAssumption DEF PolicyAssumption, Version
  <2> QED
    BY <1>1, <2>1 DEF PolicyInv, RowsFit
<1>5. /\ policy' \in Policy /\ policy'.status = "draft" /\ policy'.current = v
      /\ version'[v].number = n
      /\ \A u \in Version \ {v} : version'[u] = version[u]
      /\ \A u \in Version : version'[u].status = version[u].status
  BY <1>1, <1>3, <1>4 DEF PolicyInv, PolicyTypeOK, Policy
<1>6. Active' = Active /\ Written' = Written \cup {v}
  BY <1>2, <1>3, <1>5 DEF Active, Written
<1>7. PolicyTypeOK'
  BY <1>1, <1>2, <1>3, <1>5, EditorLeaves DEF PolicyInv, PolicyTypeOK
<1>8. Prepared'
  <2> SUFFICES ASSUME NEW d \in Editor \ {e}
               PROVE  /\ ~Opened(d, {"revise"})'
                      /\ Opened(d, Submissions)' =>
                           /\ Submittable(request[d].op, request[d].saw.current)'
                           /\ request'[d].total > 0
                      /\ Opened(d, Decisions)' => request'[d].of \in Active'
                      /\ Reads(d, "edit")' => request'[d].saw.status = "draft"
                      /\ Reads(d, "delete")' => request'[d].saw.status \in {"draft", "retired"}
    BY <1>2, EditorLeaves DEF Prepared, Opened, Reads, Free
  <2>1. request'[d] = request[d]
    BY <1>2, EditorLeaves
  <2>2. ~Opened(d, {"revise"})
    BY <1>2 DEF PolicyInv, OneTransaction
  <2>3. Opened(d, Submissions) => Submittable(request[d].op, request[d].saw.current)'
    <3> SUFFICES ASSUME Opened(d, Submissions)
                 PROVE  Submittable(request[d].op, request[d].saw.current)'
      OBVIOUS
    <3>1. Submittable(request[d].op, request[d].saw.current)
      BY DEF PolicyInv, Prepared
    <3> QED
      BY <1>5, <1>6, <2>1, <3>1 DEF Submittable, Written
  <2> QED
    BY <1>6, <2>1, <2>2, <2>3 DEF PolicyInv, Prepared, Opened, Reads, Submissions, Decisions
<1>9. UnderWay'
  <2> SUFFICES ASSUME NEW w \in Active
               PROVE  (LET a == workflow[w] IN
                       /\ a.of \in Written
                       /\ 1 <= a.step /\ a.step <= a.total /\ a.decided = 1..(a.step - 1)
                       /\ a.kind = "retirement" => version[a.of].status = "published"
                                                   /\ policy.status \in {"draft", "published"}
                       /\ a.kind = "authoring" =>
                            /\ a.of = policy.current \/ version[policy.current].status = "draft"
                            /\ ~overtook => a.of = policy.current
                                            /\ policy.status = "under_review")'
    BY <1>6 DEF UnderWay
  <2>1. workflow'[w] = workflow[w] /\ workflow[w].of \in Version
    BY <1>2, PolicyShape DEF PolicyInv, Active
  <2>2. workflow[w].kind = "authoring" => overtook'
    BY <1>2 DEF PolicyInv, UnderWay, Revisable
  <2> QED
    BY <1>4, <1>5, <1>6, <2>1, <2>2 DEF PolicyInv, UnderWay
<1>10. RowsFit'
  <2>1. \A u \in Answered' : version'[u].status \in {"published", "archived"}
    BY <1>2, <1>5, AnsweredShape, EditorLeaves DEF PolicyInv, RowsFit
  <2> QED
    BY <1>2, <1>4, <1>5, <1>6, <2>1 DEF PolicyInv, RowsFit
<1>11. HistoryIsLinear'
  <2>1. \A u \in Version : version[u].number <= top /\ version[u].number \in Nat
    BY PolicyShape DEF PolicyInv, HistoryIsLinear
  <2>2. \A u \in Version : version'[u].number <= n
    BY <1>3, <1>5, <2>1
  <2>3. \A u, x \in Written' : version'[u].number = version'[x].number => u = x
    BY <1>3, <1>5, <1>6, <2>1 DEF PolicyInv, HistoryIsLinear, Written
  <2> QED
    BY <1>2, <1>5, <1>6, <2>2, <2>3 DEF PolicyInv, HistoryIsLinear
<1>12. ReleasedWasApproved'
  BY <1>2, <1>5 DEF PolicyInv, ReleasedWasApproved
<1>13. StatusesAgree'
  BY <1>2, <1>5, <1>6 DEF PolicyInv, StatusesAgree
<1> QED
  BY <1>2, <1>7, <1>8, <1>9, <1>10, <1>11, <1>12, <1>13, EditorLeaves DEF PolicyInv

\* A submission commits on what it was checked on: no other workflow has begun.
LEMMA SubmitStep ==
  ASSUME PolicyInv, NEW e \in Editor, CreateApprovalWorkflow(e)
  PROVE  PolicyInv'
<1> DEFINE kind == request[e].op
           of == request[e].saw.current
           total == request[e].total
<1>1. PICK w \in Workflow :
        /\ {x \in Workflow : workflow[x].status # "absent"} = 1..(w - 1)
        /\ workflow' = [workflow EXCEPT ![w] =
             [status |-> "in_progress", kind |-> kind, of |-> of,
              step |-> 1, total |-> total, decided |-> {}]]
  BY DEF CreateApprovalWorkflow
<1>2. /\ Opened(e, Submissions) /\ Done(e) /\ UNCHANGED answer
      /\ kind \in {"authoring", "retirement"}
      /\ policy' = IF kind = "retirement" THEN policy
                     ELSE [policy EXCEPT !.status = "under_review"]
      /\ version' = IF kind = "retirement" THEN version
                      ELSE [version EXCEPT ![of].status = "under_review"]
      /\ overtook' = (overtook \/ (kind = "authoring"
                                     /\ <<policy.status, policy.current>> # <<"draft", of>>))
  BY DEF CreateApprovalWorkflow, Opened, Submissions
<1>3. /\ Submittable(kind, of) /\ of \in Version /\ of \in Written /\ Active = {}
      /\ total \in Nat /\ total > 0
  <2>1. Submittable(kind, of) /\ total > 0
    BY <1>2 DEF PolicyInv, Prepared
  <2>2. total \in Nat /\ request[e].saw \in Policy
    BY <1>2, JobShape DEF PolicyInv
  <2> QED
    BY <2>1, <2>2 DEF Submittable, Policy
<1>4. w \in Nat /\ workflow[w].status = "absent"
  <2>1. w \in Nat
    BY PolicyAssumption DEF PolicyAssumption, Workflow
  <2> QED
    BY <1>1, <2>1
<1>5. /\ workflow'[w] = [status |-> "in_progress", kind |-> kind, of |-> of,
                         step |-> 1, total |-> total, decided |-> {}]
      /\ \A x \in Workflow \ {w} : workflow'[x] = workflow[x]
      /\ workflow' \in [Workflow -> Approval]
  BY <1>1, <1>2, <1>3 DEF PolicyInv, PolicyTypeOK, Approval
<1>6. Active' = {w}
  BY <1>3, <1>5 DEF Active
<1>7. /\ policy' \in Policy /\ policy'.current = policy.current
      /\ policy'.status = IF kind = "retirement" THEN policy.status ELSE "under_review"
  BY <1>2, PolicyShape DEF PolicyInv, Policy
<1>8. /\ version' \in [Version -> [number : Nat, status : {"draft", "under_review", "approved",
                                                          "published", "archived"}]]
      /\ \A v \in Version : version'[v].number = version[v].number
      /\ \A v \in Version : version'[v].status =
           IF kind = "authoring" /\ v = of THEN "under_review" ELSE version[v].status
  <2>1. version \in [Version -> [number : Nat, status : {"draft", "under_review", "approved",
                                                        "published", "archived"}]]
    BY DEF PolicyInv, PolicyTypeOK
  <2>2. CASE kind = "retirement"
    BY <1>2, <2>1, <2>2
  <2>3. CASE kind = "authoring"
    BY <1>2, <1>3, <2>1, <2>3
  <2> QED
    BY <1>2, <2>2, <2>3
<1>9. Written' = Written
  BY <1>8 DEF Written
<1>10. PolicyTypeOK'
  <2>1. /\ workflow'[w].decided \subseteq 1..workflow'[w].total
        /\ workflow'[w].step <= workflow'[w].total + 1
    BY <1>3, <1>5
  <2>2. \A x \in Workflow : /\ workflow'[x].decided \subseteq 1..workflow'[x].total
                            /\ workflow'[x].step <= workflow'[x].total + 1
    BY <1>5, <2>1 DEF PolicyInv, PolicyTypeOK
  <2> QED
    BY <1>2, <1>5, <1>7, <1>8, <2>2, EditorLeaves DEF PolicyInv, PolicyTypeOK
<1>11. \A d \in Editor \ {e} : /\ request'[d] = request[d]
                               /\ ~Opened(d, Submissions) /\ ~Opened(d, Decisions)
  BY <1>2, <1>3, EditorLeaves DEF PolicyInv, OneTransaction, Prepared
<1>12. Prepared'
  <2> SUFFICES ASSUME NEW d \in Editor \ {e}
               PROVE  /\ Opened(d, {"revise"})' =>
                           request'[d].number = version'[policy'.current].number + 1
                      /\ ~Opened(d, Submissions)' /\ ~Opened(d, Decisions)'
                      /\ Reads(d, "edit")' => request'[d].saw.status = "draft"
                      /\ Reads(d, "delete")' => request'[d].saw.status \in {"draft", "retired"}
    BY <1>2, EditorLeaves DEF Prepared, Opened, Reads, Free
  <2> QED
    BY <1>7, <1>8, <1>11, PolicyShape DEF PolicyInv, Prepared, Opened, Reads, Submissions, Decisions
<1>13. UnderWay'
  <2>1. kind = "retirement" => /\ version'[of].status = "published"
                               /\ policy'.status \in {"draft", "published"}
    BY <1>3, <1>7, <1>8 DEF Submittable
  <2>2. kind = "authoring" /\ ~overtook' => of = policy'.current /\ policy'.status = "under_review"
    BY <1>2, <1>7
  <2>3. kind = "authoring" =>
          of = policy'.current \/ version'[policy'.current].status = "draft"
    BY <1>3, <1>7, <1>8, PolicyShape DEF PolicyInv, RowsFit, Submittable
  <2>4. 1..(1 - 1) = {}
    OBVIOUS
  <2> DEFINE a == workflow'[w]
  <2>5. a.of = of /\ a.kind = kind /\ a.step = 1 /\ a.total = total /\ a.decided = {}
    BY <1>5
  <2>6. /\ a.of \in Written'
        /\ 1 <= a.step /\ a.step <= a.total /\ a.decided = 1..(a.step - 1)
    BY <1>3, <1>9, <2>4, <2>5
  <2>7. a.kind = "retirement" => version'[a.of].status = "published"
                                 /\ policy'.status \in {"draft", "published"}
    BY <2>1, <2>5
  <2>8. a.kind = "authoring" =>
          /\ a.of = policy'.current \/ version'[policy'.current].status = "draft"
          /\ ~overtook' => a.of = policy'.current /\ policy'.status = "under_review"
    BY <2>2, <2>3, <2>5
  <2> HIDE DEF a
  <2> QED
    BY <1>6, <2>6, <2>7, <2>8 DEF UnderWay, a
<1>14. RowsFit'
  <2>1. \A v \in Answered' : version'[v].status \in {"published", "archived"}
    BY <1>2, <1>3, <1>8, AnsweredShape, EditorLeaves DEF PolicyInv, RowsFit, Submittable
  <2>2. policy'.status = "draft" => kind = "retirement"
    BY <1>7, <1>2
  <2>3. \A v \in Version \ Written : version'[v].status = "draft"
    BY <1>3, <1>8 DEF PolicyInv, RowsFit
  <2> QED
    BY <1>2, <1>7, <1>8, <1>9, <2>1, <2>2, <2>3 DEF PolicyInv, RowsFit
<1>15. HistoryIsLinear'
  <2>1. \A u, v \in Written' : version'[u].number = version'[v].number => u = v
    BY <1>8, <1>9 DEF PolicyInv, HistoryIsLinear, Written
  <2>2. \A v \in Version : version'[v].number <= version'[policy'.current].number
    BY <1>7, <1>8, PolicyShape DEF PolicyInv, HistoryIsLinear
  <2>3. \A v \in Version : version'[v].status = "published" => version[v].status = "published"
    BY <1>8
  <2> QED
    BY <1>6, <2>1, <2>2, <2>3 DEF PolicyInv, HistoryIsLinear
<1>16. ReleasedWasApproved'
  <2> SUFFICES ASSUME NEW v \in Version
               PROVE  \/ version'[v].status \in {"draft", "under_review"} /\ answer[v] = "none"
                      \/ \E x \in Workflow :
                           /\ workflow'[x].status = "approved" /\ workflow'[x].kind = "authoring"
                           /\ workflow'[x].of = v
                           /\ workflow'[x].decided = 1..workflow'[x].total
    BY <1>2 DEF ReleasedWasApproved
  <2>1. CASE version[v].status \in {"draft", "under_review"} /\ answer[v] = "none"
    BY <1>8, <2>1
  <2>2. CASE \E x \in Workflow :
               /\ workflow[x].status = "approved" /\ workflow[x].kind = "authoring"
               /\ workflow[x].of = v
               /\ workflow[x].decided = 1..workflow[x].total
    BY <1>4, <1>5, <2>2
  <2> QED
    BY <2>1, <2>2 DEF PolicyInv, ReleasedWasApproved
<1>17. StatusesAgree'
  <2>1. \A v \in Version : version[v].status # "under_review"
    BY <1>3 DEF PolicyInv, StatusesAgree
  <2>2. \A v \in Version : version'[v].status = "under_review" <=>
          \E x \in Active' : workflow'[x].of = v /\ workflow'[x].kind = "authoring"
    BY <1>5, <1>6, <1>8, <2>1
  <2>3. /\ policy'.status = "published" => version'[policy'.current].status = "published"
        /\ policy'.status = "retired" => \A v \in Version : version'[v].status # "published"
    BY <1>2, <1>7, <1>8, PolicyShape DEF PolicyInv, StatusesAgree
  <2>4. policy'.status \in {"under_review", "approved"} /\ ~overtook' =>
          version'[policy'.current].status = policy'.status
    <3>1. CASE kind = "retirement"
      BY <1>3, <1>7, <3>1 DEF Submittable
    <3>2. CASE kind = "authoring"
      <4>1. ~overtook' => of = policy.current
        BY <1>2, <3>2
      <4> QED
        BY <1>3, <1>7, <1>8, <3>2, <4>1
    <3> QED
      BY <1>2, <3>1, <3>2
  <2> QED
    BY <2>2, <2>3, <2>4 DEF StatusesAgree
<1> QED
  BY <1>2, <1>10, <1>12, <1>13, <1>14, <1>15, <1>16, <1>17, EditorLeaves DEF PolicyInv

\* A decision of the current step: the steps before it have been approved.
LEMMA DecidedShape ==
  ASSUME NEW o \in Approval, o.status = "in_progress", NEW op \in Decisions,
         1 <= o.step, o.step <= o.total, o.decided = 1..(o.step - 1)
  PROVE  LET a == Decided(o, op) IN
         /\ a \in Approval /\ a.of = o.of /\ a.kind = o.kind /\ a.total = o.total
         /\ a.status \in {"in_progress", "approved", "rejected"}
         /\ a.decided \subseteq 1..a.total /\ a.step <= a.total + 1
         /\ a.status = "approved" => a.decided = 1..a.total
         /\ a.status = "in_progress" => /\ 1 <= a.step /\ a.step <= a.total
                                        /\ a.decided = 1..(a.step - 1)
<1> DEFINE a == Decided(o, op)
<1>1. o.step \in Nat /\ o.total \in Nat /\ o.decided \in SUBSET Nat /\ o.of \in Version
      /\ o = [status |-> o.status, kind |-> o.kind, of |-> o.of, step |-> o.step,
              total |-> o.total, decided |-> o.decided]
      /\ o.kind \in {"authoring", "retirement"}
  BY DEF Approval
<1>2. o.decided \cup {o.step} = 1..o.step /\ o.decided \subseteq 1..o.total
  BY <1>1
<1> DEFINE more == o.decided \cup {o.step}
<1>3. more \in SUBSET Nat /\ o.total + 1 \in Nat /\ o.step + 1 \in Nat
  BY <1>1
<1>4. CASE op = "reject"
  <2>1. a = [o EXCEPT !.status = "rejected"]
    BY <1>4 DEF Decided
  <2> QED
    BY <1>1, <1>2, <2>1 DEF Approval
<1>5. CASE op = "approve" /\ o.step = o.total
  <2>1. a = [o EXCEPT !.status = "approved", !.step = o.total + 1,
                      !.decided = more]
    BY <1>5 DEF Decided, LastStep
  <2>2. a.status = "approved" /\ a.step = o.total + 1 /\ a.decided = 1..o.total
    <3>1. o = [status |-> o.status, kind |-> o.kind, of |-> o.of, step |-> o.step,
               total |-> o.total, decided |-> o.decided]
      BY <1>1
    <3>2. a.status = "approved" /\ a.step = o.total + 1 /\ a.decided = more
      BY <2>1, <3>1
    <3> QED
      BY <1>2, <1>5, <3>2
  <2>3. a \in Approval /\ a.of = o.of /\ a.kind = o.kind /\ a.total = o.total
    <3> HIDE DEF more
    <3> QED
      BY <1>1, <1>3, <2>1 DEF Approval
  <2> QED
    BY <1>1, <2>2, <2>3
<1>6. CASE op = "approve" /\ o.step # o.total
  <2>1. a = [o EXCEPT !.step = o.step + 1, !.decided = more]
    BY <1>6 DEF Decided, LastStep
  <2>2. a.status = "in_progress" /\ a.step = o.step + 1 /\ a.decided = 1..o.step
    <3>1. o = [status |-> o.status, kind |-> o.kind, of |-> o.of, step |-> o.step,
               total |-> o.total, decided |-> o.decided]
      BY <1>1
    <3>2. a.status = o.status /\ a.step = o.step + 1 /\ a.decided = more
      BY <2>1, <3>1
    <3> QED
      BY <1>2, <3>2
  <2>3. a \in Approval /\ a.of = o.of /\ a.kind = o.kind /\ a.total = o.total
    <3> HIDE DEF more
    <3> QED
      BY <1>1, <1>3, <2>1 DEF Approval
  <2>4. o.step + 1 <= o.total /\ 1..o.step \subseteq 1..o.total /\ o.step = (o.step + 1) - 1
    BY <1>1, <1>6
  <2> QED
    BY <1>1, <2>2, <2>3, <2>4
<1> QED
  BY <1>4, <1>5, <1>6 DEF Decisions

\* Only the version that the workflow is about changes, and how.
DecidedAs(a, s, t) ==
  \/ a.status = "approved" /\ a.kind = "authoring" /\ s = "approved" /\ t = "approved"
  \/ a.status = "approved" /\ a.kind = "retirement" /\ s = "retired" /\ t = "archived"
  \/ a.status = "rejected" /\ a.kind = "authoring" /\ s = "draft" /\ t = "draft"
  \/ /\ a.status = "in_progress" \/ (a.status = "rejected" /\ a.kind = "retirement")
     /\ s = policy.status /\ t = version[a.of].status

LEMMA DecideStep ==
  ASSUME PolicyInv, NEW e \in Editor, DecideApproval(e)
  PROVE  PolicyInv'
<1> DEFINE w == request[e].of
           op == request[e].op
           o == workflow[w]
           a == Decided(o, op)
           of == o.of
           s == policy'.status
           t == version'[of].status
<1>1. /\ Opened(e, Decisions) /\ Done(e) /\ UNCHANGED <<answer, overtook>>
      /\ op \in Decisions
      /\ workflow' = [workflow EXCEPT ![w] = a]
  BY DEF DecideApproval, Opened, Decisions
<1>2. /\ w \in Workflow /\ w \in Active /\ Active = {w}
      /\ o \in Approval /\ o.status = "in_progress" /\ of \in Version
      /\ o.kind \in {"authoring", "retirement"}
  <2>1. w \in Active
    BY <1>1 DEF PolicyInv, Prepared
  <2> QED
    BY <2>1, PolicyShape DEF PolicyInv, HistoryIsLinear, Active
<1>3. /\ of \in Written
      /\ 1 <= o.step /\ o.step <= o.total /\ o.decided = 1..(o.step - 1)
      /\ o.kind = "retirement" => version[of].status = "published"
      /\ o.kind = "authoring" =>
           /\ version[of].status = "under_review"
           /\ of = policy.current \/ version[policy.current].status = "draft"
           /\ ~overtook => of = policy.current /\ policy.status = "under_review"
  <2>1. o.kind = "authoring" => version[of].status = "under_review"
    BY <1>2 DEF PolicyInv, StatusesAgree
  <2> QED
    BY <1>2, <2>1 DEF PolicyInv, UnderWay
<1>4. /\ a \in Approval /\ a.of = of /\ a.kind = o.kind /\ a.total = o.total
      /\ a.status \in {"in_progress", "approved", "rejected"}
      /\ a.decided \subseteq 1..a.total /\ a.step <= a.total + 1
      /\ a.status = "approved" => a.decided = 1..a.total
      /\ a.status = "in_progress" => /\ 1 <= a.step /\ a.step <= a.total
                                     /\ a.decided = 1..(a.step - 1)
  BY <1>1, <1>2, <1>3, DecidedShape
<1> HIDE DEF a
<1>5. /\ workflow' \in [Workflow -> Approval] /\ workflow'[w] = a
      /\ \A x \in Workflow \ {w} : workflow'[x] = workflow[x] /\ x \notin Active
  BY <1>1, <1>2, <1>4 DEF PolicyInv, PolicyTypeOK
<1>6. Active' = IF a.status = "in_progress" THEN {w} ELSE {}
  BY <1>2, <1>5 DEF Active
<1>7. /\ policy' \in Policy /\ policy'.current = policy.current
      /\ version' \in [Version -> [number : Nat, status : {"draft", "under_review", "approved",
                                                          "published", "archived"}]]
      /\ \A v \in Version : version'[v].number = version[v].number
      /\ \A v \in Version \ {of} : version'[v].status = version[v].status
      /\ DecidedAs(a, s, t)
  <2>1. /\ policy \in Policy
        /\ version \in [Version -> [number : Nat, status : {"draft", "under_review", "approved",
                                                          "published", "archived"}]]
    BY DEF PolicyInv, PolicyTypeOK
  <2> DEFINE To(x, y) == /\ policy' = [policy EXCEPT !.status = x]
                         /\ version' = [version EXCEPT ![of].status = y]
  <2>2. \/ a.status = "approved" /\ a.kind = "authoring" /\ To("approved", "approved")
        \/ a.status = "approved" /\ a.kind = "retirement" /\ To("retired", "archived")
        \/ a.status = "rejected" /\ a.kind = "authoring" /\ To("draft", "draft")
        \/ /\ a.status = "in_progress" \/ (a.status = "rejected" /\ a.kind = "retirement")
           /\ UNCHANGED <<policy, version>>
    BY <1>4 DEF DecideApproval, a
  <2>3. \A x \in {"approved", "retired", "draft"}, y \in {"approved", "archived", "draft"} :
          To(x, y) => /\ policy' \in Policy /\ policy'.current = policy.current
                      /\ policy'.status = x /\ version'[of].status = y
                      /\ version' \in [Version -> [number : Nat,
                           status : {"draft", "under_review", "approved", "published", "archived"}]]
                      /\ \A v \in Version : version'[v].number = version[v].number
                      /\ \A v \in Version \ {of} : version'[v].status = version[v].status
    BY <1>2, <2>1 DEF Policy
  <2>4. CASE UNCHANGED <<policy, version>>
    BY <1>4, <2>1, <2>2, <2>3, <2>4 DEF DecidedAs
  <2>5. CASE ~UNCHANGED <<policy, version>>
    BY <1>4, <2>2, <2>3, <2>5 DEF DecidedAs
  <2> QED
    BY <2>4, <2>5
<1>8. Written' = Written
  BY <1>7 DEF Written
<1>9. PolicyTypeOK'
  <2>1. \A x \in Workflow : /\ workflow'[x].decided \subseteq 1..workflow'[x].total
                            /\ workflow'[x].step <= workflow'[x].total + 1
    BY <1>4, <1>5 DEF PolicyInv, PolicyTypeOK
  <2> QED
    BY <1>1, <1>5, <1>7, <2>1, EditorLeaves DEF PolicyInv, PolicyTypeOK
<1>10. \A d \in Editor \ {e} : /\ request'[d] = request[d]
                               /\ ~Opened(d, Submissions) /\ ~Opened(d, Decisions)
  <2> SUFFICES ASSUME NEW d \in Editor \ {e}
               PROVE  ~Opened(d, Submissions) /\ ~Opened(d, Decisions)
    BY <1>1, EditorLeaves
  <2>1. Opened(d, Decisions) => request[d].of = w
    BY <1>2 DEF PolicyInv, Prepared
  <2>2. ~Opened(d, Decisions)
    BY <1>1, <2>1 DEF PolicyInv, OneTransaction
  <2> QED
    BY <1>2, <2>2 DEF PolicyInv, Prepared, Submittable
<1>11. Prepared'
  <2> SUFFICES ASSUME NEW d \in Editor \ {e}
               PROVE  /\ Opened(d, {"revise"})' =>
                           request'[d].number = version'[policy'.current].number + 1
                      /\ ~Opened(d, Submissions)' /\ ~Opened(d, Decisions)'
                      /\ Reads(d, "edit")' => request'[d].saw.status = "draft"
                      /\ Reads(d, "delete")' => request'[d].saw.status \in {"draft", "retired"}
    BY <1>1, EditorLeaves DEF Prepared, Opened, Reads, Free
  <2> QED
    BY <1>7, <1>10, PolicyShape DEF PolicyInv, Prepared, Opened, Reads, Submissions, Decisions
<1>12. a.status = "in_progress" => s = policy.status /\ t = version[of].status
  BY <1>4, <1>7 DEF DecidedAs
<1>13. UnderWay'
  <2> SUFFICES ASSUME a.status = "in_progress"
               PROVE  UnderWay'
    BY <1>6 DEF UnderWay
  <2>1. \A v \in Version : version'[v].status = version[v].status
    BY <1>7, <1>12
  <2>2. policy.current \in Version
    BY PolicyShape DEF PolicyInv
  <2>3. /\ a.kind = "retirement" => version'[of].status = "published"
                                    /\ policy'.status \in {"draft", "published"}
        /\ a.kind = "authoring" =>
             /\ of = policy'.current \/ version'[policy'.current].status = "draft"
             /\ ~overtook' => of = policy'.current /\ policy'.status = "under_review"
    BY <1>1, <1>2, <1>3, <1>4, <1>7, <1>12, <2>1, <2>2 DEF PolicyInv, UnderWay
  <2> QED
    BY <1>3, <1>4, <1>5, <1>6, <1>8, <2>3 DEF UnderWay
<1>14. RowsFit'
  <2>1. policy'.status = "draft" => version'[policy'.current].status = "draft"
    BY <1>3, <1>4, <1>7, PolicyShape DEF PolicyInv, RowsFit, DecidedAs
  <2>2. \A v \in Answered' : version'[v].status \in {"published", "archived"}
    <3>1. Answered' \subseteq Answered /\ Answered \subseteq Version
      BY <1>1, AnsweredShape, EditorLeaves DEF PolicyInv
    <3>2. version[of].status \in {"published", "archived"} => t \in {"published", "archived"}
      BY <1>3, <1>4, <1>7 DEF DecidedAs
    <3> QED
      BY <1>7, <3>1, <3>2 DEF PolicyInv, RowsFit
  <2>3. \A v \in Version \ Written : version'[v].status = "draft"
    BY <1>3, <1>7 DEF PolicyInv, RowsFit
  <2> QED
    BY <1>1, <1>7, <1>8, <2>1, <2>2, <2>3 DEF PolicyInv, RowsFit
<1>15. \A v \in Version : version'[v].status = "published" => version[v].status = "published"
  BY <1>3, <1>4, <1>7 DEF DecidedAs
<1>16. HistoryIsLinear'
  <2>1. \A u, v \in Written' : version'[u].number = version'[v].number => u = v
    BY <1>7, <1>8 DEF PolicyInv, HistoryIsLinear, Written
  <2>2. \A v \in Version : version'[v].number <= version'[policy'.current].number
    BY <1>7, PolicyShape DEF PolicyInv, HistoryIsLinear
  <2> QED
    BY <1>6, <1>15, <2>1, <2>2 DEF PolicyInv, HistoryIsLinear
<1>17. ReleasedWasApproved'
  <2> DEFINE Approves(v, x) == /\ workflow[x].status = "approved" /\ workflow[x].kind = "authoring"
                               /\ workflow[x].of = v
                               /\ workflow[x].decided = 1..workflow[x].total
  <2> SUFFICES ASSUME NEW v \in Version
               PROVE  \/ version'[v].status \in {"draft", "under_review"} /\ answer[v] = "none"
                      \/ \E x \in Workflow : Approves(v, x)'
    BY <1>1 DEF ReleasedWasApproved
  <2>1. CASE \E x \in Workflow : Approves(v, x)
    BY <1>2, <1>5, <2>1
  <2>2. CASE version[v].status \in {"draft", "under_review"} /\ answer[v] = "none" /\ v # of
    BY <1>7, <2>2
  <2>3. CASE version[v].status \in {"draft", "under_review"} /\ answer[v] = "none" /\ v = of
    <3>1. o.kind = "authoring"
      BY <1>2, <1>3, <2>3
    <3>2. CASE a.status = "approved"
      <4>1. /\ a.status = "approved" /\ a.kind = "authoring" /\ a.of = v
            /\ a.decided = 1..a.total
        BY <1>4, <2>3, <3>1, <3>2
      <4>2. /\ workflow'[w].status = "approved" /\ workflow'[w].kind = "authoring"
            /\ workflow'[w].of = v /\ workflow'[w].decided = 1..workflow'[w].total
        BY <1>5, <4>1
      <4> QED
        BY <1>2, <4>2
    <3>3. CASE a.status # "approved"
      <4>1. t \in {"draft", version[of].status}
        BY <1>4, <1>7, <3>1, <3>3 DEF DecidedAs
      <4>2. version'[v].status \in {"draft", "under_review"}
        BY <2>3, <4>1
      <4> QED
        BY <2>3, <4>2
    <3> QED
      BY <3>2, <3>3
  <2> QED
    BY <2>1, <2>2, <2>3 DEF PolicyInv, ReleasedWasApproved
<1>18. StatusesAgree'
  <2>1. \A v \in Version \ {of} : version[v].status # "under_review"
    BY <1>2 DEF PolicyInv, StatusesAgree
  <2>2. version'[of].status = "under_review" <=> a.status = "in_progress" /\ a.kind = "authoring"
    BY <1>2, <1>3, <1>4, <1>7 DEF DecidedAs
  <2>3. \A v \in Version : version'[v].status = "under_review" <=>
          \E x \in Active' : workflow'[x].of = v /\ workflow'[x].kind = "authoring"
    BY <1>4, <1>5, <1>6, <1>7, <2>1, <2>2
  <2>4. policy'.status = "published" => version'[policy'.current].status = "published"
    <3>1. policy.current \in Version
      BY PolicyShape DEF PolicyInv
    <3>2. policy'.status = "published" => policy.status = "published" /\ t = version[of].status
      BY <1>4, <1>7 DEF DecidedAs
    <3> QED
      BY <1>7, <3>1, <3>2 DEF PolicyInv, StatusesAgree
  <2>5. policy'.status = "retired" => \A v \in Version : version'[v].status # "published"
    <3>1. CASE policy.status = "retired"
      BY <1>15, <3>1 DEF PolicyInv, StatusesAgree
    <3>2. CASE policy.status # "retired"
      <4>1. policy'.status = "retired" => t = "archived" /\ version[of].status = "published"
        BY <1>3, <1>4, <1>7, <3>2 DEF DecidedAs
      <4>2. version[of].status = "published" =>
              \A v \in Version : version[v].status = "published" => v = of
        BY <1>2 DEF PolicyInv, HistoryIsLinear
      <4> QED
        BY <1>7, <1>15, <4>1, <4>2
    <3> QED
      BY <3>1, <3>2
  <2>6. policy'.status \in {"under_review", "approved"} /\ ~overtook' =>
          version'[policy'.current].status = policy'.status
    <3> SUFFICES ASSUME policy'.status \in {"under_review", "approved"}, ~overtook
                 PROVE  version'[policy'.current].status = policy'.status
      BY <1>1
    <3>1. policy.current \in Version
      BY PolicyShape DEF PolicyInv
    <3>2. CASE a.status = "approved"
      BY <1>3, <1>4, <1>7, <3>2 DEF DecidedAs
    <3>3. CASE a.status # "approved"
      BY <1>4, <1>7, <3>1, <3>3 DEF DecidedAs, PolicyInv, StatusesAgree
    <3> QED
      BY <3>2, <3>3
  <2> QED
    BY <2>3, <2>4, <2>5, <2>6 DEF StatusesAgree
<1> QED
  BY <1>1, <1>9, <1>11, <1>13, <1>14, <1>16, <1>17, <1>18, EditorLeaves DEF PolicyInv

-----------------------------------------------------------------------------
(* Theorems. *)

LEMMA PolicyInvPreserved == PolicyInv /\ [PolicyNext]_policyVars => PolicyInv'
<1> SUFFICES ASSUME PolicyInv, [PolicyNext]_policyVars PROVE PolicyInv'
  OBVIOUS
<1>1. CASE Publish
  BY <1>1, PublishStep
<1>2. ASSUME NEW e \in Editor, NEW op \in Answers, OpenAnswer(e, op) \/ AcknowledgePolicy(e)
      PROVE  PolicyInv'
  BY <1>2, OpenAnswerStep, AcknowledgeStep
<1>3. ASSUME NEW e \in Editor, NEW op \in {"revise", "edit", "assign", "delete"}, Read(e, op)
      PROVE  PolicyInv'
  BY <1>3, ReadStep
<1>4. ASSUME NEW e \in Editor, Update(e) \/ AssignOwner(e) \/ Delete(e) \/ EditorFails(e)
      PROVE  PolicyInv'
  BY <1>4, EditStep
<1>5. ASSUME NEW e \in Editor, OpenVersion(e)
      PROVE  PolicyInv'
  BY <1>5, OpenVersionStep
<1>6. ASSUME NEW e \in Editor, CreateVersion(e)
      PROVE  PolicyInv'
  BY <1>6, CreateVersionStep
<1>7. ASSUME NEW e \in Editor, NEW kind \in Submissions, NEW total \in 1..MaxSteps,
             OpenWorkflow(e, kind, total)
      PROVE  PolicyInv'
  BY <1>7, OpenWorkflowStep
<1>8. ASSUME NEW e \in Editor, CreateApprovalWorkflow(e)
      PROVE  PolicyInv'
  BY <1>8, SubmitStep
<1>9. ASSUME NEW e \in Editor, NEW w \in Workflow, NEW op \in Decisions, OpenDecision(e, w, op)
      PROVE  PolicyInv'
  BY <1>9, OpenDecisionStep
<1>10. ASSUME NEW e \in Editor, DecideApproval(e)
       PROVE  PolicyInv'
  BY <1>10, DecideStep
<1>11. CASE UNCHANGED policyVars
  <2>1. SameHistory /\ UNCHANGED <<answer, request, policy>>
    BY <1>11, PolicyShape DEF PolicyInv, SameHistory, policyVars, docs
  <2>2. \A v \in Answered' : version[v].status \in {"published", "archived"}
    BY <2>1 DEF PolicyInv, RowsFit, Answered, Opened
  <2>3. PolicyTypeOK' /\ OneTransaction'
    BY <2>1 DEF PolicyInv, PolicyTypeOK, OneTransaction, SameHistory, Opened
  <2>4. Prepared'
    BY <2>1, <2>2, HistoryStays DEF PolicyInv, Prepared, Submittable, SameHistory, Opened, Reads
  <2> QED
    BY <2>1, <2>2, <2>3, <2>4, HistoryStays DEF PolicyInv
<1> QED
  BY <1>1, <1>2, <1>3, <1>4, <1>5, <1>6, <1>7, <1>8, <1>9, <1>10, <1>11
  DEF PolicyNext, Decisions, Answers

\* The inductive invariant.
THEOREM PolicyInvariant == PolicySpec => []PolicyInv
<1>1. PolicyInit => PolicyInv
  BY PolicyInvHolds
<1>2. PolicyInv /\ [PolicyNext]_policyVars => PolicyInv'
  BY PolicyInvPreserved
<1> QED
  BY <1>1, <1>2, PTL DEF PolicySpec

\* The variables of PolicyApproval have their types.
THEOREM PolicyTypeCorrect == PolicySpec => []PolicyTypeOK
<1>1. PolicyInv => PolicyTypeOK
  BY DEF PolicyInv
<1> QED
  BY <1>1, PolicyInvariant, PTL

\* Versions, workflows and publications of a policy (policy_repo.go) follow
\* one another in a line.
THEOREM HistoryStaysLinear == PolicySpec => []HistoryIsLinear
<1>1. PolicyInv => HistoryIsLinear
  BY DEF PolicyInv
<1> QED
  BY <1>1, PolicyInvariant, PTL

\* Whatever Publish released was approved in every step (DecideApproval).
THEOREM ReleasesAreApproved == PolicySpec => []ReleasedWasApproved
<1>1. PolicyInv => ReleasedWasApproved
  BY DEF PolicyInv
<1> QED
  BY <1>1, PolicyInvariant, PTL

\* policies, policy_versions and policy_approval_workflows agree.
THEOREM StatusesStayAgreed == PolicySpec => []StatusesAgree
<1>1. PolicyInv => StatusesAgree
  BY DEF PolicyInv
<1> QED
  BY <1>1, PolicyInvariant, PTL

-----------------------------------------------------------------------------
(* What is on record stays. *)

\* Only rows that were not written, not released and not decided change.
LEMMA RecordIsKept ==
  ASSUME PolicyInv, PolicyNext
  PROVE  KeepsTheRecord
<1>1. CASE Publish
  <2>1. /\ policy.current \in Version /\ version[policy.current].status = "approved"
        /\ workflow' = workflow /\ answer' = answer
    BY <1>1, PolicyShape DEF PolicyInv, Publish, Publishable
  <2>2. ASSUME NEW v \in Version
        PROVE  /\ version[v].status = "published" => version'[v].status \in {"published", "archived"}
               /\ version[v].status = "archived" => version'[v].status = "archived"
               /\ version'[v].number = version[v].number
    <3>1. version'[v] = IF v = policy.current THEN [version[v] EXCEPT !.status = "published"]
                        ELSE IF version[v].status = "published"
                               THEN [version[v] EXCEPT !.status = "archived"] ELSE version[v]
      BY <1>1 DEF Publish, Superseded
    <3>2. version[v] = [number |-> version[v].number, status |-> version[v].status]
      BY PolicyShape DEF PolicyInv
    <3> QED
      BY <2>1, <3>1, <3>2
  <2> QED
    BY <2>1, <2>2 DEF KeepsTheRecord
<1>2. CASE UNCHANGED <<version, workflow, answer>>
  BY <1>2 DEF KeepsTheRecord
<1>3. ASSUME NEW e \in Editor, CreateVersion(e)
      PROVE  KeepsTheRecord
  <2>1. PICK v \in Version :
          /\ Written = 1..(v - 1)
          /\ version' = [version EXCEPT ![v] = [number |-> request[e].number, status |-> "draft"]]
    BY <1>3 DEF CreateVersion
  <2>2. v \notin Written
    <3>1. v \in Int /\ v \notin 1..(v - 1)
      BY <2>1, PolicyAssumption DEF PolicyAssumption, Version
    <3> QED
      BY <2>1, <3>1
  <2>3. version[v].number = 0 /\ version[v].status = "draft"
    <3>1. v \in Version /\ version[v].number \in Nat
      BY <2>1, PolicyShape DEF PolicyInv
    <3>2. version[v].status = "draft"
      BY <2>2, <3>1 DEF PolicyInv, RowsFit
    <3> QED
      BY <2>2, <3>1, <3>2 DEF Written
  <2>4. \A x \in Version \ {v} : version'[x] = version[x]
    BY <2>1 DEF PolicyInv, PolicyTypeOK
  <2>5. UNCHANGED <<workflow, answer>>
    BY <1>3 DEF CreateVersion
  <2> QED
    BY <2>3, <2>4, <2>5 DEF KeepsTheRecord
<1>4. ASSUME NEW e \in Editor, CreateApprovalWorkflow(e)
      PROVE  KeepsTheRecord
  <2> DEFINE of == request[e].saw.current
  <2>1. /\ Opened(e, Submissions) /\ answer' = answer
        /\ request[e].op \in {"authoring", "retirement"}
        /\ of \in Version
    BY <1>4, JobShape DEF PolicyInv, CreateApprovalWorkflow, Opened, Submissions, Policy
  <2>2. Submittable(request[e].op, of)
    BY <2>1 DEF PolicyInv, Prepared
  <2>3. PICK w \in Workflow :
          /\ {x \in Workflow : workflow[x].status # "absent"} = 1..(w - 1)
          /\ workflow' = [workflow EXCEPT ![w] =
               [status |-> "in_progress", kind |-> request[e].op, of |-> of,
                step |-> 1, total |-> request[e].total, decided |-> {}]]
    BY <1>4 DEF CreateApprovalWorkflow
  <2>4. workflow[w].status = "absent"
    <3>1. w \in Int /\ w \notin 1..(w - 1)
      BY <2>3, PolicyAssumption DEF PolicyAssumption, Workflow
    <3> QED
      BY <2>3, <3>1
  <2>5. \A x \in Workflow : workflow[x].status \in {"approved", "rejected"} =>
                              workflow'[x] = workflow[x]
    BY <2>3, <2>4 DEF PolicyInv, PolicyTypeOK
  <2>6. \/ version' = version
        \/ version[of].status = "draft" /\ version' = [version EXCEPT ![of].status = "under_review"]
    BY <1>4, <2>1, <2>2 DEF CreateApprovalWorkflow, Submittable
  <2>7. ASSUME NEW v \in Version
        PROVE  /\ version[v].status = "published" => version'[v].status \in {"published", "archived"}
               /\ version[v].status = "archived" => version'[v].status = "archived"
               /\ version'[v].number = version[v].number
    <3>1. /\ version \in [Version -> [number : Nat, status : {"draft", "under_review", "approved",
                                                          "published", "archived"}]]
      BY DEF PolicyInv, PolicyTypeOK
    <3> QED
      BY <2>1, <2>6, <3>1
  <2> QED
    BY <2>1, <2>5, <2>7 DEF KeepsTheRecord
<1>5. ASSUME NEW e \in Editor, DecideApproval(e)
      PROVE  KeepsTheRecord
  <2> DEFINE w == request[e].of
             a == Decided(workflow[w], request[e].op)
             of == workflow[w].of
  <2>1. /\ Opened(e, Decisions) /\ answer' = answer
        /\ w \in Workflow /\ workflow[w].status = "in_progress"
        /\ request[e].op \in Decisions
        /\ workflow' = [workflow EXCEPT ![w] = a]
    BY <1>5, JobShape DEF PolicyInv, DecideApproval, Opened, Decisions, Prepared, Active
  <2>2. /\ workflow[w] \in Approval /\ of \in Version /\ w \in Active
        /\ workflow[w].kind \in {"authoring", "retirement"}
    BY <2>1, PolicyShape DEF PolicyInv, Active
  <2>3. 1 <= workflow[w].step /\ workflow[w].step <= workflow[w].total
        /\ workflow[w].decided = 1..(workflow[w].step - 1)
    BY <2>2 DEF PolicyInv, UnderWay
  <2>4. /\ a.of = of /\ a.kind = workflow[w].kind
        /\ a.status \in {"in_progress", "approved", "rejected"}
    BY <2>1, <2>2, <2>3, DecidedShape
  <2>5. /\ a.kind = "authoring" => version[of].status = "under_review"
        /\ a.kind = "retirement" => version[of].status = "published"
    BY <2>2, <2>4 DEF PolicyInv, UnderWay, StatusesAgree
  <2>6. \A x \in Workflow : workflow[x].status \in {"approved", "rejected"} =>
                              workflow'[x] = workflow[x]
    BY <2>1 DEF PolicyInv, PolicyTypeOK
  <2>7. \/ version' = version
        \/ a.kind = "authoring" /\ \E t \in {"approved", "draft"} :
             version' = [version EXCEPT ![of].status = t]
        \/ a.kind = "retirement" /\ version' = [version EXCEPT ![of].status = "archived"]
    BY <1>5, <2>4 DEF DecideApproval
  <2> HIDE DEF a
  <2>8. ASSUME NEW v \in Version
        PROVE  /\ version[v].status = "published" => version'[v].status \in {"published", "archived"}
               /\ version[v].status = "archived" => version'[v].status = "archived"
               /\ version'[v].number = version[v].number
    <3>1. /\ version \in [Version -> [number : Nat, status : {"draft", "under_review", "approved",
                                                          "published", "archived"}]]
      BY DEF PolicyInv, PolicyTypeOK
    <3> QED
      BY <2>2, <2>5, <2>7, <3>1
  <2> QED
    BY <2>1, <2>6, <2>8 DEF KeepsTheRecord
<1>6. ASSUME NEW e \in Editor, AcknowledgePolicy(e)
      PROVE  KeepsTheRecord
  <2> DEFINE of == request[e].of
  <2>1. /\ of \in Version /\ of \in Answered /\ UNCHANGED <<version, workflow>>
        /\ answer'[of] # "none"
        /\ \A v \in Version \ {of} : answer'[v] = answer[v]
    BY <1>6, JobShape DEF PolicyInv, PolicyTypeOK, AcknowledgePolicy, Answered
  <2>2. version[of].status \in {"published", "archived"}
    BY <2>1 DEF PolicyInv, RowsFit
  <2> QED
    BY <2>1, <2>2 DEF KeepsTheRecord
<1> QED
  BY <1>1, <1>2, <1>3, <1>4, <1>5, <1>6
  DEF PolicyNext, Read, Update, AssignOwner, Delete, OpenVersion, OpenWorkflow, OpenDecision,
      OpenAnswer, EditorFails, docs

LEMMA OnlyDraftsAreEdited ==
  ASSUME PolicyInv, PolicyNext
  PROVE  EditsOfDraftsOrStale
<1> USE DEF EditsOfDraftsOrStale
<1>1. CASE Publish
  BY <1>1, PolicyShape DEF PolicyInv, Publish, Policy
<1>2. CASE UNCHANGED policy
  BY <1>2
<1>3. ASSUME NEW e \in Editor, Update(e) \/ AssignOwner(e) \/ Delete(e)
      PROVE  EditsOfDraftsOrStale
  <2>1. request'[e] = Free /\ request[e].stage = "read"
    BY <1>3, EditorLeaves DEF Update, AssignOwner, Delete, Reads
  <2> SUFFICES ASSUME request[e].saw = policy PROVE EditsOfDraftsOrStale
    BY <2>1
  <2>2. CASE Update(e)
    BY <2>2 DEF PolicyInv, Prepared, Update
  <2>3. CASE AssignOwner(e)
    BY <2>3, PolicyShape DEF PolicyInv, AssignOwner, Policy
  <2>4. CASE Delete(e)
    BY <2>4, PolicyShape DEF PolicyInv, Prepared, Delete, Policy
  <2> QED
    BY <1>3, <2>2, <2>3, <2>4
<1>4. ASSUME NEW e \in Editor, CreateVersion(e)
      PROVE  EditsOfDraftsOrStale
  <2>1. policy'.status = "draft"
    BY <1>4, PolicyShape DEF PolicyInv, CreateVersion, Policy
  <2> QED
    BY <2>1
<1>5. ASSUME NEW e \in Editor, CreateApprovalWorkflow(e) \/ DecideApproval(e)
      PROVE  EditsOfDraftsOrStale
  BY <1>5, PolicyShape DEF PolicyInv, CreateApprovalWorkflow, DecideApproval, Policy
<1> QED
  BY <1>1, <1>2, <1>3, <1>4, <1>5
  DEF PolicyNext, Read, OpenVersion, OpenWorkflow, OpenDecision, OpenAnswer, AcknowledgePolicy, EditorFails,
      docs

\* A policy under review, approved or published is edited or deleted by a
\* request with an old reading of it (Update, AssignOwner, Delete) and by no
\* other.  No step rewrites a released version or a decided workflow or removes
\* a user's answer, which may still change from attested to declined and back.
THEOREM OnlyStaleEditsDo == PolicySpec => OnlyStaleEditsRewrite
<1>1. PolicyInv /\ [PolicyNext]_policyVars => [EditsOfDraftsOrStale /\ KeepsTheRecord]_policyVars
  BY OnlyDraftsAreEdited, RecordIsKept
<1> QED
  BY <1>1, PolicyInvariant, PTL DEF PolicySpec, OnlyStaleEditsRewrite
=============================================================================
