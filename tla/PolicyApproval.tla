--------------------------- MODULE PolicyApproval ---------------------------
(***************************************************************************)
(* The life of one policy document (internal/service/policy_service.go,    *)
(* internal/repository/policy_repo.go, sql/migrations 000013 and 000014):  *)
(* its row, its versions, the workflows that approve or retire it, its     *)
(* publication and its attestations.                                       *)
(*                                                                         *)
(* A request is not one transaction: the service reads the policy and      *)
(* checks its status, then the repository opens a transaction of its own.  *)
(* Where the repository checks again, the first check adds nothing and is  *)
(* left out; where it does not, the request has a step of its own for what *)
(* it has read (Read).  A transaction is modelled in two steps, because    *)
(* the snapshot it decides on (Open) may be old when its updates of        *)
(* policies, which name the row by its id only, are committed.             *)
(***************************************************************************)
EXTENDS Integers, FiniteSets

CONSTANTS Editor,        \* requests served at the same time
          Title,         \* what a draft may be edited to
          FirstTitle,    \* the one it is created with
          MaxVersions,   \* bound on the rows of policy_versions
          MaxWorkflows,  \* bound on the rows of policy_approval_workflows
          MaxSteps       \* bound on the approvers of a workflow

ASSUME PolicyAssumption ==
  FirstTitle \in Title /\ MaxVersions \in Nat \ {0} /\ MaxWorkflows \in Nat /\ MaxSteps \in Nat

\* Rows in the order of their insertion.
Version == 1..MaxVersions
Workflow == 1..MaxWorkflows

VARIABLES
  policy,    \* its row in policies
  version,   \* policy_versions; number 0 is a row that does not exist yet
  workflow,  \* policy_approval_workflows with their steps
  answer,    \* a user's row of policy_attestations for each version
  request,   \* what each editor is at
  overtook   \* history: a transaction was committed on a policy that had left
             \* the state it was checked in

docs == <<policy, version, workflow, answer>>
policyVars == <<docs, request, overtook>>

Policy == [status : {"draft", "under_review", "approved", "published", "retired"},
           title : Title, current : Version, deleted : BOOLEAN]

\* decided are the steps that were approved.
Approval == [status : {"absent", "in_progress", "approved", "rejected"},
             kind : {"authoring", "retirement"}, of : Version,
             step : Nat, total : Nat, decided : SUBSET Nat]

\* saw is the policy as the service or the transaction has read it.
Job == [stage : {"idle"}]
         \cup [stage : {"read"}, op : {"revise", "edit", "assign", "delete"}, saw : Policy]
         \cup [stage : {"open"}, op : {"revise"}, number : Nat]
         \cup [stage : {"open"}, op : {"authoring", "retirement"}, saw : Policy, total : Nat]
         \cup [stage : {"open"}, op : {"approve", "reject"}, of : Workflow]
         \cup [stage : {"open"}, op : {"attest", "decline"}, of : Version]

Free == [stage |-> "idle"]

PolicyTypeOK ==
  /\ policy \in Policy
  /\ version \in [Version -> [number : Nat, status : {"draft", "under_review", "approved",
                                                      "published", "archived"}]]
  /\ workflow \in [Workflow -> Approval]
  /\ \A w \in Workflow : /\ workflow[w].decided \subseteq 1..workflow[w].total
                         /\ workflow[w].step <= workflow[w].total + 1
  /\ answer \in [Version -> {"none", "attested", "declined"}]
  /\ request \in [Editor -> Job]
  /\ overtook \in BOOLEAN

Written == {v \in Version : version[v].number > 0}
Active == {w \in Workflow : workflow[w].status = "in_progress"}

\* Create: the policy with its first version.
PolicyInit ==
  /\ policy = [status |-> "draft", title |-> FirstTitle, current |-> 1, deleted |-> FALSE]
  /\ version = [v \in Version |-> [number |-> IF v = 1 THEN 1 ELSE 0, status |-> "draft"]]
  /\ workflow = [w \in Workflow |-> [status |-> "absent", kind |-> "authoring", of |-> 1,
                                     step |-> 0, total |-> 0, decided |-> {}]]
  /\ answer = [v \in Version |-> "none"]
  /\ request = [e \in Editor |-> Free]
  /\ overtook = FALSE

-----------------------------------------------------------------------------
(* What the service reads and checks. *)

\* mutant: the service creates versions whatever the status
Revisable_Always(status) == TRUE
Revisable(status) == status \in {"draft", "approved", "published"}

\* mutant: the service lets any policy be edited
Editable_Always(status) == TRUE
Editable(status) == status = "draft"

Deletable(status) == status \in {"draft", "retired"}

Read(e, op) ==
  /\ request[e] = Free /\ ~policy.deleted
  /\ CASE op = "revise" -> Revisable(policy.status)
       [] op = "edit" -> Editable(policy.status)
       [] op = "delete" -> Deletable(policy.status)
       [] OTHER -> TRUE
  /\ request' = [request EXCEPT ![e] = [stage |-> "read", op |-> op, saw |-> policy]]
  /\ UNCHANGED <<docs, overtook>>

Reads(e, op) == request[e].stage = "read" /\ request[e].op = op

Opened(e, ops) == request[e].stage = "open" /\ request[e].op \in ops

Done(e) == request' = [request EXCEPT ![e] = Free]

\* Update writes every field back as the service has read and patched it.
Update(e) ==
  /\ Reads(e, "edit") /\ ~policy.deleted
  /\ \E t \in Title : policy' = [policy EXCEPT !.title = t]
  /\ Done(e) /\ UNCHANGED <<version, workflow, answer, overtook>>

\* AssignOwner means to change the owner only, but it is the same Update.
AssignOwner(e) ==
  /\ Reads(e, "assign") /\ ~policy.deleted
  /\ policy' = [policy EXCEPT !.title = request[e].saw.title]
  /\ Done(e) /\ UNCHANGED <<version, workflow, answer, overtook>>

Delete(e) ==
  /\ Reads(e, "delete") /\ ~policy.deleted
  /\ policy' = [policy EXCEPT !.deleted = TRUE]
  /\ Done(e) /\ UNCHANGED <<version, workflow, answer, overtook>>

-----------------------------------------------------------------------------
(* Versions. *)

\* mutant: no advisory lock, in either of the two transactions
LockIsFree_Ignored(e, ops) == TRUE

\* pg_advisory_xact_lock: one transaction of these kinds at a time.
LockIsFree(e, ops) == \A d \in Editor \ {e} : ~Opened(d, ops)

Newest == CHOOSE n \in {version[v].number : v \in Version} :
            \A v \in Version : version[v].number <= n

OpenVersion(e) ==
  /\ Reads(e, "revise") /\ ~policy.deleted
  /\ LockIsFree(e, {"revise"})
  /\ request' = [request EXCEPT ![e] = [stage |-> "open", op |-> "revise", number |-> Newest + 1]]
  /\ UNCHANGED <<docs, overtook>>

\* The insert trigger makes the version the current one.  The title is the
\* input's, or the one the service has read.
CreateVersion(e) ==
  /\ Opened(e, {"revise"})
  /\ \E v \in Version, t \in Title :
       /\ Written = 1..(v - 1)
       /\ version' = [version EXCEPT ![v] = [number |-> request[e].number, status |-> "draft"]]
       /\ policy' = [policy EXCEPT !.status = "draft", !.title = t, !.current = v]
  /\ overtook' = (overtook \/ ~Revisable(policy.status))
  /\ Done(e) /\ UNCHANGED <<workflow, answer>>

-----------------------------------------------------------------------------
(* Workflows. *)

Submissions == {"authoring", "retirement"}

\* The snapshot of the INSERT: the status, and that no workflow is active.
OpenWorkflow(e, kind, total) ==
  /\ request[e] = Free
  /\ LockIsFree(e, Submissions)
  /\ ~policy.deleted /\ Active = {}
  /\ policy.status = IF kind = "retirement" THEN "published" ELSE "draft"
  /\ request' = [request EXCEPT ![e] = [stage |-> "open", op |-> kind, saw |-> policy,
                                        total |-> total]]
  /\ UNCHANGED <<docs, overtook>>

CreateApprovalWorkflow(e) ==
  /\ Opened(e, Submissions)
  /\ LET kind == request[e].op
         of == request[e].saw.current IN
     /\ \E w \in Workflow :
          /\ {x \in Workflow : workflow[x].status # "absent"} = 1..(w - 1)
          /\ workflow' = [workflow EXCEPT ![w] =
               [status |-> "in_progress", kind |-> kind, of |-> of,
                step |-> 1, total |-> request[e].total, decided |-> {}]]
     /\ policy' = IF kind = "retirement" THEN policy
                    ELSE [policy EXCEPT !.status = "under_review"]
     /\ version' = IF kind = "retirement" THEN version
                     ELSE [version EXCEPT ![of].status = "under_review"]
     /\ overtook' = (overtook \/ (kind = "authoring" /\ <<policy.status, policy.current>> # <<"draft", of>>))
  /\ Done(e) /\ UNCHANGED answer

\* mutant: the status of the workflow is not part of the query
Undecided_Ignored(a) == a.status # "absent"
Undecided(a) == a.status = "in_progress"

\* The approver of the current step locks the workflow and the step.
OpenDecision(e, w, op) ==
  /\ request[e] = Free /\ ~policy.deleted
  /\ Undecided(workflow[w])
  /\ \A d \in Editor : Opened(d, {"approve", "reject"}) => request[d].of # w
  /\ request' = [request EXCEPT ![e] = [stage |-> "open", op |-> op, of |-> w]]
  /\ UNCHANGED <<docs, overtook>>

\* mutant: the first approval decides
LastStep_First(a) == TRUE
LastStep(a) == a.step = a.total

\* The workflow after a decision of its current step.
Decided(a, op) ==
  CASE op = "reject" -> [a EXCEPT !.status = "rejected"]
    [] op = "approve" /\ LastStep(a) ->
         [a EXCEPT !.status = "approved", !.step = a.total + 1, !.decided = @ \cup {a.step}]
    [] OTHER -> [a EXCEPT !.step = @ + 1, !.decided = @ \cup {a.step}]

\* What a decided workflow makes of the policy and of its version.
DecideApproval(e) ==
  /\ Opened(e, {"approve", "reject"})
  /\ LET w == request[e].of
         a == Decided(workflow[w], request[e].op)
         To(s, t) == /\ policy' = [policy EXCEPT !.status = s]
                     /\ version' = [version EXCEPT ![a.of].status = t] IN
     /\ workflow' = [workflow EXCEPT ![w] = a]
     /\ \/ a.status = "approved" /\ a.kind = "authoring" /\ To("approved", "approved")
        \/ a.status = "approved" /\ a.kind = "retirement" /\ To("retired", "archived")
        \/ a.status = "rejected" /\ a.kind = "authoring" /\ To("draft", "draft")
        \/ /\ a.status = "in_progress" \/ (a.status = "rejected" /\ a.kind = "retirement")
           /\ UNCHANGED <<policy, version>>
  /\ Done(e) /\ UNCHANGED <<answer, overtook>>

-----------------------------------------------------------------------------
(* Publication. *)

\* mutant: whatever is current is published
Publishable_Any(v) == TRUE
Publishable(v) == version[v].status = "approved"

Superseded == {v \in Version : version[v].status = "published"} \ {policy.current}

\* The row of the policy is locked, so this is one step.
Publish ==
  /\ ~policy.deleted /\ policy.status = "approved"
  /\ Publishable(policy.current)
  /\ version' = [v \in Version |->
       IF v = policy.current THEN [version[v] EXCEPT !.status = "published"]
       ELSE IF v \in Superseded THEN [version[v] EXCEPT !.status = "archived"]
       ELSE version[v]]
  /\ policy' = [policy EXCEPT !.status = "published"]
  /\ UNCHANGED <<workflow, answer, request, overtook>>

-----------------------------------------------------------------------------
(* Attestations. *)

Answers == {"attest", "decline"}

\* The version to answer for is read under an advisory lock of the policy and
\* the user.  Users do not meet, so one stands for all.  That the policy asks
\* for attestations at all (requires_attestation) is left open.
OpenAnswer(e, op) ==
  /\ request[e] = Free
  /\ LockIsFree(e, Answers)
  /\ ~policy.deleted /\ policy.status = "published"
  /\ request' = [request EXCEPT ![e] = [stage |-> "open", op |-> op, of |-> policy.current]]
  /\ UNCHANGED <<docs, overtook>>

\* The user's row for that version is updated, an earlier answer included, or
\* inserted, whatever has become of the policy since.
AcknowledgePolicy(e) ==
  /\ Opened(e, Answers)
  /\ answer' = [answer EXCEPT ![request[e].of] =
                  IF request[e].op = "attest" THEN "attested" ELSE "declined"]
  /\ Done(e) /\ UNCHANGED <<policy, version, workflow, overtook>>

\* An error or a crash, or a request that ends without its write.
EditorFails(e) ==
  /\ request[e] # Free
  /\ Done(e) /\ UNCHANGED <<docs, overtook>>

PolicyNext ==
  \/ Publish
  \/ \E e \in Editor :
       \/ \E op \in {"revise", "edit", "assign", "delete"} : Read(e, op)
       \/ Update(e) \/ AssignOwner(e) \/ Delete(e)
       \/ OpenVersion(e) \/ CreateVersion(e)
       \/ \E kind \in Submissions, total \in 1..MaxSteps : OpenWorkflow(e, kind, total)
       \/ CreateApprovalWorkflow(e)
       \/ \E w \in Workflow, op \in {"approve", "reject"} : OpenDecision(e, w, op)
       \/ DecideApproval(e)
       \/ \E op \in Answers : OpenAnswer(e, op)
       \/ AcknowledgePolicy(e) \/ EditorFails(e)

PolicySpec == PolicyInit /\ [][PolicyNext]_policyVars

-----------------------------------------------------------------------------
(* Properties. *)

\* The history of a policy is a line, although nothing in the schema says so:
\* versions are numbered without duplicates and the newest is the current one,
\* at most one workflow is under way and at most one version is published.
HistoryIsLinear ==
  /\ \A u, v \in Written : version[u].number = version[v].number => u = v
  /\ \A v \in Version : version[v].number <= version[policy.current].number
  /\ \A w, x \in Active : w = x
  /\ \A u, v \in Version : version[u].status = "published" /\ version[v].status = "published"
                             => u = v

\* Whatever was published, or answered for by a user (attested or declined),
\* had been approved in every step of a workflow of that very version,
\* whichever requests overlapped.
ReleasedWasApproved ==
  \A v \in Version :
    \/ version[v].status \in {"draft", "under_review"} /\ answer[v] = "none"
    \/ \E w \in Workflow :
         /\ workflow[w].status = "approved" /\ workflow[w].kind = "authoring"
         /\ workflow[w].of = v
         /\ workflow[w].decided = 1..workflow[w].total

\* Three tables tell one story: what is published is the policy's current
\* version, a retired policy has none published, a version is under review
\* while a workflow is about it.  What is under review or approved is the
\* current version, unless a transaction overtook the check it was based on.
StatusesAgree ==
  /\ policy.status = "published" => version[policy.current].status = "published"
  /\ policy.status = "retired" => \A v \in Version : version[v].status # "published"
  /\ \A v \in Version : version[v].status = "under_review" <=>
       \E w \in Active : workflow[w].of = v /\ workflow[w].kind = "authoring"
  /\ policy.status \in {"under_review", "approved"} /\ ~overtook =>
       version[policy.current].status = policy.status

\* A policy is edited in place only as a draft, and deleted only as a draft or
\* retired, or else by a request that had read it before it last changed.
EditsOfDraftsOrStale ==
  \/ policy'.status # policy.status
  \/ policy'.title = policy.title /\ policy'.deleted = policy.deleted
  \/ policy.status = "draft"
  \/ policy.status = "retired" /\ policy'.deleted
  \/ \E e \in Editor : request'[e] = Free /\ request[e].stage = "read"
                         /\ request[e].saw # policy

\* A version that was released only ever becomes archived, a decided workflow
\* is never decided again, an answer is changed but not removed, and only by a
\* request that had found that version published.
KeepsTheRecord ==
  /\ \A v \in Version :
       /\ version[v].status = "published" => version'[v].status \in {"published", "archived"}
       /\ version[v].status = "archived" => version'[v].status = "archived"
       /\ version[v].number > 0 => version'[v].number = version[v].number
       /\ answer[v] # "none" => answer'[v] # "none"
       /\ answer'[v] # answer[v] => version[v].status \in {"published", "archived"}
  /\ \A w \in Workflow : workflow[w].status \in {"approved", "rejected"} =>
                           workflow'[w] = workflow[w]

\* What was published or decided is never rewritten, whichever requests
\* overlapped; a policy that is no draft is edited or deleted by requests with
\* an old reading of it, which can happen (PublishedIsNotEdited), and by no
\* others.
OnlyStaleEditsRewrite == [][EditsOfDraftsOrStale /\ KeepsTheRecord]_policyVars

\* "policy content and metadata are editable only in draft", says Update
\* (policy_service.go), and AssignOwner means to leave published content as it
\* is: while a policy stays published its fields stay the same.
PublishedIsNotEdited ==
  [][policy.status = "published" /\ policy'.status = "published"
       => policy'.title = policy.title]_policyVars
=============================================================================
