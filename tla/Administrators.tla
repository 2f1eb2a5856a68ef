--------------------------- MODULE Administrators ---------------------------
(***************************************************************************)
(* Who administers a tenant (internal/repository/user_admin_repo.go,       *)
(* scim_user_repo.go, access_admin_repo.go, access_governance_repo.go,     *)
(* access_governance_sod_repo.go and sql/migrations 000058): accounts,     *)
(* roles and their assignments, rules that forbid two roles together, the  *)
(* exceptions from them, and an access review.                             *)
(*                                                                         *)
(* Every operation is one transaction under READ COMMITTED: it locks and   *)
(* checks (Serve) and commits or rolls back.  All but two lock the row of  *)
(* the organization first.  Reactivating an account locks its own row;     *)
(* creating one reads its role without a lock, and takes the lock of the   *)
(* organization when the role is assigned.                                 *)
(***************************************************************************)
EXTENDS Integers, FiniteSets

CONSTANTS User,
          Founder,    \* the account that a tenant starts with
          Super,      \* accounts with is_super_admin; nothing changes that flag
          Role,
          Custom,     \* the roles of the tenant itself; the others are immutable
          Viewer,     \* the role that SCIM assigns
          Admin,      \* the role that a founder has
          Pair,       \* pairs of roles that a rule can be about
          Desks,      \* bound on the requests served at the same time
          Horizon,    \* bound on the clock
          Window,     \* the windows that are asked for, half-open
          MaxChanges  \* bound on the transactions begun

ASSUME AdministratorsAssumption ==
  /\ Founder \in User /\ Super \subseteq User
  /\ Custom \subseteq Role /\ {Viewer, Admin} \subseteq Role \ Custom
  /\ \A p \in Pair : \E r, s \in Role : r # s /\ p = {r, s}
  /\ Horizon \in Nat \ {0} /\ Desks \in Nat /\ MaxChanges \in Nat
  /\ Window \subseteq [from : 0..Horizon, until : 0..Horizon]
  /\ \A w \in Window : w.from < w.until

Moment == 0..Horizon
Never == Horizon + 1

VARIABLES
  clock,
  account,   \* users.status, and whether the row is deleted
  role,      \* roles; configures: it grants settings:configure
  grant,     \* user_roles
  rule,      \* access_sod_rules; number and since: when it was created
  exempt,    \* access_sod_exceptions: the last one of a rule and a subject
  review,    \* access_review_campaigns, at most one
  finding,   \* access_review_items with their decisions
  noted,     \* access_sod_violations
  serving,   \* the requests whose transactions are open; no two are the same
  changes,   \* how many transactions have committed
  excused,   \* history: whose approved exception was revoked
  raced      \* history: whose role was deleted while the account was created

adminVars == <<clock, account, role, grant, rule, exempt, review, finding, noted, serving,
               changes, excused, raced>>

\* A permanent assignment has always been valid.
Permanent == [from |-> 0, until |-> Never]

Grant == [id : Nat, version : Nat, from : Moment, until : Moment \cup {Never}]
NoGrant == [id |-> 0, version |-> 0, from |-> 0, until |-> 0]

Given(id, n, w) == [id |-> id, version |-> n, from |-> w.from, until |-> w.until]

Exemption == [status : {"none", "pending", "approved", "rejected", "revoked"},
              from : Moment, until : Moment]
Exempted(s, w) == [status |-> s, from |-> w.from, until |-> w.until]
NoExemption == [status |-> "none", from |-> 0, until |-> 0]

\* What a reviewer is shown of an assignment, and the decision on it.
Finding == [decision : {"none", "open", "retain", "revoke"},
            id : Nat, version : Nat, edition : Nat]
NoFinding == [decision |-> "none", id |-> 0, version |-> 0, edition |-> 0]

Change ==
  [op : {"suspend", "reactivate", "deprovision", "scim_off", "scim_on"}, user : User]
    \cup [op : {"create", "unassign", "retain", "revoke"}, user : User, role : Role]
    \cup [op : {"assign", "window"}, user : User, role : Role, term : Window \cup {Permanent}]
    \cup [op : {"edit"}, role : Custom, configures : BOOLEAN]
    \cup [op : {"delete"}, role : Custom]
    \cup [op : {"forbid", "permit"}, pair : Pair]
    \cup [op : {"request"}, user : User, pair : Pair, term : Window]
    \cup [op : {"approve", "reject", "withdraw"}, user : User, pair : Pair]
    \cup [op : {"review"}, subjects : SUBSET User, reviewer : User]
    \cup [op : {"complete", "cancel"}]

AdminTypeOK ==
  /\ clock \in Moment
  /\ account \in [User -> {"absent", "active", "suspended", "deprovisioned", "deleted"}]
  /\ role \in [Role -> [live : BOOLEAN, configures : BOOLEAN, version : Nat]]
  /\ grant \in [User -> [Role -> Grant]]
  /\ rule \in [Pair -> [status : {"none", "enabled", "disabled"}, number : Nat, since : Moment]]
  /\ exempt \in [User -> [Pair -> Exemption]]
  /\ review \in [status : {"none", "open", "completed", "cancelled"}, reviewer : User]
  /\ finding \in [User -> [Role -> Finding]]
  /\ noted \subseteq User \X Pair
  /\ serving \subseteq Change
  /\ changes \in Nat
  /\ excused \subseteq User \X Pair /\ raced \subseteq User \X Role

NoRules ==
  /\ rule = [p \in Pair |-> [status |-> "none", number |-> 0, since |-> 0]]
  /\ exempt = [u \in User |-> [p \in Pair |-> NoExemption]]

NoReview ==
  /\ review = [status |-> "none", reviewer |-> Founder]
  /\ finding = [u \in User |-> [r \in Role |-> NoFinding]]

\* The founder administers the tenant; another account has the role it was created
\* with.  A review of these may be open, or rules be in force, with exceptions
\* that are approved.
AdminInit ==
  /\ clock = 0
  /\ account \in [User -> {"absent", "active"}] /\ account[Founder] = "active"
  /\ role = [r \in Role |-> [live |-> TRUE, configures |-> r \in Custom \cup {Admin},
                            version |-> 1]]
  /\ \E first \in [User -> Role] :
       /\ first[Founder] = Admin
       /\ grant = [u \in User |-> [r \in Role |->
                     IF account[u] = "active" /\ r = first[u]
                       THEN Given(1, 1, Permanent) ELSE NoGrant]]
  /\ \/ NoRules /\ NoReview
     \/ /\ NoRules
        /\ review = [status |-> "open", reviewer |-> Founder]
        /\ finding = [u \in User |-> [r \in Role |->
                        IF u # Founder /\ grant[u][r] # NoGrant
                          THEN [decision |-> "open", id |-> 1, version |-> 1, edition |-> 1]
                          ELSE NoFinding]]
        /\ \E u \in User \ {Founder} : account[u] = "active"
     \/ /\ rule = [p \in Pair |-> [status |-> "enabled", number |-> 0, since |-> 0]]
        /\ \A p \in Pair : Admin \notin p
        /\ \E w \in Window : exempt = [u \in User |-> [p \in Pair |-> Exempted("approved", w)]]
        /\ NoReview
  /\ noted = {} /\ excused = {} /\ raced = {}
  /\ serving = {} /\ changes = 0

-----------------------------------------------------------------------------
(* Authority. *)

Held(u, r) == grant[u][r].id # 0
Contains(w, t) == w.from <= t /\ t < w.until
Enabled(p) == rule[p].status = "enabled"
Covered(u, p) == exempt[u][p].status = "approved" /\ Contains(exempt[u][p], clock)

\* Both roles of the rule are in force.
Conflicted(u, p) == \A r \in p : Contains(grant[u][r], clock)

\* effective_user_roles: a conflict that nothing covers takes both roles away.
Effective(u, r) ==
  /\ Contains(grant[u][r], clock) /\ account[u] = "active" /\ role[r].live
  /\ \A p \in Pair : Enabled(p) /\ r \in p /\ Conflicted(u, p) => Covered(u, p)

\* An authority that neither time nor a rule can take away.
Unaffected(u, r) ==
  /\ grant[u][r].until = Never
  /\ \A p \in Pair : Enabled(p) => r \notin p

\* One of these accounts administers the tenant for good, without these grants.
Backup(U, lost) ==
  \E u \in U :
    /\ account[u] = "active"
    /\ \/ u \in Super
       \/ \E r \in Role : /\ <<u, r>> \notin lost /\ role[r].configures
                          /\ Effective(u, r) /\ Unaffected(u, r)

HasAdministrativeGrant(u) ==
  /\ account[u] = "active"
  /\ u \in Super \/ \E r \in Role : role[r].configures /\ Effective(u, r)

\* directoryLastAdministrator
LastAdministrator(u) == HasAdministrativeGrant(u) /\ ~Backup(User \ {u}, {})

\* removingAdministrativeGrantWouldLockOut
WouldLockOut(U, r) ==
  (\E u \in U : Effective(u, r)) /\ ~Backup(User, U \X {r})

-----------------------------------------------------------------------------
(* Locks and checks. *)

\* mutant: a suspension does not lock the organization
LocksOrganization_NotSuspend(q) == q.op \notin {"reactivate", "create", "suspend"}
LocksOrganization(q) == q.op \notin {"reactivate", "create"}

AccountOp(q) == q.op \in {"suspend", "reactivate", "deprovision", "scim_off", "scim_on"}

Compatible(q, s) ==
  /\ ~(LocksOrganization(q) /\ LocksOrganization(s))
  /\ AccountOp(q) /\ AccountOp(s) => q.user # s.user
  /\ q.op = "create" /\ s.op = "create" => q.user # s.user

Overlap(v, w) == v.from < w.until /\ w.from < v.until
Within(v, w, e) ==   \* e contains the overlap of v and w
  /\ e.from <= v.from \/ e.from <= w.from
  /\ v.until <= e.until \/ w.until <= e.until

\* mutant: the trigger looks at the roles in force, not at the windows
RespectsRules_Now(u, r, w) ==
  \A p \in Pair : \A s \in p \ {r} :
    Enabled(p) /\ r \in p /\ Contains(w, clock) /\ Contains(grant[u][s], clock) => Covered(u, p)

\* enforce_governed_role_assignment: no overlap that an exception does not cover.
RespectsRules(u, r, w) ==
  \A p \in Pair : \A s \in p \ {r} :
    Enabled(p) /\ r \in p /\ Held(u, s) /\ Overlap(w, grant[u][s])
      => exempt[u][p].status = "approved" /\ Within(w, grant[u][s], exempt[u][p])

\* ensureIndependentPermanentAdmin and the trigger: what will expire is not the last.
\* A window begins now or later; the five minutes of grace are left out.
Expires(u, r, w) ==
  /\ clock <= w.from
  /\ \E a \in User \ {u} : account[a] = "active"
  /\ role[r].configures => Backup(User \ {u}, {})

\* ensureIndependentPermanentAdmin for the two roles of a rule.
Spared(p) == (\E r \in p : role[r].configures) => Backup(User, User \X p)

\* mutant: the snapshot names user, role and versions, not the assignment
SameSnapshot_AnyIncarnation(u, r, f) == f.version = grant[u][r].version /\ f.edition = role[r].version

\* governanceSnapshot, compared by its hash.
SameSnapshot(u, r, f) ==
  f.id = grant[u][r].id /\ f.version = grant[u][r].version /\ f.edition = role[r].version

\* mutant: only assignments in force keep a role from being deleted
InUse_InForce(r) == \E u \in User : Contains(grant[u][r], clock)
InUse(r) == \E u \in User : Held(u, r)

AccountAllowed(q) ==
  CASE q.op = "suspend" -> account[q.user] = "active" /\ ~LastAdministrator(q.user)
    [] q.op = "reactivate" -> account[q.user] = "suspended"
    [] q.op = "deprovision" -> /\ account[q.user] \in {"active", "suspended", "deprovisioned"}
                               /\ ~LastAdministrator(q.user)
    [] q.op = "scim_off" -> /\ account[q.user] \in {"active", "suspended"}
                            /\ ~LastAdministrator(q.user)
    [] q.op = "scim_on" -> /\ account[q.user] \in {"suspended", "deprovisioned"}
                           /\ ~Held(q.user, Viewer) /\ RespectsRules(q.user, Viewer, Permanent)
    [] q.op = "create" -> account[q.user] = "absent" /\ role[q.role].live

RoleAllowed(q) ==
  CASE q.op = "assign" -> /\ account[q.user] = "active" /\ role[q.role].live
                          /\ ~Held(q.user, q.role) /\ RespectsRules(q.user, q.role, q.term)
                          /\ q.term = Permanent \/ Expires(q.user, q.role, q.term)
    [] q.op = "window" -> /\ q.term # Permanent /\ Held(q.user, q.role)
                          /\ RespectsRules(q.user, q.role, q.term)
                          /\ Expires(q.user, q.role, q.term)
    [] q.op = "unassign" -> /\ role[q.role].live /\ Held(q.user, q.role)
                            /\ role[q.role].configures => ~WouldLockOut({q.user}, q.role)
    [] q.op = "edit" -> /\ role[q.role].live
                        /\ role[q.role].configures /\ ~q.configures => ~WouldLockOut(User, q.role)
    [] q.op = "delete" -> role[q.role].live /\ ~InUse(q.role)

RuleAllowed(q) ==
  CASE q.op = "forbid" -> /\ rule[q.pair].status = "none" /\ Spared(q.pair)
                          /\ \A r \in q.pair : role[r].live
    [] q.op = "permit" -> Enabled(q.pair)
    [] q.op = "request" -> /\ account[q.user] = "active" /\ Enabled(q.pair) /\ clock <= q.term.from
                           /\ exempt[q.user][q.pair].status \notin {"pending", "approved"}
    [] q.op = "approve" -> /\ exempt[q.user][q.pair].status = "pending" /\ Enabled(q.pair)
                           /\ clock < exempt[q.user][q.pair].until /\ Spared(q.pair)
    [] q.op = "reject" -> exempt[q.user][q.pair].status = "pending"
    [] q.op = "withdraw" -> exempt[q.user][q.pair].status = "approved"

InForce(u) == {r \in Role : Contains(grant[u][r], clock)}

ReviewAllowed(q) ==
  CASE q.op = "review" ->
         /\ review.status = "none" /\ account[q.reviewer] = "active"
         /\ q.reviewer \notin q.subjects
         /\ \A u \in q.subjects : account[u] = "active" /\ \A r \in InForce(u) : role[r].live
         /\ \E u \in q.subjects : InForce(u) # {}
         /\ \E a \in User \ {q.reviewer} : account[a] = "active"
    [] q.op \in {"retain", "revoke"} ->
         /\ review.status = "open" /\ account[review.reviewer] = "active"
         /\ finding[q.user][q.role].decision = "open"
         /\ account[q.user] = "active" /\ role[q.role].live
         /\ Contains(grant[q.user][q.role], clock)
         /\ SameSnapshot(q.user, q.role, finding[q.user][q.role])
         /\ q.op = "revoke" /\ role[q.role].configures => ~WouldLockOut({q.user}, q.role)
    [] q.op = "complete" -> /\ review.status = "open"
                            /\ \A u \in User, r \in Role : finding[u][r].decision # "open"
    [] q.op = "cancel" -> review.status = "open"

\* Somebody with an active account asks; who decides on an exception is neither
\* its subject nor whoever requested it.
Acts(q) == \E a \in User : /\ account[a] = "active"
                           /\ q.op \in {"approve", "reject", "withdraw"} => a # q.user

Permitted(q) ==
  /\ Acts(q)
  /\ CASE AccountOp(q) \/ q.op = "create" -> AccountAllowed(q)
       [] q.op \in {"assign", "window", "unassign", "edit", "delete"} -> RoleAllowed(q)
       [] q.op \in {"forbid", "permit", "request", "approve", "reject", "withdraw"} -> RuleAllowed(q)
       [] OTHER -> ReviewAllowed(q)

-----------------------------------------------------------------------------
(* What a transaction changes. *)

Status(q) == CASE q.op \in {"reactivate", "scim_on", "create"} -> "active"
               [] q.op = "suspend" -> "suspended"
               [] q.op = "scim_off" -> "deprovisioned"
               [] q.op = "deprovision" -> "deleted"

NewGrant(w) == Given(changes + 2, 1, w)

Grants(q) ==
  CASE q.op = "assign" -> [grant EXCEPT ![q.user][q.role] = NewGrant(q.term)]
    [] q.op = "create" -> [grant EXCEPT ![q.user][q.role] = NewGrant(Permanent)]
    [] q.op = "scim_on" -> [grant EXCEPT ![q.user][Viewer] = NewGrant(Permanent)]
    [] q.op = "window" ->
         [grant EXCEPT ![q.user][q.role] = Given(@.id, @.version + 1, q.term)]
    [] q.op \in {"unassign", "revoke"} -> [grant EXCEPT ![q.user][q.role] = NoGrant]
    [] q.op \in {"deprovision", "scim_off"} ->
         [grant EXCEPT ![q.user] = [r \in Role |-> NoGrant]]
    [] OTHER -> grant

Roles(q) ==
  CASE q.op = "edit" -> [role EXCEPT ![q.role].configures = q.configures, ![q.role].version = @ + 1]
    [] q.op = "delete" -> [role EXCEPT ![q.role].live = FALSE, ![q.role].version = @ + 1]
    [] OTHER -> role

Rules(q) ==
  CASE q.op = "forbid" -> [rule EXCEPT ![q.pair] = [status |-> "enabled", number |-> changes + 2,
                                                    since |-> clock]]
    [] q.op = "permit" -> [rule EXCEPT ![q.pair].status = "disabled"]
    [] OTHER -> rule

Exempts(q) ==
  CASE q.op = "request" -> [exempt EXCEPT ![q.user][q.pair] = Exempted("pending", q.term)]
    [] q.op = "approve" -> [exempt EXCEPT ![q.user][q.pair].status = "approved"]
    [] q.op = "reject" -> [exempt EXCEPT ![q.user][q.pair].status = "rejected"]
    [] q.op = "withdraw" -> [exempt EXCEPT ![q.user][q.pair].status = "revoked"]
    [] OTHER -> exempt

\* CreateSoDRule records the conflicts that are in force.
Violations(q) ==
  IF q.op = "forbid" THEN noted \cup {<<u, q.pair>> : u \in {v \in User : Conflicted(v, q.pair)}}
  ELSE noted

Seen(u, r) == [decision |-> "open", id |-> grant[u][r].id, version |-> grant[u][r].version,
               edition |-> role[r].version]

Findings(q) ==
  CASE q.op = "review" ->
         [u \in User |-> [r \in Role |-> IF u \in q.subjects /\ r \in InForce(u)
                                           THEN Seen(u, r) ELSE NoFinding]]
    [] q.op \in {"retain", "revoke"} -> [finding EXCEPT ![q.user][q.role].decision = q.op]
    [] OTHER -> finding

Review(q) ==
  CASE q.op = "review" -> [status |-> "open", reviewer |-> q.reviewer]
    [] q.op = "complete" -> [review EXCEPT !.status = "completed"]
    [] q.op = "cancel" -> [review EXCEPT !.status = "cancelled"]
    [] OTHER -> review

\* Accounts that are being created with the role that is deleted.
Overtaken(q) ==
  IF q.op = "delete"
    THEN {<<u, q.role>> : u \in {v \in User : [op |-> "create", user |-> v, role |-> q.role]
                                            \in serving}}
    ELSE {}

-----------------------------------------------------------------------------
(* The steps of a transaction. *)

Pass ==
  /\ clock < Horizon /\ clock' = clock + 1
  /\ UNCHANGED <<account, role, grant, rule, exempt, review, finding, noted, serving, changes,
                 excused, raced>>

Serve(q) ==
  /\ Cardinality(serving) < Desks /\ changes < MaxChanges
  /\ \A s \in serving : Compatible(q, s)
  /\ Permitted(q)
  /\ serving' = serving \cup {q}
  /\ UNCHANGED <<clock, account, role, grant, rule, exempt, review, finding, noted, changes,
                 excused, raced>>

\* The insert of an account's first role waits for the organization's lock.
Finish(q) ==
  /\ q.op = "create" => \A s \in serving : ~LocksOrganization(s)
  /\ account' = IF AccountOp(q) \/ q.op = "create"
                  THEN [account EXCEPT ![q.user] = Status(q)] ELSE account
  /\ role' = Roles(q) /\ grant' = Grants(q)
  /\ rule' = Rules(q) /\ exempt' = Exempts(q) /\ noted' = Violations(q)
  /\ review' = Review(q) /\ finding' = Findings(q)
  /\ excused' = IF q.op = "withdraw" THEN excused \cup {<<q.user, q.pair>>} ELSE excused
  /\ raced' = raced \cup Overtaken(q)
  /\ serving' = serving \ {q}
  /\ changes' = changes + 1
  /\ UNCHANGED clock

\* An error of the database or the outbox, or a crash.
ChangeFails(q) ==
  /\ serving' = serving \ {q}
  /\ UNCHANGED <<clock, account, role, grant, rule, exempt, review, finding, noted, changes,
                 excused, raced>>

AdminNext ==
  \/ Pass
  \/ \E q \in Change : Serve(q)
  \/ \E q \in serving : Finish(q) \/ ChangeFails(q)

AdminSpec == AdminInit /\ [][AdminNext]_adminVars

-----------------------------------------------------------------------------
(* Properties. *)

\* There is always an active account that administers the tenant by an authority
\* that neither time nor a rule can take away: no order of suspensions, removals,
\* edits, timed assignments and rules locks the tenant out.
KeepsAnAdministrator == Backup(User, {})

\* A conflict under an enabled rule that no exception covers was recorded when the
\* rule was created, or an exception of it was revoked, or it began later, with
\* assignments that the rule found with windows that had not come.
ConflictsAreOnRecord ==
  \A u \in User, p \in Pair :
    Enabled(p) /\ Conflicted(u, p) /\ ~Covered(u, p) =>
      \/ <<u, p>> \in noted \cup excused
      \/ /\ \A r \in p : grant[u][r].id < rule[p].number
         /\ \E r \in p : grant[u][r].from > rule[p].since

\* A review revokes the assignment the reviewer was shown: the same incarnation in
\* the same version of a role with the same permissions.
RevokedAsReviewed ==
  [][\A u \in User, r \in Role :
       finding'[u][r].decision = "revoke" /\ finding[u][r].decision = "open" =>
         /\ finding[u][r].id = grant[u][r].id /\ finding[u][r].version = grant[u][r].version
         /\ finding[u][r].edition = role[r].version]_adminVars

\* An assigned role exists, unless it was deleted while the account was created.
AssignedRolesLive ==
  \A u \in User, r \in Role : Held(u, r) /\ ~role[r].live => <<u, r>> \in raced
=============================================================================
