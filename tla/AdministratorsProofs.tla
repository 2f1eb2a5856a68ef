------------------------ MODULE AdministratorsProofs ------------------------
(***************************************************************************)
(* TLAPS proofs about Administrators, for any accounts, roles, rules and   *)
(* windows and any bounds.                                                 *)
(*                                                                         *)
(* A transaction is checked when it is served and changes the tenant when  *)
(* it finishes.  At most one of those that are open has the lock of the    *)
(* organization (OneLock).  What passes meanwhile is time, reactivations   *)
(* and accounts that are being created, and these leave true what the one  *)
(* with the lock has checked.                                              *)
(***************************************************************************)
EXTENDS Administrators, TLAPS

OneLock ==
  \A q, s \in serving : LocksOrganization(q) /\ LocksOrganization(s) => q = s

OnAccount == {"suspend", "reactivate", "deprovision", "scim_off", "scim_on"}
OnGrant == {"create", "unassign", "retain", "revoke", "assign", "window"}
OnRole == {"edit", "delete"}
OnPair == {"forbid", "permit", "request", "approve", "reject", "withdraw"}
OnReview == {"review", "complete", "cancel"}

-----------------------------------------------------------------------------
(* Shapes. *)

LEMMA ChangeShape ==
  ASSUME NEW q \in Change
  PROVE  /\ q.op \in OnAccount \cup OnGrant \cup OnRole \cup OnPair \cup OnReview
         /\ q.op \in OnAccount \cup OnGrant => q.user \in User
         /\ q.op \in OnGrant => q.role \in Role
         /\ q.op \in OnRole => q.role \in Custom
         /\ q.op = "edit" => q.configures \in BOOLEAN
         /\ q.op \in OnPair => q.pair \in Pair
         /\ q.op \in {"request", "approve", "reject", "withdraw"} => q.user \in User
         /\ q.op \in {"assign", "window"} => q.term \in Window \cup {Permanent}
         /\ q.op = "request" => q.term \in Window
         /\ q.op = "review" => q.reviewer \in User
         /\ q.op = "create" => q = [op |-> "create", user |-> q.user, role |-> q.role]
BY DEF Change, OnAccount, OnGrant, OnRole, OnPair, OnReview

LEMMA WindowShape ==
  ASSUME NEW w \in Window \cup {Permanent}
  PROVE  /\ w.from \in Moment /\ w.until \in Moment \cup {Never} /\ w.from < w.until
         /\ w # Permanent => w.until \in Moment
  BY AdministratorsAssumption DEF AdministratorsAssumption, Permanent, Moment, Never

\* What a transaction makes of an assignment.
GrantAfter(q, u, r) ==
  CASE q.op = "assign" /\ u = q.user /\ r = q.role -> NewGrant(q.term)
    [] q.op = "create" /\ u = q.user /\ r = q.role -> NewGrant(Permanent)
    [] q.op = "scim_on" /\ u = q.user /\ r = Viewer -> NewGrant(Permanent)
    [] q.op = "window" /\ u = q.user /\ r = q.role ->
         Given(grant[u][r].id, grant[u][r].version + 1, q.term)
    [] q.op \in {"unassign", "revoke"} /\ u = q.user /\ r = q.role -> NoGrant
    [] q.op \in {"deprovision", "scim_off"} /\ u = q.user -> NoGrant
    [] OTHER -> grant[u][r]

LEMMA GrantsShape ==
  ASSUME AdminTypeOK, NEW q \in Change
  PROVE  /\ Grants(q) \in [User -> [Role -> Grant]]
         /\ \A u \in User, r \in Role : Grants(q)[u][r] = GrantAfter(q, u, r)
<1>1. /\ grant \in [User -> [Role -> Grant]] /\ changes \in Nat
      /\ q.op \in OnAccount \cup OnGrant => q.user \in User
      /\ q.op \in OnGrant => q.role \in Role
      /\ Viewer \in Role
  BY ChangeShape, AdministratorsAssumption DEF AdminTypeOK, AdministratorsAssumption
<1>2. NoGrant \in Grant
  BY AdministratorsAssumption DEF NoGrant, Grant, Moment, AdministratorsAssumption
<1>3. ASSUME NEW id \in Nat, NEW n \in Nat, NEW w \in Window \cup {Permanent}
      PROVE  Given(id, n, w) \in Grant
  BY WindowShape DEF Given, Grant
<1>4. Permanent \in Window \cup {Permanent} /\ changes + 2 \in Nat /\ 1 \in Nat
  BY <1>1
<1>5. CASE q.op = "assign"
  <2>1. NewGrant(q.term) \in Grant
    BY <1>3, <1>4, <1>5, ChangeShape DEF NewGrant
  <2>2. Grants(q) = [grant EXCEPT ![q.user][q.role] = NewGrant(q.term)]
    BY <1>5 DEF Grants
  <2> HIDE DEF NewGrant
  <2> QED
    BY <1>1, <1>5, <2>1, <2>2 DEF GrantAfter, OnGrant
<1>6. CASE q.op = "create"
  <2>1. NewGrant(Permanent) \in Grant
    BY <1>3, <1>4 DEF NewGrant
  <2>2. Grants(q) = [grant EXCEPT ![q.user][q.role] = NewGrant(Permanent)]
    BY <1>6 DEF Grants
  <2> QED
    BY <1>1, <1>6, <2>1, <2>2 DEF GrantAfter, OnGrant
<1>7. CASE q.op = "scim_on"
  <2>1. NewGrant(Permanent) \in Grant
    BY <1>3, <1>4 DEF NewGrant
  <2>2. Grants(q) = [grant EXCEPT ![q.user][Viewer] = NewGrant(Permanent)]
    BY <1>7 DEF Grants
  <2> QED
    BY <1>1, <1>7, <2>1, <2>2 DEF GrantAfter, OnAccount
<1>8. CASE q.op = "window"
  <2>1. PICK g : g = grant[q.user][q.role]
    OBVIOUS
  <2>2. g.id \in Nat /\ g.version + 1 \in Nat
    BY <1>1, <1>8, <2>1 DEF Grant, OnGrant
  <2>3. PICK v : v = Given(g.id, g.version + 1, q.term)
    OBVIOUS
  <2>4. v \in Grant
    BY <1>3, <1>8, <2>2, <2>3, ChangeShape
  <2>5. Grants(q) = [grant EXCEPT ![q.user][q.role] = v]
    BY <1>1, <1>8, <2>1, <2>3 DEF Grants, OnGrant
  <2> QED
    BY <1>1, <1>8, <2>1, <2>3, <2>4, <2>5 DEF GrantAfter, OnGrant
<1>9. CASE q.op \in {"unassign", "revoke"}
  <2>1. Grants(q) = [grant EXCEPT ![q.user][q.role] = NoGrant]
    BY <1>9 DEF Grants
  <2> QED
    BY <1>1, <1>2, <1>9, <2>1 DEF GrantAfter, OnGrant
<1>10. CASE q.op \in {"deprovision", "scim_off"}
  <2>1. Grants(q) = [grant EXCEPT ![q.user] = [r \in Role |-> NoGrant]]
    BY <1>10 DEF Grants
  <2> QED
    BY <1>1, <1>2, <1>10, <2>1 DEF GrantAfter, OnAccount
<1>11. CASE q.op \notin {"assign", "create", "scim_on", "window", "unassign", "revoke",
                         "deprovision", "scim_off"}
  BY <1>1, <1>11 DEF Grants, GrantAfter
<1> QED
  BY <1>5, <1>6, <1>7, <1>8, <1>9, <1>10, <1>11

LEMMA RolesShape ==
  ASSUME AdminTypeOK, NEW q \in Change
  PROVE  /\ Roles(q) \in [Role -> [live : BOOLEAN, configures : BOOLEAN, version : Nat]]
         /\ \A r \in Role :
              /\ q.op \notin OnRole \/ r # q.role => Roles(q)[r] = role[r]
              /\ q.op = "edit" /\ r = q.role => /\ Roles(q)[r].live = role[r].live
                                                /\ Roles(q)[r].configures = q.configures
              /\ q.op = "delete" /\ r = q.role => /\ Roles(q)[r].live = FALSE
                                                  /\ Roles(q)[r].configures = role[r].configures
<1>1. /\ role \in [Role -> [live : BOOLEAN, configures : BOOLEAN, version : Nat]]
      /\ q.op \in OnRole => q.role \in Custom /\ q.role \in Role
  BY ChangeShape, AdministratorsAssumption DEF AdminTypeOK, AdministratorsAssumption
<1>2. CASE q.op \in OnRole
  <2>1. PICK a : a = role[q.role]
    OBVIOUS
  <2>2. /\ a \in [live : BOOLEAN, configures : BOOLEAN, version : Nat] /\ a.version + 1 \in Nat
        /\ a.live \in BOOLEAN /\ a.configures \in BOOLEAN
        /\ a = [live |-> a.live, configures |-> a.configures, version |-> a.version]
    BY <1>1, <1>2, <2>1
  <2>3. CASE q.op = "edit"
    <3>1. Roles(q) = [role EXCEPT ![q.role] =
                        [live |-> a.live, configures |-> q.configures, version |-> a.version + 1]]
      BY <1>1, <1>2, <2>1, <2>2, <2>3 DEF Roles
    <3> QED
      BY <1>1, <1>2, <2>1, <2>2, <2>3, <3>1, ChangeShape DEF OnRole
  <2>4. CASE q.op = "delete"
    <3>1. Roles(q) = [role EXCEPT ![q.role] =
                        [live |-> FALSE, configures |-> a.configures, version |-> a.version + 1]]
      BY <1>1, <1>2, <2>1, <2>2, <2>4 DEF Roles
    <3> QED
      BY <1>1, <1>2, <2>1, <2>2, <2>4, <3>1 DEF OnRole
  <2> QED
    BY <1>2, <2>3, <2>4 DEF OnRole
<1>3. CASE q.op \notin OnRole
  BY <1>1, <1>3 DEF Roles, OnRole
<1> QED
  BY <1>2, <1>3

RuleRow == [status : {"none", "enabled", "disabled"}, number : Nat, since : Moment]

LEMMA RulesShape ==
  ASSUME AdminTypeOK, NEW q \in Change
  PROVE  /\ Rules(q) \in [Pair -> RuleRow]
         /\ \A p \in Pair :
              /\ q.op \notin {"forbid", "permit"} \/ p # q.pair => Rules(q)[p] = rule[p]
              /\ q.op = "forbid" /\ p = q.pair =>
                   Rules(q)[p] = [status |-> "enabled", number |-> changes + 2, since |-> clock]
              /\ q.op = "permit" /\ p = q.pair => Rules(q)[p].status = "disabled"
<1>1. /\ rule \in [Pair -> RuleRow] /\ changes + 2 \in Nat /\ clock \in Moment
      /\ q.op \in OnPair => q.pair \in Pair
  BY ChangeShape DEF AdminTypeOK, RuleRow
<1>2. CASE q.op = "forbid"
  <2>1. Rules(q) = [rule EXCEPT ![q.pair] =
                      [status |-> "enabled", number |-> changes + 2, since |-> clock]]
    BY <1>2 DEF Rules
  <2> QED
    BY <1>1, <1>2, <2>1 DEF OnPair, RuleRow
<1>3. CASE q.op = "permit"
  <2>1. PICK a : a = rule[q.pair]
    OBVIOUS
  <2>2. /\ a \in RuleRow /\ a.number \in Nat /\ a.since \in Moment
        /\ a = [status |-> a.status, number |-> a.number, since |-> a.since]
    BY <1>1, <1>3, <2>1 DEF OnPair, RuleRow
  <2>3. [a EXCEPT !.status = "disabled"]
          = [status |-> "disabled", number |-> a.number, since |-> a.since]
    BY <2>2 DEF RuleRow
  <2>4. Rules(q) = [rule EXCEPT ![q.pair] = [a EXCEPT !.status = "disabled"]]
    BY <1>3, <2>1 DEF Rules
  <2> QED
    BY <1>1, <1>3, <2>2, <2>3, <2>4 DEF OnPair, RuleRow
<1>4. CASE q.op \notin {"forbid", "permit"}
  BY <1>1, <1>4 DEF Rules
<1> QED
  BY <1>2, <1>3, <1>4

\* What a transaction makes of an exception.
ExemptAfter(q, u, p) ==
  CASE q.op = "request" /\ u = q.user /\ p = q.pair -> Exempted("pending", q.term)
    [] q.op = "approve" /\ u = q.user /\ p = q.pair -> Exempted("approved", exempt[u][p])
    [] q.op = "reject" /\ u = q.user /\ p = q.pair -> Exempted("rejected", exempt[u][p])
    [] q.op = "withdraw" /\ u = q.user /\ p = q.pair -> Exempted("revoked", exempt[u][p])
    [] OTHER -> exempt[u][p]

LEMMA ExemptsShape ==
  ASSUME AdminTypeOK, NEW q \in Change
  PROVE  /\ Exempts(q) \in [User -> [Pair -> Exemption]]
         /\ \A u \in User, p \in Pair : Exempts(q)[u][p] = ExemptAfter(q, u, p)
<1>1. exempt \in [User -> [Pair -> Exemption]]
  BY DEF AdminTypeOK
<1>2. CASE q.op = "request"
  <2>1. Exempted("pending", q.term) \in Exemption
    BY <1>2, ChangeShape, AdministratorsAssumption
    DEF Exempted, Exemption, AdministratorsAssumption, Moment
  <2>2. Exempts(q) = [exempt EXCEPT ![q.user][q.pair] = Exempted("pending", q.term)]
    BY <1>2 DEF Exempts
  <2>3. q.user \in User /\ q.pair \in Pair
    BY <1>2, ChangeShape DEF OnPair
  <2> QED
    BY <1>1, <1>2, <2>1, <2>2, <2>3 DEF ExemptAfter
<1>3. CASE q.op \in {"approve", "reject", "withdraw"}
  <2>1. PICK n : n = CASE q.op = "approve" -> "approved" [] q.op = "reject" -> "rejected"
                       [] q.op = "withdraw" -> "revoked"
    OBVIOUS
  <2>2. q.user \in User /\ q.pair \in Pair
    BY <1>3, ChangeShape DEF OnPair
  <2>3. PICK a : a = exempt[q.user][q.pair]
    OBVIOUS
  <2>4. /\ a \in Exemption /\ a.from \in Moment /\ a.until \in Moment
        /\ a = [status |-> a.status, from |-> a.from, until |-> a.until]
    BY <1>1, <2>2, <2>3 DEF Exemption
  <2>5. /\ Exempted(n, a) = [status |-> n, from |-> a.from, until |-> a.until]
        /\ [a EXCEPT !.status = n] = Exempted(n, a)
    BY <2>4 DEF Exempted, Exemption
  <2>6. Exempts(q) = [exempt EXCEPT ![q.user][q.pair] = Exempted(n, a)]
    <3>1. Exempts(q) = [exempt EXCEPT ![q.user][q.pair].status = n]
      BY <1>3, <2>1 DEF Exempts
    <3>2. @ = [exempt EXCEPT ![q.user][q.pair] = [exempt[q.user][q.pair] EXCEPT !.status = n]]
      BY <1>1, <2>2
    <3> QED
      BY <2>3, <2>5, <3>1, <3>2
  <2>7. Exempted(n, a) \in Exemption
    BY <1>3, <2>1, <2>4, <2>5 DEF Exemption
  <2> QED
    BY <1>1, <1>3, <2>1, <2>2, <2>3, <2>6, <2>7 DEF ExemptAfter
<1>4. CASE q.op \notin {"request", "approve", "reject", "withdraw"}
  BY <1>1, <1>4 DEF Exempts, ExemptAfter
<1> QED
  BY <1>2, <1>3, <1>4

\* What a transaction makes of an account.
LEMMA AccountsShape ==
  ASSUME AdminTypeOK, NEW q \in Change, Finish(q)
  PROVE  /\ account' \in [User -> {"absent", "active", "suspended", "deprovisioned", "deleted"}]
         /\ \A u \in User :
              account'[u] = CASE q.op \in {"reactivate", "scim_on", "create"} /\ u = q.user -> "active"
                              [] q.op = "suspend" /\ u = q.user -> "suspended"
                              [] q.op = "scim_off" /\ u = q.user -> "deprovisioned"
                              [] q.op = "deprovision" /\ u = q.user -> "deleted"
                              [] OTHER -> account[u]
<1>1. account \in [User -> {"absent", "active", "suspended", "deprovisioned", "deleted"}]
  BY DEF AdminTypeOK
<1>2. CASE q.op \in OnAccount \cup {"create"}
  <2>1. q.user \in User
    BY <1>2, ChangeShape DEF OnGrant
  <2>2. account' = [account EXCEPT ![q.user] = Status(q)]
    BY <1>2 DEF Finish, AccountOp, OnAccount
  <2> QED
    BY <1>1, <1>2, <2>1, <2>2 DEF Status, OnAccount
<1>3. CASE q.op \notin OnAccount \cup {"create"}
  BY <1>1, <1>3 DEF Finish, AccountOp, OnAccount
<1> QED
  BY <1>2, <1>3

LEMMA FindingsShape ==
  ASSUME AdminTypeOK, NEW q \in Change
  PROVE  /\ Findings(q) \in [User -> [Role -> Finding]]
         /\ \A u \in User, r \in Role :
              Findings(q)[u][r].decision = "revoke" /\ finding[u][r].decision = "open"
                => q.op = "revoke" /\ u = q.user /\ r = q.role
<1>1. /\ finding \in [User -> [Role -> Finding]]
      /\ grant \in [User -> [Role -> Grant]]
      /\ role \in [Role -> [live : BOOLEAN, configures : BOOLEAN, version : Nat]]
  BY DEF AdminTypeOK
<1>2. CASE q.op = "review"
  <2>1. NoFinding \in Finding /\ NoFinding.decision = "none"
    BY DEF NoFinding, Finding
  <2>2. ASSUME NEW u \in User, NEW r \in Role
        PROVE  Seen(u, r) \in Finding /\ Seen(u, r).decision = "open"
    BY <1>1 DEF Seen, Finding, Grant
  <2>3. Findings(q) = [u \in User |-> [r \in Role |-> IF u \in q.subjects /\ r \in InForce(u)
                                                        THEN Seen(u, r) ELSE NoFinding]]
    BY <1>2 DEF Findings
  <2> HIDE DEF NoFinding
  <2> QED
    BY <2>1, <2>2, <2>3
<1>3. CASE q.op \in {"retain", "revoke"}
  <2>1. q.user \in User /\ q.role \in Role
    BY <1>3, ChangeShape DEF OnGrant
  <2>2. PICK f : f = [finding[q.user][q.role] EXCEPT !.decision = q.op]
    OBVIOUS
  <2>3. f \in Finding /\ f.decision = q.op
    <3>1. PICK a : a = finding[q.user][q.role]
      OBVIOUS
    <3>2. /\ a \in Finding /\ a.id \in Nat /\ a.version \in Nat /\ a.edition \in Nat
          /\ f = [a EXCEPT !.decision = q.op]
      BY <1>1, <2>1, <2>2, <3>1 DEF Finding
    <3>3. f = [decision |-> q.op, id |-> a.id, version |-> a.version, edition |-> a.edition]
      BY <3>2 DEF Finding
    <3> QED
      BY <1>3, <3>2, <3>3 DEF Finding
  <2>4. Findings(q) = [finding EXCEPT ![q.user][q.role] = f]
    <3>1. Findings(q) = [finding EXCEPT ![q.user][q.role].decision = q.op]
      BY <1>3 DEF Findings
    <3>2. @ = [finding EXCEPT ![q.user][q.role] = [finding[q.user][q.role] EXCEPT !.decision = q.op]]
      BY <1>1, <2>1
    <3> QED
      BY <2>2, <3>1, <3>2
  <2> QED
    BY <1>1, <1>3, <2>1, <2>3, <2>4
<1>4. CASE q.op \notin {"review", "retain", "revoke"}
  BY <1>1, <1>4 DEF Findings
<1> QED
  BY <1>2, <1>3, <1>4

LEMMA ReviewShape ==
  ASSUME AdminTypeOK, NEW q \in Change
  PROVE  Review(q) \in [status : {"none", "open", "completed", "cancelled"}, reviewer : User]
<1>1. review \in [status : {"none", "open", "completed", "cancelled"}, reviewer : User]
  BY DEF AdminTypeOK
<1> QED
  BY <1>1, ChangeShape DEF Review

LEMMA HistoryShape ==
  ASSUME AdminTypeOK, NEW q \in Change
  PROVE  /\ Violations(q) \subseteq User \X Pair
         /\ Overtaken(q) \subseteq User \X Role
         /\ q.op = "withdraw" => <<q.user, q.pair>> \in User \X Pair
<1>1. /\ noted \subseteq User \X Pair
      /\ q.op = "forbid" => q.pair \in Pair
      /\ q.op = "delete" => q.role \in Role
      /\ q.op = "withdraw" => q.user \in User /\ q.pair \in Pair
  BY ChangeShape, AdministratorsAssumption
  DEF AdminTypeOK, OnPair, OnRole, AdministratorsAssumption
<1>2. Violations(q) \subseteq User \X Pair
  <2>1. CASE q.op = "forbid"
    <3>1. Violations(q) = noted \cup {<<u, q.pair>> : u \in {v \in User : Conflicted(v, q.pair)}}
      BY <2>1 DEF Violations
    <3> QED
      BY <1>1, <2>1, <3>1
  <2> QED
    BY <1>1, <2>1 DEF Violations
<1>3. Overtaken(q) \subseteq User \X Role
  <2>1. CASE q.op = "delete"
    <3>1. Overtaken(q) \subseteq {<<u, q.role>> : u \in User}
      BY <2>1 DEF Overtaken
    <3> QED
      BY <1>1, <2>1, <3>1
  <2> QED
    BY <2>1 DEF Overtaken
<1> QED
  BY <1>1, <1>2, <1>3

-----------------------------------------------------------------------------
(* Types. *)

LEMMA AdminTypeOKHolds ==
  ASSUME AdminInit PROVE AdminTypeOK
<1> USE AdministratorsAssumption DEF AdministratorsAssumption, AdminInit, AdminTypeOK
<1>1. 0 \in Moment /\ Never \in Moment \cup {Never} /\ NoGrant \in Grant /\ Given(1, 1, Permanent) \in Grant
  BY DEF Moment, Never, NoGrant, Grant, Given, Permanent
<1>2. account \in [User -> {"absent", "active", "suspended", "deprovisioned", "deleted"}]
  OBVIOUS
<1>3. role \in [Role -> [live : BOOLEAN, configures : BOOLEAN, version : Nat]]
  OBVIOUS
<1>4. grant \in [User -> [Role -> Grant]]
  <2>1. PICK first \in [User -> Role] :
          grant = [u \in User |-> [r \in Role |->
                     IF account[u] = "active" /\ r = first[u]
                       THEN Given(1, 1, Permanent) ELSE NoGrant]]
    OBVIOUS
  <2> HIDE DEF AdminInit
  <2> QED
    BY <1>1, <2>1
<1>5. rule \in [Pair -> RuleRow] /\ exempt \in [User -> [Pair -> Exemption]]
  <2>1. NoExemption \in Exemption /\ \A w \in Window : Exempted("approved", w) \in Exemption
    BY <1>1 DEF NoExemption, Exemption, Exempted, Moment
  <2> QED
    BY <1>1, <2>1 DEF RuleRow, NoRules
<1>6. /\ review \in [status : {"none", "open", "completed", "cancelled"}, reviewer : User]
      /\ finding \in [User -> [Role -> Finding]]
  <2>1. /\ NoFinding \in Finding
        /\ [decision |-> "open", id |-> 1, version |-> 1, edition |-> 1] \in Finding
    BY DEF NoFinding, Finding
  <2>2. Founder \in User
    OBVIOUS
  <2>3. CASE NoReview
    BY <2>1, <2>2, <2>3 DEF NoReview
  <2>4. CASE /\ review = [status |-> "open", reviewer |-> Founder]
             /\ finding = [u \in User |-> [r \in Role |->
                             IF u # Founder /\ grant[u][r] # NoGrant
                               THEN [decision |-> "open", id |-> 1, version |-> 1, edition |-> 1]
                               ELSE NoFinding]]
    <3> HIDE DEF AdminInit, AdministratorsAssumption
    <3> QED
      BY <2>1, <2>2, <2>4
  <2> QED
    BY <2>3, <2>4
<1> QED
  BY <1>1, <1>2, <1>3, <1>4, <1>5, <1>6 DEF RuleRow

LEMMA FinishTyped ==
  ASSUME AdminTypeOK, NEW q \in serving, Finish(q)
  PROVE  AdminTypeOK'
<1>1. q \in Change
  BY DEF AdminTypeOK
<1>2. /\ role' = Roles(q) /\ grant' = Grants(q) /\ rule' = Rules(q) /\ exempt' = Exempts(q)
      /\ noted' = Violations(q) /\ review' = Review(q) /\ finding' = Findings(q)
      /\ clock' = clock /\ changes' = changes + 1 /\ serving' = serving \ {q}
      /\ excused' = IF q.op = "withdraw" THEN excused \cup {<<q.user, q.pair>>} ELSE excused
      /\ raced' = raced \cup Overtaken(q)
  BY DEF Finish
<1>3. rule' \in [Pair -> [status : {"none", "enabled", "disabled"}, number : Nat, since : Moment]]
  BY <1>1, <1>2, RulesShape DEF RuleRow
<1>4. role' \in [Role -> [live : BOOLEAN, configures : BOOLEAN, version : Nat]]
  BY <1>1, <1>2, RolesShape
<1>5. grant' \in [User -> [Role -> Grant]] /\ exempt' \in [User -> [Pair -> Exemption]]
  BY <1>1, <1>2, GrantsShape, ExemptsShape
<1>6. account' \in [User -> {"absent", "active", "suspended", "deprovisioned", "deleted"}]
  BY <1>1, AccountsShape
<1>7. /\ review' \in [status : {"none", "open", "completed", "cancelled"}, reviewer : User]
      /\ finding' \in [User -> [Role -> Finding]]
  BY <1>1, <1>2, ReviewShape, FindingsShape
<1>8. noted' \subseteq User \X Pair /\ excused' \subseteq User \X Pair /\ raced' \subseteq User \X Role
  BY <1>1, <1>2, HistoryShape DEF AdminTypeOK
<1>9. clock' \in Moment /\ changes' \in Nat /\ serving' \subseteq Change
  BY <1>2 DEF AdminTypeOK
<1> QED
  BY <1>3, <1>4, <1>5, <1>6, <1>7, <1>8, <1>9 DEF AdminTypeOK

LEMMA AdminTypeOKPreserved ==
  ASSUME AdminTypeOK, [AdminNext]_adminVars PROVE AdminTypeOK'
<1>1. CASE UNCHANGED adminVars
  BY <1>1 DEF adminVars, AdminTypeOK
<1>2. CASE Pass
  BY <1>2, AdministratorsAssumption DEF Pass, AdminTypeOK, Moment, AdministratorsAssumption
<1>3. CASE \E q \in Change : Serve(q)
  BY <1>3 DEF Serve, AdminTypeOK
<1>4. CASE \E q \in serving : Finish(q)
  BY <1>4, FinishTyped
<1>5. CASE \E q \in serving : ChangeFails(q)
  BY <1>5 DEF ChangeFails, AdminTypeOK
<1> QED
  BY <1>1, <1>2, <1>3, <1>4, <1>5 DEF AdminNext

\* Accounts, roles, assignments, rules, exceptions and reviews keep their types.
THEOREM AdministratorsTypeCorrect == AdminSpec => []AdminTypeOK
<1>1. AdminInit => AdminTypeOK
  BY AdminTypeOKHolds
<1>2. AdminTypeOK /\ [AdminNext]_adminVars => AdminTypeOK'
  BY AdminTypeOKPreserved
<1> QED
  BY <1>1, <1>2, PTL DEF AdminSpec

-----------------------------------------------------------------------------
(* An administrator is always left. *)

\* An authority that neither time nor a rule can take away.
Lasting(u, r) ==
  /\ account[u] = "active" /\ role[r].live /\ role[r].configures
  /\ grant[u][r].until = Never /\ grant[u][r].from <= clock
  /\ \A p \in Pair : Enabled(p) => r \notin p

Steady(u, lost) ==
  /\ account[u] = "active"
  /\ u \in Super \/ \E r \in Role : <<u, r>> \notin lost /\ Lasting(u, r)

\* What a transaction may take away when it finishes: accounts and assignments.
Gone(q) == IF q.op \in {"suspend", "deprovision", "scim_off"} THEN {q.user} ELSE {}

Lost(q) ==
  CASE q.op = "assign" -> IF q.term = Permanent THEN {} ELSE {<<q.user, q.role>>}
    [] q.op \in {"window", "unassign", "revoke"} -> {<<q.user, q.role>>}
    [] q.op = "edit" -> IF q.configures THEN {} ELSE User \X {q.role}
    [] q.op = "delete" -> User \X {q.role}
    [] q.op = "forbid" -> User \X q.pair
    [] OTHER -> {}

\* Without that, somebody administers the tenant.
Spares == \A q \in serving : Backup(User \ Gone(q), Lost(q))

UngrantedIsEmpty == \A u \in User, r \in Role : Held(u, r) \/ grant[u][r] = NoGrant

KeepInv == AdminTypeOK /\ OneLock /\ UngrantedIsEmpty /\ KeepsAnAdministrator /\ Spares

LEMMA BackupIsSteady ==
  ASSUME AdminTypeOK, NEW U \in SUBSET User, NEW lost
  PROVE  Backup(U, lost) <=> \E u \in U : Steady(u, lost)
<1>1. ASSUME NEW u \in User, NEW r \in Role, account[u] = "active"
      PROVE  role[r].configures /\ Effective(u, r) /\ Unaffected(u, r) <=> Lasting(u, r)
  <2>1. clock \in Int /\ clock < Never
    BY AdministratorsAssumption DEF AdminTypeOK, Moment, Never, AdministratorsAssumption
  <2>2. grant[u][r] \in Grant
    BY DEF AdminTypeOK
  <2> QED
    BY <1>1, <2>1, <2>2 DEF Effective, Unaffected, Lasting, Contains
<1> QED
  BY <1>1 DEF Backup, Steady

LEMMA BackupIsSteadyNext ==
  ASSUME AdminTypeOK', NEW U \in SUBSET User, NEW lost, NEW u \in U, Steady(u, lost)'
  PROVE  Backup(U, lost)'
<1>1. ASSUME NEW r \in Role, Lasting(u, r)'
      PROVE  (role[r].configures /\ Effective(u, r) /\ Unaffected(u, r))'
  <2>1. clock' \in Int /\ clock' < Never
    BY AdministratorsAssumption DEF AdminTypeOK, Moment, Never, AdministratorsAssumption
  <2> QED
    BY <1>1, <2>1 DEF Effective, Unaffected, Lasting, Contains, Enabled
<1> QED
  BY <1>1 DEF Backup, Steady

LEMMA LastingAdministers ==
  ASSUME AdminTypeOK, NEW u \in User
  PROVE  /\ Steady(u, {}) => HasAdministrativeGrant(u)
         /\ \A r \in Role : Lasting(u, r) => Effective(u, r)
<1>1. ASSUME NEW r \in Role, Lasting(u, r) PROVE Effective(u, r) /\ role[r].configures
  <2>1. clock \in Int /\ clock < Never
    BY AdministratorsAssumption DEF AdminTypeOK, Moment, Never, AdministratorsAssumption
  <2> QED
    BY <1>1, <2>1 DEF Effective, Lasting, Contains
<1> QED
  BY <1>1 DEF Steady, HasAdministrativeGrant

\* A transaction that passes its checks leaves an administrator.
LEMMA ServeSpares ==
  ASSUME KeepInv, NEW q \in Change, Permitted(q)
  PROVE  Backup(User \ Gone(q), Lost(q))
<1> USE DEF KeepInv
<1>1. PICK v \in User : Steady(v, {})
  BY BackupIsSteady DEF KeepsAnAdministrator
<1>2. SUFFICES \E u \in User \ Gone(q) : Steady(u, Lost(q))
  BY BackupIsSteady
<1>3. CASE q.op \in {"suspend", "deprovision", "scim_off"}
  <2>1. ~LastAdministrator(q.user) /\ q.user \in User
    BY <1>3, ChangeShape DEF Permitted, AccountOp, AccountAllowed, OnAccount
  <2>2. Gone(q) = {q.user} /\ Lost(q) = {}
    BY <1>3 DEF Gone, Lost
  <2>3. CASE Backup(User \ {q.user}, {})
    BY <2>2, <2>3, BackupIsSteady
  <2>4. CASE ~HasAdministrativeGrant(q.user)
    BY <1>1, <2>2, <2>4, LastingAdministers
  <2> QED
    BY <2>1, <2>3, <2>4 DEF LastAdministrator
<1>4. ASSUME q.op \in OnGrant \cup OnRole \cup {"forbid"},
             NEW u \in User, account[u] = "active",
             u \in Super \/ \E r \in Role : <<u, r>> \notin Lost(q) /\ Lasting(u, r)
      PROVE  \E x \in User \ Gone(q) : Steady(x, Lost(q))
  BY <1>4 DEF Gone, Steady, OnGrant, OnRole
<1>5. CASE v \in Super /\ q.op \in OnGrant \cup OnRole \cup {"forbid"}
  BY <1>1, <1>4, <1>5 DEF Steady
<1>6. ASSUME v \notin Super
      PROVE  \E s \in Role : Lasting(v, s) /\ role[s].configures /\ account[v] = "active"
  BY <1>1, <1>6 DEF Steady, Lasting
<1>7. CASE /\ v \notin Super
           /\ q.op = "window" \/ (q.op = "assign" /\ q.term # Permanent)
  <2>1. Expires(q.user, q.role, q.term) /\ q.user \in User /\ q.role \in Role
    BY <1>7, ChangeShape DEF Permitted, AccountOp, RoleAllowed, OnGrant
  <2>2. Lost(q) = {<<q.user, q.role>>}
    BY <1>7 DEF Lost
  <2>3. CASE role[q.role].configures
    <3>1. PICK u \in User \ {q.user} : Steady(u, {})
      BY <2>1, <2>3, BackupIsSteady DEF Expires
    <3> QED
      BY <1>4, <1>7, <2>2, <3>1 DEF Steady, OnGrant
  <2>4. CASE ~role[q.role].configures
    BY <1>4, <1>6, <1>7, <2>2, <2>4 DEF OnGrant
  <2> QED
    BY <2>3, <2>4
<1>8. CASE v \notin Super /\ q.op \in {"unassign", "revoke"}
  <2>1. /\ role[q.role].configures => ~WouldLockOut({q.user}, q.role)
        /\ q.user \in User /\ q.role \in Role
    BY <1>8, ChangeShape DEF Permitted, AccountOp, RoleAllowed, ReviewAllowed, OnGrant
  <2>2. Lost(q) = {<<q.user, q.role>>} /\ {q.user} \X {q.role} = {<<q.user, q.role>>}
    BY <1>8 DEF Lost
  <2>3. CASE Backup(User, {q.user} \X {q.role})
    <3>1. PICK u \in User : Steady(u, Lost(q))
      BY <2>2, <2>3, BackupIsSteady
    <3> QED
      BY <1>4, <1>8, <3>1 DEF Steady, OnGrant
  <2>4. CASE ~Effective(q.user, q.role) \/ ~role[q.role].configures
    BY <1>4, <1>6, <1>8, <2>2, <2>4, LastingAdministers DEF OnGrant
  <2> QED
    BY <2>1, <2>3, <2>4 DEF WouldLockOut
<1>9. CASE v \notin Super /\ q.op = "edit" /\ ~q.configures
  <2>1. role[q.role].configures => ~WouldLockOut(User, q.role)
    BY <1>9 DEF Permitted, AccountOp, RoleAllowed
  <2>2. Lost(q) = User \X {q.role}
    BY <1>9 DEF Lost
  <2>3. CASE Backup(User, User \X {q.role})
    <3>1. PICK u \in User : Steady(u, Lost(q))
      BY <2>2, <2>3, BackupIsSteady
    <3> QED
      BY <1>4, <1>9, <3>1 DEF Steady, OnRole
  <2>4. CASE (\A u \in User : ~Effective(u, q.role)) \/ ~role[q.role].configures
    BY <1>4, <1>6, <1>9, <2>2, <2>4, LastingAdministers DEF OnRole
  <2> QED
    BY <2>1, <2>3, <2>4 DEF WouldLockOut
<1>10. CASE v \notin Super /\ q.op = "delete"
  <2>1. ~InUse(q.role)
    BY <1>10 DEF Permitted, AccountOp, RoleAllowed
  <2>2. ASSUME NEW s \in Role, Lasting(v, s) PROVE s # q.role
    <3>1. Never # 0
      BY AdministratorsAssumption DEF Never, AdministratorsAssumption
    <3> QED
      BY <2>1, <2>2, <3>1 DEF UngrantedIsEmpty, InUse, Lasting, NoGrant
  <2> QED
    BY <1>4, <1>6, <1>10, <2>2 DEF OnRole, Lost
<1>11. CASE v \notin Super /\ q.op = "forbid"
  <2>1. Spared(q.pair) /\ q.pair \in Pair /\ q.pair \subseteq Role
    BY <1>11, ChangeShape, AdministratorsAssumption
    DEF Permitted, AccountOp, RuleAllowed, OnPair, AdministratorsAssumption
  <2>2. Lost(q) = User \X q.pair
    BY <1>11 DEF Lost
  <2>3. CASE Backup(User, User \X q.pair)
    <3>1. PICK u \in User : Steady(u, Lost(q))
      BY <2>2, <2>3, BackupIsSteady
    <3> QED
      BY <1>4, <1>11, <3>1 DEF Steady
  <2>4. CASE \A r \in q.pair : ~role[r].configures
    BY <1>4, <1>6, <1>11, <2>2, <2>4
  <2> QED
    BY <2>1, <2>3, <2>4 DEF Spared
<1>12. CASE Gone(q) = {} /\ Lost(q) = {}
  BY <1>1, <1>12
<1> QED
  BY <1>3, <1>5, <1>7, <1>8, <1>9, <1>10, <1>11, <1>12 DEF Gone, Lost, OnGrant, OnRole

\* Finishing takes away no more than Gone and Lost say.
LEMMA FinishKeeps ==
  ASSUME AdminTypeOK, NEW q \in Change, Finish(q), Backup(User \ Gone(q), Lost(q)), AdminTypeOK'
  PROVE  KeepsAnAdministrator'
<1>1. PICK v \in User \ Gone(q) : Steady(v, Lost(q))
  BY BackupIsSteady
<1>2. account'[v] = "active"
  BY <1>1, AccountsShape DEF Steady, Gone
<1>3. SUFFICES ASSUME NEW r \in Role, <<v, r>> \notin Lost(q), Lasting(v, r)
               PROVE  Lasting(v, r)'
  <2>1. Steady(v, {})'
    BY <1>1, <1>2, <1>3 DEF Steady
  <2> QED
    BY <2>1, BackupIsSteadyNext DEF KeepsAnAdministrator
<1>4. /\ role' = Roles(q) /\ grant' = Grants(q) /\ rule' = Rules(q) /\ clock' = clock
  BY DEF Finish
<1>5. role'[r].live /\ role'[r].configures
  <2>1. role[r].live /\ role[r].configures
    BY <1>3 DEF Lasting
  <2>2. CASE q.op \in OnRole /\ r = q.role
    <3>1. q.op = "edit" /\ q.configures
      BY <1>3, <2>2 DEF Lost, OnRole
    <3>2. /\ role'[r].live = role[r].live
          /\ role'[r].configures = q.configures
      BY <1>4, <2>2, <3>1, RolesShape
    <3> QED
      BY <2>1, <3>1, <3>2, Zenon
  <2> QED
    BY <1>4, <2>1, <2>2, RolesShape
<1>6. grant'[v][r].until = Never /\ grant'[v][r].from <= clock'
  <2>1. grant[v][r].until = Never /\ grant[v][r].from <= clock /\ clock \in Nat
    BY <1>3, AdministratorsAssumption DEF Lasting, AdminTypeOK, Moment, AdministratorsAssumption
  <2>2. grant'[v][r] \in {grant[v][r], NewGrant(Permanent)}
    BY <1>1, <1>3, <1>4, GrantsShape DEF GrantAfter, Lost, Gone
  <2>3. NewGrant(Permanent).until = Never /\ NewGrant(Permanent).from = 0
    BY DEF NewGrant, Given, Permanent
  <2> QED
    BY <1>4, <2>1, <2>2, <2>3
<1>7. ASSUME NEW p \in Pair, rule'[p].status = "enabled" PROVE r \notin p
  <2>1. CASE q.op = "forbid" /\ p = q.pair
    BY <1>3, <2>1 DEF Lost
  <2>2. CASE ~(q.op = "forbid" /\ p = q.pair)
    <3>1. rule[p].status = "enabled"
      BY <1>4, <1>7, <2>2, RulesShape
    <3> QED
      BY <1>3, <3>1 DEF Lasting, Enabled
  <2> QED
    BY <2>1, <2>2
<1> QED
  BY <1>2, <1>5, <1>6, <1>7 DEF Lasting, Enabled

\* What time and a reactivation leave alone.
LEMMA BackupCarries ==
  ASSUME AdminTypeOK, AdminTypeOK', NEW U \in SUBSET User, NEW lost, Backup(U, lost),
         UNCHANGED <<role, grant, rule>>, clock <= clock',
         \A u \in User : account[u] = "active" => account'[u] = "active"
  PROVE  Backup(U, lost)'
<1>1. PICK u \in U : Steady(u, lost)
  BY BackupIsSteady
<1>2. clock \in Int /\ clock' \in Int /\ \A r \in Role : grant[u][r].from \in Int
  BY AdministratorsAssumption DEF AdminTypeOK, Moment, Grant, AdministratorsAssumption
<1>3. \A r \in Role : Lasting(u, r) => Lasting(u, r)'
  BY <1>2 DEF Lasting, Enabled
<1>4. Steady(u, lost)'
  BY <1>1, <1>3 DEF Steady
<1> QED
  BY <1>4, BackupIsSteadyNext

-----------------------------------------------------------------------------
(* What the open transactions have checked. *)

OneCreates ==
  \A q, s \in serving : q.op = "create" /\ s.op = "create" /\ q.user = s.user => q = s

AbsentHasNothing == \A u \in User : account[u] = "absent" => \A r \in Role : ~Held(u, r)

GrantsChecksHold ==
  \A q \in serving :
    /\ q.op = "create" => account[q.user] = "absent"
    /\ q.op \in OnAccount \cup {"assign", "window"} => account[q.user] # "absent"
    /\ q.op = "create" => role[q.role].live \/ <<q.user, q.role>> \in raced
    /\ q.op = "assign" => role[q.role].live
    /\ q.op = "window" => Held(q.user, q.role)
    /\ q.op = "delete" => ~InUse(q.role)
    /\ q.op = "revoke" => SameSnapshot(q.user, q.role, finding[q.user][q.role])
    /\ q.op \in {"assign", "window"} => RespectsRules(q.user, q.role, q.term)
    /\ q.op = "scim_on" => RespectsRules(q.user, Viewer, Permanent)
    /\ q.op \in {"request", "reject"} => exempt[q.user][q.pair].status # "approved"

FixedRolesLive == \A r \in Role \ Custom : role[r].live

NumbersGrow == \A u \in User, r \in Role : grant[u][r].id < changes + 2

\* Two assignments that a rule forbids together are excused, or were made before
\* the rule for a time that had not come, or that time is over.
Tolerated(v, w, e, p) ==
  \/ e.status = "approved" /\ Within(v, w, e)
  \/ /\ v.id < rule[p].number /\ w.id < rule[p].number
     /\ v.from > rule[p].since \/ w.from > rule[p].since
  \/ v.until <= clock \/ w.until <= clock

ConflictsTolerated ==
  \A u \in User, p \in Pair :
    Enabled(p) /\ <<u, p>> \notin noted \cup excused =>
      \A r, s \in p : r # s /\ Held(u, r) /\ Held(u, s) /\ Overlap(grant[u][r], grant[u][s])
        => Tolerated(grant[u][r], grant[u][s], exempt[u][p], p)

AdminInv ==
  /\ AdminTypeOK /\ OneLock /\ OneCreates /\ UngrantedIsEmpty /\ AbsentHasNothing
  /\ GrantsChecksHold /\ KeepsAnAdministrator /\ Spares
  /\ AssignedRolesLive /\ FixedRolesLive /\ NumbersGrow /\ ConflictsTolerated

\* While another transaction has the lock, only a reactivation can finish.
LEMMA OthersWait ==
  ASSUME AdminTypeOK, OneLock, NEW q \in serving, Finish(q), NEW s \in serving, s # q,
         LocksOrganization(s)
  PROVE  /\ q.op = "reactivate"
         /\ UNCHANGED <<clock, role, grant, rule, exempt, finding, raced>>
         /\ \A u \in User : account[u] = "active" => account'[u] = "active"
<1>1. q.op = "reactivate"
  BY DEF OneLock, LocksOrganization, Finish
<1>2. UNCHANGED <<clock, role, grant, rule, exempt, finding, raced>>
  BY <1>1 DEF Finish, Roles, Grants, Rules, Exempts, Findings, Overtaken
<1>3. \A u \in User : account[u] = "active" => account'[u] = "active"
  BY <1>1, AccountsShape DEF AdminTypeOK
<1> QED
  BY <1>1, <1>2, <1>3

LEMMA ServeLocks ==
  ASSUME AdminInv, NEW q \in Change, Serve(q)
  PROVE  OneLock' /\ OneCreates'
BY DEF AdminInv, OneLock, OneCreates, Serve, Compatible, LocksOrganization

LEMMA ServeChecks ==
  ASSUME AdminInv, NEW q \in Change, Serve(q)
  PROVE  GrantsChecksHold'
<1>1. Permitted(q) /\ serving' = serving \cup {q}
      /\ UNCHANGED <<account, role, grant, rule, exempt, finding, raced>>
  BY DEF Serve
<1>2. /\ q.op = "create" => account[q.user] = "absent" /\ role[q.role].live
      /\ q.op \in OnAccount => account[q.user] # "absent"
      /\ q.op = "scim_on" => RespectsRules(q.user, Viewer, Permanent)
  BY <1>1 DEF Permitted, AccountOp, AccountAllowed, OnAccount
<1>3. /\ q.op = "assign" => account[q.user] = "active" /\ role[q.role].live
      /\ q.op = "window" => Held(q.user, q.role)
      /\ q.op = "delete" => ~InUse(q.role)
      /\ q.op \in {"assign", "window"} => RespectsRules(q.user, q.role, q.term)
  BY <1>1 DEF Permitted, AccountOp, RoleAllowed
<1>4. q.op = "window" => account[q.user] # "absent"
  BY <1>3, ChangeShape DEF AdminInv, AbsentHasNothing, OnGrant
<1>5. q.op \in {"request", "reject"} => exempt[q.user][q.pair].status # "approved"
  BY <1>1 DEF Permitted, AccountOp, RuleAllowed
<1>6. q.op = "revoke" => SameSnapshot(q.user, q.role, finding[q.user][q.role])
  BY <1>1 DEF Permitted, AccountOp, ReviewAllowed
<1>7. ASSUME NEW x \in serving'
      PROVE  /\ x.op = "create" => account[x.user] = "absent"
             /\ x.op \in OnAccount \cup {"assign", "window"} => account[x.user] # "absent"
             /\ x.op = "create" => role[x.role].live \/ <<x.user, x.role>> \in raced
             /\ x.op = "assign" => role[x.role].live
             /\ x.op = "window" => Held(x.user, x.role)
             /\ x.op = "delete" => ~InUse(x.role)
             /\ x.op = "revoke" => SameSnapshot(x.user, x.role, finding[x.user][x.role])
             /\ x.op \in {"assign", "window"} => RespectsRules(x.user, x.role, x.term)
             /\ x.op = "scim_on" => RespectsRules(x.user, Viewer, Permanent)
             /\ x.op \in {"request", "reject"} => exempt[x.user][x.pair].status # "approved"
  <2>1. CASE x \in serving
    BY <2>1 DEF AdminInv, GrantsChecksHold
  <2>2. CASE x = q
    BY <1>2, <1>3, <1>4, <1>5, <1>6, <2>2
  <2> QED
    BY <1>1, <2>1, <2>2
<1>8. ASSUME NEW x
      PROVE  /\ Held(x.user, x.role)' <=> Held(x.user, x.role)
             /\ InUse(x.role)' <=> InUse(x.role)
             /\ SameSnapshot(x.user, x.role, finding[x.user][x.role])'
                  <=> SameSnapshot(x.user, x.role, finding[x.user][x.role])
             /\ RespectsRules(x.user, x.role, x.term)' <=> RespectsRules(x.user, x.role, x.term)
             /\ RespectsRules(x.user, Viewer, Permanent)' <=> RespectsRules(x.user, Viewer, Permanent)
  BY <1>1 DEF Held, InUse, SameSnapshot, RespectsRules, Enabled
<1> QED
  BY <1>1, <1>7, <1>8 DEF GrantsChecksHold

LEMMA ServeStep ==
  ASSUME AdminInv, NEW q \in Change, Serve(q), AdminTypeOK'
  PROVE  AdminInv'
<1>1. UNCHANGED <<clock, account, role, grant, rule, exempt, noted, changes, excused, raced>>
      /\ serving' = serving \cup {q} /\ Permitted(q)
  BY DEF Serve
<1>2. /\ UngrantedIsEmpty' /\ AbsentHasNothing' /\ AssignedRolesLive' /\ FixedRolesLive'
      /\ NumbersGrow'
  BY <1>1 DEF AdminInv, UngrantedIsEmpty, AbsentHasNothing, AssignedRolesLive, FixedRolesLive,
              NumbersGrow, Held
<1>3. KeepsAnAdministrator'
  BY <1>1, BackupCarries, AdministratorsAssumption
  DEF AdminInv, KeepsAnAdministrator, AdminTypeOK, Moment, AdministratorsAssumption
<1>4. Spares'
  <2>1. ASSUME NEW s \in serving' PROVE Backup(User \ Gone(s), Lost(s))'
    <3>1. Backup(User \ Gone(s), Lost(s))
      BY <1>1, ServeSpares DEF AdminInv, KeepInv, Spares
    <3>2. PICK U \in SUBSET User : U = User \ Gone(s)
      OBVIOUS
    <3>3. PICK lost : lost = Lost(s)
      OBVIOUS
    <3>4. clock <= clock'
      BY <1>1, AdministratorsAssumption DEF AdminInv, AdminTypeOK, Moment, AdministratorsAssumption
    <3>5. Backup(U, lost)'
      BY <1>1, <3>1, <3>2, <3>3, <3>4, BackupCarries DEF AdminInv
    <3>6. (User \ Gone(s))' = U /\ Lost(s)' = lost
      BY <3>2, <3>3 DEF Gone, Lost
    <3> QED
      BY <3>5, <3>6
  <2> QED
    BY <2>1 DEF Spares
<1>5. ConflictsTolerated'
  BY <1>1 DEF AdminInv, ConflictsTolerated, Enabled, Held, Overlap, Tolerated, Within
<1> QED
  BY <1>2, <1>3, <1>4, <1>5, ServeLocks, ServeChecks DEF AdminInv

LEMMA AdminInvHolds ==
  ASSUME AdminInit PROVE AdminInv
<1>1. AdminTypeOK
  BY AdminTypeOKHolds
<1>2. PICK first \in [User -> Role] :
        /\ first[Founder] = Admin
        /\ grant = [u \in User |-> [r \in Role |->
                      IF account[u] = "active" /\ r = first[u]
                        THEN Given(1, 1, Permanent) ELSE NoGrant]]
  BY DEF AdminInit
<1>3. /\ serving = {} /\ changes = 0 /\ clock = 0 /\ account[Founder] = "active"
      /\ role = [r \in Role |-> [live |-> TRUE, configures |-> r \in Custom \cup {Admin},
                                version |-> 1]]
  BY DEF AdminInit
<1>4. Given(1, 1, Permanent).id = 1 /\ NoGrant.id = 0
  BY DEF Given, NoGrant
<1>5. \A u \in User, r \in Role :
        /\ grant[u][r] = IF account[u] = "active" /\ r = first[u]
                           THEN Given(1, 1, Permanent) ELSE NoGrant
        /\ Held(u, r) => account[u] = "active" /\ r = first[u]
        /\ Held(u, r) \/ grant[u][r] = NoGrant
        /\ grant[u][r].id < 2
  BY <1>2, <1>4 DEF Held
<1>6. OneLock /\ OneCreates /\ GrantsChecksHold /\ Spares
  BY <1>3 DEF OneLock, OneCreates, GrantsChecksHold, Spares
<1>7. UngrantedIsEmpty /\ AbsentHasNothing /\ NumbersGrow
  BY <1>3, <1>5 DEF UngrantedIsEmpty, AbsentHasNothing, NumbersGrow
<1>8. AssignedRolesLive /\ FixedRolesLive
  BY <1>3, AdministratorsAssumption DEF AssignedRolesLive, FixedRolesLive, AdministratorsAssumption
<1>9. ConflictsTolerated
  <2>1. \A p \in Pair : p \subseteq Role
    BY AdministratorsAssumption DEF AdministratorsAssumption
  <2> QED
    BY <1>5, <2>1 DEF ConflictsTolerated
<1>10. KeepsAnAdministrator
  <2>1. Founder \in User /\ Admin \in Role
    BY AdministratorsAssumption DEF AdministratorsAssumption
  <2>2. role[Admin].live /\ role[Admin].configures
    BY <1>3, <2>1
  <2>3. grant[Founder][Admin].until = Never /\ grant[Founder][Admin].from = 0
    BY <1>2, <1>3, <1>5, <2>1 DEF Given, Permanent
  <2>4. \A p \in Pair : Enabled(p) => Admin \notin p
    BY DEF AdminInit, NoRules, Enabled
  <2>5. Steady(Founder, {})
    BY <1>3, <2>1, <2>2, <2>3, <2>4 DEF Steady, Lasting
  <2> QED
    BY <1>1, <2>1, <2>5, BackupIsSteady DEF KeepsAnAdministrator
<1> QED
  BY <1>1, <1>6, <1>7, <1>8, <1>9, <1>10 DEF AdminInv

\* Without a change of the records, and with no new transaction, everything stays.
LEMMA NothingChanges ==
  ASSUME AdminInv, AdminTypeOK', clock <= clock', serving' \subseteq serving,
         UNCHANGED <<account, role, grant, rule, exempt, finding, noted, changes, excused, raced>>
  PROVE  AdminInv'
<1>1. /\ OneLock' /\ OneCreates' /\ UngrantedIsEmpty' /\ AbsentHasNothing' /\ AssignedRolesLive'
      /\ FixedRolesLive' /\ NumbersGrow'
  BY DEF AdminInv, OneLock, OneCreates, UngrantedIsEmpty, AbsentHasNothing, AssignedRolesLive,
         FixedRolesLive, NumbersGrow, Held
<1>2. GrantsChecksHold'
  <2>1. ASSUME NEW x
        PROVE  /\ Held(x.user, x.role)' <=> Held(x.user, x.role)
               /\ InUse(x.role)' <=> InUse(x.role)
               /\ SameSnapshot(x.user, x.role, finding[x.user][x.role])'
                    <=> SameSnapshot(x.user, x.role, finding[x.user][x.role])
               /\ RespectsRules(x.user, x.role, x.term)' <=> RespectsRules(x.user, x.role, x.term)
               /\ RespectsRules(x.user, Viewer, Permanent)' <=> RespectsRules(x.user, Viewer, Permanent)
    BY DEF Held, InUse, SameSnapshot, RespectsRules, Enabled
  <2> QED
    BY <2>1 DEF AdminInv, GrantsChecksHold
<1>3. KeepsAnAdministrator'
  BY BackupCarries DEF AdminInv, KeepsAnAdministrator
<1>4. Spares'
  <2>1. ASSUME NEW s \in serving PROVE Backup(User \ Gone(s), Lost(s))'
    <3>1. PICK U \in SUBSET User : U = User \ Gone(s)
      OBVIOUS
    <3>2. PICK lost : lost = Lost(s)
      OBVIOUS
    <3>3. Backup(U, lost)'
      BY <3>1, <3>2, BackupCarries DEF AdminInv, Spares
    <3>4. (User \ Gone(s))' = U /\ Lost(s)' = lost
      BY <3>1, <3>2 DEF Gone, Lost
    <3> QED
      BY <3>3, <3>4
  <2> QED
    BY <2>1 DEF Spares
<1>5. ConflictsTolerated'
  <2> SUFFICES ASSUME NEW u \in User, NEW p \in Pair, Enabled(p), <<u, p>> \notin noted \cup excused,
                      NEW r \in p, NEW s \in p, r # s, Held(u, r), Held(u, s),
                      Overlap(grant[u][r], grant[u][s])
               PROVE  Tolerated(grant[u][r], grant[u][s], exempt[u][p], p)'
    BY DEF ConflictsTolerated, Enabled, Held, Overlap
  <2>1. Tolerated(grant[u][r], grant[u][s], exempt[u][p], p)
    BY DEF AdminInv, ConflictsTolerated
  <2>2. r \in Role /\ s \in Role
    BY AdministratorsAssumption DEF AdministratorsAssumption
  <2>3. /\ clock \in Int /\ clock' \in Int
        /\ grant[u][r].until \in Int /\ grant[u][s].until \in Int
    BY <2>2, AdministratorsAssumption
    DEF AdminInv, AdminTypeOK, Moment, Never, Grant, AdministratorsAssumption
  <2> QED
    BY <2>1, <2>3 DEF Tolerated, Within
<1> QED
  BY <1>1, <1>2, <1>3, <1>4, <1>5 DEF AdminInv

-----------------------------------------------------------------------------
(* A transaction finishes. *)

LEMMA FinishEffect ==
  ASSUME AdminTypeOK, NEW q \in serving, Finish(q)
  PROVE  /\ q \in Change /\ clock' = clock /\ changes' = changes + 1 /\ serving' = serving \ {q}
         /\ role' = Roles(q) /\ rule' = Rules(q) /\ exempt' = Exempts(q) /\ finding' = Findings(q)
         /\ \A u \in User, r \in Role : grant'[u][r] = GrantAfter(q, u, r)
         /\ noted' = Violations(q) /\ raced' = raced \cup Overtaken(q) /\ changes \in Nat
         /\ noted \subseteq noted' /\ excused \subseteq excused' /\ raced \subseteq raced'
         /\ q.op = "withdraw" => <<q.user, q.pair>> \in excused'
<1>1. q \in Change /\ changes \in Nat
  BY DEF AdminTypeOK
<1>2. \A u \in User, r \in Role : grant'[u][r] = GrantAfter(q, u, r)
  BY <1>1, GrantsShape DEF Finish
<1>3. noted \subseteq noted' /\ excused \subseteq excused' /\ raced \subseteq raced'
  BY DEF Finish, Violations
<1>4. q.op = "withdraw" => <<q.user, q.pair>> \in excused'
  BY DEF Finish
<1>5. /\ clock' = clock /\ changes' = changes + 1 /\ serving' = serving \ {q}
      /\ role' = Roles(q) /\ rule' = Rules(q) /\ exempt' = Exempts(q) /\ finding' = Findings(q)
      /\ noted' = Violations(q) /\ raced' = raced \cup Overtaken(q)
  BY DEF Finish
<1> QED
  BY <1>1, <1>2, <1>3, <1>4, <1>5

LEMMA FinishGrants ==
  ASSUME AdminInv, NEW q \in serving, Finish(q)
  PROVE  UngrantedIsEmpty' /\ NumbersGrow' /\ AbsentHasNothing'
<1>1. /\ q \in Change /\ changes \in Nat /\ changes' = changes + 1
      /\ \A u \in User, r \in Role : grant'[u][r] = GrantAfter(q, u, r)
  BY FinishEffect DEF AdminInv
<1>2. ASSUME NEW u \in User, NEW r \in Role
      PROVE  /\ \/ grant'[u][r] = grant[u][r]
                \/ grant'[u][r] = NoGrant
                \/ /\ grant'[u][r].id = changes + 2 /\ u = q.user
                   /\ q.op \in {"assign", "create", "scim_on"}
                \/ /\ grant'[u][r].id = grant[u][r].id /\ u = q.user /\ r = q.role
                   /\ q.op = "window"
             /\ grant[u][r].id \in Nat
  <2>1. grant[u][r].id \in Nat
    BY DEF AdminInv, AdminTypeOK, Grant
  <2>2. \A id, n, w : Given(id, n, w).id = id
    BY DEF Given
  <2>3. grant'[u][r] = GrantAfter(q, u, r)
    BY <1>1
  <2> QED
    BY <2>1, <2>2, <2>3 DEF GrantAfter, NewGrant
<1>3. NoGrant.id = 0
  BY DEF NoGrant
<1>4. q.op = "window" => Held(q.user, q.role)
  BY DEF AdminInv, GrantsChecksHold
<1>5. UngrantedIsEmpty'
  BY <1>1, <1>2, <1>4 DEF AdminInv, UngrantedIsEmpty, Held
<1>6. NumbersGrow'
  BY <1>1, <1>2, <1>3 DEF AdminInv, NumbersGrow
<1>7. AbsentHasNothing'
  <2> SUFFICES ASSUME NEW u \in User, account'[u] = "absent", NEW r \in Role, Held(u, r)'
               PROVE  FALSE
    BY DEF AbsentHasNothing
  <2>1. account[u] = "absent" /\ (q.op \in {"create", "scim_on"} => u # q.user)
    BY <1>1, AccountsShape DEF AdminInv
  <2>2. ~Held(u, r)
    BY <2>1 DEF AdminInv, AbsentHasNothing
  <2>3. q.op = "assign" => account[q.user] # "absent"
    BY DEF AdminInv, GrantsChecksHold
  <2> QED
    BY <1>2, <1>3, <1>4, <2>1, <2>2, <2>3 DEF Held
<1> QED
  BY <1>5, <1>6, <1>7

LEMMA FinishRoles ==
  ASSUME AdminInv, NEW q \in serving, Finish(q)
  PROVE  AssignedRolesLive' /\ FixedRolesLive'
<1>1. /\ q \in Change /\ role' = Roles(q) /\ raced \subseteq raced'
      /\ \A u \in User, r \in Role : grant'[u][r] = GrantAfter(q, u, r)
  BY FinishEffect DEF AdminInv
<1>2. /\ q.op = "create" => role[q.role].live \/ <<q.user, q.role>> \in raced
      /\ q.op = "assign" => role[q.role].live
      /\ q.op = "delete" => ~InUse(q.role)
      /\ q.op = "window" => Held(q.user, q.role)
  BY DEF AdminInv, GrantsChecksHold
<1>3. Viewer \in Role \ Custom
  BY AdministratorsAssumption DEF AdministratorsAssumption
<1>4. AssignedRolesLive'
  <2> SUFFICES ASSUME NEW u \in User, NEW r \in Role, Held(u, r)', ~role'[r].live
               PROVE  <<u, r>> \in raced
    BY <1>1 DEF AssignedRolesLive
  <2>1. CASE q.op = "delete" /\ r = q.role
    <3>1. grant'[u][r] = grant[u][r]
      BY <1>1, <2>1 DEF GrantAfter
    <3> QED
      BY <1>2, <2>1, <3>1 DEF InUse, Held
  <2>2. CASE ~(q.op = "delete" /\ r = q.role)
    <3>1. ~role[r].live
      BY <1>1, <2>2, RolesShape DEF AdminInv, OnRole
    <3>2. Held(u, r) => <<u, r>> \in raced
      BY <3>1 DEF AdminInv, AssignedRolesLive
    <3>3. grant'[u][r] # NoGrant
      BY DEF Held, NoGrant
    <3>4. CASE grant'[u][r] = grant[u][r]
      BY <3>2, <3>4 DEF Held
    <3>5. CASE q.op = "window" /\ u = q.user /\ r = q.role
      BY <1>2, <3>2, <3>5
    <3>6. CASE q.op \in {"assign", "create"} /\ u = q.user /\ r = q.role
      BY <1>2, <3>1, <3>6
    <3>7. CASE q.op = "scim_on" /\ r = Viewer
      BY <1>3, <3>1, <3>7 DEF AdminInv, FixedRolesLive
    <3> QED
      BY <1>1, <3>3, <3>4, <3>5, <3>6, <3>7 DEF GrantAfter
  <2> QED
    BY <2>1, <2>2
<1>5. FixedRolesLive'
  <2>1. ASSUME NEW r \in Role \ Custom PROVE role'[r].live
    <3>1. q.op \in OnRole => r # q.role
      BY <1>1, ChangeShape
    <3>2. role'[r] = role[r]
      BY <1>1, <3>1, RolesShape DEF AdminInv
    <3> QED
      BY <3>2 DEF AdminInv, FixedRolesLive
  <2> QED
    BY <2>1 DEF FixedRolesLive
<1> QED
  BY <1>4, <1>5

LEMMA FinishChecks ==
  ASSUME AdminInv, NEW q \in serving, Finish(q)
  PROVE  GrantsChecksHold'
<1>1. /\ q \in Change /\ role' = Roles(q) /\ raced' = raced \cup Overtaken(q)
      /\ serving' = serving \ {q} /\ serving \subseteq Change
  BY FinishEffect DEF AdminInv, AdminTypeOK
<1>2. \A u \in User : account[u] # "absent" => account'[u] # "absent"
  BY <1>1, AccountsShape DEF AdminInv
<1>3. ASSUME NEW s \in serving, s # q, LocksOrganization(s)
      PROVE  /\ s.op = "assign" => role'[s.role].live
             /\ s.op = "window" => Held(s.user, s.role)'
             /\ s.op = "delete" => ~InUse(s.role)'
             /\ s.op = "revoke" => SameSnapshot(s.user, s.role, finding[s.user][s.role])'
             /\ s.op \in {"assign", "window"} => RespectsRules(s.user, s.role, s.term)'
             /\ s.op = "scim_on" => RespectsRules(s.user, Viewer, Permanent)'
             /\ s.op \in {"request", "reject"} => exempt'[s.user][s.pair].status # "approved"
  <2>1. UNCHANGED <<clock, role, grant, rule, exempt, finding>>
    BY <1>3, OthersWait DEF AdminInv
  <2>2. /\ Held(s.user, s.role)' <=> Held(s.user, s.role)
        /\ InUse(s.role)' <=> InUse(s.role)
        /\ SameSnapshot(s.user, s.role, finding[s.user][s.role])'
             <=> SameSnapshot(s.user, s.role, finding[s.user][s.role])
        /\ RespectsRules(s.user, s.role, s.term)' <=> RespectsRules(s.user, s.role, s.term)
        /\ RespectsRules(s.user, Viewer, Permanent)' <=> RespectsRules(s.user, Viewer, Permanent)
    BY <2>1 DEF Held, InUse, SameSnapshot, RespectsRules, Enabled
  <2> QED
    BY <2>1, <2>2 DEF AdminInv, GrantsChecksHold
<1>4. ASSUME NEW s \in serving, s # q, s.op = "create"
      PROVE  /\ account'[s.user] = "absent"
             /\ role'[s.role].live \/ <<s.user, s.role>> \in raced'
  <2>1. /\ s.user \in User /\ s.role \in Role
        /\ s = [op |-> "create", user |-> s.user, role |-> s.role]
    BY <1>1, <1>4, ChangeShape DEF OnGrant
  <2>2. /\ account[s.user] = "absent"
        /\ role[s.role].live \/ <<s.user, s.role>> \in raced
        /\ q.op \in OnAccount => account[q.user] # "absent"
    BY <1>4 DEF AdminInv, GrantsChecksHold
  <2>3. q.op \in OnAccount \cup {"create"} => q.user # s.user
    BY <1>4, <2>2 DEF AdminInv, OneCreates
  <2>4. account'[s.user] = "absent"
    BY <1>1, <2>1, <2>2, <2>3, AccountsShape DEF AdminInv, OnAccount
  <2>5. CASE q.op = "delete" /\ q.role = s.role
    <3>1. <<s.user, s.role>> \in Overtaken(q)
      BY <2>1, <2>5 DEF Overtaken
    <3> QED
      BY <1>1, <2>4, <3>1
  <2>6. CASE ~(q.op = "delete" /\ q.role = s.role)
    <3>1. role'[s.role].live = role[s.role].live
      BY <1>1, <2>1, <2>6, RolesShape DEF AdminInv, OnRole
    <3> QED
      BY <1>1, <2>2, <2>4, <3>1
  <2> QED
    BY <2>4, <2>5, <2>6
<1>5. ASSUME NEW s \in serving, s # q, s.op \in OnAccount \cup {"assign", "window"}
      PROVE  account'[s.user] # "absent"
  <2>1. account[s.user] # "absent" /\ s.user \in User
    BY <1>1, <1>5, ChangeShape DEF AdminInv, GrantsChecksHold, OnGrant
  <2> QED
    BY <1>2, <2>1
<1>6. \A s \in serving : s.op \in {"assign", "window", "delete", "revoke", "scim_on", "request", "reject"}
        => LocksOrganization(s)
  BY DEF LocksOrganization
<1> QED
  BY <1>1, <1>3, <1>4, <1>5, <1>6 DEF GrantsChecksHold

LEMMA FinishSpares ==
  ASSUME AdminInv, NEW q \in serving, Finish(q), AdminTypeOK'
  PROVE  KeepsAnAdministrator' /\ Spares'
<1>1. KeepsAnAdministrator'
  BY FinishEffect, FinishKeeps DEF AdminInv, Spares
<1>2. ASSUME NEW s \in serving, s # q
      PROVE  Backup(User \ Gone(s), Lost(s))'
  <2>1. PICK U \in SUBSET User : U = User \ Gone(s)
    OBVIOUS
  <2>2. PICK lost : lost = Lost(s)
    OBVIOUS
  <2>3. (User \ Gone(s))' = U /\ Lost(s)' = lost
    BY <2>1, <2>2 DEF Gone, Lost
  <2>4. CASE LocksOrganization(s)
    <3>1. /\ UNCHANGED <<clock, role, grant, rule>>
          /\ \A u \in User : account[u] = "active" => account'[u] = "active"
      BY <1>2, <2>4, OthersWait DEF AdminInv
    <3>2. clock <= clock'
      BY <3>1, AdministratorsAssumption DEF AdminInv, AdminTypeOK, Moment, AdministratorsAssumption
    <3>3. Backup(U, lost)
      BY <2>1, <2>2 DEF AdminInv, Spares
    <3>4. Backup(U, lost)'
      BY <3>1, <3>2, <3>3, BackupCarries DEF AdminInv
    <3> QED
      BY <2>3, <3>4
  <2>5. CASE ~LocksOrganization(s)
    <3>1. U = User /\ lost = {}
      BY <2>1, <2>2, <2>5 DEF LocksOrganization, Gone, Lost
    <3> QED
      BY <1>1, <2>3, <3>1 DEF KeepsAnAdministrator
  <2> QED
    BY <2>4, <2>5
<1>3. serving' = serving \ {q}
  BY FinishEffect DEF AdminInv
<1> QED
  BY <1>1, <1>2, <1>3 DEF Spares

\* An exception that is in force stays in force, or its withdrawal is on record.
LEMMA FinishExemptions ==
  ASSUME AdminInv, NEW q \in serving, Finish(q), NEW u \in User, NEW p \in Pair,
         <<u, p>> \notin excused', exempt[u][p].status = "approved"
  PROVE  /\ exempt'[u][p].status = "approved"
         /\ exempt'[u][p].from = exempt[u][p].from /\ exempt'[u][p].until = exempt[u][p].until
<1>1. /\ q \in Change /\ exempt' = Exempts(q)
      /\ q.op = "withdraw" => <<q.user, q.pair>> \in excused'
  BY FinishEffect DEF AdminInv
<1>2. exempt'[u][p] = ExemptAfter(q, u, p)
  BY <1>1, ExemptsShape DEF AdminInv
<1>3. q.op \in {"request", "reject", "withdraw"} => u # q.user \/ p # q.pair
  BY <1>1 DEF AdminInv, GrantsChecksHold
<1>4. exempt'[u][p] \in {exempt[u][p], Exempted("approved", exempt[u][p])}
  BY <1>2, <1>3 DEF ExemptAfter
<1>5. LET e == Exempted("approved", exempt[u][p]) IN
      e.status = "approved" /\ e.from = exempt[u][p].from /\ e.until = exempt[u][p].until
  BY DEF Exempted
<1> QED
  BY <1>4, <1>5

LEMMA PairShape ==
  ASSUME NEW p \in Pair, NEW r \in p, NEW s \in p, r # s
  PROVE  r \in Role /\ s \in Role /\ p = {r, s}
<1>1. PICK a, b \in Role : p = {a, b}
  BY AdministratorsAssumption DEF AdministratorsAssumption
<1> QED
  BY <1>1

\* A new assignment respects the rules in force.
LEMMA FinishRespects ==
  ASSUME AdminInv, NEW q \in serving, Finish(q), NEW u \in User, NEW p \in Pair, Enabled(p),
         NEW r \in p, NEW s \in p, r # s, grant'[u][r] # grant[u][r],
         Held(u, r)', Held(u, s)', Overlap(grant'[u][r], grant'[u][s])
  PROVE  /\ exempt[u][p].status = "approved"
         /\ Within(grant'[u][r], grant'[u][s], exempt[u][p])
<1>1. /\ q \in Change /\ r \in Role /\ s \in Role
      /\ \A t \in Role : grant'[u][t] = GrantAfter(q, u, t)
  BY FinishEffect, PairShape DEF AdminInv
<1>2. /\ grant'[u][r] # NoGrant /\ grant'[u][s] # NoGrant
  BY DEF Held, NoGrant
<1>3. PICK w : w = CASE q.op \in {"assign", "window"} -> q.term [] OTHER -> Permanent
  OBVIOUS
<1>4. /\ u = q.user
      /\ \/ q.op \in {"assign", "create", "window"} /\ r = q.role
         \/ q.op = "scim_on" /\ r = Viewer
      /\ grant'[u][s] = grant[u][s]
      /\ \E id, n : grant'[u][r] = Given(id, n, w)
  BY <1>1, <1>2, <1>3 DEF GrantAfter, NewGrant
<1>5. Held(u, s)
  BY <1>4 DEF Held
<1>6. q.op # "create"
  BY <1>1, <1>4, <1>5 DEF AdminInv, GrantsChecksHold, AbsentHasNothing
<1>7. RespectsRules(u, r, w)
  BY <1>3, <1>4, <1>6 DEF AdminInv, GrantsChecksHold
<1>8. grant'[u][r].from = w.from /\ grant'[u][r].until = w.until
  BY <1>4 DEF Given
<1>9. Overlap(w, grant[u][s])
  BY <1>4, <1>8 DEF Overlap
<1>10. exempt[u][p].status = "approved" /\ Within(w, grant[u][s], exempt[u][p])
  BY <1>5, <1>7, <1>9 DEF RespectsRules
<1> QED
  BY <1>4, <1>8, <1>10 DEF Within

LEMMA FinishConflicts ==
  ASSUME AdminInv, NEW q \in serving, Finish(q)
  PROVE  ConflictsTolerated'
<1> SUFFICES ASSUME NEW u \in User, NEW p \in Pair, Enabled(p)', <<u, p>> \notin noted' \cup excused',
                    NEW r \in p, NEW s \in p, r # s, Held(u, r)', Held(u, s)',
                    Overlap(grant'[u][r], grant'[u][s])
             PROVE  Tolerated(grant[u][r], grant[u][s], exempt[u][p], p)'
  BY DEF ConflictsTolerated, Overlap
<1>1. /\ q \in Change /\ changes \in Nat /\ clock' = clock
      /\ rule' = Rules(q) /\ noted' = Violations(q)
      /\ noted \subseteq noted' /\ excused \subseteq excused'
      /\ \A t \in Role : grant'[u][t] = GrantAfter(q, u, t)
  BY FinishEffect DEF AdminInv
<1>2. /\ r \in Role /\ s \in Role /\ p = {r, s}
      /\ grant[u][r] \in Grant /\ grant[u][s] \in Grant
  BY PairShape DEF AdminInv, AdminTypeOK
<1>3. CASE q.op = "forbid" /\ p = q.pair
  <2>1. rule'[p].number = changes + 2 /\ rule'[p].since = clock
    BY <1>1, <1>3, RulesShape DEF AdminInv
  <2>2. grant'[u][r] = grant[u][r] /\ grant'[u][s] = grant[u][s]
    BY <1>1, <1>2, <1>3 DEF GrantAfter
  <2>3. ~Conflicted(u, p)
    BY <1>1, <1>3 DEF Violations
  <2>4. ~Contains(grant[u][r], clock) \/ ~Contains(grant[u][s], clock)
    BY <1>2, <2>3 DEF Conflicted
  <2>5. grant[u][r].id < changes + 2 /\ grant[u][s].id < changes + 2
    BY <1>2 DEF AdminInv, NumbersGrow
  <2>6. /\ clock \in Int /\ grant[u][r].from \in Int /\ grant[u][s].from \in Int
        /\ grant[u][r].until \in Int /\ grant[u][s].until \in Int
    BY <1>2, AdministratorsAssumption
    DEF AdminInv, AdminTypeOK, Moment, Never, Grant, AdministratorsAssumption
  <2> QED
    BY <1>1, <2>1, <2>2, <2>4, <2>5, <2>6 DEF Tolerated, Contains
<1>4. CASE ~(q.op = "forbid" /\ p = q.pair)
  <2>1. rule'[p] = rule[p] /\ Enabled(p)
    BY <1>1, <1>4, RulesShape DEF AdminInv, Enabled
  <2>2. <<u, p>> \notin noted \cup excused /\ <<u, p>> \notin excused'
    BY <1>1
  <2>3. CASE grant'[u][r] = grant[u][r] /\ grant'[u][s] = grant[u][s]
    <3>1. Tolerated(grant[u][r], grant[u][s], exempt[u][p], p)
      BY <2>1, <2>2, <2>3 DEF AdminInv, ConflictsTolerated, Held
    <3>2. CASE exempt[u][p].status = "approved" /\ Within(grant[u][r], grant[u][s], exempt[u][p])
      BY <2>2, <2>3, <3>2, FinishExemptions DEF Tolerated, Within
    <3> QED
      BY <1>1, <2>1, <2>3, <3>1, <3>2 DEF Tolerated
  <2>4. ASSUME exempt[u][p].status = "approved", Within(grant'[u][r], grant'[u][s], exempt[u][p])
        PROVE  Tolerated(grant[u][r], grant[u][s], exempt[u][p], p)'
    BY <2>2, <2>4, FinishExemptions DEF Tolerated, Within
  <2>5. CASE grant'[u][r] # grant[u][r]
    BY <2>1, <2>4, <2>5, FinishRespects
  <2>6. CASE grant'[u][s] # grant[u][s]
    <3>1. Overlap(grant'[u][s], grant'[u][r])
      BY DEF Overlap
    <3>2. exempt[u][p].status = "approved" /\ Within(grant'[u][s], grant'[u][r], exempt[u][p])
      BY <2>1, <2>6, <3>1, FinishRespects
    <3>3. Within(grant'[u][r], grant'[u][s], exempt[u][p])
      BY <3>2 DEF Within
    <3> QED
      BY <2>4, <3>2, <3>3
  <2> QED
    BY <2>3, <2>5, <2>6
<1> QED
  BY <1>3, <1>4

LEMMA FinishStep ==
  ASSUME AdminInv, NEW q \in serving, Finish(q), AdminTypeOK'
  PROVE  AdminInv'
<1>1. OneLock' /\ OneCreates'
  BY FinishEffect DEF AdminInv, OneLock, OneCreates
<1> QED
  BY <1>1, FinishGrants, FinishRoles, FinishChecks, FinishSpares, FinishConflicts DEF AdminInv

LEMMA AdminInvPreserved ==
  ASSUME AdminInv, [AdminNext]_adminVars PROVE AdminInv'
<1>1. AdminTypeOK' /\ clock \in Int
  BY AdminTypeOKPreserved, AdministratorsAssumption
  DEF AdminInv, AdminTypeOK, Moment, AdministratorsAssumption
<1>2. CASE UNCHANGED adminVars
  BY <1>1, <1>2, NothingChanges DEF adminVars
<1>3. CASE Pass
  BY <1>1, <1>3, NothingChanges DEF Pass
<1>4. CASE \E q \in Change : Serve(q)
  BY <1>1, <1>4, ServeStep
<1>5. CASE \E q \in serving : Finish(q)
  BY <1>1, <1>5, FinishStep
<1>6. CASE \E q \in serving : ChangeFails(q)
  BY <1>1, <1>6, NothingChanges DEF ChangeFails
<1> QED
  BY <1>2, <1>3, <1>4, <1>5, <1>6 DEF AdminNext

\* What the open transactions rely on holds in every state.
THEOREM AdministratorsInvariant == AdminSpec => []AdminInv
<1>1. AdminInit => AdminInv
  BY AdminInvHolds
<1>2. AdminInv /\ [AdminNext]_adminVars => AdminInv'
  BY AdminInvPreserved
<1> QED
  BY <1>1, <1>2, PTL DEF AdminSpec

\* No order of suspensions, removals, edits, timed assignments and rules takes the
\* last lasting administrator from a tenant.
THEOREM NeverLockedOut == AdminSpec => []KeepsAnAdministrator
<1>1. AdminInv => KeepsAnAdministrator
  BY DEF AdminInv
<1> QED
  BY <1>1, AdministratorsInvariant, PTL

\* An assigned role exists, unless it was deleted while the account was created.
THEOREM AssignmentsAreOfRoles == AdminSpec => []AssignedRolesLive
<1>1. AdminInv => AssignedRolesLive
  BY DEF AdminInv
<1> QED
  BY <1>1, AdministratorsInvariant, PTL

\* A conflict that no exception covers was recorded, or an exception of it was
\* revoked, or it began with assignments that the rule found with later windows.
THEOREM ConflictsAreExplained == AdminSpec => []ConflictsAreOnRecord
<1>1. ASSUME AdminInv, NEW u \in User, NEW p \in Pair, Enabled(p), Conflicted(u, p),
             ~Covered(u, p), <<u, p>> \notin noted \cup excused
      PROVE  /\ \A r \in p : grant[u][r].id < rule[p].number
             /\ \E r \in p : grant[u][r].from > rule[p].since
  <2>1. PICK r \in p, s \in p : r # s
    BY AdministratorsAssumption DEF AdministratorsAssumption
  <2>2. r \in Role /\ s \in Role /\ p = {r, s}
    BY <2>1, PairShape
  <2>3. /\ Contains(grant[u][r], clock) /\ Contains(grant[u][s], clock)
        /\ grant[u][r] # NoGrant /\ grant[u][s] # NoGrant
    <3>1. \A t \in p : Contains(grant[u][t], clock)
      BY <1>1 DEF Conflicted
    <3>2. ~Contains(NoGrant, clock)
      BY <1>1, AdministratorsAssumption
      DEF AdminInv, AdminTypeOK, Moment, NoGrant, Contains, AdministratorsAssumption
    <3> QED
      BY <3>1, <3>2
  <2>4. Held(u, r) /\ Held(u, s)
    BY <1>1, <2>2, <2>3 DEF AdminInv, UngrantedIsEmpty
  <2>5. /\ clock \in Int /\ grant[u][r].from \in Int /\ grant[u][s].from \in Int
        /\ grant[u][r].until \in Int /\ grant[u][s].until \in Int
        /\ exempt[u][p].from \in Int /\ exempt[u][p].until \in Int
    BY <1>1, <2>2, AdministratorsAssumption
    DEF AdminInv, AdminTypeOK, Moment, Never, Grant, Exemption, AdministratorsAssumption
  <2>6. Overlap(grant[u][r], grant[u][s])
    BY <2>3, <2>5 DEF Overlap, Contains
  <2>7. Tolerated(grant[u][r], grant[u][s], exempt[u][p], p)
    BY <1>1, <2>1, <2>4, <2>6 DEF AdminInv, ConflictsTolerated
  <2>8. ~(exempt[u][p].status = "approved" /\ Within(grant[u][r], grant[u][s], exempt[u][p]))
    BY <1>1, <2>3, <2>5 DEF Covered, Contains, Within
  <2> QED
    BY <2>2, <2>3, <2>5, <2>7, <2>8 DEF Tolerated, Contains
<1>2. AdminInv => ConflictsAreOnRecord
  BY <1>1 DEF ConflictsAreOnRecord
<1> QED
  BY <1>2, AdministratorsInvariant, PTL

\* A review revokes what the reviewer was shown, not what has replaced it.
THEOREM ReviewsRevokeWhatTheySaw == AdminSpec => RevokedAsReviewed
<1> DEFINE Step ==
      \A u \in User, r \in Role :
        finding'[u][r].decision = "revoke" /\ finding[u][r].decision = "open" =>
          /\ finding[u][r].id = grant[u][r].id /\ finding[u][r].version = grant[u][r].version
          /\ finding[u][r].edition = role[r].version
<1>1. ASSUME AdminInv, NEW q \in serving, Finish(q) PROVE Step
  <2>1. q \in Change /\ finding' = Findings(q)
    BY <1>1, FinishEffect DEF AdminInv
  <2>2. q.op = "revoke" => SameSnapshot(q.user, q.role, finding[q.user][q.role])
    BY <1>1 DEF AdminInv, GrantsChecksHold
  <2> QED
    BY <1>1, <2>1, <2>2, FindingsShape DEF AdminInv, SameSnapshot
<1>2. ASSUME UNCHANGED finding PROVE Step
  BY <1>2
<1>3. AdminInv /\ [AdminNext]_adminVars => [Step]_adminVars
  <2> SUFFICES ASSUME AdminInv, AdminNext PROVE Step
    OBVIOUS
  <2>1. (\E q \in serving : Finish(q)) \/ UNCHANGED finding
    BY DEF AdminNext, Pass, Serve, ChangeFails
  <2> QED
    BY <1>1, <1>2, <2>1
<1> QED
  BY <1>3, AdministratorsInvariant, PTL DEF AdminSpec, RevokedAsReviewed
=============================================================================
