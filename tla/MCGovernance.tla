----------------------------- MODULE MCGovernance -----------------------------
(***************************************************************************)
(* Model checking of Governance, of PolicyApproval, of Administrators and, *)
(* for safety, of NotificationDelivery in one run.  They share no variable *)
(* and no constant: a behaviour is one of a single module, chosen with its *)
(* initial state, while the variables of the others keep theirs.           *)
(***************************************************************************)
EXTENDS Governance, PolicyApproval, Administrators, NotificationDelivery

Windows == {[from |-> 0, until |-> 1], [from |-> 1, until |-> 2]}

VARIABLE part

governanceVars == <<part, govVars, policyVars, adminVars, vars>>

Governs(A) == part = "governance" /\ A /\ UNCHANGED <<part, policyVars, adminVars, vars>>

Approves(A) == part = "policy" /\ A /\ UNCHANGED <<part, govVars, adminVars, vars>>

Administers(A) == part = "administrators" /\ A /\ UNCHANGED <<part, govVars, policyVars, vars>>

Notifies(A) == part = "delivery" /\ A /\ UNCHANGED <<part, govVars, policyVars, adminVars>>

\* Administrators has several initial states; the others need one of them.
GovernanceInit ==
  /\ GovInit /\ PolicyInit /\ AdminInit /\ Init
  /\ part \in {"governance", "policy", "administrators", "delivery"}
  /\ part # "administrators" => /\ NoRules /\ NoReview
                                /\ \A u \in User \ {Founder} : account[u] = "absent"

GovernanceNext ==
  Governs(GovNext) \/ Approves(PolicyNext) \/ Administers(AdminNext) \/ Notifies(Next)

GovernanceSpec == GovernanceInit /\ [][GovernanceNext]_governanceVars

\* Every variable has its type.
TypesOK == GovTypeOK /\ PolicyTypeOK /\ AdminTypeOK /\ TypeOK
=============================================================================
