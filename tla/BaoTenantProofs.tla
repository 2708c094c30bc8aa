-------------------------- MODULE BaoTenantProofs --------------------------
(***************************************************************************)
(* Theorems about BaoTenant, for every set of callers and names and every  *)
(* bound.                                                                  *)
(***************************************************************************)
EXTENDS BaoTenant, TLAPS

(* Provisioning and removal of one tenant take turns. *)
KindsApart ==
  \A o, p \in Operators :
    pc[o] \in ProvisionCalls /\ pc[p] \in DeprovisionCalls => name[o] # name[p]

(* What a call may rely on that those before it have done. *)
Progress ==
  \A o \in Operators :
    /\ pc[o] \in ProvisionCalls => name[o] \notin gone
    /\ pc[o] = "writeRole" => name[o] \in policy
    /\ pc[o] \in {"deletePolicy", "deleteMetadata"} => name[o] \notin role
    /\ pc[o] = "deleteMetadata" => name[o] \notin policy
    /\ pc[o] \in DeprovisionCalls /\ name[o] \notin gone => life[name[o]] < MaxLives

GoneIsGone == \A t \in gone : t \notin role /\ t \notin policy

(* The inductive invariant. *)
Inv == TypeOK /\ KindsApart /\ Progress /\ GoneIsGone /\ RoleHasPolicy

(* Each call of ProvisionTenant and DeprovisionTenant, and each step of a  *)
(* tenant's programs, keeps it.                                            *)
LEMMA InvStep ==
  ASSUME TakeTurns = TRUE, Inv, [Next]_vars
  PROVE  Inv'
<1> USE BaoTenantAssumption
<1> USE DEF Inv, TypeOK, KindsApart, Progress, GoneIsGone, RoleHasPolicy,
            ProvisionCalls, DeprovisionCalls, Lives, Goto, server
<1>1. ASSUME NEW o \in Operators, NEW t \in Names, StartProvision(o, t) PROVE Inv'
  BY <1>1 DEF StartProvision, Free
<1>2. ASSUME NEW o \in Operators, NEW t \in Names, StartDeprovision(o, t) PROVE Inv'
  BY <1>2 DEF StartDeprovision, Free
<1>3. ASSUME NEW o \in Operators, PutPolicy(o) PROVE Inv'
  BY <1>3 DEF PutPolicy
<1>4. ASSUME NEW o \in Operators, WriteRole(o) PROVE Inv'
  BY <1>4 DEF WriteRole
<1>5. ASSUME NEW o \in Operators, DeleteRole(o) PROVE Inv'
  BY <1>5 DEF DeleteRole
<1>6. ASSUME NEW o \in Operators, DeletePolicy(o) PROVE Inv'
  BY <1>6 DEF DeletePolicy
<1>7. ASSUME NEW o \in Operators, DeleteMetadata(o) PROVE Inv'
  BY <1>7 DEF DeleteMetadata
<1>8. ASSUME NEW o \in Operators, Fault(o) PROVE Inv'
  BY <1>8 DEF Fault
<1>9. ASSUME NEW t \in Names, Login(t) \/ WriteSecret(t) \/ Expire(t) PROVE Inv'
  BY <1>9 DEF Login, WriteSecret, Expire, HasAccess
<1>10. CASE UNCHANGED vars
  BY <1>10 DEF vars
<1> HIDE DEF Inv
<1>11. QED
  BY <1>1, <1>2, <1>3, <1>4, <1>5, <1>6, <1>7, <1>8, <1>9, <1>10 DEF Next

(* It holds in every reachable state.                                      *)
LEMMA Invariance ==
  ASSUME TakeTurns = TRUE
  PROVE  Spec => []Inv
<1>1. Init => Inv
  <2> SUFFICES ASSUME Init PROVE Inv
    OBVIOUS
  <2>1. TypeOK
    BY BaoTenantAssumption DEF Init, TypeOK, Lives
  <2>2. KindsApart /\ Progress /\ GoneIsGone /\ RoleHasPolicy
    BY DEF Init, KindsApart, Progress, GoneIsGone, RoleHasPolicy,
           ProvisionCalls, DeprovisionCalls
  <2>3. QED
    BY <2>1, <2>2 DEF Inv
<1>2. Inv /\ [Next]_vars => Inv'
  BY InvStep
<1>3. QED
  BY <1>1, <1>2, PTL DEF Spec

(* While callers take turns the variables keep their types: a removal that *)
(* is under way can always be counted, whatever removals of the same       *)
(* tenant overlap it (bao.go, DeprovisionTenant).                          *)
THEOREM TypeCorrect ==
  ASSUME TakeTurns = TRUE
  PROVE  Spec => []TypeOK
<1>1. Inv => TypeOK
  BY DEF Inv
<1>2. QED
  BY <1>1, Invariance, PTL

(* While nobody provisions a tenant that somebody else removes, no login   *)
(* role is without its policy, whichever calls fail: the policy is written *)
(* before the role and the role deleted before the policy (bao.go,         *)
(* ProvisionTenant and DeprovisionTenant).                                 *)
THEOREM RolesHavePolicies ==
  ASSUME TakeTurns = TRUE
  PROVE  Spec => []RoleHasPolicy
<1>1. Inv => RoleHasPolicy
  BY DEF Inv
<1>2. QED
  BY <1>1, Invariance, PTL

(* A removal that succeeded leaves no way to the tenant's secrets until    *)
(* the name is provisioned again, whichever removals failed before, while  *)
(* callers take turns (DeprovisionTenant).                                 *)
THEOREM RemovalEndsAccess ==
  ASSUME TakeTurns = TRUE
  PROVE  Spec => []RemovedHasNoAccess
<1>1. Inv => RemovedHasNoAccess
  BY DEF Inv, GoneIsGone, RemovedHasNoAccess, HasAccess
<1>2. QED
  BY <1>1, Invariance, PTL

=============================================================================
