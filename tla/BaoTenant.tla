----------------------------- MODULE BaoTenant -----------------------------
(***************************************************************************)
(* bao.Client.ProvisionTenant and DeprovisionTenant: the policy, the login *)
(* role and the secrets of a tenant in the main OpenBao server, one action *)
(* per API call.  No command calls them yet; the operators here are their  *)
(* callers.                                                                *)
(*                                                                         *)
(* The tenant's pods log in through the role, hold a token for up to 24    *)
(* hours and read and write secrets with it.  A token names the policy, it *)
(* does not contain it.  A tenant of the same name that comes after a      *)
(* removal is another customer: lives are counted per name.                *)
(***************************************************************************)
EXTENDS Naturals

CONSTANTS
  Operators,  \* callers of the two methods
  Names,      \* names of tenants
  TakeTurns,  \* TRUE: callers do not provision what another one removes
  MaxLives,   \* bound: removals of a tenant of one name
  MaxFaults   \* bound: calls that fail

ASSUME BaoTenantAssumption ==
  TakeTurns \in BOOLEAN /\ MaxLives \in Nat /\ MaxFaults \in Nat

Lives           == 0 .. MaxLives
ProvisionCalls  == {"putPolicy", "writeRole"}
DeprovisionCalls == {"deleteRole", "deletePolicy", "deleteMetadata"}

VARIABLES
  policy,   \* tenants whose policy exists
  role,     \* tenants whose login role exists
  secrets,  \* per tenant: the lives that have secrets under customers/<name>/
  tokens,   \* per tenant: the lives that hold tokens that have not expired
  life,     \* per tenant: removals so far
  gone,     \* tenants removed and not provisioned again since
  pc,       \* next call of each operator
  name,     \* the tenant it is about
  faults    \* faults so far

server == <<policy, role, secrets, tokens>>
vars   == <<server, life, gone, pc, name, faults>>

TypeOK ==
  /\ policy \subseteq Names /\ role \subseteq Names /\ gone \subseteq Names
  /\ secrets \in [Names -> SUBSET Lives] /\ tokens \in [Names -> SUBSET Lives]
  /\ life \in [Names -> Lives]
  /\ pc \in [Operators -> {"idle"} \cup ProvisionCalls \cup DeprovisionCalls]
  /\ name \in [Operators -> Names]
  /\ faults \in 0 .. MaxFaults

Init ==
  /\ policy = {} /\ role = {} /\ gone = {}
  /\ secrets = [t \in Names |-> {}] /\ tokens = [t \in Names |-> {}]
  /\ life = [t \in Names |-> 0]
  /\ pc = [o \in Operators |-> "idle"]
  /\ name \in [Operators -> Names]
  /\ faults = 0

Goto(o, label) == pc' = [pc EXCEPT ![o] = label]

(* Nobody is at the other of the two methods for tenant t.                 *)
Free(t, others) == \A p \in Operators : name[p] = t => pc[p] \notin others

(* A token of life i for tenant t gives access. *)
HasAccess(t, i) == i \in tokens[t] /\ t \in policy

-----------------------------------------------------------------------------
(* ProvisionTenant. *)

(* The methods themselves do not wait for each other: with TakeTurns their *)
(* callers do, for provisioning and removal of one tenant, while two of a  *)
(* kind may overlap all the same.                                          *)
StartProvision(o, t) ==
  /\ pc[o] = "idle" /\ (TakeTurns => Free(t, DeprovisionCalls))
  /\ name' = [name EXCEPT ![o] = t]
  /\ gone' = gone \ {t}
  /\ Goto(o, "putPolicy")
  /\ UNCHANGED <<server, life, faults>>

(* Variant: an error of this call is ignored, like those in deploy.go. *)
PutPolicyIgnored(o) ==
  /\ pc[o] = "putPolicy"
  /\ \/ policy' = policy \cup {name[o]} /\ UNCHANGED faults
     \/ faults < MaxFaults /\ faults' = faults + 1 /\ UNCHANGED policy
  /\ Goto(o, "writeRole")
  /\ UNCHANGED <<role, secrets, tokens, life, gone, name>>

PutPolicy(o) ==
  /\ pc[o] = "putPolicy"
  /\ policy' = policy \cup {name[o]}
  /\ Goto(o, "writeRole")
  /\ UNCHANGED <<role, secrets, tokens, life, gone, name, faults>>

WriteRole(o) ==
  /\ pc[o] = "writeRole"
  /\ role' = role \cup {name[o]}
  /\ Goto(o, "idle")
  /\ UNCHANGED <<policy, secrets, tokens, life, gone, name, faults>>

-----------------------------------------------------------------------------
(* DeprovisionTenant.  Deleting what is not there is no error. *)

StartDeprovision(o, t) ==
  /\ pc[o] = "idle" /\ (TakeTurns => Free(t, ProvisionCalls))
  /\ life[t] < MaxLives
  /\ name' = [name EXCEPT ![o] = t]
  /\ Goto(o, "deleteRole")
  /\ UNCHANGED <<server, life, gone, faults>>

DeleteRole(o) ==
  /\ pc[o] = "deleteRole"
  /\ role' = role \ {name[o]}
  /\ Goto(o, "deletePolicy")
  /\ UNCHANGED <<policy, secrets, tokens, life, gone, name, faults>>

(* Variant: the policy is taken to go with the role. *)
DeletePolicyNot(o) ==
  /\ pc[o] = "deletePolicy"
  /\ Goto(o, "deleteMetadata")
  /\ UNCHANGED <<server, life, gone, name, faults>>

DeletePolicy(o) ==
  /\ pc[o] = "deletePolicy"
  /\ policy' = policy \ {name[o]}
  /\ Goto(o, "deleteMetadata")
  /\ UNCHANGED <<role, secrets, tokens, life, gone, name, faults>>

(* The last call deletes the metadata of the path customers/<name>.  The   *)
(* tenant's secrets are at paths below that one, each with metadata of its *)
(* own, and stay.                                                          *)
DeleteMetadata(o) ==
  /\ pc[o] = "deleteMetadata"
  /\ life' = [life EXCEPT ![name[o]] = IF name[o] \in gone THEN @ ELSE @ + 1]
  /\ gone' = gone \cup {name[o]}
  /\ Goto(o, "idle")
  /\ UNCHANGED <<server, name, faults>>

(* A call fails, and with it the method; nothing is undone. *)
Fault(o) ==
  /\ pc[o] # "idle"
  /\ faults < MaxFaults /\ faults' = faults + 1
  /\ Goto(o, "idle")
  /\ UNCHANGED <<server, life, gone, name>>

-----------------------------------------------------------------------------
(* The tenant's pods; the server. *)

Login(t) ==
  /\ t \in role
  /\ tokens' = [tokens EXCEPT ![t] = @ \cup {life[t]}]
  /\ UNCHANGED <<policy, role, secrets, life, gone, pc, name, faults>>

WriteSecret(t) ==
  /\ \E i \in Lives : HasAccess(t, i) /\ secrets' = [secrets EXCEPT ![t] = @ \cup {i}]
  /\ UNCHANGED <<policy, role, tokens, life, gone, pc, name, faults>>

Expire(t) ==
  /\ \E i \in tokens[t] : tokens' = [tokens EXCEPT ![t] = @ \ {i}]
  /\ UNCHANGED <<policy, role, secrets, life, gone, pc, name, faults>>

Next ==
  \/ \E o \in Operators :
       \/ \E t \in Names : StartProvision(o, t) \/ StartDeprovision(o, t)
       \/ PutPolicy(o) \/ WriteRole(o)
       \/ DeleteRole(o) \/ DeletePolicy(o) \/ DeleteMetadata(o) \/ Fault(o)
  \/ \E t \in Names : Login(t) \/ WriteSecret(t) \/ Expire(t)

Spec == Init /\ [][Next]_vars

-----------------------------------------------------------------------------
(* Properties. *)

(* While callers take turns, whatever fails, nobody can log in to a tenant *)
(* without a policy: a token issued then would be good for nothing for as  *)
(* long as it lives.  The policy is written before the role (bao.go:45     *)
(* before :52) and deleted after it (bao.go:69 before :76).                *)
RoleHasPolicy == role \subseteq policy

(* When DeprovisionTenant has succeeded, tokens that are still alive open  *)
(* nothing and no new ones can be had, until the name is provisioned again *)
(* (bao.go:65).                                                            *)
RemovedHasNoAccess ==
  \A t \in gone : t \notin role /\ \A i \in Lives : ~HasAccess(t, i)

(* bao.go:81, "Delete Key-Value v2 metadata to purge secrets under         *)
(* customers/name": after a removal there are none.                        *)
RemovalPurges == \A t \in gone : secrets[t] = {}

=============================================================================
