--------------------------- MODULE TenantManager ---------------------------
(***************************************************************************)
(* tenant.Manager: Add, Remove and List, as run by `bifrost tenant`.       *)
(*                                                                         *)
(* A tenant has no record of its own.  It is a namespace with two labels   *)
(* and eight objects in it; Add creates them with nine API calls and stops *)
(* at the first error, Remove deletes the namespace, List reads labels.    *)
(* Commands of several operators interleave call by call, and a call that  *)
(* fails leaves behind what the calls before it created.                   *)
(*                                                                         *)
(* The API server and the namespace controller are external: a namespace   *)
(* that is being deleted accepts no new objects, keeps its name in use,    *)
(* and disappears with its contents at last.                               *)
(***************************************************************************)
EXTENDS Naturals

CONSTANTS
  Operators,     \* terminals in which bifrost commands are run
  Names,         \* tenant names
  Tiers,         \* values given to --quota
  TakeTurns,     \* TRUE: add and remove of one name never overlap
  MaxFaults      \* bound: calls that fail although nothing refuses them

ASSUME TenantAssumption ==
  /\ TakeTurns \in BOOLEAN /\ MaxFaults \in Nat
  /\ "none" \notin Tiers

(* In the order in which Add creates them. *)
Objects == <<"tenant-admin", "tenant-admin-role", "tenant-admin-binding",
             "tenant-quota", "tenant-limits",
             "default-deny", "tenant-allow-rules", "tenant-l7-rules">>
LastStep == 8
AllObjects == {Objects[i] : i \in 1 .. LastStep}

(* Variant: the switch has no default. *)
LimitsNoDefault(q) ==
  IF q = "small" THEN 20 ELSE IF q = "medium" THEN 50 ELSE IF q = "large" THEN 100 ELSE 0

(* The pods that the ResourceQuota of a tier admits; 0 for no quota.  The  *)
(* switch in Add has medium as its default.                                *)
Limits(q) == IF q = "small" THEN 20 ELSE IF q = "large" THEN 100 ELSE 50

(* The tiers that tenant.go:29 declares, each with its own case in the     *)
(* switch, and the pods each is worth.                                     *)
TierPods == [small |-> 20, medium |-> 50, large |-> 100]

KnownTiers == DOMAIN TierPods

VARIABLES
  ns,            \* the namespace tenant-<name>, per name
  pc,            \* "idle", "namespace", "object" or "delete"
  step,          \* the object that Add creates next, counted from 1
  name,          \* argument of the operator's command
  quota,         \* --quota of the operator's command
  outcome,       \* how the operator's last command ended
  faults         \* faults so far

vars == <<ns, pc, step, name, quota, outcome, faults>>

(* label: does it carry kaas-bifrost.dev/tenant; quota: the value of       *)
(* kaas-bifrost.dev/quota, "none" without that label; pods: what the       *)
(* ResourceQuota in it admits.                                             *)
Namespace == [phase : {"absent", "active", "terminating"}, label : BOOLEAN,
              quota : Tiers \cup {"none"}, objects : SUBSET AllObjects,
              pods : {0, 20, 50, 100}]

NoNamespace == [phase |-> "absent", label |-> FALSE, quota |-> "none",
                objects |-> {}, pods |-> 0]

(* Nothing is in a namespace that is not there, and a quota admits pods. *)
WellFormed(s) ==
  /\ s.phase = "absent" => s = NoNamespace
  /\ s.pods # 0 <=> "tenant-quota" \in s.objects

(* A namespace that somebody made by hand, with or without the label. *)
ForeignNamespaces ==
  {[NoNamespace EXCEPT !.phase = "active", !.label = l] : l \in BOOLEAN}

Foreign(n) == ns[n].phase # "absent" /\ ns[n].quota = "none"

TypeOK ==
  /\ ns \in [Names -> Namespace] /\ \A n \in Names : WellFormed(ns[n])
  /\ pc \in [Operators -> {"idle", "namespace", "object", "delete"}]
  /\ step \in [Operators -> 1 .. LastStep]
  /\ name \in [Operators -> Names]
  /\ quota \in [Operators -> Tiers]
  /\ outcome \in [Operators -> {"none", "added", "removed", "err"}]
  /\ faults \in 0 .. MaxFaults

Init ==
  /\ ns \in [Names -> {NoNamespace} \cup ForeignNamespaces]
  /\ pc = [o \in Operators |-> "idle"]
  /\ step = [o \in Operators |-> 1]
  /\ \E n \in Names : name = [o \in Operators |-> n]
  /\ \E q \in Tiers : quota = [o \in Operators |-> q]
  /\ outcome = [o \in Operators |-> "none"]
  /\ faults = 0

-----------------------------------------------------------------------------
(* Process bookkeeping. *)

(* Who is adding, and who is removing, the tenant n. *)
Adding(n)   == {o \in Operators : pc[o] \in {"namespace", "object"} /\ name[o] = n}
Removing(n) == {o \in Operators : pc[o] = "delete" /\ name[o] = n}

Exit(o, result) ==
  /\ pc' = [pc EXCEPT ![o] = "idle"]
  /\ step' = [step EXCEPT ![o] = 1]
  /\ outcome' = [outcome EXCEPT ![o] = result]

SpendFault == faults < MaxFaults /\ faults' = faults + 1

(* The answer to the last call of a command, which may be lost. *)
Answer(o, result) ==
  \/ Exit(o, result) /\ UNCHANGED faults
  \/ Exit(o, "err") /\ SpendFault

-----------------------------------------------------------------------------
(* bifrost tenant add *)

StartAdd(o, n, q) ==
  /\ pc[o] = "idle"
  /\ TakeTurns => Removing(n) = {}
  /\ pc' = [pc EXCEPT ![o] = "namespace"]
  /\ name' = [name EXCEPT ![o] = n]
  /\ quota' = [quota EXCEPT ![o] = q]
  /\ UNCHANGED <<ns, step, outcome, faults>>

(* Variant: a namespace that exists already is no error. *)
CreateNamespaceAdopt(o) ==
  /\ pc[o] = "namespace"
  /\ ns' = [ns EXCEPT ![name[o]] =
       IF @.phase = "absent"
       THEN [NoNamespace EXCEPT !.phase = "active", !.label = TRUE, !.quota = quota[o]]
       ELSE @]
  /\ pc' = [pc EXCEPT ![o] = "object"]
  /\ UNCHANGED <<step, name, quota, outcome, faults>>

CreateNamespace(o) ==
  /\ pc[o] = "namespace"
  /\ ns[name[o]].phase = "absent"
  /\ ns' = [ns EXCEPT ![name[o]] =
       [NoNamespace EXCEPT !.phase = "active", !.label = TRUE, !.quota = quota[o]]]
  /\ pc' = [pc EXCEPT ![o] = "object"]
  /\ UNCHANGED <<step, name, quota, outcome, faults>>

CanCreate(o) ==
  /\ ns[name[o]].phase = "active"
  /\ Objects[step[o]] \notin ns[name[o]].objects

(* Variant: the flag never reaches the ResourceQuota. *)
WithObjectAlwaysMedium(namespace, object, q) ==
  [namespace EXCEPT !.objects = @ \cup {object},
                    !.pods = IF object = "tenant-quota" THEN 50 ELSE @]

(* The namespace with one more object in it. *)
WithObject(namespace, object, q) ==
  [namespace EXCEPT !.objects = @ \cup {object},
                    !.pods = IF object = "tenant-quota" THEN Limits(q) ELSE @]

(* Variant: an error of the last call is only logged. *)
CreateObjectLastIgnored(o) ==
  /\ pc[o] = "object"
  /\ CanCreate(o)
  /\ \/ ns' = [ns EXCEPT ![name[o]] = WithObject(@, Objects[step[o]], quota[o])]
     \/ step[o] = LastStep /\ UNCHANGED ns
  /\ \/ /\ step[o] < LastStep
        /\ step' = [step EXCEPT ![o] = @ + 1]
        /\ UNCHANGED <<pc, outcome, faults>>
     \/ step[o] = LastStep /\ Answer(o, "added")
  /\ UNCHANGED <<name, quota>>

CreateObject(o) ==
  /\ pc[o] = "object"
  /\ CanCreate(o)
  /\ ns' = [ns EXCEPT ![name[o]] = WithObject(@, Objects[step[o]], quota[o])]
  /\ \/ /\ step[o] < LastStep
        /\ step' = [step EXCEPT ![o] = @ + 1]
        /\ UNCHANGED <<pc, outcome, faults>>
     \/ step[o] = LastStep /\ Answer(o, "added")
  /\ UNCHANGED <<name, quota>>

AddStep(o) == CreateNamespace(o) \/ CreateObject(o)

-----------------------------------------------------------------------------
(* bifrost tenant remove *)

StartRemove(o, n) ==
  /\ pc[o] = "idle"
  /\ TakeTurns => Adding(n) = {}
  /\ pc' = [pc EXCEPT ![o] = "delete"]
  /\ name' = [name EXCEPT ![o] = n]
  /\ UNCHANGED <<ns, step, quota, outcome, faults>>

(* Variant: only a complete tenant is taken for one. *)
DeleteNamespaceComplete(o) ==
  /\ pc[o] = "delete"
  /\ ns[name[o]].objects = AllObjects
  /\ ns' = [ns EXCEPT ![name[o]].phase = "terminating"]
  /\ Answer(o, "removed")
  /\ UNCHANGED <<name, quota>>

(* Any namespace of that name is deleted, whoever made it. *)
DeleteNamespace(o) ==
  /\ pc[o] = "delete"
  /\ ns[name[o]].phase # "absent"
  /\ ns' = [ns EXCEPT ![name[o]].phase = "terminating"]
  /\ Answer(o, "removed")
  /\ UNCHANGED <<name, quota>>

(* The namespace controller has emptied the namespace. *)
Finalize(n) ==
  /\ ns[n].phase = "terminating"
  /\ ns' = [ns EXCEPT ![n] = NoNamespace]
  /\ UNCHANGED <<pc, step, name, quota, outcome, faults>>

(* Somebody makes a namespace of that name without bifrost. *)
MakeByHand(n) ==
  /\ ns[n].phase = "absent"
  /\ \E s \in ForeignNamespaces : ns' = [ns EXCEPT ![n] = s]
  /\ UNCHANGED <<pc, step, name, quota, outcome, faults>>

-----------------------------------------------------------------------------
(* How a command ends early. *)

(* The API server refuses the next call. *)
Refuse(o) ==
  /\ \/ pc[o] = "namespace" /\ ns[name[o]].phase # "absent"
     \/ pc[o] = "object" /\ ~CanCreate(o)
     \/ pc[o] = "delete" /\ ns[name[o]].phase = "absent"
  /\ Exit(o, "err")
  /\ UNCHANGED <<ns, name, quota, faults>>

(* The next call fails without effect, a template is not found, or the     *)
(* process is killed.  Nothing is undone.                                  *)
Fault(o) ==
  /\ pc[o] # "idle"
  /\ SpendFault
  /\ Exit(o, "err")
  /\ UNCHANGED <<ns, name, quota>>

CommandStep(o) == AddStep(o) \/ DeleteNamespace(o) \/ Refuse(o) \/ Fault(o)

Next ==
  \/ \E o \in Operators :
       \/ \E n \in Names, q \in Tiers : StartAdd(o, n, q)
       \/ \E n \in Names : StartRemove(o, n)
       \/ CommandStep(o)
  \/ \E n \in Names : Finalize(n) \/ MakeByHand(n)

Spec == Init /\ [][Next]_vars

-----------------------------------------------------------------------------
(* Manager.List: one entry per namespace with the tenant label. *)

Listing ==
  {[name  |-> n,
    quota |-> IF ns[n].quota = "none" THEN "medium" ELSE ns[n].quota] :
      n \in {m \in Names : ns[m].phase # "absent" /\ ns[m].label}}

-----------------------------------------------------------------------------
(* Properties. *)

(* The namespace is complete: the eight objects that Add creates are in    *)
(* it, with the limits that Add sets for the tier on its label.            *)
Provisioned(n) ==
  /\ ns[n].phase = "active" /\ ns[n].label
  /\ ns[n].objects = AllObjects
  /\ ns[n].pods = Limits(ns[n].quota)

(* tenant.go:54, "Add provisions a new tenant namespace with RBAC, quotas, *)
(* and network policies": when Add returns without an error, the namespace *)
(* is there with all of these, its own and not those of a racing Add, and  *)
(* it has the tier that this operator asked for.  (The OpenBao, Harbor and *)
(* ingress parts that the help of the command lists are no part of Add.)   *)
AddReturnsComplete ==
  [][\A o \in Operators :
       pc[o] = "object" /\ pc'[o] = "idle" /\ outcome'[o] = "added"
         => Provisioned(name[o])' /\ ns'[name[o]].quota = quota[o]]_vars

(* Creating the namespace is what serialises two Adds of one name (there   *)
(* is no other lock): at most one of them is past that call, and what is   *)
(* in the namespace is exactly what that one has created so far.           *)
SoleBuilder ==
  \A o \in Operators : pc[o] = "object" =>
    /\ \A p \in Operators \ {o} : pc[p] = "object" => name[p] # name[o]
    /\ ns[name[o]].objects = {Objects[i] : i \in 1 .. step[o] - 1}

(* A tenant that List shows with a tier of tenant.go:29 is held to that    *)
(* tier's own limits, once it has a ResourceQuota (label at tenant.go:64,  *)
(* limits at tenant.go:131).  The exception is a tier that the code does   *)
(* not know: nothing rejects it, List shows it as it was typed, and what   *)
(* is enforced are the limits of medium.                                   *)
ListedTierEnforced ==
  \A t \in Listing : "tenant-quota" \in ns[t.name].objects =>
    ns[t.name].pods =
      TierPods[IF t.quota \in KnownTiers THEN t.quota ELSE "medium"]

(* No call of Add changes a namespace that somebody made by hand, be it    *)
(* there before Add begins (error return at tenant.go:69) or made while    *)
(* Add is under way: the later calls name the namespace and look at        *)
(* nothing in it.                                                          *)
NoAdoption ==
  [][(\E o \in Operators : AddStep(o)) =>
       \A n \in Names : Foreign(n) => ns'[n] = ns[n]]_vars

(* The lifecycle that add and remove promise, read off the namespaces. *)
StageOf(s) ==
  IF s.phase = "absent" THEN "absent"
  ELSE IF s.phase = "terminating" THEN "deleting"
  ELSE IF s.quota = "none" THEN "foreign"
  ELSE IF s.objects = AllObjects THEN "ready" ELSE "building"

LimitsOf(s) ==
  IF s.phase = "active" /\ s.objects = AllObjects THEN s.pods ELSE 0

stageBar  == [n \in Names |-> StageOf(ns[n])]
tierBar   == [n \in Names |-> ns[n].quota]
limitsBar == [n \in Names |-> LimitsOf(ns[n])]

Lifecycle ==
  INSTANCE TenantLifecycle WITH
    NoLimits <- 0, stage <- stageBar, tier <- tierBar, limits <- limitsBar,
    answer <- outcome

(* Add and Remove, taking turns, implement the lifecycle: a tenant gets    *)
(* ready with the limits that Add sets for the tier asked for, add says so *)
(* in that very step, and nothing but a removal ends it.                   *)
LifecycleSpec == Lifecycle!Spec

=============================================================================
