---------------------------- MODULE TenantProofs ----------------------------
(***************************************************************************)
(* Theorems about TenantManager, for every set of operators, names and     *)
(* tiers and every number of faults.                                       *)
(***************************************************************************)
EXTENDS TenantRecovery, TLAPS

-----------------------------------------------------------------------------
(* The objects of a tenant. *)

LEMMA ObjectsDistinct ==
  ASSUME NEW i \in 1 .. LastStep, NEW j \in 1 .. LastStep, Objects[i] = Objects[j]
  PROVE  i = j
BY DEF Objects, LastStep

(* What the switch sets for a tier is what the tier is worth, and what     *)
(* medium is worth for a tier that is not declared.                        *)
LEMMA TierLimits ==
  \A q : Limits(q) = TierPods[IF q \in KnownTiers THEN q ELSE "medium"]
BY DEF Limits, TierPods, KnownTiers

LEMMA LimitsRange == \A q : Limits(q) \in {20, 50, 100}
BY DEF Limits

(* One more object keeps a namespace well formed. *)
LEMMA WithObjectType ==
  ASSUME NEW s \in Namespace, WellFormed(s), s.phase = "active",
         NEW x \in AllObjects, NEW q
  PROVE  /\ WithObject(s, x, q) \in Namespace
         /\ WellFormed(WithObject(s, x, q))
<1>1. Limits(q) \in {20, 50, 100}
  BY LimitsRange
<1> DEFINE p == IF x = "tenant-quota" THEN Limits(q) ELSE s.pods
           r == [s EXCEPT !.objects = @ \cup {x}]
<1>2. p \in {0, 20, 50, 100} /\ (p # 0 <=> "tenant-quota" \in s.objects \cup {x})
  BY <1>1 DEF Namespace, WellFormed
<1>3. WithObject(s, x, q) = [r EXCEPT !.pods = p]
  BY DEF WithObject
<1>4. /\ r \in Namespace /\ r.phase = "active"
      /\ r.objects = s.objects \cup {x}
  BY DEF Namespace
<1> HIDE DEF p, r
<1>5. [r EXCEPT !.pods = p] \in Namespace
  BY <1>2, <1>4 DEF Namespace
<1>6. WellFormed([r EXCEPT !.pods = p])
  BY <1>2, <1>4 DEF Namespace, WellFormed
<1>7. QED
  BY <1>3, <1>5, <1>6

LEMMA NoNamespaceType == NoNamespace \in Namespace /\ WellFormed(NoNamespace)
BY DEF NoNamespace, Namespace, WellFormed

(* A namespace that Add has just created. *)
LEMMA FreshType ==
  ASSUME NEW q \in Tiers
  PROVE  LET s == [NoNamespace EXCEPT !.phase = "active", !.label = TRUE, !.quota = q]
         IN  s \in Namespace /\ WellFormed(s)
BY DEF NoNamespace, Namespace, WellFormed

(* A namespace made by hand. *)
LEMMA ForeignType ==
  ASSUME NEW s \in ForeignNamespaces
  PROVE  /\ s \in Namespace /\ WellFormed(s)
         /\ s.phase = "active" /\ s.quota = "none" /\ s.objects = {}
<1>1. ASSUME NEW l \in BOOLEAN
      PROVE  LET r == [NoNamespace EXCEPT !.phase = "active", !.label = l]
             IN  /\ r \in Namespace /\ WellFormed(r)
                 /\ r.phase = "active" /\ r.quota = "none" /\ r.objects = {}
  BY DEF NoNamespace, Namespace, WellFormed
<1>2. QED
  BY <1>1 DEF ForeignNamespaces

-----------------------------------------------------------------------------
(* Type correctness. *)

LEMMA TypeStep == TypeOK /\ [Next]_vars => TypeOK'
<1> USE TenantAssumption
<1> SUFFICES ASSUME TypeOK, [Next]_vars PROVE TypeOK'
  OBVIOUS
<1> USE DEF TypeOK, Exit, SpendFault, Answer
<1>1. ASSUME NEW o \in Operators, NEW n \in Names, NEW q \in Tiers, StartAdd(o, n, q)
      PROVE  TypeOK'
  BY <1>1 DEF StartAdd
<1>2. ASSUME NEW o \in Operators, CreateNamespace(o) PROVE TypeOK'
  BY <1>2, FreshType DEF CreateNamespace
<1>3. ASSUME NEW o \in Operators, CreateObject(o) PROVE TypeOK'
  <2>1. step[o] \in 1 .. LastStep /\ name[o] \in Names
    OBVIOUS
  <2>2. Objects[step[o]] \in AllObjects
    BY <2>1 DEF AllObjects
  <2>3. /\ ns' \in [Names -> Namespace]
        /\ \A n \in Names : WellFormed(ns'[n])
    BY <1>3, <2>1, <2>2, WithObjectType DEF CreateObject, CanCreate
  <2>4. step' \in [Operators -> 1 .. LastStep]
    BY <1>3 DEF CreateObject, LastStep
  <2>5. QED
    BY <1>3, <2>3, <2>4 DEF CreateObject
<1>4. ASSUME NEW o \in Operators, NEW n \in Names, StartRemove(o, n) PROVE TypeOK'
  BY <1>4 DEF StartRemove
<1>5. ASSUME NEW o \in Operators, DeleteNamespace(o) PROVE TypeOK'
  <2> DEFINE d == [ns[name[o]] EXCEPT !.phase = "terminating"]
  <2> DEFINE s == ns[name[o]]
  <2>1. d \in Namespace /\ WellFormed(d)
    <3>1. s \in Namespace /\ WellFormed(s)
      OBVIOUS
    <3>2. d = [phase |-> "terminating", label |-> s.label, quota |-> s.quota,
               objects |-> s.objects, pods |-> s.pods]
      BY <3>1 DEF Namespace
    <3> HIDE DEF s, d
    <3>3. QED
      BY <3>1, <3>2 DEF Namespace, WellFormed
  <2>2. ns' = [ns EXCEPT ![name[o]] = d]
    BY <1>5 DEF DeleteNamespace
  <2> HIDE DEF d
  <2>3. /\ ns' \in [Names -> Namespace]
        /\ \A n \in Names : WellFormed(ns'[n])
    BY <2>1, <2>2
  <2>4. QED
    BY <1>5, <2>3 DEF DeleteNamespace, LastStep
<1>6. ASSUME NEW n \in Names, Finalize(n) PROVE TypeOK'
  BY <1>6, NoNamespaceType DEF Finalize
<1>7. ASSUME NEW o \in Operators, Refuse(o) PROVE TypeOK'
  BY <1>7 DEF Refuse, LastStep
<1>8. ASSUME NEW o \in Operators, Fault(o) PROVE TypeOK'
  BY <1>8 DEF Fault, LastStep
<1>9. CASE UNCHANGED vars
  BY <1>9 DEF vars
<1>10. ASSUME NEW n \in Names, MakeByHand(n) PROVE TypeOK'
  BY <1>10, ForeignType DEF MakeByHand
<1> HIDE DEF TypeOK
<1>11. QED
  BY <1>1, <1>2, <1>3, <1>4, <1>5, <1>6, <1>7, <1>8, <1>9, <1>10
     DEF Next, CommandStep, AddStep

LEMMA InitTyped == Init => TypeOK
<1> SUFFICES ASSUME Init PROVE TypeOK
  OBVIOUS
<1>1. \A s \in {NoNamespace} \cup ForeignNamespaces :
        s \in Namespace /\ WellFormed(s)
  BY NoNamespaceType, ForeignType
<1>2. 0 \in 0 .. MaxFaults /\ 1 \in 1 .. LastStep
  BY TenantAssumption DEF LastStep
<1>3. QED
  BY <1>1, <1>2 DEF Init, TypeOK

(* The variables keep their types, and every namespace is well formed: it  *)
(* has no contents when it is not there, and a ResourceQuota always admits *)
(* pods (the default of the switch in Add).                                *)
THEOREM TypeCorrect == Spec => []TypeOK
BY InitTyped, TypeStep, PTL DEF Spec

-----------------------------------------------------------------------------
(* Add and Remove of one name, taking turns. *)

(* What Add has created after k objects. *)
Built(k) == {Objects[i] : i \in 1 .. k}

LEMMA BuiltStep ==
  ASSUME NEW k \in 1 .. LastStep
  PROVE  Built(k) = Built(k - 1) \cup {Objects[k]}
<1>1. 1 .. k = (1 .. k - 1) \cup {k}
  BY DEF LastStep
<1>2. QED
  BY <1>1 DEF Built

LEMMA BuiltNothing == Built(0) = {}
BY DEF Built

LEMMA BuiltEverything ==
  ASSUME NEW k \in 0 .. LastStep
  PROVE  Built(k) = AllObjects <=> k = LastStep
<1>1. CASE k = LastStep
  BY <1>1 DEF Built, AllObjects
<1>2. CASE k # LastStep
  <2>1. k < LastStep /\ LastStep \in 1 .. LastStep
    BY <1>2 DEF LastStep
  <2>2. ASSUME Objects[LastStep] \in Built(k) PROVE FALSE
    <3>1. PICK i \in 1 .. k : Objects[i] = Objects[LastStep]
      BY <2>2 DEF Built
    <3>2. i \in 1 .. LastStep /\ i # LastStep
      BY <2>1, <3>1 DEF LastStep
    <3>3. QED
      BY <2>1, <3>1, <3>2, ObjectsDistinct
  <2>3. Objects[LastStep] \in AllObjects
    BY <2>1 DEF AllObjects
  <2>4. QED
    BY <1>2, <2>2, <2>3
<1>3. QED
  BY <1>1, <1>2

(* No tenant is added and removed at the same time. *)
NoOverlap ==
  \A o, p \in Operators :
    pc[o] = "delete" /\ pc[p] \in {"namespace", "object"} => name[o] # name[p]

(* Two Adds past their first call have different names. *)
OneBuilder ==
  \A o, p \in Operators :
    pc[o] = "object" /\ pc[p] = "object" /\ name[o] = name[p] => o = p

(* The namespace in which Add works is the one that this Add created, with *)
(* the objects of the steps that are done.                                 *)
BuilderState ==
  \A o \in Operators : pc[o] = "object" =>
    /\ ns[name[o]].phase = "active" /\ ns[name[o]].label
    /\ ns[name[o]].quota = quota[o]
    /\ ns[name[o]].objects = Built(step[o] - 1)

(* Adds that are not yet past their first call have created nothing. *)
FreshStep == \A o \in Operators : pc[o] # "object" => step[o] = 1

(* A ResourceQuota enforces the tier on the label. *)
LimitsMatch ==
  \A n \in Names : "tenant-quota" \in ns[n].objects =>
    ns[n].quota # "none" /\ ns[n].pods = Limits(ns[n].quota)

(* The inductive invariant, beside TypeOK. *)
TurnsInv == NoOverlap /\ OneBuilder /\ BuilderState /\ FreshStep /\ LimitsMatch

LEMMA TurnsInvStep ==
  ASSUME TakeTurns = TRUE, TypeOK, TurnsInv, [Next]_vars
  PROVE  TurnsInv'
<1> USE TenantAssumption
<1> USE DEF TurnsInv, NoOverlap, OneBuilder, BuilderState, FreshStep,
            LimitsMatch, TypeOK, Exit, Answer
<1>1. ASSUME NEW o \in Operators, NEW n \in Names, NEW q \in Tiers, StartAdd(o, n, q)
      PROVE  TurnsInv'
  BY <1>1 DEF StartAdd, Removing
<1>2. ASSUME NEW o \in Operators, CreateNamespace(o) PROVE TurnsInv'
  <2> DEFINE m == name[o]
             s == [NoNamespace EXCEPT !.phase = "active", !.label = TRUE,
                                      !.quota = quota[o]]
  <2>1. /\ pc[o] = "namespace" /\ pc' = [pc EXCEPT ![o] = "object"]
        /\ ns[m].phase = "absent" /\ ns' = [ns EXCEPT ![m] = s]
        /\ UNCHANGED <<step, name, quota>>
    BY <1>2 DEF CreateNamespace
  <2>2. /\ s.phase = "active" /\ s.label /\ s.quota = quota[o]
        /\ s.objects = {} /\ s.pods = 0
    BY DEF NoNamespace
  <2>3. \A p \in Operators \ {o} : pc[p] = "object" => name[p] # m
    BY <2>1
  <2>4. step[o] = 1 /\ Built(0) = {}
    BY <2>1, BuiltNothing
  <2> HIDE DEF s
  <2>5. NoOverlap' /\ OneBuilder' /\ FreshStep'
    BY <2>1, <2>3
  <2>6. BuilderState'
    <3>1. ASSUME NEW p \in Operators \ {o}, pc'[p] = "object"
          PROVE  pc[p] = "object" /\ ns'[name'[p]] = ns[name[p]] /\ step'[p] = step[p]
                 /\ quota'[p] = quota[p]
      BY <2>1, <2>3, <3>1
    <3>2. ns'[name'[o]] = s /\ step'[o] - 1 = 0 /\ quota'[o] = quota[o]
      BY <2>1, <2>4
    <3>3. ASSUME NEW p \in Operators, pc'[p] = "object"
          PROVE  /\ ns'[name'[p]].phase = "active" /\ ns'[name'[p]].label
                 /\ ns'[name'[p]].quota = quota'[p]
                 /\ ns'[name'[p]].objects = Built(step'[p] - 1)
      <4>1. CASE p = o
        BY <2>2, <2>4, <3>2, <4>1
      <4>2. CASE p # o
        BY <3>1, <3>3, <4>2
      <4>3. QED
        BY <4>1, <4>2
    <3>4. QED
      BY <3>3
  <2>7. LimitsMatch'
    BY <2>1, <2>2
  <2>8. QED
    BY <2>5, <2>6, <2>7
<1>3. ASSUME NEW o \in Operators, CreateObject(o) PROVE TurnsInv'
  <2> DEFINE m == name[o]
             x == Objects[step[o]]
             s == WithObject(ns[m], x, quota[o])
  <2>1. /\ pc[o] = "object" /\ CanCreate(o)
        /\ ns' = [ns EXCEPT ![m] = s] /\ UNCHANGED <<name, quota>>
        /\ \/ step[o] < LastStep /\ step' = [step EXCEPT ![o] = @ + 1] /\ UNCHANGED pc
           \/ pc' = [pc EXCEPT ![o] = "idle"] /\ step' = [step EXCEPT ![o] = 1]
    BY <1>3 DEF CreateObject
  <2>2. /\ s.phase = ns[m].phase /\ s.label = ns[m].label /\ s.quota = ns[m].quota
        /\ s.objects = ns[m].objects \cup {x}
        /\ s.pods = IF x = "tenant-quota" THEN Limits(quota[o]) ELSE ns[m].pods
    BY DEF WithObject, Namespace
  <2>3. Built(step[o]) = Built(step[o] - 1) \cup {x}
    BY BuiltStep
  <2>4. \A p \in Operators \ {o} : pc[p] = "object" => name[p] # m
    BY <2>1
  <2>5. quota[o] # "none"
    OBVIOUS
  <2> HIDE DEF s, x
  <2>6. NoOverlap' /\ OneBuilder' /\ FreshStep'
    BY <2>1, <2>4
  <2>7. BuilderState'
    <3>1. ASSUME NEW p \in Operators \ {o}, pc'[p] = "object"
          PROVE  pc[p] = "object" /\ ns'[name'[p]] = ns[name[p]] /\ step'[p] = step[p]
                 /\ quota'[p] = quota[p]
      BY <2>1, <2>4, <3>1
    <3>2. ASSUME pc'[o] = "object"
          PROVE  step'[o] - 1 = step[o] /\ ns'[name'[o]] = s /\ quota'[o] = quota[o]
      BY <2>1, <3>2 DEF LastStep
    <3>3. ASSUME NEW p \in Operators, pc'[p] = "object"
          PROVE  /\ ns'[name'[p]].phase = "active" /\ ns'[name'[p]].label
                 /\ ns'[name'[p]].quota = quota'[p]
                 /\ ns'[name'[p]].objects = Built(step'[p] - 1)
      <4>1. CASE p = o
        BY <2>1, <2>2, <2>3, <3>2, <3>3, <4>1
      <4>2. CASE p # o
        BY <3>1, <3>3, <4>2
      <4>3. QED
        BY <4>1, <4>2
    <3>4. QED
      BY <3>3
  <2>8. LimitsMatch'
    BY <2>1, <2>2, <2>5
  <2>9. QED
    BY <2>6, <2>7, <2>8
<1>4. ASSUME NEW o \in Operators, NEW n \in Names, StartRemove(o, n) PROVE TurnsInv'
  BY <1>4 DEF StartRemove, Adding
<1>5. ASSUME NEW o \in Operators, DeleteNamespace(o) PROVE TurnsInv'
  <2> DEFINE m == name[o]
             s == [ns[m] EXCEPT !.phase = "terminating"]
  <2>1. /\ pc[o] = "delete" /\ pc' = [pc EXCEPT ![o] = "idle"]
        /\ step' = [step EXCEPT ![o] = 1]
        /\ ns' = [ns EXCEPT ![m] = s] /\ UNCHANGED <<name, quota>>
    BY <1>5 DEF DeleteNamespace
  <2>2. /\ s.objects = ns[m].objects /\ s.pods = ns[m].pods
        /\ s.quota = ns[m].quota
    BY DEF Namespace
  <2>3. \A p \in Operators : pc[p] = "object" => name[p] # m
    BY <2>1
  <2> HIDE DEF s
  <2>4. NoOverlap' /\ OneBuilder' /\ FreshStep'
    BY <2>1
  <2>5. BuilderState'
    BY <2>1, <2>3
  <2>6. LimitsMatch'
    BY <2>1, <2>2
  <2>7. QED
    BY <2>4, <2>5, <2>6
<1>6. ASSUME NEW n \in Names, Finalize(n) PROVE TurnsInv'
  BY <1>6 DEF Finalize, NoNamespace
<1>7. ASSUME NEW o \in Operators, Refuse(o) PROVE TurnsInv'
  BY <1>7 DEF Refuse
<1>8. ASSUME NEW o \in Operators, Fault(o) PROVE TurnsInv'
  BY <1>8 DEF Fault
<1>9. CASE UNCHANGED vars
  BY <1>9 DEF vars
<1>10. ASSUME NEW n \in Names, MakeByHand(n) PROVE TurnsInv'
  BY <1>10, ForeignType DEF MakeByHand
<1> HIDE DEF TurnsInv
<1>11. QED
  BY <1>1, <1>2, <1>3, <1>4, <1>5, <1>6, <1>7, <1>8, <1>9, <1>10
     DEF Next, CommandStep, AddStep

LEMMA TurnsInvariant ==
  ASSUME TakeTurns = TRUE
  PROVE  Spec => [](TypeOK /\ TurnsInv)
<1>1. Init => TurnsInv
  <2> SUFFICES ASSUME Init PROVE TurnsInv
    OBVIOUS
  <2>1. \A s \in {NoNamespace} \cup ForeignNamespaces : s.objects = {}
    <3>1. NoNamespace.objects = {}
      BY DEF NoNamespace
    <3>2. QED
      BY <3>1, ForeignType
  <2>2. LimitsMatch
    BY <2>1 DEF Init, LimitsMatch
  <2>3. NoOverlap /\ OneBuilder /\ BuilderState /\ FreshStep
    BY DEF Init, NoOverlap, OneBuilder, BuilderState, FreshStep
  <2>4. QED
    BY <2>2, <2>3 DEF TurnsInv
<1>2. TypeOK /\ TurnsInv /\ [Next]_vars => TurnsInv'
  BY TurnsInvStep
<1>3. QED
  BY <1>1, <1>2, TypeCorrect, PTL DEF Spec

(* When add and remove of one name take turns, creating the namespace is   *)
(* as good as a lock: one Add at most is past it, and it finds exactly     *)
(* what it has put there (tenant.go, Add).                                 *)
THEOREM BuilderIsAlone ==
  ASSUME TakeTurns = TRUE
  PROVE  Spec => []SoleBuilder
<1>1. TypeOK /\ TurnsInv => SoleBuilder
  <2> SUFFICES ASSUME TypeOK, TurnsInv, NEW o \in Operators, pc[o] = "object"
               PROVE  /\ \A p \in Operators \ {o} :
                           pc[p] = "object" => name[p] # name[o]
                      /\ ns[name[o]].objects = {Objects[i] : i \in 1 .. step[o] - 1}
    BY DEF SoleBuilder
  <2>1. QED
    BY DEF TurnsInv, OneBuilder, BuilderState, Built
<1>2. QED
  BY <1>1, TurnsInvariant, PTL

(* Then a tenant listed with a tier that tenant.go declares is held to     *)
(* that tier's own limits, whichever calls of Add failed, and one listed   *)
(* with any other tier to those of medium (tenant.go, List and Add).       *)
THEOREM ListedTierIsEnforced ==
  ASSUME TakeTurns = TRUE
  PROVE  Spec => []ListedTierEnforced
<1>1. TypeOK /\ TurnsInv => ListedTierEnforced
  <2> SUFFICES ASSUME TypeOK, TurnsInv, NEW t \in Listing,
                      "tenant-quota" \in ns[t.name].objects
               PROVE  ns[t.name].pods =
                        TierPods[IF t.quota \in KnownTiers THEN t.quota
                                 ELSE "medium"]
    BY DEF ListedTierEnforced
  <2>1. /\ t.name \in Names
        /\ t.quota = IF ns[t.name].quota = "none" THEN "medium"
                     ELSE ns[t.name].quota
    BY DEF Listing
  <2>2. ns[t.name].quota # "none" /\ ns[t.name].pods = Limits(ns[t.name].quota)
    BY <2>1 DEF TurnsInv, LimitsMatch
  <2>3. QED
    BY <2>1, <2>2, TierLimits
<1>2. QED
  BY <1>1, TurnsInvariant, PTL

(* With turns, the namespace that an Add goes on to fill is the one that   *)
(* it made itself: it lays no hand on one that was made without bifrost,   *)
(* before or after Add began (tenant.go, Add).                             *)
THEOREM AddAdoptsNothing ==
  ASSUME TakeTurns = TRUE
  PROVE  Spec => NoAdoption
<1>1. ASSUME TypeOK, TurnsInv, NEW o \in Operators, AddStep(o),
             NEW n \in Names, Foreign(n)
      PROVE  ns'[n] = ns[n]
  <2>1. CASE CreateNamespace(o)
    BY <1>1, <2>1 DEF CreateNamespace, Foreign, TypeOK
  <2>2. CASE CreateObject(o)
    <3>1. name[o] \in Names /\ ns[name[o]].quota # "none"
      BY <1>1, <2>2, TenantAssumption
         DEF CreateObject, TurnsInv, BuilderState, TypeOK
    <3>2. n # name[o]
      BY <1>1, <3>1 DEF Foreign
    <3>3. QED
      BY <1>1, <2>2, <3>1, <3>2 DEF CreateObject, TypeOK
  <2>3. QED
    BY <1>1, <2>1, <2>2 DEF AddStep
<1>2. TypeOK /\ TurnsInv =>
        [(\E o \in Operators : AddStep(o)) =>
           \A n \in Names : Foreign(n) => ns'[n] = ns[n]]_vars
  BY <1>1
<1>3. QED
  BY <1>2, TurnsInvariant, PTL DEF NoAdoption

(* The step with which Add succeeds. *)
LEMMA LastObject ==
  ASSUME TypeOK, TurnsInv, NEW o \in Operators, CreateObject(o)
  PROVE  /\ ns[name[o]].objects = Built(step[o] - 1)
         /\ ns'[name[o]].objects = Built(step[o])
         /\ ns'[name[o]].phase = "active" /\ ns'[name[o]].label
         /\ ns'[name[o]].quota = ns[name[o]].quota
         /\ ns'[name[o]].quota = quota[o]
<1> DEFINE x == Objects[step[o]]
           s == WithObject(ns[name[o]], x, quota[o])
<1>1. pc[o] = "object" /\ ns' = [ns EXCEPT ![name[o]] = s]
  BY DEF CreateObject
<1>2. ns'[name[o]] = s
  BY <1>1 DEF TypeOK
<1>3. /\ s.phase = ns[name[o]].phase /\ s.label = ns[name[o]].label
      /\ s.quota = ns[name[o]].quota /\ s.objects = ns[name[o]].objects \cup {x}
  BY DEF WithObject, Namespace, TypeOK
<1>4. Built(step[o]) = Built(step[o] - 1) \cup {x}
  BY BuiltStep DEF TypeOK
<1> HIDE DEF s, x
<1>5. QED
  BY <1>1, <1>2, <1>3, <1>4 DEF TurnsInv, BuilderState

(* When add and remove of one name take turns, an Add that returns without *)
(* an error leaves the namespace with its RBAC, quota, limits and policies *)
(* complete, for the tier that was asked for (tenant.go, Add).             *)
THEOREM AddIsComplete ==
  ASSUME TakeTurns = TRUE
  PROVE  Spec => AddReturnsComplete
<1>1. ASSUME TypeOK, TurnsInv, TurnsInv', Next, NEW o \in Operators,
             pc[o] = "object", pc'[o] = "idle", outcome'[o] = "added"
      PROVE  Provisioned(name[o])' /\ ns'[name[o]].quota = quota[o]
  <2>1. CreateObject(o) /\ step[o] = LastStep
    <3> USE <1>1 DEF TypeOK, Exit, Answer
    <3>1. ASSUME NEW p \in Operators, CreateObject(p) PROVE p = o /\ step[o] = LastStep
      BY <3>1 DEF CreateObject
    <3>2. ASSUME NEW p \in Operators,
                 \/ CreateNamespace(p) \/ DeleteNamespace(p) \/ Refuse(p) \/ Fault(p)
          PROVE  FALSE
      BY <3>2 DEF CreateNamespace, DeleteNamespace, Refuse, Fault
    <3>3. ASSUME NEW p \in Operators, NEW n \in Names, NEW q \in Tiers,
                 StartAdd(p, n, q) \/ StartRemove(p, n)
          PROVE  FALSE
      BY <3>3 DEF StartAdd, StartRemove
    <3>4. ASSUME NEW n \in Names, Finalize(n) \/ MakeByHand(n) PROVE FALSE
      BY <3>4 DEF Finalize, MakeByHand
    <3>5. ASSUME NEW p \in Operators, NEW n \in Names, StartRemove(p, n) PROVE FALSE
      BY <3>5 DEF StartRemove
    <3>6. \E p \in Operators : CreateObject(p)
      BY <1>1, <3>2, <3>3, <3>4, <3>5, TenantAssumption DEF Next, CommandStep, AddStep
    <3>7. QED
      BY <3>1, <3>6
  <2>2. Built(LastStep) = AllObjects
    BY BuiltEverything DEF LastStep
  <2>3. name'[o] = name[o]
    BY <2>1 DEF CreateObject
  <2>4. "tenant-quota" \in AllObjects
    BY DEF AllObjects, Objects, LastStep
  <2>5. ns'[name[o]].pods = Limits(ns'[name[o]].quota)
    BY <1>1, <2>1, <2>2, <2>4, LastObject DEF TurnsInv, LimitsMatch, TypeOK
  <2>6. QED
    BY <1>1, <2>1, <2>2, <2>3, <2>5, LastObject DEF Provisioned
<1>2. TypeOK /\ TurnsInv /\ TurnsInv' /\ [Next]_vars =>
        [\A o \in Operators :
           pc[o] = "object" /\ pc'[o] = "idle" /\ outcome'[o] = "added"
             => Provisioned(name[o])' /\ ns'[name[o]].quota = quota[o]]_vars
  BY <1>1
<1>3. QED
  BY <1>2, TurnsInvariant, PTL DEF AddReturnsComplete, Spec

-----------------------------------------------------------------------------
(* TenantManager implements TenantLifecycle. *)

(* Namespaces that do not change map to the same stage, tier and limits.   *)
LEMMA SameNamespaces ==
  ASSUME UNCHANGED ns
  PROVE  UNCHANGED <<stageBar, tierBar, limitsBar>>
BY DEF stageBar, tierBar, limitsBar

(* Functions on Names that differ at one name. *)
LEMMA OnePoint ==
  ASSUME NEW n \in Names, NEW v, NEW f, NEW g,
         f = [m \in Names |-> f[m]], g = [m \in Names |-> g[m]],
         \A m \in Names : g[m] = IF m = n THEN v ELSE f[m]
  PROVE  g = [f EXCEPT ![n] = v]
OBVIOUS

(* Writing what is there already changes nothing. *)
LEMMA SameValue ==
  ASSUME NEW n \in Names, NEW f, f = [m \in Names |-> f[m]]
  PROVE  [f EXCEPT ![n] = f[n]] = f
OBVIOUS

(* The mapped variables are functions on Names. *)
LEMMA BarFunctions ==
  /\ stageBar = [m \in Names |-> stageBar[m]]
  /\ tierBar = [m \in Names |-> tierBar[m]]
  /\ limitsBar = [m \in Names |-> limitsBar[m]]
BY DEF stageBar, tierBar, limitsBar

(* A change of one namespace is a change at one name. *)
LEMMA OneNamespace ==
  ASSUME TypeOK, NEW n \in Names, NEW s, ns' = [ns EXCEPT ![n] = s]
  PROVE  /\ stageBar'  = [stageBar EXCEPT ![n] = StageOf(s)]
         /\ tierBar'   = [tierBar EXCEPT ![n] = s.quota]
         /\ limitsBar' = [limitsBar EXCEPT ![n] = LimitsOf(s)]
         /\ stageBar[n] = StageOf(ns[n])
         /\ tierBar[n] = ns[n].quota
         /\ limitsBar[n] = LimitsOf(ns[n])
<1>1. \A m \in Names : ns'[m] = IF m = n THEN s ELSE ns[m]
  BY DEF TypeOK
<1>2. \A m \in Names : /\ stageBar[m] = StageOf(ns[m]) /\ tierBar[m] = ns[m].quota
                       /\ limitsBar[m] = LimitsOf(ns[m])
  BY DEF stageBar, tierBar, limitsBar
<1>3. \A m \in Names : stageBar'[m] = IF m = n THEN StageOf(s) ELSE stageBar[m]
  BY <1>1, <1>2 DEF stageBar, StageOf
<1>4. \A m \in Names : tierBar'[m] = IF m = n THEN s.quota ELSE tierBar[m]
  BY <1>1, <1>2 DEF tierBar
<1>5. \A m \in Names : limitsBar'[m] = IF m = n THEN LimitsOf(s) ELSE limitsBar[m]
  BY <1>1, <1>2 DEF limitsBar, LimitsOf
<1>6. /\ stageBar' = [m \in Names |-> stageBar'[m]]
      /\ tierBar' = [m \in Names |-> tierBar'[m]]
      /\ limitsBar' = [m \in Names |-> limitsBar'[m]]
  BY DEF stageBar, tierBar, limitsBar
<1>7. stageBar' = [stageBar EXCEPT ![n] = StageOf(s)]
  BY <1>3, <1>6, BarFunctions, OnePoint
<1>8. tierBar' = [tierBar EXCEPT ![n] = s.quota]
  BY <1>4, <1>6, BarFunctions, OnePoint
<1>9. limitsBar' = [limitsBar EXCEPT ![n] = LimitsOf(s)]
  BY <1>5, <1>6, BarFunctions, OnePoint
<1>10. QED
  BY <1>2, <1>7, <1>8, <1>9

(* A change of one namespace that keeps its tier. *)
LEMMA SameTier ==
  ASSUME TypeOK, NEW n \in Names, NEW s, ns' = [ns EXCEPT ![n] = s],
         s.quota = ns[n].quota
  PROVE  tierBar' = tierBar
<1>1. tierBar' = [tierBar EXCEPT ![n] = s.quota] /\ tierBar[n] = ns[n].quota
  BY OneNamespace
<1>2. QED
  BY <1>1, SameValue, BarFunctions

(* A change of one namespace that keeps its limits. *)
LEMMA SameLimits ==
  ASSUME TypeOK, NEW n \in Names, NEW s, ns' = [ns EXCEPT ![n] = s],
         LimitsOf(s) = LimitsOf(ns[n])
  PROVE  limitsBar' = limitsBar
<1>1. limitsBar' = [limitsBar EXCEPT ![n] = LimitsOf(s)] /\ limitsBar[n] = LimitsOf(ns[n])
  BY OneNamespace
<1>2. QED
  BY <1>1, SameValue, BarFunctions

(* A change of one namespace that keeps its stage. *)
LEMMA SameStage ==
  ASSUME TypeOK, NEW n \in Names, NEW s, ns' = [ns EXCEPT ![n] = s],
         StageOf(s) = StageOf(ns[n])
  PROVE  stageBar' = stageBar
<1>1. stageBar' = [stageBar EXCEPT ![n] = StageOf(s)] /\ stageBar[n] = StageOf(ns[n])
  BY OneNamespace
<1>2. QED
  BY <1>1, SameValue, BarFunctions

LEMMA LifecycleInit ==
  ASSUME Init PROVE Lifecycle!Init
<1>1. \A n \in Names : ns[n] = NoNamespace \/ ns[n] \in ForeignNamespaces
  BY DEF Init
<1>2. \A s : s = NoNamespace \/ s \in ForeignNamespaces =>
        /\ s.phase = "absent" \/ (s.phase = "active" /\ s.quota = "none")
        /\ s.quota = "none" /\ s.objects = {}
  <2>1. /\ NoNamespace.phase = "absent" /\ NoNamespace.quota = "none"
        /\ NoNamespace.objects = {}
    BY DEF NoNamespace
  <2>2. QED
    BY <2>1, ForeignType
<1>3. AllObjects # {}
  BY DEF AllObjects, LastStep
<1>4. QED
  BY <1>1, <1>2, <1>3 DEF Init, Lifecycle!Init, stageBar, tierBar, limitsBar, StageOf, LimitsOf

LEMMA LifecycleStep ==
  ASSUME TakeTurns = TRUE, TypeOK, TypeOK', TurnsInv, TurnsInv', [Next]_vars
  PROVE  [Lifecycle!Next]_(Lifecycle!lifecycle)
<1> USE TenantAssumption
<1> SUFFICES \/ Lifecycle!Next
             \/ UNCHANGED <<stageBar, tierBar, limitsBar, outcome>>
  BY DEF Lifecycle!lifecycle
<1> DEFINE Failure(o) == UNCHANGED ns /\ outcome' = [outcome EXCEPT ![o] = "err"]
<1>args. \A o \in Operators : name[o] \in Names /\ quota[o] \in Tiers
  BY DEF TypeOK
<1>fail. ASSUME NEW o \in Operators, Failure(o) PROVE Lifecycle!Fail(o)
  BY <1>fail, SameNamespaces
     DEF Lifecycle!Fail
<1>1. ASSUME UNCHANGED <<ns, outcome>>
      PROVE  UNCHANGED <<stageBar, tierBar, limitsBar, outcome>>
  BY <1>1, SameNamespaces
<1>2. ASSUME NEW o \in Operators, CreateNamespace(o)
      PROVE  Lifecycle!Begin(name[o], quota[o])
  <2> DEFINE s == [NoNamespace EXCEPT !.phase = "active", !.label = TRUE,
                                      !.quota = quota[o]]
  <2>1. /\ ns' = [ns EXCEPT ![name[o]] = s] /\ UNCHANGED outcome
        /\ ns[name[o]].phase = "absent"
    BY <1>2 DEF CreateNamespace
  <2>2. s.phase = "active" /\ s.quota = quota[o] /\ s.objects = {}
    BY DEF NoNamespace
  <2>3. AllObjects # {} /\ quota[o] # "none"
    BY DEF AllObjects, LastStep, TypeOK
  <2>4. StageOf(s) = "building" /\ LimitsOf(s) = 0
    BY <2>2, <2>3 DEF StageOf, LimitsOf
  <2>5. StageOf(ns[name[o]]) = "absent" /\ LimitsOf(ns[name[o]]) = 0
    BY <2>1 DEF StageOf, LimitsOf
  <2> HIDE DEF s
  <2>6. /\ stageBar' = [stageBar EXCEPT ![name[o]] = "building"]
        /\ tierBar' = [tierBar EXCEPT ![name[o]] = quota[o]]
        /\ limitsBar' = limitsBar
        /\ stageBar[name[o]] = "absent"
    <3>1. /\ stageBar' = [stageBar EXCEPT ![name[o]] = StageOf(s)]
          /\ tierBar' = [tierBar EXCEPT ![name[o]] = s.quota]
          /\ stageBar[name[o]] = StageOf(ns[name[o]])
      BY <2>1, <1>args, OneNamespace
    <3>2. limitsBar' = limitsBar
      BY <2>1, <2>4, <2>5, <1>args, SameLimits
    <3>3. QED
      BY <3>1, <3>2, <2>2, <2>4, <2>5
  <2>7. QED
    BY <2>1, <2>6 DEF Lifecycle!Begin
<1>3. ASSUME NEW o \in Operators, CreateObject(o), step[o] # LastStep
      PROVE  UNCHANGED <<stageBar, tierBar, limitsBar, outcome>>
  <2> DEFINE s == WithObject(ns[name[o]], Objects[step[o]], quota[o])
  <2>1. ns' = [ns EXCEPT ![name[o]] = s] /\ UNCHANGED outcome
    BY <1>3 DEF CreateObject
  <2>2. ns'[name[o]] = s
    BY <2>1 DEF TypeOK
  <2> HIDE DEF s
  <2>3. Built(step[o]) # AllObjects /\ Built(step[o] - 1) # AllObjects
    BY <1>3, BuiltEverything DEF TypeOK, LastStep
  <2>4. /\ StageOf(s) = StageOf(ns[name[o]]) /\ LimitsOf(s) = LimitsOf(ns[name[o]])
        /\ s.quota = ns[name[o]].quota
    BY <1>3, <2>2, <2>3, LastObject DEF StageOf, LimitsOf, CreateObject, CanCreate
  <2>5. QED
    <3>1. stageBar' = stageBar
      BY <2>1, <2>4, <1>args, SameStage
    <3>2. tierBar' = tierBar
      BY <2>1, <2>4, <1>args, SameTier
    <3>3. limitsBar' = limitsBar
      BY <2>1, <2>4, <1>args, SameLimits
    <3>4. QED
      BY <2>1, <3>1, <3>2, <3>3
<1>4. ASSUME NEW o \in Operators, CreateObject(o), step[o] = LastStep
      PROVE  Lifecycle!Complete(o, name[o])
  <2> DEFINE s == WithObject(ns[name[o]], Objects[step[o]], quota[o])
  <2>1. /\ ns' = [ns EXCEPT ![name[o]] = s]
        /\ \E r \in {"added", "err"} : outcome' = [outcome EXCEPT ![o] = r]
    BY <1>4 DEF CreateObject, Answer, Exit, LastStep
  <2>2. ns'[name[o]] = s
    BY <2>1 DEF TypeOK
  <2> HIDE DEF s
  <2>3. Built(step[o]) = AllObjects /\ Built(step[o] - 1) # AllObjects
    BY <1>4, BuiltEverything DEF LastStep
  <2>4. "tenant-quota" \in AllObjects /\ quota[o] # "none"
    BY DEF AllObjects, Objects, LastStep, TypeOK
  <2>5. /\ ns[name[o]].phase = "active" /\ ns[name[o]].quota = quota[o]
        /\ ns[name[o]].objects # AllObjects
        /\ s.phase = "active" /\ s.quota = quota[o] /\ s.objects = AllObjects
    BY <1>4, <2>2, <2>3, LastObject DEF CreateObject, CanCreate
  <2>6. s.pods = Limits(quota[o])
    BY <2>2, <2>4, <2>5 DEF TurnsInv, LimitsMatch, TypeOK
  <2>7. /\ StageOf(s) = "ready" /\ LimitsOf(s) = Limits(quota[o])
        /\ StageOf(ns[name[o]]) = "building"
    BY <2>4, <2>5, <2>6 DEF StageOf, LimitsOf
  <2>8. /\ stageBar' = [stageBar EXCEPT ![name[o]] = "ready"]
        /\ tierBar' = tierBar
        /\ limitsBar' = [limitsBar EXCEPT ![name[o]] = Limits(tierBar[name[o]])]
        /\ stageBar[name[o]] = "building"
    <3>1. /\ stageBar' = [stageBar EXCEPT ![name[o]] = StageOf(s)]
          /\ limitsBar' = [limitsBar EXCEPT ![name[o]] = LimitsOf(s)]
          /\ stageBar[name[o]] = StageOf(ns[name[o]])
          /\ tierBar[name[o]] = ns[name[o]].quota
      <4>1. ns' = [ns EXCEPT ![name[o]] = s]
        BY <2>1
      <4>2. QED
        BY <4>1, <1>args, OneNamespace
    <3>2. tierBar' = tierBar
      BY <2>1, <2>5, <1>args, SameTier
    <3>3. QED
      BY <3>1, <3>2, <2>5, <2>7
  <2>9. QED
    BY <2>1, <2>8 DEF Lifecycle!Complete
<1>5. ASSUME NEW o \in Operators, DeleteNamespace(o)
      PROVE  Lifecycle!Remove(o, name[o])
  <2> DEFINE s == [ns[name[o]] EXCEPT !.phase = "terminating"]
  <2>1. /\ ns' = [ns EXCEPT ![name[o]] = s] /\ ns[name[o]].phase # "absent"
        /\ \E r \in {"removed", "err"} : outcome' = [outcome EXCEPT ![o] = r]
    BY <1>5 DEF DeleteNamespace, Answer, Exit
  <2>2. s.phase = "terminating" /\ s.quota = ns[name[o]].quota
    BY DEF TypeOK, Namespace
  <2> HIDE DEF s
  <2>3. StageOf(s) = "deleting" /\ LimitsOf(s) = 0 /\ StageOf(ns[name[o]]) # "absent"
    BY <2>1, <2>2 DEF StageOf, LimitsOf
  <2>4. /\ stageBar' = [stageBar EXCEPT ![name[o]] = "deleting"]
        /\ tierBar' = tierBar
        /\ limitsBar' = [limitsBar EXCEPT ![name[o]] = 0]
        /\ stageBar[name[o]] # "absent"
    <3>1. /\ stageBar' = [stageBar EXCEPT ![name[o]] = StageOf(s)]
          /\ limitsBar' = [limitsBar EXCEPT ![name[o]] = LimitsOf(s)]
          /\ stageBar[name[o]] = StageOf(ns[name[o]])
      BY <2>1, <1>args, OneNamespace
    <3>2. tierBar' = tierBar
      BY <2>1, <2>2, <1>args, SameTier
    <3>3. QED
      BY <3>1, <3>2, <2>3
  <2>5. QED
    BY <2>1, <2>4 DEF Lifecycle!Remove
<1>6. ASSUME NEW n \in Names, Finalize(n) PROVE Lifecycle!Gone(n)
  <2>1. /\ ns' = [ns EXCEPT ![n] = NoNamespace] /\ ns[n].phase = "terminating"
        /\ UNCHANGED outcome
    BY <1>6 DEF Finalize
  <2>2. NoNamespace.phase = "absent" /\ NoNamespace.quota = "none"
    BY DEF NoNamespace
  <2>3. /\ StageOf(NoNamespace) = "absent" /\ LimitsOf(NoNamespace) = 0
        /\ StageOf(ns[n]) = "deleting" /\ LimitsOf(ns[n]) = 0
    BY <2>1, <2>2 DEF StageOf, LimitsOf
  <2>4. /\ stageBar' = [stageBar EXCEPT ![n] = "absent"]
        /\ tierBar' = [tierBar EXCEPT ![n] = "none"]
        /\ limitsBar' = limitsBar /\ stageBar[n] = "deleting"
    <3>1. /\ stageBar' = [stageBar EXCEPT ![n] = StageOf(NoNamespace)]
          /\ tierBar' = [tierBar EXCEPT ![n] = NoNamespace.quota]
          /\ stageBar[n] = StageOf(ns[n])
      BY <2>1, OneNamespace
    <3>2. limitsBar' = limitsBar
      BY <2>1, <2>3, SameLimits
    <3>3. QED
      BY <3>1, <3>2, <2>2, <2>3
  <2>5. QED
    BY <2>1, <2>4 DEF Lifecycle!Gone
<1>7. ASSUME NEW o \in Operators, Refuse(o) \/ Fault(o) PROVE Lifecycle!Fail(o)
  BY <1>fail, <1>7 DEF Refuse, Fault, Exit
<1>8. ASSUME NEW o \in Operators, NEW n \in Names, NEW q \in Tiers, StartAdd(o, n, q)
      PROVE  UNCHANGED <<ns, outcome>>
  BY <1>8 DEF StartAdd
<1>9. ASSUME NEW o \in Operators, NEW n \in Names, StartRemove(o, n)
      PROVE  UNCHANGED <<ns, outcome>>
  BY <1>9 DEF StartRemove
<1>11. CASE UNCHANGED vars
  BY <1>1, <1>11 DEF vars
<1>12. ASSUME NEW o \in Operators, CommandStep(o)
       PROVE  \/ Lifecycle!Next
              \/ UNCHANGED <<stageBar, tierBar, limitsBar, outcome>>
  <2>1. CASE CreateNamespace(o)
    BY <1>2, <1>args, <2>1 DEF Lifecycle!Next
  <2>2. CASE CreateObject(o)
    BY <1>3, <1>4, <1>args, <2>2 DEF Lifecycle!Next
  <2>3. CASE DeleteNamespace(o)
    BY <1>5, <1>args, <2>3 DEF Lifecycle!Next
  <2>4. CASE Refuse(o) \/ Fault(o)
    BY <1>7, <2>4 DEF Lifecycle!Next
  <2>5. QED
    BY <1>12, <2>1, <2>2, <2>3, <2>4 DEF CommandStep, AddStep
<1>13. ASSUME NEW n \in Names, Finalize(n) PROVE Lifecycle!Next
  BY <1>6, <1>13 DEF Lifecycle!Next
<1>14. ASSUME NEW n \in Names, MakeByHand(n) PROVE Lifecycle!Taken(n)
  <2>1. PICK s \in ForeignNamespaces : ns' = [ns EXCEPT ![n] = s]
    BY <1>14 DEF MakeByHand
  <2>2. ns[n] = NoNamespace /\ UNCHANGED outcome
    BY <1>14 DEF MakeByHand, TypeOK, WellFormed
  <2>3. s.phase = "active" /\ s.quota = "none" /\ s.objects # AllObjects
    BY ForeignType DEF AllObjects, LastStep
  <2>4. NoNamespace.phase = "absent" /\ NoNamespace.quota = "none"
    BY DEF NoNamespace
  <2>5. /\ StageOf(s) = "foreign" /\ LimitsOf(s) = 0 /\ s.quota = ns[n].quota
        /\ StageOf(ns[n]) = "absent" /\ LimitsOf(ns[n]) = 0
    BY <2>2, <2>3, <2>4 DEF StageOf, LimitsOf
  <2>6. /\ stageBar' = [stageBar EXCEPT ![n] = StageOf(s)]
        /\ stageBar[n] = StageOf(ns[n])
    BY <2>1, OneNamespace
  <2>7. tierBar' = tierBar
    BY <2>1, <2>5, SameTier
  <2>8. limitsBar' = limitsBar
    BY <2>1, <2>5, SameLimits
  <2>9. QED
    BY <2>2, <2>5, <2>6, <2>7, <2>8 DEF Lifecycle!Taken
<1>15. QED
  BY <1>1, <1>8, <1>9, <1>11, <1>12, <1>13, <1>14 DEF Next, Lifecycle!Next

(* When add and remove of one name take turns, the API calls of Add and    *)
(* Remove implement the lifecycle that they promise.                       *)
THEOREM ImplementsLifecycle ==
  ASSUME TakeTurns = TRUE
  PROVE  Spec => LifecycleSpec
<1>1. Init => Lifecycle!Init
  BY LifecycleInit
<1>2. TypeOK /\ TypeOK' /\ TurnsInv /\ TurnsInv' /\ [Next]_vars
        => [Lifecycle!Next]_(Lifecycle!lifecycle)
  BY LifecycleStep
<1>3. QED
  BY <1>1, <1>2, TurnsInvariant, PTL DEF Spec, LifecycleSpec, Lifecycle!Spec

-----------------------------------------------------------------------------
(* Recovering. *)

(* Everything proved of Spec holds of operators who recover from a failed  *)
(* add: what they do is Add and Remove of one name (tenant.go).            *)
THEOREM RecoveryIsCommands == RecoverSpec => Spec
<1>1. TypeOK /\ [RecoverNext]_vars => [Next]_vars
  <2> SUFFICES ASSUME TypeOK, RecoverNext PROVE Next
    OBVIOUS
  <2>1. ASSUME NEW o \in Operators, Recover(o) PROVE Next
    BY <2>1 DEF Recover, AddIfAbsent, RemoveAfterError, FirstAdd, Next, TypeOK
  <2>2. ASSUME NEW n \in Names, Finalize(n) PROVE Next
    BY <2>2 DEF Next
  <2>3. QED
    BY <2>1, <2>2 DEF RecoverNext
<1>2. QED
  BY <1>1, InitTyped, TypeStep, PTL DEF RecoverSpec, Spec

=============================================================================
