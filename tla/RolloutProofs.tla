--------------------------- MODULE RolloutProofs ---------------------------
(***************************************************************************)
(* Theorems about Rollout, for every plan, every set of workloads and      *)
(* every bound.                                                            *)
(***************************************************************************)
EXTENDS Rollout, TLAPS

(* Beside a pod of an older revision only a Deployment has a new one. *)
OneAtATime == \A w \in Workloads \ Deployments : old[w] => new[w] = "none"

(* A ready pod, or a status that counts one, is there because a pod has    *)
(* been ready.                                                             *)
Evidence ==
  \A w \in Workloads :
    /\ old[w] \/ new[w] = "ready" => reached[w]
    /\ status[w].ready > 0 => reached[w]

(* The workloads that the command has waited for have been ready. *)
WaitedFor == \A i \in DOMAIN Plan : i < at => reached[Plan[i]]

(* TypeOK without the status, and the status. *)
CommandTyped ==
  /\ pc \in {"idle", "helm", "wait"} /\ at \in 1 .. Len(Plan)
  /\ outcome \in {"none", "ok", "err"}
  /\ crashes \in 0 .. MaxCrashes /\ faults \in 0 .. MaxFaults
  /\ broken \subseteq Breakable

PodsTyped ==
  /\ revision \in [Workloads -> 0 .. MaxRevision]
  /\ old \in [Workloads -> BOOLEAN]
  /\ new \in [Workloads -> {"none", "starting", "ready"}]
  /\ reached \in [Workloads -> BOOLEAN]
  /\ \A w \in Workloads : /\ revision[w] = 0 => new[w] = "none"
                          /\ old[w] => revision[w] > 1
  /\ pending \subseteq {Chart[w] : w \in Workloads}

StatusTyped ==
  /\ status \in [Workloads -> [total : 0 .. 2, ready : 0 .. 2]]
  /\ \A w \in Workloads : status[w].ready <= status[w].total

(* TypeOK in its three parts.                                              *)
LEMMA TypeParts == TypeOK <=> CommandTyped /\ PodsTyped /\ StatusTyped
BY DEF TypeOK, CommandTyped, PodsTyped, StatusTyped

(* The plan is not empty.                                                  *)
LEMMA PlanIsFinite == Len(Plan) \in Nat \ {0} /\ DOMAIN Plan = 1 .. Len(Plan)
BY RolloutAssumption

-----------------------------------------------------------------------------
(* Type correctness. *)

(* Steps of the command and bounds.                                        *)
LEMMA CommandStep == CommandTyped /\ [Next]_vars => CommandTyped'
<1> USE RolloutAssumption, PlanIsFinite
<1> SUFFICES ASSUME CommandTyped, [Next]_vars PROVE CommandTyped'
  OBVIOUS
<1> USE DEF CommandTyped, Return
<1>1. ASSUME Advance, UNCHANGED <<broken, crashes, faults>>
      PROVE  CommandTyped'
  <2>1. CASE at = Len(Plan)
    BY <1>1, <2>1 DEF Advance
  <2>2. CASE at # Len(Plan)
    <3> DEFINE L == Len(Plan)
    <3>1. L \in Nat /\ at \in 1 .. L /\ at # L
      BY <2>2
    <3>2. at' = at + 1 /\ outcome' = outcome
      BY <1>1, <2>2 DEF Advance
    <3>3. pc' \in {"wait", "helm"}
      BY <1>1, <2>2 DEF Advance
    <3> HIDE DEF L
    <3>4. at' \in 1 .. L
      BY <3>1, <3>2
    <3>5. QED
      BY <1>1, <3>2, <3>3, <3>4 DEF L
  <2>3. QED
    BY <2>1, <2>2
<1>2. CASE Start \/ StartAgain \/ Helm
  BY <1>2 DEF Start, StartAgain, Helm, HelmUpgrade, HelmRefuses, HelmFault
<1>3. CASE WaitForDaemonSetReady \/ WaitForDeploymentReady \/ WaitForPodReady
  BY <1>1, <1>3 DEF WaitForDaemonSetReady, WaitForDeploymentReady, WaitForPodReady
<1>4. CASE WaitTimeout \/ WaitFault
  BY <1>4 DEF WaitTimeout, WaitFault
<1>5. ASSUME NEW w \in Workloads, Controllers(w) \/ PodCrash(w)
      PROVE  CommandTyped'
  BY <1>5 DEF Controllers, StartPod, StopOldPod, PodReady, WriteStatus, PodCrash,
              command
<1>6. CASE UNCHANGED vars
  BY <1>6 DEF vars, command
<1>7. QED
  BY <1>2, <1>3, <1>4, <1>5, <1>6 DEF Next, Install, Wait

(* What helm does to the objects, whether it ends well or not. *)
HelmApplies ==
  /\ \E C \in SUBSET InChart : Apply(C)
  /\ pending' \in {pending, pending \cup {Chart[Plan[at]]}}
  /\ UNCHANGED <<status, reached>>

(* What the command does other than helm leaves the objects alone. *)
LEMMA OnlyHelmChanges ==
  ASSUME Install \/ StartAgain
  PROVE  HelmApplies \/ UNCHANGED objects
BY DEF Install, StartAgain, Start, Helm, HelmUpgrade, HelmRefuses, HelmFault,
   HelmApplies, Wait, WaitForDaemonSetReady, WaitForDeploymentReady,
   WaitForPodReady, WaitTimeout, WaitFault

(* A pod is replaced by one of the next revision.                          *)
LEMMA PodsStep ==
  CommandTyped /\ PodsTyped /\ OneAtATime /\ [Next]_vars => PodsTyped' /\ OneAtATime'
<1> USE RolloutAssumption
<1> SUFFICES ASSUME CommandTyped, PodsTyped, OneAtATime, [Next]_vars
             PROVE  PodsTyped' /\ OneAtATime'
  OBVIOUS
<1> USE DEF PodsTyped, OneAtATime
<1>1. CASE UNCHANGED <<revision, old, new, reached, pending>>
  BY <1>1
<1>2. CASE HelmApplies
  <2>1. PICK C \in SUBSET Workloads : Apply(C)
    BY <1>2 DEF HelmApplies, InChart
  <2>2. /\ revision' = [w \in Workloads |-> revision[w] + (IF w \in C THEN 1 ELSE 0)]
        /\ old' = [w \in Workloads |-> old[w] \/ (w \in C /\ new[w] = "ready")]
        /\ new' = [w \in Workloads |-> IF w \in C THEN "none" ELSE new[w]]
        /\ \A w \in C : revision[w] < MaxRevision
    BY <2>1 DEF Apply
  <2>3. reached' = reached
    BY <1>2 DEF HelmApplies
  <2>4. revision' \in [Workloads -> 0 .. MaxRevision]
    BY <2>2
  <2>5. old' \in [Workloads -> BOOLEAN] /\ new' \in [Workloads -> {"none", "starting", "ready"}]
    BY <2>2
  <2>6. ASSUME NEW w \in Workloads
        PROVE  /\ revision'[w] = 0 => new'[w] = "none"
               /\ old'[w] => revision'[w] > 1
               /\ w \notin Deployments => (old'[w] => new'[w] = "none")
    BY <2>2
  <2>7. Plan[at] \in Workloads
    BY PlanIsFinite DEF CommandTyped
  <2>8. pending' \subseteq {Chart[w] : w \in Workloads}
    BY <1>2, <2>7 DEF HelmApplies
  <2>9. QED
    BY <2>3, <2>4, <2>5, <2>6, <2>8
<1>3. ASSUME NEW w \in Workloads, StartPod(w)
      PROVE  PodsTyped' /\ OneAtATime'
  BY <1>3 DEF StartPod
<1>4. ASSUME NEW w \in Workloads, StopOldPod(w)
      PROVE  PodsTyped' /\ OneAtATime'
  BY <1>4 DEF StopOldPod
<1>5. ASSUME NEW w \in Workloads, PodReady(w) \/ PodCrash(w)
      PROVE  PodsTyped' /\ OneAtATime'
  BY <1>5 DEF PodReady, PodCrash
<1>6. ASSUME NEW w \in Workloads, WriteStatus(w)
      PROVE  UNCHANGED <<revision, old, new, reached, pending>>
  BY <1>6 DEF WriteStatus
<1>7. CASE UNCHANGED objects
  BY <1>1, <1>7 DEF objects
<1>8. QED
  BY <1>1, <1>2, <1>3, <1>4, <1>5, <1>6, <1>7, OnlyHelmChanges
     DEF Next, Controllers, vars, objects

(* What a controller writes down is what is there. *)
LEMMA ObservedTyped ==
  ASSUME PodsTyped, OneAtATime, NEW w \in Workloads
  PROVE  /\ Observed(w) \in [total : 0 .. 2, ready : 0 .. 2]
         /\ Observed(w).ready <= Observed(w).total
         /\ Observed(w).ready > 0 => old[w] \/ new[w] = "ready"
<1>1. old[w] \in BOOLEAN /\ (w \in DaemonSets => w \notin Deployments)
  BY RolloutAssumption DEF PodsTyped
<1>2. w \in DaemonSets => ~(old[w] /\ new[w] = "ready")
  BY <1>1 DEF OneAtATime
<1>3. QED
  BY <1>1, <1>2 DEF Observed

(* The status is written by its controller only.                           *)
LEMMA StatusStep ==
  StatusTyped /\ PodsTyped /\ OneAtATime /\ [Next]_vars => StatusTyped'
<1> SUFFICES ASSUME StatusTyped, PodsTyped, OneAtATime, [Next]_vars
             PROVE  StatusTyped'
  OBVIOUS
<1>1. CASE UNCHANGED status
  BY <1>1 DEF StatusTyped
<1>2. ASSUME NEW w \in Workloads, WriteStatus(w)
      PROVE  StatusTyped'
  BY <1>2, ObservedTyped DEF WriteStatus, StatusTyped
<1>3. QED
  BY <1>1, <1>2, OnlyHelmChanges
     DEF Next, Controllers, HelmApplies, StartPod, StopOldPod, PodReady, PodCrash,
         vars, objects

Typed == CommandTyped /\ PodsTyped /\ StatusTyped /\ OneAtATime

(* The types, and one new pod at a time, in every reachable state.         *)
LEMMA TypedInvariant == Spec => []Typed
<1>1. Init => Typed
  <2> SUFFICES ASSUME Init PROVE Typed
    OBVIOUS
  <2>1. CommandTyped
    BY RolloutAssumption, PlanIsFinite DEF Init, CommandTyped
  <2>2. PodsTyped /\ OneAtATime
    BY RolloutAssumption DEF Init, PodsTyped, OneAtATime
  <2>3. StatusTyped
    BY DEF Init, StatusTyped, NoStatus
  <2>4. QED
    BY <2>1, <2>2, <2>3 DEF Typed
<1>2. Typed /\ [Next]_vars => Typed'
  BY CommandStep, PodsStep, StatusStep DEF Typed
<1>3. QED
  BY <1>1, <1>2, PTL DEF Spec

(* The variables keep their types: no status counts more ready pods than   *)
(* it counts pods, and whatever is replaced had been installed.            *)
THEOREM TypeCorrect == Spec => []TypeOK
<1>1. Typed => TypeOK
  BY TypeParts DEF Typed
<1>2. QED
  BY <1>1, TypedInvariant, PTL

-----------------------------------------------------------------------------
(* What success and failure mean. *)

(* A wait only ends well on evidence. *)
LEMMA WaitNeedsEvidence ==
  ASSUME Typed, Evidence,
         WaitForDaemonSetReady \/ WaitForDeploymentReady \/ WaitForPodReady
  PROVE  reached[Plan[at]] /\ Advance /\ UNCHANGED <<objects, broken, crashes, faults>>
<1>1. CASE WaitForDaemonSetReady \/ WaitForDeploymentReady
  <2>1. Plan[at] \in Workloads
    BY <1>1 DEF WaitForDaemonSetReady, WaitForDeploymentReady, Waiting, Workloads
  <2>2. status[Plan[at]].ready > 0
    BY <1>1 DEF WaitForDaemonSetReady, WaitForDeploymentReady
  <2>3. QED
    BY <1>1, <2>1, <2>2 DEF Evidence, WaitForDaemonSetReady, WaitForDeploymentReady
<1>2. CASE WaitForPodReady
  BY <1>2 DEF WaitForPodReady, Waiting, PodIsReady, Evidence, Workloads
<1>3. QED
  BY <1>1, <1>2

(* Readiness and a status that counts it come from a pod that was ready.   *)
LEMMA EvidenceStep ==
  ASSUME Typed, Evidence, [Next]_vars
  PROVE  Evidence' /\ \A w \in Workloads : reached[w] => reached'[w]
<1> USE DEF Evidence
<1>1. CASE UNCHANGED objects
  BY <1>1 DEF objects
<1>2. CASE HelmApplies
  BY <1>2 DEF HelmApplies, Apply, Typed, PodsTyped
<1>3. ASSUME NEW w \in Workloads, StartPod(w) \/ StopOldPod(w) \/ PodReady(w) \/ PodCrash(w)
      PROVE  Evidence' /\ \A v \in Workloads : reached[v] => reached'[v]
  BY <1>3 DEF StartPod, StopOldPod, PodReady, PodCrash, Typed, PodsTyped
<1>4. ASSUME NEW w \in Workloads, WriteStatus(w)
      PROVE  Evidence' /\ \A v \in Workloads : reached[v] => reached'[v]
  BY <1>4, ObservedTyped DEF WriteStatus, Typed, StatusTyped
<1>5. QED
  BY <1>1, <1>2, <1>3, <1>4, OnlyHelmChanges DEF Next, Controllers, vars

(* The command moves on only when a wait ends well.                        *)
LEMMA WaitedForStep ==
  ASSUME Typed, Evidence, WaitedFor, [Next]_vars
  PROVE  WaitedFor'
<1> USE PlanIsFinite
<1> SUFFICES ASSUME NEW i \in DOMAIN Plan, i < at' PROVE reached'[Plan[i]]
  BY DEF WaitedFor
<1>1. Plan[i] \in Workloads
  BY RolloutAssumption
<1>2. reached[Plan[i]] => reached'[Plan[i]]
  BY <1>1, EvidenceStep
<1>3. CASE i < at
  BY <1>2, <1>3 DEF WaitedFor
<1>4. CASE ~(i < at)
  <2>1. at' # at /\ at' # 1
    BY <1>4 DEF Typed, CommandTyped
  <2>2. WaitForDaemonSetReady \/ WaitForDeploymentReady \/ WaitForPodReady
    BY <2>1 DEF Next, Install, Start, StartAgain, Helm, HelmUpgrade, HelmRefuses,
       HelmFault, Wait, WaitTimeout, WaitFault, Return, Controllers, StartPod, StopOldPod, PodReady, WriteStatus,
       PodCrash, command, vars
  <2>3. at' = at + 1 /\ reached[Plan[at]]
    BY <2>1, <2>2, WaitNeedsEvidence DEF Advance, Return
  <2>4. i = at
    BY <1>4, <2>3 DEF Typed, CommandTyped
  <2>5. QED
    BY <1>2, <2>3, <2>4
<1>5. QED
  BY <1>3, <1>4

(* Readiness is recorded for what the command has waited for. *)
LEMMA WaitedForInvariant == Spec => [](Typed /\ Evidence /\ WaitedFor)
<1>1. Init => Evidence /\ WaitedFor
  BY PlanIsFinite DEF Init, Evidence, WaitedFor, NoStatus
<1>2. Typed /\ Evidence /\ WaitedFor /\ [Next]_vars => Evidence' /\ WaitedFor'
  BY EvidenceStep, WaitedForStep
<1>3. QED
  BY <1>1, <1>2, TypedInvariant, PTL DEF Spec

(* How the command can end. *)
LEMMA Endings ==
  ASSUME Typed, Next, pc # "idle", pc' = "idle"
  PROVE  \/ WaitForDaemonSetReady \/ WaitForDeploymentReady \/ WaitForPodReady
         \/ WaitTimeout \/ WaitFault \/ HelmRefuses \/ HelmFault
<1>1. CASE Start \/ StartAgain \/ HelmUpgrade
  BY <1>1 DEF Start, StartAgain, HelmUpgrade
<1>2. ASSUME NEW w \in Workloads, Controllers(w) \/ PodCrash(w)
      PROVE  pc' = pc
  BY <1>2 DEF Controllers, StartPod, StopOldPod, PodReady, WriteStatus, PodCrash,
              command
<1>3. QED
  BY <1>1, <1>2 DEF Next, Install, Helm, Wait

(* When installing returns nil every workload of the plan has had a ready  *)
(* pod: no status that a controller has not written yet, and no pod that   *)
(* is about to be replaced, is taken for it (the three WaitFor loops of    *)
(* K8sclient.go).                                                          *)
THEOREM SuccessMeansReady == Spec => SuccessIsEarned
<1> DEFINE Earned == outcome' = "ok" /\ pc # "idle" /\ pc' = "idle"
                       => \A i \in DOMAIN Plan : reached[Plan[i]]
<1>1. ASSUME Typed, Evidence, WaitedFor, Next PROVE Earned
  <2> SUFFICES ASSUME outcome' = "ok", pc # "idle", pc' = "idle",
                      NEW i \in DOMAIN Plan
               PROVE  reached[Plan[i]]
    OBVIOUS
  <2>1. CASE WaitForDaemonSetReady \/ WaitForDeploymentReady \/ WaitForPodReady
    <3>1. reached[Plan[at]] /\ Advance
      BY <1>1, <2>1, WaitNeedsEvidence
    <3>2. at = Len(Plan)
      BY <3>1 DEF Advance
    <3>3. QED
      BY <1>1, <3>1, <3>2, PlanIsFinite DEF WaitedFor
  <2>2. CASE WaitTimeout \/ WaitFault \/ HelmRefuses \/ HelmFault
    BY <1>1, <2>2 DEF WaitTimeout, WaitFault, HelmRefuses, HelmFault, Settled, Return,
                      Typed, CommandTyped
  <2>3. QED
    BY <1>1, <2>1, <2>2, Endings
<1>2. Typed /\ Evidence /\ WaitedFor /\ [Next]_vars => [Earned]_vars
  BY <1>1
<1>3. QED
  BY <1>2, WaitedForInvariant, PTL DEF Spec, SuccessIsEarned

(* It returns an error only for a failed call, a release that a killed     *)
(* helm has left pending, or pods that are never ready: an object that is  *)
(* not there yet is waited for (the three WaitFor loops of K8sclient.go).  *)
THEOREM FailureHasCause == Spec => FailsForCause
<1> DEFINE ForCause == pc # "idle" /\ pc' = "idle" /\ outcome' = "err"
                         => faults' # faults \/ broken # {} \/ pending # {}
<1>1. ASSUME Typed, Evidence, WaitedFor, Next PROVE ForCause
  <2> SUFFICES ASSUME pc # "idle", pc' = "idle", outcome' = "err"
               PROVE  faults' # faults \/ broken # {} \/ pending # {}
    OBVIOUS
  <2>1. CASE WaitForDaemonSetReady \/ WaitForDeploymentReady \/ WaitForPodReady
    <3>1. Advance
      BY <1>1, <2>1, WaitNeedsEvidence
    <3>2. outcome' # "err"
      BY <1>1, <3>1, PlanIsFinite DEF Advance, Return, Typed, CommandTyped
    <3>3. QED
      BY <3>2
  <2>2. CASE WaitTimeout \/ WaitFault \/ HelmRefuses \/ HelmFault
    BY <1>1, <2>2 DEF WaitTimeout, WaitFault, HelmRefuses, HelmFault, Settled, Return,
                      Typed, CommandTyped
  <2>3. QED
    BY <1>1, <2>1, <2>2, Endings
<1>2. Typed /\ Evidence /\ WaitedFor /\ [Next]_vars => [ForCause]_vars
  BY <1>1
<1>3. QED
  BY <1>2, WaitedForInvariant, PTL DEF Spec, FailsForCause

=============================================================================
