------------------------------ MODULE Rollout ------------------------------
(***************************************************************************)
(* Installing a chart and waiting for it: Provisioner.InstallCilium (helm, *)
(* then WaitForDaemonSetReady and WaitForDeploymentReady) and the same     *)
(* pattern in bao.DeployAndConfigure (helm, then WaitForPodReady), against *)
(* the controllers that bring the pods up meanwhile.                       *)
(*                                                                         *)
(* A wait does not look at pods but at the status that a controller wrote  *)
(* last, and that may be behind in two ways: it is empty until the         *)
(* controller has seen the object, and after an upgrade it still describes *)
(* the pods of the revision before.                                        *)
(*                                                                         *)
(* helm keeps a record of each release in the cluster.  A helm that is     *)
(* killed leaves it pending, and helm refuses to touch a pending release.  *)
(***************************************************************************)
EXTENDS Naturals, Sequences

CONSTANTS
  DaemonSets,    \* workloads by kind
  Deployments,
  SinglePods,    \* pods of a StatefulSet, waited for by name
  Plan,          \* the order in which the command waits for them
  Chart,         \* the chart of each workload
  Breakable,     \* workloads whose pods may turn out never to be ready
  MaxRevision,   \* bound: changes of a chart
  MaxCrashes,    \* bound: ready pods that stop being ready
  MaxFaults      \* bound: calls that fail

Workloads == DaemonSets \cup Deployments \cup SinglePods

ASSUME RolloutAssumption ==
  /\ DaemonSets \cap Deployments = {}
  /\ (DaemonSets \cup Deployments) \cap SinglePods = {}
  /\ Plan \in Seq(Workloads) \ {<<>>}
  /\ DOMAIN Chart = Workloads
  /\ Breakable \subseteq Workloads
  /\ MaxRevision \in Nat /\ MaxCrashes \in Nat /\ MaxFaults \in Nat

VARIABLES
  revision,   \* of each workload's object, 0 when there is none
  old,        \* a ready pod of an older revision is still there
  new,        \* the pod of the current revision
  status,     \* what the controller has written: pods in all, pods ready
  reached,    \* a pod of the workload has been ready since it exists
  pending,    \* charts whose release is recorded as being changed
  broken,     \* workloads whose pods are never ready
  pc,         \* what the command does: nothing, helm, or a wait
  at,         \* position in Plan
  outcome,    \* how the last command ended
  crashes, faults

objects == <<revision, old, new, status, reached, pending>>
command == <<pc, at, outcome>>
vars    == <<objects, command, broken, crashes, faults>>

NoStatus == [total |-> 0, ready |-> 0]

TypeOK ==
  /\ revision \in [Workloads -> 0 .. MaxRevision]
  /\ old \in [Workloads -> BOOLEAN]
  /\ new \in [Workloads -> {"none", "starting", "ready"}]
  /\ status \in [Workloads -> [total : 0 .. 2, ready : 0 .. 2]]
  /\ reached \in [Workloads -> BOOLEAN] /\ broken \subseteq Breakable
  /\ pending \subseteq {Chart[w] : w \in Workloads}
  /\ pc \in {"idle", "helm", "wait"} /\ at \in 1 .. Len(Plan)
  /\ outcome \in {"none", "ok", "err"}
  /\ crashes \in 0 .. MaxCrashes /\ faults \in 0 .. MaxFaults
  /\ \A w \in Workloads : /\ revision[w] = 0 => new[w] = "none"
                          /\ old[w] => revision[w] > 1
                          /\ status[w].ready <= status[w].total

Init ==
  /\ revision = [w \in Workloads |-> 0]
  /\ old = [w \in Workloads |-> FALSE]
  /\ new = [w \in Workloads |-> "none"]
  /\ status = [w \in Workloads |-> NoStatus]
  /\ reached = [w \in Workloads |-> FALSE]
  /\ pending = {}
  /\ broken \in SUBSET Breakable
  /\ pc = "idle" /\ at = 1 /\ outcome = "none"
  /\ crashes = 0 /\ faults = 0

-----------------------------------------------------------------------------
(* The command. *)

Return(result) == pc' = "idle" /\ at' = 1 /\ outcome' = result

Start ==
  /\ pc = "idle" /\ outcome # "ok"
  /\ pc' = "helm"
  /\ UNCHANGED <<objects, at, outcome, broken, crashes, faults>>

(* An operator may also install again what is installed. *)
StartAgain ==
  /\ pc = "idle" /\ outcome = "ok"
  /\ \E w \in Workloads : revision[w] < MaxRevision
  /\ pc' = "helm"
  /\ UNCHANGED <<objects, at, outcome, broken, crashes, faults>>

(* The workloads in C get their next revision. *)
Apply(C) ==
  /\ \A w \in C : revision[w] < MaxRevision
  /\ revision' = [w \in Workloads |-> revision[w] + (IF w \in C THEN 1 ELSE 0)]
  /\ old' = [w \in Workloads |-> old[w] \/ (w \in C /\ new[w] = "ready")]
  /\ new' = [w \in Workloads |-> IF w \in C THEN "none" ELSE new[w]]

InChart == {w \in Workloads : Chart[w] = Chart[Plan[at]]}

(* No killed helm has left the release of this chart pending. *)
Settled == Chart[Plan[at]] \notin pending

(* Variant: helm install instead of helm upgrade --install. *)
HelmInstall ==
  /\ pc = "helm" /\ Settled
  /\ \/ /\ \A w \in InChart : revision[w] = 0
        /\ Apply(InChart)
        /\ pc' = "wait" /\ UNCHANGED <<at, outcome>>
     \/ /\ \E w \in InChart : revision[w] # 0
        /\ Return("err") /\ UNCHANGED <<revision, old, new>>
  /\ UNCHANGED <<status, reached, pending, broken, crashes, faults>>

(* Variant: helm uninstall before helm install. *)
HelmReplace ==
  /\ pc = "helm"
  /\ revision' = [w \in Workloads |-> IF w \in InChart THEN 1 ELSE revision[w]]
  /\ old' = [w \in Workloads |-> old[w] \/ (w \in InChart /\ new[w] = "ready")]
  /\ new' = [w \in Workloads |-> IF w \in InChart THEN "none" ELSE new[w]]
  /\ pc' = "wait"
  /\ UNCHANGED <<at, outcome, status, reached, pending, broken, crashes, faults>>

(* helm upgrade --install: creates what is not there, and changes what is  *)
(* there only as far as the repository has another version of the chart.   *)
HelmUpgrade ==
  /\ pc = "helm" /\ Settled
  /\ \E C \in SUBSET InChart : Apply(C) /\ \A w \in InChart \ C : revision[w] # 0
  /\ pc' = "wait"
  /\ UNCHANGED <<at, outcome, status, reached, pending, broken, crashes, faults>>

(* "another operation (install/upgrade/rollback) is in progress" *)
HelmRefuses ==
  /\ pc = "helm" /\ ~Settled
  /\ Return("err")
  /\ UNCHANGED <<objects, broken, crashes, faults>>

(* helm fails at any point, or is killed with its parent (CommandContext): *)
(* some objects are applied, and in the second case the release may stay   *)
(* pending.                                                                *)
HelmFault ==
  /\ pc = "helm" /\ Settled /\ faults < MaxFaults
  /\ faults' = faults + 1
  /\ \E C \in SUBSET InChart : Apply(C)
  /\ pending' \in {pending, pending \cup {Chart[Plan[at]]}}
  /\ Return("err")
  /\ UNCHANGED <<status, reached, broken, crashes>>

(* A wait has returned nil: the next one, the next chart, or the end. *)
Advance ==
  IF at = Len(Plan) THEN Return("ok")
  ELSE /\ at' = at + 1
       /\ pc' = IF Chart[Plan[at + 1]] = Chart[Plan[at]] THEN "wait" ELSE "helm"
       /\ UNCHANGED outcome

Waiting(kind) == pc = "wait" /\ Plan[at] \in kind

(* Variant: a status that counts no pods is complete. *)
WaitForDaemonSetReadyEmpty ==
  /\ Waiting(DaemonSets)
  /\ status[Plan[at]].ready = status[Plan[at]].total
  /\ Advance
  /\ UNCHANGED <<objects, broken, crashes, faults>>

(* One tick of each wait that finds what it waits for.  The object is      *)
(* there since helm returned.                                              *)
WaitForDaemonSetReady ==
  /\ Waiting(DaemonSets)
  /\ status[Plan[at]].total > 0
  /\ status[Plan[at]].ready = status[Plan[at]].total
  /\ Advance
  /\ UNCHANGED <<objects, broken, crashes, faults>>

WaitForDeploymentReady ==
  /\ Waiting(Deployments)
  /\ status[Plan[at]].total > 0
  /\ status[Plan[at]].ready = status[Plan[at]].total
  /\ Advance
  /\ UNCHANGED <<objects, broken, crashes, faults>>

PodThere(w) == old[w] \/ new[w] # "none"
PodIsReady(w) == old[w] \/ new[w] = "ready"

(* Variant: a pod that cannot be read ends the wait, as it does for the    *)
(* other kinds.                                                            *)
WaitForPodReadyStrict ==
  /\ Waiting(SinglePods)
  /\ \/ PodIsReady(Plan[at]) /\ Advance
     \/ ~PodThere(Plan[at]) /\ Return("err")
  /\ UNCHANGED <<objects, broken, crashes, faults>>

(* The pod itself is read.  It may not be there yet; an error is ignored.  *)
WaitForPodReady ==
  /\ Waiting(SinglePods)
  /\ PodIsReady(Plan[at])
  /\ Advance
  /\ UNCHANGED <<objects, broken, crashes, faults>>

(* Five minutes are over, as they are for certain when the pods are never  *)
(* ready.  A rollout that is merely slower than that is a WaitFault.       *)
WaitTimeout ==
  /\ pc = "wait" /\ Plan[at] \in broken
  /\ Return("err")
  /\ UNCHANGED <<objects, broken, crashes, faults>>

(* A Get fails, the process is stopped, or the time is up.  The wait for a *)
(* pod goes on after an error of its Get.                                  *)
WaitFault ==
  /\ pc = "wait" /\ faults < MaxFaults
  /\ faults' = faults + 1
  /\ Return("err")
  /\ UNCHANGED <<objects, broken, crashes>>

Helm == HelmUpgrade \/ HelmRefuses \/ HelmFault

Wait ==
  \/ WaitForDaemonSetReady \/ WaitForDeploymentReady \/ WaitForPodReady
  \/ WaitTimeout \/ WaitFault

-----------------------------------------------------------------------------
(* The controllers and the kubelets. *)

(* A Deployment starts the new pod beside the old one; the others stop the *)
(* old one first.                                                          *)
StartPod(w) ==
  /\ revision[w] # 0 /\ new[w] = "none"
  /\ w \in Deployments \/ ~old[w]
  /\ new' = [new EXCEPT ![w] = "starting"]
  /\ UNCHANGED <<revision, old, status, reached, pending, command, broken, crashes, faults>>

StopOldPod(w) ==
  /\ old[w]
  /\ w \in Deployments => new[w] = "ready"
  /\ old' = [old EXCEPT ![w] = FALSE]
  /\ UNCHANGED <<revision, new, status, reached, pending, command, broken, crashes, faults>>

PodReady(w) ==
  /\ new[w] = "starting" /\ w \notin broken
  /\ new' = [new EXCEPT ![w] = "ready"]
  /\ reached' = [reached EXCEPT ![w] = TRUE]
  /\ UNCHANGED <<revision, old, status, pending, command, broken, crashes, faults>>

PodCrash(w) ==
  /\ new[w] = "ready"
  /\ crashes < MaxCrashes /\ crashes' = crashes + 1
  /\ new' = [new EXCEPT ![w] = "starting"]
  /\ UNCHANGED <<revision, old, status, reached, pending, command, broken, faults>>

Observed(w) ==
  LET one(b) == IF b THEN 1 ELSE 0
  IN [total |-> IF w \in DaemonSets THEN 1 ELSE one(old[w]) + one(new[w] # "none"),
      ready |-> one(old[w]) + one(new[w] = "ready")]

(* The controller writes the status of what it sees now. *)
WriteStatus(w) ==
  /\ w \notin SinglePods /\ revision[w] # 0
  /\ status[w] # Observed(w)
  /\ status' = [status EXCEPT ![w] = Observed(w)]
  /\ UNCHANGED <<revision, old, new, reached, pending, command, broken, crashes, faults>>

Controllers(w) == StartPod(w) \/ StopOldPod(w) \/ PodReady(w) \/ WriteStatus(w)

Install == Start \/ Helm \/ Wait

Next ==
  \/ Install \/ StartAgain
  \/ \E w \in Workloads : Controllers(w) \/ PodCrash(w)

(* The operator repeats a command that failed, every call returns, and the *)
(* controllers and kubelets do their work.                                 *)
Spec ==
  /\ Init /\ [][Next]_vars
  /\ WF_vars(Install)
  /\ \A w \in Workloads : WF_vars(Controllers(w))

-----------------------------------------------------------------------------
(* Properties. *)

(* Success is never reported on the strength of a status that nobody has   *)
(* filled in: when the command returns nil, each workload has had a ready  *)
(* pod.  After a first installation that is a pod of what was installed;   *)
(* after an upgrade it may be one of the revision before (the `> 0` of     *)
(* WaitForDaemonSetReady and WaitForDeploymentReady).                      *)
SuccessIsEarned ==
  [][outcome' = "ok" /\ pc # "idle" /\ pc' = "idle"
       => \A i \in DOMAIN Plan : reached[Plan[i]]]_vars

(* No state that controllers pass through on the way makes a command fail: *)
(* it returns an error only if a call fails, a killed helm has left a      *)
(* release pending, or the pods are not ready in time.  WaitForPodReady    *)
(* has to bear with a pod that is not there yet, the other waits do not,   *)
(* since helm has created what they read.                                  *)
FailsForCause ==
  [][pc # "idle" /\ pc' = "idle" /\ outcome' = "err"
       => faults' # faults \/ broken # {} \/ pending # {}]_vars

(* A command always comes back, also when the pods never get ready (the    *)
(* timeout of the waits).  Repeating it installs everything at last, also  *)
(* after helm has failed half way or a wait was stopped, with two          *)
(* exceptions: pods that are never ready, and a helm that was killed while *)
(* its release was pending.  Nothing in the code gets out of the latter    *)
(* (provisioner.go:214-224, deploy.go:53-64): helm refuses every repetition *)
(* until somebody rolls the release back.                                  *)
InstallConverges ==
  []<>(pc = "idle") /\ <>(outcome = "ok" \/ broken # {} \/ pending # {})

=============================================================================
