----------------------------- MODULE NodeDrain -----------------------------
(***************************************************************************)
(* Client.DrainNode with the pods it evicts.  The module composes          *)
(* Bootstrap, in which a drain is a single call that succeeds or gives up, *)
(* with the pods of the cluster: the drain becomes a list, one deletion    *)
(* per pod and a poll, between which the scheduler, the kubelets and the   *)
(* other commands go on.                                                   *)
(*                                                                         *)
(* A pod is known by its name.  A StatefulSet makes a pod of the same name *)
(* again; every other pod that ends is replaced, if at all, by one of      *)
(* another name.                                                           *)
(***************************************************************************)
EXTENDS Bootstrap

CONSTANTS
  Pods,       \* names of pods
  Stateful,   \* pods that come back under their name when they end
  Resident,   \* pods of DaemonSets and mirror pods, which belong to a node
  Tolerant,   \* other pods that may be bound to a cordoned node: they tolerate the
              \* cordon, or were scheduled before it was seen
  Pending,    \* place of a name that no pod has, but one may get
  Gone,       \* place of a name that will not be used again
  MaxEnds     \* bound: pods that end by themselves

ASSUME PodsAssumption ==
  /\ Stateful \subseteq Pods /\ Tolerant \subseteq Pods
  /\ Resident \subseteq Stateful /\ Resident \cap Tolerant = {}
  /\ Pending \notin Hosts /\ Gone \notin Hosts /\ Pending # Gone
  /\ MaxEnds \in Nat

VARIABLES
  place,      \* spec.nodeName of each pod
  dying,      \* pods whose deletion is requested and not yet confirmed
  step,       \* where each operator's DrainNode is: list, delete, wait
  toDelete,   \* podsToDelete, without those handled already
  ends        \* pods that have ended by themselves

pods      == <<place, dying>>
drainVars == <<pods, step, toDelete, ends>>
allVars   == <<vars, drainVars>>

On(h) == {p \in Pods : place[p] = h}

(* isDaemonSet and isMirrorPod: what no list of the drain counts. *)
Counted(P) == P \ Resident

(* The pods that a drain of host h is about. *)
Evictable(h) == Counted(On(h))

(* Types of both modules. *)
DrainTypeOK ==
  /\ TypeOK
  /\ place \in [Pods -> Hosts \cup {Pending, Gone}]
  /\ dying \subseteq {p \in Pods : place[p] \in Hosts}
  /\ \A p \in Stateful : place[p] # Gone
  /\ step \in [Operators -> {"list", "delete", "wait"}]
  /\ toDelete \in [Operators -> SUBSET Pods]
  /\ \A o \in Operators :
       /\ step[o] # "list" => pc[o] = "drain"
       /\ toDelete[o] # {} <=> step[o] = "delete"
  /\ ends \in 0 .. MaxEnds

DrainInit ==
  /\ Init
  /\ place = [p \in Pods |-> Pending] /\ dying = {}
  /\ step = [o \in Operators |-> "list"]
  /\ toDelete = [o \in Operators |-> {}]
  /\ ends = 0

-----------------------------------------------------------------------------
(* DrainNode. *)

Proceed(o, s, P) ==
  /\ step' = [step EXCEPT ![o] = s]
  /\ toDelete' = [toDelete EXCEPT ![o] = P]

(* DrainNode returns nil, and node remove goes on. *)
Drained(o) == DrainNode(o) /\ Proceed(o, "list", {}) /\ UNCHANGED <<pods, ends>>

(* Variant: the command takes the error for the end of its work.            *)
DrainFailsQuietly(o) ==
  /\ Exit(o, "ok") /\ Proceed(o, "list", {})
  /\ UNCHANGED <<cluster, kubeconfig, faults, pods, ends>>

(* DrainNode returns an error because of what it finds, and so does the    *)
(* command.                                                                *)
DrainFails(o) ==
  /\ Exit(o, "err") /\ Proceed(o, "list", {})
  /\ UNCHANGED <<cluster, kubeconfig, faults, pods, ends>>

(* Variant: the list is not limited to the node. *)
ListPodsEverywhere(o) ==
  /\ pc[o] = "drain" /\ step[o] = "list" /\ Answers(o)
  /\ LET all == Counted({p \in Pods : place[p] \in Hosts})
     IN \/ all = {} /\ Drained(o)
        \/ /\ all # {}
           /\ Proceed(o, "delete", all)
           /\ UNCHANGED <<vars, pods, ends>>

(* The pods to delete are chosen once; none is success. *)
ListPods(o) ==
  /\ pc[o] = "drain" /\ step[o] = "list" /\ Answers(o)
  /\ \/ Evictable(target[o]) = {} /\ Drained(o)
     \/ /\ Evictable(target[o]) # {}
        /\ Proceed(o, "delete", Evictable(target[o]))
        /\ UNCHANGED <<vars, pods, ends>>

(* Deleting asks the kubelet to end the pod that has the name now, wherever *)
(* it runs.  A pod of a StatefulSet that has been made again and is not    *)
(* bound to a node yet goes at once, and is made once more.                *)
DeletePod(o, p) ==
  /\ step[o] = "delete" /\ p \in toDelete[o] /\ Answers(o)
  /\ \/ place[p] \in Hosts /\ dying' = dying \cup {p}
     \/ place[p] = Pending /\ UNCHANGED dying
  /\ Proceed(o, IF toDelete[o] = {p} THEN "wait" ELSE "delete", toDelete[o] \ {p})
  /\ UNCHANGED <<vars, place, ends>>

(* NotFound is an error like any other: the drain stops there.  A pod that *)
(* comes back under its name may not have been made again yet.             *)
DeleteMissing(o) ==
  /\ step[o] = "delete" /\ Answers(o)
  /\ \E p \in toDelete[o] : place[p] \notin Hosts
  /\ DrainFails(o)

(* Variant: pods that are being deleted already are not waited for.         *)
PollPodsDying(o) ==
  /\ step[o] = "wait" /\ Answers(o)
  /\ Evictable(target[o]) \subseteq dying
  /\ Drained(o)

(* The ticker: success when nothing that counts is left on the node. *)
PollPods(o) ==
  /\ step[o] = "wait" /\ Answers(o)
  /\ Evictable(target[o]) = {}
  /\ Drained(o)

(* Variant: the limit of the wait is lost. *)
WaitTimeoutNever(o) == step[o] = "wait" /\ FALSE /\ DrainFails(o)

(* The limit of five minutes passes when a pod is left that nobody has     *)
(* asked to end, or when the host, reset before, has no kubelet to confirm *)
(* anything.  A kubelet that is merely too slow is a Fault.                *)
WaitTimeout(o) ==
  /\ step[o] = "wait"
  /\ Evictable(target[o]) # {}
  /\ Evictable(target[o]) \subseteq dying => kubeletConf[target[o]] # epoch
  /\ DrainFails(o)

DrainStep(o) ==
  \/ ListPods(o) \/ (\E p \in Pods : DeletePod(o, p)) \/ DeleteMissing(o)
  \/ PollPods(o) \/ WaitTimeout(o)

-----------------------------------------------------------------------------
(* The other calls, which see no pods.  The pods of a cluster go with it.  *)

OtherStep(o) ==
  /\ \/ StartInit(o) \/ InitStep(o) \/ (\E h \in Hosts : StartRemove(o, h))
     \/ FindNode(o) \/ CordonNode(o) \/ KubeadmReset(o) \/ DeleteNode(o)
     \/ (pc[o] = "drain" => ~Answers(o)) /\ Refuse(o)
     \/ Fault(o)
  /\ Proceed(o, "list", {})
  /\ IF apiUp /\ ~apiUp'
     THEN place' = [p \in Pods |-> Pending] /\ dying' = {}
     ELSE UNCHANGED pods
  /\ UNCHANGED ends

-----------------------------------------------------------------------------
(* The cluster. *)

Register(h) == KubeletRegister(h) /\ UNCHANGED drainVars

(* A controller makes the pod and the scheduler binds it.  kubeadm taints  *)
(* the control plane, and a cordoned node takes no pods, its own aside.    *)
Schedule(p, h) ==
  /\ apiUp /\ place[p] = Pending
  /\ h \in members
  /\ p \in Tolerant \cup Resident \/ h \notin cordoned \cup {ControlPlane}
  /\ place' = [place EXCEPT ![p] = h]
  /\ UNCHANGED <<vars, dying, step, toDelete, ends>>

Vanish(p) ==
  /\ place' = [place EXCEPT ![p] = IF p \in Stateful THEN Pending ELSE Gone]
  /\ dying' = dying \ {p}
  /\ UNCHANGED <<vars, step, toDelete>>

(* The kubelet has stopped the containers and confirms the deletion. *)
Confirm(p) ==
  /\ apiUp /\ p \in dying
  /\ kubeletConf[place[p]] = epoch
  /\ Vanish(p) /\ UNCHANGED ends

(* The pods of a node that is gone are collected. *)
Collect(p) ==
  /\ apiUp /\ place[p] \in Hosts \ members
  /\ Vanish(p) /\ UNCHANGED ends

(* A pod ends by itself: a job that is done, a rollout, an eviction. *)
End(p) ==
  /\ apiUp /\ place[p] \in Hosts /\ p \notin Resident
  /\ ends < MaxEnds /\ ends' = ends + 1
  /\ Vanish(p)

PodStep(p) == (\E h \in Hosts : Schedule(p, h)) \/ Confirm(p) \/ Collect(p)

DrainNext ==
  \/ \E o \in Operators : DrainStep(o) \/ OtherStep(o)
  \/ \E h \in Hosts : Register(h)
  \/ \E p \in Pods : PodStep(p) \/ End(p)

DrainSpec == DrainInit /\ [][DrainNext]_allVars

-----------------------------------------------------------------------------
(* Properties. *)

(* Whatever its pods do, node remove is the command Bootstrap describes:   *)
(* all that happens inside DrainNode is one call, which leads on to the    *)
(* reset or ends the command with an error, and hosts, Node objects and    *)
(* credentials stay out of it (node.go, step 4).                           *)
ClusterSpec == Spec

(* kubeadm reset takes no running pod with it, pods aside that may be      *)
(* bound to a cordoned node: the drain has seen the kubelet confirm every  *)
(* deletion, and the cordon keeps others away (DrainNode, "waits for them  *)
(* to terminate").                                                         *)
ResetSparesPods ==
  [][\A o \in Operators :
       KubeadmReset(o) => Evictable(target[o]) \subseteq Tolerant]_allVars

(* Pods are asked to end on a node that is cordoned, pods of StatefulSets  *)
(* aside, whose name may be somewhere else by then: the workload of the    *)
(* other nodes, and the pods of DaemonSets on any, are left alone          *)
(* (DrainNode deletes what its list named).                                *)
EvictsFromCordoned ==
  [][\A p \in dying' \ dying :
       p \notin Resident /\ (p \in Stateful \/ place[p] \in cordoned)]_allVars

=============================================================================
