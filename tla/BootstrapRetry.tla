--------------------------- MODULE BootstrapRetry ---------------------------
(***************************************************************************)
(* What running a command again achieves.  Neither `bifrost init` nor      *)
(* `bifrost node remove` retries a failed remote call: recovery is the     *)
(* operator typing the same command line again, and the checks at the      *)
(* start of each step are there to make that work.  Here the builders, at  *)
(* the same time, repeat `init --workers Workers` until it succeeds; the   *)
(* other operators, at the same time too, repeat `node remove Leaving`     *)
(* from then on for as long as the node is listed, and drain it of the     *)
(* pods that have been started meanwhile.                                  *)
(*                                                                         *)
(* Fairness: an operator does type the command again, and every remote     *)
(* call returns at last (with its effect, refused, or failed).  Faults are *)
(* finite.  A kubelet with valid credentials registers at last and stops   *)
(* the pods it is asked to; controllers and scheduler do their work.  No   *)
(* pod has to end by itself.                                               *)
(***************************************************************************)
EXTENDS NodeDrain

CONSTANTS
  Builders,   \* the operators that run init
  Leaving     \* the worker that is to be removed

ASSUME RetryAssumption == Builders \subseteq Operators /\ Leaving \in Workers

AllBuilt == \A o \in Builders : outcome[o] = "ok"

RerunInit(o) ==
  o \in Builders /\ outcome[o] # "ok" /\ StartInit(o) /\ todo'[o] = Workers

RerunRemove(o) ==
  o \notin Builders /\ AllBuilt /\ Leaving \in members /\ StartRemove(o, Leaving)

Repeat(o) ==
  \/ DrainStep(o)
  \/ /\ pc[o] = "idle" => RerunInit(o) \/ RerunRemove(o)
     /\ OtherStep(o)

(* Pods are started once the platform is there. *)
Workload(p) == AllBuilt /\ PodStep(p)

Kubelets == \E h \in Hosts : Register(h)

RetryNext ==
  \/ \E o \in Operators : Repeat(o)
  \/ Kubelets
  \/ \E p \in Pods : Workload(p) \/ End(p)

RetrySpec ==
  /\ DrainInit /\ [][RetryNext]_allVars
  /\ \A o \in Operators : WF_allVars(Repeat(o))
  /\ WF_allVars(Kubelets)
  /\ \A p \in Pods : WF_allVars(Workload(p))

-----------------------------------------------------------------------------
(* kubeadm init has failed when admin.conf was written and no API server   *)
(* was up: for every later init the control plane is initialised           *)
(* (provisioner.go:97), for every node remove it cannot be reached.        *)
HalfBuilt == adminConf # 0 /\ ~apiUp

(* Whichever calls fail on the way, half-finished joins and half-finished  *)
(* kubeadm init runs among them, repeating the same init succeeds at last  *)
(* and every host gets into the cluster (Init and JoinWorkers skip what is *)
(* done already).  The exception is the state above, and no other step     *)
(* leaves a host so that all later runs are refused.                       *)
InitConverges ==
  \/ /\ <>[](AllBuilt /\ Reachable)
     /\ \A h \in Hosts : <>(h \in members)
  \/ <>[]HalfBuilt

(* The host is reset, its Node object still there, and on it a pod that    *)
(* was bound in spite of the cordon: no kubelet will ever confirm the      *)
(* pod's deletion, so every later drain waits for it in vain.              *)
HeldByPod ==
  /\ Leaving \in members /\ kubeletConf[Leaving] = 0
  /\ Evictable(Leaving) \cap Tolerant # {}

(* Whichever calls fail on the way, however many operators are at it, and  *)
(* whatever runs on the node, repeating node remove ends with the Node     *)
(* object gone, the host reset, and the rest of the cluster as it was      *)
(* (order of the steps in node.go).  The exception is the one above, if    *)
(* there is a cluster at all.                                              *)
RemoveConverges ==
  \/ <>[](/\ members = Hosts \ {Leaving}
          /\ cordoned = {}
          /\ kubeletConf = [h \in Hosts |-> IF h = Leaving THEN 0 ELSE epoch]
          /\ \A o \in Operators : pc[o] = "idle")
  \/ <>[]HeldByPod
  \/ <>[]HalfBuilt

(* A drain never hangs: whatever pods stay on the node, and whether or not *)
(* its kubelet confirms anything, the command goes on or ends (the         *)
(* five-minute limit of DrainNode).                                        *)
DrainEnds == \A o \in Operators : pc[o] = "drain" ~> pc[o] # "drain"

=============================================================================
