----------------------------- MODULE Bootstrap -----------------------------
(***************************************************************************)
(* The two commands that change which machines form the cluster:           *)
(* `bifrost init` (provisioner.PingNodes, Init, JoinWorkers, then the      *)
(* platform installers) and `bifrost node remove`.                         *)
(*                                                                         *)
(* A command is a process on an operator's machine that makes one remote   *)
(* call after the other: it keeps no lock and no journal, so commands      *)
(* interleave call by call and a command may stop after any of them.  One  *)
(* action is one remote call (or one local file write) together with the   *)
(* local code up to the next call.                                         *)
(*                                                                         *)
(* A cluster is identified by its epoch: the number of `kubeadm init` runs *)
(* that have created one on the control plane.  A credentials file         *)
(* (admin.conf, kubelet.conf, the local kubeconfig, the join command) is   *)
(* represented by the epoch of the cluster it belongs to, 0 for "no file". *)
(***************************************************************************)
EXTENDS Naturals

CONSTANTS
  Operators,      \* terminals in which bifrost commands are run
  ControlPlane,   \* the host given by --control-plane
  Workers,        \* the hosts that --workers may name
  Exclusive,      \* TRUE: operators run one command at a time
  HalfInit,       \* TRUE: kubeadm init may fail after it wrote admin.conf
  HalfJoin,       \* TRUE: kubeadm join may fail after kubelet.conf exists
  MaxEpoch,       \* bound: clusters created in one behaviour
  MaxFaults       \* bound: calls that fail although nothing refuses them

ASSUME BootstrapAssumption ==
  /\ ControlPlane \notin Workers
  /\ Exclusive \in BOOLEAN /\ HalfInit \in BOOLEAN /\ HalfJoin \in BOOLEAN
  /\ MaxEpoch \in Nat /\ MaxFaults \in Nat

Hosts  == Workers \cup {ControlPlane}
Epochs == 0 .. MaxEpoch

InitLabels   == {"ping", "probeAdmin", "kubeadmInit", "readAdmin",
                 "writeKubeconfig", "createToken", "probeKubelet",
                 "kubeadmJoin", "platform"}
RemoveLabels == {"find", "cordon", "drain", "reset", "delete"}

VARIABLES
  epoch,        \* the cluster created last
  adminConf,    \* /etc/kubernetes/admin.conf on the control plane
  kubeletConf,  \* /etc/kubernetes/kubelet.conf, per host
  apiUp,        \* cluster `epoch` can be used: its API server answers
  members,      \* hosts that have a Node object in cluster `epoch`
  cordoned,     \* members whose Node object is unschedulable
  kubeconfig,   \* the operators' local kubeconfig file
  pc,           \* next call of each operator's command
  asked,        \* p.cfg.Worker: the workers that init is to join
  todo,         \* those that JoinWorkers has not handled yet
  target,       \* worker being joined, or host being removed
  fetched,      \* admin.conf as read by Init; of a removal, the kubeconfig that
                \* its client was made from
  joinCmd,      \* Provisioner.joinCmd
  outcome,      \* how the operator's last command ended
  faults        \* faults so far

cluster == <<epoch, adminConf, kubeletConf, apiUp, members, cordoned>>
local   == <<asked, todo, target, fetched, joinCmd>>
vars    == <<cluster, kubeconfig, pc, local, outcome, faults>>

TypeOK ==
  /\ epoch \in Epochs /\ adminConf \in Epochs /\ kubeconfig \in Epochs
  /\ kubeletConf \in [Hosts -> Epochs]
  /\ apiUp \in BOOLEAN
  /\ members \subseteq Hosts /\ cordoned \subseteq members
  /\ pc \in [Operators -> {"idle"} \cup InitLabels \cup RemoveLabels]
  /\ asked \in [Operators -> SUBSET Workers]
  /\ todo \in [Operators -> SUBSET Workers]
  /\ target \in [Operators -> Hosts]
  /\ fetched \in [Operators -> Epochs]
  /\ joinCmd \in [Operators -> Epochs]
  /\ outcome \in [Operators -> {"none", "ok", "err"}]
  /\ faults \in 0 .. MaxFaults

(* Machines on which kubeadm has never run. *)
Init ==
  /\ epoch = 0 /\ adminConf = 0 /\ kubeconfig = 0
  /\ kubeletConf = [h \in Hosts |-> 0]
  /\ apiUp = FALSE /\ members = {} /\ cordoned = {}
  /\ pc = [o \in Operators |-> "idle"]
  /\ asked = [o \in Operators |-> {}]
  /\ todo = [o \in Operators |-> {}]
  /\ target = [o \in Operators |-> ControlPlane]
  /\ fetched = [o \in Operators |-> 0]
  /\ joinCmd = [o \in Operators |-> 0]
  /\ outcome = [o \in Operators |-> "none"]
  /\ faults = 0

-----------------------------------------------------------------------------
(* Process bookkeeping. *)

MayStart(o) == /\ pc[o] = "idle"
               /\ Exclusive => \A p \in Operators : pc[p] = "idle"

Goto(o, label) == pc' = [pc EXCEPT ![o] = label]

(* The command returns to the shell and its memory is gone. *)
Exit(o, result) ==
  /\ Goto(o, "idle")
  /\ outcome' = [outcome EXCEPT ![o] = result]
  /\ asked' = [asked EXCEPT ![o] = {}]
  /\ todo' = [todo EXCEPT ![o] = {}]
  /\ target' = [target EXCEPT ![o] = ControlPlane]
  /\ fetched' = [fetched EXCEPT ![o] = 0]
  /\ joinCmd' = [joinCmd EXCEPT ![o] = 0]

SpendFault == faults < MaxFaults /\ faults' = faults + 1

(* The API server can be used through the local kubeconfig. *)
Reachable == apiUp /\ kubeconfig = epoch

(* Preflight checks of kubeadm init: it refuses a host with leftovers. *)
HostClean == adminConf = 0 /\ kubeletConf[ControlPlane] = 0

(* kubeadm join needs a host without leftovers and a token of the cluster. *)
CanJoin(o) ==
  /\ kubeletConf[target[o]] = 0
  /\ apiUp /\ joinCmd[o] = epoch

(* The client of a removal is made once, from the kubeconfig as it was     *)
(* when the command started.                                               *)
Answers(o) == apiUp /\ fetched[o] = epoch

NodeFound(o) == Answers(o) /\ target[o] \in members

(* A worker whose kubelet is at work.  New pods also need one that is not  *)
(* cordoned: kubeadm taints the control plane.                             *)
Working == {w \in Workers \cap members : kubeletConf[w] = epoch}

-----------------------------------------------------------------------------
(* bifrost init: PingNodes, Init, JoinWorkers, InstallCilium and OpenBao.   *)

StartInit(o) ==
  /\ MayStart(o)
  /\ \E W \in SUBSET Workers \ {{}} :
       /\ asked' = [asked EXCEPT ![o] = W]
       /\ todo' = [todo EXCEPT ![o] = W]
  /\ Goto(o, "ping")
  /\ UNCHANGED <<cluster, kubeconfig, target, fetched, joinCmd, outcome, faults>>

(* Every node answers `true`. *)
PingNodes(o) ==
  /\ pc[o] = "ping"
  /\ Goto(o, "probeAdmin")
  /\ UNCHANGED <<cluster, kubeconfig, local, outcome, faults>>

(* Variant: with a control plane there, its admin.conf is not read again. *)
ProbeAdminConfNoRead(o) ==
  /\ pc[o] = "probeAdmin"
  /\ \/ adminConf # 0 /\ Goto(o, "createToken")
     \/ adminConf = 0 /\ Goto(o, "kubeadmInit")
  /\ UNCHANGED <<cluster, kubeconfig, local, outcome, faults>>

(* kubeadm is there; `test -f admin.conf` decides isInitialized.  Any error *)
(* of that call, a dropped session too, is read as "not initialised".       *)
ProbeAdminConf(o) ==
  /\ pc[o] = "probeAdmin"
  /\ \/ adminConf # 0 /\ Goto(o, "readAdmin") /\ UNCHANGED faults
     \/ adminConf = 0 /\ Goto(o, "kubeadmInit") /\ UNCHANGED faults
     \/ adminConf # 0 /\ Goto(o, "kubeadmInit") /\ SpendFault
  /\ UNCHANGED <<cluster, kubeconfig, local, outcome>>

(* Variant: kubeadm init --ignore-preflight-errors=all. *)
KubeadmInitForced(o) ==
  /\ pc[o] = "kubeadmInit"
  /\ epoch < MaxEpoch
  /\ epoch' = epoch + 1
  /\ adminConf' = epoch + 1
  /\ kubeletConf' = [kubeletConf EXCEPT ![ControlPlane] = epoch + 1]
  /\ apiUp' = TRUE /\ members' = {ControlPlane} /\ cordoned' = {}
  /\ Goto(o, "readAdmin")
  /\ UNCHANGED <<kubeconfig, local, outcome, faults>>

(* kubeadm init creates the next cluster, with the control plane in it. *)
KubeadmInit(o) ==
  /\ pc[o] = "kubeadmInit"
  /\ HostClean /\ epoch < MaxEpoch
  /\ epoch' = epoch + 1
  /\ adminConf' = epoch + 1
  /\ kubeletConf' = [kubeletConf EXCEPT ![ControlPlane] = epoch + 1]
  /\ apiUp' = TRUE /\ members' = {ControlPlane} /\ cordoned' = {}
  /\ Goto(o, "readAdmin")
  /\ UNCHANGED <<kubeconfig, local, outcome, faults>>

(* kubeadm init writes its credential files before the API server is up,   *)
(* and leaves them behind when it fails.  It may fail before the cluster   *)
(* can be used, or in its last phases, when it can.                        *)
KubeadmInitHalf(o) ==
  /\ HalfInit /\ SpendFault
  /\ pc[o] = "kubeadmInit"
  /\ HostClean /\ epoch < MaxEpoch
  /\ epoch' = epoch + 1
  /\ adminConf' = epoch + 1
  /\ kubeletConf' = [kubeletConf EXCEPT ![ControlPlane] = epoch + 1]
  /\ \/ apiUp' = FALSE /\ members' = {}
     \/ apiUp' = TRUE /\ members' = {ControlPlane}
  /\ cordoned' = {}
  /\ Exit(o, "err")
  /\ UNCHANGED kubeconfig

ReadAdminConf(o) ==
  /\ pc[o] = "readAdmin"
  /\ adminConf # 0
  /\ fetched' = [fetched EXCEPT ![o] = adminConf]
  /\ Goto(o, "writeKubeconfig")
  /\ UNCHANGED <<cluster, kubeconfig, asked, todo, target, joinCmd, outcome, faults>>

(* os.WriteFile truncates the file before it writes: a failed write leaves *)
(* no usable kubeconfig.                                                   *)
WriteKubeconfig(o) ==
  /\ pc[o] = "writeKubeconfig"
  /\ \/ /\ kubeconfig' = fetched[o]
        /\ Goto(o, "createToken")
        /\ UNCHANGED <<local, outcome, faults>>
     \/ /\ SpendFault
        /\ kubeconfig' = 0
        /\ Exit(o, "err")
  /\ UNCHANGED cluster

CreateToken(o) ==
  /\ pc[o] = "createToken"
  /\ apiUp /\ adminConf = epoch
  /\ joinCmd' = [joinCmd EXCEPT ![o] = epoch]
  /\ Goto(o, "probeKubelet")
  /\ UNCHANGED <<cluster, kubeconfig, asked, todo, target, fetched, outcome, faults>>

(* The loop of JoinWorkers: worker w is done. *)
WorkerDone(o, w) ==
  /\ todo' = [todo EXCEPT ![o] = @ \ {w}]
  /\ Goto(o, IF todo[o] = {w} THEN "platform" ELSE "probeKubelet")

(* Variant: no check for kubelet.conf, every worker is joined. *)
ProbeKubeletConfNever(o) ==
  /\ pc[o] = "probeKubelet"
  /\ \E w \in todo[o] : target' = [target EXCEPT ![o] = w]
  /\ Goto(o, "kubeadmJoin")
  /\ UNCHANGED <<cluster, kubeconfig, asked, todo, fetched, joinCmd, outcome, faults>>

(* `test -f kubelet.conf`: the worker is skipped if the file exists, and   *)
(* joined if it does not or if the call fails.                             *)
ProbeKubeletConf(o) ==
  /\ pc[o] = "probeKubelet"
  /\ \E w \in todo[o] :
       \/ kubeletConf[w] # 0 /\ WorkerDone(o, w) /\ UNCHANGED <<target, faults>>
       \/ /\ \/ kubeletConf[w] = 0 /\ UNCHANGED faults
             \/ kubeletConf[w] # 0 /\ SpendFault
          /\ target' = [target EXCEPT ![o] = w]
          /\ Goto(o, "kubeadmJoin")
          /\ UNCHANGED todo
  /\ UNCHANGED <<cluster, kubeconfig, asked, fetched, joinCmd, outcome>>

(* Variant: a worker that cannot be joined is passed over. *)
KubeadmJoinOrNot(o) ==
  /\ pc[o] = "kubeadmJoin"
  /\ \/ /\ CanJoin(o)
        /\ kubeletConf' = [kubeletConf EXCEPT ![target[o]] = epoch]
        /\ members' = members \cup {target[o]}
        /\ UNCHANGED faults
     \/ SpendFault /\ UNCHANGED <<kubeletConf, members>>
  /\ WorkerDone(o, target[o])
  /\ UNCHANGED <<epoch, adminConf, apiUp, cordoned, kubeconfig,
                 asked, target, fetched, joinCmd, outcome>>

KubeadmJoin(o) ==
  /\ pc[o] = "kubeadmJoin"
  /\ CanJoin(o)
  /\ kubeletConf' = [kubeletConf EXCEPT ![target[o]] = epoch]
  /\ members' = members \cup {target[o]}
  /\ WorkerDone(o, target[o])
  /\ UNCHANGED <<epoch, adminConf, apiUp, cordoned, kubeconfig,
                 asked, target, fetched, joinCmd, outcome, faults>>

(* The kubelet has its credentials, then kubeadm join fails before the     *)
(* Node object is there.                                                   *)
KubeadmJoinHalf(o) ==
  /\ HalfJoin /\ SpendFault
  /\ pc[o] = "kubeadmJoin"
  /\ CanJoin(o)
  /\ kubeletConf' = [kubeletConf EXCEPT ![target[o]] = epoch]
  /\ Exit(o, "err")
  /\ UNCHANGED <<epoch, adminConf, apiUp, members, cordoned, kubeconfig>>

(* InstallCilium and bao.DeployAndConfigure work through the local         *)
(* kubeconfig.  They wait for pods, hubble-relay's among them, which need  *)
(* a worker to run on; those of an earlier run may still be there when all *)
(* workers are cordoned.  What they do inside the cluster is not this      *)
(* module's state.                                                         *)
InstallPlatform(o) ==
  /\ pc[o] = "platform"
  /\ Reachable /\ Working # {}
  /\ Exit(o, "ok")
  /\ UNCHANGED <<cluster, kubeconfig, faults>>

InitStep(o) ==
  \/ PingNodes(o) \/ ProbeAdminConf(o) \/ KubeadmInit(o) \/ KubeadmInitHalf(o)
  \/ ReadAdminConf(o) \/ WriteKubeconfig(o) \/ CreateToken(o)
  \/ ProbeKubeletConf(o) \/ KubeadmJoin(o) \/ KubeadmJoinHalf(o)
  \/ InstallPlatform(o)

-----------------------------------------------------------------------------
(* bifrost node remove: find, cordon, drain, reset over SSH, delete.        *)

StartRemove(o, h) ==
  /\ MayStart(o)
  /\ h = ControlPlane => epoch < MaxEpoch
  /\ target' = [target EXCEPT ![o] = h]
  /\ fetched' = [fetched EXCEPT ![o] = kubeconfig]
  /\ Goto(o, "find")
  /\ UNCHANGED <<cluster, kubeconfig, asked, todo, joinCmd, outcome, faults>>

FindNode(o) ==
  /\ pc[o] = "find"
  /\ NodeFound(o)
  /\ Goto(o, "cordon")
  /\ UNCHANGED <<cluster, kubeconfig, local, outcome, faults>>

(* Variant: a node that is cordoned already is an error. *)
CordonNodeOnce(o) ==
  /\ pc[o] = "cordon"
  /\ NodeFound(o)
  /\ \/ /\ target[o] \notin cordoned
        /\ cordoned' = cordoned \cup {target[o]}
        /\ Goto(o, "drain")
        /\ UNCHANGED <<local, outcome>>
     \/ target[o] \in cordoned /\ Exit(o, "err") /\ UNCHANGED cordoned
  /\ UNCHANGED <<epoch, adminConf, kubeletConf, apiUp, members, kubeconfig, faults>>

CordonNode(o) ==
  /\ pc[o] = "cordon"
  /\ NodeFound(o)
  /\ cordoned' = cordoned \cup {target[o]}
  /\ Goto(o, "drain")
  /\ UNCHANGED <<epoch, adminConf, kubeletConf, apiUp, members, kubeconfig,
                 local, outcome, faults>>

(* Variant: the Node object is deleted and the host never reset. *)
DrainNodeNoReset(o) ==
  /\ pc[o] = "drain"
  /\ Answers(o)
  /\ Goto(o, "delete")
  /\ UNCHANGED <<cluster, kubeconfig, local, outcome, faults>>

DrainNode(o) ==
  /\ pc[o] = "drain"
  /\ Answers(o)
  /\ Goto(o, "reset")
  /\ UNCHANGED <<cluster, kubeconfig, local, outcome, faults>>

(* `kubeadm reset --force` removes the host's credentials; on the control  *)
(* plane it takes the API server and its data with it.                     *)
KubeadmReset(o) ==
  /\ pc[o] = "reset"
  /\ kubeletConf' = [kubeletConf EXCEPT ![target[o]] = 0]
  /\ \/ target[o] # ControlPlane /\ UNCHANGED <<adminConf, apiUp, members, cordoned>>
     \/ /\ target[o] = ControlPlane /\ epoch < MaxEpoch
        /\ adminConf' = 0 /\ apiUp' = FALSE /\ members' = {} /\ cordoned' = {}
  /\ Goto(o, "delete")
  /\ UNCHANGED <<epoch, kubeconfig, local, outcome, faults>>

DeleteNode(o) ==
  /\ pc[o] = "delete"
  /\ NodeFound(o)
  /\ members' = members \ {target[o]}
  /\ cordoned' = cordoned \ {target[o]}
  /\ Exit(o, "ok")
  /\ UNCHANGED <<epoch, adminConf, kubeletConf, apiUp, kubeconfig, faults>>

RemoveStep(o) ==
  \/ FindNode(o) \/ CordonNode(o) \/ DrainNode(o) \/ KubeadmReset(o)
  \/ DeleteNode(o)

-----------------------------------------------------------------------------
(* How a command ends early, and what happens outside the commands. *)

(* What the waits of the platform may find until they give up: pods that   *)
(* no worker takes, or pods of a DaemonSet on a host without a kubelet.    *)
NotReady ==
  Working \subseteq cordoned \/ \E h \in members : kubeletConf[h] # epoch

(* The next call is refused because of the state it finds.  What a drain   *)
(* finds is the node's pods, which are NodeDrain's: here it may end so in  *)
(* any state.                                                              *)
Refuse(o) ==
  /\ \/ pc[o] = "kubeadmInit" /\ ~HostClean
     \/ pc[o] = "readAdmin" /\ adminConf = 0
     \/ pc[o] = "createToken" /\ ~(apiUp /\ adminConf = epoch)
     \/ pc[o] = "kubeadmJoin" /\ ~CanJoin(o)
     \/ pc[o] = "platform" /\ (~Reachable \/ NotReady)
     \/ pc[o] = "drain"
     \/ pc[o] \in {"find", "cordon", "delete"} /\ ~NodeFound(o)
  /\ Exit(o, "err")
  /\ UNCHANGED <<cluster, kubeconfig, faults>>

(* The next call fails without effect, or the process is killed before it: *)
(* an unreachable host, a missing binary, a timeout, a lost answer to the  *)
(* call before, Ctrl-C.  Nothing is undone.                                *)
Fault(o) ==
  /\ pc[o] # "idle"
  /\ SpendFault
  /\ Exit(o, "err")
  /\ UNCHANGED <<cluster, kubeconfig>>

(* A kubelet that starts with valid credentials registers its Node object. *)
KubeletRegister(h) ==
  /\ apiUp /\ kubeletConf[h] = epoch
  /\ h \notin members
  /\ members' = members \cup {h}
  /\ UNCHANGED <<epoch, adminConf, kubeletConf, apiUp, cordoned, kubeconfig,
                 pc, local, outcome, faults>>

Command(o) ==
  \/ StartInit(o) \/ InitStep(o)
  \/ (\E h \in Hosts : StartRemove(o, h)) \/ RemoveStep(o)
  \/ Refuse(o) \/ Fault(o)

Next == \/ \E o \in Operators : Command(o)
        \/ \E h \in Hosts : KubeletRegister(h)

Spec == Init /\ [][Next]_vars

-----------------------------------------------------------------------------
(* Properties. *)

(* A host that holds credentials of the running cluster has a Node object  *)
(* in it.  `node remove` finds its host through that object and init skips *)
(* a host that has credentials, so a host outside this invariant is out of *)
(* reach of both commands (node.go, order of steps 5 and 6).               *)
NoOrphan == apiUp => \A h \in Hosts : kubeletConf[h] = epoch => h \in members

(* From the moment Init has stored the kubeconfig, the local file and the  *)
(* control plane speak of the same cluster: what InstallCilium and OpenBao *)
(* are installed into is the cluster the workers are joined to, also when  *)
(* kubeadm init was skipped (provisioner.Init reads admin.conf every time).*)
KubeconfigCurrent ==
  \A o \in Operators :
    pc[o] \in {"createToken", "probeKubelet", "kubeadmJoin", "platform"}
      => kubeconfig = adminConf /\ joinCmd[o] \in {0, adminConf}

(* Pods are drained from, and kubeadm reset is run on, a cordoned node     *)
(* only, so nothing is scheduled there in between (node.go, steps 3 to 5). *)
DrainsCordoned ==
  \A o \in Operators : pc[o] \in {"drain", "reset"} => target[o] \in cordoned

(* How far in or out a host is, read from the three things that say so:    *)
(* its credentials, its Node object and the cordon.  An "orphan" or "dead" *)
(* host is one that the promise below does not know.                       *)
Life(h) ==
  CASE ~apiUp -> IF h # ControlPlane /\ kubeletConf[h] # 0 THEN "stale" ELSE "out"
    [] apiUp /\ h \notin members ->
         IF kubeletConf[h] = 0 THEN "out"
         ELSE IF kubeletConf[h] = epoch THEN "orphan" ELSE "stale"
    [] apiUp /\ h \in members /\ kubeletConf[h] = epoch ->
         IF h \in cordoned THEN "cordoned" ELSE "in"
    [] apiUp /\ h \in members /\ kubeletConf[h] # epoch ->
         IF h \in cordoned /\ kubeletConf[h] = 0 THEN "reset" ELSE "dead"

Lives == [h \in Hosts |-> Life(h)]

(* What a command is to do: the arguments it was given.                    *)
Job(o) ==
  CASE pc[o] = "idle"          -> [does |-> "nothing", hosts |-> {}]
    [] pc[o] \in InitLabels   -> [does |-> "init", hosts |-> asked[o]]
    [] pc[o] \in RemoveLabels -> [does |-> "remove", hosts |-> {target[o]}]

Jobs == [o \in Operators |-> Job(o)]

Membership ==
  INSTANCE ClusterMembership WITH life <- Lives, job <- Jobs, answer <- outcome

(* Through any number of runs that fail at any call, a host gets in only   *)
(* by an init that names it, through a running control plane, and out only *)
(* by a removal of its own: cordon, reset, deletion, in this order; one    *)
(* that rejoins half-way is still cordoned.  node remove answers ok when   *)
(* its host is out, init when each worker it was given is in or holds the  *)
(* credentials of a former cluster (provisioner.Init and JoinWorkers,      *)
(* steps 3 to 6 of node.go).                                               *)
MembershipSpec == Membership!Spec

(* No call of `bifrost init`, whatever runs beside it, takes anything from *)
(* an existing cluster: running it again is safe (the checks for           *)
(* admin.conf and kubelet.conf in provisioner.Init and JoinWorkers).       *)
InitTakesNothing ==
  [][(\E o \in Operators : InitStep(o)) =>
       /\ members \subseteq members'
       /\ apiUp => apiUp'
       /\ adminConf # 0 => adminConf' = adminConf
       /\ \A h \in Hosts : kubeletConf[h] # 0 => kubeletConf'[h] = kubeletConf[h]
    ]_vars

(* provisioner.go:146, "JoinWorkers joins all worker nodes to the          *)
(* cluster": an init that succeeds has every worker it was given in it.    *)
InitJoinsAll ==
  [][\A o \in Operators :
       pc[o] = "platform" /\ outcome'[o] = "ok" /\ pc'[o] = "idle"
         => asked[o] \subseteq members']_vars

=============================================================================
