-------------------------- MODULE BootstrapProofs --------------------------
(***************************************************************************)
(* Theorems about Bootstrap, for every set of operators and workers and    *)
(* every bound.                                                            *)
(***************************************************************************)
EXTENDS Bootstrap, TLAPS

-----------------------------------------------------------------------------
(* Type correctness. *)

(* Every action keeps the types. *)
LEMMA TypeStep == TypeOK /\ [Next]_vars => TypeOK'
<1> USE BootstrapAssumption
<1> SUFFICES ASSUME TypeOK, [Next]_vars PROVE TypeOK'
  OBVIOUS
<1> USE DEF TypeOK, Hosts, Epochs, InitLabels, RemoveLabels, Goto, Exit,
            SpendFault, cluster, local
<1>1. ASSUME NEW o \in Operators, StartInit(o) PROVE TypeOK'
  <2>1. PICK W \in SUBSET Workers : /\ asked' = [asked EXCEPT ![o] = W]
                                    /\ todo' = [todo EXCEPT ![o] = W]
    BY <1>1 DEF StartInit
  <2>2. QED
    BY <1>1, <2>1 DEF StartInit
<1>2. ASSUME NEW o \in Operators, PingNodes(o) PROVE TypeOK'
  BY <1>2 DEF PingNodes
<1>3. ASSUME NEW o \in Operators, ProbeAdminConf(o) PROVE TypeOK'
  BY <1>3 DEF ProbeAdminConf
<1>4. ASSUME NEW o \in Operators, KubeadmInit(o) PROVE TypeOK'
  BY <1>4 DEF KubeadmInit
<1>5. ASSUME NEW o \in Operators, KubeadmInitHalf(o) PROVE TypeOK'
  <2>1. epoch + 1 \in Epochs /\ ControlPlane \in Hosts
    BY <1>5 DEF KubeadmInitHalf
  <2>2. faults' \in 0 .. MaxFaults
    BY <1>5 DEF KubeadmInitHalf
  <2>3. kubeletConf' \in [Hosts -> Epochs]
    BY <1>5, <2>1 DEF KubeadmInitHalf
  <2>4. members' \subseteq Hosts /\ cordoned' \subseteq members' /\ apiUp' \in BOOLEAN
    BY <1>5, <2>1 DEF KubeadmInitHalf
  <2>5. epoch' \in Epochs /\ adminConf' \in Epochs /\ kubeconfig' \in Epochs
    BY <1>5, <2>1 DEF KubeadmInitHalf
  <2>6. /\ pc' \in [Operators -> {"idle"} \cup InitLabels \cup RemoveLabels]
        /\ asked' \in [Operators -> SUBSET Workers]
        /\ todo' \in [Operators -> SUBSET Workers]
        /\ target' \in [Operators -> Hosts]
        /\ fetched' \in [Operators -> Epochs]
        /\ joinCmd' \in [Operators -> Epochs]
        /\ outcome' \in [Operators -> {"none", "ok", "err"}]
    BY <1>5 DEF KubeadmInitHalf
  <2>7. QED
    BY <2>2, <2>3, <2>4, <2>5, <2>6
<1>6. ASSUME NEW o \in Operators, ReadAdminConf(o) PROVE TypeOK'
  BY <1>6 DEF ReadAdminConf
<1>7. ASSUME NEW o \in Operators, WriteKubeconfig(o) PROVE TypeOK'
  BY <1>7 DEF WriteKubeconfig
<1>8. ASSUME NEW o \in Operators, CreateToken(o) PROVE TypeOK'
  BY <1>8 DEF CreateToken
<1>9. ASSUME NEW o \in Operators, ProbeKubeletConf(o) PROVE TypeOK'
  <2>1. PICK w \in todo[o] :
          \/ WorkerDone(o, w) /\ UNCHANGED <<target, faults>>
          \/ /\ UNCHANGED faults \/ SpendFault
             /\ target' = [target EXCEPT ![o] = w]
             /\ Goto(o, "kubeadmJoin") /\ UNCHANGED todo
    BY <1>9 DEF ProbeKubeletConf
  <2>2. w \in Workers
    OBVIOUS
  <2>3. QED
    BY <1>9, <2>1, <2>2 DEF ProbeKubeletConf, WorkerDone
<1>10. ASSUME NEW o \in Operators, KubeadmJoin(o) PROVE TypeOK'
  BY <1>10 DEF KubeadmJoin, WorkerDone
<1>11. ASSUME NEW o \in Operators, KubeadmJoinHalf(o) PROVE TypeOK'
  BY <1>11 DEF KubeadmJoinHalf
<1>12. ASSUME NEW o \in Operators, InstallPlatform(o) PROVE TypeOK'
  BY <1>12 DEF InstallPlatform
<1>13. ASSUME NEW o \in Operators, NEW h \in Hosts, StartRemove(o, h)
       PROVE  TypeOK'
  BY <1>13 DEF StartRemove
<1>14. ASSUME NEW o \in Operators, FindNode(o) PROVE TypeOK'
  BY <1>14 DEF FindNode
<1>15. ASSUME NEW o \in Operators, CordonNode(o) PROVE TypeOK'
  BY <1>15 DEF CordonNode, NodeFound
<1>16. ASSUME NEW o \in Operators, DrainNode(o) PROVE TypeOK'
  BY <1>16 DEF DrainNode
<1>17. ASSUME NEW o \in Operators, KubeadmReset(o) PROVE TypeOK'
  <2>1. 0 \in Epochs
    OBVIOUS
  <2>2. kubeletConf' \in [Hosts -> Epochs]
    BY <1>17, <2>1 DEF KubeadmReset
  <2>3. CASE target[o] # ControlPlane
    BY <1>17, <2>2, <2>3 DEF KubeadmReset
  <2>4. CASE target[o] = ControlPlane
    BY <1>17, <2>1, <2>2, <2>4 DEF KubeadmReset
  <2>5. QED
    BY <2>3, <2>4
<1>18. ASSUME NEW o \in Operators, DeleteNode(o) PROVE TypeOK'
  BY <1>18 DEF DeleteNode
<1>19. ASSUME NEW o \in Operators, Refuse(o) PROVE TypeOK'
  BY <1>19 DEF Refuse
<1>20. ASSUME NEW o \in Operators, Fault(o) PROVE TypeOK'
  BY <1>20 DEF Fault
<1>21. ASSUME NEW h \in Hosts, KubeletRegister(h) PROVE TypeOK'
  BY <1>21 DEF KubeletRegister
<1>22. CASE UNCHANGED vars
  BY <1>22 DEF vars
<1> HIDE DEF TypeOK
<1>23. QED
  BY <1>1, <1>2, <1>3, <1>4, <1>5, <1>6, <1>7, <1>8, <1>9, <1>10, <1>11,
     <1>12, <1>13, <1>14, <1>15, <1>16, <1>17, <1>18, <1>19, <1>20, <1>21,
     <1>22 DEF Next, Command, InitStep, RemoveStep

LEMMA InitTyped == Init => TypeOK
<1> SUFFICES ASSUME Init PROVE TypeOK
  OBVIOUS
<1>1. 0 \in Epochs /\ 0 \in 0 .. MaxFaults /\ ControlPlane \in Hosts
  BY BootstrapAssumption DEF Epochs, Hosts
<1>2. QED
  BY <1>1 DEF Init, TypeOK

(* The variables keep their types: what the commands of provisioner.go and *)
(* node.go do to them is well defined in every state they can reach.       *)
THEOREM TypeCorrect == Spec => []TypeOK
BY InitTyped, TypeStep, PTL DEF Spec

-----------------------------------------------------------------------------
(* init takes nothing, whatever runs beside it. *)

(* Without admin.conf on the control plane there is no cluster: nothing    *)
(* that kubeadm init starts from can be taken away.                        *)
NoAdminNoCluster == adminConf = 0 => members = {} /\ ~apiUp

LEMMA NoAdminNoClusterInvariant == Spec => []NoAdminNoCluster
<1> USE BootstrapAssumption
<1>1. Init => NoAdminNoCluster
  BY DEF Init, NoAdminNoCluster
<1>2. TypeOK /\ NoAdminNoCluster /\ [Next]_vars => NoAdminNoCluster'
  <2> SUFFICES ASSUME TypeOK, NoAdminNoCluster, [Next]_vars
               PROVE  NoAdminNoCluster'
    OBVIOUS
  <2> USE DEF NoAdminNoCluster
  <2>1. CASE UNCHANGED <<adminConf, members, apiUp>>
    BY <2>1
  <2>2. ASSUME NEW o \in Operators, KubeadmInit(o) \/ KubeadmInitHalf(o)
        PROVE  NoAdminNoCluster'
    BY <2>2 DEF KubeadmInit, KubeadmInitHalf, TypeOK, Epochs
  <2>3. ASSUME NEW o \in Operators, KubeadmJoin(o) PROVE NoAdminNoCluster'
    BY <2>3 DEF KubeadmJoin, CanJoin
  <2>4. ASSUME NEW o \in Operators, KubeadmReset(o) PROVE NoAdminNoCluster'
    BY <2>4 DEF KubeadmReset
  <2>5. ASSUME NEW o \in Operators, DeleteNode(o) PROVE NoAdminNoCluster'
    BY <2>5 DEF DeleteNode
  <2>6. ASSUME NEW h \in Hosts, KubeletRegister(h) PROVE NoAdminNoCluster'
    BY <2>6 DEF KubeletRegister
  <2>7. ASSUME NEW o \in Operators, Command(o)
        PROVE  \/ UNCHANGED <<adminConf, members, apiUp>>
               \/ KubeadmInit(o) \/ KubeadmInitHalf(o) \/ KubeadmJoin(o)
               \/ KubeadmReset(o) \/ DeleteNode(o)
    BY <2>7 DEF Command, InitStep, RemoveStep, cluster, StartInit, PingNodes,
         ProbeAdminConf, ReadAdminConf, WriteKubeconfig, CreateToken,
         ProbeKubeletConf, KubeadmJoinHalf, InstallPlatform, StartRemove,
         FindNode, CordonNode, DrainNode, Refuse, Fault
  <2>8. CASE UNCHANGED vars
    BY <2>1, <2>8 DEF vars, cluster
  <2> HIDE DEF NoAdminNoCluster
  <2>9. QED
    BY <2>1, <2>2, <2>3, <2>4, <2>5, <2>6, <2>7, <2>8 DEF Next
<1>3. QED
  BY <1>1, <1>2, TypeCorrect, PTL DEF Spec

(* A step of init leaves every host, member and credential that the        *)
(* cluster has: the preflight checks of kubeadm and NoAdminNoCluster are   *)
(* what the proof needs, not the two file checks of the code.              *)
THEOREM InitIsHarmless == Spec => InitTakesNothing
<1> USE BootstrapAssumption
<1> DEFINE Kept == /\ members \subseteq members'
                   /\ apiUp => apiUp'
                   /\ adminConf # 0 => adminConf' = adminConf
                   /\ \A h \in Hosts : kubeletConf[h] # 0
                                       => kubeletConf'[h] = kubeletConf[h]
<1>1. ASSUME TypeOK, NoAdminNoCluster, NEW o \in Operators, InitStep(o)
      PROVE  Kept
  <2> USE <1>1
  <2>1. CASE KubeadmInit(o)
    BY <2>1 DEF KubeadmInit, HostClean, NoAdminNoCluster, TypeOK
  <2>2. CASE KubeadmInitHalf(o)
    BY <2>2 DEF KubeadmInitHalf, HostClean, NoAdminNoCluster, TypeOK
  <2>3. CASE KubeadmJoin(o)
    BY <2>3 DEF KubeadmJoin, CanJoin, TypeOK
  <2>4. CASE KubeadmJoinHalf(o)
    BY <2>4 DEF KubeadmJoinHalf, CanJoin, TypeOK
  <2>5. CASE UNCHANGED cluster
    BY <2>5 DEF cluster
  <2>6. QED
    BY <2>1, <2>2, <2>3, <2>4, <2>5 DEF InitStep, PingNodes, ProbeAdminConf,
       ReadAdminConf, WriteKubeconfig, CreateToken, ProbeKubeletConf,
       InstallPlatform
<1>2. TypeOK /\ NoAdminNoCluster
        => [(\E o \in Operators : InitStep(o)) => Kept]_vars
  BY <1>1
<1>3. QED
  BY <1>2, TypeCorrect, NoAdminNoClusterInvariant, PTL DEF InitTakesNothing

-----------------------------------------------------------------------------
(* What taking turns guarantees. *)

(* No two commands run at the same time. *)
OneAtATime ==
  \A o, p \in Operators : pc[o] # "idle" /\ pc[p] # "idle" => o = p

(* The control plane is that of the newest cluster, or there is none; no   *)
(* host has credentials from the future.                                   *)
NewestCluster ==
  /\ adminConf \in {0, epoch}
  /\ apiUp => adminConf = epoch /\ epoch # 0
  /\ \A h \in Hosts : kubeletConf[h] <= epoch

(* What a run of init remembers is about the control plane as it is. *)
MemoryCurrent ==
  \A o \in Operators :
    /\ pc[o] = "writeKubeconfig" => fetched[o] = adminConf
    /\ joinCmd[o] # 0 => /\ pc[o] \in {"probeKubelet", "kubeadmJoin", "platform"}
                         /\ joinCmd[o] = adminConf

(* By the time its Node object is deleted the host has been reset. *)
ResetFirst ==
  \A o \in Operators : pc[o] = "delete" => kubeletConf[target[o]] = 0

(* The inductive invariant, beside TypeOK. *)
Turns ==
  /\ OneAtATime /\ NewestCluster /\ MemoryCurrent /\ ResetFirst
  /\ NoOrphan /\ KubeconfigCurrent /\ DrainsCordoned

LEMMA TurnsStep ==
  ASSUME Exclusive = TRUE, HalfJoin = FALSE, TypeOK, TypeOK', Turns, [Next]_vars
  PROVE  Turns'
<1> USE BootstrapAssumption
<1> USE DEF Turns, OneAtATime, NewestCluster, MemoryCurrent, ResetFirst,
            NoOrphan, KubeconfigCurrent, DrainsCordoned, TypeOK, Epochs, Hosts,
            InitLabels, RemoveLabels, Goto, Exit, cluster, local
<1>1. ASSUME NEW o \in Operators, StartInit(o) PROVE Turns'
  BY <1>1 DEF StartInit, MayStart
<1>2. ASSUME NEW o \in Operators, PingNodes(o) PROVE Turns'
  BY <1>2 DEF PingNodes
<1>3. ASSUME NEW o \in Operators, ProbeAdminConf(o) PROVE Turns'
  BY <1>3 DEF ProbeAdminConf, SpendFault
<1>4. ASSUME NEW o \in Operators, KubeadmInit(o) PROVE Turns'
  BY <1>4 DEF KubeadmInit
<1>5. ASSUME NEW o \in Operators, KubeadmInitHalf(o) PROVE Turns'
  BY <1>5 DEF KubeadmInitHalf
<1>6. ASSUME NEW o \in Operators, ReadAdminConf(o) PROVE Turns'
  BY <1>6 DEF ReadAdminConf
<1>7. ASSUME NEW o \in Operators, WriteKubeconfig(o) PROVE Turns'
  BY <1>7 DEF WriteKubeconfig
<1>8. ASSUME NEW o \in Operators, CreateToken(o) PROVE Turns'
  BY <1>8 DEF CreateToken
<1>9. ASSUME NEW o \in Operators, ProbeKubeletConf(o) PROVE Turns'
  BY <1>9 DEF ProbeKubeletConf, WorkerDone
<1>10. ASSUME NEW o \in Operators, KubeadmJoin(o) PROVE Turns'
  BY <1>10 DEF KubeadmJoin, WorkerDone, CanJoin
<1>11. ASSUME NEW o \in Operators, InstallPlatform(o) PROVE Turns'
  BY <1>11 DEF InstallPlatform
<1>12. ASSUME NEW o \in Operators, FindNode(o) PROVE Turns'
  BY <1>12 DEF FindNode
<1>13. ASSUME NEW o \in Operators, CordonNode(o) PROVE Turns'
  BY <1>13 DEF CordonNode, NodeFound, Answers
<1>14. ASSUME NEW o \in Operators, DrainNode(o) PROVE Turns'
  BY <1>14 DEF DrainNode
<1>15. ASSUME NEW o \in Operators, KubeadmReset(o) PROVE Turns'
  BY <1>15 DEF KubeadmReset
<1>16. ASSUME NEW o \in Operators, DeleteNode(o) PROVE Turns'
  BY <1>16 DEF DeleteNode, NodeFound, Answers
<1>17. ASSUME NEW o \in Operators, Refuse(o) PROVE Turns'
  BY <1>17 DEF Refuse
<1>18. ASSUME NEW o \in Operators, Fault(o) PROVE Turns'
  BY <1>18 DEF Fault, SpendFault
<1>19. ASSUME NEW o \in Operators, NEW h \in Hosts, StartRemove(o, h) PROVE Turns'
  BY <1>19 DEF StartRemove, MayStart
<1>20. ASSUME NEW h \in Hosts, KubeletRegister(h) PROVE Turns'
  BY <1>20 DEF KubeletRegister
<1>21. CASE UNCHANGED vars
  BY <1>21 DEF vars
<1> HIDE DEF Turns
<1>22. QED
  BY <1>1, <1>2, <1>3, <1>4, <1>5, <1>6, <1>7, <1>8, <1>9, <1>10, <1>11,
     <1>12, <1>13, <1>14, <1>15, <1>16, <1>17, <1>18, <1>19, <1>20, <1>21
     DEF Next, Command, InitStep, RemoveStep, KubeadmJoinHalf

LEMMA TurnsInvariant ==
  ASSUME Exclusive = TRUE, HalfJoin = FALSE
  PROVE  Spec => []Turns
<1>1. Init => Turns
  <2> SUFFICES ASSUME Init PROVE Turns
    OBVIOUS
  <2> USE DEF Init
  <2>1. OneAtATime /\ ResetFirst /\ DrainsCordoned /\ KubeconfigCurrent
    BY DEF OneAtATime, ResetFirst, DrainsCordoned, KubeconfigCurrent
  <2>2. NewestCluster /\ MemoryCurrent /\ NoOrphan
    BY DEF NewestCluster, MemoryCurrent, NoOrphan
  <2>3. QED
    BY <2>1, <2>2 DEF Turns
<1>2. TypeOK /\ TypeOK' /\ Turns /\ [Next]_vars => Turns'
  BY TurnsStep
<1>3. QED
  BY <1>1, <1>2, TypeCorrect, PTL DEF Spec

(* When operators take turns and kubeadm join does not stop half-way, no   *)
(* host with credentials of the running cluster lacks its Node object,     *)
(* whatever calls fail (the file checks of provisioner.go, node.go).       *)
THEOREM NoHostIsOrphaned ==
  ASSUME Exclusive = TRUE, HalfJoin = FALSE
  PROVE  Spec => []NoOrphan
<1>1. Turns => NoOrphan
  BY DEF Turns
<1>2. QED
  BY <1>1, TurnsInvariant, PTL

(* Then init also works on the cluster of the local kubeconfig: it was     *)
(* fetched from the control plane that runs (provisioner.go).              *)
THEOREM KubeconfigIsCurrent ==
  ASSUME Exclusive = TRUE, HalfJoin = FALSE
  PROVE  Spec => []KubeconfigCurrent
<1>1. Turns => KubeconfigCurrent
  BY DEF Turns
<1>2. QED
  BY <1>1, TurnsInvariant, PTL

(* And node remove only drains and resets what it has cordoned, steps 3 to *)
(* 5 of node.go.                                                           *)
THEOREM DrainsAreCordoned ==
  ASSUME Exclusive = TRUE, HalfJoin = FALSE
  PROVE  Spec => []DrainsCordoned
<1>1. Turns => DrainsCordoned
  BY DEF Turns
<1>2. QED
  BY <1>1, TurnsInvariant, PTL

-----------------------------------------------------------------------------
(* The cluster as ClusterMembership has it. *)

(* While there is a cluster its control plane is in it, and a member has   *)
(* its credentials, or none and a removal has cordoned it.                 *)
InOrder ==
  IF apiUp
  THEN /\ ControlPlane \in members /\ kubeletConf[ControlPlane] = epoch
       /\ \A h \in members : \/ kubeletConf[h] = epoch
                             \/ kubeletConf[h] = 0 /\ h \in cordoned
  ELSE members = {}

LEMMA InOrderStep ==
  ASSUME TypeOK, Turns, InOrder, [Next]_vars
  PROVE  InOrder'
<1> USE BootstrapAssumption
<1>1. CASE UNCHANGED cluster
  BY <1>1 DEF InOrder, cluster
<1>2. ASSUME NEW o \in Operators, KubeadmInit(o) PROVE InOrder'
  BY <1>2 DEF KubeadmInit, InOrder, TypeOK, Hosts
<1>3. ASSUME NEW o \in Operators, KubeadmInitHalf(o) PROVE InOrder'
  BY <1>3 DEF KubeadmInitHalf, InOrder, TypeOK, Hosts
<1>4. ASSUME NEW o \in Operators, KubeadmJoin(o) PROVE InOrder'
  BY <1>4 DEF KubeadmJoin, CanJoin, InOrder, TypeOK, Hosts
<1>5. ASSUME NEW o \in Operators, KubeadmJoinHalf(o) PROVE InOrder'
  BY <1>5 DEF KubeadmJoinHalf, InOrder, TypeOK, Hosts
<1>6. ASSUME NEW o \in Operators, CordonNode(o) PROVE InOrder'
  BY <1>6 DEF CordonNode, InOrder
<1>7. ASSUME NEW o \in Operators, KubeadmReset(o) PROVE InOrder'
  <2>1. target[o] \in cordoned
    BY <1>7 DEF KubeadmReset, Turns, DrainsCordoned
  <2>2. CASE target[o] = ControlPlane
    BY <1>7, <2>2 DEF KubeadmReset, InOrder
  <2>3. CASE target[o] # ControlPlane
    <3>1. /\ kubeletConf' = [kubeletConf EXCEPT ![target[o]] = 0]
          /\ UNCHANGED <<epoch, apiUp, members, cordoned>>
      BY <1>7, <2>3 DEF KubeadmReset
    <3>2. /\ kubeletConf \in [Hosts -> Epochs]
          /\ members \subseteq Hosts /\ ControlPlane \in Hosts
      BY DEF TypeOK, Hosts
    <3>3. QED
      BY <2>1, <2>3, <3>1, <3>2 DEF InOrder
  <2>4. QED
    BY <2>2, <2>3
<1>8. ASSUME NEW o \in Operators, DeleteNode(o) PROVE InOrder'
  <2>1. apiUp /\ kubeletConf[target[o]] = 0 /\ epoch # 0
    BY <1>8 DEF DeleteNode, NodeFound, Answers, Turns, ResetFirst, NewestCluster
  <2>2. QED
    BY <1>8, <2>1 DEF DeleteNode, InOrder
<1>9. ASSUME NEW h \in Hosts, KubeletRegister(h) PROVE InOrder'
  BY <1>9 DEF KubeletRegister, InOrder
<1>10. QED
  BY <1>1, <1>2, <1>3, <1>4, <1>5, <1>6, <1>7, <1>8, <1>9
     DEF Next, Command, InitStep, RemoveStep, vars, cluster, StartInit, PingNodes,
         ProbeAdminConf, ReadAdminConf, WriteKubeconfig, CreateToken,
         ProbeKubeletConf, InstallPlatform, StartRemove, FindNode, DrainNode,
         Refuse, Fault

(* The workers that JoinWorkers has handled have credentials, of whatever  *)
(* cluster; what is left to do is part of what was asked.                  *)
Handled(o) ==
  /\ pc[o] \in InitLabels => todo[o] \subseteq asked[o]
  /\ pc[o] \in {"ping", "probeAdmin", "kubeadmInit", "readAdmin",
                "writeKubeconfig", "createToken"} => todo[o] = asked[o]
  /\ pc[o] = "kubeadmJoin" => target[o] \in todo[o]
  /\ pc[o] = "platform" => todo[o] = {}
  /\ pc[o] \in {"probeKubelet", "kubeadmJoin", "platform"}
       => \A w \in asked[o] \ todo[o] : kubeletConf[w] # 0

LEMMA HandledStep ==
  ASSUME Exclusive = TRUE, TypeOK, Turns, [Next]_vars,
         \A o \in Operators : Handled(o)
  PROVE  \A o \in Operators : Handled(o)'
<1> USE BootstrapAssumption
<1> SUFFICES ASSUME NEW o \in Operators PROVE Handled(o)'
  OBVIOUS
<1> USE DEF Handled, Goto, Exit, cluster, local
<1>1. CASE pc'[o] = "idle"
  BY <1>1 DEF InitLabels
<1>2. CASE UNCHANGED <<pc, local, kubeletConf>>
  BY <1>2 DEF InitLabels
<1>3. CASE pc'[o] \in RemoveLabels
  BY <1>3 DEF InitLabels, RemoveLabels
<1>4. ASSUME NEW q \in Operators, Command(q), q # o
      PROVE  pc'[o] = "idle"
  <2>1. pc[o] = "idle"
    BY <1>4 DEF Command, InitStep, RemoveStep, StartInit, StartRemove, MayStart,
       PingNodes, ProbeAdminConf, KubeadmInit, KubeadmInitHalf, ReadAdminConf,
       WriteKubeconfig, CreateToken, ProbeKubeletConf, KubeadmJoin,
       KubeadmJoinHalf, InstallPlatform, FindNode, CordonNode, DrainNode,
       KubeadmReset, DeleteNode, Refuse, Fault, Turns, OneAtATime
  <2>2. QED
    BY <1>4, <2>1 DEF TypeOK, Command, InitStep, RemoveStep, StartInit, StartRemove,
       PingNodes, ProbeAdminConf, KubeadmInit, KubeadmInitHalf, ReadAdminConf,
       WriteKubeconfig, CreateToken, ProbeKubeletConf, WorkerDone, KubeadmJoin,
       KubeadmJoinHalf, InstallPlatform, FindNode, CordonNode, DrainNode,
       KubeadmReset, DeleteNode, Refuse, Fault
<1>5. CASE StartInit(o)
  <2>1. PICK W \in SUBSET Workers : /\ asked' = [asked EXCEPT ![o] = W]
                                    /\ todo' = [todo EXCEPT ![o] = W]
    BY <1>5 DEF StartInit
  <2>2. asked'[o] = W /\ todo'[o] = W /\ pc'[o] = "ping"
    BY <1>5, <2>1 DEF StartInit, TypeOK
  <2>3. QED
    BY <2>2
<1>6. CASE \/ PingNodes(o) \/ ProbeAdminConf(o) \/ KubeadmInit(o)
           \/ ReadAdminConf(o) \/ WriteKubeconfig(o)
  <2>1. pc'[o] = "idle" \/ pc'[o] \in {"probeAdmin", "kubeadmInit", "readAdmin",
                                       "writeKubeconfig", "createToken"}
    BY <1>6 DEF PingNodes, ProbeAdminConf, KubeadmInit, ReadAdminConf,
       WriteKubeconfig, TypeOK
  <2>2. pc'[o] = "idle" \/ (asked' = asked /\ todo' = todo)
    BY <1>6 DEF PingNodes, ProbeAdminConf, KubeadmInit, ReadAdminConf,
       WriteKubeconfig, TypeOK
  <2>3. todo[o] = asked[o]
    BY <1>6 DEF PingNodes, ProbeAdminConf, KubeadmInit, ReadAdminConf,
       WriteKubeconfig
  <2>4. QED
    BY <1>1, <2>1, <2>2, <2>3
<1>7. CASE CreateToken(o)
  BY <1>7 DEF CreateToken, TypeOK, InitLabels
<1>8. CASE ProbeKubeletConf(o)
  <2>1. PICK w \in todo[o] :
          \/ kubeletConf[w] # 0 /\ WorkerDone(o, w)
          \/ /\ target' = [target EXCEPT ![o] = w]
             /\ Goto(o, "kubeadmJoin") /\ UNCHANGED todo
    BY <1>8 DEF ProbeKubeletConf
  <2>2. /\ UNCHANGED <<kubeletConf, asked>> /\ w \in asked[o]
        /\ todo[o] \subseteq asked[o]
        /\ \A v \in asked[o] \ todo[o] : kubeletConf[v] # 0
    BY <1>8, <2>1 DEF ProbeKubeletConf, InitLabels
  <2>3. CASE kubeletConf[w] # 0 /\ WorkerDone(o, w)
    <3>1. /\ todo'[o] = todo[o] \ {w}
          /\ pc'[o] = IF todo[o] = {w} THEN "platform" ELSE "probeKubelet"
      BY <2>3 DEF WorkerDone, TypeOK
    <3>2. QED
      BY <2>2, <2>3, <3>1 DEF InitLabels
  <2>4. CASE target' = [target EXCEPT ![o] = w] /\ Goto(o, "kubeadmJoin") /\ UNCHANGED todo
    BY <2>1, <2>2, <2>4 DEF TypeOK, InitLabels
  <2>5. QED
    BY <2>1, <2>3, <2>4
<1>9. CASE KubeadmJoin(o)
  <2> DEFINE t == target[o]
  <2>1. /\ todo' = [todo EXCEPT ![o] = @ \ {t}] /\ asked' = asked
        /\ kubeletConf' = [kubeletConf EXCEPT ![t] = epoch]
        /\ pc' = [pc EXCEPT ![o] = IF todo[o] = {t} THEN "platform" ELSE "probeKubelet"]
        /\ t \in todo[o] /\ todo[o] \subseteq asked[o] /\ epoch # 0 /\ t \in Hosts
        /\ \A v \in asked[o] \ todo[o] : kubeletConf[v] # 0
    BY <1>9 DEF KubeadmJoin, WorkerDone, CanJoin, InitLabels, TypeOK, Turns, NewestCluster
  <2> HIDE DEF t
  <2>2. \A v \in asked[o] \ todo'[o] : kubeletConf'[v] # 0
    BY <2>1 DEF TypeOK, Hosts
  <2>3. /\ todo'[o] = todo[o] \ {t}
        /\ pc'[o] = IF todo[o] = {t} THEN "platform" ELSE "probeKubelet"
    BY <2>1 DEF TypeOK
  <2>4. QED
    BY <2>1, <2>2, <2>3 DEF InitLabels
<1>10. CASE \/ FindNode(o) \/ CordonNode(o) \/ DrainNode(o) \/ KubeadmReset(o)
            \/ (\E h \in Hosts : StartRemove(o, h))
  <2>1. pc'[o] \in RemoveLabels
    BY <1>10 DEF FindNode, CordonNode, DrainNode, KubeadmReset, StartRemove,
       RemoveLabels, TypeOK
  <2>2. QED
    BY <1>3, <2>1
<1>11. CASE \/ KubeadmInitHalf(o) \/ KubeadmJoinHalf(o) \/ InstallPlatform(o)
            \/ DeleteNode(o) \/ Refuse(o) \/ Fault(o)
  <2>1. pc'[o] = "idle"
    BY <1>11 DEF KubeadmInitHalf, KubeadmJoinHalf, InstallPlatform, DeleteNode,
       Refuse, Fault, TypeOK
  <2>2. QED
    BY <1>1, <2>1
<1>12. ASSUME NEW h \in Hosts, KubeletRegister(h) PROVE UNCHANGED <<pc, local, kubeletConf>>
  BY <1>12 DEF KubeletRegister
<1>13. CASE UNCHANGED vars
  BY <1>2, <1>13 DEF vars
<1> HIDE DEF Handled, Goto, Exit, cluster, local
<1>14. CASE Command(o)
  BY <1>5, <1>6, <1>7, <1>8, <1>9, <1>10, <1>11, <1>14 DEF Command, InitStep, RemoveStep
<1>15. QED
  BY <1>1, <1>2, <1>4, <1>12, <1>13, <1>14 DEF Next

(* All that the refinement needs. *)
Known == TypeOK /\ Turns /\ InOrder /\ \A o \in Operators : Handled(o)

LEMMA KnownInvariant ==
  ASSUME Exclusive = TRUE, HalfJoin = FALSE
  PROVE  Spec => []Known
<1>1. Init => InOrder /\ \A o \in Operators : Handled(o)
  BY DEF Init, InOrder, Handled, InitLabels
<1>2. Known /\ TypeOK' /\ Turns' /\ [Next]_vars => Known'
  BY InOrderStep, HandledStep DEF Known
<1>3. TypeOK /\ Turns /\ InOrder /\ (\A o \in Operators : Handled(o)) => Known
  BY DEF Known
<1>4. QED
  BY <1>1, <1>2, <1>3, TypeCorrect, TurnsInvariant, PTL DEF Spec

-----------------------------------------------------------------------------
(* How far in each host is, before a step and after it. *)

LEMMA LivesAt ==
  ASSUME NEW h \in Hosts
  PROVE  /\ ~apiUp /\ (h = ControlPlane \/ kubeletConf[h] = 0) => Lives[h] = "out"
         /\ ~apiUp /\ h # ControlPlane /\ kubeletConf[h] # 0 => Lives[h] = "stale"
         /\ apiUp /\ h \notin members /\ kubeletConf[h] = 0 => Lives[h] = "out"
         /\ apiUp /\ h \notin members /\ kubeletConf[h] \notin {0, epoch}
              => Lives[h] = "stale"
         /\ apiUp /\ h \in members \ cordoned /\ kubeletConf[h] = epoch
              => Lives[h] = "in"
         /\ apiUp /\ h \in members \cap cordoned /\ kubeletConf[h] = epoch
              => Lives[h] = "cordoned"
         /\ apiUp /\ h \in members \cap cordoned /\ kubeletConf[h] = 0 /\ epoch # 0
              => Lives[h] = "reset"
BY DEF Lives, Life

LEMMA LivesAfter ==
  ASSUME NEW h \in Hosts
  PROVE  /\ ~apiUp' /\ (h = ControlPlane \/ kubeletConf'[h] = 0) => Lives'[h] = "out"
         /\ ~apiUp' /\ h # ControlPlane /\ kubeletConf'[h] # 0 => Lives'[h] = "stale"
         /\ apiUp' /\ h \notin members' /\ kubeletConf'[h] = 0 => Lives'[h] = "out"
         /\ apiUp' /\ h \notin members' /\ kubeletConf'[h] \notin {0, epoch'}
              => Lives'[h] = "stale"
         /\ apiUp' /\ h \in members' \ cordoned' /\ kubeletConf'[h] = epoch'
              => Lives'[h] = "in"
         /\ apiUp' /\ h \in members' \cap cordoned' /\ kubeletConf'[h] = epoch'
              => Lives'[h] = "cordoned"
         /\ apiUp' /\ h \in members' \cap cordoned' /\ kubeletConf'[h] = 0 /\ epoch' # 0
              => Lives'[h] = "reset"
BY DEF Lives, Life

LEMMA LifeSame ==
  ASSUME NEW h \in Hosts, UNCHANGED <<apiUp, epoch>>, kubeletConf'[h] = kubeletConf[h],
         (h \in members') <=> (h \in members), (h \in cordoned') <=> (h \in cordoned)
  PROVE  Lives'[h] = Lives[h]
BY DEF Lives, Life

LEMMA LivesShape ==
  /\ Lives = [h \in Hosts |-> Lives[h]]
  /\ Lives' = [h \in Hosts |-> Lives'[h]]
BY DEF Lives

LEMMA LivesSame ==
  ASSUME \A h \in Hosts : Lives'[h] = Lives[h]
  PROVE  Lives' = Lives
BY LivesShape

LEMMA LivesChange ==
  ASSUME NEW h \in Hosts, NEW s, Lives'[h] = s,
         \A g \in Hosts \ {h} : Lives'[g] = Lives[g]
  PROVE  Lives' = [Lives EXCEPT ![h] = s]
BY LivesShape

-----------------------------------------------------------------------------
(* What each command is at. *)

LEMMA JobsShape ==
  /\ Jobs = [o \in Operators |-> Job(o)]
  /\ Jobs' = [o \in Operators |-> Job(o)']
BY DEF Jobs

LEMMA JobAt ==
  ASSUME NEW o
  PROVE  /\ pc[o] = "idle" => Job(o) = Membership!Nothing
         /\ pc[o] \in InitLabels => Job(o) = Membership!Joining(asked[o])
         /\ pc[o] \in RemoveLabels => Job(o) = Membership!Removing(target[o])
BY DEF Job, Membership!Nothing, Membership!Joining, Membership!Removing, InitLabels,
       RemoveLabels

LEMMA JobAfter ==
  ASSUME NEW o
  PROVE  /\ pc'[o] = "idle" => Job(o)' = Membership!Nothing
         /\ pc'[o] \in InitLabels => Job(o)' = Membership!Joining(asked'[o])
         /\ pc'[o] \in RemoveLabels => Job(o)' = Membership!Removing(target'[o])
BY DEF Job, Membership!Nothing, Membership!Joining, Membership!Removing, InitLabels,
       RemoveLabels

(* The jobs of the others stay. *)
LEMMA JobSame ==
  ASSUME NEW o, pc'[o] = pc[o], target'[o] = target[o], asked'[o] = asked[o]
  PROVE  Job(o)' = Job(o)
BY DEF Job

LEMMA JobsChange ==
  ASSUME NEW o \in Operators, NEW j, Job(o)' = j,
         \A q \in Operators \ {o} : /\ pc'[q] = pc[q] /\ target'[q] = target[q]
                                    /\ asked'[q] = asked[q]
  PROVE  Jobs' = [Jobs EXCEPT ![o] = j]
BY JobsShape, JobSame

(* A command that goes on has its job still. *)
LEMMA GoesOn ==
  ASSUME TypeOK, NEW o \in Operators, UNCHANGED <<asked, outcome>>,
         \A q \in Operators \ {o} : pc'[q] = pc[q] /\ target'[q] = target[q],
         \/ pc[o] \in InitLabels /\ pc'[o] \in InitLabels
         \/ pc[o] \in RemoveLabels /\ pc'[o] \in RemoveLabels /\ target'[o] = target[o]
  PROVE  Membership!GoOn
<1>1. Job(o)' = Job(o)
  BY JobAt, JobAfter
<1>2. Jobs' = [Jobs EXCEPT ![o] = Job(o)]
  BY <1>1, JobsChange
<1>3. Jobs' = Jobs
  BY <1>2, JobsShape
<1>4. QED
  BY <1>3 DEF Membership!GoOn

LEMMA ExitAnswers ==
  ASSUME TypeOK, NEW o \in Operators, NEW r, Exit(o, r)
  PROVE  Membership!Answer(o, r)
<1>1. /\ pc'[o] = "idle"
      /\ \A q \in Operators \ {o} : /\ pc'[q] = pc[q] /\ target'[q] = target[q]
                                    /\ asked'[q] = asked[q]
      /\ outcome' = [outcome EXCEPT ![o] = r]
  BY DEF Exit, Goto, TypeOK
<1>2. Jobs' = [Jobs EXCEPT ![o] = Membership!Nothing]
  BY <1>1, JobAfter, JobsChange
<1>3. QED
  BY <1>1, <1>2 DEF Membership!Answer

(* A command leaves the memory of the others alone. *)
LEMMA OthersStay ==
  ASSUME TypeOK, NEW o \in Operators, Command(o)
  PROVE  \A q \in Operators \ {o} : /\ pc'[q] = pc[q] /\ target'[q] = target[q]
                                     /\ asked'[q] = asked[q]
BY DEF TypeOK, local, Command, InitStep, RemoveStep, Goto, Exit, StartInit, PingNodes,
   ProbeAdminConf, KubeadmInit, KubeadmInitHalf, ReadAdminConf, WriteKubeconfig,
   CreateToken, ProbeKubeletConf, WorkerDone, KubeadmJoin, KubeadmJoinHalf,
   InstallPlatform, StartRemove, FindNode, CordonNode, DrainNode, KubeadmReset,
   DeleteNode, Refuse, Fault

-----------------------------------------------------------------------------
(* Calls of init that change the cluster. *)

LEMMA KubeadmInitMaps ==
  ASSUME Known, Known', NEW o \in Operators, Command(o),
         KubeadmInit(o) \/ KubeadmInitHalf(o)
  PROVE  Membership!Install(o) \/ Membership!Fail(o)
<1> USE BootstrapAssumption
<1>1. /\ TypeOK /\ ~apiUp /\ kubeletConf[ControlPlane] = 0 /\ epoch \in Nat
      /\ ControlPlane \in Hosts
      /\ \A h \in Hosts : kubeletConf[h] <= epoch /\ kubeletConf[h] \in Nat
      /\ pc[o] = "kubeadmInit"
  BY DEF Known, KubeadmInit, KubeadmInitHalf, HostClean, Turns, NewestCluster, TypeOK,
     Hosts, Epochs
<1>2. /\ epoch' = epoch + 1 /\ cordoned' = {}
      /\ kubeletConf' = [kubeletConf EXCEPT ![ControlPlane] = epoch + 1]
  BY DEF KubeadmInit, KubeadmInitHalf
<1>3. /\ \/ apiUp' = TRUE /\ members' = {ControlPlane}
         \/ apiUp' = FALSE /\ KubeadmInitHalf(o)
      /\ KubeadmInit(o) \/ KubeadmInitHalf(o)
  BY DEF KubeadmInit, KubeadmInitHalf
<1>4. /\ kubeletConf'[ControlPlane] = epoch'
      /\ \A g \in Hosts \ {ControlPlane} : kubeletConf'[g] = kubeletConf[g]
      /\ \A g \in Hosts \ {ControlPlane} : kubeletConf'[g] # epoch'
  BY <1>1, <1>2 DEF TypeOK, Epochs
<1>5. \A g \in Hosts \ {ControlPlane} : Lives'[g] = Lives[g]
  <2> SUFFICES ASSUME NEW g \in Hosts \ {ControlPlane} PROVE Lives'[g] = Lives[g]
    OBVIOUS
  <2>1. CASE kubeletConf[g] = 0
    BY <1>1, <1>3, <1>4, <2>1, LivesAt, LivesAfter
  <2>2. CASE kubeletConf[g] # 0
    BY <1>1, <1>3, <1>4, <2>2, LivesAt, LivesAfter
  <2>3. QED
    BY <2>1, <2>2
<1>6. Lives[ControlPlane] = "out"
  BY <1>1, LivesAt
<1>7. /\ Jobs[o].does = "init" /\ Jobs[o] # Membership!Nothing
  BY <1>1, JobAt, JobsShape DEF InitLabels, Membership!Joining, Membership!Nothing
<1>8. Membership!GoOn \/ Membership!Answer(o, "err")
  <2>1. CASE KubeadmInit(o)
    <3>1. pc'[o] = "readAdmin" /\ UNCHANGED <<asked, outcome>>
      BY <1>1, <2>1 DEF KubeadmInit, Goto, TypeOK, local
    <3>2. QED
      BY <1>1, <3>1, GoesOn, OthersStay DEF InitLabels
  <2>2. CASE KubeadmInitHalf(o)
    BY <1>1, <2>2, ExitAnswers DEF KubeadmInitHalf
  <2>3. QED
    BY <1>3, <2>1, <2>2
<1>9. CASE apiUp' = TRUE /\ members' = {ControlPlane}
  <2>1. Lives'[ControlPlane] = "in"
    BY <1>1, <1>2, <1>4, <1>9, LivesAfter
  <2>2. Lives' = [Lives EXCEPT ![ControlPlane] = "in"]
    BY <1>1, <1>5, <2>1, LivesChange
  <2>3. QED
    BY <1>6, <1>7, <1>8, <2>2
       DEF Membership!Install, Membership!Create, Membership!Moves
<1>10. CASE apiUp' = FALSE /\ KubeadmInitHalf(o)
  <2>1. Lives'[ControlPlane] = "out"
    BY <1>1, <1>10, LivesAfter
  <2>2. Lives' = Lives
    BY <1>5, <1>6, <2>1, LivesSame
  <2>3. Membership!Answer(o, "err")
    BY <1>1, <1>10, ExitAnswers DEF KubeadmInitHalf
  <2>4. QED
    BY <1>7, <2>2, <2>3 DEF Membership!Fail
<1>11. QED
  BY <1>3, <1>9, <1>10

(* While the API server is up, so is the control plane. *)
LEMMA ControlPlaneIn ==
  ASSUME Known, apiUp
  PROVE  Lives[ControlPlane] # "out" /\ ControlPlane \in Hosts
<1>1. ControlPlane \in Hosts
  BY DEF Hosts
<1>2. ControlPlane \in members /\ kubeletConf[ControlPlane] = epoch
  BY DEF Known, InOrder
<1>3. QED
  BY <1>1, <1>2, LivesAt

LEMMA KubeadmJoinMaps ==
  ASSUME Known, Known', NEW o \in Operators, Command(o), KubeadmJoin(o)
  PROVE  Membership!Install(o)
<1> USE BootstrapAssumption
<1> DEFINE t == target[o]
<1>1. /\ TypeOK /\ apiUp /\ apiUp' /\ kubeletConf[t] = 0 /\ epoch # 0
      /\ kubeletConf' = [kubeletConf EXCEPT ![t] = epoch]
      /\ UNCHANGED <<epoch, apiUp, cordoned, asked, outcome>>
      /\ members' = members \cup {t}
      /\ pc[o] = "kubeadmJoin" /\ t \in asked[o]
      /\ cordoned \subseteq members
  BY DEF Known, KubeadmJoin, CanJoin, Turns, NewestCluster, Handled, InitLabels, TypeOK
<1>2. t \in Hosts /\ t \in Workers /\ pc'[o] \in InitLabels
  BY <1>1 DEF KubeadmJoin, WorkerDone, Goto, TypeOK, Hosts, InitLabels
<1> HIDE DEF t
<1>3. kubeletConf'[t] = epoch /\ \A g \in Hosts \ {t} : kubeletConf'[g] = kubeletConf[g]
  BY <1>1, <1>2 DEF TypeOK
<1>4. \A g \in Hosts \ {t} : Lives'[g] = Lives[g]
  BY <1>1, <1>3, LifeSame
<1>5. Lives[ControlPlane] # "out"
  BY <1>1, ControlPlaneIn
<1>6. Membership!GoOn
  BY <1>1, <1>2, GoesOn, OthersStay DEF InitLabels
<1>7. Jobs[o].does = "init" /\ t \in Jobs[o].hosts
  BY <1>1, JobAt, JobsShape DEF InitLabels, Membership!Joining
<1>8. Membership!Moves(t, "out", "in") \/ Membership!Moves(t, "reset", "cordoned")
  <2>1. CASE t \in members
    <3>1. t \in cordoned
      BY <1>1, <2>1 DEF Known, InOrder
    <3>2. Lives[t] = "reset" /\ Lives'[t] = "cordoned"
      BY <1>1, <1>2, <1>3, <2>1, <3>1, LivesAt, LivesAfter
    <3>3. Lives' = [Lives EXCEPT ![t] = "cordoned"]
      BY <1>2, <1>4, <3>2, LivesChange
    <3>4. QED
      BY <3>2, <3>3 DEF Membership!Moves
  <2>2. CASE t \notin members
    <3>1. Lives[t] = "out" /\ Lives'[t] = "in"
      BY <1>1, <1>2, <1>3, <2>2, LivesAt, LivesAfter
    <3>2. Lives' = [Lives EXCEPT ![t] = "in"]
      BY <1>2, <1>4, <3>1, LivesChange
    <3>3. QED
      BY <3>1, <3>2 DEF Membership!Moves
  <2>3. QED
    BY <2>1, <2>2
<1>9. Membership!Join(t)
  BY <1>5, <1>6, <1>8 DEF Membership!Join
<1>10. QED
  BY <1>7, <1>9 DEF Membership!Install

-----------------------------------------------------------------------------
(* Calls of node remove that change the cluster. *)

(* The job of a removal. *)
LEMMA RemovalJob ==
  ASSUME TypeOK, NEW o \in Operators, pc[o] \in RemoveLabels
  PROVE  Jobs[o].does = "remove" /\ Jobs[o].hosts = {target[o]}
BY JobAt, JobsShape DEF Membership!Removing

LEMMA CordonNodeMaps ==
  ASSUME Known, Known', NEW o \in Operators, Command(o), CordonNode(o)
  PROVE  Membership!Remove(o) \/ UNCHANGED Membership!membership
<1> USE BootstrapAssumption
<1> DEFINE t == target[o]
<1>1. /\ TypeOK /\ apiUp /\ t \in members /\ cordoned' = cordoned \cup {t}
      /\ UNCHANGED <<epoch, apiUp, kubeletConf, members, local, outcome>>
      /\ pc[o] = "cordon" /\ pc'[o] = "drain" /\ t \in Hosts
  BY DEF Known, CordonNode, NodeFound, Answers, Goto, TypeOK
<1>2. Membership!GoOn
  BY <1>1, GoesOn, OthersStay DEF RemoveLabels, local
<1>3. Jobs[o].does = "remove" /\ Jobs[o].hosts = {t}
  BY <1>1, RemovalJob DEF RemoveLabels
<1> HIDE DEF t
<1>4. \A g \in Hosts \ {t} : Lives'[g] = Lives[g]
  BY <1>1, LifeSame
<1>5. CASE t \in cordoned
  <2>1. Lives'[t] = Lives[t]
    BY <1>1, <1>5, LifeSame
  <2>2. QED
    BY <1>2, <1>4, <2>1, LivesSame DEF Membership!membership, Membership!GoOn
<1>6. CASE t \notin cordoned
  <2>1. kubeletConf[t] = epoch
    BY <1>1, <1>6 DEF Known, InOrder
  <2>2. Lives[t] = "in" /\ Lives'[t] = "cordoned"
    BY <1>1, <1>6, <2>1, LivesAt, LivesAfter
  <2>3. Lives' = [Lives EXCEPT ![t] = "cordoned"]
    BY <1>1, <1>4, <2>2, LivesChange
  <2>4. Membership!Cordon(t)
    BY <1>2, <2>2, <2>3 DEF Membership!Cordon, Membership!Moves
  <2>5. QED
    BY <1>3, <2>4 DEF Membership!Remove
<1>7. QED
  BY <1>5, <1>6

LEMMA KubeadmResetMaps ==
  ASSUME Known, Known', NEW o \in Operators, Command(o), KubeadmReset(o)
  PROVE  Membership!Remove(o) \/ UNCHANGED Membership!membership
<1> USE BootstrapAssumption
<1> DEFINE t == target[o]
<1>1. /\ TypeOK /\ t \in cordoned /\ t \in members /\ t \in Hosts
      /\ kubeletConf' = [kubeletConf EXCEPT ![t] = 0]
      /\ UNCHANGED <<epoch, local, outcome>>
      /\ pc[o] = "reset" /\ pc'[o] = "delete"
  BY DEF Known, KubeadmReset, Goto, TypeOK, Turns, DrainsCordoned
<1>2. apiUp /\ epoch # 0 /\ kubeletConf[t] \in {0, epoch}
  BY <1>1 DEF Known, InOrder, Turns, NewestCluster
<1>3. /\ t = ControlPlane => ~apiUp'
      /\ t # ControlPlane => UNCHANGED <<apiUp, members, cordoned>>
  BY DEF KubeadmReset
<1>4. Membership!GoOn
  BY <1>1, GoesOn, OthersStay DEF RemoveLabels, local
<1>5. Jobs[o].does = "remove" /\ Jobs[o].hosts = {t}
  BY <1>1, RemovalJob DEF RemoveLabels
<1> HIDE DEF t
<1>6. kubeletConf'[t] = 0 /\ \A g \in Hosts \ {t} : kubeletConf'[g] = kubeletConf[g]
  BY <1>1 DEF TypeOK
<1>7. CASE t = ControlPlane
  <2>1. kubeletConf[t] = epoch
    BY <1>2, <1>7 DEF Known, InOrder
  <2>2. Lives[t] = "cordoned"
    BY <1>1, <1>2, <2>1, LivesAt
  <2>3. ASSUME NEW h \in Hosts
        PROVE  Lives'[h] = IF h # ControlPlane /\ Lives[h] \in {"in", "cordoned", "stale"}
                           THEN "stale" ELSE "out"
    <3>1. CASE h = ControlPlane
      BY <1>3, <1>7, <3>1, LivesAfter
    <3>2. CASE h # ControlPlane /\ kubeletConf[h] = 0
      <4>1. Lives'[h] = "out"
        BY <1>3, <1>6, <1>7, <3>2, LivesAfter
      <4>2. Lives[h] \in {"out", "reset"}
        BY <1>2, <3>2, LivesAt DEF Known, InOrder
      <4>3. QED
        BY <4>1, <4>2
    <3>3. CASE h # ControlPlane /\ kubeletConf[h] # 0
      <4>1. Lives'[h] = "stale"
        BY <1>3, <1>6, <1>7, <3>3, LivesAfter
      <4>2. h \in members => kubeletConf[h] = epoch
        BY <1>2, <3>3 DEF Known, InOrder
      <4>3. h \notin members => kubeletConf[h] # epoch
        BY <1>2 DEF Known, Turns, NoOrphan
      <4>4. Lives[h] \in {"in", "cordoned", "stale"}
        BY <1>2, <3>3, <4>2, <4>3, LivesAt
      <4>5. QED
        BY <3>3, <4>1, <4>4
    <3>4. QED
      BY <3>1, <3>2, <3>3
  <2>4. Lives' = [h \in Workers \cup {ControlPlane} |->
                    IF h # ControlPlane /\ Lives[h] \in {"in", "cordoned", "stale"}
                    THEN "stale" ELSE "out"]
    BY <2>3, LivesShape DEF Hosts
  <2>5. Membership!Dissolve
    BY <1>4, <1>7, <2>2, <2>4 DEF Membership!Dissolve
  <2>6. QED
    BY <1>5, <1>7, <2>5 DEF Membership!Remove
<1>8. CASE t # ControlPlane
  <2>1. \A g \in Hosts \ {t} : Lives'[g] = Lives[g]
    BY <1>1, <1>3, <1>6, <1>8, LifeSame
  <2>2. Lives'[t] = "reset"
    BY <1>1, <1>2, <1>3, <1>6, <1>8, LivesAfter
  <2>3. CASE kubeletConf[t] = 0
    <3>1. Lives[t] = "reset"
      BY <1>1, <1>2, <2>3, LivesAt
    <3>2. QED
      BY <1>4, <2>1, <2>2, <3>1, LivesSame DEF Membership!membership, Membership!GoOn
  <2>4. CASE kubeletConf[t] = epoch
    <3>1. Lives[t] = "cordoned"
      BY <1>1, <1>2, <2>4, LivesAt
    <3>2. Lives' = [Lives EXCEPT ![t] = "reset"]
      BY <1>1, <2>1, <2>2, LivesChange
    <3>3. Membership!Reset(t)
      BY <1>4, <1>8, <3>1, <3>2 DEF Membership!Reset, Membership!Moves
    <3>4. QED
      BY <1>5, <3>3 DEF Membership!Remove
  <2>5. QED
    BY <1>2, <2>3, <2>4
<1>9. QED
  BY <1>7, <1>8

LEMMA DeleteNodeMaps ==
  ASSUME Known, Known', NEW o \in Operators, Command(o), DeleteNode(o)
  PROVE  Membership!Remove(o)
<1> USE BootstrapAssumption
<1> DEFINE t == target[o]
<1>1. /\ TypeOK /\ apiUp /\ t \in members /\ t \in Hosts
      /\ kubeletConf[t] = 0 /\ epoch # 0
      /\ members' = members \ {t} /\ cordoned' = cordoned \ {t}
      /\ UNCHANGED <<epoch, apiUp, kubeletConf>>
      /\ Exit(o, "ok") /\ pc[o] = "delete"
  BY DEF Known, DeleteNode, NodeFound, Answers, TypeOK, Turns, ResetFirst, NewestCluster
<1>2. Membership!Answer(o, "ok")
  BY <1>1, ExitAnswers
<1>3. Jobs[o].does = "remove" /\ Jobs[o].hosts = {t}
  BY <1>1, RemovalJob DEF RemoveLabels
<1> HIDE DEF t
<1>4. t \in cordoned
  BY <1>1 DEF Known, InOrder
<1>5. \A g \in Hosts \ {t} : Lives'[g] = Lives[g]
  BY <1>1, LifeSame
<1>6. Lives[t] = "reset" /\ Lives'[t] = "out"
  BY <1>1, <1>4, LivesAt, LivesAfter
<1>7. Lives' = [Lives EXCEPT ![t] = "out"]
  BY <1>1, <1>5, <1>6, LivesChange
<1>8. Membership!Delete(o, t)
  BY <1>2, <1>6, <1>7 DEF Membership!Delete, Membership!Moves
<1>9. QED
  BY <1>3, <1>8 DEF Membership!Remove

-----------------------------------------------------------------------------
(* Calls that leave the cluster alone. *)

(* Init succeeds with each worker it was given in the cluster, or stale.   *)
LEMMA InstallPlatformMaps ==
  ASSUME Known, NEW o \in Operators, InstallPlatform(o), UNCHANGED Lives
  PROVE  Membership!Install(o)
<1>1. /\ TypeOK /\ apiUp /\ pc[o] = "platform" /\ Exit(o, "ok") /\ Working # {}
      /\ \A w \in asked[o] : kubeletConf[w] # 0
      /\ asked[o] \subseteq Workers /\ Workers \subseteq Hosts
  BY DEF Known, InstallPlatform, Reachable, Handled, TypeOK, Hosts
<1>2. Membership!Answer(o, "ok")
  BY <1>1, ExitAnswers
<1>3. Jobs[o].does = "init" /\ Jobs[o].hosts = asked[o]
  BY <1>1, JobAt, JobsShape DEF InitLabels, Membership!Joining
<1>4. ASSUME NEW w \in asked[o]
      PROVE  Lives[w] \in {"in", "cordoned", "stale"}
  <2>1. w \in Hosts /\ kubeletConf[w] # 0
    BY <1>1
  <2>2. w \in members => kubeletConf[w] = epoch
    BY <1>1, <2>1 DEF Known, InOrder
  <2>3. w \notin members => kubeletConf[w] # epoch
    BY <1>1, <2>1 DEF Known, Turns, NoOrphan
  <2>4. QED
    BY <1>1, <2>1, <2>2, <2>3, LivesAt
<1>5. \E w \in Workers : Lives[w] \in {"in", "cordoned"}
  <2>1. PICK w \in Workers \cap members : kubeletConf[w] = epoch
    BY <1>1 DEF Working
  <2>2. Lives[w] \in {"in", "cordoned"}
    BY <1>1, <2>1, LivesAt
  <2>3. QED
    BY <2>1, <2>2
<1>6. Lives[ControlPlane] # "out"
  BY <1>1, ControlPlaneIn
<1>7. QED
  BY <1>2, <1>3, <1>4, <1>5, <1>6 DEF Membership!Install, Membership!Finish

(* A command begins with what it was given. *)
LEMMA StartMaps ==
  ASSUME Known, NEW o \in Operators, Command(o), UNCHANGED Lives,
         StartInit(o) \/ \E h \in Hosts : StartRemove(o, h)
  PROVE  Membership!Begin(o)
<1>1. /\ TypeOK /\ pc[o] = "idle" /\ UNCHANGED outcome
      /\ \A q \in Operators \ {o} : /\ pc'[q] = pc[q] /\ target'[q] = target[q]
                                    /\ asked'[q] = asked[q]
  BY OthersStay DEF Known, StartInit, StartRemove, MayStart
<1>2. Jobs[o] = Membership!Nothing
  BY <1>1, JobAt, JobsShape
<1>3. CASE StartInit(o)
  <2>1. PICK W \in SUBSET Workers : asked' = [asked EXCEPT ![o] = W]
    BY <1>3 DEF StartInit
  <2>2. pc'[o] = "ping" /\ asked'[o] = W
    BY <1>1, <1>3, <2>1 DEF StartInit, Goto, TypeOK
  <2>3. Job(o)' = Membership!Joining(W)
    BY <2>2, JobAfter DEF InitLabels
  <2>4. Jobs' = [Jobs EXCEPT ![o] = Membership!Joining(W)]
    BY <1>1, <2>3, JobsChange
  <2>5. QED
    BY <1>1, <1>2, <2>4 DEF Membership!Begin
<1>4. ASSUME NEW h \in Hosts, StartRemove(o, h)
      PROVE  Membership!Begin(o)
  <2>1. pc'[o] = "find" /\ target'[o] = h
    BY <1>1, <1>4 DEF StartRemove, Goto, TypeOK
  <2>2. Job(o)' = Membership!Removing(h)
    BY <2>1, JobAfter DEF RemoveLabels
  <2>3. Jobs' = [Jobs EXCEPT ![o] = Membership!Removing(h)]
    BY <1>1, <2>2, JobsChange
  <2>4. QED
    BY <1>1, <1>2, <2>3 DEF Membership!Begin, Hosts
<1>5. QED
  BY <1>3, <1>4

(* Any other call goes on, or ends the command with an error.              *)
LEMMA QuietMaps ==
  ASSUME Known, NEW o \in Operators, Command(o), UNCHANGED Lives,
         \/ PingNodes(o) \/ ProbeAdminConf(o) \/ ReadAdminConf(o) \/ WriteKubeconfig(o)
         \/ CreateToken(o) \/ ProbeKubeletConf(o) \/ FindNode(o) \/ DrainNode(o)
         \/ Refuse(o) \/ Fault(o)
  PROVE  Membership!Fail(o) \/ UNCHANGED Membership!membership
<1>1. TypeOK
  BY DEF Known
<1>2. ASSUME Membership!GoOn PROVE UNCHANGED Membership!membership
  BY <1>2 DEF Membership!GoOn, Membership!membership
<1>3. ASSUME Exit(o, "err"), pc[o] # "idle" PROVE Membership!Fail(o)
  <2>1. pc[o] \in InitLabels \cup RemoveLabels
    BY <1>1, <1>3 DEF TypeOK
  <2>2. Jobs[o] # Membership!Nothing
    BY <2>1, JobAt, JobsShape
       DEF Membership!Nothing, Membership!Joining, Membership!Removing
  <2>3. QED
    BY <1>1, <1>3, <2>2, ExitAnswers DEF Membership!Fail
<1>4. ASSUME UNCHANGED <<asked, outcome>>,
             \/ pc[o] \in InitLabels /\ pc'[o] \in InitLabels
             \/ /\ pc[o] \in RemoveLabels /\ pc'[o] \in RemoveLabels
                /\ target'[o] = target[o]
      PROVE  UNCHANGED Membership!membership
  BY <1>1, <1>2, <1>4, GoesOn, OthersStay
<1>5. CASE Refuse(o) \/ Fault(o)
  BY <1>3, <1>5 DEF Refuse, Fault
<1>6. CASE FindNode(o) \/ DrainNode(o)
  <2>1. /\ UNCHANGED <<asked, outcome>> /\ target'[o] = target[o]
        /\ pc[o] \in RemoveLabels /\ pc'[o] \in RemoveLabels
    BY <1>1, <1>6 DEF FindNode, DrainNode, Goto, TypeOK, RemoveLabels, local
  <2>2. QED
    BY <1>4, <2>1
<1>7. CASE PingNodes(o) \/ ProbeAdminConf(o) \/ ReadAdminConf(o) \/ CreateToken(o)
  <2>1. /\ UNCHANGED <<asked, outcome>>
        /\ pc[o] \in InitLabels /\ pc'[o] \in InitLabels
    BY <1>1, <1>7 DEF PingNodes, ProbeAdminConf, ReadAdminConf, CreateToken, Goto,
       TypeOK, InitLabels, local
  <2>2. QED
    BY <1>4, <2>1
<1>8. CASE WriteKubeconfig(o)
  <2>1. CASE Exit(o, "err")
    BY <1>3, <1>8, <2>1 DEF WriteKubeconfig
  <2>2. CASE Goto(o, "createToken") /\ UNCHANGED <<local, outcome>>
    <3>1. /\ UNCHANGED <<asked, outcome>>
          /\ pc[o] \in InitLabels /\ pc'[o] \in InitLabels
      BY <1>1, <1>8, <2>2 DEF WriteKubeconfig, Goto, TypeOK, InitLabels, local
    <3>2. QED
      BY <1>4, <3>1
  <2>3. QED
    BY <1>8, <2>1, <2>2 DEF WriteKubeconfig
<1>9. CASE ProbeKubeletConf(o)
  <2>1. /\ UNCHANGED <<asked, outcome>>
        /\ pc[o] \in InitLabels /\ pc'[o] \in InitLabels
    BY <1>1, <1>9 DEF ProbeKubeletConf, WorkerDone, Goto, TypeOK, InitLabels
  <2>2. QED
    BY <1>4, <2>1
<1>10. QED
  BY <1>5, <1>6, <1>7, <1>8, <1>9

(* Taking turns, init and node remove implement ClusterMembership: a host  *)
(* enters by an init that names it, through a running control plane, and   *)
(* leaves by a removal of its own, by cordon, reset and deletion.  A       *)
(* removal answers ok when its host is out, an init when each worker that  *)
(* it was given is in or stale (provisioner.go, node.go).                  *)
THEOREM ImplementsMembership ==
  ASSUME Exclusive = TRUE, HalfJoin = FALSE
  PROVE  Spec => MembershipSpec
<1>1. Init => Membership!Init
  <2> SUFFICES ASSUME Init PROVE Membership!Init
    OBVIOUS
  <2>1. \A h \in Hosts : Lives[h] = "out"
    BY LivesAt DEF Init
  <2>2. \A o \in Operators : Job(o) = Membership!Nothing
    BY JobAt DEF Init
  <2>3. Lives = [h \in Workers \cup {ControlPlane} |-> "out"]
    BY <2>1, LivesShape DEF Hosts
  <2>4. Jobs = [o \in Operators |-> Membership!Nothing]
    BY <2>2, JobsShape
  <2>5. QED
    BY <2>3, <2>4 DEF Init, Membership!Init
<1>2. ASSUME Known, Known', [Next]_vars
      PROVE  [Membership!Next]_(Membership!membership)
  <2>1. ASSUME UNCHANGED cluster PROVE UNCHANGED Lives
    <3>1. UNCHANGED <<apiUp, members, cordoned, kubeletConf, epoch>>
      BY <2>1 DEF cluster
    <3>2. \A h \in Hosts : Lives'[h] = Lives[h]
      BY <3>1, LifeSame
    <3>3. QED
      BY <3>2, LivesSame
  <2>2. CASE UNCHANGED vars
    <3>1. UNCHANGED <<cluster, outcome>> /\ UNCHANGED <<pc, asked, target>>
      BY <2>2 DEF vars, local
    <3>2. \A o \in Operators : Job(o)' = Job(o)
      BY <3>1, JobSame
    <3>3. QED
      BY <2>1, <3>1, <3>2, JobsShape DEF Membership!membership
  <2>3. ASSUME NEW h \in Hosts, KubeletRegister(h) PROVE FALSE
    BY <1>2, <2>3 DEF Known, KubeletRegister, Turns, NoOrphan
  <2>4. ASSUME NEW o \in Operators, Command(o)
        PROVE  [Membership!Next]_(Membership!membership)
    <3>1. CASE \/ KubeadmInit(o) \/ KubeadmInitHalf(o) \/ KubeadmJoin(o)
               \/ CordonNode(o) \/ KubeadmReset(o) \/ DeleteNode(o)
      BY <1>2, <2>4, <3>1, KubeadmInitMaps, KubeadmJoinMaps, CordonNodeMaps,
         KubeadmResetMaps, DeleteNodeMaps DEF Membership!Next
    <3>2. CASE StartInit(o) \/ \E h \in Hosts : StartRemove(o, h)
      <4>1. UNCHANGED Lives
        BY <2>1, <3>2 DEF StartInit, StartRemove
      <4>2. QED
        BY <1>2, <2>4, <3>2, <4>1, StartMaps DEF Membership!Next
    <3>3. CASE InstallPlatform(o)
      <4>1. UNCHANGED Lives
        BY <2>1, <3>3 DEF InstallPlatform
      <4>2. QED
        BY <1>2, <3>3, <4>1, InstallPlatformMaps DEF Membership!Next
    <3>4. CASE \/ PingNodes(o) \/ ProbeAdminConf(o) \/ ReadAdminConf(o)
               \/ WriteKubeconfig(o) \/ CreateToken(o) \/ ProbeKubeletConf(o)
               \/ FindNode(o) \/ DrainNode(o) \/ Refuse(o) \/ Fault(o)
      <4>1. UNCHANGED Lives
        BY <2>1, <3>4 DEF PingNodes, ProbeAdminConf, ReadAdminConf, WriteKubeconfig,
           CreateToken, ProbeKubeletConf, FindNode, DrainNode, Refuse, Fault
      <4>2. QED
        BY <1>2, <2>4, <3>4, <4>1, QuietMaps DEF Membership!Next
    <3>5. ~KubeadmJoinHalf(o)
      BY DEF KubeadmJoinHalf
    <3>6. QED
      BY <2>4, <3>1, <3>2, <3>3, <3>4, <3>5 DEF Command, InitStep, RemoveStep
  <2>5. QED
    BY <1>2, <2>2, <2>3, <2>4 DEF Next
<1>3. QED
  BY <1>1, <1>2, KnownInvariant, PTL DEF Spec, MembershipSpec, Membership!Spec

=============================================================================
