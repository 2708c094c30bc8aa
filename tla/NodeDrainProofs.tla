-------------------------- MODULE NodeDrainProofs --------------------------
(***************************************************************************)
(* Theorems about NodeDrain, for every set of operators, workers and pods  *)
(* and every bound.  The first, that NodeDrain implements Bootstrap,       *)
(* carries the theorems of BootstrapProofs over to it.                     *)
(***************************************************************************)
EXTENDS BootstrapRetry, BootstrapProofs

-----------------------------------------------------------------------------
(* NodeDrain implements Bootstrap. *)

(* DrainNode is only ever half way in a command whose next call it is. *)
StepsInDrain == \A o \in Operators : step[o] # "list" => pc[o] = "drain"

(* A step of operator o's DrainNode is one call for Bootstrap, or none. *)
LEMMA DrainStepMaps ==
  ASSUME StepsInDrain, NEW o \in Operators, DrainStep(o)
  PROVE  DrainNode(o) \/ Refuse(o) \/ UNCHANGED vars
<1>1. CASE ListPods(o)
  BY <1>1 DEF ListPods, Drained
<1>2. ASSUME NEW p \in Pods, DeletePod(o, p)
      PROVE  UNCHANGED vars
  BY <1>2 DEF DeletePod
<1>3. ASSUME step[o] # "list", DrainFails(o)
      PROVE  Refuse(o)
  BY <1>3 DEF StepsInDrain, DrainFails, Refuse
<1>4. CASE DeleteMissing(o)
  BY <1>3, <1>4 DEF DeleteMissing
<1>5. CASE PollPods(o)
  BY <1>5 DEF PollPods, Drained
<1>6. CASE WaitTimeout(o)
  BY <1>3, <1>6 DEF WaitTimeout
<1>7. QED
  BY <1>1, <1>2, <1>4, <1>5, <1>6 DEF DrainStep

(* Pods and their place are nothing that Bootstrap knows of. *)
LEMMA PodStepMaps ==
  ASSUME NEW p \in Pods, PodStep(p) \/ End(p)
  PROVE  UNCHANGED <<vars, step, toDelete>>
BY DEF PodStep, End, Schedule, Confirm, Collect, Vanish

LEMMA OtherStepMaps ==
  ASSUME NEW o \in Operators, OtherStep(o)
  PROVE  Command(o)
BY DEF OtherStep, Command, RemoveStep

LEMMA StepMaps ==
  ASSUME StepsInDrain, [DrainNext]_allVars
  PROVE  [Next]_vars
<1>1. ASSUME NEW o \in Operators, DrainStep(o)
      PROVE  [Next]_vars
  BY <1>1, DrainStepMaps DEF Next, Command, RemoveStep
<1>2. ASSUME NEW o \in Operators, OtherStep(o)
      PROVE  [Next]_vars
  BY <1>2, OtherStepMaps DEF Next
<1>3. ASSUME NEW h \in Hosts, Register(h)
      PROVE  [Next]_vars
  BY <1>3 DEF Register, Next
<1>4. ASSUME NEW p \in Pods, PodStep(p) \/ End(p)
      PROVE  [Next]_vars
  BY <1>4, PodStepMaps
<1>5. CASE UNCHANGED allVars
  BY <1>5 DEF allVars
<1>6. QED
  BY <1>1, <1>2, <1>3, <1>4, <1>5 DEF DrainNext

-----------------------------------------------------------------------------
(* Type correctness. *)

(* The two halves of DrainTypeOK: where pods are, and where drains are. *)
PodsTyped ==
  /\ place \in [Pods -> Hosts \cup {Pending, Gone}]
  /\ dying \subseteq {p \in Pods : place[p] \in Hosts}
  /\ \A p \in Stateful : place[p] # Gone
  /\ ends \in 0 .. MaxEnds

DrainsTyped ==
  /\ step \in [Operators -> {"list", "delete", "wait"}]
  /\ toDelete \in [Operators -> SUBSET Pods]
  /\ \A o \in Operators :
       /\ step[o] # "list" => pc[o] = "drain"
       /\ toDelete[o] # {} <=> step[o] = "delete"

LEMMA DrainTypeParts == DrainTypeOK <=> TypeOK /\ PodsTyped /\ DrainsTyped
BY DEF DrainTypeOK, PodsTyped, DrainsTyped

LEMMA VanishKeepsPods ==
  ASSUME PodsTyped, NEW p \in Pods, Vanish(p), ends' \in 0 .. MaxEnds
  PROVE  PodsTyped'
<1> USE PodsAssumption
<1>1. place' \in [Pods -> Hosts \cup {Pending, Gone}]
  BY DEF Vanish, PodsTyped
<1>2. \A q \in Stateful : place'[q] # Gone
  BY DEF Vanish, PodsTyped
<1>3. dying' \subseteq {q \in Pods : place'[q] \in Hosts}
  BY DEF Vanish, PodsTyped
<1>4. QED
  BY <1>1, <1>2, <1>3 DEF PodsTyped

LEMMA PodStepTyped ==
  ASSUME PodsTyped, DrainsTyped, NEW p \in Pods, PodStep(p) \/ End(p)
  PROVE  PodsTyped' /\ DrainsTyped'
<1> USE PodsAssumption
<1>1. DrainsTyped'
  BY PodStepMaps DEF DrainsTyped, vars
<1>2. ASSUME NEW h \in Hosts, Schedule(p, h)
      PROVE  PodsTyped'
  BY <1>2 DEF Schedule, PodsTyped
<1>3. CASE Confirm(p)
  BY <1>1, <1>3, VanishKeepsPods DEF Confirm, PodsTyped
<1>4. CASE Collect(p)
  BY <1>1, <1>4, VanishKeepsPods DEF Collect, PodsTyped
<1>5. CASE End(p)
  <2>1. ends' \in 0 .. MaxEnds
    BY <1>5 DEF End, PodsTyped
  <2>2. Vanish(p)
    BY <1>5 DEF End
  <2>3. QED
    BY <1>1, <2>1, <2>2, VanishKeepsPods
<1>6. QED
  BY <1>1, <1>2, <1>3, <1>4, <1>5 DEF PodStep

LEMMA ProceedTyped ==
  ASSUME DrainsTyped, NEW o \in Operators,
         NEW s \in {"list", "delete", "wait"}, NEW P \in SUBSET Pods,
         P # {} <=> s = "delete", s # "list" => pc'[o] = "drain",
         \A q \in Operators \ {o} : pc'[q] = pc[q],
         Proceed(o, s, P)
  PROVE  DrainsTyped'
<1>1. /\ step' \in [Operators -> {"list", "delete", "wait"}]
      /\ toDelete' \in [Operators -> SUBSET Pods]
      /\ step'[o] = s /\ toDelete'[o] = P
      /\ \A q \in Operators \ {o} : step'[q] = step[q] /\ toDelete'[q] = toDelete[q]
  BY DEF DrainsTyped, Proceed
<1>2. ASSUME NEW q \in Operators
      PROVE  /\ step'[q] # "list" => pc'[q] = "drain"
             /\ toDelete'[q] # {} <=> step'[q] = "delete"
  BY <1>1 DEF DrainsTyped
<1>3. QED
  BY <1>1, <1>2 DEF DrainsTyped

LEMMA DrainStepTyped ==
  ASSUME TypeOK, PodsTyped, DrainsTyped, NEW o \in Operators, DrainStep(o)
  PROVE  PodsTyped' /\ DrainsTyped'
<1> USE DEF PodsTyped
<1>1. StepsInDrain
  BY DEF DrainsTyped, StepsInDrain
<1>2. \A q \in Operators \ {o} : pc'[q] = pc[q]
  <2>1. Command(o) \/ UNCHANGED vars
    BY <1>1, DrainStepMaps DEF Command, RemoveStep
  <2>2. QED
    BY <2>1, OthersStay DEF vars
<1>3. ASSUME Proceed(o, "list", {})
      PROVE  DrainsTyped'
  BY <1>2, <1>3, ProceedTyped
<1>4. CASE ListPods(o)
  <2>1. PodsTyped'
    BY <1>4 DEF ListPods, Drained, pods
  <2>2. CASE Drained(o)
    BY <1>3, <2>1, <2>2 DEF Drained
  <2>3. CASE /\ Evictable(target[o]) # {}
             /\ Proceed(o, "delete", Evictable(target[o]))
             /\ UNCHANGED vars
    <3>1. pc'[o] = "drain"
      BY <1>4, <2>3 DEF ListPods, vars
    <3>2. Evictable(target[o]) \in SUBSET Pods
      BY DEF Evictable, Counted, On
    <3>3. QED
      BY <1>2, <2>1, <2>3, <3>1, <3>2, ProceedTyped
  <2>4. QED
    BY <1>4, <2>2, <2>3 DEF ListPods
<1>5. ASSUME NEW p \in Pods, DeletePod(o, p)
      PROVE  PodsTyped' /\ DrainsTyped'
  <2>1. PodsTyped'
    BY <1>5 DEF DeletePod
  <2>2. pc'[o] = "drain"
    BY <1>5 DEF DeletePod, DrainsTyped, vars
  <2>3. /\ toDelete[o] \ {p} \in SUBSET Pods
        /\ toDelete[o] \ {p} # {} <=> toDelete[o] # {p}
    BY <1>5 DEF DeletePod, DrainsTyped
  <2>4. CASE toDelete[o] = {p}
    <3>1. Proceed(o, "wait", toDelete[o] \ {p})
      BY <1>5, <2>4 DEF DeletePod
    <3>2. QED
      BY <1>2, <2>1, <2>2, <2>3, <2>4, <3>1, ProceedTyped
  <2>5. CASE toDelete[o] # {p}
    <3>1. Proceed(o, "delete", toDelete[o] \ {p})
      BY <1>5, <2>5 DEF DeletePod
    <3>2. QED
      BY <1>2, <2>1, <2>2, <2>3, <2>5, <3>1, ProceedTyped
  <2>6. QED
    BY <2>4, <2>5
<1>6. CASE DeleteMissing(o)
  BY <1>3, <1>6 DEF DeleteMissing, DrainFails, pods
<1>7. CASE PollPods(o)
  BY <1>3, <1>7 DEF PollPods, Drained, pods
<1>8. CASE WaitTimeout(o)
  BY <1>3, <1>8 DEF WaitTimeout, DrainFails, pods
<1>9. QED
  BY <1>4, <1>5, <1>6, <1>7, <1>8 DEF DrainStep

LEMMA OtherStepTyped ==
  ASSUME TypeOK, PodsTyped, DrainsTyped, NEW o \in Operators, OtherStep(o)
  PROVE  PodsTyped' /\ DrainsTyped'
<1>1. DrainsTyped'
  BY OtherStepMaps, OthersStay, ProceedTyped DEF OtherStep
<1>2. PodsTyped'
  BY PodsAssumption DEF OtherStep, PodsTyped, pods
<1>3. QED
  BY <1>1, <1>2

(* Commands and pods keep their types; a drain that has listed pods is     *)
(* still in its command, and waits exactly when no deletion is left to be  *)
(* asked for (DrainNode).                                                  *)
THEOREM DrainTypeCorrect == DrainSpec => []DrainTypeOK
<1>1. DrainInit => DrainTypeOK
  <2> SUFFICES ASSUME DrainInit PROVE DrainTypeOK
    OBVIOUS
  <2>1. TypeOK
    BY InitTyped DEF DrainInit
  <2>2. PodsTyped /\ DrainsTyped
    BY PodsAssumption DEF DrainInit, PodsTyped, DrainsTyped
  <2>3. QED
    BY <2>1, <2>2, DrainTypeParts
<1>2. DrainTypeOK /\ [DrainNext]_allVars => DrainTypeOK'
  <2> SUFFICES ASSUME TypeOK, PodsTyped, DrainsTyped, [DrainNext]_allVars
               PROVE  TypeOK' /\ PodsTyped' /\ DrainsTyped'
    BY DrainTypeParts DEF DrainTypeOK, PodsTyped, DrainsTyped
  <2>1. TypeOK'
    BY StepMaps, TypeStep DEF DrainsTyped, StepsInDrain
  <2>2. ASSUME NEW h \in Hosts, Register(h)
        PROVE  PodsTyped' /\ DrainsTyped'
    BY <2>1, <2>2 DEF Register, KubeletRegister, drainVars, pods, PodsTyped, DrainsTyped
  <2>3. CASE UNCHANGED allVars
    BY <2>1, <2>3 DEF allVars, vars, drainVars, pods, PodsTyped, DrainsTyped
  <2>4. QED
    BY <2>1, <2>2, <2>3, DrainStepTyped, OtherStepTyped, PodStepTyped DEF DrainNext
<1>3. QED
  BY <1>1, <1>2, PTL DEF DrainSpec

(* DrainNode, pod by pod, is the one call that Bootstrap takes it for, and *)
(* what the pods do changes nothing else: everything proved of Bootstrap   *)
(* holds of it with pods as well (node.go, step 4).                        *)
THEOREM ImplementsCluster == DrainSpec => ClusterSpec
<1>1. DrainInit => Init
  BY DEF DrainInit
<1>2. DrainTypeOK /\ [DrainNext]_allVars => [Next]_vars
  BY StepMaps DEF DrainTypeOK, StepsInDrain
<1>3. QED
  BY <1>1, <1>2, DrainTypeCorrect, PTL DEF DrainSpec, ClusterSpec, Spec

(* So pods take nothing from what taking turns guarantees for hosts,       *)
(* kubeconfig and cordons, and ClusterMembership is implemented with them  *)
(* as well (provisioner.go, node.go).                                      *)
THEOREM TurnsAreSafeWithPods ==
  ASSUME Exclusive = TRUE, HalfJoin = FALSE
  PROVE  DrainSpec => /\ [](NoOrphan /\ KubeconfigCurrent /\ DrainsCordoned)
                      /\ MembershipSpec
<1>1. Spec => []NoOrphan
  BY NoHostIsOrphaned
<1>2. Spec => []KubeconfigCurrent
  BY KubeconfigIsCurrent
<1>3. Spec => []DrainsCordoned
  BY DrainsAreCordoned
<1>4. Spec => MembershipSpec
  BY ImplementsMembership
<1>5. QED
  BY <1>1, <1>2, <1>3, <1>4, ImplementsCluster, PTL DEF ClusterSpec

(* Operators who repeat their commands, all at the same time, type         *)
(* commands: an init that is repeated beside node remove takes nothing of  *)
(* what earlier runs have built either (Init and JoinWorkers).             *)
THEOREM RepeatedInitIsHarmless == RetrySpec => InitTakesNothing
<1>1. [RetryNext]_allVars => [DrainNext]_allVars
  <2>1. ASSUME NEW o \in Operators, Repeat(o) PROVE DrainNext
    BY <2>1 DEF Repeat, DrainNext
  <2>2. ASSUME Kubelets PROVE DrainNext
    BY <2>2 DEF Kubelets, DrainNext
  <2>3. ASSUME NEW p \in Pods, Workload(p) \/ End(p) PROVE DrainNext
    BY <2>3 DEF Workload, DrainNext
  <2>4. QED
    BY <2>1, <2>2, <2>3 DEF RetryNext
<1>2. RetrySpec => DrainSpec
  BY <1>1, PTL DEF RetrySpec, DrainSpec
<1>3. QED
  BY <1>2, ImplementsCluster, InitIsHarmless, PTL DEF ClusterSpec

-----------------------------------------------------------------------------
(* What taking turns guarantees for the pods. *)

(* Between drain and reset the node has no pods but tolerant ones. *)
Emptied == \A o \in Operators : pc[o] = "reset" => Evictable(target[o]) \subseteq Tolerant

(* What a drain has still to delete runs on its node or has ended. *)
Chosen ==
  \A o \in Operators : \A p \in toDelete[o] :
    p \notin Resident /\ (p \in Stateful \/ place[p] \in {target[o], Gone})

LEMMA PodStepPlaces ==
  ASSUME PodsTyped, NEW p \in Pods, PodStep(p) \/ End(p)
  PROVE  /\ \A q \in Pods \ {p} : place'[q] = place[q]
         /\ dying' \subseteq dying
         /\ \/ \E h \in Hosts : Schedule(p, h) /\ place[p] = Pending /\ place'[p] = h
            \/ place'[p] = IF p \in Stateful THEN Pending ELSE Gone
BY DEF PodsTyped, PodStep, End, Schedule, Confirm, Collect, Vanish

(* The calls other than DrainNode leave the pods where they are, or end    *)
(* the cluster.                                                            *)
LEMMA OtherStepPlaces ==
  ASSUME NEW o \in Operators, OtherStep(o)
  PROVE  /\ place' = place \/ place' = [p \in Pods |-> Pending]
         /\ dying' \subseteq dying
         /\ Proceed(o, "list", {})
BY DEF OtherStep, pods

(* Only DrainNode leads to the reset. *)
LEMMA OtherStepResetsNot ==
  ASSUME TypeOK, NEW o \in Operators, OtherStep(o)
  PROVE  pc'[o] # "reset"
BY DEF TypeOK, OtherStep, InitStep, Goto, Exit, StartInit, PingNodes,
   ProbeAdminConf, KubeadmInit, KubeadmInitHalf, ReadAdminConf, WriteKubeconfig,
   CreateToken, ProbeKubeletConf, WorkerDone, KubeadmJoin, KubeadmJoinHalf,
   InstallPlatform, StartRemove, FindNode, CordonNode, KubeadmReset,
   DeleteNode, Refuse, Fault

LEMMA EmptiedStep ==
  ASSUME TypeOK, PodsTyped, DrainsTyped, DrainsCordoned, Emptied,
         [DrainNext]_allVars
  PROVE  Emptied'
<1> USE PodsAssumption
<1>1. SUFFICES ASSUME NEW q \in Operators, pc'[q] = "reset"
               PROVE  Evictable(target[q])' \subseteq Tolerant
  BY DEF Emptied
<1>2. ASSUME \A p \in Pods : place'[p] = place[p] \/ place'[p] \notin Hosts,
             pc[q] = "reset", target'[q] = target[q]
      PROVE  Evictable(target[q])' \subseteq Tolerant
  <2>1. target[q] \in Hosts
    BY DEF TypeOK
  <2>2. Evictable(target[q])' \subseteq Evictable(target[q])
    BY <1>2, <2>1 DEF Evictable, Counted, On
  <2>3. QED
    BY <1>2, <2>2 DEF Emptied
<1>3. ASSUME NEW o \in Operators, DrainStep(o)
      PROVE  Evictable(target[q])' \subseteq Tolerant
  <2>1. CASE q = o
    <3>1. pc[o] = "drain"
      BY <1>3 DEF DrainStep, ListPods, DeletePod, DeleteMissing, PollPods,
                  WaitTimeout, DrainsTyped
    <3>2. place' = place
      BY <1>3 DEF DrainStep, ListPods, DeletePod, DeleteMissing, PollPods,
                  WaitTimeout, Drained, DrainFails, pods
    <3>3. ~DrainFails(o) /\ ~UNCHANGED vars
      BY <1>1, <2>1, <3>1 DEF DrainFails, Exit, Goto, TypeOK, vars
    <3>4. Evictable(target[o]) = {} /\ Drained(o)
      BY <1>3, <3>3 DEF DrainStep, ListPods, DeletePod, DeleteMissing,
                        PollPods, WaitTimeout
    <3>5. target' = target
      BY <3>4 DEF Drained, DrainNode, local
    <3>6. QED
      BY <2>1, <3>2, <3>4, <3>5 DEF Evictable, Counted, On
  <2>2. CASE q # o
    <3>1. StepsInDrain
      BY DEF DrainsTyped, StepsInDrain
    <3>2. DrainNode(o) \/ Refuse(o) \/ UNCHANGED vars
      BY <1>3, <3>1, DrainStepMaps
    <3>3. pc'[q] = pc[q] /\ target'[q] = target[q]
      BY <2>2, <3>2 DEF DrainNode, Refuse, Exit, Goto, vars, local, TypeOK
    <3>4. place' = place
      BY <1>3 DEF DrainStep, ListPods, DeletePod, DeleteMissing, PollPods,
                  WaitTimeout, Drained, DrainFails, pods
    <3>5. QED
      BY <1>1, <1>2, <3>3, <3>4
  <2>3. QED
    BY <2>1, <2>2
<1>4. ASSUME NEW o \in Operators, OtherStep(o)
      PROVE  Evictable(target[q])' \subseteq Tolerant
  <2>1. q # o
    BY <1>1, <1>4, OtherStepResetsNot
  <2>2. pc'[q] = pc[q] /\ target'[q] = target[q]
    BY <1>4, <2>1, OtherStepMaps, OthersStay
  <2>3. \A p \in Pods : place'[p] = place[p] \/ place'[p] \notin Hosts
    BY <1>4, OtherStepPlaces
  <2>4. QED
    BY <1>1, <1>2, <2>2, <2>3
<1>5. ASSUME NEW h \in Hosts, Register(h)
      PROVE  Evictable(target[q])' \subseteq Tolerant
  BY <1>1, <1>2, <1>5 DEF Register, KubeletRegister, drainVars, pods, local
<1>6. ASSUME NEW p \in Pods, PodStep(p) \/ End(p)
      PROVE  Evictable(target[q])' \subseteq Tolerant
  <2>1. pc[q] = "reset" /\ target'[q] = target[q] /\ target[q] \in Hosts
    BY <1>1, <1>6, PodStepMaps DEF vars, local, TypeOK
  <2>2. ASSUME NEW h \in Hosts, Schedule(p, h), place'[p] = h
        PROVE  Evictable(target[q])' \subseteq Tolerant
    <3>1. target[q] = h => p \in Tolerant \cup Resident
      BY <2>1, <2>2 DEF Schedule, DrainsCordoned
    <3>2. Evictable(target[q])' \subseteq Evictable(target[q]) \cup Tolerant
      BY <1>6, <2>1, <2>2, <3>1, PodStepPlaces DEF Evictable, Counted, On
    <3>3. QED
      BY <2>1, <3>2 DEF Emptied
  <2>3. CASE place'[p] \notin Hosts
    BY <1>2, <1>6, <2>1, <2>3, PodStepPlaces
  <2>4. QED
    BY <1>6, <2>2, <2>3, PodStepPlaces
<1>7. CASE UNCHANGED allVars
  BY <1>1, <1>2, <1>7 DEF allVars, vars, drainVars, pods, local
<1>8. QED
  BY <1>3, <1>4, <1>5, <1>6, <1>7 DEF DrainNext

(* Nobody else is at work beside a drain. *)
LEMMA DrainsAlone ==
  ASSUME Exclusive = TRUE, OneAtATime, NEW q \in Operators, pc[q] = "drain",
         NEW o \in Operators, OtherStep(o)
  PROVE  o = q
BY DEF OneAtATime, OtherStep, InitStep, StartInit, MayStart, StartRemove, PingNodes,
   ProbeAdminConf, KubeadmInit, KubeadmInitHalf, ReadAdminConf, WriteKubeconfig,
   CreateToken, ProbeKubeletConf, KubeadmJoin, KubeadmJoinHalf, InstallPlatform,
   FindNode, CordonNode, KubeadmReset, DeleteNode, Refuse, Fault

LEMMA ChosenStep ==
  ASSUME Exclusive = TRUE, OneAtATime, TypeOK, PodsTyped, DrainsTyped, Chosen,
         [DrainNext]_allVars
  PROVE  Chosen'
<1> USE PodsAssumption
<1>1. SUFFICES ASSUME NEW q \in Operators, NEW r \in toDelete'[q]
               PROVE  /\ r \notin Resident
                      /\ r \in Stateful \/ place'[r] \in {target'[q], Gone}
  BY DEF Chosen
<1> DEFINE Goal == /\ r \notin Resident
                   /\ r \in Stateful \/ place'[r] \in {target'[q], Gone}
<1>2. ASSUME r \in toDelete[q], target'[q] = target[q],
             place'[r] = place[r] \/ place'[r] = Gone
      PROVE  Goal
  BY <1>2 DEF Chosen
<1>3. ASSUME NEW o \in Operators, DrainStep(o)
      PROVE  Goal
  <2>1. target'[q] = target[q] \/ toDelete'[q] = {}
    BY <1>3, DrainStepMaps
       DEF DrainStep, ListPods, DeletePod, DeleteMissing, PollPods, WaitTimeout,
           Drained, DrainFails, DrainNode, Exit, Proceed, vars, local, TypeOK,
           DrainsTyped
  <2>2. place' = place
    BY <1>3 DEF DrainStep, ListPods, DeletePod, DeleteMissing, PollPods,
                WaitTimeout, Drained, DrainFails, pods
  <2>3. toDelete'[q] \subseteq toDelete[q] \/ toDelete'[q] = Evictable(target[q])
    BY <1>3 DEF DrainStep, ListPods, DeletePod, DeleteMissing, PollPods,
                WaitTimeout, Drained, DrainFails, Proceed, DrainsTyped
  <2>4. CASE r \in Evictable(target[q])
    BY <1>1, <2>1, <2>2, <2>4 DEF Evictable, Counted, On
  <2>5. QED
    BY <1>1, <1>2, <2>1, <2>2, <2>3, <2>4
<1>4. ASSUME NEW o \in Operators, OtherStep(o)
      PROVE  Goal
  <2>1. q # o
    BY <1>1, <1>4, OtherStepPlaces DEF Proceed, DrainsTyped
  <2>2. toDelete'[q] = toDelete[q]
    BY <1>4, <2>1, OtherStepPlaces DEF Proceed, DrainsTyped
  <2>3. pc[q] = "drain"
    BY <1>1, <2>2 DEF DrainsTyped
  <2>4. QED
    BY <1>4, <2>1, <2>3, DrainsAlone
<1>5. ASSUME NEW h \in Hosts, Register(h)
      PROVE  Goal
  BY <1>1, <1>2, <1>5 DEF Register, KubeletRegister, drainVars, pods, local
<1>6. ASSUME NEW p \in Pods, PodStep(p) \/ End(p)
      PROVE  Goal
  <2>1. r \in toDelete[q] /\ target'[q] = target[q] /\ r \in Pods
    BY <1>1, <1>6, PodStepMaps DEF vars, local, DrainsTyped
  <2>2. r \in Stateful \/ place[r] # Pending
    BY <2>1 DEF Chosen, TypeOK
  <2>3. r \in Stateful \/ place'[r] = place[r] \/ place'[r] = Gone
    BY <1>6, <2>1, <2>2, PodStepPlaces
  <2>4. QED
    BY <1>2, <2>1, <2>3 DEF Chosen
<1>7. CASE UNCHANGED allVars
  BY <1>1, <1>2, <1>7 DEF allVars, vars, drainVars, pods, local
<1>8. QED
  BY <1>3, <1>4, <1>5, <1>6, <1>7 DEF DrainNext

LEMMA DrainTurns ==
  ASSUME Exclusive = TRUE, HalfJoin = FALSE
  PROVE  DrainSpec => [](Turns /\ Emptied /\ Chosen)
<1>1. DrainInit => Emptied /\ Chosen
  BY DEF DrainInit, Init, Emptied, Chosen
<1>2. DrainTypeOK /\ Turns /\ Emptied /\ Chosen /\ [DrainNext]_allVars
        => Emptied' /\ Chosen'
  BY EmptiedStep, ChosenStep, DrainTypeParts DEF Turns
<1>3. Spec => []Turns
  BY TurnsInvariant
<1>4. DrainSpec => Spec
  BY ImplementsCluster DEF ClusterSpec
<1>5. QED
  BY <1>1, <1>2, <1>3, <1>4, DrainTypeCorrect, PTL DEF DrainSpec

(* When operators take turns, kubeadm reset never takes a running pod with *)
(* it but those that no cordon keeps away, whatever pods come, end or hang *)
(* during the drain (DrainNode and steps 3 to 5 of node.go).               *)
THEOREM ResetIsGentle ==
  ASSUME Exclusive = TRUE, HalfJoin = FALSE
  PROVE  DrainSpec => ResetSparesPods
<1>1. Emptied => \A o \in Operators :
                   KubeadmReset(o) => Evictable(target[o]) \subseteq Tolerant
  BY DEF Emptied, KubeadmReset
<1>2. QED
  BY <1>1, DrainTurns, PTL DEF ResetSparesPods

(* When operators take turns, a drain asks pods to end on the node it has  *)
(* cordoned only, those of StatefulSets aside, and none of a DaemonSet,    *)
(* however stale its list has become (DrainNode).                          *)
THEOREM EvictionIsConfined ==
  ASSUME Exclusive = TRUE, HalfJoin = FALSE
  PROVE  DrainSpec => EvictsFromCordoned
<1> DEFINE Confined == \A p \in dying' \ dying :
                         p \notin Resident /\ (p \in Stateful \/ place[p] \in cordoned)
<1>1. ASSUME DrainTypeOK, Turns, Chosen, DrainNext
      PROVE  Confined
  <2> USE PodsAssumption
  <2>1. PodsTyped /\ DrainsTyped /\ DrainsCordoned
    BY <1>1, DrainTypeParts DEF Turns
  <2>2. ASSUME NEW o \in Operators, NEW p \in Pods, DeletePod(o, p)
        PROVE  Confined
    <3>1. pc[o] = "drain" /\ p \in toDelete[o]
      BY <2>1, <2>2 DEF DeletePod, DrainsTyped
    <3>2. CASE place[p] \in Hosts
      <4>1. p \notin Resident /\ (p \in Stateful \/ place[p] \in cordoned)
        BY <1>1, <2>1, <3>1, <3>2 DEF Chosen, DrainsCordoned
      <4>2. QED
        BY <2>2, <4>1 DEF DeletePod
    <3>3. CASE dying' = dying
      BY <3>3
    <3>4. QED
      BY <2>2, <3>2, <3>3 DEF DeletePod
  <2>3. CASE dying' \subseteq dying
    BY <2>3
  <2>4. ASSUME NEW o \in Operators, DrainStep(o)
        PROVE  dying' = dying \/ \E p \in Pods : DeletePod(o, p)
    BY <2>4 DEF DrainStep, ListPods, DeleteMissing, PollPods, WaitTimeout,
                Drained, DrainFails, pods
  <2>5. ASSUME NEW h \in Hosts, Register(h)
        PROVE  dying' = dying
    BY <2>5 DEF Register, drainVars, pods
  <2>6. QED
    BY <1>1, <2>1, <2>2, <2>3, <2>4, <2>5, OtherStepPlaces, PodStepPlaces
       DEF DrainNext
<1>2. DrainTypeOK /\ Turns /\ Chosen /\ [DrainNext]_allVars => [Confined]_allVars
  BY <1>1
<1>3. QED
  BY <1>2, DrainTurns, DrainTypeCorrect, PTL DEF DrainSpec, EvictsFromCordoned

=============================================================================
