-------------------------- MODULE BaoDeployProofs --------------------------
(***************************************************************************)
(* Theorems about BaoDeploy, for every set of machines and clusters and    *)
(* every bound.                                                            *)
(***************************************************************************)
EXTENDS BaoDeploy, TLAPS

-----------------------------------------------------------------------------
(* The servers. *)

RootTyped ==
  /\ root \in [Clusters -> RootServer]
  /\ unsealToken \in [Clusters -> Generations]
  /\ lease \in [Clusters -> {"used", "unused", "expired"}]
  /\ transitTok \in [Operators -> Generations]
  /\ rootStops \in 0 .. MaxRootStops

MainTyped ==
  /\ main \in [Clusters -> MainServer]
  /\ \A c \in Clusters : WellFormed(main[c])
  /\ restarts \in 0 .. MaxRestarts

(* The runs and what they keep of the main server's root token. *)
RunsTyped ==
  /\ credSecret \in [Clusters -> Tokens]
  /\ homeToken \in [Operators -> Tokens \cup {EmptyFile}]
  /\ pc \in [Operators -> {"idle"} \cup Labels]
  /\ target \in [Operators -> Clusters]
  /\ link \in [Operators -> {"none", "root", "main"}]
  /\ rootToken \in [Operators -> Tokens]
  /\ outcome \in [Operators -> {"none", "ok", "err"}]
  /\ pending \in [Clusters -> SUBSET {"root", "main"}]
  /\ faults \in 0 .. MaxFaults /\ saveFaults \in 0 .. MaxSaveFaults

(* A run that is past the first call has a root server to work with. *)
RootInstalled ==
  \A o \in Operators :
    pc[o] \notin {"idle", "installRoot"} => root[target[o]].generation # 0

LEMMA TypeParts == TypeOK <=> RootTyped /\ MainTyped /\ RunsTyped
BY DEF TypeOK, RootTyped, MainTyped, RunsTyped

(* One server changed keeps the others as they are. *)
LEMMA MainChange ==
  ASSUME main \in [Clusters -> MainServer], \A c \in Clusters : WellFormed(main[c]),
         NEW c \in Clusters, NEW n \in MainServer, WellFormed(n),
         main' = [main EXCEPT ![c] = n]
  PROVE  /\ main' \in [Clusters -> MainServer]
         /\ \A d \in Clusters : WellFormed(main'[d])
OBVIOUS

(* What calls and the kubelet do to a main server makes sense.              *)
LEMMA MainUpdate ==
  ASSUME NEW m \in MainServer, WellFormed(m)
  PROVE  /\ LET n == [m EXCEPT !.installed = TRUE]
            IN  n \in MainServer /\ WellFormed(n)
         /\ \A a \in SUBSET {"enabled", "configured"} :
              LET n == [m EXCEPT !.auth = a]
              IN  n \in MainServer /\ WellFormed(n)
         /\ LET n == [m EXCEPT !.pod = 0, !.sealed = TRUE]
            IN  n \in MainServer /\ WellFormed(n)
         /\ \A p \in Generations \ {0}, s \in BOOLEAN :
              m.installed /\ (m.key = 0 => s) =>
                LET n == [m EXCEPT !.pod = p, !.sealed = s]
                IN  n \in MainServer /\ WellFormed(n)
         /\ \A k \in Generations \ {0} :
              m.pod # 0 =>
                LET n == [m EXCEPT !.key = k, !.sealed = FALSE]
                IN  n \in MainServer /\ WellFormed(n)
<1>0. 0 \in Generations
  BY BaoAssumption DEF Generations
<1> USE DEF MainServer, WellFormed
<1>1. LET n == [m EXCEPT !.installed = TRUE] IN n \in MainServer /\ WellFormed(n)
  OBVIOUS
<1>2. ASSUME NEW a \in SUBSET {"enabled", "configured"}
      PROVE  LET n == [m EXCEPT !.auth = a] IN n \in MainServer /\ WellFormed(n)
  OBVIOUS
<1>3. LET n == [m EXCEPT !.pod = 0, !.sealed = TRUE] IN n \in MainServer /\ WellFormed(n)
  BY <1>0
<1>4. ASSUME NEW p \in Generations \ {0}, NEW s \in BOOLEAN, m.installed, m.key = 0 => s
      PROVE  LET n == [m EXCEPT !.pod = p, !.sealed = s] IN n \in MainServer /\ WellFormed(n)
  BY <1>4
<1>5. ASSUME NEW k \in Generations \ {0}, m.pod # 0
      PROVE  LET n == [m EXCEPT !.key = k, !.sealed = FALSE]
             IN  n \in MainServer /\ WellFormed(n)
  BY <1>5
<1> HIDE DEF MainServer, WellFormed
<1>6. QED
  BY <1>1, <1>2, <1>3, <1>4, <1>5

(* What the calls of a run, and the cluster, do to the runs' own state. *)
LEMMA RunsStep == RunsTyped /\ [Next]_vars => RunsTyped'
<1> USE BaoAssumption
<1> SUFFICES ASSUME RunsTyped, [Next]_vars PROVE RunsTyped'
  OBVIOUS
<1> USE DEF RunsTyped, Goto, Exit, SpendFault, DropLinks, Labels, Saving, Tokens,
            secrets, local, world, spent
<1>1. ASSUME NEW o \in Operators, NEW c \in Clusters, StartDeploy(o, c)
      PROVE  RunsTyped'
  BY <1>1 DEF StartDeploy
<1>2. ASSUME NEW o \in Operators,
             InstallRoot(o) \/ ForwardRoot(o) \/ MountTransit(o) \/ CreateKey(o)
      PROVE  RunsTyped'
  BY <1>2 DEF InstallRoot, ForwardRoot, MountTransit, CreateKey
<1>3. ASSUME NEW o \in Operators,
             \/ PutPolicy(o) \/ CreateUnsealToken(o) \/ DeleteUnsealSecret(o)
             \/ CreateUnsealSecret(o)
      PROVE  RunsTyped'
  BY <1>3 DEF PutPolicy, CreateUnsealToken, DeleteUnsealSecret, CreateUnsealSecret
<1>4. ASSUME NEW o \in Operators,
             InstallMain(o) \/ ForwardMain(o) \/ InitStatus(o) \/ InitMain(o)
      PROVE  RunsTyped'
  BY <1>4 DEF InstallMain, ForwardMain, InitStatus, InitMain
<1>5. ASSUME NEW o \in Operators,
             SaveLocal(o) \/ DeleteCredSecret(o) \/ CreateCredSecret(o)
      PROVE  RunsTyped'
  BY <1>5 DEF SaveLocal, DeleteCredSecret, CreateCredSecret
<1>6. ASSUME NEW o \in Operators, ReadToken(o) PROVE RunsTyped'
  BY <1>6 DEF ReadToken, StoredToken
<1>7. ASSUME NEW o \in Operators, ListAuth(o) \/ EnableAuth(o) \/ ConfigAuth(o)
      PROVE  RunsTyped'
  BY <1>7 DEF ListAuth, EnableAuth, ConfigAuth
<1>8. ASSUME NEW o \in Operators, Refuse(o) \/ Fault(o) PROVE RunsTyped'
  BY <1>8 DEF Refuse, Fault
<1>9. ASSUME NEW c \in Clusters,
             RootRestart(c) \/ MainStop(c) \/ MainStart(c) \/ Expire(c)
      PROVE  RunsTyped'
  BY <1>9 DEF RootRestart, MainStop, MainStart, Expire
<1>10. CASE UNCHANGED vars
  BY <1>10 DEF vars
<1>11. ASSUME NEW o \in Operators, HelmKilled(o) PROVE RunsTyped'
  BY <1>11 DEF HelmKilled
<1> HIDE DEF RunsTyped
<1>12. QED
  BY <1>1, <1>2, <1>3, <1>4, <1>5, <1>6, <1>7, <1>8, <1>9, <1>10, <1>11
     DEF Next, DeployStep

(* What they do to the root servers and to the tokens for them.            *)
LEMMA RootStep == RootTyped /\ RunsTyped /\ [Next]_vars => RootTyped'
<1> USE BaoAssumption
<1> SUFFICES ASSUME RootTyped, RunsTyped, [Next]_vars PROVE RootTyped'
  OBVIOUS
<1> USE DEF RootTyped, secrets, local, world, spent
<1>1. \A o \in Operators : target[o] \in Clusters
  BY DEF RunsTyped
<1>2. ASSUME NEW o \in Operators, InstallRoot(o) PROVE RootTyped'
  BY <1>1, <1>2 DEF InstallRoot, RootServer, Generations
<1>3. ASSUME NEW o \in Operators, MountTransit(o) \/ CreateKey(o) \/ PutPolicy(o)
      PROVE  RootTyped'
  <2>1. UNCHANGED <<unsealToken, lease, transitTok, rootStops>>
    BY <1>3 DEF MountTransit, CreateKey, PutPolicy
  <2>2. ASSUME NEW x \in {"transit", "key", "policy"},
               root' = [root EXCEPT ![target[o]].knows = @ \cup {x}]
        PROVE  root' \in [Clusters -> RootServer]
    BY <1>1, <2>2 DEF RootServer
  <2>3. root' \in [Clusters -> RootServer]
    BY <1>3, <2>2 DEF MountTransit, CreateKey, PutPolicy
  <2>4. QED
    BY <2>1, <2>3
<1>4. ASSUME NEW o \in Operators,
             CreateUnsealToken(o) \/ DeleteUnsealSecret(o) \/ CreateUnsealSecret(o)
      PROVE  RootTyped'
  BY <1>1, <1>4 DEF CreateUnsealToken, DeleteUnsealSecret, CreateUnsealSecret,
     RootServer, Generations
<1>5. ASSUME NEW o \in Operators, ConfigAuth(o) \/ Refuse(o) \/ Fault(o)
      PROVE  RootTyped'
  BY <1>5 DEF ConfigAuth, Refuse, Fault, Exit, Generations
<1>6. ASSUME NEW c \in Clusters, RootRestart(c) PROVE RootTyped'
  BY <1>6 DEF RootRestart, RootServer, Generations
<1>7. ASSUME NEW o \in Operators,
             \/ \E c \in Clusters : StartDeploy(o, c)
             \/ ForwardRoot(o) \/ InstallMain(o) \/ ForwardMain(o) \/ InitStatus(o)
             \/ InitMain(o) \/ SaveLocal(o) \/ DeleteCredSecret(o)
             \/ CreateCredSecret(o) \/ ReadToken(o) \/ ListAuth(o) \/ EnableAuth(o)
      PROVE  RootTyped'
  BY <1>7 DEF StartDeploy, ForwardRoot, InstallMain, ForwardMain, InitStatus,
     InitMain, SaveLocal, DeleteCredSecret, CreateCredSecret, ReadToken, ListAuth,
     EnableAuth
<1>8. ASSUME NEW c \in Clusters, MainStop(c) \/ MainStart(c) \/ Expire(c)
      PROVE  RootTyped'
  BY <1>8 DEF MainStop, MainStart, Expire
<1>9. CASE UNCHANGED vars
  BY <1>9 DEF vars
<1>10. ASSUME NEW o \in Operators, HelmKilled(o) PROVE RootTyped'
  <2>1. UNCHANGED <<unsealToken, lease, rootStops>>
        /\ transitTok' = [transitTok EXCEPT ![o] = 0]
    BY <1>10 DEF HelmKilled, Exit
  <2>2. root' = root \/ root' = [root EXCEPT ![target[o]].generation =
                                  IF @ = 0 THEN 1 ELSE @]
    BY <1>10 DEF HelmKilled
  <2>3. QED
    BY <1>1, <2>1, <2>2 DEF RootServer, Generations
<1> HIDE DEF RootTyped
<1>11. QED
  BY <1>2, <1>3, <1>4, <1>5, <1>6, <1>7, <1>8, <1>9, <1>10 DEF Next, DeployStep

(* A run that is past the first call has a root server to work with.       *)
LEMMA InstalledStep ==
  RootTyped /\ RunsTyped /\ RootInstalled /\ [Next]_vars => RootInstalled'
<1> USE BaoAssumption
<1> SUFFICES ASSUME RootTyped, RunsTyped, RootInstalled, [Next]_vars,
                    NEW p \in Operators, pc'[p] \notin {"idle", "installRoot"}
             PROVE  root'[target'[p]].generation # 0
  BY DEF RootInstalled
<1> USE DEF RootInstalled, Goto, Exit, secrets, local, world, spent
<1>1. /\ pc \in [Operators -> {"idle"} \cup Labels]
      /\ target \in [Operators -> Clusters]
      /\ root \in [Clusters -> RootServer]
  BY DEF RunsTyped, RootTyped
<1>2. ASSUME NEW o \in Operators, NEW c \in Clusters, StartDeploy(o, c)
      PROVE  root'[target'[p]].generation # 0
  BY <1>1, <1>2 DEF StartDeploy
<1>3. ASSUME NEW o \in Operators, InstallRoot(o)
      PROVE  root'[target'[p]].generation # 0
  <2>1. \A c \in Clusters : root[c].generation # 0 => root'[c].generation # 0
    BY <1>1, <1>3 DEF InstallRoot, RootServer
  <2>2. root'[target[o]].generation # 0
    BY <1>1, <1>3 DEF InstallRoot, RootServer
  <2>3. target' = target /\ pc' = [pc EXCEPT ![o] = "forwardRoot"]
    BY <1>3 DEF InstallRoot
  <2>4. QED
    BY <1>1, <2>1, <2>2, <2>3
<1>4. ASSUME NEW o \in Operators, MountTransit(o) \/ CreateKey(o) \/ PutPolicy(o)
      PROVE  root'[target'[p]].generation # 0
  <2>1. ASSUME NEW x, root' = [root EXCEPT ![target[o]].knows = @ \cup {x}]
        PROVE  \A c \in Clusters : root'[c].generation = root[c].generation
    BY <1>1, <2>1 DEF RootServer
  <2>2. \A c \in Clusters : root'[c].generation = root[c].generation
    BY <1>4, <2>1 DEF MountTransit, CreateKey, PutPolicy
  <2>3. target' = target /\ pc[p] \notin {"idle", "installRoot"}
    BY <1>1, <1>4 DEF MountTransit, CreateKey, PutPolicy
  <2>4. QED
    BY <1>1, <2>2, <2>3
<1>5. ASSUME NEW c \in Clusters, RootRestart(c)
      PROVE  root'[target'[p]].generation # 0
  BY <1>1, <1>5 DEF RootRestart, RootServer, Generations
<1>6. CASE UNCHANGED <<root, target, pc>>
  BY <1>6
<1>7. ASSUME NEW o \in Operators,
             \/ ForwardRoot(o) \/ CreateUnsealToken(o) \/ DeleteUnsealSecret(o)
             \/ CreateUnsealSecret(o) \/ InstallMain(o) \/ ForwardMain(o)
             \/ InitStatus(o) \/ InitMain(o) \/ SaveLocal(o) \/ DeleteCredSecret(o)
             \/ CreateCredSecret(o) \/ ReadToken(o) \/ ListAuth(o) \/ EnableAuth(o)
             \/ ConfigAuth(o) \/ Refuse(o) \/ Fault(o)
      PROVE  root'[target'[p]].generation # 0
  <2>1. root' = root /\ target' = target /\ pc[p] \notin {"idle", "installRoot"}
    BY <1>1, <1>7 DEF ForwardRoot, CreateUnsealToken, DeleteUnsealSecret,
       CreateUnsealSecret, InstallMain, ForwardMain, InitStatus, InitMain,
       SaveLocal, DeleteCredSecret, CreateCredSecret, ReadToken, ListAuth,
       EnableAuth, ConfigAuth, Refuse, Fault
  <2>2. QED
    BY <1>1, <2>1
<1>8. ASSUME NEW o \in Operators, HelmKilled(o)
      PROVE  root'[target'[p]].generation # 0
  <2>1. target' = target /\ pc' = [pc EXCEPT ![o] = "idle"]
    BY <1>8 DEF HelmKilled
  <2>2. root' = root \/ root' = [root EXCEPT ![target[o]].generation =
                                  IF @ = 0 THEN 1 ELSE @]
    BY <1>8 DEF HelmKilled
  <2>3. \A c \in Clusters : root[c].generation # 0 => root'[c].generation # 0
    BY <1>1, <2>2 DEF RootServer
  <2>4. QED
    BY <1>1, <2>1, <2>3
<1>9. QED
  BY <1>2, <1>3, <1>4, <1>5, <1>6, <1>7, <1>8
     DEF Next, DeployStep, MainStop, MainStart, Expire, vars

(* What they do to the main servers.                                       *)
LEMMA MainStep ==
  RootTyped /\ MainTyped /\ RunsTyped /\ RootInstalled /\ [Next]_vars => MainTyped'
<1> SUFFICES ASSUME RootTyped, MainTyped, RunsTyped, RootInstalled, [Next]_vars
             PROVE  MainTyped'
  OBVIOUS
<1>1. /\ \A c \in Clusters : /\ main[c] \in MainServer /\ WellFormed(main[c])
                            /\ root[c].generation \in Generations
                            /\ unsealToken[c] \in Generations
      /\ \A o \in Operators : target[o] \in Clusters
  BY DEF RunsTyped, MainTyped, RootTyped, RootServer
<1>2. ASSUME NEW c \in Clusters, NEW n \in MainServer, WellFormed(n),
             main' = [main EXCEPT ![c] = n], restarts' \in 0 .. MaxRestarts
      PROVE  MainTyped'
  BY <1>2, MainChange DEF MainTyped
<1>3. restarts \in 0 .. MaxRestarts
  BY DEF MainTyped
<1> USE DEF world
<1>4. ASSUME NEW o \in Operators, InstallMain(o) PROVE MainTyped'
  <2>1. main' = [main EXCEPT ![target[o]] = [main[target[o]] EXCEPT !.installed = TRUE]]
        /\ restarts' = restarts
    BY <1>4 DEF InstallMain
  <2>2. QED
    BY <1>1, <1>2, <1>3, <2>1, MainUpdate
<1>5. ASSUME NEW o \in Operators, EnableAuth(o) \/ ConfigAuth(o) PROVE MainTyped'
  <2> DEFINE m == main[target[o]]
  <2>1. m \in MainServer /\ WellFormed(m) /\ target[o] \in Clusters
    BY <1>1
  <2>2. PICK x \in {"enabled", "configured"} :
          main' = [main EXCEPT ![target[o]] = [m EXCEPT !.auth = m.auth \cup {x}]]
    BY <1>5 DEF EnableAuth, ConfigAuth
  <2>3. restarts' = restarts
    BY <1>5 DEF EnableAuth, ConfigAuth
  <2>4. m.auth \cup {x} \in SUBSET {"enabled", "configured"}
    BY <2>1 DEF MainServer
  <2> HIDE DEF m
  <2>5. QED
    BY <1>2, <1>3, <2>1, <2>2, <2>3, <2>4, MainUpdate
<1>6. ASSUME NEW o \in Operators, InitMain(o) PROVE MainTyped'
  <2> DEFINE m == main[target[o]]
             k == root[target[o]].generation
  <2>1. main' = [main EXCEPT ![target[o]] = [m EXCEPT !.key = k, !.sealed = FALSE]]
        /\ restarts' = restarts
    BY <1>6 DEF InitMain
  <2>2. k \in Generations \ {0} /\ m.pod # 0
    BY <1>1, <1>6 DEF InitMain, CanInit, CanSeal, RootInstalled
  <2>3. m \in MainServer /\ WellFormed(m) /\ target[o] \in Clusters
    BY <1>1
  <2> HIDE DEF m, k
  <2>4. QED
    BY <1>2, <1>3, <2>1, <2>2, <2>3, MainUpdate
<1>7. ASSUME NEW c \in Clusters, MainStop(c) PROVE MainTyped'
  <2>1. main' = [main EXCEPT ![c] = [main[c] EXCEPT !.pod = 0, !.sealed = TRUE]]
    BY <1>7 DEF MainStop
  <2>2. restarts' \in 0 .. MaxRestarts
    BY <1>3, <1>7, BaoAssumption DEF MainStop
  <2>3. QED
    BY <1>1, <1>2, <2>1, <2>2, MainUpdate
<1>8. ASSUME NEW c \in Clusters, MainStart(c) PROVE MainTyped'
  <2> DEFINE m == main[c]
             p == unsealToken[c]
             s == m.sealed /\ m.key # root[c].generation
  <2>1. main' = [main EXCEPT ![c] = [m EXCEPT !.pod = p, !.sealed = s]]
        /\ restarts' = restarts
    BY <1>8 DEF MainStart
  <2>2. /\ p \in Generations \ {0} /\ s \in BOOLEAN
        /\ m.installed /\ (m.key = 0 => s)
    BY <1>1, <1>8 DEF MainStart, CanStart, WellFormed
  <2>3. m \in MainServer /\ WellFormed(m)
    BY <1>1
  <2> HIDE DEF m, p, s
  <2>4. QED
    BY <1>2, <1>3, <2>1, <2>2, <2>3, MainUpdate
<1>9. CASE UNCHANGED <<main, restarts>>
  BY <1>9 DEF MainTyped
<1>10. ASSUME NEW o \in Operators, HelmKilled(o) PROVE MainTyped'
  <2>1. /\ \/ UNCHANGED main
           \/ main' = [main EXCEPT ![target[o]] = [main[target[o]] EXCEPT !.installed = TRUE]]
        /\ restarts' = restarts
    BY <1>10 DEF HelmKilled
  <2>2. QED
    BY <1>1, <1>2, <1>3, <1>9, <2>1, MainUpdate
<1>11. QED
  BY <1>4, <1>5, <1>6, <1>7, <1>8, <1>9, <1>10
     DEF Next, DeployStep, StartDeploy, InstallRoot, ForwardRoot, MountTransit,
         CreateKey, PutPolicy, CreateUnsealToken, DeleteUnsealSecret,
         CreateUnsealSecret, ForwardMain, InitStatus, SaveLocal, DeleteCredSecret,
         CreateCredSecret, ReadToken, ListAuth, Refuse, Fault, RootRestart,
         Expire, vars

Typed == RootTyped /\ MainTyped /\ RunsTyped /\ RootInstalled

LEMMA InitTyped == Init => Typed
<1> USE BaoAssumption
<1> SUFFICES ASSUME Init PROVE Typed
  OBVIOUS
<1> USE DEF Init
<1>1. RootTyped
  BY DEF RootTyped, RootServer, Generations
<1>2. MainTyped
  BY DEF MainTyped, MainServer, WellFormed, Generations
<1>3. RunsTyped
  BY DEF RunsTyped, Tokens
<1>4. RootInstalled
  BY DEF RootInstalled
<1>5. QED
  BY <1>1, <1>2, <1>3, <1>4 DEF Typed

LEMMA TypedStep == Typed /\ [Next]_vars => Typed'
BY RootStep, MainStep, RunsStep, InstalledStep DEF Typed

LEMMA TypedInvariant == Spec => []Typed
BY InitTyped, TypedStep, PTL DEF Spec

(* The variables keep their types: a server that is sealed, down or not    *)
(* initialised is so consistently, whichever calls fail or meet a server   *)
(* that has restarted in the meantime (deploy.go).                         *)
THEOREM TypeCorrect == Spec => []TypeOK
<1>1. Typed => TypeOK
  BY TypeParts DEF Typed
<1>2. QED
  BY <1>1, TypedInvariant, PTL

-----------------------------------------------------------------------------
(* The seal. *)

KeyCurrent ==
  rootStops = 0 =>
    \A c \in Clusters :
      Initialized(c) => /\ main[c].key = root[c].generation
                        /\ main[c].pod # 0 => ~main[c].sealed

(* The calls that do not concern the seal leave it alone. *)
LEMMA GenerationFrame ==
  ASSUME root \in [Clusters -> RootServer], NEW c \in Clusters, NEW k,
         root' = [root EXCEPT ![c].knows = k]
  PROVE  \A d \in Clusters : root'[d].generation = root[d].generation
BY DEF RootServer

LEMMA SealFrame ==
  ASSUME main \in [Clusters -> MainServer], NEW c \in Clusters, NEW a,
         \/ main' = [main EXCEPT ![c].installed = TRUE]
         \/ main' = [main EXCEPT ![c].auth = a]
  PROVE  \A d \in Clusters : /\ main'[d].key = main[d].key
                            /\ main'[d].pod = main[d].pod
                            /\ main'[d].sealed = main[d].sealed
BY DEF MainServer

(* A main server is initialised with the key of the running root server, a *)
(* root server that does not restart by itself keeps its generation, and a *)
(* pod that starts with a token of that generation unseals.                *)
LEMMA KeyStep == Typed /\ KeyCurrent /\ [Next]_vars => KeyCurrent'
<1> SUFFICES ASSUME Typed, KeyCurrent, [Next]_vars, rootStops' = 0,
                    NEW c \in Clusters, Initialized(c)'
             PROVE  /\ main'[c].key = root'[c].generation
                    /\ main'[c].pod # 0 => ~main'[c].sealed
  BY DEF KeyCurrent, Initialized
<1> DEFINE Goal == /\ main'[c].key = root'[c].generation
                   /\ main'[c].pod # 0 => ~main'[c].sealed
           SealSame == /\ main'[c].key = main[c].key
                       /\ main'[c].pod = main[c].pod
                       /\ main'[c].sealed = main[c].sealed
           RootSame == root'[c].generation = root[c].generation
<1>1. /\ main \in [Clusters -> MainServer] /\ root \in [Clusters -> RootServer]
      /\ \A o \in Operators : target[o] \in Clusters
      /\ rootStops \in Nat
  BY BaoAssumption DEF Typed, MainTyped, RootTyped, RunsTyped
<1>2. main'[c].key # 0
  BY DEF Initialized
<1>3. ASSUME rootStops = 0, main[c].key # 0
      PROVE  /\ main[c].key = root[c].generation
             /\ main[c].pod # 0 => ~main[c].sealed
  BY <1>3 DEF KeyCurrent, Initialized
<1>4. ASSUME rootStops' = rootStops, SealSame, RootSame PROVE Goal
  BY <1>2, <1>3, <1>4
<1>5. ASSUME UNCHANGED <<root, main, rootStops>> PROVE Goal
  BY <1>4, <1>5
<1> USE DEF world
<1>6. ASSUME NEW o \in Operators, InstallRoot(o) PROVE Goal
  <2>1. UNCHANGED <<main, rootStops>>
    BY <1>6 DEF InstallRoot
  <2>2. root[c].generation # 0 => RootSame
    BY <1>1, <1>6 DEF InstallRoot, RootServer
  <2>3. QED
    BY <1>2, <1>3, <2>1, <2>2
<1>7. ASSUME NEW o \in Operators, MountTransit(o) \/ CreateKey(o) \/ PutPolicy(o)
      PROVE  Goal
  <2>1. UNCHANGED <<main, rootStops>>
    BY <1>7 DEF MountTransit, CreateKey, PutPolicy
  <2>2. \/ root' = root
        \/ \E x : root' = [root EXCEPT ![target[o]].knows =
                             root[target[o]].knows \cup {x}]
    BY <1>1, <1>7 DEF MountTransit, CreateKey, PutPolicy
  <2>3. RootSame
    BY <1>1, <2>2, GenerationFrame
  <2>4. QED
    BY <1>4, <2>1, <2>3
<1>8. ASSUME NEW o \in Operators, InstallMain(o) \/ EnableAuth(o) \/ ConfigAuth(o)
      PROVE  Goal
  <2>1. UNCHANGED <<root, rootStops>>
    BY <1>8 DEF InstallMain, EnableAuth, ConfigAuth
  <2>2. \/ main' = [main EXCEPT ![target[o]].installed = TRUE]
        \/ \E x : main' = [main EXCEPT ![target[o]].auth =
                             main[target[o]].auth \cup {x}]
    BY <1>1, <1>8 DEF InstallMain, EnableAuth, ConfigAuth
  <2>3. SealSame
    BY <1>1, <2>2, SealFrame
  <2>4. QED
    BY <1>4, <2>1, <2>3
<1>9. ASSUME NEW o \in Operators, InitMain(o) PROVE Goal
  <2>1. UNCHANGED <<root, rootStops>>
    BY <1>9 DEF InitMain
  <2>2. CASE target[o] = c
    BY <1>1, <1>9, <2>1, <2>2 DEF InitMain, MainServer
  <2>3. CASE target[o] # c
    <3>1. main'[c] = main[c]
      BY <1>1, <1>9, <2>3 DEF InitMain
    <3>2. QED
      BY <1>4, <2>1, <3>1
  <2>4. QED
    BY <2>2, <2>3
<1>10. ASSUME NEW d \in Clusters, RootRestart(d) PROVE Goal
  <2>1. rootStops' # 0
    BY <1>1, <1>10 DEF RootRestart
  <2>2. QED
    BY <2>1
<1>11. ASSUME NEW d \in Clusters, MainStop(d) PROVE Goal
  <2>1. UNCHANGED <<root, rootStops>>
    BY <1>11 DEF MainStop
  <2>2. CASE d = c
    BY <1>1, <1>2, <1>3, <1>11, <2>1, <2>2 DEF MainStop, MainServer
  <2>3. CASE d # c
    <3>1. main'[c] = main[c]
      BY <1>1, <1>11, <2>3 DEF MainStop
    <3>2. QED
      BY <1>4, <2>1, <3>1
  <2>4. QED
    BY <2>2, <2>3
<1>12. ASSUME NEW d \in Clusters, MainStart(d) PROVE Goal
  <2>1. UNCHANGED <<root, rootStops>>
    BY <1>12 DEF MainStart
  <2>2. CASE d = c
    <3>1. main'[c].key = main[c].key
      BY <1>1, <1>12, <2>2 DEF MainStart, MainServer
    <3>2. main'[c].sealed = (main[c].sealed /\ main[c].key # root[c].generation)
      BY <1>1, <1>12, <2>2 DEF MainStart, MainServer
    <3>3. QED
      BY <1>2, <1>3, <2>1, <3>1, <3>2
  <2>3. CASE d # c
    <3>1. main'[c] = main[c]
      BY <1>1, <1>12, <2>3 DEF MainStart
    <3>2. QED
      BY <1>4, <2>1, <3>1
  <2>4. QED
    BY <2>2, <2>3
<1>13. ASSUME NEW o \in Operators, HelmKilled(o) PROVE Goal
  <2>1. rootStops' = rootStops
    BY <1>13 DEF HelmKilled
  <2>2. \/ main' = main
        \/ main' = [main EXCEPT ![target[o]].installed = TRUE]
    BY <1>13 DEF HelmKilled
  <2>3. SealSame
    BY <1>1, <2>2, SealFrame
  <2>4. \/ root' = root
        \/ root' = [root EXCEPT ![target[o]].generation = IF @ = 0 THEN 1 ELSE @]
    BY <1>13 DEF HelmKilled
  <2>5. root[c].generation # 0 => RootSame
    BY <1>1, <2>4 DEF RootServer
  <2>6. root[c].generation # 0
    <3>1. main[c].key # 0
      BY <1>2, <2>3
    <3>2. main[c].key = root[c].generation
      BY <1>3, <2>1, <3>1
    <3>3. QED
      BY <3>1, <3>2
  <2>7. QED
    BY <1>4, <2>1, <2>3, <2>5, <2>6
<1>14. QED
  BY <1>5, <1>6, <1>7, <1>8, <1>9, <1>10, <1>11, <1>12, <1>13
     DEF Next, DeployStep, StartDeploy, ForwardRoot, CreateUnsealToken,
         DeleteUnsealSecret, CreateUnsealSecret, ForwardMain, InitStatus, SaveLocal,
         DeleteCredSecret, CreateCredSecret, ReadToken, ListAuth, Refuse, Fault,
         Expire, vars

(* Unless the root server restarts by itself, a main server that is up is  *)
(* not sealed once it is initialised, however many runs upgrade the root   *)
(* server and replace the unseal token (deploy.go:53 to deploy.go:147).    *)
THEOREM NeverSealedWhenUp == Spec => []UnsealedWhenUp
<1>1. Init => KeyCurrent
  BY DEF Init, KeyCurrent, Initialized
<1>2. KeyCurrent => UnsealedWhenUp
  BY DEF KeyCurrent, UnsealedWhenUp
<1>3. QED
  BY <1>1, <1>2, KeyStep, TypedInvariant, PTL DEF Spec

-----------------------------------------------------------------------------
(* The root token. *)

KeySame(c) == main'[c].key = 0 <=> main[c].key = 0

(* A step that neither saves a token nor gives one out. *)
Quiet ==
  /\ UNCHANGED <<credSecret, saveFaults>>
  /\ \A c \in Clusters : KeySame(c)
  /\ \A o \in Operators :
       pc[o] \in Saving \/ pc'[o] \in Saving =>
         pc'[o] = pc[o] /\ target'[o] = target[o] /\ rootToken'[o] = rootToken[o]

Saves(o) ==
  \/ InitMain(o) \/ SaveLocal(o) \/ DeleteCredSecret(o) \/ CreateCredSecret(o)
  \/ pc[o] \in Saving /\ Fault(o)

(* What every other call and event leaves alone. *)
LEMMA TokenSteps == Typed /\ [Next]_vars => Quiet \/ \E o \in Operators : Saves(o)
<1> SUFFICES ASSUME Typed, [Next]_vars, ~ \E o \in Operators : Saves(o) PROVE Quiet
  OBVIOUS
<1> DEFINE RunsSame ==
             \A p \in Operators :
               pc[p] \in Saving \/ pc'[p] \in Saving =>
                 pc'[p] = pc[p] /\ target'[p] = target[p] /\ rootToken'[p] = rootToken[p]
           KeysSame == \A c \in Clusters : KeySame(c)
<1>1. /\ pc \in [Operators -> {"idle"} \cup Labels]
      /\ target \in [Operators -> Clusters]
      /\ rootToken \in [Operators -> Tokens]
      /\ main \in [Clusters -> MainServer]
  BY DEF Typed, RunsTyped, MainTyped
<1>2. ASSUME NEW c \in Clusters, NEW a,
             \/ main' = [main EXCEPT ![c].installed = TRUE]
             \/ main' = [main EXCEPT ![c].auth = a]
      PROVE  KeysSame
  BY <1>1, <1>2, SealFrame DEF KeySame
<1>3. UNCHANGED main => KeysSame
  BY DEF KeySame
<1> USE DEF secrets, local, spent, Goto, Exit
<1>4. ASSUME NEW o \in Operators, NEW c \in Clusters, StartDeploy(o, c) PROVE Quiet
  <2>1. RunsSame
    BY <1>1, <1>4 DEF StartDeploy, Saving
  <2>2. QED
    BY <1>3, <1>4, <2>1 DEF StartDeploy, Quiet
<1>5. ASSUME NEW o \in Operators,
             \/ InstallRoot(o) \/ ForwardRoot(o) \/ MountTransit(o) \/ CreateKey(o)
             \/ PutPolicy(o) \/ CreateUnsealToken(o) \/ DeleteUnsealSecret(o)
             \/ CreateUnsealSecret(o) \/ ForwardMain(o) \/ InitStatus(o)
      PROVE  Quiet
  <2>1. /\ UNCHANGED <<main, credSecret, target, rootToken>>
        /\ pc[o] \notin Saving /\ \E l : l \notin Saving /\ pc' = [pc EXCEPT ![o] = l]
    BY <1>5 DEF InstallRoot, ForwardRoot, MountTransit, CreateKey, PutPolicy,
       CreateUnsealToken, DeleteUnsealSecret, CreateUnsealSecret, ForwardMain,
       InitStatus, Saving
  <2>2. saveFaults' = saveFaults
    BY <1>5 DEF InstallRoot, ForwardRoot, MountTransit, CreateKey, PutPolicy,
       CreateUnsealToken, DeleteUnsealSecret, CreateUnsealSecret, ForwardMain,
       InitStatus, SpendFault, Saving
  <2>3. RunsSame
    BY <1>1, <2>1
  <2>4. QED
    BY <1>3, <2>1, <2>2, <2>3 DEF Quiet
<1>6. ASSUME NEW o \in Operators, ReadToken(o) \/ ListAuth(o)
      PROVE  Quiet
  <2>1. RunsSame
    BY <1>1, <1>6 DEF ReadToken, ListAuth, Saving
  <2>2. QED
    BY <1>3, <1>6, <2>1 DEF ReadToken, ListAuth, Quiet
<1>7. ASSUME NEW o \in Operators, InstallMain(o) \/ EnableAuth(o) \/ ConfigAuth(o)
      PROVE  Quiet
  <2>1. RunsSame
    BY <1>1, <1>7 DEF InstallMain, EnableAuth, ConfigAuth, Saving
  <2>2. \/ main' = [main EXCEPT ![target[o]].installed = TRUE]
        \/ \E x : main' = [main EXCEPT ![target[o]].auth =
                             main[target[o]].auth \cup {x}]
    BY <1>1, <1>7 DEF InstallMain, EnableAuth, ConfigAuth
  <2>3. KeysSame
    BY <1>1, <1>2, <2>2
  <2>4. QED
    BY <1>7, <2>1, <2>3 DEF InstallMain, EnableAuth, ConfigAuth, Quiet
<1>8. ASSUME NEW o \in Operators, Refuse(o) \/ Fault(o) PROVE Quiet
  <2>1. pc[o] \notin Saving
    BY <1>8 DEF Refuse, Saves, Saving
  <2>2. RunsSame
    BY <1>1, <1>8, <2>1 DEF Refuse, Fault, Saving
  <2>3. saveFaults' = saveFaults
    BY <1>8, <2>1 DEF Refuse, Fault, SpendFault
  <2>4. UNCHANGED <<main, credSecret>>
    BY <1>8 DEF Refuse, Fault
  <2>5. QED
    BY <1>3, <2>2, <2>3, <2>4 DEF Quiet
<1>9. ASSUME NEW c \in Clusters, RootRestart(c) PROVE Quiet
  BY <1>3, <1>9 DEF RootRestart, Quiet
<1>10. ASSUME NEW c \in Clusters, MainStop(c) \/ MainStart(c) PROVE Quiet
  <2>1. ASSUME NEW p, NEW s, main' = [main EXCEPT ![c].pod = p, ![c].sealed = s]
        PROVE  KeysSame
    BY <1>1, <2>1 DEF MainServer, KeySame
  <2>2. KeysSame
    BY <1>10, <2>1 DEF MainStop, MainStart
  <2>3. QED
    BY <1>10, <2>2 DEF MainStop, MainStart, Quiet
<1>11. CASE UNCHANGED vars
  BY <1>3, <1>11 DEF vars, Quiet
<1>12. ASSUME NEW o \in Operators, HelmKilled(o) PROVE Quiet
  <2>1. pc[o] \notin Saving
    BY <1>12 DEF HelmKilled, Saving
  <2>2. RunsSame
    BY <1>1, <1>12, <2>1 DEF HelmKilled, Saving
  <2>3. UNCHANGED <<credSecret, saveFaults>>
    BY <1>12, <2>1 DEF HelmKilled, SpendFault
  <2>4. \/ UNCHANGED main
        \/ main' = [main EXCEPT ![target[o]].installed = TRUE]
    BY <1>12 DEF HelmKilled
  <2>5. KeysSame
    BY <1>1, <1>2, <1>3, <2>4
  <2>6. QED
    BY <2>2, <2>3, <2>5 DEF Quiet
<1>13. ASSUME NEW c \in Clusters, Expire(c) PROVE Quiet
  BY <1>3, <1>13 DEF Expire, Quiet
<1>14. QED
  BY <1>4, <1>5, <1>6, <1>7, <1>8, <1>9, <1>10, <1>11, <1>12, <1>13
     DEF Next, DeployStep, Saves

(* How a run's saving goes, as the token sees it: the run is given it,     *)
(* carries it on, puts it into the secret if that is empty, or drops it.   *)
Given(o) ==
  /\ pc[o] \notin Saving /\ pc'[o] = "saveLocal"
  /\ main[target[o]].key = 0 /\ main'[target[o]].key # 0
  /\ rootToken'[o] = target[o]
  /\ UNCHANGED <<credSecret, saveFaults>>

Carries(o) ==
  /\ pc[o] \in Saving /\ pc'[o] \in Saving
  /\ KeySame(target[o])
  /\ rootToken'[o] = rootToken[o]
  /\ credSecret'[target[o]] \in {credSecret[target[o]], NoToken}
  /\ saveFaults' \in {saveFaults, saveFaults + 1}
  /\ pc'[o] = "createCred" /\ saveFaults' = 0 => credSecret'[target[o]] = NoToken

Puts(o) ==
  /\ pc[o] = "createCred" /\ pc'[o] \notin Saving
  /\ KeySame(target[o])
  /\ saveFaults' = saveFaults
  /\ IF credSecret[target[o]] = NoToken
     THEN credSecret'[target[o]] = rootToken[o]
     ELSE credSecret'[target[o]] = credSecret[target[o]]

Drops(o) ==
  /\ pc[o] \in Saving /\ pc'[o] \notin Saving
  /\ KeySame(target[o])
  /\ saveFaults' = saveFaults + 1
  /\ credSecret'[target[o]] = credSecret[target[o]]

OthersSame(o) ==
  /\ target' = target
  /\ \A p \in Operators \ {o} : pc'[p] = pc[p] /\ rootToken'[p] = rootToken[p]
  /\ \A c \in Clusters \ {target[o]} :
       credSecret'[c] = credSecret[c] /\ KeySame(c)

LEMMA SaveKinds ==
  ASSUME Typed, NEW o \in Operators, Saves(o)
  PROVE  OthersSame(o) /\ (Given(o) \/ Carries(o) \/ Puts(o) \/ Drops(o))
<1>1. /\ pc \in [Operators -> {"idle"} \cup Labels]
      /\ target \in [Operators -> Clusters]
      /\ rootToken \in [Operators -> Tokens]
      /\ credSecret \in [Clusters -> Tokens]
      /\ main \in [Clusters -> MainServer]
      /\ saveFaults \in Nat
  BY BaoAssumption DEF Typed, RunsTyped, MainTyped
<1>2. target[o] \in Clusters
  BY <1>1
<1>3. UNCHANGED main => \A c \in Clusters : KeySame(c)
  BY DEF KeySame
<1> USE DEF secrets, local, spent, Goto, Exit
<1>4. ASSUME InitMain(o) PROVE OthersSame(o) /\ Given(o)
  <2> DEFINE k == root[target[o]].generation
  <2>1. k # 0 /\ main[target[o]].key = 0
    BY <1>1, <1>4 DEF InitMain, CanInit, Typed, RootInstalled
  <2>2. main' = [main EXCEPT ![target[o]].key = k, ![target[o]].sealed = FALSE]
    BY <1>4 DEF InitMain
  <2> HIDE DEF k
  <2>3. main'[target[o]].key = k /\ \A c \in Clusters \ {target[o]} : main'[c] = main[c]
    BY <1>1, <1>2, <2>2 DEF MainServer
  <2>4. OthersSame(o)
    BY <1>1, <1>2, <1>4, <2>3 DEF InitMain, OthersSame, KeySame
  <2>5. Given(o)
    BY <1>1, <1>2, <1>4, <2>1, <2>3 DEF InitMain, Given, Saving
  <2>6. QED
    BY <2>4, <2>5
<1>5. ASSUME SaveLocal(o) PROVE OthersSame(o) /\ Carries(o)
  <2>1. OthersSame(o)
    BY <1>1, <1>3, <1>5 DEF SaveLocal, OthersSame
  <2>2. saveFaults' \in {saveFaults, saveFaults + 1}
    BY <1>5 DEF SaveLocal, SpendFault
  <2>3. Carries(o)
    BY <1>1, <1>2, <1>3, <1>5, <2>2 DEF SaveLocal, Carries, Saving
  <2>4. QED
    BY <2>1, <2>3
<1>6. ASSUME DeleteCredSecret(o) PROVE OthersSame(o) /\ Carries(o)
  <2>1. \/ credSecret' = [credSecret EXCEPT ![target[o]] = NoToken]
           /\ saveFaults' = saveFaults
        \/ credSecret' = credSecret /\ saveFaults' = saveFaults + 1
    BY <1>6 DEF DeleteCredSecret, SpendFault, Saving
  <2>2. OthersSame(o)
    BY <1>1, <1>2, <1>3, <1>6, <2>1 DEF DeleteCredSecret, OthersSame
  <2>3. Carries(o)
    BY <1>1, <1>2, <1>3, <1>6, <2>1 DEF DeleteCredSecret, Carries, Saving
  <2>4. QED
    BY <2>2, <2>3
<1>7. ASSUME CreateCredSecret(o) PROVE OthersSame(o) /\ (Puts(o) \/ Drops(o))
  <2>1. \/ /\ credSecret[target[o]] = NoToken
           /\ credSecret' = [credSecret EXCEPT ![target[o]] = rootToken[o]]
           /\ saveFaults' = saveFaults
        \/ /\ credSecret[target[o]] # NoToken
           /\ UNCHANGED <<credSecret, saveFaults>>
        \/ credSecret' = credSecret /\ saveFaults' = saveFaults + 1
    BY <1>7 DEF CreateCredSecret, SpendFault, Saving
  <2>2. OthersSame(o)
    BY <1>1, <1>2, <1>3, <1>7, <2>1 DEF CreateCredSecret, OthersSame
  <2>3. pc[o] = "createCred" /\ pc'[o] \notin Saving /\ pc[o] \in Saving
    BY <1>1, <1>7 DEF CreateCredSecret, Saving
  <2>4. KeySame(target[o])
    BY <1>2, <1>3, <1>7 DEF CreateCredSecret
  <2>5. Puts(o) \/ Drops(o)
    BY <1>1, <1>2, <2>1, <2>3, <2>4 DEF Puts, Drops
  <2>6. QED
    BY <2>2, <2>5
<1>8. ASSUME pc[o] \in Saving, Fault(o) PROVE OthersSame(o) /\ Drops(o)
  <2>1. OthersSame(o)
    BY <1>1, <1>3, <1>8 DEF Fault, OthersSame
  <2>2. saveFaults' = saveFaults + 1
    BY <1>8 DEF Fault, SpendFault
  <2>3. KeySame(target[o])
    BY <1>2, <1>3, <1>8 DEF Fault
  <2>4. Drops(o)
    BY <1>1, <1>8, <2>2, <2>3 DEF Fault, Drops, Saving
  <2>5. QED
    BY <2>1, <2>4
<1>9. QED
  BY <1>4, <1>5, <1>6, <1>7, <1>8 DEF Saves

(* A run that saves a token has that of the server it initialised, which   *)
(* the secret does not have yet.                                           *)
SaverHasToken ==
  \A o \in Operators :
    pc[o] \in Saving => /\ Initialized(target[o])
                       /\ rootToken[o] = target[o]
                       /\ credSecret[target[o]] # target[o]

OneSaver ==
  \A o, p \in Operators :
    pc[o] \in Saving /\ pc[p] \in Saving /\ target[o] = target[p] => o = p

NoTokenBefore == \A c \in Clusters : ~Initialized(c) => credSecret[c] # c

ClearedFirst ==
  saveFaults = 0 =>
    \A o \in Operators : pc[o] = "createCred" => credSecret[target[o]] = NoToken

TokenSafe == SaverHasToken /\ OneSaver /\ NoTokenBefore /\ ClearedFirst /\ CredentialsKept

LEMMA QuietStep == Typed /\ TokenSafe /\ Quiet => TokenSafe'
<1> SUFFICES ASSUME Typed, TokenSafe, Quiet PROVE TokenSafe'
  OBVIOUS
<1>1. \A o \in Operators : target[o] \in Clusters
  BY DEF Typed, RunsTyped
<1> USE DEF TokenSafe, Quiet, KeySame, Initialized
<1>2. SaverHasToken'
  BY <1>1 DEF SaverHasToken
<1>3. OneSaver'
  BY DEF OneSaver
<1>4. NoTokenBefore'
  BY DEF NoTokenBefore
<1>5. ClearedFirst'
  BY DEF ClearedFirst, Saving
<1>6. CredentialsKept'
  BY DEF CredentialsKept
<1>7. QED
  BY <1>2, <1>3, <1>4, <1>5, <1>6

LEMMA SaveStep ==
  ASSUME Typed, TokenSafe, NEW o \in Operators, Saves(o)
  PROVE  TokenSafe'
<1> DEFINE c == target[o]
<1>1. OthersSame(o) /\ (Given(o) \/ Carries(o) \/ Puts(o) \/ Drops(o))
  BY SaveKinds
<1>2. /\ \A p \in Operators : target[p] \in Clusters
      /\ NoToken \notin Clusters /\ saveFaults \in Nat
  BY BaoAssumption DEF Typed, RunsTyped
<1>3. "createCred" \in Saving /\ "saveLocal" \in Saving /\ "createCred" # "saveLocal"
  BY DEF Saving
<1>4. /\ \A p \in Operators :
           pc[p] \in Saving => /\ main[target[p]].key # 0 /\ rootToken[p] = target[p]
                              /\ credSecret[target[p]] # target[p]
      /\ \A p, q \in Operators :
           pc[p] \in Saving /\ pc[q] \in Saving /\ target[p] = target[q] => p = q
      /\ \A d \in Clusters : main[d].key = 0 => credSecret[d] # d
      /\ saveFaults = 0 =>
           \A p \in Operators : pc[p] = "createCred" => credSecret[target[p]] = NoToken
      /\ saveFaults = 0 =>
           \A d \in Clusters :
             main[d].key # 0 /\ (\A p \in Operators : pc[p] \in Saving => target[p] # d)
               => credSecret[d] = d
  BY DEF TokenSafe, SaverHasToken, OneSaver, NoTokenBefore, ClearedFirst,
     CredentialsKept, Initialized
<1>5. saveFaults' = 0 => saveFaults = 0
  BY <1>1, <1>2 DEF Given, Carries, Puts, Drops
<1>6. \A d \in Clusters : main[d].key # 0 => main'[d].key # 0
  BY <1>1 DEF OthersSame, Given, Carries, Puts, Drops, KeySame
<1>7. \A p \in Operators \ {o} : pc'[p] \in Saving => pc[p] \in Saving /\ target[p] # c
  <2> SUFFICES ASSUME NEW p \in Operators \ {o}, pc'[p] \in Saving
               PROVE  pc[p] \in Saving /\ target[p] # c
    OBVIOUS
  <2>1. pc[p] \in Saving
    BY <1>1 DEF OthersSame
  <2>2. CASE Given(o)
    BY <1>4, <2>1, <2>2 DEF Given
  <2>3. CASE Carries(o) \/ Puts(o) \/ Drops(o)
    <3>1. pc[o] \in Saving
      BY <1>3, <2>3 DEF Carries, Puts, Drops
    <3>2. QED
      BY <1>4, <2>1, <3>1
  <2>4. QED
    BY <1>1, <2>1, <2>2, <2>3
<1>8. SaverHasToken'
  <2> SUFFICES ASSUME NEW p \in Operators, pc'[p] \in Saving
               PROVE  /\ main'[target[p]].key # 0 /\ rootToken'[p] = target[p]
                      /\ credSecret'[target[p]] # target[p]
    BY <1>1 DEF SaverHasToken, OthersSame, Initialized
  <2>1. CASE p = o
    <3>1. Given(o) \/ Carries(o)
      BY <1>1, <2>1 DEF Puts, Drops
    <3>2. main'[c].key # 0
      BY <1>2, <1>4, <1>6, <3>1 DEF Given, Carries
    <3>3. rootToken'[o] = c /\ credSecret'[c] # c
      BY <1>2, <1>4, <3>1 DEF Given, Carries
    <3>4. QED
      BY <2>1, <3>2, <3>3
  <2>2. CASE p # o
    <3>1. pc[p] \in Saving /\ target[p] # c /\ rootToken'[p] = rootToken[p]
      BY <1>1, <1>7, <2>2 DEF OthersSame
    <3>2. credSecret'[target[p]] = credSecret[target[p]]
      BY <1>1, <1>2, <3>1 DEF OthersSame
    <3>3. main'[target[p]].key # 0
      BY <1>2, <1>4, <1>6, <3>1
    <3>4. QED
      BY <1>4, <3>1, <3>2, <3>3
  <2>3. QED
    BY <2>1, <2>2
<1>9. OneSaver'
  BY <1>1, <1>4, <1>7 DEF OneSaver, OthersSame
<1>10. NoTokenBefore'
  <2> SUFFICES ASSUME NEW d \in Clusters, main'[d].key = 0 PROVE credSecret'[d] # d
    BY DEF NoTokenBefore, Initialized
  <2>1. main[d].key = 0 /\ credSecret[d] # d
    BY <1>4, <1>6
  <2>2. CASE d = c
    BY <1>1, <1>2, <1>3, <1>4, <2>1, <2>2 DEF Given, Carries, Puts, Drops
  <2>3. CASE d # c
    BY <1>1, <2>1, <2>3 DEF OthersSame
  <2>4. QED
    BY <2>2, <2>3
<1>11. ClearedFirst'
  <2> SUFFICES ASSUME NEW p \in Operators, saveFaults' = 0, pc'[p] = "createCred"
               PROVE  credSecret'[target[p]] = NoToken
    BY <1>1 DEF ClearedFirst, OthersSame
  <2>1. CASE p = o
    BY <1>1, <1>3, <2>1 DEF Given, Carries, Puts, Drops
  <2>2. CASE p # o
    BY <1>1, <1>2, <1>3, <1>4, <1>5, <1>7, <2>2 DEF OthersSame
  <2>3. QED
    BY <2>1, <2>2
<1>12. CredentialsKept'
  <2> SUFFICES ASSUME saveFaults' = 0, NEW d \in Clusters, main'[d].key # 0,
                      \A p \in Operators : pc'[p] \in Saving => target[p] # d
               PROVE  credSecret'[d] = d
    BY <1>1 DEF CredentialsKept, OthersSame, Initialized
  <2>1. CASE d = c
    <3>1. Puts(o)
      BY <1>1, <1>2, <1>3, <1>5, <2>1 DEF Given, Carries, Drops
    <3>2. QED
      BY <1>3, <1>4, <1>5, <2>1, <3>1 DEF Puts
  <2>2. CASE d # c
    <3>1. main[d].key # 0 /\ credSecret'[d] = credSecret[d]
      BY <1>1, <2>2 DEF OthersSame, KeySame
    <3>2. \A p \in Operators : pc[p] \in Saving => target[p] # d
      BY <1>1, <2>2 DEF OthersSame
    <3>3. QED
      BY <1>4, <1>5, <3>1, <3>2
  <2>3. QED
    BY <2>1, <2>2
<1>13. QED
  BY <1>8, <1>9, <1>10, <1>11, <1>12 DEF TokenSafe

LEMMA TokenInvariant == Spec => [](Typed /\ TokenSafe)
<1>1. Init => TokenSafe
  <2> SUFFICES ASSUME Init PROVE TokenSafe
    OBVIOUS
  <2>1. NoTokenBefore
    BY BaoAssumption DEF Init, NoTokenBefore
  <2>2. QED
    BY <2>1 DEF Init, TokenSafe, SaverHasToken, OneSaver, ClearedFirst,
       CredentialsKept, Saving, Initialized
<1>2. Typed /\ TokenSafe /\ [Next]_vars => TokenSafe'
  BY TokenSteps, QuietStep, SaveStep
<1>3. QED
  BY <1>1, <1>2, TypedInvariant, PTL DEF Spec

(* Unless a fault hits the run that saves it, the credentials secret of an *)
(* initialised server has its root token, whatever other runs do beside it *)
(* (deploy.go:240 to deploy.go:275).                                       *)
THEOREM CredentialsAreKept == Spec => []CredentialsKept
<1>1. TokenSafe => CredentialsKept
  BY DEF TokenSafe
<1>2. QED
  BY <1>1, TokenInvariant, PTL

-----------------------------------------------------------------------------
(* The root token as BaoToken has it. *)

LEMMA CustodyAt ==
  ASSUME NEW c \in Clusters
  PROVE  /\ Custody[c] = IF main[c].key = 0 THEN "unissued"
                         ELSE IF credSecret[c] = c THEN "stored"
                         ELSE IF Holders[c] # {} THEN "held" ELSE "lost"
         /\ Custody'[c] = IF main'[c].key = 0 THEN "unissued"
                          ELSE IF credSecret'[c] = c THEN "stored"
                          ELSE IF Holders'[c] # {} THEN "held" ELSE "lost"
BY DEF Custody, Initialized

LEMMA HoldersAt ==
  ASSUME NEW c \in Clusters
  PROVE  /\ Holders[c] = {o \in Operators : pc[o] \in Saving /\ target[o] = c}
         /\ Holders'[c] = {o \in Operators : pc'[o] \in Saving /\ target'[o] = c}
BY DEF Holders

(* What the abstract specification sees changes at one server only.        *)
LEMMA ViewChange ==
  ASSUME NEW c \in Clusters, NEW s, NEW h,
         \A d \in Clusters \ {c} : Holders'[d] = Holders[d] /\ Custody'[d] = Custody[d],
         Holders'[c] = h, Custody'[c] = s
  PROVE  Holders' = [Holders EXCEPT ![c] = h] /\ Custody' = [Custody EXCEPT ![c] = s]
<1>1. /\ Holders = [d \in Clusters |-> Holders[d]] /\ Holders' = [d \in Clusters |-> Holders'[d]]
  BY DEF Holders
<1>2. /\ Custody = [d \in Clusters |-> Custody[d]] /\ Custody' = [d \in Clusters |-> Custody'[d]]
  BY DEF Custody
<1>3. QED
  BY <1>1, <1>2

LEMMA ViewSame ==
  ASSUME \A d \in Clusters : Holders'[d] = Holders[d] /\ Custody'[d] = Custody[d]
  PROVE  UNCHANGED <<Custody, Holders>>
<1>1. /\ Holders = [d \in Clusters |-> Holders[d]] /\ Holders' = [d \in Clusters |-> Holders'[d]]
  BY DEF Holders
<1>2. /\ Custody = [d \in Clusters |-> Custody[d]] /\ Custody' = [d \in Clusters |-> Custody'[d]]
  BY DEF Custody
<1>3. QED
  BY <1>1, <1>2

LEMMA QuietView == Typed /\ Quiet => UNCHANGED Token!token
<1> SUFFICES ASSUME Typed, Quiet PROVE UNCHANGED Token!token
  OBVIOUS
<1>1. ASSUME NEW d \in Clusters PROVE Holders'[d] = Holders[d]
  <2>1. \A p \in Operators :
          pc'[p] \in Saving /\ target'[p] = d <=> pc[p] \in Saving /\ target[p] = d
    BY DEF Quiet
  <2>2. QED
    BY <2>1, HoldersAt
<1>2. ASSUME NEW d \in Clusters PROVE Custody'[d] = Custody[d]
  BY <1>1, CustodyAt DEF Quiet, KeySame
<1>3. UNCHANGED <<Custody, Holders, saveFaults>>
  BY <1>1, <1>2, ViewSame DEF Quiet
<1>4. QED
  BY <1>3 DEF Token!token

(* The run that saves is the holder; what it does is issuing, storing or   *)
(* losing the token, or a mishap.                                          *)
LEMMA SaveView ==
  ASSUME Typed, TokenSafe, NEW o \in Operators, Saves(o)
  PROVE  [Token!Next]_(Token!token)
<1> DEFINE c == target[o]
<1>1. OthersSame(o) /\ (Given(o) \/ Carries(o) \/ Puts(o) \/ Drops(o))
  BY SaveKinds
<1>2. /\ c \in Clusters /\ \A p \in Operators : target[p] \in Clusters
      /\ NoToken \notin Clusters /\ saveFaults \in Nat
  BY BaoAssumption DEF Typed, RunsTyped
<1>3. /\ \A p \in Operators :
           pc[p] \in Saving => /\ main[target[p]].key # 0 /\ rootToken[p] = target[p]
                              /\ credSecret[target[p]] # target[p]
      /\ \A p, q \in Operators :
           pc[p] \in Saving /\ pc[q] \in Saving /\ target[p] = target[q] => p = q
      /\ \A d \in Clusters : main[d].key = 0 => credSecret[d] # d
      /\ saveFaults = 0 =>
           \A p \in Operators : pc[p] = "createCred" => credSecret[target[p]] = NoToken
  BY DEF TokenSafe, SaverHasToken, OneSaver, NoTokenBefore, ClearedFirst, Initialized
<1>4. ASSUME NEW d \in Clusters \ {c} PROVE Holders'[d] = Holders[d] /\ Custody'[d] = Custody[d]
  <2>1. \A p \in Operators :
          pc'[p] \in Saving /\ target'[p] = d <=> pc[p] \in Saving /\ target[p] = d
    BY <1>1 DEF OthersSame
  <2>2. Holders'[d] = Holders[d]
    BY <2>1, HoldersAt
  <2>3. QED
    BY <1>1, <2>2, CustodyAt DEF OthersSame, KeySame
<1>5. "createCred" \in Saving /\ "saveLocal" \in Saving
  BY DEF Saving
<1>6. ASSUME pc[o] \in Saving PROVE Holders[c] = {o} /\ Custody[c] = "held"
  <2>1. Holders[c] = {o}
    BY <1>2, <1>3, <1>6, HoldersAt
  <2>2. QED
    BY <1>2, <1>3, <1>6, <2>1, CustodyAt
<1>7. ASSUME pc[o] \in Saving, pc'[o] \notin Saving PROVE Holders'[c] = {}
  BY <1>1, <1>2, <1>3, <1>7, HoldersAt DEF OthersSame
<1>8. CASE Given(o)
  <2>1. Custody[c] = "unissued"
    BY <1>2, <1>8, CustodyAt DEF Given
  <2>2. Holders'[c] = {o}
    BY <1>1, <1>2, <1>3, <1>5, <1>8, HoldersAt DEF OthersSame, Given
  <2>3. Custody'[c] = "held"
    BY <1>2, <1>3, <1>8, <2>2, CustodyAt DEF Given
  <2>4. Token!Issue(c, o)
    BY <1>2, <1>4, <1>8, <2>1, <2>2, <2>3, ViewChange DEF Given, Token!Issue, Token!Moves
  <2> HIDE DEF c
  <2>5. QED
    BY <1>2, <2>4 DEF Token!Next
<1>9. CASE Carries(o)
  <2>1. pc[o] \in Saving /\ pc'[o] \in Saving /\ target'[o] = c
    BY <1>1, <1>9 DEF Carries, OthersSame
  <2>2. Holders'[c] = {o}
    BY <1>1, <1>2, <1>3, <2>1, HoldersAt DEF OthersSame
  <2>3. credSecret'[c] # c /\ main'[c].key # 0
    BY <1>2, <1>3, <1>9, <2>1 DEF Carries, KeySame
  <2>4. Custody'[c] = "held"
    BY <1>2, <2>2, <2>3, CustodyAt
  <2>5. UNCHANGED <<Custody, Holders>>
    BY <1>4, <1>6, <2>1, <2>2, <2>4, ViewSame
  <2>6. saveFaults' \in {saveFaults, saveFaults + 1}
    BY <1>9 DEF Carries
  <2>7. QED
    BY <2>5, <2>6 DEF Token!Next, Token!Mishap, Token!token
<1>10. CASE Puts(o)
  <2>1. pc[o] \in Saving /\ pc'[o] \notin Saving /\ saveFaults' = saveFaults
    BY <1>5, <1>10 DEF Puts
  <2>2. main'[c].key # 0
    BY <1>2, <1>3, <1>10, <2>1 DEF Puts, KeySame
  <2>3. CASE credSecret[c] = NoToken
    <3>1. credSecret'[c] = c
      BY <1>3, <1>10, <2>1, <2>3 DEF Puts
    <3>2. Custody'[c] = "stored"
      BY <1>2, <2>2, <3>1, CustodyAt
    <3>3. Token!Store(c)
      BY <1>2, <1>4, <1>6, <1>7, <2>1, <3>2, ViewChange DEF Token!Store, Token!Moves
    <3> HIDE DEF c
    <3>4. QED
      BY <1>2, <3>3 DEF Token!Next
  <2>4. CASE credSecret[c] # NoToken
    <3>1. credSecret'[c] # c /\ saveFaults # 0
      BY <1>2, <1>3, <1>10, <2>1, <2>4 DEF Puts
    <3>2. Custody'[c] = "lost"
      BY <1>2, <1>7, <2>1, <2>2, <3>1, CustodyAt
    <3>3. saveFaults' \in {saveFaults, saveFaults + 1} \ {0}
      BY <2>1, <3>1
    <3>4. Token!Lose(c)
      BY <1>2, <1>4, <1>6, <1>7, <2>1, <3>2, <3>3, ViewChange
         DEF Token!Lose, Token!Moves
    <3> HIDE DEF c
    <3>5. QED
      BY <1>2, <3>4 DEF Token!Next
  <2>5. QED
    BY <2>3, <2>4
<1>11. CASE Drops(o)
  <2>1. pc[o] \in Saving /\ pc'[o] \notin Saving /\ saveFaults' = saveFaults + 1
    BY <1>11 DEF Drops
  <2>2. main'[c].key # 0 /\ credSecret'[c] # c
    BY <1>2, <1>3, <1>11, <2>1 DEF Drops, KeySame
  <2>3. Custody'[c] = "lost"
    BY <1>2, <1>7, <2>1, <2>2, CustodyAt
  <2>4. saveFaults' \in {saveFaults, saveFaults + 1} \ {0}
    BY <1>2, <2>1
  <2>5. Token!Lose(c)
    BY <1>2, <1>4, <1>6, <1>7, <2>1, <2>3, <2>4, ViewChange
       DEF Token!Lose, Token!Moves
  <2> HIDE DEF c
  <2>6. QED
    BY <1>2, <2>5 DEF Token!Next
<1>12. QED
  BY <1>1, <1>8, <1>9, <1>10, <1>11

(* The deployment implements BaoToken: the root token is given out once,   *)
(* to one run, although InitStatus at deploy.go:229 may be stale when Init *)
(* is called; the run stores it, or a mishap loses it; and what is stored  *)
(* is neither deleted nor replaced (deploy.go:240 to deploy.go:275).       *)
THEOREM ImplementsToken == Spec => TokenSpec
<1>1. Init => Token!Init
  <2> SUFFICES ASSUME Init PROVE Token!Init
    OBVIOUS
  <2>1. \A c \in Clusters : main[c].key = 0
    BY DEF Init
  <2>2. Custody = [c \in Clusters |-> "unissued"]
    BY <2>1 DEF Custody, Initialized
  <2>3. Holders = [c \in Clusters |-> {}]
    BY DEF Init, Holders, Saving
  <2>4. QED
    BY <2>2, <2>3 DEF Init, Token!Init
<1>2. Typed /\ TokenSafe /\ [Next]_vars => [Token!Next]_(Token!token)
  BY TokenSteps, QuietView, SaveView
<1>3. QED
  BY <1>1, <1>2, TokenInvariant, PTL DEF Spec, TokenSpec, Token!Spec

-----------------------------------------------------------------------------
(* The readiness of a server that is not initialised. *)

(* No run gets through to a main server that is not initialised. *)
NothingInitialized ==
  /\ \A c \in Clusters : ~Initialized(c)
  /\ \A o \in Operators : link[o] # "main"

(* deploy.go:207 waits for the main server's pod to be Ready before Init   *)
(* is called.  With a readiness probe that a server passes only once it is *)
(* initialised no server ever is, however often the deployment is repeated.*)
THEOREM WaitsForReadyBeforeInit ==
  ASSUME ReadyUninitialised = FALSE
  PROVE  Spec => [](\A c \in Clusters : ~Initialized(c))
<1>1. Init => NothingInitialized
  BY DEF Init, NothingInitialized, Initialized
<1>2. Typed /\ NothingInitialized /\ [Next]_vars => NothingInitialized'
  <2> SUFFICES ASSUME Typed, NothingInitialized, [Next]_vars
               PROVE  NothingInitialized'
    OBVIOUS
  <2> DEFINE KeysSame == \A c \in Clusters : main'[c].key = main[c].key
             LinksSame == \A o \in Operators : link'[o] \in {link[o], "none", "root"}
  <2>1. /\ main \in [Clusters -> MainServer]
        /\ link \in [Operators -> {"none", "root", "main"}]
        /\ \A o \in Operators : target[o] \in Clusters
    BY DEF Typed, MainTyped, RunsTyped
  <2>2. ASSUME KeysSame, LinksSame PROVE NothingInitialized'
    BY <2>2 DEF NothingInitialized, Initialized
  <2>3. ASSUME NEW c \in Clusters, NEW a,
               \/ main' = [main EXCEPT ![c].installed = TRUE]
               \/ main' = [main EXCEPT ![c].auth = a]
        PROVE  KeysSame
    BY <2>1, <2>3, SealFrame
  <2> USE DEF Exit
  <2>4. ASSUME NEW o \in Operators,
               \/ \E c \in Clusters : StartDeploy(o, c)
               \/ InstallRoot(o) \/ MountTransit(o) \/ CreateKey(o) \/ PutPolicy(o)
               \/ CreateUnsealToken(o) \/ DeleteUnsealSecret(o)
               \/ CreateUnsealSecret(o) \/ InitStatus(o) \/ SaveLocal(o)
               \/ DeleteCredSecret(o) \/ CreateCredSecret(o) \/ ReadToken(o)
               \/ ListAuth(o) \/ Refuse(o) \/ Fault(o) \/ ForwardRoot(o)
        PROVE  NothingInitialized'
    <3>1. UNCHANGED main /\ LinksSame
      BY <2>1, <2>4 DEF StartDeploy, InstallRoot, MountTransit, CreateKey,
         PutPolicy, CreateUnsealToken, DeleteUnsealSecret, CreateUnsealSecret,
         InitStatus, SaveLocal, DeleteCredSecret, CreateCredSecret, ReadToken,
         ListAuth, Refuse, Fault, ForwardRoot
    <3>2. QED
      BY <2>2, <3>1
  <2>5. ASSUME NEW o \in Operators,
               InstallMain(o) \/ EnableAuth(o) \/ ConfigAuth(o) \/ HelmKilled(o)
        PROVE  NothingInitialized'
    <3>1. LinksSame
      BY <2>1, <2>5 DEF InstallMain, EnableAuth, ConfigAuth, HelmKilled
    <3>2. \/ UNCHANGED main
          \/ main' = [main EXCEPT ![target[o]].installed = TRUE]
          \/ \E x : main' = [main EXCEPT ![target[o]].auth =
                               main[target[o]].auth \cup {x}]
      BY <2>1, <2>5 DEF InstallMain, EnableAuth, ConfigAuth, HelmKilled
    <3>3. KeysSame
      BY <2>1, <2>3, <3>2
    <3>4. QED
      BY <2>2, <3>1, <3>3
  <2>6. ASSUME NEW o \in Operators, ForwardMain(o) PROVE FALSE
    BY <2>1, <2>6 DEF ForwardMain, MainReady, NothingInitialized
  <2>7. ASSUME NEW o \in Operators, InitMain(o) PROVE FALSE
    BY <2>7 DEF InitMain, CanInit, NothingInitialized
  <2>8. ASSUME NEW c \in Clusters,
               RootRestart(c) \/ MainStop(c) \/ MainStart(c) \/ Expire(c)
        PROVE  NothingInitialized'
    <3>1. ASSUME NEW p, NEW s, main' = [main EXCEPT ![c].pod = p, ![c].sealed = s]
          PROVE  KeysSame
      BY <2>1, <3>1 DEF MainServer
    <3>2. KeysSame
      BY <2>8, <3>1 DEF RootRestart, MainStop, MainStart, Expire
    <3>3. LinksSame
      BY <2>1, <2>8 DEF RootRestart, MainStop, MainStart, Expire, DropLinks
    <3>4. QED
      BY <2>2, <3>2, <3>3
  <2>9. CASE UNCHANGED vars
    BY <2>2, <2>9 DEF vars
  <2>10. QED
    BY <2>4, <2>5, <2>6, <2>7, <2>8, <2>9 DEF Next, DeployStep
<1>3. NothingInitialized => \A c \in Clusters : ~Initialized(c)
  BY DEF NothingInitialized
<1>4. QED
  BY <1>1, <1>2, <1>3, TypedInvariant, PTL DEF Spec

-----------------------------------------------------------------------------
(* Repeating the deployment. *)

(* Everything proved of Spec holds while the deployment is repeated: what  *)
(* an operator repeats is DeployAndConfigure on the same cluster.          *)
THEOREM RetriesAreDeployments == RetrySpec => Spec
<1>1. Init => Typed
  BY InitTyped
<1>2. Typed /\ [RetryNext]_vars => [Next]_vars
  <2> SUFFICES ASSUME Typed, RetryNext PROVE Next
    OBVIOUS
  <2>1. ASSUME NEW o \in Operators, Rerun(o) PROVE Next
    BY <2>1 DEF Rerun, Next, Typed, RunsTyped
  <2>2. ASSUME NEW c \in Clusters,
               RootRestart(c) \/ MainStop(c) \/ MainStart(c) \/ Expire(c)
        PROVE  Next
    BY <2>2 DEF Next
  <2>3. QED
    BY <2>1, <2>2 DEF RetryNext
<1>3. Typed /\ [Next]_vars => Typed'
  BY TypedStep
<1>4. QED
  BY <1>1, <1>2, <1>3, PTL DEF RetrySpec, Spec

=============================================================================
