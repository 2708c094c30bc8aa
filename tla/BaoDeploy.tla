----------------------------- MODULE BaoDeploy -----------------------------
(***************************************************************************)
(* bao.DeployAndConfigure, the last phase of `bifrost init`: two OpenBao   *)
(* servers in the cluster, the second of which is unsealed by the first.   *)
(*                                                                         *)
(*   root server    helm release openbao-root, dev mode: everything it     *)
(*                  knows is in the memory of its pod                      *)
(*   main server    helm release openbao, data on a volume; its pod takes  *)
(*                  a token for the root server from the Kubernetes Secret *)
(*                  openbao-transit-unseal when it starts, and unseals its *)
(*                  data with the root server's transit key                *)
(*                                                                         *)
(* A run is a process on an operator's machine; it keeps the main server's *)
(* root token in ~/.bifrost/bao-token there and in the Kubernetes Secret   *)
(* openbao-init-credentials.  One action is one call.  Helm, the kubelet   *)
(* and both servers are external, modelled as the calls use them; helm     *)
(* upgrade with the values of the last run restarts nothing.               *)
(*                                                                         *)
(* A transit key, and a token for it, is represented by the generation of  *)
(* the root server that issued it: how often its pod has started.  A root  *)
(* token of a main server is represented by the cluster it belongs to.     *)
(* The token for the root server is good for 24 hours after its last       *)
(* renewal, and what renews it is a main server that has started with it.  *)
(***************************************************************************)
EXTENDS Naturals

CONSTANTS
  Operators,      \* machines that bifrost runs on, each with its home
  Clusters,       \* clusters that --kubeconfig may point to
  NoToken,        \* no token, or no file or secret with one
  OldToken,       \* root token of a server that is gone
  EmptyFile,      \* a bao-token file with nothing in it
  ReadyUninitialised, \* the chart's readiness probe accepts a main server
                      \* that is not initialised (deploy.go:207 needs it to)
  MaxGeneration,  \* bound: starts of a root server
  MaxRootStops,   \* bound: root servers that restart by themselves
  MaxRestarts,    \* bound: restarts of main servers
  MaxFaults,      \* bound: calls that fail although nothing refuses them
  MaxSaveFaults   \* bound: the same, while the root token is being saved

ASSUME BaoAssumption ==
  /\ {NoToken, OldToken, EmptyFile} \cap Clusters = {}
  /\ NoToken # OldToken /\ NoToken # EmptyFile /\ OldToken # EmptyFile
  /\ ReadyUninitialised \in BOOLEAN
  /\ MaxGeneration \in Nat \ {0} /\ MaxRootStops \in Nat
  /\ MaxRestarts \in Nat /\ MaxFaults \in Nat /\ MaxSaveFaults \in Nat

Generations == 0 .. MaxGeneration
Tokens      == Clusters \cup {NoToken, OldToken}

Saving == {"saveLocal", "deleteCred", "createCred"}
Labels == {"installRoot", "forwardRoot", "mount", "key", "policy", "token",
           "deleteSecret", "createSecret", "installMain", "forwardMain",
           "initStatus", "init", "readToken", "listAuth", "enableAuth",
           "configAuth"} \cup Saving

VARIABLES
  root,        \* per cluster: generation of the root server and what it knows
  unsealToken, \* Secret openbao-transit-unseal: a generation, 0 for none
  lease,       \* of that token: "used" by the pod that is up, and renewed,
               \* "unused", or "expired"
  main,        \* per cluster: the main server
  credSecret,  \* Secret openbao-init-credentials
  homeToken,   \* ~/.bifrost/bao-token, per operator
  pc,          \* next call of each run
  target,      \* the cluster a run works on
  link,        \* the server the run's port-forward leads to
  transitTok,  \* local: transitToken
  rootToken,   \* local: rootToken
  outcome,     \* how the operator's last run ended, "none" during a run
  pending,     \* releases that a killed helm has left pending, per cluster
  rootStops, restarts, faults, saveFaults   \* so far

secrets == <<unsealToken, lease, credSecret>>
local   == <<target, transitTok, rootToken>>
world   == <<pending, rootStops, restarts>>
spent   == <<faults, saveFaults>>
vars    == <<root, main, secrets, homeToken, pc, link, local, outcome,
             world, spent>>

(* key: generation whose transit key seals the data, 0 before Init;        *)
(* pod: generation of the token the running pod has, 0 if it is not up.    *)
MainServer == [installed : BOOLEAN, pod : Generations, key : Generations,
               sealed : BOOLEAN, auth : SUBSET {"enabled", "configured"}]

RootServer == [generation : Generations,
               knows : SUBSET {"transit", "key", "policy"}]

(* A server that is not initialised is sealed, and so is one that is down. *)
WellFormed(m) ==
  /\ m.pod # 0 => m.installed
  /\ m.key = 0 \/ m.pod = 0 => m.sealed

TypeOK ==
  /\ root \in [Clusters -> RootServer]
  /\ main \in [Clusters -> MainServer]
  /\ \A c \in Clusters : WellFormed(main[c])
  /\ unsealToken \in [Clusters -> Generations]
  /\ lease \in [Clusters -> {"used", "unused", "expired"}]
  /\ pending \in [Clusters -> SUBSET {"root", "main"}]
  /\ credSecret \in [Clusters -> Tokens]
  /\ homeToken \in [Operators -> Tokens \cup {EmptyFile}]
  /\ pc \in [Operators -> {"idle"} \cup Labels]
  /\ target \in [Operators -> Clusters]
  /\ link \in [Operators -> {"none", "root", "main"}]
  /\ transitTok \in [Operators -> Generations]
  /\ rootToken \in [Operators -> Tokens]
  /\ outcome \in [Operators -> {"none", "ok", "err"}]
  /\ rootStops \in 0 .. MaxRootStops /\ restarts \in 0 .. MaxRestarts
  /\ faults \in 0 .. MaxFaults /\ saveFaults \in 0 .. MaxSaveFaults

(* Clusters without OpenBao.  Helm uninstall leaves the credentials secret, *)
(* which is not part of a release, and the file in the home directory.     *)
Init ==
  /\ root = [c \in Clusters |-> [generation |-> 0, knows |-> {}]]
  /\ main = [c \in Clusters |-> [installed |-> FALSE, pod |-> 0, key |-> 0,
                                 sealed |-> TRUE, auth |-> {}]]
  /\ unsealToken = [c \in Clusters |-> 0]
  /\ lease = [c \in Clusters |-> "unused"]
  /\ credSecret \in [Clusters -> {NoToken, OldToken}]
  /\ homeToken \in [Operators -> {NoToken, OldToken}]
  /\ pc = [o \in Operators |-> "idle"]
  /\ \E c \in Clusters : target = [o \in Operators |-> c]
  /\ link = [o \in Operators |-> "none"]
  /\ transitTok = [o \in Operators |-> 0]
  /\ rootToken = [o \in Operators |-> NoToken]
  /\ outcome = [o \in Operators |-> "none"]
  /\ pending = [c \in Clusters |-> {}]
  /\ rootStops = 0 /\ restarts = 0 /\ faults = 0 /\ saveFaults = 0

-----------------------------------------------------------------------------
(* Process bookkeeping. *)

Goto(o, label) == pc' = [pc EXCEPT ![o] = label]

(* Deferred calls close the port-forwards. *)
Exit(o, result) ==
  /\ Goto(o, "idle")
  /\ outcome' = [outcome EXCEPT ![o] = result]
  /\ link' = [link EXCEPT ![o] = "none"]
  /\ transitTok' = [transitTok EXCEPT ![o] = 0]
  /\ rootToken' = [rootToken EXCEPT ![o] = NoToken]
  /\ UNCHANGED target

(* A fault of o's next call. *)
SpendFault(o) ==
  \/ /\ pc[o] \notin Saving
     /\ faults < MaxFaults /\ faults' = faults + 1
     /\ UNCHANGED saveFaults
  \/ /\ pc[o] \in Saving
     /\ saveFaults < MaxSaveFaults /\ saveFaults' = saveFaults + 1
     /\ UNCHANGED faults

(* A restarted pod takes the port-forwards to it down. *)
DropLinks(c, server) ==
  link' = [o \in Operators |->
             IF target[o] = c /\ link[o] = server THEN "none" ELSE link[o]]

Initialized(c) == main[c].key # 0

(* The main server's pod can start: it has a token that lets it use a key. *)
CanStart(c) ==
  /\ main[c].installed
  /\ unsealToken[c] # 0 /\ unsealToken[c] = root[c].generation
  /\ lease[c] # "expired"
  /\ {"key", "policy"} \subseteq root[c].knows

(* The main server's pod is Ready: it is up, and sealed at most because it *)
(* has never been initialised.                                             *)
MainReady(c) ==
  /\ main[c].pod # 0
  /\ IF Initialized(c) THEN ~main[c].sealed ELSE ReadyUninitialised

(* The main server can reach the transit key now. *)
CanSeal(c) == main[c].pod = root[c].generation /\ "key" \in root[c].knows

(* The main server accepts the run's token. *)
Accepted(o) ==
  /\ link[o] = "main" /\ ~main[target[o]].sealed
  /\ rootToken[o] = target[o]

-----------------------------------------------------------------------------
(* The root server and the unseal token. *)

StartDeploy(o, c) ==
  /\ pc[o] = "idle"
  /\ target' = [target EXCEPT ![o] = c]
  /\ Goto(o, "installRoot")
  /\ outcome' = [outcome EXCEPT ![o] = "none"]
  /\ UNCHANGED <<root, main, secrets, homeToken, link, transitTok, rootToken,
                 world, spent>>

(* Variant: every run gives the root server a new root token, so that helm *)
(* upgrade restarts its pod.                                               *)
InstallRootAnew(o) ==
  /\ pc[o] = "installRoot"
  /\ "root" \notin pending[target[o]]
  /\ \/ /\ root[target[o]].generation < MaxGeneration
        /\ root' = [root EXCEPT ![target[o]] =
                      [generation |-> @.generation + 1, knows |-> {}]]
     \/ root[target[o]].generation = MaxGeneration /\ UNCHANGED root
  /\ Goto(o, "forwardRoot")
  /\ UNCHANGED <<main, secrets, homeToken, link, local, outcome, world, spent>>

InstallRoot(o) ==
  /\ pc[o] = "installRoot"
  /\ "root" \notin pending[target[o]]
  /\ root' = [root EXCEPT ![target[o]].generation = IF @ = 0 THEN 1 ELSE @]
  /\ Goto(o, "forwardRoot")
  /\ UNCHANGED <<main, secrets, homeToken, link, local, outcome, world, spent>>

(* WaitForPodReady, then PortForward. *)
ForwardRoot(o) ==
  /\ pc[o] = "forwardRoot"
  /\ link' = [link EXCEPT ![o] = "root"]
  /\ Goto(o, "mount")
  /\ UNCHANGED <<root, main, secrets, homeToken, local, outcome, world, spent>>

(* Variant: the error of this call ends the run. *)
MountTransitStrict(o) ==
  /\ pc[o] = "mount"
  /\ \/ /\ link[o] = "root" /\ "transit" \notin root[target[o]].knows
        /\ root' = [root EXCEPT ![target[o]].knows = @ \cup {"transit"}]
        /\ Goto(o, "key") /\ UNCHANGED <<link, local, outcome>>
     \/ /\ link[o] # "root" \/ "transit" \in root[target[o]].knows
        /\ Exit(o, "err") /\ UNCHANGED root
  /\ UNCHANGED <<main, secrets, homeToken, world, spent>>

(* The error of this call is ignored: it is one when the engine is there.  *)
MountTransit(o) ==
  /\ pc[o] = "mount"
  /\ \/ /\ link[o] = "root"
        /\ root' = [root EXCEPT ![target[o]].knows = @ \cup {"transit"}]
        /\ UNCHANGED spent
     \/ link[o] # "root" /\ UNCHANGED <<root, spent>>
     \/ SpendFault(o) /\ UNCHANGED root
  /\ Goto(o, "key")
  /\ UNCHANGED <<main, secrets, homeToken, link, local, outcome, world>>

HasTransit(o) == link[o] = "root" /\ "transit" \in root[target[o]].knows

(* Writing a key that exists changes nothing. *)
CreateKey(o) ==
  /\ pc[o] = "key"
  /\ HasTransit(o)
  /\ root' = [root EXCEPT ![target[o]].knows = @ \cup {"key"}]
  /\ Goto(o, "policy")
  /\ UNCHANGED <<main, secrets, homeToken, link, local, outcome, world, spent>>

PutPolicy(o) ==
  /\ pc[o] = "policy"
  /\ link[o] = "root"
  /\ root' = [root EXCEPT ![target[o]].knows = @ \cup {"policy"}]
  /\ Goto(o, "token")
  /\ UNCHANGED <<main, secrets, homeToken, link, local, outcome, world, spent>>

CreateUnsealToken(o) ==
  /\ pc[o] = "token"
  /\ link[o] = "root"
  /\ transitTok' = [transitTok EXCEPT ![o] = root[target[o]].generation]
  /\ Goto(o, "deleteSecret")
  /\ UNCHANGED <<root, main, secrets, homeToken, link, target, rootToken,
                 outcome, world, spent>>

(* The error of this call is ignored.  The pod that is up keeps, and goes  *)
(* on renewing, the token that it has started with.                        *)
DeleteUnsealSecret(o) ==
  /\ pc[o] = "deleteSecret"
  /\ \/ /\ unsealToken' = [unsealToken EXCEPT ![target[o]] = 0]
        /\ lease' = [lease EXCEPT ![target[o]] = "unused"]
        /\ UNCHANGED spent
     \/ SpendFault(o) /\ UNCHANGED <<unsealToken, lease>>
  /\ Goto(o, "createSecret")
  /\ UNCHANGED <<root, main, credSecret, homeToken, link, local, outcome, world>>

CreateUnsealSecret(o) ==
  /\ pc[o] = "createSecret"
  /\ unsealToken[target[o]] = 0
  /\ unsealToken' = [unsealToken EXCEPT ![target[o]] = transitTok[o]]
  /\ Goto(o, "installMain")
  /\ UNCHANGED <<root, main, lease, credSecret, homeToken, link, local, outcome,
                 world, spent>>

-----------------------------------------------------------------------------
(* The main server. *)

InstallMain(o) ==
  /\ pc[o] = "installMain"
  /\ "main" \notin pending[target[o]]
  /\ main' = [main EXCEPT ![target[o]].installed = TRUE]
  /\ Goto(o, "forwardMain")
  /\ UNCHANGED <<root, secrets, homeToken, link, local, outcome, world, spent>>

(* WaitForPodReady, then PortForward. *)
ForwardMain(o) ==
  /\ pc[o] = "forwardMain"
  /\ MainReady(target[o])
  /\ link' = [link EXCEPT ![o] = "main"]
  /\ Goto(o, "initStatus")
  /\ UNCHANGED <<root, main, secrets, homeToken, local, outcome, world, spent>>

InitStatus(o) ==
  /\ pc[o] = "initStatus"
  /\ link[o] = "main"
  /\ Goto(o, IF main[target[o]].key = 0 THEN "init" ELSE "readToken")
  /\ UNCHANGED <<root, main, secrets, homeToken, link, local, outcome, world, spent>>

CanInit(o) == link[o] = "main" /\ main[target[o]].key = 0 /\ CanSeal(target[o])

(* Variant: the error of Init is not looked at. *)
InitMainUnchecked(o) ==
  /\ pc[o] = "init"
  /\ \/ /\ CanInit(o)
        /\ main' = [main EXCEPT ![target[o]].key = root[target[o]].generation,
                                ![target[o]].sealed = FALSE]
        /\ rootToken' = [rootToken EXCEPT ![o] = target[o]]
     \/ ~CanInit(o) /\ UNCHANGED <<main, rootToken>>
  /\ Goto(o, "saveLocal")
  /\ UNCHANGED <<root, secrets, homeToken, link, target, transitTok, outcome,
                 world, spent>>

InitMain(o) ==
  /\ pc[o] = "init"
  /\ CanInit(o)
  /\ main' = [main EXCEPT ![target[o]].key = root[target[o]].generation,
                          ![target[o]].sealed = FALSE]
  /\ rootToken' = [rootToken EXCEPT ![o] = target[o]]
  /\ Goto(o, "saveLocal")
  /\ UNCHANGED <<root, secrets, homeToken, link, target, transitTok, outcome,
                 world, spent>>

(* os.WriteFile truncates the file first; its error is ignored. *)
SaveLocal(o) ==
  /\ pc[o] = "saveLocal"
  /\ \/ homeToken' = [homeToken EXCEPT ![o] = rootToken[o]] /\ UNCHANGED spent
     \/ /\ SpendFault(o)
        /\ homeToken' \in {homeToken, [homeToken EXCEPT ![o] = EmptyFile]}
  /\ Goto(o, "deleteCred")
  /\ UNCHANGED <<root, main, secrets, link, local, outcome, world>>

(* Variant: what is in the secret is left there. *)
DeleteCredSecretNot(o) ==
  /\ pc[o] = "deleteCred"
  /\ Goto(o, "createCred")
  /\ UNCHANGED <<root, main, secrets, homeToken, link, local, outcome, world, spent>>

(* The error of this call is ignored. *)
DeleteCredSecret(o) ==
  /\ pc[o] = "deleteCred"
  /\ \/ credSecret' = [credSecret EXCEPT ![target[o]] = NoToken] /\ UNCHANGED spent
     \/ SpendFault(o) /\ UNCHANGED credSecret
  /\ Goto(o, "createCred")
  /\ UNCHANGED <<root, main, unsealToken, lease, homeToken, link, local, outcome, world>>

(* An error of this call is only printed. *)
CreateCredSecret(o) ==
  /\ pc[o] = "createCred"
  /\ \/ /\ credSecret[target[o]] = NoToken
        /\ credSecret' = [credSecret EXCEPT ![target[o]] = rootToken[o]]
        /\ UNCHANGED spent
     \/ credSecret[target[o]] # NoToken /\ UNCHANGED <<credSecret, spent>>
     \/ SpendFault(o) /\ UNCHANGED credSecret
  /\ Goto(o, "listAuth")
  /\ UNCHANGED <<root, main, unsealToken, lease, homeToken, link, local,
                 outcome, world>>

(* Variant: no check for an empty token. *)
StoredTokenUnchecked(o) ==
  IF homeToken[o] = NoToken THEN credSecret[target[o]] ELSE homeToken[o]

(* The file if it can be read, be it empty, else the secret. *)
StoredToken(o) ==
  IF homeToken[o] = NoToken THEN credSecret[target[o]]
  ELSE IF homeToken[o] = EmptyFile THEN NoToken ELSE homeToken[o]

ReadToken(o) ==
  /\ pc[o] = "readToken"
  /\ StoredToken(o) # NoToken
  /\ rootToken' = [rootToken EXCEPT ![o] = StoredToken(o)]
  /\ Goto(o, "listAuth")
  /\ UNCHANGED <<root, main, secrets, homeToken, link, target, transitTok,
                 outcome, world, spent>>

ListAuth(o) ==
  /\ pc[o] = "listAuth"
  /\ Accepted(o)
  /\ Goto(o, IF "enabled" \in main[target[o]].auth THEN "configAuth" ELSE "enableAuth")
  /\ UNCHANGED <<root, main, secrets, homeToken, link, local, outcome, world, spent>>

CanEnable(o) == Accepted(o) /\ "enabled" \notin main[target[o]].auth

EnableAuth(o) ==
  /\ pc[o] = "enableAuth"
  /\ CanEnable(o)
  /\ main' = [main EXCEPT ![target[o]].auth = @ \cup {"enabled"}]
  /\ Goto(o, "configAuth")
  /\ UNCHANGED <<root, secrets, homeToken, link, local, outcome, world, spent>>

ConfigAuth(o) ==
  /\ pc[o] = "configAuth"
  /\ Accepted(o)
  /\ main' = [main EXCEPT ![target[o]].auth = @ \cup {"configured"}]
  /\ Exit(o, "ok")
  /\ UNCHANGED <<root, secrets, homeToken, world, spent>>

-----------------------------------------------------------------------------
(* How a run ends early. *)

(* The next call is refused, or times out because what it waits for cannot *)
(* happen.                                                                 *)
Refuse(o) ==
  /\ \/ pc[o] = "installRoot" /\ "root" \in pending[target[o]]
     \/ pc[o] = "key" /\ ~HasTransit(o)
     \/ pc[o] \in {"policy", "token"} /\ link[o] # "root"
     \/ pc[o] = "createSecret" /\ unsealToken[target[o]] # 0
     \/ pc[o] = "installMain" /\ "main" \in pending[target[o]]
     \/ /\ pc[o] = "forwardMain" /\ ~MainReady(target[o])
        /\ main[target[o]].pod # 0 \/ ~CanStart(target[o])
     \/ pc[o] = "initStatus" /\ link[o] # "main"
     \/ pc[o] = "init" /\ ~CanInit(o)
     \/ pc[o] = "readToken" /\ StoredToken(o) = NoToken
     \/ pc[o] \in {"listAuth", "configAuth"} /\ ~Accepted(o)
     \/ pc[o] = "enableAuth" /\ ~CanEnable(o)
  /\ Exit(o, "err")
  /\ UNCHANGED <<root, main, secrets, homeToken, world, spent>>

(* The next call fails without effect, or the process is killed.  Nothing  *)
(* is undone.                                                              *)
Fault(o) ==
  /\ pc[o] # "idle"
  /\ SpendFault(o)
  /\ Exit(o, "err")
  /\ UNCHANGED <<root, main, secrets, homeToken, world>>

(* Helm is killed with the run (exec.CommandContext at deploy.go:61 and    *)
(* :199).  Its release is left pending, with the objects of the chart      *)
(* created or not, and helm refuses to upgrade a pending release.          *)
HelmKilled(o) ==
  /\ SpendFault(o)
  /\ \/ /\ pc[o] = "installRoot"
        /\ pending' = [pending EXCEPT ![target[o]] = @ \cup {"root"}]
        /\ root' \in {root, [root EXCEPT ![target[o]].generation =
                                   IF @ = 0 THEN 1 ELSE @]}
        /\ UNCHANGED main
     \/ /\ pc[o] = "installMain"
        /\ pending' = [pending EXCEPT ![target[o]] = @ \cup {"main"}]
        /\ main' \in {main, [main EXCEPT ![target[o]].installed = TRUE]}
        /\ UNCHANGED root
  /\ Exit(o, "err")
  /\ UNCHANGED <<secrets, homeToken, rootStops, restarts>>

DeployStep(o) ==
  \/ InstallRoot(o) \/ ForwardRoot(o) \/ MountTransit(o) \/ CreateKey(o)
  \/ PutPolicy(o) \/ CreateUnsealToken(o) \/ DeleteUnsealSecret(o)
  \/ CreateUnsealSecret(o) \/ InstallMain(o) \/ ForwardMain(o)
  \/ InitStatus(o) \/ InitMain(o) \/ SaveLocal(o) \/ DeleteCredSecret(o)
  \/ CreateCredSecret(o) \/ ReadToken(o) \/ ListAuth(o) \/ EnableAuth(o)
  \/ ConfigAuth(o)

-----------------------------------------------------------------------------
(* What the cluster does by itself: pods stop (node remove drains them) and *)
(* start again.                                                             *)

RootRestart(c) ==
  /\ root[c].generation \in 1 .. MaxGeneration - 1
  /\ rootStops < MaxRootStops /\ rootStops' = rootStops + 1
  /\ root' = [root EXCEPT ![c] = [generation |-> @.generation + 1, knows |-> {}]]
  /\ DropLinks(c, "root")
  /\ UNCHANGED <<main, secrets, homeToken, pc, local, outcome, pending, restarts,
                 spent>>

MainStop(c) ==
  /\ main[c].pod # 0
  /\ restarts < MaxRestarts /\ restarts' = restarts + 1
  /\ main' = [main EXCEPT ![c].pod = 0, ![c].sealed = TRUE]
  /\ lease' = [lease EXCEPT ![c] = IF @ = "used" THEN "unused" ELSE @]
  /\ DropLinks(c, "main")
  /\ UNCHANGED <<root, unsealToken, credSecret, homeToken, pc, local, outcome,
                 pending, rootStops, spent>>

(* An initialised server unseals itself if the key is the one it was       *)
(* sealed with.                                                            *)
MainStart(c) ==
  /\ main[c].pod = 0 /\ CanStart(c)
  /\ main' = [main EXCEPT ![c].pod = unsealToken[c],
                          ![c].sealed = @ /\ main[c].key # root[c].generation]
  /\ lease' = [lease EXCEPT ![c] = "used"]
  /\ UNCHANGED <<root, unsealToken, credSecret, homeToken, pc, link, local,
                 outcome, world, spent>>

(* Nothing has renewed the token in the secret for 24 hours (deploy.go:123),*)
(* which is longer than a run takes.                                       *)
Expire(c) ==
  /\ unsealToken[c] # 0 /\ lease[c] = "unused"
  /\ \A o \in Operators : pc[o] = "idle" \/ target[o] # c
  /\ lease' = [lease EXCEPT ![c] = "expired"]
  /\ UNCHANGED <<root, main, unsealToken, credSecret, homeToken, pc, link, local,
                 outcome, world, spent>>

Next ==
  \/ \E o \in Operators :
       \/ \E c \in Clusters : StartDeploy(o, c)
       \/ DeployStep(o) \/ Refuse(o) \/ Fault(o) \/ HelmKilled(o)
  \/ \E c \in Clusters :
       RootRestart(c) \/ MainStop(c) \/ MainStart(c) \/ Expire(c)

Spec == Init /\ [][Next]_vars

-----------------------------------------------------------------------------
(* Repeating the deployment on one cluster until it succeeds: each machine *)
(* in its turn, one run after the other.                                   *)

Rerun(o) ==
  \/ /\ outcome[o] # "ok" /\ \A p \in Operators : pc[p] = "idle"
     /\ StartDeploy(o, target[o])
  \/ DeployStep(o) \/ Refuse(o) \/ Fault(o) \/ HelmKilled(o)

RetryNext ==
  \/ \E o \in Operators : Rerun(o)
  \/ \E c \in Clusters :
       RootRestart(c) \/ MainStop(c) \/ MainStart(c) \/ Expire(c)

(* Strong fairness, because a machine whose runs are all refused is as     *)
(* often idle as not: the others get their turn.                           *)
RetrySpec ==
  /\ Init /\ [][RetryNext]_vars
  /\ \A o \in Operators : SF_vars(Rerun(o))
  /\ \A c \in Clusters : WF_vars(MainStart(c))

-----------------------------------------------------------------------------
(* Properties. *)

(* Between Sys().Init and the creation of the credentials secret the root  *)
(* token exists in one process only; unless a fault hits that window, the  *)
(* secret of an initialised server has its token whatever else runs beside *)
(* (deploy.go:240 to deploy.go:275: the only run that deletes the secret   *)
(* is the one that initialised the server).                                *)
CredentialsKept ==
  saveFaults = 0 =>
    \A c \in Clusters :
      Initialized(c) /\ (\A o \in Operators : pc[o] \in Saving => target[o] # c)
        => credSecret[c] = c

(* Unless the root server restarts by itself, a main server that is up is  *)
(* not sealed once it is initialised, however often it restarts and        *)
(* however many later runs upgrade the root server and replace the unseal  *)
(* token (deploy.go:53 to deploy.go:147).                                  *)
UnsealedWhenUp ==
  rootStops = 0 =>
    \A c \in Clusters : Initialized(c) /\ main[c].pod # 0 => ~main[c].sealed

Holders == [c \in Clusters |-> {o \in Operators : pc[o] \in Saving /\ target[o] = c}]

Custody == [c \in Clusters |-> IF ~Initialized(c) THEN "unissued"
                               ELSE IF credSecret[c] = c THEN "stored"
                               ELSE IF Holders[c] # {} THEN "held" ELSE "lost"]

Token == INSTANCE BaoToken WITH custody <- Custody, holders <- Holders,
                                mishaps <- saveFaults

(* The root token is given out once, to one run, although InitStatus at    *)
(* deploy.go:229 may be stale when Init is called; the run stores it, or a *)
(* mishap loses it; and no later run, whatever it overtakes, deletes or    *)
(* replaces what is stored (deploy.go:240 to deploy.go:275).               *)
TokenSpec == Token!Spec

(* What repeating the deployment does not get over: *)

(* - a release that a killed helm has left pending; *)
ReleasePending(c) == pending[c] # {}

(* - a root server that has restarted: lost is the transit key that seals  *)
(*   the data, or, before Init, the token that the main server's pod runs  *)
(*   with until it restarts too;                                           *)
KeyLost(c) ==
  IF Initialized(c) THEN main[c].key # root[c].generation
  ELSE main[c].pod \notin {0, root[c].generation}

(* - a stored token that is not the server's: the file of a former cluster *)
(*   or an empty one, which deploy.go:279 prefers to the secret, or a      *)
(*   secret that was never replaced, with no file to go by;                *)
WrongToken(o) == Initialized(target[o]) /\ StoredToken(o) # target[o]

(* - a chart whose pod is Ready only once it is initialised.               *)
NeverReady(c) == ~Initialized(c) /\ ~ReadyUninitialised

(* Whichever calls fail, and whatever restarts or expires, repeating the   *)
(* deployment succeeds on every machine that is not in one of the four     *)
(* states above for good: every step can be done again (the ignored mount  *)
(* error, the deleted and created secrets, helm upgrade --install), and    *)
(* the token is found by the later runs, those of other machines included. *)
DeployConverges ==
  \A o \in Operators :
    \/ <>[](outcome[o] = "ok" /\ pc[o] = "idle")
    \/ <>[](\/ ReleasePending(target[o]) \/ KeyLost(target[o])
           \/ WrongToken(o) \/ NeverReady(target[o]))

=============================================================================
