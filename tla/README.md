# TLA+ specifications of kaas-bifrost

`bifrost` is a command line tool that turns machines into a Kubernetes
cluster with `kubeadm` over SSH, installs a platform into it, and manages
tenants. Every command is a short-lived process that makes one remote call
after the other. There is no lock, no journal and no undo: several operators
may run commands at once, a command may stop after any call, and recovery is
running a command again. That is what these specifications are about.

Contents: [system](#the-system) ·
[modules](#modules-and-how-they-correspond-to-the-code) ·
[runs](#what-the-runs-show) ·
[disagreements](#where-code-and-documentation-disagree) · [bounds and
fairness](#bounds-symmetry-and-fairness) · [proofs](#what-is-proved) · [not
modelled](#what-is-not-modelled) · [plan](#plan)

## The system

| part | state | operations | what makes it correct |
|---|---|---|---|
| **Bootstrap** `internal/provisioner`, `commands/init.go` | `joinCmd` in memory; `admin.conf`, `kubelet.conf` on the hosts; the local kubeconfig | PingNodes, Init, JoinWorkers, InstallCilium | running init again is harmless, and is enough after a failure; kubeconfig and workers belong to the same cluster |
| **Node removal** `commands/node.go`, `internal/k8sclient` | Node objects, their cordon mark, the host's credentials | find, cordon, drain, `kubeadm reset`, delete | no host is left with credentials and without a Node object; nothing is drained or reset that is not cordoned |
| **Drain** `K8sclient.go` DrainNode | the pods of the cluster, a list made once | list, delete each, poll, give up after five minutes | a drained node is empty of what the drain is about; only pods of that node are evicted; it ends |
| **Readiness waits** `K8sclient.go` WaitFor..., InstallCilium | rollout status, written by controllers | helm, three waits | success means that pods were ready; no state on the way is taken for a failure; a wait ends |
| **Port-forward** `portforward.go` | a goroutine, three channels, two fixed local ports | PortForward, stop | no run talks to another run's server; no goroutine or listener is left |
| **SSH client** `internal/sshclient` | a connection, a session and a goroutine per command | New, Connect with retries, Run, Close | a command runs at most once and its result is the host's; a denial is not retried; nothing is left open; a call ends |
| **Tenant manager** `internal/tenant`, `commands/tenant.go` | namespaces, their labels, eight objects in each | Add (nine calls), Remove, List | Add succeeds only for a complete tenant; the tier shown is the tier enforced; foreign namespaces are not adopted; a failed Add can be recovered from |
| **OpenBao deployment** `internal/bao/deploy.go` | two servers, two secrets, `~/.bifrost/bao-token` | DeployAndConfigure | the root token is not lost; the server is initialised once; it unseals itself; a failed deployment can be repeated |
| **OpenBao tenants** `internal/bao/bao.go` | policy, role and secrets per tenant; tokens that tenants hold | ProvisionTenant, DeprovisionTenant | no login without a policy; a removed tenant has no access left |
| Harbor, ingress, security, storage, telemetry, status | none | methods that return "not implemented", constants | nothing to state |

How they interact: `bifrost init` calls Bootstrap's four phases and then
`bao.DeployAndConfigure`; the first three work over the SSH client, the others
through the kubeconfig that Init has written. `bifrost node remove` goes
through the same kubeconfig and then over SSH to the host. `bifrost tenant`
only uses the kubeconfig. The deployment uses the waits and two port-forwards.
Shared state lives outside the processes: on hosts, in the API server, in two
files in the operator's home. Inside a process there are goroutines in two
places only, `Run` and `PortForward`, each tied to its caller by channels.

The hard behaviours: commands of two operators interleaving between two calls;
kubeadm leaving credential files behind when it fails; checks (`test -f`,
InitStatus, a list of pods, a rollout's status) that are stale when they are
acted upon; errors that are ignored on purpose; a window in which one process
has the only copy of a token; pods that restart and forget; a caller that has
left when its goroutine answers. `PROJECT.json` lists them at their lines under
"hazards".

## Modules and how they correspond to the code

### Cluster

**`ClusterMembership.tla`**: what init and node remove promise when they take
turns. A host gets in through a control plane that is there, and out by being
cordoned, reset and deleted, in however many runs; a host that joins again
half-way is still cordoned; removing the control plane ends the cluster. A
removal answers "ok" when its own host is out; an init when each worker it was
asked for is in, or holds the credentials of a former cluster (`"stale"`), which
init cannot tell from one that is in. **`Bootstrap.tla`**: `bifrost init` and
`bifrost node remove`. `Membership` instantiates the abstract module: `Life`
reads a host's stage off its credentials, its Node object and the cordon, and
two combinations of the three (`"orphan"`, `"dead"`) are none of its stages;
`Job` is what the command was asked to do. One action is one remote call (or the
write of the kubeconfig) with the local code up to the next call; `pc[o]` names
operator `o`'s next call, in source order. A cluster is identified by its
*epoch*, the count of successful or half-finished `kubeadm init` runs, and every
credentials file by the epoch it belongs to.

| state | in the code |
|---|---|
| `adminConf`, `kubeletConf` | the files that provisioner.go:97 and :170 test for |
| `apiUp`, `members`, `cordoned`, `epoch` | the API server, its Node objects and their `unschedulable` |
| `kubeconfig` | the file written at provisioner.go:131 |
| `asked`, `todo` | the workers of the configuration, and those that the loop of JoinWorkers has before it |
| `target`, `fetched`, `joinCmd` | locals of JoinWorkers, Init and node remove; for a removal `fetched` is the kubeconfig its client was made from |

`kubeadm` and the kubelet are external: preflight refuses a host with
leftovers; `init` and `join` may stop after they wrote credentials
(`KubeadmInitHalf`, `KubeadmJoinHalf`, switched by `HalfInit` and `HalfJoin`);
a kubelet with valid credentials registers its Node object. A half-finished
`kubeadm init` may leave an API server or none. InstallPlatform needs a worker
to run pods on, and may fail when all of them are cordoned or a member has no
kubelet (`NotReady`). A call that fails
without effect, or a process that is killed, is `Fault`; a call that the state
it finds makes fail is `Refuse`. A call whose answer is lost after it had its
effect is that call followed by `Fault`. A `test -f` that fails for another
reason than a missing file reads as "no such file", as in the code.

**`NodeDrain.tla`** composes Bootstrap with the pods of the cluster. Where
Bootstrap has a drain that is one call, here `DrainNode` is a list
(`ListPods`), one deletion per pod (`DeletePod`, `DeleteMissing`) and polls
(`PollPods`, `WaitTimeout`), and between any two of them the scheduler binds
pods, kubelets confirm deletions, pods end by themselves, and other operators
go on. `place` is a pod's `spec.nodeName`, `dying` its deletion timestamp,
`toDelete` the code's `podsToDelete`. Pods are known by name, and there are
four sorts: those of DaemonSets and mirror pods (`Resident`), which the drain
skips; those of StatefulSets (`Stateful`), which come back under their name;
those that tolerate a cordon (`Tolerant`); and the rest. `Spec` of Bootstrap is
the abstract specification: with `ClusterSpec == Spec`, `DrainSpec` has to
implement it, every step inside the drain being a stutter of hosts and
credentials.

**`BootstrapRetry.tla`**: the actions of NodeDrain in a closed system where
*builders* repeat one `init` and, when all of them have succeeded, the other
operators repeat one `node remove`, pods included.

**`Rollout.tla`**: helm and the three waits, in the order `Plan`, as
InstallCilium and DeployAndConfigure use them, against the controllers.
A workload has a revision, an old pod, a new pod, and a `status`, which is what
its controller wrote last: it starts empty and lags behind. `Chart` groups
workloads that one `helm upgrade --install` brings. A call of helm is one step:
it goes through (`HelmUpgrade`), fails with some of its objects applied, or is
killed with its parent and may leave the release `pending` (`HelmFault`), after
which helm refuses to touch it (`HelmRefuses`).

### Processes

**`RemoteCall.tla`** is what the callers of `Run` rely on, and what every
command of Bootstrap on a host assumes: at most one execution; "ok" and "fail"
are answers of the host about an execution that is over; "error" says nothing,
the command may still begin or go on. **`SshSession.tla`** is the client that
has to keep that promise: Connect with its retries and error classes, Run's
`select`, its goroutine and its channel of capacity one (`done`), cancellation,
loss of the connection, Close. Run first asks the host for a session
(`StartRun`, then `SessionOpens` or `NoSession`), a round trip during which it
looks at nothing else. `Promise` instantiates RemoteCall; a command on
its way to the host counts as not begun.

**`PortForward.tla`**: the goroutine of each forward and its channels,
`readyCh`, `errCh` and `stopCh` as `ready`, `failed` and `stopped` (how often
stopCh was closed: a second time would panic), and the two local ports for which
the processes of one machine compete.

### Platform

**`TenantLifecycle.tla`**: what add and remove promise: absent, building,
ready with the limits of the tier asked for, deleting, absent; "added" is
answered in the step that makes the tenant ready. **`TenantManager.tla`**:
the nine calls of Add, the call of Remove, and `Listing` for List. A tenant
has no record of its own, so the state is the namespaces: phase, label, tier
label, the set of objects in it, the pod limit of the quota. Namespaces of the
same name may be made without bifrost at any time (`MakeByHand`). `Lifecycle`
instantiates the abstract module with a mapping from the namespaces.
**`TenantRecovery.tla`**: operators who remove and add again after an error.

**`BaoToken.tla`**: what the later runs rely on: the main server's root token is
given out once, to one run, which stores it or loses it; losing it takes a
mishap. **`BaoDeploy.tla`**: `DeployAndConfigure`, one action per call. `Token`
instantiates the abstract module: a run is a holder from the answer of Init on
until it has written the secret or given up. A transit key, and a token for it,
is the *generation* (number of pod starts) of the root server that issued it,
because that server runs in dev mode; a root token of a main server is the
cluster it belongs to. The mount and delete errors ignored at deploy.go:95,
:143, :251, :271 and :272 are disjuncts of their actions. `RootRestart`,
`MainStop` and `MainStart` are the cluster's own steps; `Expire` ends the token
in the secret when nothing has renewed it for 24 hours (deploy.go:123), and a
main server renews it only while it runs; `HelmKilled` leaves a release
`pending`. `MainReady` is what deploy.go:207 waits for: the pod is up and not
sealed, or not initialised yet, the latter only if `ReadyUninitialised`, for
which see the [assumptions](#bounds-symmetry-and-fairness). `helm upgrade` with
unchanged values restarts nothing, and every run on one machine is one process
after the other. Its waits and its forwards are single calls here; Rollout and
PortForward show what is inside them.

**`BaoTenant.tla`**: ProvisionTenant and DeprovisionTenant, one action per
call, with tenants that log in, keep a token and store secrets. No command
calls the two methods yet, so the operators stand for whatever will; nothing in
bao.go makes them take turns, which is the constant `TakeTurns`. *Lives*
tell apart the successive tenants of one name.

### The rest

**`MCNodeDrain`, `MCTenantManager`, `MCBaoDeploy`** add symmetry sets for TLC,
**`MCRollout`** the plan and the charts. **`BootstrapProofs`,
`NodeDrainProofs`, `TenantProofs`, `BaoDeployProofs`, `BaoTenantProofs`,
`SshSessionProofs`, `PortForwardProofs`, `RolloutProofs`** hold the theorems.

Some definitions have a *variant* right before them, marked so in its comment:
the same operation with a plausible mistake. No specification uses a variant;
PROJECT.json pairs each with the property that it breaks, which shows that the
property depends on the code.

## What the runs show

| run | shows |
|---|---|
| `node_drain` | commands one at a time, any call failing, half-finished `kubeadm init`, control plane removed and rebuilt, pods coming and going: no orphaned host (`NoOrphan`), kubeconfig and control plane agree from CreateToken on (`KubeconfigCurrent`), ClusterMembership is implemented (`MembershipSpec`), drains touch cordoned nodes only (`EvictsFromCordoned`), a reset takes no running pod with it (`ResetSparesPods`), and the drain is the single call of Bootstrap (`ClusterSpec`) |
| `bootstrap_retry` | two operators repeating init, then two others repeating node remove at the same time, converge, half-finished joins and kubeadm init runs included (`InitConverges`, `RemoveConverges`; the states that nothing gets out of are named `HalfBuilt` and `HeldByPod`); init takes nothing from a cluster (`InitTakesNothing`); no drain hangs (`DrainEnds`) |
| `tenant_turns` | two racing adds, removes, failures, namespaces made by hand: only the one that created the namespace builds; a listed tier of the code is enforced with its own limits, any other with medium's; no foreign namespace is touched by Add; success means that RBAC, quotas and policies are there with the tier asked for; the lifecycle is implemented |
| `tenant_recovery` | remove and add again reaches a complete tenant from every failure |
| `bao_deploy` | two deployments at once, restarts of both servers, an expiring unseal token, helm killed, any call failing: BaoToken is implemented (`TokenSpec`), so one run at most initialises the server and nobody replaces a stored token; the secret has the token unless a fault hits its saving (`CredentialsKept`); the main server unseals after each restart unless the root server restarts by itself (`UnsealedWhenUp`) |
| `bao_retry` | two machines that repeat a failed deployment in turn both succeed, token files of former clusters, faults in the saving of the token and restarts included; what repeating does not get over is one of four named states: `ReleasePending`, `KeyLost`, `WrongToken`, `NeverReady` |
| `bao_tenant` | whatever fails, and while callers take turns: no login role without its policy (`RoleHasPolicy`); after a removal that succeeded no token opens anything (`RemovedHasNoAccess`), also with two removals at once and a name that is used again |
| `rollout` | success only for pods that have been ready (`SuccessIsEarned`); an error only for a failed call, a release left pending or pods that are never ready (`FailsForCause`); every command comes back, and repeating it converges but for the last two (`InstallConverges`) |
| `ssh_session` | losses, cancellations and silent hosts at every point: RemoteCall is implemented (`KeepsPromise`), nothing stays open, a denial is not retried (`RejectedOnce`), the client returns if the host answers the handshake and the request for a session (`ReturnsAtLast`), its goroutines end |
| `port_forward` | two processes at once, cancelled, killed or cut off anywhere: a run meets another's server only after its own ready forward was lost (`OtherServerOnlyAfterLoss`), PortForward returns when its dial ends or its context is cancelled (`PortForwardReturns`), ports are given back, and so are goroutines whose dial has ended (`LeavesNothing`) |

`InitTakesNothing` is checked here in a restricted system and proved for every
interleaving.

### Where code and documentation disagree

Each of these runs ends in a counterexample, and states what a comment says.

| run | statement | what happens |
|---|---|---|
| `bootstrap_rebuilt` | "JoinWorkers joins all worker nodes to the cluster" (provisioner.go:146) | the control plane is removed (the command itself ends with an error: after the reset there is no API server to delete the Node object, node.go:83, :90) and created again; `w1` still has the old cluster's `kubelet.conf` and is skipped as "Already joined" (provisioner.go:170), `w2` joins, and init answers ok |
| `bao_purge` | "Delete Key-Value v2 metadata to purge secrets under customers/name" (bao.go:81) | the metadata of the one path `customers/<name>` is deleted; the secrets are at paths below it and stay |

### Noted while modelling

Plain to see in the modules, and given no run of their own.

Cluster:
* An init between reset and delete of a node removal joins the host again; the
  removal then deletes the Node object of a member (node.go:83, against the
  help text at node.go:27). Hence `Exclusive`.
* After a `kubeadm init` that wrote admin.conf and then failed without an API
  server, init takes the control plane for initialised for ever and stops at the
  join token (provisioner.go:97, `HalfBuilt`). A `test -f` that fails because
  its session broke makes Init go on to `kubeadm init`, which preflight then
  refuses (provisioner.go:97).
* Nothing takes a cordon back: a node whose removal stopped after the cordon
  stays unschedulable, and init skips it as joined or, after the reset, joins
  it again still cordoned (node.go:52, `Join` in ClusterMembership).
* A node that was reset, and on which a pod was bound in spite of the cordon,
  can not be removed any more: nobody is left to confirm the deletion of the
  pod, and every drain times out before the Node object is deleted
  (K8sclient.go:122, `HeldByPod`).
* The drain deletes by name: a StatefulSet's pod that has moved in the meantime
  is deleted where it is now (K8sclient.go:107, the exception in
  `EvictsFromCordoned`).
* After an upgrade the waits for a DaemonSet and a Deployment may be satisfied
  by the status of the pods before it; neither compares generations
  (K8sclient.go:206, :231, the `old` in `SuccessIsEarned`).

Processes:
* Nothing bounds the handshake with a host that accepts and is silent
  (client.go:96) or the request for a session (client.go:127), and a cancelled
  context ends neither. A command that hangs (client.go:138) ends with the
  context only. `ReturnsAtLast` has to assume the three away.
* The SPDY dial of a port-forward has neither a deadline nor the context
  (portforward.go:35). While it hangs, PortForward can be cancelled, but its
  goroutine stays (`DialsEnd` in `PortForwardReturns` and `LeavesNothing`).
* Helm is killed with its parent (provisioner.go:222, deploy.go:61, :199) and
  may leave its release pending; every later init then ends with "another
  operation is in progress" until somebody rolls it back (`pending` in Rollout
  and BaoDeploy).
* The port of a forward that was lost can be taken by another process while
  the client still talks to it (deploy.go:213, the exception in
  `OtherServerOnlyAfterLoss`).

Platform:
* Remove and a second add during an add: the first returns success for half a
  tenant (tenant.go:237).
* The help of `tenant add` lists an OpenBao path and policy, a Harbor project,
  and ingress, TLS and DNS as parts of the tenant (commands/tenant.go:28-33).
  The command prints a line for each, does nothing, and says "provisioned
  successfully" (commands/tenant.go:56-65, TODO); `AddReturnsComplete` is about
  what Add itself promises.
* Remove deletes any namespace of the name, tenant or not (tenant.go:252).
  `Listing` contains tenants that are being removed, while tenant.go:259 says
  "active tenants". Any `--quota` is accepted and shown, with the limits of
  medium (commands/tenant.go:147 names three tiers; the exception in
  `ListedTierEnforced`).
* The process may die with the only copy of the root token (deploy.go:259, "for
  fallback retrieval"), and the token file of another cluster is preferred to
  the cluster's own secret (deploy.go:278, "Retrieve persisted root token").
* A restart of the dev-mode root server loses the key, and the main server
  stays sealed from its next start on (todo.md:60, `RootRestart`, `KeyLost`).
* An empty or foreign token file makes every later run on that machine fail,
  although the secret has the token (deploy.go:279, `WrongToken`).
* The token that a second deployment puts into the unseal secret is renewed by
  nobody until the main server restarts with it. After 24 hours it has expired,
  and the restart fails until the next deployment (deploy.go:123, `Expire`).
* deploy.go:207 waits for the main server's pod to be Ready before it
  initialises it. The readiness probe of the OpenBao chart, which the values at
  deploy.go:151-181 do not override, is not part of the repository; with one
  that denies a server that is not initialised no deployment ever succeeds
  (`WaitsForReadyBeforeInit`).
* A tenant's tokens live for 24 hours. When its name is provisioned again, the
  removed tenant's tokens open the new tenant's secrets (bao.go:56).

## Bounds, symmetry and fairness

Two operators are enough for every pairwise race; a third adds no new kind of
overlap, as a command reads nothing of another command but the shared state. Two
workers let a loop of JoinWorkers be interrupted between two. `MaxEpoch` 2
allows one rebuilt control plane, `MaxGeneration` 2 one restart of the root
server, `MaxRestarts` 1 a restart of the main server. `MaxFaults` bounds the
calls that fail without a reason in the state; refusals are not bounded.
`BaoDeploy` counts apart the two mishaps that its promises do not survive:
`saveFaults`, faults that hit the saving of the root token, and `rootStops`,
root servers that restart by themselves. Both happen in `bao_deploy` (2.03
million states), where the two properties that cannot survive them say so, and
in `bao_retry` (658,000 states), which shows what they do to later runs.
`tenant_turns` uses one name, since nothing relates two names, and the three
tiers that the switch tells apart ("xl" is one the code does not know).

`node_drain` has one pod of each sort that the drain tells apart, a DaemonSet's
(`a1`), a StatefulSet's (`s1`) and one that tolerates the cordon (`d1`);
`MaxEnds` 1 lets one pod end between the list and its deletion (1.06 million
states). `bootstrap_retry` has two pods and no spontaneous ends; its four
operators are two for init and two for the removal (41,000 states). `rollout`
has one workload of each kind in the order of the two commands, one upgrade
(`MaxRevision` 2), one crash and one fault, which may be a helm that is killed,
and may have a relay that never gets ready. `ssh_session` has one client, since
clients share nothing, with three attempts, two commands and no bound on losses
or cancellations; `MaxTries` stands for the two minutes of the retry.
`port_forward` has the two ports of the code and two processes, each of which
runs once. `bao_tenant` uses a name twice; `MaxLives` counts its removals.

`Exclusive` and `TakeTurns` switch the discipline of operators on: with it the
runs show what the code guarantees to careful operators, without it what it
guarantees to all. In BaoTenant (`TakeTurns` there too) provisioning and removal
of one tenant take turns, and two of a kind may overlap. `node_drain` leaves out
the half-finished join, which by itself makes a host with credentials and no
Node object, until its kubelet registers; that case is in `bootstrap_retry`.
Half-finished `kubeadm init` runs are in both. Symmetry (operators; workers,
names, clusters) is used in runs without liveness only.

`ReadyUninitialised` is TRUE in the runs: the deployment is then about what the
code does after it got past deploy.go:207. FALSE leaves nothing to check there,
as `WaitsForReadyBeforeInit` proves.

Fairness is stated where a property needs it. It is weak but for one case.

* `RetrySpec` of BootstrapRetry and of BaoDeploy, `RecoverSpec` of
  TenantRecovery, `Install` of Rollout: the operator types the command again
  until it succeeds, and a remote call returns at last, with its effect or an
  error. Faults are finite.
* The cluster's own loops: the namespace controller finishes a deletion, a
  kubelet with valid credentials registers and confirms deletions, the
  scheduler binds pods, a controller starts pods and writes their status, a pod
  that can start does. That a pod ends by itself, crashes, or that a kubelet
  without credentials does anything, is never assumed.
* `Spec` of SshSession and of PortForward: the process is scheduled; for
  SshSession, that dialling has a timeout (client.go:87) and a lost connection
  is noticed. Not assumed: that a host finishes a handshake, opens a session or
  ends a command, that a dial of PortForward ends, that anybody cancels. Where a
  property needs one of these, it is its antecedent.

Nothing is assumed of the order in which operators proceed, except in
`bao_retry`: its two machines deploy one after the other, because two that
repeat a failed deployment in lockstep can fail at each other's unseal secret
(deploy.go:143, :144) for ever. A machine whose runs are all refused is idle
again and again, so that the other one's turn comes and goes; that the other one
takes it in the end is the strong fairness of `RetrySpec` there.
`TenantRecovery` assumes that nobody makes a namespace of the name by hand while
the operator is at it. The runs with `CHECK_DEADLOCK FALSE` are systems that
stop: everybody has succeeded, or every process has ended.

## What is proved

TLAPS checks the following for every set of operators, hosts, pods, names,
tiers, clients, processes and workloads and for every bound, from the
assumptions that the modules name (`BootstrapAssumption`, `RetryAssumption`,
`PodsAssumption`, `TenantAssumption`, `BaoAssumption`, `BaoTenantAssumption`,
`SshAssumption`, `PortAssumption`, `RolloutAssumption`); TLC evaluates each of
them in a run. All invariants, action properties and refinements that hold in
the runs are among the theorems.

`BootstrapProofs`

* `TypeCorrect`: `TypeOK` is inductive.
* `InitIsHarmless`: `InitTakesNothing`, with no discipline assumed. It needs
  `NoAdminNoCluster`, that an API server is up or a member listed only while
  the control plane has an admin.conf; then the preflight of
  `kubeadm init`, which refuses a host with leftovers, protects the cluster.
* `NoHostIsOrphaned`, `KubeconfigIsCurrent`, `DrainsAreCordoned`: commands one
  at a time and no half-finished join imply `NoOrphan`, `KubeconfigCurrent` and
  `DrainsCordoned`. None is inductive: what a command may rely on depends on
  how far it has come, so the invariant `Turns` adds what is known at each `pc`
  and that at most one `pc` is not idle.
* `ImplementsMembership`: with the same discipline, `Spec => MembershipSpec`.
  `InOrder` adds that a running cluster has its control plane in it and that a
  member without credentials is cordoned, so that `Life` has four values
  (`LivesAt`). Each call that changes the cluster maps to the step of its name,
  or to a stutter where it repeats what an earlier run has done; kubelets have
  nothing to register. What a command may answer depends on what it has done:
  `Handled` says that each worker an init was asked for, and has not before it
  any more, has credentials, and `ResetFirst` that the host of a removal has
  none between reset and deletion.

`NodeDrainProofs`

* `DrainTypeCorrect`: `DrainTypeOK`, for every interleaving.
* `ImplementsCluster`: `DrainSpec => Spec`. Every step of the pods, and every
  step inside DrainNode but its last, leaves Bootstrap's variables alone; the
  last is `DrainNode` or `Refuse` there. So the theorems above hold with pods
  too (`TurnsAreSafeWithPods`), `MembershipSpec` included.
* `RepeatedInitIsHarmless`: `RetrySpec => InitTakesNothing`, for operators who
  repeat init and node remove at the same time.
* `ResetIsGentle`: with commands one at a time, `ResetSparesPods`. The
  strengthening says that from the end of the drain to the reset the target is
  cordoned and has no pods but those that a cordon does not stop (`Emptied`);
  it rests on `DrainsCordoned`, lifted by the refinement.
* `EvictionIsConfined`: `EvictsFromCordoned`; what is still to delete is on the
  cordoned target, is a StatefulSet's, or has gone (`Chosen`).

`TenantProofs`

* `TypeCorrect`: `TypeOK`, no discipline assumed.
* `BuilderIsAlone`, `ListedTierIsEnforced`: with `TakeTurns`, `SoleBuilder` and
  `ListedTierEnforced`. The strengthening, `TurnsInv`, says that while an Add
  is building, the namespace is active, has that Add's tier, and contains just
  the objects before `step`; nobody removes it; limits match the label.
* `AddIsComplete`: `AddReturnsComplete` follows at the last of the nine calls,
  where the objects before `step` and the one created are all of them.
* `AddAdoptsNothing`: `NoAdoption`, with `TakeTurns`. While an Add is building,
  nobody removes the namespace that it has made, so no other can take its place.
  Without turns one can, and the later calls land in it.
* `ImplementsLifecycle`: `Spec => LifecycleSpec`. Creating the namespace maps
  to `Begin`, the last object to `Complete`, the deletion to `Remove`, the end
  of the namespace to `Gone`, an error to `Fail`, everything else to a stutter;
  that an object in the middle does not complete a tenant is `SoleBuilder`.
* `RecoveryIsCommands`: `RecoverSpec => Spec`, so all of this holds of operators
  who remove and add again after errors.

`BaoDeployProofs`

* `TypeCorrect`: `TypeOK`. That Init finds a running root server with a
  generation is `RootInstalled`.
* `NeverSealedWhenUp`: `UnsealedWhenUp`. `KeyCurrent` adds that the key of an
  initialised server is of the generation of the root server that runs; while
  no root server restarts by itself, a generation changes only before the first
  initialisation, and a main server unseals with that key at each start.
* `CredentialsAreKept`: `CredentialsKept`, from `TokenSafe`. Its parts: a run
  that is saving has the token of the server it initialised, and no secret has
  it yet (`SaverHasToken`); there is one such run per server (`OneSaver`); a
  server that is not initialised has no token stored (`NoTokenBefore`); before
  the secret is created the old one is gone, unless a fault hit its deletion
  (`ClearedFirst`). Every step leaves all that the parts speak of alone
  (`Quiet`), gives the token out, carries it on, stores it, or drops it
  (`TokenSteps`, `SaveKinds`), which leaves five cases in place of one per call.
* `ImplementsToken`: `Spec => TokenSpec`, by the same five cases: `Given` maps
  to `Issue`, `Puts` to `Store` or, into a secret that a failed deletion has
  left, to `Lose`, `Drops` to `Lose`, `Carries` to `Mishap` or a stutter.
* `RetriesAreDeployments`: `RetrySpec => Spec`.
* `WaitsForReadyBeforeInit`: if `ReadyUninitialised` is FALSE, no main server is
  ever initialised, because no run gets a forward to one.

`BaoTenantProofs`

* `TypeCorrect`, `RolesHavePolicies`, `RemovalEndsAccess`: `TypeOK`,
  `RoleHasPolicy` and `RemovedHasNoAccess`, with `TakeTurns`, from one
  invariant. A call relies on those before it, so `Progress` states at each `pc`
  what is there or gone already; that no removal undoes it is `KindsApart`.

`SshSessionProofs`

* `TypeCorrect`: `TypeOK`. That no attempt is made past the limit, no second
  connection opened and no goroutine started twice is part of it, so it needs
  `Connecting` (what Connect holds at each point) and `InTurn`.
* `NothingIsLeftOpen`, `RejectionIsFinal`: `NothingLeftOpen` and `RejectedOnce`,
  from `Connecting`.
* `RunKeepsPromise`: `Spec => KeepsPromise`. The invariant `Conveyed` says that
  what travels through goroutine and channel is the host's result or an error;
  `InTurn` that commands follow one another. StartRun maps to `Ask`, the
  host's steps to `Begin` and `End`, the answers to `Report` and `GiveUp`,
  everything else to a stutter.
* `SelectsAreWoken`, `GoroutinesCanEnd`: what liveness of Run rests on. Its
  `select` has an answer in the channel or a goroutine that will write one; and
  a goroutine left behind by a client that has returned finds its session
  closed and its channel empty, so the capacity of one is enough. The invariant
  is `Channels`: one write per channel, sessions for the current call only.

`PortForwardProofs`

* `TypeCorrect`, `PortsAreOwn`: `TypeOK` and `OtherServerOnlyAfterLoss`, because
  a goroutine that serves has its port (`ServesItsPort`) and a port is used only
  after readyCh was closed (`UsesReady`).
* `SelectsAreWoken`, `NothingIsForgotten`: what liveness of PortForward rests
  on. Its `select` has a channel to read or a goroutine that will get to one;
  a run that has returned has closed stopCh of every goroutine that did not end
  by itself, and only such goroutines hold its ports. The invariant is `Tidy`.

`RolloutProofs`

* `TypeCorrect`: `TypeOK`, for every plan and chart. The status is bounded
  because old and new pod exist together for Deployments only (`OneAtATime`).
* `SuccessMeansReady`, `FailureHasCause`: `SuccessIsEarned` and `FailsForCause`.
  `Evidence` traces
  every status, however stale, to a pod that was ready; `WaitedFor` carries
  that through the waits behind.

The invariants named here were checked by TLC on the runs' instances before
they were proved.

Only model-checked: the liveness properties (`InitConverges`,
`RemoveConverges`, `DrainEnds`, `TenantConverges`, `DeployConverges`,
`InstallConverges`, `ReturnsAtLast`, `GoroutinesEnd`, `PortForwardReturns`,
`LeavesNothing`), which need fairness and ENABLED and are out of the prover's
reach.

## What is not modelled

What helm does inside a call, beyond its outcomes; the content of Kubernetes
objects beyond the pod limit; rendering of templates;
paths, logging and output; `ReplaceLoopback`; repository updates of helm; the
recovery keys of OpenBao; SealStatus; the texts that `isRetryableDialError`
looks for, beyond the two classes it makes of them; the branch of JoinWorkers
for a missing join command, which no command reaches. The packages harbor,
ingress, security, storage and telemetry and `bifrost status` have no
behaviour.

## Plan

1. Done: the modules above with their theorems. An abstract specification is
   implemented by each of Bootstrap, NodeDrain, SshSession, TenantManager and
   BaoDeploy.
2. When a command calls ProvisionTenant and DeprovisionTenant: their
   composition with `TenantManager`.
