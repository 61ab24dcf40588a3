# A TLA+ verification of karpenter-provider-ssh

karpenter-provider-ssh is a karpenter cloud provider whose "cloud" is a fixed
pool of machines reachable over SSH. Launching an instance means claiming a free
`SSHHost` object, running an install and a join script on the machine and
waiting for its kubelet to register; terminating one means running a leave
script and giving the host back. There is no cloud API that remembers who owns
what: the `SSHHost` status *is* the database, and several controllers write it
concurrently from caches that lag behind the API server. That is what this
project models.

## The system

| Part | Source (`src/`) | Modelled by |
|---|---|---|
| `SSHHost` resource: state, claim, providerID, token record, install marker, pin | `pkg/apis/v1beta1/sshhost_types.go` | `SSHHost`, `PhaseExecution` |
| Host provider: claim lock, release, fenced status writes | `pkg/providers/host/host.go` | `SSHHost`, `HostPool` |
| Instance provider: Create, join, release, Delete, leave, reboot | `pkg/providers/instance/{instance,leave}.go` | `HostPool`, `PhaseExecution`, `InstanceTypes` |
| Host probe: maintenance, stale claims, token collection, zombie guard | `pkg/controllers/hostprobe.go` | `HostPool`, `PhaseExecution` |
| Bootstrap token Secrets | `pkg/providers/bootstrap/bootstrap.go` | `HostPool` (existence of the Secret) |
| Startup taint gate | `pkg/controllers/startuptaintgate.go` | `StartupTaintGate` |
| `SSHNodeClass`: readiness and finalizer | `pkg/controllers/nodeclass.go`, `pkg/apis/v1beta1/sshnodeclass_types.go` | `NodeClass` |
| CloudProvider: readiness gate, hash stamp, drift, deletion | `pkg/cloudprovider/cloudprovider.go` | `CloudProvider` (composed with `NodeClass`), `InstanceTypes` |
| Instance types: grouping, minimum capacity, availability, choice of a host | `pkg/providers/instancetype/instancetype.go`, `instance.go` | `InstanceTypes` |
| Join profiles: validation, rendering, environment | `internal/profile/profile.go` | `PhaseExecution` |
| SSH execution, verified exec, shim | `internal/sshexec`, `shim/kpssh-shim` | `PhaseExecution` |
| karpenter core, kubelets, the operator, the API server | external | each module, from how the code uses them |

How they interact: core calls `Create` until it returns, records the providerID,
and later calls `Delete` until it reports the instance gone. The probe reconciles
every host on a timer and on changes. All three read hosts from one informer
cache and write with an optimistic lock on `resourceVersion`. What `Create` may do
is decided by the class (`NodeClass`, `CloudProvider`), which host it takes by the
instance types, and what runs on the host by the join profile.

The system is cut where its parts share little state. `HostPool` has the hosts, the
claims and their concurrent writers, and treats a phase as something that works
or fails. `PhaseExecution` opens that step up, on a host that has one caller at a
time, which is what `HostPool` shows of it. `CloudProvider` sees of a host only what
the last join left there. `InstanceTypes` sees of a launch only the choice.

## Modules

* **`SSHHost`**: the fields of the object that the controllers branch on
  (`HostObject`) and the pure transitions on it: the claim fence `ClaimHeldBy`,
  the filter `Claimable`, what Claim, Release, the stale-claim release and the
  maintenance switch write, and `MergePatch`, the field-wise merge patch.
* **`HostPool`**: the state machine. One action per API write, SSH phase or
  Secret operation of `Create`, `Delete` and the probe's `Reconcile`, and one
  per step of the environment.
* **`HostLease`**: the abstract specification. Each host has a holder, each
  NodeClaim a phase. Hosts are acquired only when free and only for a NodeClaim
  that exists or once existed, and a launched NodeClaim never loses its host.
* **`PhaseExecution`**: a phase from the caller (launch, Delete, zombie guard,
  Reboot) to the script: reading the configuration, the checks that need no
  connection, dialling against the pinned key, opening a session, the checks of
  the shim, the script, the deadlines, and what each caller makes of each class of
  error.
* **`StartupTaintGate`**: one Node, its taints and pods, the gates of its class,
  and the reconciler with its caches, watches, predicates and rechecks.
* **`NodeClass`** and **`CloudProvider`**: the class, its profile and its hosts behind
  caches; the reconciler with its finalizer; on top of it the NodeClaims, Create
  with the class it read, IsDrifted and Delete.
* **`InstanceTypes`**: the loop of `List`, a step per host in any order, and the
  launch that walks its result while the pool changes.
* **`MCHostPool`**, **`MCPhaseExecution`**, **`MCStartupTaintGate`**,
  **`MCCloudProvider`**, **`MCInstanceTypes`**: finite instances for TLC.
* **`HostPoolProofs`** (types), **`HostPoolClaimProofs`** (claims and copies),
  **`HostPoolLeaseProofs`** (launches, and the refinement of `HostLease`),
  **`HostPoolTokenProofs`** (what a release leaves behind), **`PhaseExecutionProofs`**,
  **`StartupTaintGateProofs`**, **`CloudProviderProofs`** and **`InstanceTypesProofs`**:
  theorems and proofs.

### HostPool: state and code

`sshHost` is what the API server stores. `copy[w][h]` is the object actor `w` (the
informer cache, a Create or Delete call of a NodeClaim, the probe of a host)
holds, and `fresh[h]` the actors whose copy has the current `resourceVersion`. A
write by `w` succeeds iff `w \in fresh[h]`; a conflict is the other case. `Sync`
is the informer catching up; it may skip versions. `create`, `delete` and `probe`
hold the program counter and the local variables of the calls in progress.
`nodeClaim` is what core knows, `tokens` the Secrets, `kubelet` the process on each
machine, `nodes` the Node objects with the host's internal IP.

Points where the translation is not line by line:

* Hosts are `1 .. NHosts` in the order `Available` offers them: one host class.
* providerIDs are static, a function of the host (see *Not modelled* for Adopt).
* One profile version (`PhaseExecution` has several): `installed` stands both for "the marker is current"
  (install) and "the marker is not empty" (leave).
* NodeClaims and Nodes are read without lag. Core's NodeClaim informer triggered
  the call, so only a deletion could be seen late.
* A read of the cache and the NodeClaim and Node lookups after it are one step;
  SSH is a step of its own. The probe interval is abstracted: a probe may run at
  any time, so every timing of it is included.
* A script does not outlive its session (`runSession` closes the connection).
* Token ids are random, so a new one equals none still stored anywhere.
* An error before the first write of a Reconcile is the same as not starting it.
  A lost response to the last write of a call is the same as its success.
* A merge patch that changes nothing keeps the version in `SetStatus`.
  `HandleZombie` does not make that exception, which only adds staleness.
* A phase that fails may or may not have had its effect (`Join`, `LeaveHost`).
* Conflict retries are bounded in the code (`retry.DefaultBackoff`); giving up is
  counted as a failure.

### PhaseExecution: state and code

`call[h]` is the phase in progress on a host: who asked, which phase, how far it
is (`read` the configuration, record the `token`, `check`, `dial`, `open` a session,
`session`) and what it read (profile, pin, private key). `machine[h]` is the machine that answers at
the address, with its key and its kubelet. An error is one of the classes the
callers tell apart: a `configError`, another error before the connection
(`local`), a failing API, anything that happened on or on the way to the host
(`remote`), and the shim's exit status for an unknown phase.

A script is abstracted to what rendering does with it (nothing to do, actions on
fields, actions on the class's vars, a parse error), a signature to its signer
and whether it is over these bytes, a secret to what its conversion to
environment variables does. Rendering, validating, verifying and framing are
modelled by what they accept. The class controller's `Reconcile` is one step here;
its own races are `NodeClass`'s subject. A launch asks for install and join, and
skips install on a host whose marker is current.

A machine may go silent at any point of a call (`stuck`). In the handshake the
deadline of the connection ends the wait, in a session the timeout of the phase
does (`Deadline`). In between, `client.NewSession` waits with neither
(`sshexec.go:181-192`): such a call is `Stalled`, and only the machine or the network
can end it (`StallEnds`), which they need not do. A probe can stall there too
(`ProbeStalls`); otherwise its own session is part of the one step `Probe`.

### StartupTaintGate: state and code

The Node, the pods and the class each have a cache that trails the server on its
own. `queued` is the Node's request in the work queue, `recheck` a running
`RequeueAfter`, `work` a Reconcile between its reads and its patch. `nodeSynced` and
`work.fresh` stand for `resourceVersion`, so that the lock is exact without
counting versions. The watch predicates decide which cache updates wake the
reconciler. `everReady` and `everHeld` are history variables that the properties use.
The model keeps that the gate matches taints by key alone.

### NodeClass and CloudProvider: state and code

Class, profile, hosts and NodeClaims each have a cache; updates need a current
copy (`work.fresh`), the status patch does not, as in the code. `join` is the value of
the fields that `JoinHash` covers, so the hash is taken to be injective, and every
join-affecting edit gives a value the class never had before: an edit that
restores an earlier value is not modelled (a drift reported from a cache that
lags behind such an edit would be out of date). `Create` reads the class once; the
join, the return and the stamp use that copy. A list of hosts whose selector does not
parse is an error of `Gate`, not an empty pool. `Delete` gives the host back by the
host's own marker, without the class, may fail and is called again until it answers
that nothing is left. NodeClaims of an earlier release
carry a hash of another algorithm version.

### InstanceTypes: state and code

`listing` is a `List` call: the hosts it read, the ones its loop has visited and the
`classInfo` of each class so far. `VisitHost` is one turn of the loop and takes the
hosts in any order, since the cache promises none; `Catalogue` is what the call
returns at the end. A launch resolves the types, walks them cheapest first and
claims the candidates of each. `steady` is the set of hosts nobody touched since
`List` read them: the properties promise something about those only. Any write of a
host counts, a probe's heartbeat included, since it makes the claim of a launch that
holds the older copy fail. A request may name the types it accepts. Quantities are
integers, and of the overhead only `kubeReserved` is kept.

## Runs

`tlc -config <run>.cfg <MC module>`. Every bound is a constant with a name.

| Run | Module | Instance | Checks |
|---|---|---|---|
| `name_reuse` | `MCHostPool` | 1 host, 2 NodeClaims of one name, 1 fault anywhere, 3 probes | claim and state agree; the guard's leave is fenced; join runs only under its own claim; a launched NodeClaim keeps its host and providerID; no annotated host is claimed; `HostPool` implements `HostLease` |
| `progress` | `MCHostPool` | 1 host, 1 NodeClaim, 1 failing phase, probes without end | a release is clean and deletes the token; deletions end, launches settle, tokens are collected, leftover kubelets stopped |
| `recovery` | `MCHostPool` | 1 host that may start with a foreign kubelet, 1 NodeClaim, 1 fault, probes without end | stale claims are released, no host is stuck in Leaving |
| `phases` | `MCPhaseExecution` | 1 host in 13 settings, 10 profiles, 2 machines, 1 edit, 1 failure or hang | only signed scripts on Verified hosts; only pinned machines; whom a failed launch and a failed reboot blame; every call ends or is stalled; stranded kubelets are disconnected |
| `taint_gates` | `MCStartupTaintGate` | 3 taints, 2 gate lists, 1 pod, 2 Node updates, 2 pod changes, 1 edit, 1 fault, 1 rejoin | no early opening, no lost write; no waiting gate is forgotten; an open gate lifts its taint |
| `node_class` | `MCCloudProvider` | 1 NodeClaim that may be of an earlier release, 2 edits, 1 fault | Ready converges; drift is real and edits roll out; the class's deletion ends and strands no NodeClaim |
| `instance_types` | `MCInstanceTypes` | every pool of 3 hosts out of 7 specifications, visited in every order, 1 change during a launch | the catalogue is what the pool warrants, whatever the order; no false exhaustion; cheapest first; the claimed host fits |

Why these bounds reach the interesting cases:

* `HostPool`: a host needs one probe before its first claim, one more to be
  disturbed by, and a third to see the outcome. The races involve one host and
  two writers, so one host with two NodeClaims, or one with its own retry, shows
  them. One fault at *any* point of *any* call (API error, lost response, crash,
  forced deletion, annotation) is what the recovery paths are written for;
  `recovery` was also run with two, in a longer run than is kept here. Two
  token ids are one in use and one left over. Symmetry (token ids; the two
  NodeClaims of one name) is used in safety runs only.
* `PhaseExecution`: the settings and profiles are a good one of each mode and, for
  every input of a phase, one in which just that input is wrong. One edit
  replaces the profile, the key Secret or the machine at any point of a call.
* `StartupTaintGate`: a taint with a pod gate, one with a condition gate and one
  that no startup taint declares; a second Node update is what races the patch
  after the first one has opened a gate.
* `NodeClass`: the second edit is the one that races the reaction to the first.
* `InstanceTypes`: three hosts make a class with a minimum, a conflict and a rest,
  beside another class. The specifications differ in each field the loop looks at:
  class, capacity (one that declares pods, one unusable) and architecture (one not probed).

Runs with bounded probes, and the runs of bounded environments without timers,
switch deadlock checking off: once the bounds are used up the instance has
nothing left to do. `progress`, `recovery` and `phases`, which probe without end,
check it.

**Fairness.** In `HostPool`, `CreateStep`, `DeleteStep` (core requeues until done),
`ProbeStep` (`RequeueAfter` on every return), `Sync` (a watch delivers) and core's
finalizer are weakly fair, each per object, as in controller-runtime, where a busy
object does not starve another. In `PhaseExecution` a call in progress goes on, a
deadline fires and an idle host is probed; nothing makes a silent machine speak. In
`StartupTaintGate` and `NodeClass` workers take requests, caches catch up and timers fire; in `CloudProvider` core
retries Create and Delete and replaces drifted NodeClaims. Nothing is assumed of
operators, of provisioning, of kubelet registration, of faults or failures, nor of
the order of steps of different workers.

### Disagreements between code and documentation

These runs are expected to end in a counterexample. Each checks what a comment in
the repository says; `PROJECT.json` quotes it.

| Run | What happens |
|---|---|
| `successor_node` | a repeated Delete passes its claim fence on a lagging cache and runs leave under the next NodeClaim |
| `claim_resumed` | the response to Claim is lost and the cache has not seen it: the retried Create claims a second host |
| `token_collection` | the Node of the previous NodeClaim is taken for the new one, and an unused token is deleted |
| `config_blames_host` | a secret with a line break for a Verified host: the launch parks a host it never connected to |
| `phase_unbounded` | a machine goes silent after the handshake and before it opens the session: no deadline and no context ends the call |

Also met while modelling, and not checked by a run:

* A crash after the token is recorded (`instance.go:384-389`): the resumed Create
  records another token over it, and the first Secret lives until its TTL.
* Clearing the token record fails and the deletion of the Secret does not
  (`instance.go:432-438`): the Release that follows is a merge patch against an
  object whose record is already empty, so the record stays on the host, although
  `host.go` describes a release as one patch that resets the host.
* `Release(healthy=false)` leaves the Ready condition True until the next probe,
  although a comment in `hostprobe.go` calls it derived so that "the two can never
  disagree".
* A Node that registers again under the name it had before (only with
  `providerIDSource: Adopt`): a pod of the previous Node that the garbage collector
  has not removed yet opens a `podsReady` gate (`startuptaintgate.go:163`).
  `GateNeverOpensEarly` excepts the case.
* The gate removes every taint with the key of a startup taint, whatever its
  effect (`startuptaintgate.go:193-200`): a permanent NodePool taint with the same
  key goes too. `docs/concepts.md:156` says that it "is left alone", and a comment
  (`startuptaintgate.go:68`) that "a gate can never touch a permanent taint".
* A bootstrap token that the API refuses to create or to record
  (`instance.go:374-377`, `389-392`) is not a `configError`: on a host that needs no
  install, the launch parks a host it never touched, although `instance.go:315` says
  of everything up to the first phase that "failures here are configErrors, so
  Create releases the host back to Available". `OnlyHostFaultsPark` names the case.
* The finalizer of a class is there because "removing the class first would strand
  their Delete path" (`nodeclass.go:104`, and so `sshnodeclass_types.go:251`). Delete
  takes host and credentials from the `SSHHost` and never reads the class, so a class
  that goes first strands nothing, as `NoClaimStranded` shows with a finalizer that
  misses a NodeClaim.
* A probe's heartbeat between List and the claim makes a launch pass over a host that
  was free throughout, and with enough of them report the pool exhausted.
* A class event that arrives before the NodeClaim shows its `nodeName` maps to no
  Node and is not repeated (`startuptaintgate.go:301`). `OpenGateLiftsTaint` and
  `PendingGateWatched` except it.
* A host that declares zero cpu or memory is left out of the shape of its class
  (`instancetype.go:93-110`) and can still be claimed for it. `LaunchFits` speaks of
  the others.
* A class counts a free host that is annotated for maintenance as available, which
  `Available` then refuses. `NoFalseExhaustion` says that this is the only such case.
* A class that is being deleted no longer updates its Ready condition, so a Create
  under way trusts the last one. `NoClaimStranded` excepts it.

## Proofs

`tlapm` on the eight proof modules. The theorems hold for every value of the
constants: any number of hosts, NodeClaims, tokens, profiles, signers, keys,
taints, pods, host classes and resources, and any bounds. Every invariant and
action property that a passing run checks has one.

**`HostPool`.** Assumptions: `NHosts` and the bounds are naturals (or probes
unbounded), the "none" values are not members of the sets, and NodeClaims have
distinct, non-empty UIDs (they come from the API server).

* `TypeCorrect`: `Spec => []TypeOK`. The types alone are not inductive: a step that
  uses `create[c].host` needs it to be a host. `Typed` adds which program counters
  have a host.
* `ClaimAndStateAgree`: `Spec => []ClaimMatchesState`. A patch is computed from the
  writer's copy, so the argument must speak of copies. `ClaimInv` says that every
  copy, fresh or stale, has matching claim and state; that a *fresh* copy agrees
  with the server in state, claim and providerID; that a Create past its claim
  carries its own claim on its copy; and what the probe's pending object may
  change. Then every merge patch that passes the lock changes claim and state
  together.
* `LeavingKeepsLaunchesOut`: `Spec => []LeaveIsFenced`, from the same invariant: a
  probe in its leave holds a copy that is Leaving and unclaimed, and no other
  actor's fresh copy admits a claim of a Leaving host.
* `JoinOnlyOwnHosts`, `LaunchedKeepHosts`: `Spec => []JoinOwnsHost` and
  `Spec => []LaunchedKeepsHost`. `LaunchInv` adds to `ClaimInv` what ties claims to
  calls and NodeClaims: a Create past its token record owns its host on the server,
  and its providerID once that is written; a Delete runs alone, for a NodeClaim that
  is no longer live; a launched NodeClaim has no Create left that could release its
  host; the object a probe is about to write keeps the claim it read, or drops one
  whose NodeClaim is gone; and every claim is one of a NodeClaim that once existed,
  so that a claim found stale stays stale until the patch lands. `Evolves` says what
  a step may do to a claim, a call and a NodeClaim; every action is shown to be such
  a step, and `LaunchInv` to survive every such step.
* `MaintenanceKeepsClaimsOut`: `Spec => NoClaimUnderMaintenance`. By `Evolves`, a claim
  appears on a free host only through a Create whose fresh copy was claimable.
* `PoolImplementsLease`: `Spec => ImplementsLease`. A step of `Evolves` changes the
  claim on one host or the lifecycle of one NodeClaim, never both; `LaunchInv` gives
  the guards of `Acquire`, `Surrender` and `Launch`, and the rest are stutters.
* `ReleaseCleansHost`: `Spec => [](faults = 0 => ReleasedHostIsClean)`, and
  `ReleaseLeavesNoToken`: `Spec /\ [](faults = 0) => ReleaseDeletesToken`. `faults`
  counts crashes, API errors, forced deletions and annotations; failing phases and
  lost races are not among them. `TokenInv` strengthens `ClaimInv` for such runs: a
  fresh copy *is* the object, token record and all, so the merge patch of a release
  clears every field it means to clear; every copy of an unclaimed host is clean;
  and a Create, a Delete or a probe that is about to release has deleted the token
  its copy records. `ObjectStep` says what a step of one actor may do to the objects.
  With faults neither property holds, and not because of the proof: a patch that
  fails while clearing the token record leaves the caller a copy without it, and the
  release that follows is a merge patch against that copy (see the list above); and a
  token whose deletion fails is left to its TTL.

**`StartupTaintGate`.** Assumptions: gate lists are functions on the taint keys, the
pods are finitely many, `minReady` is positive. `GateInv` is the types, the
properties, and four facts: a synced cache shows the current Node and every gate
list is one the operator chose (`CacheInv`); what the Node reports now was once
reported and, under the first Node of the name, a pod that is Ready in the cluster
or in the cache was Ready once (`HistoryInv`); and a patch whose lock can still hold
carries the server's own list of taints (`PatchInv`); and a patch that is bound to
lose its race has a successor: the write that beat it is still to be seen, or has
queued the Node (`StaleInv`).

* `NoGateForgotten`: `Spec => []PendingGateWatched`. The code does not requeue after a
  lost race, because "the winning write is an update event"
  (`startuptaintgate.go:134`); `StaleInv` is that argument, and the other ways to
  leave a Reconcile are a patch in flight, a recheck or the queue.
* `GatesOpenOnTime`: `Spec => []GateNeverOpensEarly`, a conjunct of `GateInv`.
* `OthersTaintsKept`: `Spec => OthersTaintsSurvive`, from `PatchInv`: replacing the
  whole list is harmless exactly because the lock makes the copy current.
* `TypeCorrect`: `Spec => []TypeOK`.

**`PhaseExecution`.** Assumptions: profiles and settings have their types, versions are
positive, "none" values are not members, and no signer is named like one of the
abstract signatures. `PhaseInv` adds to the types, for each
host, what a call in progress rests on: the profile and pin it read, that the pin
it read is still the effective one, that past `check` the checks succeeded *for the
profile it holds*, that past the handshake the machine is the pinned one, and that a host
in a state a probe produced has a pin and a host in use an install marker. It is
inductive because only a probe writes the pin, and a probe needs an idle host.

* `SignedScriptsOnly`: `Spec => []VerifiedRunsSigned`.
* `PinnedMachines`: `Spec => []PinnedMachineOnly`.
* `HostFaultsOnly`: `Spec => OnlyHostFaultsPark`, and `RebootAnswersRight`:
  `Spec => RebootVerdictRight`. `HowCallsEnd` lists the ways a step can end a phase,
  with its error; the theorems go through that list.
* `TypeCorrect`: `Spec => []TypeOK`.

**`NodeClass` and `CloudProvider`.** Assumptions: the bounds are naturals, the
NodeClaims of an earlier release are among the NodeClaims.

* `ProviderTypes`: `Spec => []TypeOK`, which includes that a class whose Ready
  condition was set carries the finalizer. `FinalizerOK` makes it inductive: a
  Reconcile that is about to patch the status, or whose cached copy has the
  finalizer, works on a class that has it or no longer exists.
* `DriftedIsBehind`: `Spec => []DriftIsReal`. Join values and profile versions only go
  up, and a cache only catches up (`VersionsOK`, `Advance`). `ClaimOK` says of each
  NodeClaim that its host was joined with values once in the caches, that its stamp
  is what the host was joined with, although the class may be edited between gate,
  join and stamp, and that a drifted one is *behind* in one of the two values, which
  no later step can undo.

**`InstanceTypes`.** Assumptions: capacities, requests and reservations are integer
functions of resources, hosts declare cpu and memory, prices are integers.
`CatalogueInv` has three parts. `ListOK`: the `classInfo` of a class accounts for the
members visited so far (the greatest common shape, the architectures seen, whether
one is free). The loop of `List` is a step per host for this reason: what it computes
is then an invariant of the visited set, and needs no induction over a list.
`TypesOK`: a resolved type suits every untouched member. `WalkOK`: the types tried so
far are the cheapest, and no free host that nobody wrote is of their classes, but for the
candidates of the one at hand.

* `ExactCatalogue`: `Spec => []CatalogueIsExact`, from `ListOK` when all are visited.
* `UnwrittenHostsFound`, `CheapestClassFirst`, `LaunchedHostFits`:
  `Spec => []NoFalseExhaustion`, `Spec => []CheapestFirst`, `Spec => []LaunchFits`.

Each inductive invariant was checked by TLC on the instance of its run before it was
proved. Only model-checked are the liveness properties (`DeletionCompletes`,
`LaunchSettles`, `TokensCollected`, `ZombieDisconnected`, `StaleClaimReleased`,
`LeavingResolves`, `OpenGateLiftsTaint`, `ReadySettles`, `ClassDeletionCompletes`,
`EditRollsOut`, `NoClaimStranded`, `PhaseEnds`, `StrandedKubeletLeaves`): liveness under
fairness is out of the prover's reach.

## Not modelled

* The Adopt mode of Create: it waits for a Node with the host's address and takes
  its providerID instead of a static one. It changes the value of the providerID
  and adds a wait; modelling it needs Nodes with identities of their own in
  `HostPool`, which puts the instance out of TLC's reach.
* `Get`, `List`, `LivenessProbe`, `GetInstanceTypes` and the rest of the interface
  that only reads; the constant table of repair policies.
* Token expiry, which is kube-controller-manager's, and the cluster-info lookup.
* Bytes on the wire: SSH, the framing of envelopes, SSHSIG encoding, template
  syntax. Their verdicts are modelled, their formats are not.
* Capacity drift between the spec and the probed machine, which only raises an
  event; metrics and events, which no controller reads.
* Process wiring, flags, generated deep copies, charts and CRD manifests, which
  have no state of their own.
* NodeClaims without a UID, which core's garbage collection makes from `List` and
  deletes, and claim references without one: `ClaimHeldBy` then compares names only
  (`host.go:80-92`). `UIDAssumption` keeps them out, from the runs and from the proofs.
* Reverted edits of a class (see `NodeClass`) and scripts that outlive their session.
